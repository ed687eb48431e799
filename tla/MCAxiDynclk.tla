----------------------------- MODULE MCAxiDynclk -----------------------------
(***************************************************************************)
(* Instances of AxiDynclk: the table of the source has 13 words.           *)
(***************************************************************************)
EXTENDS AxiDynclk
=============================================================================
