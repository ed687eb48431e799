----------------------------- MODULE MCAxi4Test -----------------------------
(***************************************************************************)
(* An instance of Axi4Test with short bursts and small FIFOs.              *)
(***************************************************************************)
EXTENDS Axi4Test
=============================================================================
