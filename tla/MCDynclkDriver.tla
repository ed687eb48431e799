--------------------------- MODULE MCDynclkDriver ---------------------------
(***************************************************************************)
(* A table of three words, two of them registers, and two rates: enough    *)
(* for a configuration that is half of one rate and half of the other.     *)
(***************************************************************************)
EXTENDS DynclkDriver
=============================================================================
