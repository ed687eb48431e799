---------------------------- MODULE MCMatMulDemo ----------------------------
(***************************************************************************)
(* Instances of MatMulDemo with the sizes of the source.                   *)
(***************************************************************************)
EXTENDS MatMulDemo
=============================================================================
