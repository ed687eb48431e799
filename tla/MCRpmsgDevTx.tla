---------------------------- MODULE MCRpmsgDevTx ----------------------------
(***************************************************************************)
(* Small instances of RpmsgDevTx: a buffer of 3 bytes on a bus that takes  *)
(* 2, and writes shorter than, equal to and longer than both.              *)
(***************************************************************************)
EXTENDS RpmsgDevTx
=============================================================================
