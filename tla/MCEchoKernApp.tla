--------------------------- MODULE MCEchoKernApp ----------------------------
(***************************************************************************)
(* An instance of EchoKernApp with payloads of a few bytes.                *)
(***************************************************************************)
EXTENDS EchoKernApp
=============================================================================
