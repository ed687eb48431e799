----------------------------- MODULE MCEchoTest -----------------------------
(***************************************************************************)
(* Instances of EchoTest with payloads of at most a few bytes.             *)
(***************************************************************************)
EXTENDS EchoTest
=============================================================================
