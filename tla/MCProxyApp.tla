----------------------------- MODULE MCProxyApp -----------------------------
(***************************************************************************)
(* An instance of ProxyApp whose buffer takes one message and a half, so   *)
(* that a remote that does not wait for answers has its messages cut.      *)
(***************************************************************************)
EXTENDS ProxyApp
=============================================================================
