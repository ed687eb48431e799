--------------------------- MODULE MCRpmsgDevLife ---------------------------
(***************************************************************************)
(* Two channels and three minors: the minors run out after three probes.   *)
(***************************************************************************)
EXTENDS RpmsgDevLife
=============================================================================
