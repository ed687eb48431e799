---------------------------- MODULE MCRpmsgDevRx ----------------------------
(***************************************************************************)
(* Small instances of RpmsgDevRx.  Messages of 1 and 3 bytes are padded to *)
(* 2 and 4 (Align = 2), so that one message fills the kfifo of 4 bytes and *)
(* a second one of either length is dropped or not.                        *)
(***************************************************************************)
EXTENDS RpmsgDevRx
=============================================================================
