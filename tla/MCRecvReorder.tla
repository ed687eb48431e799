----------------------------- MODULE MCRecvReorder -----------------------------
(* Instance of RecvReorder for TLC: frames on both sides of the wrap of    *)
(* the 12-bit number, inside the window, at its edge, one past it and far  *)
(* past it.                                                                *)
EXTENDS RecvReorder

MCFrames == {4093, 4094, 4095, 4096, 4158, 6000}
================================================================================
