----------------------------- MODULE ReorderBuffer -----------------------------
(***************************************************************************)
(* What the A-MPDU reorder control of the wireless driver promises, told   *)
(* over true frame numbers instead of 12-bit sequence numbers: frames wait *)
(* in a set, are handed up in increasing order, never twice, and a frame   *)
(* once taken in stays until it is handed up.                              *)
(***************************************************************************)
EXTENDS Integers

CONSTANT Frames    \* the true numbers of the frames

VARIABLES held,    \* the frames waiting to be handed up
          last     \* the frame handed up last, -1 before the first

vars == << held, last >>

Init == held = {} /\ last = -1

Hold(n) == n > last /\ n \notin held /\ held' = held \cup {n} /\ UNCHANGED last

HandUp(n) ==
    /\ n \in held /\ \A m \in held : n <= m
    /\ held' = held \ {n} /\ last' = n

Next == \E n \in Frames : Hold(n) \/ HandUp(n)

Spec == Init /\ [][Next]_vars
================================================================================
