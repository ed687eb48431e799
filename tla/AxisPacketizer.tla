--------------------------- MODULE AxisPacketizer ---------------------------
(***************************************************************************)
(* projects/axi4/ip/axis_packetizer_v1_0/hdl/axis_packetizer.v with        *)
(* CONTINUOUS = "FALSE", as axi4.tcl instantiates it: a number of words is *)
(* let through and then no more.                                           *)
(***************************************************************************)
EXTENDS Naturals

CONSTANT Words    \* cfg_data: what PACKETIZER_REG holds, 512

VARIABLES cntr, enbl

PacketizerInit == cntr = 0 /\ enbl = FALSE

\* Mutant: the last word is not let through.
CompMut_Short == cntr < Words - 2

Comp == cntr < Words - 1

PacketizerEdge(tready, tvalid) ==
  LET moves == tready /\ enbl /\ tvalid IN
  /\ cntr' = IF moves /\ Comp THEN cntr + 1 ELSE cntr
  /\ enbl' = ((enbl \/ Comp) /\ ~ (moves /\ ~ Comp))

PacketizerReset == cntr' = 0 /\ enbl' = FALSE
=============================================================================
