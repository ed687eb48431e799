--------------------------- MODULE AxisRamReader ----------------------------
(***************************************************************************)
(* projects/axi4/ip/axis_ram_reader_v1_0/hdl/axis_ram_reader.v: bursts are *)
(* read from memory into a FIFO and leave it as a stream.  The FIFO36E1 is *)
(* external; its ALMOSTFULL is up when it holds AlmostFull words or more.  *)
(* Addresses count words from the configured base.                         *)
(***************************************************************************)
EXTENDS Naturals, Sequences

CONSTANTS
  BURST,        \* words in a burst, 16
  Depth,        \* words the FIFO holds, 512
  AlmostFull    \* 512 - ALMOST_FULL_OFFSET = 15

VARIABLES arvalid, rready, raddr, rfifo

ReaderInit == arvalid = FALSE /\ rready = FALSE /\ raddr = 0 /\ rfifo = <<>>

\* int_rden_wire, which is also m_axis_tvalid.
ReaderTvalid(tready) == tready /\ rfifo # <<>>

\* A clock edge outside reset.  The next burst is asked for when the last
\* word of the one before arrives, unless the FIFO is almost full.
ReaderEdge(arready, rvalid, rlast, rdata, tready) ==
  LET full  == Len(rfifo) >= AlmostFull
      start == ~ full /\ ~ arvalid /\ ~ rready
      last  == rready /\ rlast
  IN
  /\ arvalid' = (start \/ (arvalid /\ ~ arready) \/ (last /\ ~ full))
  /\ rready' = ((rready \/ start) /\ ~ (last /\ full))
  /\ raddr' = IF last THEN raddr + BURST ELSE raddr
  /\ rfifo' = (IF ReaderTvalid(tready) THEN Tail(rfifo) ELSE rfifo)
                \o (IF rready /\ rvalid /\ Len(rfifo) < Depth THEN <<rdata>> ELSE <<>>)

ReaderReset == arvalid' = FALSE /\ rready' = FALSE /\ raddr' = 0 /\ rfifo' = <<>>
=============================================================================
