--------------------------- MODULE AxisRamWriter ----------------------------
(***************************************************************************)
(* projects/axi4/ip/axis_ram_writer_v1_0/hdl/axis_ram_writer.v: a stream   *)
(* enters a FIFO and leaves it in bursts to memory.  The FIFO36E1 is       *)
(* external; its ALMOSTEMPTY is down when it holds at least ae words.  The *)
(* address that goes with awvalid is the one of the word being written.    *)
(***************************************************************************)
EXTENDS Naturals, Sequences

CONSTANTS BURST, Depth

VARIABLES
  awvalid, wvalid, waddr, wfifo,
  ae            \* BURST, or one more if a word that fell through counts extra

WriterInit == awvalid = FALSE /\ wvalid = FALSE /\ waddr = 0 /\ wfifo = <<>>

WriterTready == Len(wfifo) < Depth
Wlast == waddr % BURST = BURST - 1

\* Mutant: the writer starts as soon as there is a word.
WriterEdgeMut_Start(awready, wready, tvalid, tdata) ==
  LET empty == Len(wfifo) < ae
      start == wfifo # <<>> /\ ~ awvalid /\ ~ wvalid
      last  == wready /\ Wlast
      rden  == wready /\ wvalid
  IN
  /\ awvalid' = (start \/ (awvalid /\ ~ awready) \/ (last /\ ~ empty))
  /\ wvalid' = ((wvalid \/ start) /\ ~ (last /\ empty))
  /\ waddr' = IF rden THEN waddr + 1 ELSE waddr
  /\ wfifo' = (IF rden /\ wfifo # <<>> THEN Tail(wfifo) ELSE wfifo)
                \o (IF WriterTready /\ tvalid THEN <<tdata>> ELSE <<>>)
  /\ UNCHANGED ae

\* A clock edge outside reset.
WriterEdge(awready, wready, tvalid, tdata) ==
  LET empty == Len(wfifo) < ae
      start == ~ empty /\ ~ awvalid /\ ~ wvalid
      last  == wready /\ Wlast
      rden  == wready /\ wvalid
  IN
  /\ awvalid' = (start \/ (awvalid /\ ~ awready) \/ (last /\ ~ empty))
  /\ wvalid' = ((wvalid \/ start) /\ ~ (last /\ empty))
  /\ waddr' = IF rden THEN waddr + 1 ELSE waddr
  /\ wfifo' = (IF rden /\ wfifo # <<>> THEN Tail(wfifo) ELSE wfifo)
                \o (IF WriterTready /\ tvalid THEN <<tdata>> ELSE <<>>)
  /\ UNCHANGED ae

WriterReset ==
  awvalid' = FALSE /\ wvalid' = FALSE /\ waddr' = 0 /\ wfifo' = <<>> /\ UNCHANGED ae
=============================================================================
