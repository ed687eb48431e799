------------------------------ MODULE Axi4Test ------------------------------
(***************************************************************************)
(* projects/axi4: the RAM reader, the packetizer and the RAM writer in a   *)
(* row, as axi4.tcl connects them, between the memory ports and the        *)
(* program axi4_sw/axi4_test.c, which sets them up, releases their resets  *)
(* and so has Words words copied from one buffer to another.               *)
(*                                                                         *)
(* A step of Edge is a rising edge of the clock they share.  The memory    *)
(* port is external: it accepts an address and transfers a word when it    *)
(* likes, answers bursts in order and shows rlast with the last word only. *)
(* It may accept the words of a burst before its address, as AXI allows.   *)
(* Once something has gone wrong (Upset) the clock is no longer followed.  *)
(***************************************************************************)
EXTENDS Integers, Sequences

CONSTANTS
  BURST, Depth, AlmostFull, Words,
  PortWords,   \* words the memory port buffers
  MaxRuns      \* bound: how often the program is run

ASSUME Axi4Assumption ==
  /\ BURST \in Nat \ {0, 1} /\ Words \in Nat \ {0, 1} /\ Words % BURST = 0
  /\ AlmostFull \in Nat \ {0} /\ Depth \in Nat /\ AlmostFull + BURST <= Depth
  /\ PortWords \in Nat /\ MaxRuns \in Nat

VARIABLES
  arvalid, rready, raddr, rfifo,           \* reader
  cntr, enbl,                              \* packetizer
  awvalid, wvalid, waddr, wfifo, ae,       \* writer
  pc, control,                             \* the program, the control register
  clocked,     \* has an edge come since it was written?
  rq,          \* bursts read: words still to be returned
  awq, wq,     \* addresses and words of bursts written, not yet in memory
  wbeat,       \* words of the first of them that are in memory
  dst,         \* the destination buffer
  runs,        \* history: runs begun
  early,       \* history: was a word accepted before its address?
  cut,         \* history: did a reset cut off a burst?
  starved      \* history: was a word written that was not there?

portVars == <<rq, awq, wq, wbeat, dst>>
hisVars  == <<runs, early, cut, starved>>

INSTANCE AxisRamReader
INSTANCE AxisPacketizer
INSTANCE AxisRamWriter

coreVars == <<arvalid, rready, raddr, rfifo, cntr, enbl, awvalid, wvalid, waddr, wfifo, ae>>
vars == <<coreVars, pc, control, clocked, portVars, hisVars>>

\* Word i of the source buffer, which tells it from every other word and from 0, what
\* the program clears the destination with.
Src(i) == i + 1
Garbage == -1
Buffer == 0 .. Words + BURST - 1

Init ==
  /\ ReaderInit /\ PacketizerInit /\ WriterInit /\ ae \in {BURST, BURST + 1}
  /\ pc = "setup" /\ control = 0 /\ clocked = FALSE
  /\ rq = <<>> /\ awq = <<>> /\ wq = <<>> /\ wbeat = 0
  /\ dst = [i \in Buffer |-> 0]
  /\ runs = 0 /\ early = FALSE /\ cut = FALSE /\ starved = FALSE

-----------------------------------------------------------------------------
(***************************************************************************)
(* axi4_test.c.  It sets the base addresses and the packet's length, fills *)
(* and clears the buffers, writes 0, 1 and 3 to the control register (bit  *)
(* 0 the packetizer's reset, bit 1 the others') and reads the buffers back *)
(* at once.                                                                *)
(***************************************************************************)
Setup ==
  /\ pc = "setup" /\ runs < MaxRuns
  /\ dst' = [i \in Buffer |-> 0]
  /\ runs' = runs + 1
  /\ pc' = "stop"
  /\ UNCHANGED <<coreVars, control, clocked, rq, awq, wq, wbeat, early, cut, starved>>

Busy == arvalid \/ rq # <<>> \/ awvalid \/ wvalid \/ awq # <<>> \/ wq # <<>>

Control(from, value, to) ==
  /\ pc = from
  /\ control' = value /\ clocked' = FALSE
  /\ pc' = to
  /\ UNCHANGED <<coreVars, portVars, runs, early, starved>>

Stop  == Control("stop", 0, "packetizer") /\ cut' = (cut \/ Busy)
Start == \/ Control("packetizer", 1, "others") /\ clocked /\ UNCHANGED cut
         \/ Control("others", 3, "read_back") /\ clocked /\ UNCHANGED cut

\* It prints what it finds and ends; it can be run again.
ReadBack ==
  /\ pc = "read_back"
  /\ pc' = "setup"
  /\ UNCHANGED <<coreVars, control, clocked, portVars, hisVars>>

-----------------------------------------------------------------------------
(***************************************************************************)
(* A clock edge.  The memory port chooses arready, rvalid, awready and     *)
(* wready.                                                                 *)
(***************************************************************************)
OutOfReset == control = 3

Upset == early \/ cut \/ starved

EdgeWith(arready, rvalid, awready, wready) ==
  /\ ~ Upset
  /\ rvalid => rq # <<>>
  /\ wready => Len(wq) < PortWords
  /\ LET rdata  == IF rvalid THEN Src(Head(rq)) ELSE Garbage
         rlast  == rvalid /\ Head(rq) % BURST = BURST - 1
         tready == enbl /\ WriterTready
         tvalid == enbl /\ ReaderTvalid(tready)
         wdata  == IF wfifo = <<>> THEN Garbage ELSE Head(wfifo)
         awdone == awvalid /\ awready
         wdone  == wvalid /\ wready
     IN
     /\ IF OutOfReset
          THEN /\ ReaderEdge(arready, rvalid, rlast, rdata, tready)
               /\ WriterEdge(awready, wready, tvalid, IF tvalid THEN Head(rfifo) ELSE Garbage)
          ELSE ReaderReset /\ WriterReset
     /\ IF control # 0 THEN PacketizerEdge(WriterTready, ReaderTvalid(tready)) ELSE PacketizerReset
     /\ rq' = (IF rvalid /\ rready THEN Tail(rq) ELSE rq)
                \o (IF arvalid /\ arready THEN [i \in 1 .. BURST |-> raddr + i - 1] ELSE <<>>)
     /\ awq' = IF awdone THEN Append(awq, waddr) ELSE awq
     /\ wq' = IF wdone THEN Append(wq, wdata) ELSE wq
     /\ early' = (early \/ (wdone /\ ~ awdone /\ Len(wq) + wbeat >= BURST * Len(awq)))
     /\ starved' = (starved \/ (wdone /\ wfifo = <<>>))
     /\ clocked' = TRUE
     /\ UNCHANGED <<pc, control, wbeat, dst, runs, cut>>

Edge == \E arready, rvalid, awready, wready \in BOOLEAN :
          EdgeWith(arready, rvalid, awready, wready)

\* The port stores the next word of the oldest burst.
Store ==
  /\ awq # <<>> /\ wq # <<>>
  /\ LET a == Head(awq) + wbeat IN
     dst' = IF a \in Buffer THEN [dst EXCEPT ![a] = Head(wq)] ELSE dst
  /\ wq' = Tail(wq)
  /\ wbeat' = (wbeat + 1) % BURST
  /\ awq' = IF wbeat' = 0 THEN Tail(awq) ELSE awq
  /\ UNCHANGED <<coreVars, pc, control, clocked, rq, hisVars>>

Next == Setup \/ Stop \/ Start \/ ReadBack \/ Edge \/ Store

Spec == Init /\ [][Next]_vars

(***************************************************************************)
(* The clock runs and the memory port serves every channel in the end.  A  *)
(* program that was started goes on; it need not be run again.             *)
(***************************************************************************)
Fairness ==
  /\ WF_vars(Edge) /\ WF_vars(Store) /\ WF_vars(Stop \/ Start)
  /\ SF_vars(arvalid /\ \E b, c, d \in BOOLEAN : EdgeWith(TRUE, b, c, d))
  /\ SF_vars(rready /\ \E a, c, d \in BOOLEAN : EdgeWith(a, TRUE, c, d))
  /\ SF_vars(awvalid /\ \E a, b, d \in BOOLEAN : EdgeWith(a, b, TRUE, d))
  /\ SF_vars(wvalid /\ \E a, b, c \in BOOLEAN : EdgeWith(a, b, c, TRUE))

FairSpec == Spec /\ Fairness

-----------------------------------------------------------------------------
(***************************************************************************)
(* What is copied is right: a word of the destination is still clear or is *)
(* the word of the source, and nothing is written behind the packet.  It   *)
(* takes a port that accepts a burst's address no later than its first     *)
(* word, a reset that cuts off no burst, and a FIFO that is not read when  *)
(* empty; and that FIFO is never read when empty if the flag is down only  *)
(* with a word more than a burst, for the writer looks at it while the     *)
(* last word of a burst is leaving.                                        *)
(***************************************************************************)
CopyIsTrue ==
  /\ ~ Upset => \A i \in Buffer : dst[i] \in {0} \cup (IF i < Words THEN {Src(i)} ELSE {})
  /\ starved /\ ~ early /\ ~ cut => ae = BURST

(***************************************************************************)
(* The copy is completed, unless the program is run again.  If the flag of *)
(* the writer's FIFO needs a word more than a burst, the last burst of the *)
(* packet stays in the FIFO.                                               *)
(***************************************************************************)
Copied(n) == \A i \in 0 .. n - 1 : dst[i] = Src(i)
CopyEnds ==
  OutOfReset ~> (Copied(IF ae = BURST THEN Words ELSE Words - BURST) \/ Upset \/ ~ OutOfReset)
-----------------------------------------------------------------------------
(***************************************************************************)
(* The strengthening that makes CopyIsTrue inductive: word after word the  *)
(* stream lies unbroken in the read bursts, the reader's FIFO, the         *)
(* writer's FIFO and the memory port.                                      *)
(***************************************************************************)

\* s counts up from a.
Run(s, a) == s \in Seq(Int) /\ \A i \in 1 .. Len(s) : s[i] = a + i - 1

\* The next word to be read, the words let through, the words of the bursts
\* not yet wholly in memory.
NextRead == IF rq = <<>> THEN raddr ELSE raddr + BURST - Len(rq)
Passed == IF ~ enbl /\ ~ Comp THEN Words ELSE cntr
Sent == Len(wq) + wbeat

Shapes ==
  /\ raddr \in Nat /\ waddr \in Nat /\ cntr \in 0 .. Words - 1 /\ wbeat \in 0 .. BURST - 1
  /\ {arvalid, rready, enbl, awvalid, wvalid, clocked, early, cut, starved} \subseteq BOOLEAN
  /\ ae \in {BURST, BURST + 1} /\ control \in {0, 1, 3}
  /\ rfifo \in Seq(Int) /\ wfifo \in Seq(Int) /\ rq \in Seq(Int) /\ awq \in Seq(Int) /\ wq \in Seq(Int)
  /\ dst \in [Buffer -> Int]

\* One burst at a time is asked for or being read, and the FIFO has room for it.
Reading ==
  /\ raddr % BURST = 0
  /\ arvalid => rready /\ rq = <<>> /\ Len(rfifo) + BURST <= Depth
  /\ rready => arvalid \/ rq # <<>>
  /\ rq # <<>> => rready /\ Len(rq) <= BURST /\ Len(rfifo) + Len(rq) <= Depth
  /\ Run(rq, NextRead)

\* What was read and not let through, what was let through and not written.
Streaming ==
  /\ Run(rfifo, Src(Passed)) /\ Passed + Len(rfifo) = NextRead
  /\ Run(wfifo, Src(waddr)) /\ waddr + Len(wfifo) = Passed

\* The words of a burst follow its address, and the port has both in step.
Writing ==
  /\ awvalid => wvalid
  /\ awvalid \/ ~ wvalid => waddr % BURST = 0
  /\ Sent + (IF wvalid /\ ~ awvalid THEN BURST - (waddr % BURST) ELSE 0) = BURST * Len(awq)
  /\ \A i \in 1 .. Len(awq) : awq[i] = waddr - Sent + BURST * (i - 1)
  /\ Run(wq, Src(waddr - Len(wq)))
  /\ ae = BURST + 1 /\ wvalid => Len(wfifo) + (waddr % BURST) >= BURST

\* Between the runs nothing is under way, and after an edge all is as reset.
Resting ==
  /\ ~ Busy /\ ~ rready /\ wbeat = 0
  /\ clocked \/ control = 1 =>
       raddr = 0 /\ rfifo = <<>> /\ cntr = 0 /\ waddr = 0 /\ wfifo = <<>>

\* The program writes 0, 1 and 3, in this order.
Controlled ==
  /\ pc = "packetizer" => control = 0
  /\ pc = "others" => control = 1

CopyInv ==
  /\ Shapes /\ Controlled /\ CopyIsTrue
  /\ ~ Upset => IF OutOfReset THEN Reading /\ Streaming /\ Writing ELSE Resting
=============================================================================
