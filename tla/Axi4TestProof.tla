---------------------------- MODULE Axi4TestProof ---------------------------
(***************************************************************************)
(* Proof that the reader, the packetizer and the writer copy what they     *)
(* should, for bursts, FIFOs, packets and port buffers of any length and   *)
(* any number of runs of the program.                                      *)
(***************************************************************************)
EXTENDS Axi4Test, SequenceTheorems, TLAPS

-----------------------------------------------------------------------------
(***************************************************************************)
(* Remainders: the address within a burst.                                 *)
(***************************************************************************)
LEMMA RemainderIs ==
  ASSUME NEW F \in Nat \ {0}, NEW q \in Nat, NEW m \in Nat, m < F
  PROVE  (F * q + m) % F = m
<1> DEFINE k == (F * q + m) \div F
           n == (F * q + m) % F
<1>1. F * q + m \in Nat
  OBVIOUS
<1>2. k \in Nat /\ n \in Nat /\ n < F /\ F * q + m = F * k + n
  BY <1>1
<1> HIDE DEF k, n
<1>3. F * (k - q) = m - n
  BY <1>2
<1> DEFINE z == k - q
<1>4. z \in Int /\ F * z = m - n
  BY <1>2, <1>3
<1> HIDE DEF z
<1>5. ~ (z >= 1)
  <2> SUFFICES ASSUME z >= 1 PROVE FALSE
    OBVIOUS
  <2>1. F * z >= F
    BY <1>4
  <2> QED
    BY <1>2, <1>4, <2>1
<1>6. ~ (z <= -1)
  <2> SUFFICES ASSUME z <= -1 PROVE FALSE
    OBVIOUS
  <2>1. F * z <= - F
    BY <1>4
  <2> QED
    BY <1>2, <1>4, <2>1
<1>7. z = 0
  BY <1>4, <1>5, <1>6
<1>8. F * z = 0
  BY <1>7
<1>9. n = m
  BY <1>2, <1>4, <1>8
<1> QED
  BY <1>9 DEF n

\* An address and k words more, within its burst or at the start of the next.
LEMMA RemainderPlus ==
  ASSUME NEW F \in Nat \ {0}, NEW a \in Nat, NEW k \in Nat
  PROVE  /\ a % F \in Nat /\ a % F < F
         /\ (a % F) + k < F => (a + k) % F = (a % F) + k
         /\ (a % F) + k = F => (a + k) % F = 0
<1> DEFINE q == a \div F
           m == a % F
<1>1. q \in Nat /\ m \in Nat /\ m < F /\ a = F * q + m
  OBVIOUS
<1> HIDE DEF q, m
<1>2. ASSUME m + k < F PROVE (a + k) % F = m + k
  <2>1. a + k = F * q + (m + k) /\ m + k \in Nat
    BY <1>1
  <2> QED
    BY <1>1, <1>2, <2>1, RemainderIs
<1>3. ASSUME m + k = F PROVE (a + k) % F = 0
  <2>1. a + k = F * (q + 1) + 0 /\ q + 1 \in Nat
    BY <1>1, <1>3
  <2>2. (F * (q + 1) + 0) % F = 0
    BY <2>1, RemainderIs
  <2> QED
    BY <2>1, <2>2
<1> QED
  BY <1>1, <1>2, <1>3 DEF m

-----------------------------------------------------------------------------
(***************************************************************************)
(* Runs of words: what is taken from the front and added at the end.       *)
(***************************************************************************)
LEMMA RunEmpty ==
  ASSUME NEW a \in Int
  PROVE  Run(<<>>, a) /\ Len(<<>>) = 0
  BY DEF Run

\* Without its first element a run goes on from the next number.
LEMMA RunTail ==
  ASSUME NEW s, NEW a \in Int, Run(s, a), s # <<>>
  PROVE  Head(s) = a /\ Run(Tail(s), a + 1) /\ Len(Tail(s)) = Len(s) - 1 /\ Len(s) \in Nat \ {0}
<1>1. s \in Seq(Int) /\ Len(s) \in Nat \ {0}
  BY LenProperties, EmptySeq DEF Run
<1>2. /\ Head(s) = s[1] /\ Tail(s) \in Seq(Int) /\ Len(Tail(s)) = Len(s) - 1
      /\ \A i \in 1 .. Len(Tail(s)) : Tail(s)[i] = s[i + 1]
  BY <1>1
<1>3. \A i \in 1 .. Len(s) : s[i] = a + i - 1
  BY DEF Run
<1>4. Head(s) = a
  BY <1>1, <1>2, <1>3
<1>5. \A i \in 1 .. Len(Tail(s)) : Tail(s)[i] = (a + 1) + i - 1
  BY <1>1, <1>2, <1>3
<1> QED
  BY <1>1, <1>2, <1>4, <1>5 DEF Run

\* A run goes on with the number after its last.
LEMMA RunAppend ==
  ASSUME NEW s, NEW a \in Int, Run(s, a)
  PROVE  /\ Len(s) \in Nat
         /\ Run(Append(s, a + Len(s)), a) /\ Len(Append(s, a + Len(s))) = Len(s) + 1
         /\ s \o <<>> = s
         /\ s \o <<a + Len(s)>> = Append(s, a + Len(s))
<1>1. s \in Seq(Int) /\ Len(s) \in Nat
  BY LenProperties DEF Run
<1> DEFINE e == a + Len(s)
<1>2. e \in Int
  BY <1>1
<1>3. \A i \in 1 .. Len(s) : s[i] = a + i - 1
  BY DEF Run
<1> HIDE DEF e
<1>4. /\ Append(s, e) \in Seq(Int) /\ Len(Append(s, e)) = Len(s) + 1
      /\ \A i \in 1 .. Len(s) : Append(s, e)[i] = s[i]
      /\ Append(s, e)[Len(s) + 1] = e
  BY <1>1, <1>2, AppendProperties
<1>5. \A i \in 1 .. Len(s) + 1 : Append(s, e)[i] = a + i - 1
  <2> SUFFICES ASSUME NEW i \in 1 .. Len(s) + 1 PROVE Append(s, e)[i] = a + i - 1
    OBVIOUS
  <2>1. CASE i \in 1 .. Len(s)
    BY <1>3, <1>4, <2>1
  <2>2. CASE i = Len(s) + 1
    BY <1>1, <1>4, <2>2 DEF e
  <2> QED
    BY <1>1, <2>1, <2>2
<1>6. s \o <<e>> = Append(s, e)
  BY <1>1, <1>2, AppendIsConcat
<1>7. s \o <<>> = s
  BY <1>1, ConcatEmptySeq
<1>8. Run(Append(s, e), a)
  BY <1>4, <1>5 DEF Run
<1> QED
  BY <1>1, <1>4, <1>6, <1>7, <1>8 DEF e

-----------------------------------------------------------------------------
(***************************************************************************)
(* What an edge does, field by field.                                      *)
(***************************************************************************)

\* A word leaves the reader, passes the packetizer and enters the writer.
Moves == enbl /\ WriterTready /\ rfifo # <<>>

\* What the port shows of the burst being read.
LastRead == Head(rq) % BURST = BURST - 1

\* Outside reset: the reader and what it reads.
LEMMA ReaderParts ==
  ASSUME rfifo \in Seq(Int),
         NEW arready \in BOOLEAN, NEW rvalid \in BOOLEAN, NEW awready \in BOOLEAN, NEW wready \in BOOLEAN,
         EdgeWith(arready, rvalid, awready, wready), OutOfReset
  PROVE  /\ rvalid => rq # <<>>
         /\ arvalid' <=> \/ Len(rfifo) < AlmostFull /\ ~ arvalid /\ ~ rready
                         \/ arvalid /\ ~ arready
                         \/ rready /\ rvalid /\ LastRead /\ Len(rfifo) < AlmostFull
         /\ rready' <=> /\ rready \/ (Len(rfifo) < AlmostFull /\ ~ arvalid)
                        /\ ~ (rready /\ rvalid /\ LastRead /\ ~ Len(rfifo) < AlmostFull)
         /\ raddr' = IF rready /\ rvalid /\ LastRead THEN raddr + BURST ELSE raddr
         /\ rq' = (IF rvalid /\ rready THEN Tail(rq) ELSE rq)
                    \o (IF arvalid /\ arready THEN [i \in 1 .. BURST |-> raddr + i - 1] ELSE <<>>)
         /\ rfifo' = (IF Moves THEN Tail(rfifo) ELSE rfifo)
                       \o (IF rready /\ rvalid /\ Len(rfifo) < Depth THEN <<Src(Head(rq))>> ELSE <<>>)
<1> DEFINE rlast == rvalid /\ LastRead
           rdata == IF rvalid THEN Src(Head(rq)) ELSE Garbage
           tready == enbl /\ WriterTready
<1>0. Len(rfifo) < AlmostFull <=> ~ (Len(rfifo) >= AlmostFull)
  BY Axi4Assumption, LenProperties
<1>1. ReaderEdge(arready, rvalid, rlast, rdata, tready)
  BY DEF EdgeWith, LastRead
<1>2. ReaderTvalid(tready) <=> Moves
  BY DEF ReaderTvalid, Moves
<1>3. (rready /\ rlast <=> rready /\ rvalid /\ LastRead) /\ (rvalid => rdata = Src(Head(rq)))
  OBVIOUS
<1> HIDE DEF rlast, rdata, tready
<1>4. /\ rvalid => rq # <<>>
      /\ rq' = (IF rvalid /\ rready THEN Tail(rq) ELSE rq)
                 \o (IF arvalid /\ arready THEN [i \in 1 .. BURST |-> raddr + i - 1] ELSE <<>>)
  BY DEF EdgeWith
<1>5. rfifo' = (IF Moves THEN Tail(rfifo) ELSE rfifo)
                 \o (IF rready /\ rvalid /\ Len(rfifo) < Depth THEN <<Src(Head(rq))>> ELSE <<>>)
  BY <1>1, <1>2, <1>3, Zenon DEF ReaderEdge
<1>6. raddr' = IF rready /\ rvalid /\ LastRead THEN raddr + BURST ELSE raddr
  BY <1>1, <1>3, Zenon DEF ReaderEdge
<1>7. arvalid' <=> \/ Len(rfifo) < AlmostFull /\ ~ arvalid /\ ~ rready
                   \/ arvalid /\ ~ arready
                   \/ rready /\ rvalid /\ LastRead /\ Len(rfifo) < AlmostFull
  <2>1. arvalid' <=> \/ ~ (Len(rfifo) >= AlmostFull) /\ ~ arvalid /\ ~ rready
                     \/ arvalid /\ ~ arready
                     \/ rready /\ rlast /\ ~ (Len(rfifo) >= AlmostFull)
    BY <1>1, Zenon DEF ReaderEdge
  <2> QED
    BY <1>3, <2>1, <1>0
<1>8. rready' <=> /\ rready \/ (Len(rfifo) < AlmostFull /\ ~ arvalid)
                  /\ ~ (rready /\ rvalid /\ LastRead /\ ~ Len(rfifo) < AlmostFull)
  <2>1. rready' <=> /\ rready \/ (~ (Len(rfifo) >= AlmostFull) /\ ~ arvalid /\ ~ rready)
                    /\ ~ (rready /\ rlast /\ Len(rfifo) >= AlmostFull)
    BY <1>1, Zenon DEF ReaderEdge
  <2> QED
    BY <1>3, <2>1, <1>0
<1> QED
  BY <1>4, <1>5, <1>6, <1>7, <1>8

\* Outside reset: the packetizer, the writer and what it writes.
LEMMA WriterParts ==
  ASSUME NEW arready \in BOOLEAN, NEW rvalid \in BOOLEAN, NEW awready \in BOOLEAN, NEW wready \in BOOLEAN,
         EdgeWith(arready, rvalid, awready, wready), OutOfReset
  PROVE  /\ cntr' = IF Moves /\ Comp THEN cntr + 1 ELSE cntr
         /\ enbl' <=> ((enbl \/ Comp) /\ ~ (Moves /\ ~ Comp))
         /\ awvalid' <=> \/ ~ Len(wfifo) < ae /\ ~ awvalid /\ ~ wvalid
                         \/ awvalid /\ ~ awready
                         \/ wready /\ Wlast /\ ~ Len(wfifo) < ae
         /\ wvalid' <=> /\ wvalid \/ (~ Len(wfifo) < ae /\ ~ awvalid)
                        /\ ~ (wready /\ Wlast /\ Len(wfifo) < ae)
         /\ waddr' = IF wvalid /\ wready THEN waddr + 1 ELSE waddr
         /\ wfifo' = (IF wvalid /\ wready /\ wfifo # <<>> THEN Tail(wfifo) ELSE wfifo)
                       \o (IF Moves THEN <<Head(rfifo)>> ELSE <<>>)
         /\ ae' = ae
<1> DEFINE tready == enbl /\ WriterTready
           tvalid == enbl /\ ReaderTvalid(tready)
           tdata == IF tvalid THEN Head(rfifo) ELSE Garbage
<1>1. /\ WriterEdge(awready, wready, tvalid, tdata)
      /\ PacketizerEdge(WriterTready, ReaderTvalid(tready))
  BY DEF EdgeWith, OutOfReset
<1>2. (tvalid <=> Moves) /\ (Moves => tdata = Head(rfifo) /\ WriterTready)
  BY DEF ReaderTvalid, Moves
<1>3. WriterTready /\ enbl /\ ReaderTvalid(tready) <=> Moves
  BY DEF ReaderTvalid, Moves
<1> HIDE DEF tready, tvalid, tdata
<1>4. /\ cntr' = IF Moves /\ Comp THEN cntr + 1 ELSE cntr
      /\ enbl' <=> ((enbl \/ Comp) /\ ~ (Moves /\ ~ Comp))
  BY <1>1, <1>3, Zenon DEF PacketizerEdge
<1>5. wfifo' = (IF wvalid /\ wready /\ wfifo # <<>> THEN Tail(wfifo) ELSE wfifo)
                 \o (IF Moves THEN <<Head(rfifo)>> ELSE <<>>)
  BY <1>1, <1>2, Zenon DEF WriterEdge
<1> QED
  BY <1>1, <1>4, <1>5, Zenon DEF WriterEdge

\* In or out of reset: the port and the histories.
LEMMA PortParts ==
  ASSUME NEW arready \in BOOLEAN, NEW rvalid \in BOOLEAN, NEW awready \in BOOLEAN, NEW wready \in BOOLEAN,
         EdgeWith(arready, rvalid, awready, wready)
  PROVE  /\ ~ Upset
         /\ awq' = IF awvalid /\ awready THEN Append(awq, waddr) ELSE awq
         /\ wq' = IF wvalid /\ wready THEN Append(wq, IF wfifo = <<>> THEN Garbage ELSE Head(wfifo)) ELSE wq
         /\ early' = (early \/ (/\ wvalid /\ wready /\ ~ (awvalid /\ awready)
                                /\ Len(wq) + wbeat >= BURST * Len(awq)))
         /\ starved' = (starved \/ (wvalid /\ wready /\ wfifo = <<>>))
         /\ clocked' = TRUE
         /\ UNCHANGED <<pc, control, wbeat, dst, runs, cut>>
  BY DEF EdgeWith

-----------------------------------------------------------------------------
(***************************************************************************)
(* The reader.                                                             *)
(***************************************************************************)
One(b) == IF b THEN 1 ELSE 0

\* A FIFO: pop words leave at the front, push words e enter at the end.
Fifo(s, pop, push, e) == (IF pop = 1 THEN Tail(s) ELSE s) \o (IF push = 1 THEN <<e>> ELSE <<>>)

\* If its words are consecutive they stay so.
LEMMA FifoStep ==
  ASSUME NEW s, NEW a \in Int, Run(s, a), NEW pop \in {0, 1}, NEW push \in {0, 1}, pop = 1 => s # <<>>
  PROVE  /\ Run(Fifo(s, pop, push, a + Len(s)), a + pop)
         /\ Len(Fifo(s, pop, push, a + Len(s))) = Len(s) - pop + push
<1> DEFINE f == IF pop = 1 THEN Tail(s) ELSE s
           b == a + pop
           t == Fifo(s, pop, push, a + Len(s))
<1>1. Len(s) \in Nat /\ b \in Int
  BY RunAppend
<1>2. Run(f, b) /\ Len(f) = Len(s) - pop
  <2>1. CASE pop = 1
    BY <2>1, RunTail
  <2>2. CASE pop = 0
    BY <1>1, <2>2
  <2> QED
    BY <2>1, <2>2
<1>a. b = a + pop
  OBVIOUS
<1> HIDE DEF f, b, t
<1>3. a + Len(s) = b + Len(f)
  BY <1>1, <1>2, <1>a
<1>4. /\ Len(f) \in Nat
      /\ Run(Append(f, b + Len(f)), b) /\ Len(Append(f, b + Len(f))) = Len(f) + 1
      /\ f \o <<>> = f
      /\ f \o <<b + Len(f)>> = Append(f, b + Len(f))
  BY <1>1, <1>2, RunAppend, Zenon
<1>5. CASE push = 1
  <2>1. t = Append(f, b + Len(f))
    BY <1>3, <1>4, <1>5, Zenon DEF f, t, Fifo
  <2>2. Len(Append(f, b + Len(f))) = Len(s) - pop + push
    BY <1>1, <1>2, <1>4, <1>5
  <2> QED
    BY <1>4, <1>a, <2>1, <2>2, Zenon DEF t
<1>6. CASE push = 0
  <2>1. t = f
    <3>1. push # 1
      BY <1>6
    <3> QED
      BY <1>4, <3>1, Zenon DEF f, t, Fifo
  <2>2. Len(f) = Len(s) - pop + push
    BY <1>1, <1>2, <1>4, <1>6
  <2> QED
    BY <1>2, <1>a, <2>1, <2>2, Zenon DEF t
<1> QED
  BY <1>5, <1>6

\* The next word to be read, and where it is in its burst.
LEMMA NextReadIs ==
  ASSUME Shapes, Reading
  PROVE  /\ NextRead \in Nat /\ Len(rq) \in Nat /\ BURST \in Nat \ {0, 1}
         /\ rq # <<>> => /\ Len(rq) \in 1 .. BURST /\ Head(rq) = NextRead
                         /\ LastRead <=> Len(rq) = 1
<1>1. BURST \in Nat \ {0, 1} /\ raddr \in Nat /\ Len(rq) \in Nat
  BY Axi4Assumption, LenProperties DEF Shapes
<1>2. CASE rq = <<>>
  BY <1>1, <1>2 DEF NextRead
<1>3. CASE rq # <<>>
  <2>1. Len(rq) \in 1 .. BURST
    BY <1>1, <1>3, EmptySeq DEF Reading, Shapes
  <2>2. NextRead = raddr + (BURST - Len(rq)) /\ BURST - Len(rq) \in Nat /\ BURST - Len(rq) < BURST
    BY <1>1, <1>3, <2>1 DEF NextRead
  <2>3. Head(rq) = NextRead
    BY <1>1, <1>3, <2>2, RunTail DEF Reading
  <2>4. NextRead % BURST = BURST - Len(rq)
    <3>1. raddr % BURST = 0
      BY DEF Reading
    <3>2. (raddr % BURST) + (BURST - Len(rq)) < BURST
      BY <1>1, <2>2, <3>1
    <3>3. (raddr + (BURST - Len(rq))) % BURST = (raddr % BURST) + (BURST - Len(rq))
      BY <1>1, <2>2, <3>2, RemainderPlus, Zenon
    <3> QED
      BY <1>1, <2>2, <3>1, <3>3
  <2>5. LastRead <=> Len(rq) = 1
    <3>1. LastRead <=> BURST - Len(rq) = BURST - 1
      BY <2>3, <2>4 DEF LastRead
    <3>2. \A b, n \in Nat : b - n = b - 1 <=> n = 1
      OBVIOUS
    <3>3. BURST \in Nat /\ Len(rq) \in Nat
      BY <1>1
    <3> QED
      BY <3>1, <3>2, <3>3, Zenon
  <2> QED
    BY <1>1, <1>3, <2>1, <2>2, <2>3, <2>5
<1> QED
  BY <1>2, <1>3

\* What is in the reader's FIFO after an edge.
LEMMA ReaderFifo ==
  ASSUME Shapes, Reading, Streaming, OutOfReset,
         NEW arready \in BOOLEAN, NEW rvalid \in BOOLEAN, NEW awready \in BOOLEAN, NEW wready \in BOOLEAN,
         EdgeWith(arready, rvalid, awready, wready)
  PROVE  /\ Run(rfifo', Src(Passed) + One(Moves))
         /\ Len(rfifo') = Len(rfifo) - One(Moves) + One(rready /\ rvalid)
         /\ Len(rfifo) \in Nat /\ Passed \in Nat
<1>1. /\ Depth \in Nat /\ Words \in Nat \ {0, 1} /\ cntr \in Nat /\ rfifo \in Seq(Int)
      /\ Len(rfifo) \in Nat
  BY Axi4Assumption, LenProperties DEF Shapes
<1>2. Passed \in Nat /\ Src(Passed) \in Int /\ Src(Passed) + Len(rfifo) = Src(NextRead)
  <2>1. Passed \in Nat
    BY <1>1 DEF Passed
  <2>2. NextRead \in Nat /\ Passed + Len(rfifo) = NextRead
    BY NextReadIs DEF Streaming
  <2> QED
    BY <1>1, <2>1, <2>2 DEF Src
<1>3. rready /\ rvalid => Len(rfifo) < Depth /\ Head(rq) = NextRead
  <2> SUFFICES ASSUME rready, rvalid PROVE Len(rfifo) < Depth /\ Head(rq) = NextRead
    OBVIOUS
  <2>1. rq # <<>>
    BY <1>1, ReaderParts, Zenon
  <2>2. Len(rq) \in 1 .. BURST /\ Head(rq) = NextRead /\ BURST \in Nat
    BY <2>1, NextReadIs
  <2>3. Len(rfifo) + Len(rq) <= Depth
    BY <2>1 DEF Reading
  <2> QED
    BY <1>1, <2>2, <2>3
<1>4. rfifo' = (IF Moves THEN Tail(rfifo) ELSE rfifo)
                 \o (IF rready /\ rvalid THEN <<Src(Head(rq))>> ELSE <<>>)
  BY <1>1, <1>3, ReaderParts, Zenon
<1>5. (Moves => rfifo # <<>>) /\ Moves \in BOOLEAN /\ (rready /\ rvalid) \in BOOLEAN
  BY DEF Moves
<1>6. Run(rfifo, Src(Passed)) /\ (rready /\ rvalid => Src(Head(rq)) = Src(Passed) + Len(rfifo))
  BY <1>2, <1>3 DEF Streaming
<1>7. /\ Run(rfifo', Src(Passed) + One(Moves))
      /\ Len(rfifo') = Len(rfifo) - One(Moves) + One(rready /\ rvalid)
  <2> DEFINE pop == One(Moves)
             push == One(rready /\ rvalid)
  <2>1. /\ pop \in {0, 1} /\ push \in {0, 1}
        /\ pop = 1 <=> Moves
        /\ push = 1 <=> rready /\ rvalid
    BY DEF One
  <2> HIDE DEF pop, push
  <2>2. rfifo' = Fifo(rfifo, pop, push, Src(Passed) + Len(rfifo))
    BY <1>4, <1>6, <2>1, Zenon DEF Fifo
  <2>3. Run(rfifo', Src(Passed) + pop) /\ Len(rfifo') = Len(rfifo) - pop + push
    <3>1. Src(Passed) \in Int
      BY <1>2
    <3>2. Run(rfifo, Src(Passed))
      BY <1>6
    <3>3. pop \in {0, 1}
      BY <2>1
    <3>4. push \in {0, 1}
      BY <2>1
    <3>5. pop = 1 => rfifo # <<>>
      BY <1>5, <2>1
    <3>6. /\ Run(Fifo(rfifo, pop, push, Src(Passed) + Len(rfifo)), Src(Passed) + pop)
          /\ Len(Fifo(rfifo, pop, push, Src(Passed) + Len(rfifo))) = Len(rfifo) - pop + push
      BY <3>1, <3>2, <3>3, <3>4, <3>5, FifoStep, Zenon
    <3> QED
      BY <2>2, <3>6, Zenon
  <2> QED
    BY <2>3 DEF pop, push
<1> QED
  BY <1>1, <1>2, <1>7

\* The addresses of a burst.
LEMMA BurstIs ==
  ASSUME NEW a \in Nat, NEW n \in Nat \ {0}
  PROVE  LET b == [i \in 1 .. n |-> a + i - 1] IN
         Run(b, a) /\ Len(b) = n /\ b # <<>> /\ <<>> \o b = b
<1> DEFINE b == [i \in 1 .. n |-> a + i - 1]
<1>1. b \in Seq(Int) /\ Len(b) = n /\ \A i \in 1 .. n : b[i] = a + i - 1
  OBVIOUS
<1>2. b # <<>>
  BY <1>1
<1> HIDE DEF b
<1>3. <<>> \o b = b
  BY <1>1, ConcatEmptySeq
<1>4. Run(b, a)
  BY <1>1 DEF Run
<1> QED
  BY <1>1, <1>2, <1>3, <1>4 DEF b

(***************************************************************************)
(* The reader reads word after word, a burst at a time, and has room.      *)
(***************************************************************************)
LEMMA ReadingStep ==
  ASSUME Shapes, Reading, Streaming, OutOfReset,
         NEW arready \in BOOLEAN, NEW rvalid \in BOOLEAN, NEW awready \in BOOLEAN, NEW wready \in BOOLEAN,
         EdgeWith(arready, rvalid, awready, wready)
  PROVE  Reading' /\ NextRead' = NextRead + One(rready /\ rvalid)
<1>1. /\ Depth \in Nat /\ AlmostFull \in Nat /\ AlmostFull + BURST <= Depth /\ BURST \in Nat \ {0, 1}
      /\ raddr \in Nat /\ Len(rq) \in Nat /\ Len(rfifo) \in Nat /\ NextRead \in Nat
      /\ rfifo \in Seq(Int) /\ raddr % BURST = 0 /\ Run(rq, NextRead)
  BY Axi4Assumption, NextReadIs, ReaderFifo DEF Shapes, Reading
<1>2. /\ Len(rfifo') \in Nat /\ Len(rfifo') <= Len(rfifo) + 1
      /\ ~ rvalid => Len(rfifo') <= Len(rfifo)
  <2> DEFINE pop == One(Moves)
             push == One(rready /\ rvalid)
  <2>1. pop \in {0, 1} /\ push \in {0, 1} /\ (~ rvalid => push = 0)
    BY DEF One
  <2>2. Len(rfifo') = Len(rfifo) - pop + push
    BY ReaderFifo
  <2>3. Len(rfifo') \in Nat
    BY ReaderFifo, LenProperties DEF Run
  <2> HIDE DEF pop, push
  <2> QED
    BY <1>1, <2>1, <2>2, <2>3
<1>3. CASE arvalid
  <2>1. rready /\ rq = <<>> /\ ~ rvalid /\ Len(rfifo) + BURST <= Depth
    BY <1>1, <1>3, ReaderParts, Zenon DEF Reading
  <2>2. raddr' = raddr /\ NextRead = raddr /\ rready' /\ (arvalid' <=> ~ arready)
    BY <1>1, <1>3, <2>1, ReaderParts, Zenon DEF NextRead
  <2>3. CASE arready
    <3> DEFINE b == [i \in 1 .. BURST |-> raddr + i - 1]
    <3>1. rq' = <<>> \o b
      BY <1>1, <1>3, <2>1, <2>3, ReaderParts, Zenon
    <3>2. rq' = b /\ Run(b, raddr) /\ Len(b) = BURST /\ b # <<>>
      BY <1>1, <3>1, BurstIs, Zenon
    <3> HIDE DEF b
    <3>3. NextRead' = raddr
      BY <1>1, <2>2, <3>2 DEF NextRead
    <3>4. Run(rq', NextRead') /\ rq' # <<>> /\ Len(rq') = BURST
      BY <3>2, <3>3
    <3>5. Len(rfifo') + BURST <= Depth
      BY <1>1, <1>2, <2>1
    <3>6. Reading'
      BY <1>1, <2>2, <2>3, <3>4, <3>5 DEF Reading
    <3> QED
      BY <1>1, <2>1, <2>2, <3>3, <3>6 DEF One
  <2>4. CASE ~ arready
    <3>1. rq' = <<>> \o <<>>
      BY <1>1, <2>1, <2>4, ReaderParts, Zenon
    <3>2. rq' = <<>>
      BY <3>1
    <3>3. NextRead' = raddr
      BY <2>2, <3>2 DEF NextRead
    <3>4. Run(rq', NextRead') /\ Len(rfifo') + BURST <= Depth
      BY <1>1, <1>2, <2>1, <3>2, <3>3, RunEmpty
    <3>5. Reading'
      BY <1>1, <2>2, <2>4, <3>2, <3>4 DEF Reading
    <3> QED
      BY <1>1, <2>1, <2>2, <3>3, <3>5 DEF One
  <2> QED
    BY <2>3, <2>4
<1>4. CASE ~ arvalid /\ rq # <<>>
  <2>1. /\ rready /\ Len(rq) \in 1 .. BURST /\ Len(rfifo) + Len(rq) <= Depth
        /\ LastRead <=> Len(rq) = 1
        /\ NextRead = raddr + BURST - Len(rq)
    BY <1>4, NextReadIs DEF Reading, NextRead
  <2>2. rq' = IF rvalid THEN Tail(rq) ELSE rq
    <3>1. rq' = (IF rvalid THEN Tail(rq) ELSE rq) \o <<>>
      BY <1>1, <1>4, <2>1, ReaderParts, Zenon
    <3>2. rq \in Seq(Int) /\ Tail(rq) \in Seq(Int)
      BY <1>1, <1>4, RunTail DEF Run
    <3> QED
      BY <3>1, <3>2, ConcatEmptySeq
  <2>3. CASE ~ rvalid
    <3>1. rq' = rq /\ raddr' = raddr /\ ~ arvalid' /\ rready'
      BY <1>1, <1>4, <2>1, <2>2, <2>3, ReaderParts, Zenon
    <3>2. NextRead' = NextRead
      BY <3>1 DEF NextRead
    <3>3. Len(rfifo') + Len(rq) <= Depth
      BY <1>1, <1>2, <2>1, <2>3
    <3>4. Reading'
      BY <1>1, <1>4, <2>1, <3>1, <3>2, <3>3 DEF Reading
    <3> QED
      BY <1>1, <2>3, <3>2, <3>4 DEF One
  <2>4. CASE rvalid /\ Len(rq) # 1
    <3>1. /\ rq' = Tail(rq) /\ raddr' = raddr /\ ~ arvalid' /\ rready'
      BY <1>1, <1>4, <2>1, <2>2, <2>4, ReaderParts, Zenon
    <3>2. Run(rq', NextRead + 1) /\ Len(rq') = Len(rq) - 1
      BY <1>1, <1>4, <3>1, RunTail
    <3>3. rq' # <<>>
      BY <1>1, <2>1, <2>4, <3>2
    <3>4. NextRead' = NextRead + 1
      BY <1>1, <2>1, <3>1, <3>2, <3>3 DEF NextRead
    <3>5. Len(rfifo') + Len(rq') <= Depth /\ Len(rq') <= BURST
      BY <1>1, <1>2, <2>1, <3>2
    <3>6. Reading'
      BY <1>1, <3>1, <3>2, <3>3, <3>4, <3>5 DEF Reading
    <3> QED
      BY <1>1, <2>1, <2>4, <3>4, <3>6 DEF One
  <2>5. CASE rvalid /\ Len(rq) = 1
    <3>1. /\ rq' = Tail(rq) /\ raddr' = raddr + BURST
          /\ arvalid' <=> Len(rfifo) < AlmostFull
          /\ rready' <=> Len(rfifo) < AlmostFull
      BY <1>1, <1>4, <2>1, <2>2, <2>5, ReaderParts, Zenon
    <3>2. Run(rq', NextRead + 1) /\ Len(rq') = 0
      BY <1>1, <1>4, <2>5, <3>1, RunTail
    <3>3. rq' = <<>>
      BY <3>2, EmptySeq DEF Run
    <3>4. NextRead' = NextRead + 1
      <4>1. NextRead' = raddr + BURST
        BY <3>1, <3>3 DEF NextRead
      <4> QED
        BY <1>1, <2>1, <2>5, <4>1
    <3>5. raddr' % BURST = 0
      <4>1. (raddr % BURST) + BURST = BURST
        BY <1>1
      <4>2. (raddr + BURST) % BURST = 0
        BY <1>1, <4>1, RemainderPlus, Zenon
      <4> QED
        BY <3>1, <4>2
    <3>6. Len(rfifo) < AlmostFull => Len(rfifo') + BURST <= Depth
      BY <1>1, <1>2
    <3>7. Reading'
      BY <3>1, <3>2, <3>3, <3>4, <3>5, <3>6 DEF Reading
    <3> QED
      BY <2>1, <2>5, <3>4, <3>7, Zenon DEF One
  <2> QED
    BY <2>3, <2>4, <2>5
<1>5. CASE ~ arvalid /\ rq = <<>>
  <2>1. ~ rready /\ ~ rvalid
    BY <1>1, <1>5, ReaderParts, Zenon DEF Reading
  <2>2. /\ raddr' = raddr /\ (arvalid' <=> Len(rfifo) < AlmostFull) /\ (rready' <=> Len(rfifo) < AlmostFull)
        /\ rq' = <<>> \o <<>>
    BY <1>1, <1>5, <2>1, ReaderParts
  <2>3. rq' = <<>>
    BY <2>2
  <2>4. NextRead = raddr /\ NextRead' = raddr
    BY <1>5, <2>2, <2>3 DEF NextRead
  <2>5. Len(rfifo) < AlmostFull => Len(rfifo') + BURST <= Depth
    BY <1>1, <1>2
  <2>6. Run(rq', NextRead')
    BY <1>1, <2>3, <2>4, RunEmpty
  <2>7. Reading'
    BY <1>1, <2>2, <2>3, <2>5, <2>6 DEF Reading
  <2> QED
    BY <1>1, <2>1, <2>4, <2>7 DEF One
<1> QED
  BY <1>3, <1>4, <1>5

-----------------------------------------------------------------------------
(***************************************************************************)
(* The packetizer and the stream.                                          *)
(***************************************************************************)

\* The packetizer counts the words it lets through, and stops in time.
LEMMA PassedStep ==
  ASSUME Shapes, OutOfReset,
         NEW arready \in BOOLEAN, NEW rvalid \in BOOLEAN, NEW awready \in BOOLEAN, NEW wready \in BOOLEAN,
         EdgeWith(arready, rvalid, awready, wready)
  PROVE  Passed' = Passed + One(Moves) /\ Passed \in 0 .. Words
<1>1. Words \in Nat \ {0, 1} /\ cntr \in 0 .. Words - 1 /\ enbl \in BOOLEAN
  BY Axi4Assumption DEF Shapes
<1>2. Comp <=> cntr < Words - 1
  BY DEF Comp
<1>3. Comp' <=> cntr' < Words - 1
  BY DEF Comp
<1>4. /\ cntr' = IF Moves /\ Comp THEN cntr + 1 ELSE cntr
      /\ enbl' <=> ((enbl \/ Comp) /\ ~ (Moves /\ ~ Comp))
      /\ Moves => enbl
  BY WriterParts, Zenon DEF Moves
<1>5. /\ Passed = IF ~ enbl /\ ~ Comp THEN Words ELSE cntr
      /\ Passed' = IF ~ enbl' /\ ~ Comp' THEN Words ELSE cntr'
  BY DEF Passed
<1>6. CASE Moves /\ Comp
  BY <1>1, <1>2, <1>3, <1>4, <1>5, <1>6 DEF One
<1>7. CASE Moves /\ ~ Comp
  BY <1>1, <1>2, <1>3, <1>4, <1>5, <1>7 DEF One
<1>8. CASE ~ Moves
  BY <1>1, <1>2, <1>3, <1>4, <1>5, <1>8 DEF One
<1> QED
  BY <1>6, <1>7, <1>8

\* What is in the writer's FIFO after an edge, if it was not read when empty.
LEMMA WriterFifo ==
  ASSUME Shapes, Streaming, OutOfReset,
         NEW arready \in BOOLEAN, NEW rvalid \in BOOLEAN, NEW awready \in BOOLEAN, NEW wready \in BOOLEAN,
         EdgeWith(arready, rvalid, awready, wready), ~ starved'
  PROVE  /\ Run(wfifo', Src(waddr) + One(wvalid /\ wready))
         /\ Len(wfifo') = Len(wfifo) - One(wvalid /\ wready) + One(Moves)
         /\ waddr' = waddr + One(wvalid /\ wready)
         /\ Len(wfifo) \in Nat
<1>1. /\ waddr \in Nat /\ Len(wfifo) \in Nat /\ Len(rfifo) \in Nat /\ Passed \in Nat
      /\ Src(waddr) \in Int /\ Src(Passed) \in Int
  BY Axi4Assumption, LenProperties, PassedStep DEF Shapes, Src
<1>2. Run(wfifo, Src(waddr)) /\ Run(rfifo, Src(Passed)) /\ Src(Passed) = Src(waddr) + Len(wfifo)
  BY <1>1 DEF Streaming, Src
<1> DEFINE pop == One(wvalid /\ wready)
           push == One(Moves)
<1>3. /\ pop \in {0, 1} /\ push \in {0, 1}
      /\ pop = 1 <=> wvalid /\ wready
      /\ push = 1 <=> Moves
  BY DEF One
<1>4. waddr' = waddr + pop
  <2>1. waddr' = IF wvalid /\ wready THEN waddr + 1 ELSE waddr
    BY WriterParts, Zenon
  <2> QED
    BY <1>1, <2>1 DEF One
<1> HIDE DEF pop, push
<1>5. pop = 1 => wfifo # <<>>
  BY <1>3, PortParts, Zenon
<1>6. Moves => Head(rfifo) = Src(waddr) + Len(wfifo)
  BY <1>1, <1>2, RunTail DEF Moves
<1>7. wfifo' = (IF wvalid /\ wready /\ wfifo # <<>> THEN Tail(wfifo) ELSE wfifo)
                 \o (IF Moves THEN <<Head(rfifo)>> ELSE <<>>)
  BY WriterParts, Zenon
<1>8. wfifo' = Fifo(wfifo, pop, push, Src(waddr) + Len(wfifo))
  BY <1>3, <1>5, <1>6, <1>7, Zenon DEF Fifo
<1>9. /\ Run(Fifo(wfifo, pop, push, Src(waddr) + Len(wfifo)), Src(waddr) + pop)
      /\ Len(Fifo(wfifo, pop, push, Src(waddr) + Len(wfifo))) = Len(wfifo) - pop + push
  BY <1>1, <1>2, <1>3, <1>5, FifoStep, Zenon
<1>10. Run(wfifo', Src(waddr) + pop) /\ Len(wfifo') = Len(wfifo) - pop + push
  BY <1>8, <1>9, Zenon
<1> QED
  BY <1>1, <1>4, <1>10 DEF pop, push

(***************************************************************************)
(* Word after word is in one FIFO or the other.                            *)
(***************************************************************************)
LEMMA StreamingStep ==
  ASSUME Shapes, Reading, Streaming, OutOfReset,
         NEW arready \in BOOLEAN, NEW rvalid \in BOOLEAN, NEW awready \in BOOLEAN, NEW wready \in BOOLEAN,
         EdgeWith(arready, rvalid, awready, wready), ~ starved'
  PROVE  Streaming'
<1> DEFINE got == One(rready /\ rvalid)
           moved == One(Moves)
           done == One(wvalid /\ wready)
<1>1. got \in {0, 1} /\ moved \in {0, 1} /\ done \in {0, 1}
  BY DEF One
<1>2. /\ Run(rfifo', Src(Passed) + moved) /\ Len(rfifo') = Len(rfifo) - moved + got
      /\ Len(rfifo) \in Nat /\ Passed \in Nat
  BY ReaderFifo
<1>3. /\ Run(wfifo', Src(waddr) + done) /\ Len(wfifo') = Len(wfifo) - done + moved
      /\ waddr' = waddr + done /\ Len(wfifo) \in Nat
  BY WriterFifo
<1>4. Passed' = Passed + moved /\ NextRead' = NextRead + got
  BY PassedStep, ReadingStep
<1> HIDE DEF got, moved, done
<1>5. waddr \in Nat /\ Passed + Len(rfifo) = NextRead /\ waddr + Len(wfifo) = Passed
  BY DEF Shapes, Streaming
<1>6. Src(Passed') = Src(Passed) + moved /\ Src(waddr') = Src(waddr) + done
  BY <1>1, <1>2, <1>3, <1>4, <1>5 DEF Src
<1>7. Passed' + Len(rfifo') = NextRead' /\ waddr' + Len(wfifo') = Passed'
  BY <1>1, <1>2, <1>3, <1>4, <1>5
<1>8. Run(rfifo', Src(Passed')) /\ Run(wfifo', Src(waddr'))
  BY <1>2, <1>3, <1>6
<1> QED
  BY <1>7, <1>8 DEF Streaming, Src

-----------------------------------------------------------------------------
(***************************************************************************)
(* The writer and the port.                                                *)
(***************************************************************************)

\* Words of so many bursts, as a product the provers need not open.
Beats(n) == BURST * n

\* The words of n bursts, one burst more at a time.
LEMMA BeatsIs ==
  /\ Beats(0) = 0
  /\ \A n \in Nat : Beats(n) \in Nat /\ Beats(n + 1) = Beats(n) + BURST
  BY Axi4Assumption DEF Beats

\* Writing, with the terms the steps are about.
LEMMA WritingIs ==
  Writing <=>
    /\ awvalid => wvalid
    /\ awvalid \/ ~ wvalid => waddr % BURST = 0
    /\ Sent + (IF wvalid /\ ~ awvalid THEN BURST - (waddr % BURST) ELSE 0) = Beats(Len(awq))
    /\ \A i \in 1 .. Len(awq) : awq[i] = waddr - Sent + Beats(i - 1)
    /\ Run(wq, Src(waddr - Len(wq)))
    /\ ae = BURST + 1 /\ wvalid => Len(wfifo) + (waddr % BURST) >= BURST
  BY Zenon DEF Writing, Beats

\* Addresses and words that the port accepts.
LEMMA PortStep ==
  ASSUME Shapes, Streaming, Writing, OutOfReset,
         NEW arready \in BOOLEAN, NEW rvalid \in BOOLEAN, NEW awready \in BOOLEAN, NEW wready \in BOOLEAN,
         EdgeWith(arready, rvalid, awready, wready), ~ starved'
  PROVE  /\ Len(awq) \in Nat /\ Len(wq) \in Nat /\ Sent \in Nat
         /\ Sent' = Sent + One(wvalid /\ wready)
         /\ Len(awq') = Len(awq) + One(awvalid /\ awready)
         /\ \A i \in 1 .. Len(awq) : awq'[i] = awq[i]
         /\ awvalid /\ awready => awq'[Len(awq) + 1] = waddr
         /\ Run(wq', Src(waddr' - Len(wq')))
<1>1. /\ waddr \in Nat /\ wbeat \in Nat /\ wbeat' = wbeat
      /\ awq \in Seq(Int) /\ wq \in Seq(Int) /\ wfifo \in Seq(Int)
      /\ Len(awq) \in Nat /\ Len(wq) \in Nat /\ Len(wfifo) \in Nat
  <2>1. wbeat' = wbeat
    BY PortParts, Zenon
  <2>2. waddr \in Nat /\ wbeat \in Nat
    BY Axi4Assumption DEF Shapes
  <2>3. awq \in Seq(Int) /\ wq \in Seq(Int) /\ wfifo \in Seq(Int)
    BY DEF Shapes
  <2> QED
    BY <2>1, <2>2, <2>3, LenProperties
<1>2. awq' = IF awvalid /\ awready THEN Append(awq, waddr) ELSE awq
  BY PortParts, Zenon
<1>3. /\ Len(awq') = Len(awq) + One(awvalid /\ awready)
      /\ \A i \in 1 .. Len(awq) : awq'[i] = awq[i]
      /\ awvalid /\ awready => awq'[Len(awq) + 1] = waddr
  <2>1. CASE awvalid /\ awready
    <3>1. awq' = Append(awq, waddr) /\ waddr \in Int
      BY <1>1, <1>2, <2>1
    <3>2. /\ Len(awq') = Len(awq) + 1
          /\ \A i \in 1 .. Len(awq) : awq'[i] = awq[i]
          /\ awq'[Len(awq) + 1] = waddr
      BY <1>1, <3>1, AppendProperties
    <3> QED
      BY <2>1, <3>2 DEF One
  <2>2. CASE ~ (awvalid /\ awready)
    BY <1>1, <1>2, <2>2 DEF One
  <2> QED
    BY <2>1, <2>2
<1>4. Run(wq, Src(waddr - Len(wq))) /\ Src(waddr - Len(wq)) \in Int
  BY <1>1 DEF Writing, Src
<1>5. waddr' = waddr + One(wvalid /\ wready)
  BY WriterFifo
<1>6. Run(wq', Src(waddr' - Len(wq'))) /\ Len(wq') = Len(wq) + One(wvalid /\ wready)
  <2>1. CASE wvalid /\ wready
    <3>1. wfifo # <<>> /\ wq' = Append(wq, Head(wfifo))
      BY <2>1, PortParts, Zenon
    <3>2. Head(wfifo) = Src(waddr)
      BY <1>1, <3>1, RunTail DEF Streaming, Src
    <3>3. Src(waddr) = Src(waddr - Len(wq)) + Len(wq)
      BY <1>1 DEF Src
    <3>4. wq' = Append(wq, Src(waddr - Len(wq)) + Len(wq))
      BY <3>1, <3>2, <3>3
    <3>5. Run(wq', Src(waddr - Len(wq))) /\ Len(wq') = Len(wq) + 1
      BY <1>4, <3>4, RunAppend
    <3>6. waddr' - Len(wq') = waddr - Len(wq)
      BY <1>1, <1>5, <2>1, <3>5 DEF One
    <3> QED
      BY <2>1, <3>5, <3>6 DEF One
  <2>2. CASE ~ (wvalid /\ wready)
    <3>1. wq' = wq
      BY <2>2, PortParts, Zenon
    <3>2. waddr' = waddr
      BY <1>1, <1>5, <2>2 DEF One
    <3> QED
      BY <1>1, <1>4, <2>2, <3>1, <3>2 DEF One
  <2> QED
    BY <2>1, <2>2
<1>7. Sent \in Nat /\ Sent' = Sent + One(wvalid /\ wready)
  <2> DEFINE done == One(wvalid /\ wready)
  <2>1. done \in {0, 1} /\ Len(wq') = Len(wq) + done
    BY <1>6 DEF One
  <2> HIDE DEF done
  <2>2. Sent = Len(wq) + wbeat /\ Sent' = Len(wq') + wbeat'
    BY DEF Sent
  <2>3. Sent \in Nat /\ Sent' = Sent + done
    BY <1>1, <2>1, <2>2
  <2> QED
    BY <2>3 DEF done
<1> QED
  BY <1>1, <1>3, <1>6, <1>7

\* The address within the burst, after an edge.
LEMMA PhaseStep ==
  ASSUME Shapes, Streaming, OutOfReset,
         NEW arready \in BOOLEAN, NEW rvalid \in BOOLEAN, NEW awready \in BOOLEAN, NEW wready \in BOOLEAN,
         EdgeWith(arready, rvalid, awready, wready), ~ starved'
  PROVE  /\ waddr % BURST \in Nat /\ waddr % BURST < BURST /\ BURST \in Nat \ {0, 1}
         /\ wvalid /\ wready => waddr' % BURST = IF Wlast THEN 0 ELSE (waddr % BURST) + 1
         /\ ~ (wvalid /\ wready) => waddr' = waddr
         /\ Wlast <=> waddr % BURST = BURST - 1
<1>1. waddr \in Nat /\ BURST \in Nat \ {0, 1}
  BY Axi4Assumption DEF Shapes
<1>2. waddr' = IF wvalid /\ wready THEN waddr + 1 ELSE waddr
  BY WriterParts, Zenon
<1> DEFINE m == waddr % BURST
<1>3. /\ m \in Nat /\ m < BURST
      /\ m + 1 < BURST => (waddr + 1) % BURST = m + 1
      /\ m + 1 = BURST => (waddr + 1) % BURST = 0
  BY <1>1, RemainderPlus, Zenon
<1>4. Wlast <=> m = BURST - 1
  BY DEF Wlast
<1> HIDE DEF m
<1>5. (waddr + 1) % BURST = IF Wlast THEN 0 ELSE m + 1
  BY <1>1, <1>3, <1>4
<1> QED
  BY <1>1, <1>2, <1>3, <1>4, <1>5 DEF m

(***************************************************************************)
(* The port gets the address of a burst no later than its words, and the   *)
(* words after each other.                                                 *)
(***************************************************************************)
LEMMA WritingStep ==
  ASSUME Shapes, Streaming, Writing, OutOfReset,
         NEW arready \in BOOLEAN, NEW rvalid \in BOOLEAN, NEW awready \in BOOLEAN, NEW wready \in BOOLEAN,
         EdgeWith(arready, rvalid, awready, wready), ~ starved', ~ early'
  PROVE  Writing'
<1> DEFINE L == Len(awq)
           m == waddr % BURST
           n == waddr' % BURST
           gap == waddr - Sent
<1>1. /\ BURST \in Nat \ {0, 1} /\ m \in Nat /\ m < BURST /\ L \in Nat /\ Sent \in Nat /\ waddr \in Nat
      /\ Beats(L) \in Nat /\ Beats(L + 1) = Beats(L) + BURST /\ Len(wfifo) \in Nat
      /\ Wlast <=> m = BURST - 1
  BY PortStep, PhaseStep, BeatsIs, WriterFifo, Zenon DEF Shapes
<1>2. /\ awvalid => wvalid
      /\ awvalid \/ ~ wvalid => m = 0
      /\ Sent + (IF wvalid /\ ~ awvalid THEN BURST - m ELSE 0) = Beats(L)
      /\ \A i \in 1 .. L : awq[i] = gap + Beats(i - 1)
      /\ ae = BURST + 1 /\ wvalid => Len(wfifo) + m >= BURST
  BY WritingIs, Zenon
<1>3. /\ awvalid' <=> \/ ~ Len(wfifo) < ae /\ ~ awvalid /\ ~ wvalid
                      \/ awvalid /\ ~ awready
                      \/ wready /\ Wlast /\ ~ Len(wfifo) < ae
      /\ wvalid' <=> /\ wvalid \/ (~ Len(wfifo) < ae /\ ~ awvalid)
                     /\ ~ (wready /\ Wlast /\ Len(wfifo) < ae)
      /\ ae' = ae
  BY WriterParts, Zenon
<1>4. /\ Sent' = Sent + One(wvalid /\ wready)
      /\ waddr' = waddr + One(wvalid /\ wready)
      /\ Len(awq') = L + One(awvalid /\ awready)
      /\ \A i \in 1 .. L : awq'[i] = awq[i]
      /\ awvalid /\ awready => awq'[L + 1] = waddr
      /\ Run(wq', Src(waddr' - Len(wq')))
  BY PortStep, WriterFifo, Zenon
<1>5. /\ wvalid /\ wready => n = IF Wlast THEN 0 ELSE m + 1
      /\ ~ (wvalid /\ wready) => n = m
  BY PhaseStep
<1>6. wvalid /\ wready /\ ~ (awvalid /\ awready) => ~ (Sent >= Beats(L))
  BY PortParts, Zenon DEF Sent, Beats
<1>7. /\ Len(wfifo') \in Nat
      /\ Len(wfifo') >= Len(wfifo) - One(wvalid /\ wready)
  <2> DEFINE done == One(wvalid /\ wready)
             moved == One(Moves)
  <2>1. done \in {0, 1} /\ moved \in {0, 1} /\ Len(wfifo') = Len(wfifo) - done + moved
    BY WriterFifo DEF One
  <2>2. Len(wfifo') \in Nat
    BY WriterFifo, LenProperties DEF Run
  <2> HIDE DEF done, moved
  <2>3. Len(wfifo') >= Len(wfifo) - done
    BY <1>1, <2>1, <2>2
  <2> QED
    BY <2>2, <2>3 DEF done
<1>8. waddr' - Sent' = gap
  BY <1>1, <1>4 DEF One
<1>9. \A i \in 1 .. Len(awq') : awq'[i] = waddr' - Sent' + Beats(i - 1)
  <2> SUFFICES ASSUME NEW i \in 1 .. Len(awq') PROVE awq'[i] = gap + Beats(i - 1)
    BY <1>8
  <2>1. CASE i \in 1 .. L
    BY <1>2, <1>4, <2>1
  <2>2. CASE i = L + 1 /\ awvalid /\ awready
    <3>1. awq'[i] = waddr /\ Sent = Beats(L) /\ i - 1 = L
      BY <1>1, <1>2, <1>4, <2>2
    <3> QED
      BY <1>1, <3>1
  <2> QED
    BY <1>1, <1>4, <2>1, <2>2 DEF One
<1>10. ae \in {BURST, BURST + 1}
  BY DEF Shapes
<1> HIDE DEF L, m, n, gap
<1>11. /\ awvalid' => wvalid'
       /\ awvalid' \/ ~ wvalid' => n = 0
       /\ Sent' + (IF wvalid' /\ ~ awvalid' THEN BURST - n ELSE 0) = Beats(Len(awq'))
       /\ ae' = BURST + 1 /\ wvalid' => Len(wfifo') + n >= BURST
  <2>1. CASE awvalid
    <3>1. wvalid /\ m = 0 /\ Sent = Beats(L) /\ ~ Wlast
      BY <1>1, <1>2, <2>1
    <3>2. wvalid' /\ (awvalid' <=> ~ awready)
      BY <1>3, <2>1, <3>1
    <3>3. CASE awready
      <4>0. ~ awvalid' /\ Len(awq') = L + 1
        BY <1>4, <2>1, <3>2, <3>3 DEF One
      <4>1. CASE wready
        <5>1. n = 1 /\ Sent' = Sent + 1 /\ Len(wfifo') >= Len(wfifo) - 1
          BY <1>1, <1>4, <1>5, <1>7, <3>1, <4>1 DEF One
        <5>2. Sent' + (BURST - n) = Beats(L + 1)
          BY <1>1, <3>1, <5>1
        <5>3. ae' = BURST + 1 => Len(wfifo') + n >= BURST
          BY <1>1, <1>2, <1>3, <1>7, <3>1, <5>1
        <5> QED
          BY <3>2, <4>0, <5>2, <5>3
      <4>2. CASE ~ wready
        <5>1. n = 0 /\ Sent' = Sent /\ Len(wfifo') >= Len(wfifo)
          BY <1>1, <1>4, <1>5, <1>7, <3>1, <4>2 DEF One
        <5>2. Sent' + (BURST - n) = Beats(L + 1)
          BY <1>1, <3>1, <5>1
        <5>3. ae' = BURST + 1 => Len(wfifo') + n >= BURST
          BY <1>1, <1>2, <1>3, <1>7, <3>1, <5>1
        <5> QED
          BY <3>2, <4>0, <5>2, <5>3
      <4> QED
        BY <4>1, <4>2
    <3>4. CASE ~ awready
      <4>1. ~ wready
        BY <1>1, <1>6, <3>1, <3>4
      <4> QED
        BY <1>1, <1>2, <1>3, <1>4, <1>5, <1>7, <1>10, <2>1, <3>1, <3>2, <3>4, <4>1 DEF One
    <3> QED
      BY <3>3, <3>4
  <2>2. CASE ~ awvalid /\ wvalid
    <3>0. Sent + (BURST - m) = Beats(L) /\ Len(awq') = L
      BY <1>1, <1>2, <1>4, <2>2 DEF One
    <3>1. CASE ~ wready
      BY <1>1, <1>2, <1>3, <1>4, <1>5, <1>7, <1>10, <2>2, <3>0, <3>1 DEF One
    <3>2. CASE wready /\ ~ Wlast
      BY <1>1, <1>2, <1>3, <1>4, <1>5, <1>7, <1>10, <2>2, <3>0, <3>2 DEF One
    <3>3. CASE wready /\ Wlast
      BY <1>1, <1>2, <1>3, <1>4, <1>5, <1>7, <1>10, <2>2, <3>0, <3>3 DEF One
    <3> QED
      BY <3>1, <3>2, <3>3
  <2>3. CASE ~ awvalid /\ ~ wvalid
    <3>1. m = 0 /\ n = 0 /\ ~ Wlast /\ Sent = Beats(L) /\ Len(awq') = L /\ Sent' = Sent
      BY <1>1, <1>2, <1>4, <1>5, <2>3 DEF One
    <3> QED
      BY <1>1, <1>2, <1>3, <1>4, <1>5, <1>7, <1>10, <2>3, <3>1 DEF One
  <2> QED
    BY <1>2, <2>1, <2>2, <2>3
<1> QED
  BY <1>4, <1>9, <1>11 DEF n, Writing, Beats

\* A packet is no longer than Words.
LEMMA PassedIs ==
  ASSUME Shapes
  PROVE  Passed \in 0 .. Words /\ Words \in Nat
  BY Axi4Assumption DEF Shapes, Passed

(***************************************************************************)
(* The port stores each word at its place.                                 *)
(***************************************************************************)
LEMMA StoreStep ==
  ASSUME Shapes, Streaming, Writing, Store,
         \A i \in Buffer : dst[i] \in {0} \cup (IF i < Words THEN {Src(i)} ELSE {})
  PROVE  /\ Writing'
         /\ \A i \in Buffer : dst'[i] \in {0} \cup (IF i < Words THEN {Src(i)} ELSE {})
<1> DEFINE L == Len(awq)
           gap == waddr - Sent
           a == waddr - Len(wq)
<1>1. /\ BURST \in Nat \ {0, 1} /\ waddr \in Nat /\ wbeat \in 0 .. BURST - 1
      /\ awq \in Seq(Int) /\ wq \in Seq(Int) /\ awq # <<>> /\ wq # <<>>
      /\ dst \in [Buffer -> Int]
  BY Axi4Assumption DEF Shapes, Store
<1>2. L \in Nat \ {0} /\ Len(wq) \in Nat \ {0}
  BY <1>1, LenProperties, EmptySeq
<1>3. /\ \A i \in 1 .. L : awq[i] = gap + Beats(i - 1)
      /\ Run(wq, Src(a)) /\ Src(a) = a + 1
      /\ Sent = Len(wq) + wbeat
      /\ awvalid => wvalid
      /\ awvalid \/ ~ wvalid => waddr % BURST = 0
      /\ Sent + (IF wvalid /\ ~ awvalid THEN BURST - (waddr % BURST) ELSE 0) = Beats(L)
      /\ ae = BURST + 1 /\ wvalid => Len(wfifo) + (waddr % BURST) >= BURST
  BY WritingIs, Zenon DEF Sent, Src
<1>4. /\ awvalid' = awvalid /\ wvalid' = wvalid /\ waddr' = waddr /\ wfifo' = wfifo /\ ae' = ae
      /\ wq' = Tail(wq) /\ wbeat' = (wbeat + 1) % BURST
      /\ awq' = IF wbeat' = 0 THEN Tail(awq) ELSE awq
      /\ dst' = IF Head(awq) + wbeat \in Buffer THEN [dst EXCEPT ![Head(awq) + wbeat] = Head(wq)] ELSE dst
  BY DEF Store, coreVars
<1> HIDE DEF a
<1>5. /\ Head(wq) = Src(a) /\ Run(wq', Src(a) + 1) /\ Len(wq') = Len(wq) - 1
      /\ a = waddr - Len(wq) /\ a \in Int
  <2>1. a = waddr - Len(wq) /\ a \in Int
    BY <1>1, <1>2 DEF a
  <2>2. Src(a) \in Int
    BY <1>3, <2>1
  <2>3. Head(wq) = Src(a) /\ Run(Tail(wq), Src(a) + 1) /\ Len(Tail(wq)) = Len(wq) - 1
    BY <1>1, <1>3, <2>2, RunTail, Zenon
  <2> QED
    BY <1>4, <2>1, <2>3
<1>6. Head(awq) = gap /\ Head(awq) + wbeat = a
  <2>1. Head(awq) = awq[1]
    BY <1>1
  <2>2. awq[1] = gap + Beats(1 - 1) /\ Beats(1 - 1) = 0
    BY <1>2, <1>3, BeatsIs
  <2>3. gap \in Int
    BY <1>1, <1>2, <1>3
  <2> QED
    BY <1>1, <1>2, <1>3, <1>5, <2>1, <2>2, <2>3
<1>7. \A i \in Buffer : dst'[i] \in {0} \cup (IF i < Words THEN {Src(i)} ELSE {})
  <2>1. a < Words
    <3>1. waddr + Len(wfifo) = Passed /\ Len(wfifo) \in Nat
      BY LenProperties DEF Streaming, Shapes
    <3> QED
      BY <1>1, <1>2, <1>5, <3>1, PassedIs
  <2>2. \A i \in Buffer : dst'[i] = dst[i] \/ (i = a /\ dst'[i] = Src(a))
    BY <1>1, <1>4, <1>5, <1>6
  <2> QED
    BY <2>1, <2>2
<1>8. Src(waddr' - Len(wq')) = Src(a) + 1
  BY <1>1, <1>2, <1>4, <1>5 DEF Src
<1>9. Run(wq', Src(waddr' - Len(wq')))
  BY <1>5, <1>8
<1>10. /\ Sent' + (IF wvalid /\ ~ awvalid THEN BURST - (waddr % BURST) ELSE 0) = Beats(Len(awq'))
       /\ \A i \in 1 .. Len(awq') : awq'[i] = waddr - Sent' + Beats(i - 1)
  <2> DEFINE r == IF wvalid /\ ~ awvalid THEN BURST - (waddr % BURST) ELSE 0
  <2>1. r \in Int /\ Sent + r = Beats(L) /\ Sent \in Nat
    BY <1>1, <1>2, <1>3, RemainderPlus
  <2> HIDE DEF r
  <2>2. Sent' = Len(wq) - 1 + wbeat'
    BY <1>5 DEF Sent
  <2>3. CASE wbeat < BURST - 1
    <3>1. wbeat' = wbeat + 1 /\ awq' = awq
      <4>1. (wbeat + 1) % BURST = wbeat + 1
        <5>1. wbeat + 1 \in Nat /\ wbeat + 1 < BURST /\ BURST \in Nat \ {0} /\ 0 \in Nat
          BY <1>1, <2>3
        <5>2. (BURST * 0 + (wbeat + 1)) % BURST = wbeat + 1
          BY <5>1, RemainderIs
        <5>3. BURST * 0 + (wbeat + 1) = wbeat + 1
          BY <5>1
        <5> QED
          BY <5>2, <5>3
      <4> QED
        BY <1>1, <1>4, <4>1
    <3>2. Sent' = Sent
      BY <1>1, <1>2, <1>3, <2>2, <3>1
    <3> QED
      BY <1>3, <2>1, <3>1, <3>2 DEF r
  <2>4. CASE wbeat = BURST - 1
    <3>1. wbeat' = 0 /\ awq' = Tail(awq)
      <4>1. (wbeat + 1) % BURST = 0
        BY <1>1, <2>4
      <4> QED
        BY <1>4, <4>1
    <3>2. Sent' = Sent - BURST
      BY <1>1, <1>2, <1>3, <2>2, <2>4, <3>1
    <3>3. Len(awq') = L - 1 /\ \A i \in 1 .. L - 1 : awq'[i] = awq[i + 1]
      BY <1>1, <1>2, <3>1
    <3>4. Beats(L - 1) = Beats(L) - BURST
      <4>1. L - 1 \in Nat /\ (L - 1) + 1 = L
        BY <1>2
      <4>2. Beats((L - 1) + 1) = Beats(L - 1) + BURST /\ Beats(L - 1) \in Nat
        BY <4>1, BeatsIs, Zenon
      <4>3. Beats((L - 1) + 1) = Beats(L)
        BY <4>1
      <4> QED
        BY <1>1, <4>2, <4>3
    <3>5. \A i \in 1 .. L - 1 : awq[i + 1] = gap + Beats(i - 1) + BURST
      <4> SUFFICES ASSUME NEW i \in 1 .. L - 1 PROVE awq[i + 1] = gap + Beats(i - 1) + BURST
        OBVIOUS
      <4>1. i - 1 \in Nat /\ (i + 1) - 1 = (i - 1) + 1 /\ i + 1 \in 1 .. L
        BY <1>2
      <4>2. Beats((i - 1) + 1) = Beats(i - 1) + BURST /\ Beats(i - 1) \in Nat
        BY <4>1, BeatsIs, Zenon
      <4>3. awq[i + 1] = gap + Beats((i - 1) + 1)
        BY <1>3, <4>1
      <4>4. gap \in Int
        BY <1>1, <2>1
      <4> QED
        BY <1>1, <4>2, <4>3, <4>4
    <3>6. \A i \in 1 .. L - 1 : awq'[i] = waddr - Sent' + Beats(i - 1)
      <4> SUFFICES ASSUME NEW i \in 1 .. L - 1 PROVE awq'[i] = waddr - Sent' + Beats(i - 1)
        OBVIOUS
      <4>1. i - 1 \in Nat
        BY <1>2
      <4>2. Beats(i - 1) \in Nat
        BY <4>1, BeatsIs, Zenon
      <4>3. awq'[i] = gap + Beats(i - 1) + BURST
        BY <3>3, <3>5
      <4> QED
        BY <1>1, <2>1, <3>2, <4>2, <4>3
    <3>7. Sent' + r = Beats(Len(awq'))
      BY <1>1, <2>1, <3>2, <3>3, <3>4
    <3> QED
      BY <3>3, <3>6, <3>7 DEF r
  <2> QED
    BY <1>1, <2>3, <2>4
<1>11. Writing'
  BY <1>3, <1>4, <1>9, <1>10 DEF Writing, Beats
<1> QED
  BY <1>7, <1>11

-----------------------------------------------------------------------------
(***************************************************************************)
(* Shapes, resets and the program.                                         *)
(***************************************************************************)

\* What a FIFO holds stays a sequence of numbers.
LEMMA SeqStep ==
  ASSUME NEW s \in Seq(Int), NEW pop \in {0, 1}, NEW push \in {0, 1}, NEW e \in Int, pop = 1 => s # <<>>
  PROVE  Fifo(s, pop, push, e) \in Seq(Int)
<1>1. CASE pop = 1
  <2>1. Tail(s) \in Seq(Int)
    BY <1>1, HeadTailProperties
  <2> QED
    BY <1>1, <2>1 DEF Fifo
<1>2. CASE pop # 1
  BY <1>2 DEF Fifo
<1> QED
  BY <1>1, <1>2

\* At an edge outside reset the numbers stay numbers, the flags flags.
LEMMA RunningShapes ==
  ASSUME Shapes, OutOfReset,
         NEW arready \in BOOLEAN, NEW rvalid \in BOOLEAN, NEW awready \in BOOLEAN, NEW wready \in BOOLEAN,
         EdgeWith(arready, rvalid, awready, wready)
  PROVE  /\ raddr' \in Nat /\ waddr' \in Nat /\ cntr' \in 0 .. Words - 1
         /\ arvalid' \in BOOLEAN /\ rready' \in BOOLEAN /\ enbl' \in BOOLEAN
         /\ awvalid' \in BOOLEAN /\ wvalid' \in BOOLEAN
         /\ rfifo' \in Seq(Int) /\ wfifo' \in Seq(Int) /\ ae' = ae
<1>1. /\ BURST \in Nat /\ Words \in Nat \ {0, 1} /\ raddr \in Nat /\ waddr \in Nat /\ cntr \in 0 .. Words - 1
      /\ rfifo \in Seq(Int) /\ wfifo \in Seq(Int) /\ rq \in Seq(Int)
  BY Axi4Assumption DEF Shapes
<1>2. raddr' \in Nat /\ waddr' \in Nat
  <2>1. raddr' = raddr + BURST \/ raddr' = raddr
    BY <1>1, ReaderParts, Zenon
  <2>2. waddr' = waddr + 1 \/ waddr' = waddr
    BY WriterParts, Zenon
  <2> QED
    BY <1>1, <2>1, <2>2
<1>3. cntr' \in 0 .. Words - 1
  <2>1. cntr' = cntr \/ (cntr' = cntr + 1 /\ Comp)
    BY WriterParts, Zenon
  <2> QED
    BY <1>1, <2>1 DEF Comp
<1>4. arvalid' \in BOOLEAN /\ rready' \in BOOLEAN
  <2>1. PICK rlast, rdata, tready : ReaderEdge(arready, rvalid, rlast, rdata, tready)
    BY Zenon DEF EdgeWith
  <2> QED
    BY <2>1, Zenon DEF ReaderEdge
<1>5. enbl' \in BOOLEAN /\ awvalid' \in BOOLEAN /\ wvalid' \in BOOLEAN
  <2>0. control # 0
    BY DEF OutOfReset
  <2>1. PICK tready, tvalid : PacketizerEdge(tready, tvalid)
    BY <2>0, Zenon DEF EdgeWith
  <2>2. PICK u, v : WriterEdge(awready, wready, u, v)
    BY Zenon DEF EdgeWith
  <2> QED
    BY <2>1, <2>2, Zenon DEF PacketizerEdge, WriterEdge
<1>6. rfifo' \in Seq(Int)
  <2> DEFINE pop == One(Moves)
             push == One(rready /\ rvalid /\ Len(rfifo) < Depth)
             e == IF rq = <<>> THEN 0 ELSE Src(Head(rq))
  <2>1. /\ pop \in {0, 1} /\ push \in {0, 1}
        /\ pop = 1 <=> Moves
        /\ push = 1 <=> rready /\ rvalid /\ Len(rfifo) < Depth
    BY DEF One
  <2>2. e \in Int
    BY <1>1, HeadTailProperties DEF Src
  <2>3. (rvalid => e = Src(Head(rq))) /\ (Moves => rfifo # <<>>)
    BY <1>1, ReaderParts, Zenon DEF Moves
  <2> HIDE DEF pop, push, e
  <2>4. rfifo' = (IF Moves THEN Tail(rfifo) ELSE rfifo)
                   \o (IF rready /\ rvalid /\ Len(rfifo) < Depth THEN <<Src(Head(rq))>> ELSE <<>>)
    BY <1>1, ReaderParts, Zenon
  <2>5. rfifo' = Fifo(rfifo, pop, push, e)
    BY <2>1, <2>3, <2>4, Zenon DEF Fifo
  <2>6. Fifo(rfifo, pop, push, e) \in Seq(Int)
    BY <1>1, <2>1, <2>2, <2>3, SeqStep, Zenon
  <2> QED
    BY <2>5, <2>6
<1>7. wfifo' \in Seq(Int)
  <2> DEFINE pop == One(wvalid /\ wready /\ wfifo # <<>>)
             push == One(Moves)
             e == IF rfifo = <<>> THEN 0 ELSE Head(rfifo)
  <2>1. /\ pop \in {0, 1} /\ push \in {0, 1}
        /\ pop = 1 <=> wvalid /\ wready /\ wfifo # <<>>
        /\ push = 1 <=> Moves
    BY DEF One
  <2>2. e \in Int
    BY <1>1, HeadTailProperties
  <2>3. Moves => e = Head(rfifo)
    BY DEF Moves
  <2> HIDE DEF pop, push, e
  <2>4. wfifo' = (IF wvalid /\ wready /\ wfifo # <<>> THEN Tail(wfifo) ELSE wfifo)
                   \o (IF Moves THEN <<Head(rfifo)>> ELSE <<>>)
    BY WriterParts, Zenon
  <2>5. wfifo' = Fifo(wfifo, pop, push, e)
    BY <2>1, <2>3, <2>4, Zenon DEF Fifo
  <2>6. Fifo(wfifo, pop, push, e) \in Seq(Int)
    BY <1>1, <2>1, <2>2, SeqStep, Zenon
  <2> QED
    BY <2>5, <2>6
<1>8. ae' = ae
  BY WriterParts, Zenon
<1> QED
  BY <1>2, <1>3, <1>4, <1>5, <1>6, <1>7, <1>8

\* The port's queues and the histories keep their shapes at every edge.
LEMMA PortShapes ==
  ASSUME Shapes,
         NEW arready \in BOOLEAN, NEW rvalid \in BOOLEAN, NEW awready \in BOOLEAN, NEW wready \in BOOLEAN,
         EdgeWith(arready, rvalid, awready, wready)
  PROVE  /\ rq' \in Seq(Int) /\ awq' \in Seq(Int) /\ wq' \in Seq(Int)
         /\ early' \in BOOLEAN /\ starved' \in BOOLEAN /\ clocked' \in BOOLEAN
<1>1. /\ BURST \in Nat /\ raddr \in Nat /\ waddr \in Int
      /\ rq \in Seq(Int) /\ awq \in Seq(Int) /\ wq \in Seq(Int) /\ wfifo \in Seq(Int)
  BY Axi4Assumption DEF Shapes
<1>2. rq' \in Seq(Int)
  <2>1. /\ rvalid => rq # <<>>
        /\ rq' = (IF rvalid /\ rready THEN Tail(rq) ELSE rq)
                   \o (IF arvalid /\ arready THEN [i \in 1 .. BURST |-> raddr + i - 1] ELSE <<>>)
    BY Zenon DEF EdgeWith
  <2>2. [i \in 1 .. BURST |-> raddr + i - 1] \in Seq(Int) /\ <<>> \in Seq(Int)
    BY <1>1
  <2>3. (IF rvalid /\ rready THEN Tail(rq) ELSE rq) \in Seq(Int)
    BY <1>1, <2>1, HeadTailProperties
  <2>4. (IF arvalid /\ arready THEN [i \in 1 .. BURST |-> raddr + i - 1] ELSE <<>>) \in Seq(Int)
    BY <2>2, Zenon
  <2> QED
    BY <2>1, <2>3, <2>4, ConcatProperties
<1>3. awq' \in Seq(Int)
  <2>1. awq' = Append(awq, waddr) \/ awq' = awq
    BY PortParts, Zenon
  <2>2. Append(awq, waddr) \in Seq(Int)
    BY <1>1
  <2> QED
    BY <1>1, <2>1, <2>2, Zenon
<1>4. wq' \in Seq(Int)
  <2>1. (IF wfifo = <<>> THEN Garbage ELSE Head(wfifo)) \in Int
    BY <1>1, HeadTailProperties DEF Garbage
  <2>2. Append(wq, IF wfifo = <<>> THEN Garbage ELSE Head(wfifo)) \in Seq(Int)
    <3> DEFINE e == IF wfifo = <<>> THEN Garbage ELSE Head(wfifo)
    <3>1. e \in Int
      BY <2>1
    <3> HIDE DEF e
    <3>2. Append(wq, e) \in Seq(Int)
      BY <1>1, <3>1
    <3> QED
      BY <3>2, Zenon DEF e
  <2>3. wq' = Append(wq, IF wfifo = <<>> THEN Garbage ELSE Head(wfifo)) \/ wq' = wq
    BY PortParts, Zenon
  <2> QED
    BY <1>1, <2>2, <2>3, Zenon
<1>5. early' \in BOOLEAN /\ starved' \in BOOLEAN /\ clocked' \in BOOLEAN
  BY PortParts, Zenon
<1> QED
  BY <1>2, <1>3, <1>4, <1>5

\* In reset, after an edge, everything is as at first.
LEMMA RestingParts ==
  ASSUME Shapes, Resting, ~ OutOfReset,
         NEW arready \in BOOLEAN, NEW rvalid \in BOOLEAN, NEW awready \in BOOLEAN, NEW wready \in BOOLEAN,
         EdgeWith(arready, rvalid, awready, wready)
  PROVE  /\ ~ arvalid' /\ ~ rready' /\ ~ awvalid' /\ ~ wvalid'
         /\ {arvalid', rready', awvalid', wvalid', enbl'} \subseteq BOOLEAN
         /\ raddr' = 0 /\ rfifo' = <<>> /\ waddr' = 0 /\ wfifo' = <<>> /\ cntr' = 0 /\ ae' = ae
         /\ rq' = <<>> /\ awq' = <<>> /\ wq' = <<>>
         /\ starved' = starved /\ early' = early
<1>1. /\ arvalid' = FALSE /\ rready' = FALSE /\ raddr' = 0 /\ rfifo' = <<>>
      /\ awvalid' = FALSE /\ wvalid' = FALSE /\ waddr' = 0 /\ wfifo' = <<>> /\ ae' = ae
  BY DEF EdgeWith, ReaderReset, WriterReset
<1>2. /\ ~ arvalid /\ ~ awvalid /\ ~ wvalid /\ rq = <<>> /\ awq = <<>> /\ wq = <<>> /\ ~ rready
      /\ control = 1 => rfifo = <<>> /\ cntr = 0
  BY DEF Resting, Busy
<1>3. rq' = <<>> /\ awq' = <<>> /\ wq' = <<>>
  <2>1. rq' = <<>> \o <<>>
    BY <1>2 DEF EdgeWith
  <2>2. awq' = awq /\ wq' = wq
    BY <1>2, PortParts, Zenon
  <2> QED
    BY <1>2, <2>1, <2>2
<1>4. starved' = starved /\ early' = early
  <2>1. starved' \in BOOLEAN /\ early' \in BOOLEAN /\ starved \in BOOLEAN /\ early \in BOOLEAN
    BY PortShapes DEF Shapes
  <2>2. (starved' <=> starved) /\ (early' <=> early)
    BY <1>2, PortParts, Zenon
  <2> QED
    BY <2>1, <2>2
<1>5. cntr' = 0 /\ enbl' \in BOOLEAN
  <2>1. CASE control = 0
    <3>1. PacketizerReset
      BY <2>1, Zenon DEF EdgeWith
    <3> QED
      BY <3>1, Zenon DEF PacketizerReset
  <2>2. CASE control # 0
    <3>1. control = 1
      BY <2>2 DEF Shapes, OutOfReset
    <3>2. PICK tready : PacketizerEdge(WriterTready, ReaderTvalid(tready))
      BY <2>2, Zenon DEF EdgeWith
    <3>3. ~ ReaderTvalid(tready)
      BY <1>2, <3>1 DEF ReaderTvalid
    <3>4. cntr' = cntr /\ enbl' \in BOOLEAN
      BY <3>2, <3>3, Zenon DEF PacketizerEdge
    <3> QED
      BY <1>2, <3>1, <3>4
  <2> QED
    BY <2>1, <2>2
<1> QED
  BY <1>1, <1>3, <1>4, <1>5, Zenon

-----------------------------------------------------------------------------
(***************************************************************************)
(* The invariant.                                                          *)
(***************************************************************************)
\* The writer's FIFO is read when empty only if its flag comes with a burst.
LEMMA NotStarved ==
  ASSUME Shapes, Writing, wvalid, wfifo = <<>>
  PROVE  ae = BURST
<1>1. BURST \in Nat \ {0, 1} /\ waddr \in Nat /\ waddr % BURST < BURST /\ waddr % BURST \in Nat
  BY Axi4Assumption, RemainderIs DEF Shapes
<1>2. Len(wfifo) = 0
  OBVIOUS
<1>3. ae = BURST + 1 => Len(wfifo) + (waddr % BURST) >= BURST
  BY DEF Writing
<1>4. ae \in {BURST, BURST + 1}
  BY DEF Shapes
<1> DEFINE m == waddr % BURST
<1> HIDE DEF m
<1> QED
  BY <1>1, <1>2, <1>3, <1>4 DEF m

\* A clock edge keeps the invariant, in reset and out of it.
LEMMA EdgeKeepsCopy ==
  ASSUME CopyInv,
         NEW arready \in BOOLEAN, NEW rvalid \in BOOLEAN, NEW awready \in BOOLEAN, NEW wready \in BOOLEAN,
         EdgeWith(arready, rvalid, awready, wready)
  PROVE  CopyInv'
<1>1. /\ Shapes /\ Controlled /\ CopyIsTrue /\ ~ Upset
      /\ OutOfReset => Reading /\ Streaming /\ Writing
      /\ ~ OutOfReset => Resting
  BY PortParts, Zenon DEF CopyInv
<1>2. UNCHANGED <<pc, control, wbeat, dst, runs, cut>>
  BY PortParts, Zenon
<1>3. /\ rq' \in Seq(Int) /\ awq' \in Seq(Int) /\ wq' \in Seq(Int)
      /\ early' \in BOOLEAN /\ starved' \in BOOLEAN /\ clocked' \in BOOLEAN
  BY <1>1, PortShapes
<1>4. Controlled'
  BY <1>1, <1>2 DEF Controlled
<1>5. ~ Upset' => \A i \in Buffer : dst'[i] \in {0} \cup (IF i < Words THEN {Src(i)} ELSE {})
  BY <1>1, <1>2 DEF CopyIsTrue
<1>6. CASE OutOfReset
  <2>1. Shapes'
    BY <1>1, <1>2, <1>3, <1>6, RunningShapes DEF Shapes
  <2>2. ae' = ae
    BY <1>1, <1>6, RunningShapes
  <2>3. starved' => ae' = BURST
    <3>1. starved' => wvalid /\ wfifo = <<>>
      BY <1>1, PortParts, Zenon DEF Upset
    <3> QED
      BY <1>1, <1>6, <2>2, <3>1, NotStarved
  <2>4. ~ Upset' => Reading' /\ Streaming' /\ Writing'
    BY <1>1, <1>6, ReadingStep, StreamingStep, WritingStep, Zenon DEF Upset
  <2>5. CopyIsTrue'
    BY <1>5, <2>3, Zenon DEF CopyIsTrue
  <2>6. OutOfReset'
    BY <1>2, <1>6 DEF OutOfReset
  <2> QED
    BY <1>4, <2>1, <2>4, <2>5, <2>6, Zenon DEF CopyInv
<1>7. CASE ~ OutOfReset
  <2>0. /\ ~ arvalid' /\ ~ rready' /\ ~ awvalid' /\ ~ wvalid'
        /\ {arvalid', rready', awvalid', wvalid', enbl'} \subseteq BOOLEAN
        /\ raddr' = 0 /\ rfifo' = <<>> /\ waddr' = 0 /\ wfifo' = <<>> /\ cntr' = 0 /\ ae' = ae
        /\ rq' = <<>> /\ awq' = <<>> /\ wq' = <<>>
        /\ starved' = starved /\ early' = early
    BY <1>1, <1>7, RestingParts
  <2>1. Shapes'
    <3>1. 0 \in 0 .. Words - 1 /\ <<>> \in Seq(Int)
      BY Axi4Assumption
    <3> QED
      BY <1>1, <1>2, <1>3, <2>0, <3>1 DEF Shapes
  <2>2. Resting'
    BY <1>1, <1>2, <1>7, <2>0 DEF Resting, Busy
  <2>3. CopyIsTrue'
    BY <1>1, <1>5, <2>0, Zenon DEF CopyIsTrue, Upset
  <2>4. ~ OutOfReset'
    BY <1>2, <1>7 DEF OutOfReset
  <2> QED
    BY <1>4, <2>1, <2>2, <2>3, <2>4, Zenon DEF CopyInv
<1> QED
  BY <1>6, <1>7

\* The memory port keeps it when it stores a word.
LEMMA StoreKeepsCopy ==
  ASSUME CopyInv, Store
  PROVE  CopyInv'
<1>1. /\ Shapes /\ Controlled /\ CopyIsTrue
      /\ ~ Upset /\ OutOfReset => Reading /\ Streaming /\ Writing
      /\ ~ Upset /\ ~ OutOfReset => Resting
  BY Zenon DEF CopyInv
<1>2. /\ UNCHANGED <<coreVars, pc, control, clocked, rq, hisVars>>
      /\ awq # <<>> /\ wq # <<>>
  BY DEF Store
<1>3. UNCHANGED <<Upset, OutOfReset, Controlled, NextRead, Reading>>
  BY <1>2 DEF Upset, OutOfReset, Controlled, NextRead, Reading, Run, coreVars, hisVars
<1>4. UNCHANGED Streaming
  BY <1>2, <1>3 DEF Streaming, Run, Passed, Comp, coreVars
<1>5. Shapes'
  <2>1. BURST \in Nat \ {0, 1} /\ wbeat \in 0 .. BURST - 1
    BY <1>1, Axi4Assumption DEF Shapes
  <2>2. wbeat' \in 0 .. BURST - 1
    BY <2>1, RemainderIs DEF Store
  <2>3. Tail(awq) \in Seq(Int) /\ Tail(wq) \in Seq(Int) /\ Head(wq) \in Int
    BY <1>1, <1>2, HeadTailProperties DEF Shapes
  <2>4. awq' \in Seq(Int) /\ wq' \in Seq(Int)
    BY <1>1, <2>3 DEF Store, Shapes
  <2>5. dst' \in [Buffer -> Int]
    BY <1>1, <2>3 DEF Store, Shapes
  <2> QED
    BY <1>1, <1>2, <2>2, <2>4, <2>5 DEF Shapes, coreVars, hisVars
<1>6. CASE Upset
  BY <1>1, <1>2, <1>3, <1>5, <1>6 DEF CopyInv, CopyIsTrue, coreVars, hisVars
<1>7. CASE ~ Upset
  <2>1. OutOfReset
    BY <1>1, <1>2, <1>7, Zenon DEF Resting, Busy
  <2>2. \A i \in Buffer : dst[i] \in {0} \cup (IF i < Words THEN {Src(i)} ELSE {})
    BY <1>1, <1>7, Zenon DEF CopyIsTrue
  <2>3. /\ Writing'
        /\ \A i \in Buffer : dst'[i] \in {0} \cup (IF i < Words THEN {Src(i)} ELSE {})
    BY <1>1, <1>7, <2>1, <2>2, StoreStep, Zenon
  <2>4. CopyIsTrue'
    <3>1. ~ starved'
      BY <1>2, <1>7 DEF Upset, hisVars
    <3> QED
      BY <2>3, <3>1, Zenon DEF CopyIsTrue
  <2> QED
    BY <1>1, <1>3, <1>4, <1>5, <1>7, <2>1, <2>3, <2>4, Zenon DEF CopyInv
<1> QED
  BY <1>6, <1>7

\* The values of the reset are those the copy begins with.
LEMMA Begins ==
  ASSUME Shapes, Resting, raddr = 0, rfifo = <<>>, cntr = 0, waddr = 0, wfifo = <<>>
  PROVE  Reading /\ Streaming /\ Writing
<1>1. /\ BURST \in Nat \ {0, 1} /\ Words \in Nat \ {0, 1} /\ Depth \in Nat
      /\ ~ arvalid /\ rq = <<>> /\ ~ awvalid /\ ~ wvalid /\ awq = <<>> /\ wq = <<>> /\ ~ rready /\ wbeat = 0
  BY Axi4Assumption DEF Resting, Busy
<1>2. 0 % BURST = 0
  BY <1>1
<1>3. /\ Len(rq) = 0 /\ Len(rfifo) = 0 /\ Len(wfifo) = 0 /\ Len(awq) = 0 /\ Len(wq) = 0
  BY <1>1
<1>4. NextRead = 0 /\ Passed = 0 /\ Sent = 0 /\ BURST * Len(awq) = 0
  BY <1>1, <1>3 DEF NextRead, Passed, Sent, Comp
<1>5. \A a : Run(<<>>, a)
  BY DEF Run
<1>6. Reading
  BY <1>1, <1>2, <1>5 DEF Reading
<1>7. Streaming
  BY <1>3, <1>4, <1>5 DEF Streaming
<1>8. Writing
  BY <1>1, <1>2, <1>3, <1>4, <1>5 DEF Writing
<1> QED
  BY <1>6, <1>7, <1>8

\* With no burst under way, the reader and the port wait for nothing.
LEMMA IdleIsIdle ==
  ASSUME Shapes, Reading, Writing, ~ Busy
  PROVE  ~ rready /\ wbeat = 0
<1>1. ~ arvalid /\ rq = <<>> /\ awq = <<>> /\ wq = <<>> /\ ~ wvalid
  BY DEF Busy
<1>2. ~ rready
  BY <1>1 DEF Reading
<1>3. BURST \in Nat /\ wbeat \in Nat /\ Len(awq) = 0 /\ Len(wq) = 0
  BY <1>1, Axi4Assumption DEF Shapes
<1>4. Sent + 0 = BURST * Len(awq)
  BY <1>1 DEF Writing
<1> QED
  BY <1>2, <1>3, <1>4 DEF Sent

\* Clearing the destination keeps it, also while the last run still copies.
LEMMA SetupKeepsCopy ==
  ASSUME CopyInv, Setup
  PROVE  CopyInv'
<1>1. /\ UNCHANGED <<coreVars, control, clocked, rq, awq, wq, wbeat, early, cut, starved>>
      /\ dst' = [i \in Buffer |-> 0] /\ pc' = "stop"
  BY DEF Setup
<1>2. UNCHANGED <<Upset, OutOfReset, NextRead, Reading>>
  BY <1>1 DEF Upset, OutOfReset, NextRead, Reading, Run, coreVars
<1>3. UNCHANGED <<Streaming, Writing, Resting>>
  BY <1>1, <1>2 DEF Streaming, Writing, Resting, Busy, Run, Passed, Sent, Comp, coreVars
<1>4. Shapes'
  BY <1>1 DEF CopyInv, Shapes, coreVars
<1>5. Controlled'
  BY <1>1 DEF Controlled
<1>6. CopyIsTrue'
  BY <1>1 DEF CopyInv, CopyIsTrue, coreVars
<1> QED
  BY <1>2, <1>3, <1>4, <1>5, <1>6, Zenon DEF CopyInv

\* Every write to the control register leaves all but it as it was.
LEMMA ControlParts ==
  ASSUME CopyInv, NEW from, NEW value \in {0, 1, 3}, NEW to, Control(from, value, to),
         cut' \in BOOLEAN, cut => cut', to = "packetizer" => value = 0, to = "others" => value = 1
  PROVE  /\ Shapes' /\ Controlled' /\ CopyIsTrue'
         /\ ~ Upset' => ~ Upset
         /\ UNCHANGED <<Reading, Streaming, Writing, Busy, rready, wbeat>>
<1>1. /\ UNCHANGED <<coreVars, portVars, runs, early, starved>>
      /\ control' = value /\ clocked' = FALSE /\ pc' = to /\ pc = from
  BY DEF Control
<1>2. UNCHANGED <<NextRead, Reading, Busy, rready, wbeat>>
  BY <1>1 DEF NextRead, Reading, Busy, Run, coreVars, portVars
<1>3. UNCHANGED <<Streaming, Writing>>
  BY <1>1, <1>2 DEF Streaming, Writing, Run, Passed, Sent, Comp, coreVars, portVars
<1>4. Shapes'
  BY <1>1, Zenon DEF CopyInv, Shapes, coreVars, portVars
<1>5. Controlled'
  BY <1>1 DEF Controlled
<1>6. (~ Upset' => ~ Upset) /\ CopyIsTrue'
  BY <1>1, Zenon DEF CopyInv, CopyIsTrue, Upset, coreVars, portVars
<1> QED
  BY <1>2, <1>3, <1>4, <1>5, <1>6

\* Writing 0 keeps it: a reset that cuts off no burst finds the cores at rest.
LEMMA StopKeepsCopy ==
  ASSUME CopyInv, Stop
  PROVE  CopyInv'
<1>1. /\ Control("stop", 0, "packetizer") /\ cut' = (cut \/ Busy)
      /\ control' = 0 /\ clocked' = FALSE
  BY DEF Stop, Control
<1>2. /\ Shapes' /\ Controlled' /\ CopyIsTrue'
      /\ ~ Upset' => ~ Upset
      /\ UNCHANGED <<Reading, Streaming, Writing, Busy, rready, wbeat>>
  BY <1>1, ControlParts, Zenon
<1>3. ~ OutOfReset'
  BY <1>1 DEF OutOfReset
<1>4. ~ Upset' => Resting'
  <2>1. HAVE ~ Upset'
  <2>2. ~ Upset /\ ~ Busy
    BY <1>1, <1>2, <2>1, Zenon DEF Upset
  <2>3. ~ rready /\ wbeat = 0
    <3>1. CASE OutOfReset
      BY <2>2, <3>1, IdleIsIdle, Zenon DEF CopyInv
    <3>2. CASE ~ OutOfReset
      BY <2>2, <3>2, Zenon DEF CopyInv, Resting
    <3> QED
      BY <3>1, <3>2
  <2>4. ~ Busy' /\ ~ rready' /\ wbeat' = 0
    BY <1>2, <2>2, <2>3
  <2> QED
    BY <1>1, <2>4 DEF Resting
<1> QED
  BY <1>2, <1>3, <1>4, Zenon DEF CopyInv

\* Writing 1 and 3 keeps it: the copy begins from the values of the reset.
LEMMA StartKeepsCopy ==
  ASSUME CopyInv, Start
  PROVE  CopyInv'
<1>1. CASE Control("packetizer", 1, "others") /\ clocked /\ UNCHANGED cut
  <2>1. /\ control' = 1 /\ control = 0 /\ UNCHANGED <<raddr, rfifo, cntr, waddr, wfifo>>
    BY <1>1 DEF Control, coreVars, CopyInv, Controlled
  <2>2. /\ Shapes' /\ Controlled' /\ CopyIsTrue'
        /\ ~ Upset' => ~ Upset
        /\ UNCHANGED <<Reading, Streaming, Writing, Busy, rready, wbeat>>
    BY <1>1, ControlParts, Zenon DEF CopyInv, Shapes
  <2>3. ~ OutOfReset' /\ ~ OutOfReset
    BY <2>1 DEF OutOfReset
  <2>4. ~ Upset' => Resting'
    <3>1. ~ Upset' => Resting
      BY <2>2, <2>3, Zenon DEF CopyInv
    <3> QED
      BY <1>1, <2>1, <2>2, <3>1, Zenon DEF Resting
  <2> QED
    BY <2>2, <2>3, <2>4, Zenon DEF CopyInv
<1>2. CASE Control("others", 3, "read_back") /\ clocked /\ UNCHANGED cut
  <2>1. control' = 3 /\ control = 1
    BY <1>2 DEF Control, CopyInv, Controlled
  <2>2. /\ Shapes' /\ Controlled' /\ CopyIsTrue'
        /\ ~ Upset' => ~ Upset
        /\ UNCHANGED <<Reading, Streaming, Writing, Busy, rready, wbeat>>
    BY <1>2, ControlParts, Zenon DEF CopyInv, Shapes
  <2>3. OutOfReset' /\ ~ OutOfReset
    BY <2>1 DEF OutOfReset
  <2>4. ~ Upset' => Reading' /\ Streaming' /\ Writing'
    <3>1. HAVE ~ Upset'
    <3>2. Shapes /\ Resting
      BY <2>2, <2>3, <3>1, Zenon DEF CopyInv
    <3>3. raddr = 0 /\ rfifo = <<>> /\ cntr = 0 /\ waddr = 0 /\ wfifo = <<>>
      BY <1>2, <3>2, Zenon DEF Resting
    <3>4. Reading /\ Streaming /\ Writing
      BY <3>2, <3>3, Begins
    <3> QED
      BY <2>2, <3>4
  <2> QED
    BY <2>2, <2>3, <2>4, Zenon DEF CopyInv
<1> QED
  BY <1>1, <1>2 DEF Start

\* Reading the buffers back, and stuttering, change nothing of it.
LEMMA RestKeepsCopy ==
  ASSUME CopyInv, ReadBack \/ UNCHANGED vars
  PROVE  CopyInv'
<1>1. /\ UNCHANGED <<coreVars, control, clocked, portVars, hisVars>>
      /\ pc' = "setup" \/ pc' = pc
  BY DEF ReadBack, vars
<1>2. UNCHANGED <<Upset, OutOfReset, NextRead, Reading>>
  BY <1>1 DEF Upset, OutOfReset, NextRead, Reading, Run, coreVars, portVars, hisVars
<1>3. UNCHANGED <<Streaming, Writing, Resting>>
  BY <1>1, <1>2 DEF Streaming, Writing, Resting, Busy, Run, Passed, Sent, Comp, coreVars, portVars
<1>4. Shapes' /\ Controlled'
  BY <1>1 DEF CopyInv, Shapes, Controlled, coreVars, portVars, hisVars
<1>5. CopyIsTrue'
  BY <1>1, <1>2 DEF CopyInv, CopyIsTrue, coreVars, portVars, hisVars
<1> QED
  BY <1>2, <1>3, <1>4, <1>5, Zenon DEF CopyInv

\* The stream of axi4_test.c lies unbroken between the read channel and the
\* destination, whatever the burst length, the packet, the FIFO's depth and
\* the memory port's moods: CopyInv is an invariant.
THEOREM CopyInvariance == Spec => []CopyInv
<1>1. Init => CopyInv
  <2> SUFFICES ASSUME Init
               PROVE  CopyInv
    OBVIOUS
  <2>1. BURST \in Nat \ {0, 1} /\ Words \in Nat \ {0, 1}
    BY Axi4Assumption
  <2>2. Shapes
    <3>1. dst \in [Buffer -> Int]
      BY DEF Init
    <3>2. raddr \in Nat /\ waddr \in Nat /\ cntr \in 0 .. Words - 1 /\ wbeat \in 0 .. BURST - 1
      BY <2>1 DEF Init, ReaderInit, PacketizerInit, WriterInit
    <3>3. /\ {arvalid, rready, enbl, awvalid, wvalid, clocked, early, cut, starved} \subseteq BOOLEAN
          /\ ae \in {BURST, BURST + 1} /\ control \in {0, 1, 3}
      BY Zenon DEF Init, ReaderInit, PacketizerInit, WriterInit
    <3>4. /\ rfifo \in Seq(Int) /\ wfifo \in Seq(Int) /\ rq \in Seq(Int)
          /\ awq \in Seq(Int) /\ wq \in Seq(Int)
      BY DEF Init, ReaderInit, WriterInit
    <3> QED
      BY <3>1, <3>2, <3>3, <3>4 DEF Shapes
  <2>3. Controlled /\ ~ OutOfReset
    BY DEF Init, Controlled, OutOfReset
  <2>4. CopyIsTrue
    BY DEF Init, CopyIsTrue
  <2>5. Resting
    BY DEF Init, Resting, Busy, ReaderInit, PacketizerInit, WriterInit
  <2> QED
    BY <2>2, <2>3, <2>4, <2>5, Zenon DEF CopyInv
<1>2. CopyInv /\ [Next]_vars => CopyInv'
  BY EdgeKeepsCopy, StoreKeepsCopy, SetupKeepsCopy, StopKeepsCopy, StartKeepsCopy, RestKeepsCopy, Zenon
  DEF Next, Edge
<1> QED
  BY <1>1, <1>2, PTL DEF Spec

\* A word of the destination buffer is still clear or is the word of the
\* source at its place, and the writer's FIFO is read when empty only if its
\* flag comes with exactly a burst: CopyIsTrue, for all constants.
THEOREM CopyTrue == Spec => []CopyIsTrue
<1>1. CopyInv => CopyIsTrue
  BY DEF CopyInv
<1> QED
  BY <1>1, CopyInvariance, PTL
=============================================================================
