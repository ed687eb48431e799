--------------------------- MODULE UserAppsProof ----------------------------
(***************************************************************************)
(* Proofs about the programs of sw/openamp: the proxy, the echo test and   *)
(* the matrix demo, each for every value of its constants.                 *)
(***************************************************************************)
EXTENDS ProxyApp, EchoTest, MatMulDemo, SequenceTheorems, TLAPS

-----------------------------------------------------------------------------
(***************************************************************************)
(* The proxy: it does each request of a remote that waits for its answers, *)
(* for any device and any number of requests and signals, if the buffer    *)
(* takes the longest request.                                              *)
(***************************************************************************)

\* A message is a sequence of one or two units that carry its number.
LEMMA MessageShape ==
  ASSUME NEW k \in Nat, NEW m \in {1, 2}
  PROVE  /\ [j \in 1 .. m |-> <<k, j>>] \in Seq(Nat \X Nat)
         /\ Len([j \in 1 .. m |-> <<k, j>>]) = m
         /\ [j \in 1 .. m |-> <<k, j>>][1] = <<k, 1>>
<1>1. \A j \in 1 .. m : <<k, j>> \in Nat \X Nat
  OBVIOUS
<1> QED
  BY <1>1

\* What is put in front of something is its front.
LEMMA FrontOfConcat ==
  ASSUME NEW S, NEW s \in Seq(S), NEW t \in Seq(S)
  PROVE  SubSeq(s \o t, 1, Len(s)) = s
<1>1. Len(s) \in Nat /\ Len(t) \in Nat /\ Len(s \o t) = Len(s) + Len(t)
  BY LenProperties, ConcatProperties
<1>2. \A j \in 1 .. Len(s) : (s \o t)[j] = s[j]
  BY <1>1
<1>3. \A j \in 1 .. Len(s) : (s \o t)[j] \in S
  BY <1>1, <1>2, ElementOfSeq
<1>4. /\ SubSeq(s \o t, 1, Len(s)) \in Seq(S)
      /\ Len(SubSeq(s \o t, 1, Len(s))) = Len(s)
      /\ \A j \in 1 .. Len(s) : SubSeq(s \o t, 1, Len(s))[j] = (s \o t)[j]
  BY <1>1, <1>3
<1> QED
  BY <1>2, <1>4, SeqEqual

\* A step that neither sends, takes nor answers keeps the invariant.
LEMMA QuietStep ==
  ASSUME ProxyInv, UNCHANGED <<msgs, answered, fifo, rpc, pipelined>>,
         Taken' => Taken /\ bytes_rcvd' = bytes_rcvd
  PROVE  ProxyInv'
BY Zenon DEF ProxyInv, InStream, InBuffer, LastMsg

\* Most steps do none of the three.
LEMMA QuietSteps ==
  [ProxyNext]_proxyVars =>
    \/ ReadData \/ Answer \/ RemoteSend
    \/ /\ UNCHANGED <<msgs, answered, fifo, rpc, pipelined>>
       /\ Taken' => Taken /\ bytes_rcvd' = bytes_rcvd
<1> SUFFICES ASSUME [ProxyNext]_proxyVars, ~ (ReadData \/ Answer \/ RemoteSend)
             PROVE  /\ UNCHANGED <<msgs, answered, fifo, rpc, pipelined>>
                    /\ Taken' => Taken /\ bytes_rcvd' = bytes_rcvd
  OBVIOUS
<1>1. CASE Start \/ OpenDevice \/ OpenFails \/ TestActive \/ ReadSleep \/ ReadNothing
  BY <1>1 DEF Start, OpenDevice, OpenFails, TestActive, ReadSleep, ReadNothing, Taken,
     Handling, appVars, hisVars, streamVars
<1>2. CASE CheckRead \/ HandleRpc \/ Call \/ StdinRead
  BY <1>2 DEF CheckRead, HandleRpc, Call, StdinRead, Taken, Handling, appVars, hisVars, streamVars
<1>3. CASE AnswerFails \/ Terminate \/ Unload
  BY <1>3 DEF AnswerFails, Terminate, Unload, Taken, Handling, appVars, hisVars, streamVars
<1>4. CASE Exit \/ Kill
  BY <1>4 DEF Exit, Kill, Taken, Handling, appVars, hisVars, streamVars
<1>5. CASE UNCHANGED proxyVars
  BY <1>5 DEF proxyVars, Taken, Handling, appVars, hisVars, streamVars
<1> QED
  BY <1>1, <1>2, <1>3, <1>4, <1>5 DEF ProxyNext, ProxyStep

\* A read takes the whole of the message in the stream.
LEMMA ReadKeeps == ProxyInv /\ ReadData => ProxyInv'
<1> SUFFICES ASSUME ProxyInv, ReadData, ~ pipelined' PROVE ProxyInv'
  BY DEF ProxyInv
<1> DEFINE B == Nat \X Nat
           rest == SubSeq(rpc, Len(fifo) + 1, Len(rpc))
<1>1. /\ ~ pipelined /\ UNCHANGED <<msgs, answered, pipelined>>
      /\ pc' = "check"
  BY DEF ReadData, hisVars
<1>2. /\ msgs \in Seq(Kinds) /\ answered \in 0 .. Len(msgs) /\ fifo \in Seq(B) /\ rpc \in Seq(B)
      /\ fifo # <<>> => InStream
  BY <1>1 DEF ProxyInv
<1>3. fifo # <<>>
  <2>1. Least(RPC_BUFF_SIZE, Len(fifo)) > 0
    BY DEF ReadData
  <2>2. Len(<<>>) = 0 /\ Least(RPC_BUFF_SIZE, 0) = 0
    <3>1. RPC_BUFF_SIZE \in Nat
      BY ProxyAssumption
    <3> QED
      BY <3>1 DEF Least
  <2> QED
    BY <2>1, <2>2
<1>4. fifo = LastMsg /\ msgs # <<>> /\ answered < Len(msgs)
  BY <1>2, <1>3 DEF InStream
<1>5. Len(fifo) \in {1, 2} /\ fifo[1] = <<Len(msgs), 1>>
  <2>1. Len(msgs) \in Nat /\ Size(msgs[Len(msgs)]) \in {1, 2}
    BY <1>2, LenProperties DEF Size
  <2> QED
    BY <1>4, <2>1, MessageShape DEF LastMsg
<1>6. Least(RPC_BUFF_SIZE, Len(fifo)) = Len(fifo)
  <2>1. RPC_BUFF_SIZE \in Nat /\ RPC_BUFF_SIZE # 0 /\ RPC_BUFF_SIZE # 1
    BY ProxyAssumption
  <2> QED
    BY <1>5, <2>1 DEF Least
<1>7. SubSeq(fifo, 1, Len(fifo)) = fifo /\ SubSeq(fifo, Len(fifo) + 1, Len(fifo)) = <<>>
  BY <1>2, <1>5, SubSeqFull, SubSeqEmpty
<1>8. rpc' = fifo \o rest /\ fifo' = <<>> /\ bytes_rcvd' = Len(fifo)
  BY <1>6, <1>7, Zenon DEF ReadData, Take
<1>9. rest \in Seq(B)
  <2>1. Len(rpc) \in Nat /\ \A j \in Len(fifo) + 1 .. Len(rpc) : rpc[j] \in B
    BY <1>2, <1>5, LenProperties, ElementOfSeq
  <2> QED
    BY <1>2, <1>5, <2>1, SubSeqProperties
<1> HIDE DEF B, rest
<1>10. fifo \o rest \in Seq(B) /\ SubSeq(fifo \o rest, 1, Len(fifo)) = fifo
  BY <1>2, <1>9, ConcatProperties, FrontOfConcat
<1>11. (fifo \o rest)[1] = fifo[1]
  BY <1>2, <1>5, <1>9
<1>12. LastMsg' = LastMsg
  BY <1>1 DEF LastMsg
<1>13. InBuffer'
  BY <1>1, <1>4, <1>5, <1>8, <1>10, <1>11, <1>12 DEF InBuffer
<1>14. fifo' \in Seq(B)
  BY <1>8
<1> QED
  BY <1>1, <1>2, <1>8, <1>10, <1>13, <1>14 DEF ProxyInv, B

\* The answer is one to the last message.
LEMMA AnswerKeeps == ProxyInv /\ Answer => ProxyInv'
<1> SUFFICES ASSUME ProxyInv, Answer, ~ pipelined' PROVE ProxyInv'
  BY DEF ProxyInv
<1>1. /\ ~ pipelined /\ UNCHANGED <<msgs, fifo, rpc, pipelined>>
      /\ answered' = rpc[1][1] /\ pc' = "test" /\ pc = "answer"
  BY DEF Answer, hisVars, appVars, streamVars
<1>2. Taken /\ ~ Taken'
  BY <1>1 DEF Taken, Handling
<1>3. /\ msgs \in Seq(Kinds) /\ fifo \in Seq(Nat \X Nat) /\ rpc \in Seq(Nat \X Nat)
      /\ fifo = <<>> /\ rpc[1] = <<Len(msgs), 1>>
  BY <1>1, <1>2 DEF ProxyInv, InStream, InBuffer
<1>4. answered' = Len(msgs) /\ Len(msgs) \in Nat
  BY <1>1, <1>3, LenProperties
<1> QED
  BY <1>1, <1>2, <1>3, <1>4 DEF ProxyInv

\* A remote that waits sends into an empty stream.
LEMMA SendKeeps == ProxyInv /\ RemoteSend => ProxyInv'
<1> SUFFICES ASSUME ProxyInv, RemoteSend, ~ pipelined' PROVE ProxyInv'
  BY DEF ProxyInv
<1>1. PICK kind \in Kinds :
        /\ msgs' = Append(msgs, kind)
        /\ \/ Put(Len(msgs'), Size(kind))
           \/ Len(fifo) + Size(kind) > Capacity /\ UNCHANGED streamVars
  BY DEF RemoteSend
<1>2. /\ ~ pipelined /\ ~ (answered < Len(msgs))
      /\ UNCHANGED <<pc, bytes_rcvd, rpc, answered>>
  BY Zenon DEF RemoteSend, appVars
<1>3. /\ msgs \in Seq(Kinds) /\ answered \in 0 .. Len(msgs) /\ rpc \in Seq(Nat \X Nat)
      /\ fifo = <<>> /\ ~ Taken
  BY <1>2 DEF ProxyInv, InStream, InBuffer
<1>4. /\ msgs' \in Seq(Kinds) /\ Len(msgs') = Len(msgs) + 1 /\ Len(msgs) \in Nat
      /\ msgs'[Len(msgs')] = kind /\ msgs' # <<>>
  BY <1>1, <1>3
<1>5. ~ Taken'
  BY <1>2, <1>3 DEF Taken, Handling
<1>6. answered' \in 0 .. Len(msgs') /\ answered' < Len(msgs')
  BY <1>2, <1>3, <1>4
<1>7. Size(kind) \in {1, 2} /\ Len(msgs') \in Nat
  BY <1>4 DEF Size
<1>8. LastMsg' = [j \in 1 .. Size(kind) |-> <<Len(msgs'), j>>]
  BY <1>4 DEF LastMsg
<1>9. LastMsg' \in Seq(Nat \X Nat)
  <2>1. [j \in 1 .. Size(kind) |-> <<Len(msgs'), j>>] \in Seq(Nat \X Nat)
    BY <1>7, MessageShape, Zenon
  <2> QED
    BY <1>8, <2>1, Zenon
<1>10. fifo' = <<>> \/ fifo' = LastMsg'
  <2>1. CASE Put(Len(msgs'), Size(kind))
    <3>1. fifo' = <<>> \o [j \in 1 .. Size(kind) |-> <<Len(msgs'), j>>]
      BY <1>3, <2>1 DEF Put
    <3> QED
      BY <1>8, <1>9, <3>1, ConcatEmptySeq
  <2>2. CASE UNCHANGED streamVars
    BY <1>3, <2>2 DEF streamVars
  <2> QED
    BY <1>1, <2>1, <2>2
<1>11. fifo' \in Seq(Nat \X Nat)
  <2>1. <<>> \in Seq(Nat \X Nat)
    OBVIOUS
  <2> QED
    BY <1>9, <1>10, <2>1, Zenon
<1> QED
  BY <1>2, <1>3, <1>4, <1>5, <1>6, <1>10, <1>11 DEF ProxyInv, InStream

\* The strengthened invariant holds as long as the program runs.
THEOREM ProxyInvariance == ProxySpec => []ProxyInv
<1>1. ProxyInit => ProxyInv
  BY DEF ProxyInit, StreamInit, ProxyInv, Taken, Handling
<1>2. ProxyInv /\ [ProxyNext]_proxyVars => ProxyInv'
  BY QuietStep, QuietSteps, ReadKeeps, AnswerKeeps, SendKeeps
<1> QED
  BY <1>1, <1>2, PTL DEF ProxySpec

(***************************************************************************)
(* What handle_rpc acts on is the whole request of a remote that waits.    *)
(***************************************************************************)
THEOREM WholeRequests == ProxySpec => []RequestIsWhole
<1>1. ProxyInv => RequestIsWhole
  BY DEF ProxyInv, RequestIsWhole, Taken, InBuffer
<1> QED
  BY <1>1, ProxyInvariance, PTL

-----------------------------------------------------------------------------
(***************************************************************************)
(* The echo test.                                                          *)
(***************************************************************************)

\* The echo test starts with nothing under way.
LEMMA InitEchoInv == TestInit => EchoInv
  BY DEF TestInit, EchoInv, OneUnderWay, LoopCounts, PAYLOAD_MIN_SIZE

\* Every step of it, and of the remote, keeps the invariant.
LEMMA NextEchoInv == EchoInv /\ [TestNext]_testVars => EchoInv'
<1> SUFFICES ASSUME EchoInv, [TestNext]_testVars PROVE EchoInv'
  OBVIOUS
<1> USE DEF EchoInv, OneUnderWay, LoopCounts, Unspoilt, loopVars
<1>1. CASE Test
  BY <1>1 DEF Test, PAYLOAD_MIN_SIZE
<1>2. CASE LoopEnd \/ SendFails \/ Quit
  BY <1>2 DEF LoopEnd, SendFails, Quit
<1>3. CASE Send
  BY <1>3 DEF Send
<1>4. CASE Poll
  BY <1>4 DEF Poll
<1>5. CASE Validate
  BY <1>5 DEF Validate, Payload
<1>6. CASE Drain
  BY <1>6 DEF Drain
<1>7. CASE Echo
  <2> DEFINE p == Payload(i, size, size)
  <2>1. tpc = "poll" /\ wire = <<p>> /\ kfifo = <<>>
    BY <1>7 DEF Echo
  <2>2. Head(wire) = p /\ Head(wire).size = size /\ Tail(wire) = <<>>
    BY <2>1 DEF Payload
  <2>3. PICK b \in 0 .. size : /\ kfifo' = Append(kfifo, [p EXCEPT !.bad = b])
                              /\ spoilt' = IF b < size THEN spoilt + 1 ELSE spoilt
    BY <1>7, <2>2 DEF Echo
  <2>4. [p EXCEPT !.bad = b] = Payload(i, size, b)
    BY DEF Payload
  <2>5. kfifo' = <<Payload(i, size, b)>>
    BY <2>1, <2>3, <2>4
  <2>6. spoilt' \in Nat /\ (spoilt' = 0 => b = size)
    BY <2>3
  <2> QED
    BY <1>7, <2>1, <2>2, <2>5, <2>6 DEF Echo
<1>8. CASE UNCHANGED testVars
  BY <1>8 DEF testVars
<1> QED
  BY <1>1, <1>2, <1>3, <1>4, <1>5, <1>6, <1>7, <1>8, Zenon DEF TestNext, TestStep

(***************************************************************************)
(* The invariant of the echo test holds throughout, for every largest      *)
(* payload.                                                                *)
(***************************************************************************)
THEOREM EchoInvariance == TestSpec => []EchoInv
  BY InitEchoInv, NextEchoInv, PTL DEF TestSpec

(***************************************************************************)
(* No echo is taken for another: the program writes a payload only when    *)
(* nothing of an earlier one is under way or unread, so what it validates  *)
(* is the echo of what it sent last, however long the remote takes and     *)
(* whichever bytes it spoils.                                              *)
(***************************************************************************)
THEOREM EchoesAreOwn == TestSpec => []EchoIsOwn
<1>1. EchoInv => EchoIsOwn
  BY DEF EchoInv, OneUnderWay, LoopCounts, EchoIsOwn, Payload
<1> QED
  BY <1>1, EchoInvariance, PTL

(***************************************************************************)
(* Without a spoilt echo no payload is marked past the end of its buffer,  *)
(* although validating an echo overwrites the loop variable.               *)
(***************************************************************************)
THEOREM BufferIsMarked == TestSpec => []MarksBuffer
<1>1. EchoInv => MarksBuffer
  BY EchoAssumption DEF EchoInv, OneUnderWay, LoopCounts, MarksBuffer,
     NUM_PAYLOADS, PAYLOAD_MIN_SIZE
<1> QED
  BY <1>1, EchoInvariance, PTL

-----------------------------------------------------------------------------
(***************************************************************************)
(* The matrix demo.                                                        *)
(***************************************************************************)

\* A multiple of the frame stays one when a frame is added.
LEMMA AddFrame ==
  ASSUME NEW F \in Nat \ {0}, NEW a \in Nat
  PROVE  (a + F) % F = a % F
<1> DEFINE q == a \div F
           m == a % F
           k == (a + F) \div F
           n == (a + F) % F
<1>1. q \in Nat /\ m \in Nat /\ m < F /\ a = F * q + m
  OBVIOUS
<1>2. k \in Nat /\ n \in Nat /\ n < F /\ a + F = F * k + n
  OBVIOUS
<1> HIDE DEF q, m, k, n
<1>3. F * (k - (q + 1)) = m - n
  BY <1>1, <1>2
<1> DEFINE z == k - (q + 1)
<1>4. z \in Int /\ F * z = m - n
  BY <1>1, <1>2, <1>3
<1> HIDE DEF z
<1>5. ~ (z >= 1)
  <2> SUFFICES ASSUME z >= 1 PROVE FALSE
    OBVIOUS
  <2>1. F * z >= F
    BY <1>4
  <2> QED
    BY <1>1, <1>2, <1>4, <2>1
<1>6. ~ (z <= -1)
  <2> SUFFICES ASSUME z <= -1 PROVE FALSE
    OBVIOUS
  <2>1. F * z <= -F
    BY <1>4
  <2> QED
    BY <1>1, <1>2, <1>4, <2>1
<1>7. z = 0
  BY <1>4, <1>5, <1>6
<1>8. m = n
  BY <1>1, <1>2, <1>4, <1>7
<1> QED
  BY <1>8 DEF m, n

\* The mutex hands on at most one permit per command.
LEMMA PermitStep ==
  MatMulInv /\ [MatMulNext]_matVars => PermitInv'
<1> SUFFICES ASSUME MatMulInv, [MatMulNext]_matVars PROVE PermitInv'
  OBVIOUS
<1>0. /\ begun \in Nat /\ cmds \in Nat /\ sync_lock \in BOOLEAN
      /\ ui \in {"menu", "unlock", "write", "quit", "done"} /\ PermitInv
  BY DEF MatMulInv
<1> USE <1>0 DEF PermitInv, Permits, threadVars, matHisVars
<1>1. CASE UiCompute
  BY <1>1 DEF UiCompute
<1>2. CASE UiUnlock
  BY <1>2 DEF UiUnlock
<1>3. CASE UiWrite
  BY <1>3 DEF UiWrite
<1>4. CASE UiQuit
  BY <1>4 DEF UiQuit
<1>5. CASE UiQuitUnlock
  BY <1>5 DEF UiQuitUnlock
<1>6. CASE ComputeLock
  BY <1>6 DEF ComputeLock
<1>7. CASE ComputeTest
  BY <1>7 DEF ComputeTest
<1>8. CASE ComputeShort \/ ComputeRead
  BY <1>8 DEF ComputeShort, ComputeRead
<1>9. CASE JoinUi \/ JoinCompute \/ MatMulAnswer \/ UNCHANGED matVars
  BY <1>9 DEF JoinUi, JoinCompute, MatMulAnswer, matVars
<1> QED
  BY <1>1, <1>2, <1>3, <1>4, <1>5, <1>6, <1>7, <1>8, <1>9
     DEF MatMulNext, Ui, Compute

\* Prompt writes keep the stream aligned.
LEMMA StreamStep ==
  MatMulInv /\ [MatMulNext]_matVars
    => StreamInv' /\ rd' \in Nat /\ wr' \in Nat /\ rd' <= wr'
<1> DEFINE Goal == StreamInv' /\ rd' \in Nat /\ wr' \in Nat /\ rd' <= wr'
<1> SUFFICES ASSUME MatMulInv, [MatMulNext]_matVars
             PROVE  Goal
  OBVIOUS
<1>0. /\ ResultWords \in Nat \ {0} /\ FrameWords \in Nat \ {0}
      /\ ResultWords <= FrameWords /\ FrameWords < 2 * ResultWords
  BY MatMulAssumption
<1>00. /\ requests \in Nat /\ rd \in Nat /\ wr \in Nat /\ rd <= wr
       /\ prompt \in BOOLEAN /\ whole \in BOOLEAN /\ StreamInv
  BY DEF MatMulInv
<1> USE <1>0, <1>00 DEF StreamInv, threadVars, matHisVars
<1>1. CASE UiCompute \/ UiUnlock \/ UiQuit \/ UiQuitUnlock
  BY <1>1 DEF UiCompute, UiUnlock, UiQuit, UiQuitUnlock
<1>2. CASE UiWrite
  <2>1. CASE prompt /\ ComputeReads
    <3>1. requests' = 1 \/ requests' = 0
      BY <1>2, <2>1 DEF UiWrite, ComputeReads
    <3> QED
      BY <1>2, <2>1, <3>1 DEF UiWrite, ComputeReads
  <2>2. CASE ~ (prompt /\ ComputeReads)
    <3>1. prompt' = FALSE /\ rd' = rd /\ wr' = wr
      BY <1>2, <2>2, Zenon DEF UiWrite
    <3> QED
      BY <3>1
  <2> QED
    BY <2>1, <2>2
<1>3. CASE ComputeLock \/ ComputeTest
  BY <1>3 DEF ComputeLock, ComputeTest
<1>4. CASE ComputeShort
  BY <1>4 DEF ComputeShort
<1>5. CASE ComputeRead
  <2>1. prompt => whole /\ requests = 0 /\ rd + FrameWords = wr
    BY <1>5 DEF ComputeRead
  <2>2. prompt => rd % FrameWords = 0
    BY <2>1, AddFrame, Zenon
  <2>3. rd' \in Nat /\ rd' <= wr /\ (prompt => wr = rd' + FrameWords - ResultWords)
    BY <1>5, <2>1 DEF ComputeRead
  <2>4. wr' = wr /\ prompt' = prompt /\ requests' = requests /\ (prompt => whole')
    BY <1>5, <2>1, <2>2 DEF ComputeRead
  <2> QED
    BY <2>1, <2>3, <2>4, Zenon
<1>6. CASE JoinUi \/ JoinCompute \/ UNCHANGED matVars
  BY <1>6 DEF JoinUi, JoinCompute, matVars
<1>7. CASE MatMulAnswer
  <2>1. (wr + FrameWords) % FrameWords = 0
    BY AddFrame, Zenon
  <2> QED
    BY <1>7, <2>1 DEF MatMulAnswer
<1> QED
  BY <1>1, <1>2, <1>3, <1>4, <1>5, <1>6, <1>7 DEF MatMulNext, Ui, Compute

\* Every step of the two threads, of main and of the remote keeps the invariant.
LEMMA NextMatMulInv ==
  MatMulInv /\ [MatMulNext]_matVars => MatMulInv'
<1> SUFFICES ASSUME MatMulInv, [MatMulNext]_matVars
             PROVE  MatMulInv'
  OBVIOUS
<1>1. /\ PermitInv' /\ StreamInv'
      /\ rd' \in Nat /\ wr' \in Nat /\ rd' <= wr'
  BY PermitStep, StreamStep
<1>2. /\ ui' \in {"menu", "unlock", "write", "quit", "done"}
      /\ compute' \in {"lock", "test", "read", "done"}
      /\ requests' \in Nat /\ cmds' \in Nat /\ begun' \in Nat
  <2>1. CASE UiCompute \/ UiUnlock \/ UiWrite
    BY <2>1 DEF MatMulInv, UiCompute, UiUnlock, UiWrite,
       threadVars, matHisVars
  <2>2. CASE UiQuit \/ UiQuitUnlock
    BY <2>2 DEF MatMulInv, UiQuit, UiQuitUnlock,
       threadVars, matHisVars
  <2>3. CASE ComputeLock \/ ComputeTest \/ ComputeShort \/ ComputeRead
    BY <2>3 DEF MatMulInv, ComputeLock, ComputeTest, ComputeShort, ComputeRead,
       threadVars, matHisVars
  <2>4. CASE JoinUi \/ JoinCompute \/ MatMulAnswer \/ UNCHANGED matVars
    BY <2>4 DEF MatMulInv, JoinUi, JoinCompute, MatMulAnswer, matVars,
       threadVars, matHisVars
  <2> QED
    BY <2>1, <2>2, <2>3, <2>4, Zenon DEF MatMulNext, Ui, Compute
<1>3. sync_lock' \in BOOLEAN /\ prompt' \in BOOLEAN /\ whole' \in BOOLEAN
  <2>1. CASE UiCompute \/ UiUnlock \/ UiWrite
    BY <2>1, Zenon DEF MatMulInv, UiCompute, UiUnlock, UiWrite,
       threadVars, matHisVars
  <2>2. CASE UiQuit \/ UiQuitUnlock
    BY <2>2, Zenon DEF MatMulInv, UiQuit, UiQuitUnlock,
       threadVars, matHisVars
  <2>3. CASE ComputeLock \/ ComputeTest \/ ComputeShort \/ ComputeRead
    BY <2>3, Zenon DEF MatMulInv, ComputeLock, ComputeTest, ComputeShort, ComputeRead,
       threadVars, matHisVars
  <2>4. CASE JoinUi \/ JoinCompute \/ MatMulAnswer \/ UNCHANGED matVars
    BY <2>4 DEF MatMulInv, JoinUi, JoinCompute, MatMulAnswer, matVars,
       threadVars, matHisVars
  <2> QED
    BY <2>1, <2>2, <2>3, <2>4, Zenon DEF MatMulNext, Ui, Compute
<1> QED
  BY <1>1, <1>2, <1>3 DEF MatMulInv

(***************************************************************************)
(* The invariant of the matrix demo holds throughout, for every size of a  *)
(* result whose padding is shorter than it and for every kfifo.            *)
(***************************************************************************)
THEOREM MatMulInvariance == MatMulSpec => []MatMulInv
<1>1. MatMulInit => MatMulInv
  BY MatMulAssumption DEF MatMulInit, MatMulInv, PermitInv,
     Permits, StreamInv
<1>2. MatMulInv /\ [MatMulNext]_matVars => MatMulInv'
  BY NextMatMulInv
<1> QED
  BY <1>1, <1>2, PTL DEF MatMulSpec

(***************************************************************************)
(* sync_lock is used as a semaphore, unlocked by the thread that did not   *)
(* lock it; it still lets the compute thread through once per command at   *)
(* most, whenever the commands come and whatever quitting adds.            *)
(***************************************************************************)
THEOREM RoundsAreAsked == MatMulSpec => []RoundsAsked
<1>1. MatMulInv => RoundsAsked
  BY DEF MatMulInv, PermitInv, Permits, RoundsAsked
<1> QED
  BY <1>1, MatMulInvariance, PTL

(***************************************************************************)
(* If every write finds the compute thread blocked on an empty kfifo,      *)
(* every product it prints is one answer of the remote, from its first     *)
(* word on: the padding that each read leaves behind is thrown away as a   *)
(* short read.                                                             *)
(***************************************************************************)
THEOREM PromptRoundsAreWhole == MatMulSpec => []PromptIsWhole
<1>1. MatMulInv => PromptIsWhole
  BY DEF MatMulInv, StreamInv, PromptIsWhole
<1> QED
  BY <1>1, MatMulInvariance, PTL
=============================================================================
