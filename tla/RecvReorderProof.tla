--------------------------- MODULE RecvReorderProof ----------------------------
(***************************************************************************)
(* Proofs about RecvReorder, for every set of frame numbers and any number *)
(* of arrivals and resets.                                                 *)
(***************************************************************************)
EXTENDS RecvReorder, SequenceTheorems, TLAPS

(* The 12-bit comparison of rtw_recv.h tells the order of true numbers     *)
(* that are less than half the number space apart.                         *)
LEMMA SNLess ==
    ASSUME NEW a \in Int, NEW b \in Int, a - b >= -2048, a - b <= 2047
    PROVE  SN_LESS(SEQ(a), SEQ(b)) <=> a < b
BY DEF SN_LESS, SEQ, MOD, HALF

(* Numbers less than the whole space apart are equal when their sequence   *)
(* numbers are.                                                            *)
LEMMA SNEqual ==
    ASSUME NEW a \in Int, NEW b \in Int, a - b > -4096, a - b < 4096
    PROVE  SEQ(a) = SEQ(b) <=> a = b
<1>1. SEQ(a) = SEQ(b) => (a - b) % 4096 = 0
  BY DEF SEQ, MOD
<1>2. (a - b) % 4096 = 0 => a = b
  OBVIOUS
<1> QED BY <1>1, <1>2

(* Sequence numbers are 12 bits wide, and never the mark for no window.    *)
LEMMA SeqType == ASSUME NEW a \in Int PROVE SEQ(a) \in Nat /\ SEQ(a) <= 4095 /\ SEQ(a) # NONE
BY DEF SEQ, MOD, NONE

(* Adding to a sequence number is adding to the true number; and the shift *)
(* of check_indicate_seq across the wrap subtracts WSIZE - 1.              *)
LEMMA SeqPlus ==
    ASSUME NEW a \in Int
    PROVE  /\ (SEQ(a) + 1) % MOD = SEQ(a + 1)
           /\ (SEQ(a) + WSIZE - 1) % MOD = SEQ(a + 63)
           /\ (IF SEQ(a) >= WSIZE - 1 THEN SEQ(a) + 1 - WSIZE
               ELSE 4095 - (WSIZE - (SEQ(a) + 1)) + 1) = SEQ(a - 63)
BY DEF SEQ, MOD, WSIZE
--------------------------------------------------------------------------------
(* The frames that wait are in increasing order, and all after the last    *)
(* one handed up.                                                          *)
Sorted ==
    /\ \A i, j \in 1 .. Len(pending) : i < j => pending[i] < pending[j]
    /\ \A i \in 1 .. Len(pending) : last < pending[i]

(* b is the true number the window starts with; r bounds what an upset of  *)
(* the window may leave behind its start while the queue is locked.        *)
Window(b) ==
    /\ SEQ(b) = indicate_seq /\ last < b
    /\ \A i \in 1 .. Len(pending) : pending[i] <= b + 63 /\ b - 2047 <= pending[i]
    /\ ~ QueueLocked => \A i \in 1 .. Len(pending) : b < pending[i]

(* The newest frame has been handed up or waits, and the window is near.   *)
Near(b) ==
    /\ top # -1 /\ top - 63 <= b /\ b <= top + 1
    /\ \A i \in 1 .. Len(pending) : pending[i] <= top
    /\ top = last \/ top \in Held

(* The frame in the tasklet's hand is new, or old but not too old.         *)
InHand(b) ==
    \/ /\ prframe = top /\ b <= prframe /\ prframe <= b + 2047
       /\ \A i \in 1 .. Len(pending) : pending[i] < prframe
    \/ prframe <= top /\ prframe > top - 2048 /\ Near(b)

Calm ==
    /\ Sorted
    /\ last <= top
    /\ ~ enable \/ indicate_seq = NONE => pending = << >>
    /\ rx \in {"lock", "indicate", "cancel"} => enable
    /\ rx \in {"direct", "bump"} => ~ enable /\ prframe = top /\ indicate_seq = SEQ(prframe)
    /\ rx = "direct" => last < prframe
    /\ rx = "bump" => last = prframe
    /\ rx = "lock" /\ indicate_seq = NONE => prframe = top /\ last < prframe
    /\ rx = "lock" /\ indicate_seq # NONE => \E b \in Int : Window(b) /\ InHand(b)
    /\ rx \in {"indicate", "cancel"} => indicate_seq # NONE
    /\ rx \in {"idle", "indicate", "cancel"} /\ indicate_seq # NONE =>
           \E b \in Int : Window(b) /\ Near(b)
    /\ rx = "idle" /\ indicate_seq = NONE => top = last

(* Locking and the timer: the parts of the invariant that hold whatever    *)
(* has upset the window.                                                   *)
TimerInv ==
    /\ ~ (rx = "indicate" /\ tmr = "indicate")
    /\ rx = "cancel" => pending = << >>
    /\ HeldHasTimer

(* The inductive invariant: the types, one holder of the queue's lock,     *)
(* nothing waiting when the tasklet is about to cancel the timer, a timer  *)
(* for what waits, and, while nothing has upset it, the window over true   *)
(* numbers.                                                                *)
IInv ==
    /\ TypeOK
    /\ TimerInv
    /\ ~ Upset => Calm
--------------------------------------------------------------------------------
(* Taking the head off the frames that wait.                               *)
LEMMA TailFacts ==
    ASSUME NEW S, NEW q \in Seq(S), q # << >>
    PROVE  /\ Head(q) = q[1] /\ Head(q) \in S
           /\ Tail(q) \in Seq(S) /\ Len(q) >= 1 /\ Len(Tail(q)) = Len(q) - 1
           /\ \A i \in 1 .. Len(Tail(q)) : Tail(q)[i] = q[i + 1]
BY HeadTailProperties, EmptySeq

(* Putting a frame in behind the first i that wait.                        *)
LEMMA InsertFacts ==
    ASSUME pending \in Seq(Frames), NEW n \in Frames, NEW i \in 0 .. Len(pending)
    PROVE  /\ InsertAt(i, n) \in Seq(Frames)
           /\ Len(InsertAt(i, n)) = Len(pending) + 1
           /\ DOMAIN InsertAt(i, n) = 1 .. Len(pending) + 1
           /\ \A j \in 1 .. i : InsertAt(i, n)[j] = pending[j]
           /\ InsertAt(i, n)[i + 1] = n
           /\ \A j \in i + 1 .. Len(pending) : InsertAt(i, n)[j + 1] = pending[j]
<1> DEFINE q == InsertAt(i, n)
<1>1. Len(pending) \in Nat /\ \A j \in 1 .. Len(pending) : pending[j] \in Frames
  OBVIOUS
<1>2. q \in [1 .. Len(pending) + 1 -> Frames]
  BY <1>1 DEF InsertAt
<1>3. q \in Seq(Frames)
  BY <1>1, <1>2, SeqDef
<1>4. Len(q) = Len(pending) + 1
  BY <1>1, <1>2, <1>3, LenProperties
<1> QED BY <1>1, <1>2, <1>3, <1>4 DEF InsertAt

(* A window that a frame has passed starts at a number.                    *)
LEMMA CheckType ==
    ASSUME TypeOK, NEW n \in Nat, check_indicate_seq(SEQ(n))
    PROVE  indicate_seq' \in Nat
<1> DEFINE s == SEQ(n)
           w == wstart(s)
<1>1. s \in Nat /\ w \in Nat
  BY SeqType DEF wstart, TypeOK
<1>2. CASE indicate_seq' \in {(w + 1) % MOD, w}
  <2>1. (w + 1) % MOD \in Nat
    BY <1>1 DEF MOD
  <2> QED BY <1>1, <1>2, <2>1
<1>3. CASE indicate_seq' = SEQ(n - 63)
  BY <1>3, SeqType
<1> QED BY <1>1, <1>2, <1>3, SeqPlus DEF check_indicate_seq

(* The flags stay flags.                                                   *)
Flags == {enable, armed, stopped, ap, torn} \subseteq BOOLEAN

\* Every step keeps the types of the flags.
LEMMA FlagsStep == Flags /\ [Next]_vars => Flags'
<1> SUFFICES ASSUME Flags, [Next]_vars PROVE Flags'
  OBVIOUS
<1> USE DEF Flags, ctrl, env, hist
<1>1. ASSUME NEW n \in Frames, Receive(n) PROVE Flags'
  BY <1>1, Zenon DEF Receive
<1>2. CASE Tasklet
  BY <1>2, Zenon DEF Tasklet, Direct, Bump, Check, Drop, RxIndicate, RxIndicated, RxCancel
<1>3. CASE Timer
  BY <1>3, Zenon DEF Timer, Expire, Timeout, TmrIndicate, TmrIndicated
<1>4. CASE Free \/ FreeStation \/ Stop
  BY <1>4, Zenon DEF Free, FreeCancel, FreeDrain, FreeStation, Stop
<1>5. CASE process_addba_req \/ send_delba
  BY <1>5, Zenon DEF process_addba_req, send_delba, Reset
<1>6. CASE UNCHANGED vars
  BY <1>6, Zenon DEF vars
<1> QED BY <1>1, <1>2, <1>3, <1>4, <1>5, <1>6, Zenon DEF Next

(* The other types hold in every state.                                    *)
Shapes ==
    /\ indicate_seq \in Nat /\ tid_rxseq \in Nat
    /\ pending \in Seq(Frames)
    /\ prframe \in Frames \cup {-1} /\ (rx # "idle" => prframe \in Frames)
    /\ rx \in {"idle", "direct", "bump", "lock", "indicate", "cancel"}
    /\ tmr \in {"idle", "lock", "indicate"} /\ free \in {"no", "cancel", "drain", "done"}
    /\ arrivals \in Nat /\ resets \in Nat
    /\ top \in Frames \cup {-1} /\ last \in Frames \cup {-1} /\ freed \subseteq Frames

\* Every step keeps the types of queue, numbers and places.
LEMMA ShapesStep == TypeOK /\ [Next]_vars => Shapes'
<1> SUFFICES ASSUME TypeOK, Shapes, [Next]_vars PROVE Shapes'
  BY DEF TypeOK, Shapes
<1>0. NONE \in Nat /\ \A n \in Frames : SEQ(n) \in Nat
  BY FramesAssumption, SeqType DEF NONE
<1> USE <1>0 DEF Shapes, rxframe
<1>1. ASSUME NEW n \in Frames, Receive(n) PROVE Shapes'
  BY <1>1 DEF Receive
<1>2. CASE Direct
  BY <1>2 DEF Direct, rtw_recv_indicatepkt, ctrl, env
<1>3. CASE Bump
  <2>1. indicate_seq' \in Nat
    BY <1>3 DEF Bump, MOD
  <2> QED BY <1>3, <2>1 DEF Bump, env, hist
<1>4. CASE Check
  <2>1. indicate_seq' \in Nat
    BY <1>4, CheckType, FramesAssumption DEF Check
  <2>2. pending' = pending \/ \E i \in 0 .. Len(pending) : pending' = InsertAt(i, prframe)
    BY <1>4 DEF Check, enqueue_reorder_recvframe
  <2>3. pending' \in Seq(Frames)
    BY <1>4, <2>2, InsertFacts DEF Check
  <2> QED BY <1>4, <2>1, <2>3 DEF Check, env, hist
<1>5. CASE Drop
  BY <1>5 DEF Drop, ctrl, env, hist
<1>6. CASE RxIndicate \/ TmrIndicate
  <2>1. pending # << >> /\ pending' = Tail(pending) /\ last' \in {last, Head(pending)}
    BY <1>6 DEF RxIndicate, TmrIndicate, IndicateHead, Ready, rtw_recv_indicatepkt
  <2>2. indicate_seq' \in Nat
    BY <1>6 DEF RxIndicate, TmrIndicate, IndicateHead, MOD
  <2>3. pending' \in Seq(Frames) /\ last' \in Frames \cup {-1}
    BY <2>1, TailFacts
  <2> QED BY <1>6, <2>1, <2>2, <2>3 DEF RxIndicate, TmrIndicate, env
<1>7. CASE RxIndicated
  BY <1>7 DEF RxIndicated, ctrl, env, hist
<1>8. CASE RxCancel
  BY <1>8 DEF RxCancel, ctrl, env, hist
<1>9. CASE Expire
  BY <1>9 DEF Expire, ctrl, env, hist
<1>10. CASE Timeout
  BY <1>10, TailFacts DEF Timeout, env, hist
<1>11. CASE TmrIndicated
  BY <1>11 DEF TmrIndicated, ctrl, env, hist
<1>12. CASE process_addba_req \/ send_delba
  BY <1>12 DEF process_addba_req, send_delba, Reset
<1>13. CASE FreeStation \/ FreeCancel
  BY <1>13 DEF FreeStation, FreeCancel, ctrl, env, hist
<1>14. CASE FreeDrain
  BY <1>14, EmptySeq DEF FreeDrain, Held, env
<1>15. CASE Stop
  BY <1>15 DEF Stop, ctrl, hist
<1>16. CASE UNCHANGED vars
  BY <1>16 DEF vars, ctrl, env, hist
<1> QED BY <1>1, <1>2, <1>3, <1>4, <1>5, <1>6, <1>7, <1>8, <1>9, <1>10, <1>11, <1>12,
           <1>13, <1>14, <1>15, <1>16 DEF Next, Tasklet, Timer, Free

(* The types hold in every state.                                          *)
LEMMA TypeStep == TypeOK /\ [Next]_vars => TypeOK'
BY FlagsStep, ShapesStep DEF TypeOK, Flags, Shapes

\* Every step keeps a timer queued for the frames that wait.
LEMMA TimerStep == TypeOK /\ TimerInv /\ [Next]_vars => TimerInv'
<1> SUFFICES ASSUME TypeOK, TimerInv, [Next]_vars PROVE TimerInv'
  OBVIOUS
<1> USE DEF TypeOK, TimerInv, HeldHasTimer, QueueLocked, ctrl, env, hist
<1>1. ASSUME NEW n \in Frames, Receive(n) PROVE TimerInv'
  BY <1>1 DEF Receive
<1>2. CASE Direct \/ Bump
  BY <1>2 DEF Direct, Bump
<1>3. CASE Check
  BY <1>3 DEF Check
<1>4. CASE Drop
  BY <1>4 DEF Drop
<1>5. CASE RxIndicate \/ TmrIndicate
  BY <1>5 DEF RxIndicate, TmrIndicate, IndicateHead, Ready
<1>6. CASE RxIndicated \/ RxCancel
  BY <1>6 DEF RxIndicated, RxCancel
<1>7. CASE Expire \/ Timeout
  BY <1>7 DEF Expire, Timeout
<1>8. CASE TmrIndicated
  BY <1>8, Zenon DEF TmrIndicated
<1>9. CASE process_addba_req \/ send_delba
  BY <1>9 DEF process_addba_req, send_delba, Reset
<1>10. CASE FreeStation \/ FreeCancel \/ FreeDrain
  BY <1>10 DEF FreeStation, FreeCancel, FreeDrain
<1>11. CASE Stop
  BY <1>11 DEF Stop
<1>12. CASE UNCHANGED vars
  BY <1>12 DEF vars
<1> QED BY <1>1, <1>2, <1>3, <1>4, <1>5, <1>6, <1>7, <1>8, <1>9, <1>10, <1>11, <1>12
        DEF Next, Tasklet, Timer, Free
--------------------------------------------------------------------------------
(* What the types say of the numbers.                                      *)
LEMMA Numbers ==
    ASSUME TypeOK
    PROVE  /\ top \in Int /\ last \in Int /\ top >= -1 /\ last >= -1
           /\ Len(pending) \in Nat /\ pending \in Seq(Frames) /\ Frames \subseteq Nat
           /\ rx # "idle" => prframe \in Nat
           /\ \A i \in 1 .. Len(pending) : pending[i] \in Nat
           /\ Held = {pending[i] : i \in 1 .. Len(pending)}
           /\ pending = << >> <=> Len(pending) = 0
<1>1. pending \in Seq(Frames) /\ Len(pending) \in Nat /\ DOMAIN pending = 1 .. Len(pending)
      /\ \A i \in 1 .. Len(pending) : pending[i] \in Frames
  BY DEF TypeOK
<1>2. pending = << >> <=> Len(pending) = 0
  BY <1>1, EmptySeq
<1>3. /\ top \in Int /\ last \in Int /\ top >= -1 /\ last >= -1
      /\ rx # "idle" => prframe \in Nat
  BY FramesAssumption DEF TypeOK
<1> QED BY <1>1, <1>2, <1>3, FramesAssumption, Zenon DEF Held

(* The window over the frames that wait, seen from its start: comparisons  *)
(* of sequence numbers agree with those of true numbers.                   *)
LEMMA HeadReady ==
    ASSUME TypeOK, NEW b \in Int, Window(b), pending # << >>
    PROVE  /\ Head(pending) = pending[1] /\ Head(pending) \in Frames
           /\ Ready <=> pending[1] <= b
           /\ indicate_seq = SEQ(pending[1]) <=> b = pending[1]
<1>1. Head(pending) = pending[1] /\ Head(pending) \in Frames /\ Len(pending) >= 1
  BY TailFacts DEF TypeOK
<1>2. pending[1] \in Int /\ pending[1] <= b + 63 /\ b - 2047 <= pending[1]
  BY <1>1, Numbers DEF Window
<1>3. SN_LESS(SEQ(b), SEQ(pending[1])) <=> b < pending[1]
  BY <1>2, SNLess
<1>4. SEQ(b) = SEQ(pending[1]) <=> b = pending[1]
  BY <1>2, SNEqual
<1>5. indicate_seq = SEQ(b)
  BY DEF Window
<1> QED BY <1>1, <1>2, <1>3, <1>4, <1>5 DEF Ready

(* A frame arrives.                                                        *)
LEMMA CalmReceive ==
    ASSUME TypeOK, Calm, NEW n \in Frames, Receive(n)
    PROVE  Calm'
<1> USE DEF ctrl, rxframe
<1>1. CASE tid_rxseq = SEQ(n)
  <2>1. UNCHANGED << ctrl, rxframe, rx, tmr, top, last >>
    BY <1>1 DEF Receive
  <2> QED BY <2>1 DEF Calm, Sorted, Window, Near, InHand, QueueLocked, Held
<1>2. CASE tid_rxseq # SEQ(n)
  <2>1. /\ rx = "idle" /\ prframe' = n /\ top' = (IF n > top THEN n ELSE top)
        /\ rx' = (IF enable THEN "lock" ELSE "direct")
        /\ indicate_seq' = (IF enable THEN indicate_seq ELSE SEQ(n))
        /\ UNCHANGED << enable, pending, last, tmr >>
    BY <1>2 DEF Receive
  <2>2. n \in Nat
    BY FramesAssumption
  <2>3. \/ top = -1
        \/ n > top /\ n <= top + 1984
        \/ enable /\ indicate_seq # NONE /\ n <= top /\ n > top - 2048
    BY <1>2 DEF Receive, Sendable, HALF, WSIZE
  <2>4. Sorted' /\ last' <= top' /\ (~ enable' \/ indicate_seq' = NONE => pending' = << >>)
    BY <2>1, <2>2, Numbers DEF Calm, Sorted
  <2>5. indicate_seq = NONE \/ ~ enable => n > top
    BY <2>2, <2>3, Numbers
  <2>6. n > top => top' = n /\ last < n
    BY <2>1, <2>2, Numbers DEF Calm
  <2>7. ASSUME indicate_seq # NONE, enable
        PROVE  \E b \in Int : Window(b)' /\ InHand(b)'
    <3>1. PICK b \in Int : Window(b) /\ Near(b)
      BY <2>1, <2>7 DEF Calm
    <3>2. Window(b)'
      BY <2>1, <2>7, <3>1 DEF Window, QueueLocked
    <3>3. CASE n > top
      <4>1. b <= n /\ n <= b + 2047 /\ \A i \in 1 .. Len(pending) : pending[i] < n
        BY <2>2, <2>3, <3>1, <3>3, Numbers DEF Near
      <4> QED BY <2>1, <2>2, <2>6, <3>2, <3>3, <4>1, Numbers DEF InHand
    <3>4. CASE ~ n > top
      <4>1. n <= top /\ n > top - 2048 /\ top' = top
        BY <2>1, <2>2, <2>3, <3>1, <3>4, Numbers DEF Near
      <4> QED BY <2>1, <3>1, <3>2, <4>1 DEF InHand, Near, Held
    <3> QED BY <3>3, <3>4
  <2> QED BY <2>1, <2>4, <2>5, <2>6, <2>7, Zenon DEF Calm
<1> QED BY <1>1, <1>2

(* The frame in hand against a window that starts at b: what it takes to   *)
(* pass check_indicate_seq, and where the window starts then.              *)
LEMMA Passed ==
    ASSUME TypeOK, rx = "lock", NEW b \in Int, Window(b), InHand(b)
    PROVE  /\ SN_LESS(SEQ(prframe), wstart(SEQ(prframe))) <=> prframe < b
           /\ check_indicate_seq(SEQ(prframe)) =>
                 /\ b <= prframe
                 /\ indicate_seq' = SEQ(IF prframe = b THEN b + 1
                                        ELSE IF prframe <= b + 63 THEN b ELSE prframe - 63)
<1> DEFINE n == prframe
<1>1. n \in Int /\ top \in Int /\ b - 2048 <= n /\ n <= b + 2047
  BY Numbers DEF InHand, Near
<1>2. indicate_seq = SEQ(b) /\ wstart(SEQ(n)) = SEQ(b)
  BY SeqType DEF Window, wstart
<1>3. SN_LESS(SEQ(n), SEQ(b)) <=> n < b
  BY <1>1, SNLess
<1>4. SEQ(n) = SEQ(b) <=> n = b
  BY <1>1, SNEqual
<1>5. (SEQ(b) + 1) % MOD = SEQ(b + 1) /\ wend = SEQ(b + 63)
  BY <1>2, SeqPlus DEF wend
<1>6. b <= n => (SN_LESS(SEQ(b + 63), SEQ(n)) <=> b + 63 < n)
  BY <1>1, SNLess
<1>7. ASSUME check_indicate_seq(SEQ(n))
      PROVE  /\ ~ SN_LESS(SEQ(n), SEQ(b))
             /\ indicate_seq' = IF SEQ(n) = SEQ(b) THEN SEQ(b + 1)
                                ELSE IF ~ SN_LESS(SEQ(b + 63), SEQ(n)) THEN SEQ(b)
                                ELSE SEQ(n - 63)
  BY <1>1, <1>2, <1>5, <1>7, SeqPlus DEF check_indicate_seq
<1> QED BY <1>1, <1>2, <1>3, <1>4, <1>6, <1>7

(* A frame before the window is an old one.                                *)
LEMMA CalmDrop ==
    ASSUME TypeOK, Calm, Drop
    PROVE  Calm'
<1>1. rx = "lock" /\ rx' = "idle" /\ SN_LESS(SEQ(prframe), wstart(SEQ(prframe)))
      /\ UNCHANGED << enable, indicate_seq, pending, prframe, tmr, top, last >>
  BY DEF Drop, ctrl, rxframe, hist
<1>2. indicate_seq # NONE
  BY <1>1, SNLess, Numbers DEF wstart
<1>3. PICK b \in Int : Window(b) /\ InHand(b)
  BY <1>1, <1>2 DEF Calm
<1>4. prframe < b
  BY <1>1, <1>3, Passed
<1>5. Near(b)
  BY <1>1, <1>3, <1>4, Numbers DEF InHand
<1>6. Window(b)' /\ Near(b)'
  BY <1>1, <1>3, <1>5 DEF Window, Near, Held, QueueLocked
<1>7. Sorted' /\ last' <= top' /\ (~ enable' \/ indicate_seq' = NONE => pending' = << >>)
  BY <1>1 DEF Calm, Sorted
<1> QED BY <1>1, <1>2, <1>6, <1>7, Zenon DEF Calm

(* Putting the frame in keeps the frames in order.                         *)
LEMMA Inserted ==
    ASSUME TypeOK, Sorted, rx = "lock", NEW b \in Int, b <= prframe, prframe <= b + 2047, last < b,
           \A i \in 1 .. Len(pending) : b < pending[i] /\ pending[i] <= b + 63,
           UNCHANGED last
    PROVE  /\ enqueue_reorder_recvframe(prframe) =>
                 /\ Sorted'
                 /\ \A j \in 1 .. Len(pending') : pending'[j] = prframe \/ \E i \in 1 .. Len(pending) : pending'[j] = pending[i]
                 /\ Held' = Held \cup {prframe} /\ prframe \notin Held
           /\ Duplicate(SEQ(prframe)) => prframe \in Held
<1> DEFINE n == prframe
<1>0. n \in Frames /\ n \in Int /\ last \in Int /\ Len(pending) \in Nat
      /\ pending \in Seq(Frames) /\ Held = {pending[i] : i \in 1 .. Len(pending)}
      /\ DOMAIN pending = 1 .. Len(pending)
  BY Numbers DEF TypeOK
<1>1. ASSUME NEW i \in 1 .. Len(pending)
      PROVE  /\ pending[i] \in Int
             /\ SN_LESS(SEQ(pending[i]), SEQ(n)) <=> pending[i] < n
             /\ SEQ(pending[i]) = SEQ(n) <=> pending[i] = n
  <2>1. pending[i] \in Int /\ b < pending[i] /\ pending[i] <= b + 63
    BY Numbers
  <2>2. pending[i] - n >= -2048 /\ pending[i] - n <= 2047
    BY <1>0, <2>1
  <2> QED BY <1>0, <2>1, <2>2, SNLess, SNEqual
<1>2. ASSUME Duplicate(SEQ(n)) PROVE n \in Held
  BY <1>0, <1>1, <1>2 DEF Duplicate
<1>3. ASSUME enqueue_reorder_recvframe(n)
      PROVE  /\ Sorted'
             /\ \A j \in 1 .. Len(pending') : pending'[j] = n \/ \E i \in 1 .. Len(pending) : pending'[j] = pending[i]
             /\ Held' = Held \cup {n} /\ n \notin Held
  <2>1. PICK i \in 0 .. Len(pending) :
              /\ Before(i, SEQ(n)) /\ pending' = InsertAt(i, n)
              /\ i < Len(pending) => /\ ~ SN_LESS(SEQ(pending[i + 1]), SEQ(n))
                                     /\ SEQ(pending[i + 1]) # SEQ(n)
    BY <1>3 DEF enqueue_reorder_recvframe
  <2>2. \A j \in 1 .. i : pending[j] < n
    BY <1>0, <1>1, <2>1 DEF Before
  <2>3. i < Len(pending) => n < pending[i + 1]
    BY <1>0, <1>1, <2>1
  <2>4. \A j \in i + 1 .. Len(pending) : n < pending[j]
    <3> TAKE j \in i + 1 .. Len(pending)
    <3>1. i + 1 \in 1 .. Len(pending) /\ j \in 1 .. Len(pending) /\ i < Len(pending)
      BY <1>0
    <3>2. pending[i + 1] \in Int /\ pending[j] \in Int
      BY <1>1, <3>1
    <3>3. i + 1 = j \/ pending[i + 1] < pending[j]
      BY <3>1 DEF Sorted
    <3> QED BY <1>0, <2>3, <3>1, <3>2, <3>3
  <2>5. /\ Len(pending') = Len(pending) + 1 /\ DOMAIN pending' = 1 .. Len(pending) + 1
        /\ \A j \in 1 .. i : pending'[j] = pending[j]
        /\ pending'[i + 1] = n
        /\ \A j \in i + 1 .. Len(pending) : pending'[j + 1] = pending[j]
    <3>1. /\ Len(InsertAt(i, n)) = Len(pending) + 1
          /\ DOMAIN InsertAt(i, n) = 1 .. Len(pending) + 1
          /\ \A j \in 1 .. i : InsertAt(i, n)[j] = pending[j]
          /\ InsertAt(i, n)[i + 1] = n
          /\ \A j \in i + 1 .. Len(pending) : InsertAt(i, n)[j + 1] = pending[j]
      BY <1>0, InsertFacts
    <3>2. pending' = InsertAt(i, n)
      BY <2>1
    <3> QED BY <3>1, <3>2
  <2>6. \A j \in i + 2 .. Len(pending) + 1 : pending'[j] = pending[j - 1] /\ j - 1 \in i + 1 .. Len(pending)
    <3> TAKE j \in i + 2 .. Len(pending) + 1
    <3>1. j - 1 \in i + 1 .. Len(pending) /\ (j - 1) + 1 = j
      BY <1>0
    <3> QED BY <2>5, <3>1
  <2>7. \A j, k \in 1 .. Len(pending') : j < k => pending'[j] < pending'[k]
    <3> SUFFICES ASSUME NEW j \in 1 .. Len(pending) + 1, NEW k \in 1 .. Len(pending) + 1, j < k
                 PROVE  pending'[j] < pending'[k]
      BY <2>5
    <3>1. CASE k <= i
      BY <1>0, <2>5, <3>1 DEF Sorted
    <3>2. CASE k = i + 1
      BY <1>0, <2>2, <2>5, <3>2
    <3>3. CASE k >= i + 2
      <4>1. pending'[k] = pending[k - 1] /\ k - 1 \in i + 1 .. Len(pending)
        BY <1>0, <2>6, <3>3
      <4>2. CASE j <= i
        BY <1>0, <2>5, <4>1, <4>2 DEF Sorted
      <4>3. CASE j = i + 1
        BY <1>0, <2>4, <2>5, <4>1, <4>3
      <4>4. CASE j >= i + 2
        BY <1>0, <2>6, <4>1, <4>4 DEF Sorted
      <4> QED BY <1>0, <4>2, <4>3, <4>4
    <3> QED BY <1>0, <3>1, <3>2, <3>3
  <2>8. \A j \in 1 .. Len(pending') : pending'[j] = n \/ \E k \in 1 .. Len(pending) : pending'[j] = pending[k]
    <3> TAKE j \in 1 .. Len(pending')
    <3>1. j <= i \/ j = i + 1 \/ j \in i + 2 .. Len(pending) + 1
      BY <1>0, <2>5
    <3> QED BY <1>0, <2>5, <2>6, <3>1
  <2>9. \A k \in 1 .. Len(pending) : \E j \in 1 .. Len(pending') : pending'[j] = pending[k]
    <3> TAKE k \in 1 .. Len(pending)
    <3>1. CASE k <= i
      BY <1>0, <2>5, <3>1
    <3>2. CASE k > i
      BY <1>0, <2>5, <3>2
    <3> QED BY <1>0, <3>1, <3>2
  <2>10. Held' = Held \cup {n}
    <3>1. Held' = {pending'[j] : j \in 1 .. Len(pending')} /\ i + 1 \in 1 .. Len(pending')
      BY <1>0, <2>5 DEF Held
    <3>2. n \in Held'
      BY <2>5, <3>1
    <3> QED BY <1>0, <2>8, <2>9, <3>1, <3>2
  <2>11. n \notin Held
    BY <1>0, <1>1, <2>2, <2>4
  <2>12. Sorted'
    BY <1>0, <1>1, <2>7, <2>8 DEF Sorted
  <2> QED BY <2>8, <2>10, <2>11, <2>12
<1> QED BY <1>2, <1>3

(* The frame in hand passes the window.                                    *)
LEMMA CalmCheck ==
    ASSUME TypeOK, Calm, Check
    PROVE  Calm'
<1> DEFINE n == prframe
<1>1. /\ rx = "lock" /\ enable /\ ~ QueueLocked /\ check_indicate_seq(SEQ(n))
      /\ UNCHANGED << enable, prframe, tmr, top, last >>
      /\ \/ Duplicate(SEQ(n)) /\ rx' = "idle" /\ pending' = pending
         \/ enqueue_reorder_recvframe(n) /\ rx' = "indicate"
  BY DEF Check, rxframe, hist, Calm
<1>2. n \in Int /\ top \in Int /\ last \in Int /\ last <= top
      /\ \A i \in 1 .. Len(pending) : pending[i] \in Int
  BY <1>1, Numbers DEF Calm
<1>3. PICK b \in Int :
          /\ b <= n /\ n <= b + 2047 /\ n <= top /\ last < b
          /\ \A i \in 1 .. Len(pending) : b < pending[i] /\ pending[i] <= b + 63 /\ pending[i] <= top
          /\ n = top \/ Near(b)
          /\ indicate_seq' = SEQ(IF n = b THEN b + 1 ELSE IF n <= b + 63 THEN b ELSE n - 63)
  <2>1. CASE indicate_seq = NONE
    <3>1. pending = << >> /\ n = top /\ last < n
      BY <1>1, <2>1 DEF Calm
    <3>2. indicate_seq' = SEQ(n + 1)
      BY <1>1, <1>2, <2>1, SeqPlus DEF check_indicate_seq, wstart
    <3> QED BY <1>2, <3>1, <3>2, Numbers
  <2>2. CASE indicate_seq # NONE
    <3>1. PICK b \in Int : Window(b) /\ InHand(b)
      BY <1>1, <2>2 DEF Calm
    <3>2. /\ b <= n
          /\ indicate_seq' = SEQ(IF n = b THEN b + 1 ELSE IF n <= b + 63 THEN b ELSE n - 63)
      BY <1>1, <3>1, Passed
    <3>3. last < b /\ \A i \in 1 .. Len(pending) : b < pending[i] /\ pending[i] <= b + 63
      BY <1>1, <3>1 DEF Window
    <3>4. n <= b + 2047 /\ n <= top /\ (n = top \/ Near(b))
          /\ \A i \in 1 .. Len(pending) : pending[i] <= top
      BY <1>2, <3>1 DEF InHand, Near
    <3> QED BY <3>2, <3>3, <3>4
  <2> QED BY <2>1, <2>2
<1>4. PICK c \in Int : /\ indicate_seq' = SEQ(c)
                       /\ b <= c /\ c <= b + 1984 /\ n <= c + 63 /\ c <= n + 1
                       /\ b < n /\ n <= b + 63 => c = b
  <2>0. b \in Int /\ b <= n /\ n <= b + 2047
    BY <1>3
  <2>1. CASE n = b
    BY <1>2, <1>3, <2>1
  <2>2. CASE n # b /\ n <= b + 63
    BY <1>2, <1>3, <2>2
  <2>3. CASE n > b + 63
    <3>1. indicate_seq' = SEQ(n - 63)
      BY <1>2, <1>3, <2>3
    <3> QED BY <1>2, <2>0, <2>3, <3>1
  <2> QED BY <1>2, <2>0, <2>1, <2>2, <2>3
<1>5. indicate_seq' # NONE
  BY <1>4, SeqType
<1>6. top # -1 /\ top - 63 <= c /\ c <= top + 1
  <2>1. top # -1
    BY <1>1, <1>2, <1>3, Numbers DEF Near
  <2> QED BY <1>2, <1>3, <1>4, <2>1 DEF Near
<1>7. CASE Duplicate(SEQ(n)) /\ rx' = "idle" /\ pending' = pending
  <2>1. n \in Held
    BY <1>1, <1>3, <1>7, Inserted DEF Calm
  <2>2. b < n /\ n <= b + 63
    BY <1>3, <2>1, Numbers
  <2>3. c = b
    BY <1>4, <2>2
  <2>4. Window(c)'
    BY <1>1, <1>2, <1>3, <1>4, <1>7, <2>3 DEF Window
  <2>5. top = last \/ top \in Held
    BY <1>3, <2>1 DEF Near
  <2>6. Near(c)'
    BY <1>1, <1>3, <1>6, <1>7, <2>5 DEF Near, Held
  <2>7. Sorted' /\ last' <= top'
    BY <1>1, <1>7 DEF Calm, Sorted
  <2>8. enable' /\ rx' = "idle" /\ \E d \in Int : Window(d)' /\ Near(d)'
    BY <1>1, <1>7, <2>4, <2>6
  <2> QED BY <1>5, <2>7, <2>8 DEF Calm
<1>8. CASE enqueue_reorder_recvframe(n) /\ rx' = "indicate"
  <2>1. /\ Sorted' /\ Held' = Held \cup {n}
        /\ \A j \in 1 .. Len(pending') : pending'[j] = n \/ \E i \in 1 .. Len(pending) : pending'[j] = pending[i]
    BY <1>1, <1>3, <1>8, Inserted DEF Calm
  <2>2. \A j \in 1 .. Len(pending') : pending'[j] <= c + 63 /\ c - 2047 <= pending'[j] /\ pending'[j] <= top
    BY <1>2, <1>3, <1>4, <2>1
  <2>3. last < c
    BY <1>2, <1>3, <1>4
  <2>4. Window(c)'
    BY <1>1, <1>4, <1>8, <2>2, <2>3 DEF Window, QueueLocked
  <2>5. top = last \/ top \in Held'
    BY <1>3, <2>1 DEF Near
  <2>6. Near(c)'
    BY <1>1, <1>6, <2>2, <2>5 DEF Near
  <2>7. enable' /\ rx' = "indicate" /\ last' <= top' /\ \E d \in Int : Window(d)' /\ Near(d)'
    BY <1>1, <1>2, <1>8, <2>4, <2>6
  <2> QED BY <1>5, <2>1, <2>7 DEF Calm
<1> QED BY <1>1, <1>7, <1>8

(* With frames waiting there is a window, and nobody is on the unordered   *)
(* path.                                                                   *)
LEMMA WaitingHasWindow ==
    ASSUME TypeOK, Calm, pending # << >>
    PROVE  /\ indicate_seq # NONE /\ rx \notin {"direct", "bump"} /\ enable
           /\ \E b \in Int : Window(b) /\ (IF rx = "lock" THEN InHand(b) ELSE Near(b))
<1>1. indicate_seq # NONE /\ rx \notin {"direct", "bump"} /\ enable
  BY DEF Calm
<1>2. rx \in {"idle", "direct", "bump", "lock", "indicate", "cancel"}
  BY DEF TypeOK
<1> QED BY <1>1, <1>2 DEF Calm

(* One frame is handed up from the head.                                   *)
LEMMA CalmIndicate ==
    ASSUME TypeOK, Calm, IndicateHead, ~ stopped, QueueLocked',
           UNCHANGED << enable, prframe, rx, tmr, top >>
    PROVE  Calm'
<1> DEFINE p == pending[1]
<1>1. pending # << >>
  BY DEF IndicateHead, Ready
<1>2. PICK b \in Int : Window(b) /\ (IF rx = "lock" THEN InHand(b) ELSE Near(b))
  BY <1>1, WaitingHasWindow
<1>3. Head(pending) = p /\ p <= b /\ (indicate_seq = SEQ(p) <=> b = p)
  BY <1>1, <1>2, HeadReady DEF IndicateHead
<1>4. /\ Len(pending) >= 1 /\ Len(pending') = Len(pending) - 1
      /\ \A i \in 1 .. Len(pending') : pending'[i] = pending[i + 1]
  BY <1>1, TailFacts DEF IndicateHead, TypeOK
<1>5. last' = p
  BY <1>3 DEF IndicateHead, rtw_recv_indicatepkt
<1>6. /\ top \in Int /\ last \in Int /\ p \in Int /\ Len(pending) \in Nat
      /\ \A i \in 1 .. Len(pending) : pending[i] \in Int
      /\ last < p /\ \A i \in 2 .. Len(pending) : p < pending[i]
  BY <1>4, Numbers DEF Calm, Sorted
<1>7. \A i \in 1 .. Len(pending') : i + 1 \in 2 .. Len(pending) /\ i + 1 \in 1 .. Len(pending)
  BY <1>4, <1>6
<1>8. Sorted'
  <2>1. \A i, j \in 1 .. Len(pending') : i < j => pending[i + 1] < pending[j + 1]
    BY <1>6, <1>7 DEF Calm, Sorted
  <2> QED BY <1>4, <1>5, <1>6, <1>7, <2>1, Zenon DEF Sorted
<1>9. PICK c \in Int : c = (IF b = p THEN b + 1 ELSE b)
  BY <1>6
<1>10. indicate_seq' = SEQ(c) /\ indicate_seq' # NONE
  <2>1. indicate_seq = SEQ(b)
    BY <1>2 DEF Window
  <2>2. indicate_seq' = IF b = p THEN (SEQ(b) + 1) % MOD ELSE SEQ(b)
    BY <1>3, <2>1 DEF IndicateHead
  <2>3. indicate_seq' = SEQ(c)
    BY <1>9, <2>2, SeqPlus
  <2> QED BY <2>3, SeqType
<1>11. \A i \in 1 .. Len(pending') :
          pending'[i] \in Int /\ pending'[i] <= c + 63 /\ c - 2047 <= pending'[i]
  <2>1. \A i \in 2 .. Len(pending) : pending[i] <= b + 63 /\ b - 2047 <= pending[i]
    BY <1>2, <1>6 DEF Window
  <2>2. \A i \in 2 .. Len(pending) :
          pending[i] \in Int /\ pending[i] <= c + 63 /\ c - 2047 <= pending[i]
    BY <1>6, <1>9, <2>1
  <2> QED BY <1>4, <1>7, <2>2
<1>12. Window(c)'
  BY <1>3, <1>5, <1>6, <1>9, <1>10, <1>11 DEF Window
<1>13. p <= top /\ last' <= top'
  BY <1>2, <1>4, <1>5, <1>6 DEF Near, InHand
<1>14. ASSUME Near(b) PROVE Near(c)'
  <2>1. top \in Held
    BY <1>6, <1>13, <1>14 DEF Near
  <2>2. top = p \/ \E i \in 2 .. Len(pending) : top = pending[i]
    BY <1>4, <1>6, <2>1, Numbers
  <2>3. Held' = {pending'[i] : i \in 1 .. Len(pending')}
    <3>1. pending' \in Seq(Frames)
      BY <1>1, TailFacts DEF IndicateHead, TypeOK
    <3> QED BY <3>1 DEF Held
  <2>4. \A i \in 2 .. Len(pending) : pending[i] \in Held'
    <3> TAKE i \in 2 .. Len(pending)
    <3>1. i - 1 \in 1 .. Len(pending') /\ pending'[i - 1] = pending[i]
      BY <1>4, <1>6
    <3> QED BY <2>3, <3>1
  <2>5. top = last' \/ top \in Held'
    BY <1>5, <2>2, <2>4
  <2>6. top # -1 /\ top - 63 <= c /\ c <= top + 1
    BY <1>6, <1>9, <1>13, <1>14 DEF Near
  <2>7. \A i \in 1 .. Len(pending') : pending'[i] <= top
    BY <1>4, <1>7, <1>14 DEF Near
  <2> QED BY <2>5, <2>6, <2>7 DEF Near
<1>15. ASSUME rx = "lock" PROVE InHand(c)'
  <2>0. prframe \in Int
    BY <1>15, Numbers
  <2>1. CASE prframe = top /\ b <= prframe /\ prframe <= b + 2047
             /\ \A i \in 1 .. Len(pending) : pending[i] < prframe
    <3>1. c <= prframe /\ prframe <= c + 2047
      BY <1>4, <1>6, <1>9, <2>0, <2>1
    <3>2. \A i \in 1 .. Len(pending') : pending'[i] < prframe
      BY <1>4, <1>7, <2>1
    <3> QED BY <2>1, <3>1, <3>2 DEF InHand
  <2>2. CASE prframe <= top /\ prframe > top - 2048 /\ Near(b)
    BY <1>14, <2>2 DEF InHand
  <2> QED BY <1>2, <1>15, <2>1, <2>2 DEF InHand
<1>16. \E d \in Int : Window(d)' /\ (IF rx' = "lock" THEN InHand(d)' ELSE Near(d)')
  BY <1>2, <1>12, <1>14, <1>15
<1>17. rx' \notin {"direct", "bump"} /\ enable'
  BY <1>1, WaitingHasWindow
<1> QED BY <1>8, <1>10, <1>13, <1>16, <1>17 DEF Calm

(* The loop ends: whatever still waits is after the start of the window.   *)
LEMMA CalmIndicated ==
    ASSUME TypeOK, Calm, RxIndicated \/ TmrIndicated
    PROVE  Calm'
<1>1. /\ ~ Ready /\ UNCHANGED << enable, indicate_seq, pending, prframe, top, last >>
      /\ \/ rx = "indicate" /\ rx' \in {"idle", "cancel"} /\ tmr' = tmr
         \/ rx' = rx /\ tmr' = "idle"
  BY DEF RxIndicated, TmrIndicated, ctrl, rxframe, hist
<1>2. ASSUME NEW b \in Int, Window(b) PROVE Window(b)'
  <2>1. \A i \in 1 .. Len(pending) : b < pending[i]
    <3>1. CASE pending = << >>
      BY <3>1, Numbers
    <3>2. CASE pending # << >>
      <4>1. b < pending[1] /\ pending[1] \in Int /\ Len(pending) >= 1
        BY <1>1, <1>2, <3>2, HeadReady, TailFacts, Numbers DEF TypeOK
      <4> QED BY <4>1, Numbers DEF Calm, Sorted
    <3> QED BY <3>1, <3>2
  <2> QED BY <1>1, <1>2, <2>1 DEF Window
<1>3. ASSUME NEW b \in Int PROVE (Near(b) => Near(b)') /\ (InHand(b) => InHand(b)')
  BY <1>1 DEF Near, InHand, Held
<1>4. /\ rx = "lock" /\ indicate_seq # NONE => \E b \in Int : Window(b)' /\ InHand(b)'
      /\ rx \in {"idle", "indicate", "cancel"} /\ indicate_seq # NONE =>
             \E b \in Int : Window(b)' /\ Near(b)'
  BY <1>2, <1>3 DEF Calm
<1>5. Sorted'
  BY <1>1 DEF Calm, Sorted
<1> QED BY <1>1, <1>4, <1>5 DEF Calm

(* The timer expires, forces the window to the head of what waits, or      *)
(* finds nothing.                                                          *)
LEMMA CalmTimeout ==
    ASSUME TypeOK, Calm, Timeout
    PROVE  Calm'
<1>1. /\ ~ QueueLocked /\ UNCHANGED << enable, pending, prframe, rx, top, last >>
      /\ rx # "indicate"
  BY DEF Timeout, rxframe, hist, QueueLocked
<1>2. Sorted'
  BY <1>1 DEF Calm, Sorted
<1>3. CASE pending = << >>
  <2>1. tmr' = "idle" /\ UNCHANGED indicate_seq
    BY <1>3 DEF Timeout
  <2>2. ASSUME NEW b \in Int
        PROVE (Window(b) => Window(b)') /\ (Near(b) => Near(b)') /\ (InHand(b) => InHand(b)')
    BY <1>1, <2>1 DEF Window, Near, InHand, Held, QueueLocked
  <2> QED BY <1>1, <1>2, <2>1, <2>2 DEF Calm
<1>4. CASE pending # << >>
  <2>1. indicate_seq' = SEQ(Head(pending)) /\ tmr' = "indicate"
    BY <1>4 DEF Timeout
  <2>2. PICK b \in Int : Window(b) /\ (IF rx = "lock" THEN InHand(b) ELSE Near(b))
    BY <1>4, WaitingHasWindow
  <2>0. Head(pending) = pending[1] /\ Len(pending) >= 1 /\ pending[1] \in Int
    <3>1. Head(pending) = pending[1] /\ Len(pending) >= 1
      BY <1>4, TailFacts DEF TypeOK
    <3> QED BY <3>1, Numbers
  <2>3. PICK c \in Int : c = Head(pending) /\ c = pending[1]
    BY <2>0
  <2>4. /\ top \in Int /\ last \in Int /\ Len(pending) \in Nat /\ Len(pending) >= 1
        /\ \A i \in 1 .. Len(pending) : pending[i] \in Int
        /\ last < c /\ b < c /\ \A i \in 1 .. Len(pending) : c <= pending[i]
    <3>1. /\ top \in Int /\ last \in Int /\ Len(pending) \in Nat
          /\ \A i \in 1 .. Len(pending) : pending[i] \in Int
      BY Numbers
    <3>2. last < c /\ b < c
      BY <1>1, <2>0, <2>2, <2>3, <3>1 DEF Calm, Sorted, Window
    <3>3. \A i \in 1 .. Len(pending) : c <= pending[i]
      BY <2>0, <2>3, <3>1 DEF Calm, Sorted
    <3> QED BY <2>0, <3>1, <3>2, <3>3
  <2>5. \A i \in 1 .. Len(pending) : pending[i] <= c + 63 /\ c - 2047 <= pending[i]
    BY <2>2, <2>4 DEF Window
  <2>6. Window(c)'
    BY <1>1, <2>1, <2>3, <2>4, <2>5 DEF Window, QueueLocked
  <2>7. ASSUME Near(b) PROVE Near(c)'
    BY <1>1, <2>3, <2>4, <2>7 DEF Near, Held
  <2>8. ASSUME rx = "lock" PROVE InHand(c)'
    <3>0. prframe \in Int
      BY <2>8, Numbers
    <3>1. CASE prframe = top /\ b <= prframe /\ prframe <= b + 2047
               /\ \A i \in 1 .. Len(pending) : pending[i] < prframe
      BY <1>1, <2>3, <2>4, <3>0, <3>1 DEF InHand
    <3>2. CASE prframe <= top /\ prframe > top - 2048 /\ Near(b)
      BY <1>1, <2>7, <3>2 DEF InHand
    <3> QED BY <2>2, <2>8, <3>1, <3>2 DEF InHand
  <2>9. indicate_seq' # NONE
    BY <2>1, <2>3, SeqType
  <2>10. \E d \in Int : Window(d)' /\ (IF rx' = "lock" THEN InHand(d)' ELSE Near(d)')
    BY <1>1, <2>2, <2>6, <2>7, <2>8
  <2>11. rx' \notin {"direct", "bump"} /\ enable'
    BY <1>1, <1>4, WaitingHasWindow
  <2> QED BY <1>1, <1>2, <2>9, <2>10, <2>11 DEF Calm
<1> QED BY <1>3, <1>4

(* The unordered path.                                                     *)
LEMMA CalmDirect ==
    ASSUME TypeOK, Calm, Direct \/ Bump
    PROVE  Calm'
<1>1. /\ rx \in {"direct", "bump"} /\ ~ enable /\ pending = << >> /\ prframe = top
      /\ UNCHANGED << enable, pending, prframe, top, tmr >>
  BY DEF Direct, Bump, Calm, ctrl, rxframe, hist
<1>2. prframe \in Int /\ Len(pending) = 0 /\ top >= 0
  BY <1>1, Numbers
<1>3. CASE Direct
  <2>1. last' = prframe /\ indicate_seq' = indicate_seq /\ rx' = "bump"
    BY <1>3 DEF Direct, rtw_recv_indicatepkt, ctrl
  <2>2. Sorted'
    BY <1>1, <1>2 DEF Sorted
  <2> QED BY <1>1, <1>2, <2>1, <2>2 DEF Calm
<1>4. CASE Bump
  <2>1. /\ rx' = "idle" /\ last' = last /\ last = prframe
        /\ indicate_seq' = (SEQ(prframe) + 1) % MOD
    BY <1>4 DEF Bump, Calm, hist
  <2>2. PICK c \in Int : c = prframe + 1
    BY <1>2
  <2>3. indicate_seq' = SEQ(c) /\ indicate_seq' # NONE
    BY <1>2, <2>1, <2>2, SeqPlus, SeqType
  <2>4. Sorted' /\ Window(c)' /\ Near(c)'
    BY <1>1, <1>2, <2>1, <2>2, <2>3 DEF Sorted, Window, Near
  <2> QED BY <1>1, <1>2, <2>1, <2>3, <2>4 DEF Calm
<1> QED BY <1>3, <1>4

(* An agreement reset over nothing.                                        *)
LEMMA CalmReset ==
    ASSUME TypeOK, Calm, process_addba_req \/ send_delba, ~ torn'
    PROVE  Calm'
<1>1. /\ pending = << >> /\ rx = "idle" /\ indicate_seq' = NONE
      /\ UNCHANGED << pending, rx, top, last >>
  BY Zenon DEF process_addba_req, send_delba, Reset
<1>2. Len(pending) = 0 /\ Held = {}
  BY <1>1, Numbers DEF Held
<1>3. top = last
  BY <1>1, <1>2 DEF Calm, Near
<1>4. Sorted'
  BY <1>1, <1>2 DEF Sorted
<1> QED BY <1>1, <1>3, <1>4, Numbers DEF Calm

(* While nothing upsets the window, every step keeps it calm.              *)
LEMMA CalmStep == TypeOK /\ Calm /\ ~ Upset /\ ~ Upset' /\ [Next]_vars => Calm'
<1> SUFFICES ASSUME TypeOK, Calm, ~ Upset, ~ Upset', [Next]_vars PROVE Calm'
  OBVIOUS
<1>1. ASSUME NEW n \in Frames, Receive(n) PROVE Calm'
  BY <1>1, CalmReceive
<1>2. CASE Direct \/ Bump
  BY <1>2, CalmDirect
<1>3. CASE Check
  BY <1>3, CalmCheck
<1>4. CASE Drop
  BY <1>4, CalmDrop
<1>5. CASE RxIndicate \/ TmrIndicate
  <2>1. IndicateHead /\ ~ stopped /\ QueueLocked' /\ UNCHANGED << enable, prframe, rx, tmr, top >>
    BY <1>5 DEF RxIndicate, TmrIndicate, Upset, QueueLocked, rxframe, env
  <2> QED BY <2>1, CalmIndicate
<1>6. CASE RxIndicated \/ TmrIndicated
  BY <1>6, CalmIndicated
<1>7. CASE RxCancel \/ Expire
  <2>1. /\ UNCHANGED << enable, indicate_seq, pending, prframe, top, last >>
        /\ (QueueLocked' <=> QueueLocked) /\ (rx' = rx \/ (rx = "cancel" /\ rx' = "idle"))
    <3>1. CASE RxCancel
      BY <3>1 DEF RxCancel, QueueLocked, ctrl, rxframe, hist
    <3>2. CASE Expire
      BY <3>2 DEF Expire, QueueLocked, ctrl, rxframe, hist
    <3> QED BY <1>7, <3>1, <3>2
  <2>2. ASSUME NEW b \in Int
        PROVE (Window(b) => Window(b)') /\ (Near(b) => Near(b)') /\ (InHand(b) => InHand(b)')
    BY <2>1 DEF Window, Near, InHand, Held
  <2>3. Sorted'
    BY <2>1 DEF Calm, Sorted
  <2> QED BY <2>1, <2>2, <2>3 DEF Calm
<1>8. CASE Timeout
  BY <1>8, CalmTimeout
<1>9. CASE process_addba_req \/ send_delba
  BY <1>9, CalmReset DEF Upset
<1>10. CASE FreeStation \/ FreeCancel \/ FreeDrain \/ Stop
  BY <1>10 DEF FreeStation, FreeCancel, FreeDrain, Stop, Upset
<1>11. CASE UNCHANGED vars
  BY <1>11 DEF vars, ctrl, rxframe, hist, Calm, Sorted, Window, Near, InHand, Held, QueueLocked
<1> QED BY <1>1, <1>2, <1>3, <1>4, <1>5, <1>6, <1>7, <1>8, <1>9, <1>10, <1>11
        DEF Next, Tasklet, Timer, Free
--------------------------------------------------------------------------------
(* What the steps on the queue do to the set of the frames that wait.      *)
LEMMA CheckHolds ==
    ASSUME TypeOK, Calm, Check
    PROVE  \/ UNCHANGED pending
           \/ last < prframe /\ prframe \notin Held /\ Held' = Held \cup {prframe}
<1> DEFINE n == prframe
<1>1. /\ rx = "lock" /\ enable /\ ~ QueueLocked /\ check_indicate_seq(SEQ(n)) /\ last' = last
      /\ (pending' = pending \/ enqueue_reorder_recvframe(n))
  BY DEF Check, hist, Calm
<1>2. n \in Int /\ last \in Int
  BY <1>1, Numbers
<1>3. CASE indicate_seq = NONE
  <2>1. pending = << >> /\ n = top /\ last < n
    BY <1>1, <1>3 DEF Calm
  <2>2. Len(pending) = 0
    BY <2>1, Numbers
  <2> QED BY <1>1, <1>2, <2>1, <2>2, Inserted DEF Calm
<1>4. CASE indicate_seq # NONE
  <2>1. PICK b \in Int : Window(b) /\ InHand(b)
    BY <1>1, <1>4 DEF Calm
  <2>2. b <= n
    BY <1>1, <2>1, Passed
  <2>3. last < b /\ \A i \in 1 .. Len(pending) : b < pending[i] /\ pending[i] <= b + 63
    BY <1>1, <2>1 DEF Window
  <2>4. n <= b + 2047
    BY <1>2, <2>1, Numbers DEF InHand, Near
  <2> QED BY <1>1, <1>2, <2>2, <2>3, <2>4, Inserted DEF Calm
<1> QED BY <1>3, <1>4

\* A turn of the loop that hands frames up is a HandUp of the buffer.
LEMMA IndicateHandsUp ==
    ASSUME TypeOK, Calm, IndicateHead, ~ stopped
    PROVE  \E n \in Frames : /\ n \in Held /\ (\A m \in Held : n <= m)
                             /\ Held' = Held \ {n} /\ last' = n
<1> DEFINE p == pending[1]
<1>1. pending # << >> /\ pending' = Tail(pending) /\ last' = Head(pending)
  BY DEF IndicateHead, Ready, rtw_recv_indicatepkt
<1>2. /\ Head(pending) = p /\ p \in Frames /\ Len(pending) >= 1
      /\ pending' \in Seq(Frames) /\ Len(pending') = Len(pending) - 1
      /\ \A i \in 1 .. Len(pending') : pending'[i] = pending[i + 1]
  BY <1>1, TailFacts DEF TypeOK
<1>3. /\ Len(pending) \in Nat /\ \A i \in 1 .. Len(pending) : pending[i] \in Int
      /\ Held = {pending[i] : i \in 1 .. Len(pending)}
  BY Numbers
<1>3a. \A i \in 2 .. Len(pending) : p < pending[i]
  BY <1>2, <1>3 DEF Calm, Sorted
<1>4. Held' = {pending'[i] : i \in 1 .. Len(pending')}
  BY <1>2 DEF Held
<1>5. p \in Held /\ \A m \in Held : p <= m
  BY <1>2, <1>3, <1>3a
<1>6. ASSUME NEW m \in Held, m # p PROVE m \in Held'
  <2>1. PICK i \in 1 .. Len(pending) : m = pending[i]
    BY <1>3, <1>6
  <2>2. i - 1 \in 1 .. Len(pending') /\ pending'[i - 1] = pending[i]
    BY <1>2, <1>3, <1>6, <2>1
  <2> QED BY <1>4, <2>1, <2>2
<1>7. ASSUME NEW m \in Held' PROVE m \in Held /\ m # p
  <2>1. PICK i \in 1 .. Len(pending') : m = pending'[i]
    BY <1>4, <1>7
  <2>2. i + 1 \in 2 .. Len(pending) /\ i + 1 \in 1 .. Len(pending) /\ m = pending[i + 1]
    BY <1>2, <1>3, <2>1
  <2> QED BY <1>3, <1>3a, <2>2
<1>8. Held' = Held \ {p}
  BY <1>6, <1>7
<1> QED BY <1>1, <1>2, <1>5, <1>8

\* What was upset stays so.
LEMMA UpsetStays == Upset /\ TypeOK /\ [Next]_vars => Upset'
<1> SUFFICES ASSUME Upset, TypeOK, [Next]_vars PROVE Upset'
  OBVIOUS
<1> USE DEF Upset, ctrl, env, hist
<1>1. ASSUME NEW n \in Frames, Receive(n) PROVE Upset'
  BY <1>1 DEF Receive
<1>2. CASE Tasklet
  BY <1>2, Zenon DEF Tasklet, Direct, Bump, Check, Drop, RxIndicate, RxIndicated, RxCancel
<1>3. CASE Timer
  BY <1>3, Zenon DEF Timer, Expire, Timeout, TmrIndicate, TmrIndicated
<1>4. CASE Free \/ FreeStation \/ Stop
  BY <1>4 DEF Free, FreeCancel, FreeDrain, FreeStation, Stop
<1>5. CASE process_addba_req \/ send_delba
  BY <1>5, Zenon DEF process_addba_req, send_delba, Reset
<1>6. CASE UNCHANGED vars
  BY <1>6, Zenon DEF vars
<1> QED BY <1>1, <1>2, <1>3, <1>4, <1>5, <1>6, Zenon DEF Next

(* The inductive invariant holds in every state.                           *)
THEOREM Invariance == Spec => []IInv
<1>1. Init => IInv
  <2> SUFFICES ASSUME Init PROVE IInv
    OBVIOUS
  <2>1. pending = << >> /\ Len(pending) = 0 /\ pending \in Seq(Frames)
    BY EmptySeq DEF Init
  <2>2. {enable, armed, stopped, ap, torn} \subseteq BOOLEAN
    BY Zenon DEF Init
  <2>3. TypeOK
    BY <2>1, <2>2 DEF Init, TypeOK, NONE
  <2>4. TimerInv
    BY <2>1 DEF Init, TimerInv, HeldHasTimer
  <2>5. Sorted
    BY <2>1 DEF Sorted
  <2>6. Calm
    BY <2>1, <2>5 DEF Init, Calm
  <2> QED BY <2>3, <2>4, <2>6 DEF IInv
<1>2. IInv /\ [Next]_vars => IInv'
  BY TypeStep, TimerStep, UpsetStays, CalmStep DEF IInv
<1> QED BY <1>1, <1>2, PTL DEF Spec

(* Frames never wait without a timer (recv_indicatepkts_in_order sets it   *)
(* under the lock, recv_indicatepkt_reorder cancels it after unlocking,    *)
(* rtw_reordering_ctrl_timeout_handler sets it again).                     *)
THEOREM TimerRuns == Spec => []HeldHasTimer
BY Invariance, PTL DEF IInv, TimerInv

(* The window never shuts out what is new (check_indicate_seq), for any    *)
(* frame numbers and across any number of wraps.                           *)
THEOREM NewestKept == Spec => []NewestIsKept
<1>1. IInv => NewestIsKept
  BY DEF IInv, Calm, Near, NewestIsKept
<1> QED BY <1>1, Invariance, PTL

(* Between two uses of the lock what waits is in order and in the window   *)
(* (check_indicate_seq, enqueue_reorder_recvframe).                        *)
THEOREM WindowIsKept == Spec => []WindowHolds
<1>1. IInv => WindowHolds
  <2> SUFFICES ASSUME IInv, ~ Upset, ~ QueueLocked PROVE
                      /\ \A i \in DOMAIN pending : i > 1 => pending[i - 1] < pending[i]
                      /\ \A i \in DOMAIN pending : (SEQ(pending[i]) - indicate_seq) % MOD \in 1 .. WSIZE - 1
    BY DEF WindowHolds
  <2>1. TypeOK /\ Calm
    BY DEF IInv
  <2>2. DOMAIN pending = 1 .. Len(pending) /\ Len(pending) \in Nat
        /\ \A i \in 1 .. Len(pending) : pending[i] \in Int
    BY <2>1, Numbers DEF TypeOK
  <2>3. \A i \in DOMAIN pending : i > 1 => pending[i - 1] < pending[i]
    BY <2>1, <2>2 DEF Calm, Sorted
  <2>4. ASSUME NEW i \in DOMAIN pending
        PROVE (SEQ(pending[i]) - indicate_seq) % MOD \in 1 .. WSIZE - 1
    <3>0. Len(pending) # 0
      BY <2>2, <2>4
    <3>1. pending # << >>
      BY <2>1, <3>0, Numbers
    <3>2. PICK b \in Int : Window(b) /\ (IF rx = "lock" THEN InHand(b) ELSE Near(b))
      BY <2>1, <3>1, WaitingHasWindow
    <3>3. indicate_seq = SEQ(b) /\ pending[i] \in Int /\ b < pending[i] /\ pending[i] <= b + 63
      BY <2>2, <3>2 DEF Window
    <3>4. (SEQ(pending[i]) - SEQ(b)) % MOD = (pending[i] - b) % MOD
      BY <3>3 DEF SEQ, MOD
    <3>5. (pending[i] - b) % MOD = pending[i] - b
      BY <3>3 DEF MOD
    <3>6. WSIZE = 64
      BY DEF WSIZE
    <3> QED BY <3>3, <3>4, <3>5, <3>6
  <2> QED BY <2>3, <2>4
<1> QED BY <1>1, Invariance, PTL

(* The driver implements the reorder buffer over true frame numbers while  *)
(* nothing upsets it (recv_indicatepkt_reorder and the functions it calls, *)
(* rtw_reordering_ctrl_timeout_handler, process_recv_indicatepkts).        *)
THEOREM Refinement == Spec => ImplementsBuffer
<1> DEFINE Step == Upset' \/ Buffer!Next \/ UNCHANGED << Taken, last >>
<1>1. Init => Buffer!Init
  BY DEF Init, Buffer!Init, Taken, Held
<1>2. IInv /\ [Next]_vars => Step
  <2> SUFFICES ASSUME TypeOK, Calm, ~ Upset, ~ Upset', [Next]_vars, IInv
               PROVE  Buffer!Next \/ UNCHANGED << Taken, last >>
    BY UpsetStays DEF IInv
  <2>1. ASSUME NEW n \in Frames, Receive(n)
        PROVE  Buffer!Next \/ UNCHANGED << Taken, last >>
    <3>1. CASE rx' = "direct"
      <4>1. /\ rx = "idle" /\ prframe' = n /\ ~ enable /\ UNCHANGED << pending, last >>
            /\ top' = IF n > top THEN n ELSE top
        BY <2>1, <3>1 DEF Receive, ctrl
      <4>2. Taken = {} /\ Taken' = {n}
        BY <3>1, <4>1 DEF Taken, Held, Calm
      <4>3. last < n
        BY <2>1, <3>1, <4>1, CalmReceive DEF Calm
      <4>4. Buffer!Hold(n)
        BY <4>1, <4>2, <4>3, Numbers, FramesAssumption DEF Buffer!Hold
      <4> QED BY <4>4 DEF Buffer!Next
    <3>2. CASE rx' # "direct"
      BY <2>1, <3>2 DEF Receive, ctrl, Taken, Held
    <3> QED BY <3>1, <3>2
  <2>2. CASE Direct
    <3>1. /\ rx = "direct" /\ rx' = "bump" /\ last' = prframe /\ pending' = pending /\ pending = << >>
      BY <2>2 DEF Direct, rtw_recv_indicatepkt, ctrl, Calm
    <3>2. Taken = {prframe} /\ Taken' = {} /\ prframe \in Frames
      BY <3>1 DEF Taken, Held, TypeOK
    <3>3. Buffer!HandUp(prframe)
      BY <3>1, <3>2, Numbers DEF Buffer!HandUp
    <3> QED BY <3>2, <3>3 DEF Buffer!Next
  <2>3. CASE Check
    <3>1. /\ rx = "lock" /\ rx' \in {"idle", "indicate"} /\ UNCHANGED << prframe, last >>
          /\ prframe \in Frames /\ Taken = Held /\ Taken' = Held'
      BY <2>3 DEF Check, rxframe, hist, Taken, TypeOK
    <3>2. \/ UNCHANGED pending
          \/ last < prframe /\ prframe \notin Held /\ Held' = Held \cup {prframe}
      BY <2>3, CheckHolds
    <3>3. CASE UNCHANGED pending
      BY <3>1, <3>3 DEF Held
    <3>4. CASE last < prframe /\ prframe \notin Held /\ Held' = Held \cup {prframe}
      <4>1. Buffer!Hold(prframe)
        BY <3>1, <3>4, Numbers DEF Buffer!Hold
      <4> QED BY <3>1, <4>1 DEF Buffer!Next
    <3> QED BY <3>2, <3>3, <3>4
  <2>4. CASE RxIndicate \/ TmrIndicate
    <3>1. IndicateHead /\ ~ stopped /\ UNCHANGED << rx, prframe >>
      BY <2>4 DEF RxIndicate, TmrIndicate, Upset, rxframe
    <3>2. PICK n \in Frames : /\ n \in Held /\ (\A m \in Held : n <= m)
                              /\ Held' = Held \ {n} /\ last' = n
      BY <3>1, IndicateHandsUp
    <3>3. Taken = Held /\ Taken' = Held'
      BY <3>1, WaitingHasWindow DEF IndicateHead, Ready, Taken
    <3>4. Buffer!HandUp(n)
      BY <3>2, <3>3 DEF Buffer!HandUp
    <3> QED BY <3>4 DEF Buffer!Next
  <2>5. CASE \/ Bump \/ Drop \/ RxIndicated \/ RxCancel \/ Expire \/ Timeout \/ TmrIndicated
             \/ process_addba_req \/ send_delba
    <3>1. /\ UNCHANGED << pending, last, prframe >>
          /\ rx' = rx \/ (rx # "direct" /\ rx' # "direct")
      BY <2>5 DEF Bump, Drop, RxIndicated, RxCancel, Expire, Timeout, TmrIndicated,
                  process_addba_req, send_delba, Reset, ctrl, rxframe, hist
    <3> QED BY <3>1 DEF Taken, Held
  <2>6. CASE FreeStation \/ FreeCancel \/ FreeDrain \/ Stop
    BY <2>6 DEF FreeStation, FreeCancel, FreeDrain, Stop, Upset
  <2>7. CASE UNCHANGED vars
    BY <2>7, Zenon DEF vars, ctrl, rxframe, hist, Taken, Held
  <2> QED BY <2>1, <2>2, <2>3, <2>4, <2>5, <2>6, <2>7 DEF Next, Tasklet, Timer, Free
<1>3. IInv /\ [Next]_vars => [Upset' \/ Buffer!Next]_<< Taken, last >>
  BY <1>2
<1> QED BY <1>1, <1>3, Invariance, PTL DEF Spec, ImplementsBuffer
================================================================================
