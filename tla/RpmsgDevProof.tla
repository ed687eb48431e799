--------------------------- MODULE RpmsgDevProof ---------------------------
(***************************************************************************)
(* Proofs about the rpmsg character device: its receive path, for any set  *)
(* of readers, any kfifo size, alignment and message lengths, and its      *)
(* transmit path, for any set of writers and any buffer and bus sizes.     *)
(***************************************************************************)
EXTENDS RpmsgDevRx, RpmsgDevTx, SequenceTheorems, TLAPS

-----------------------------------------------------------------------------
(***************************************************************************)
(* The receive path.                                                       *)
(***************************************************************************)

\* The padded length of a message is a natural number.
LEMMA LenInNat ==
  ASSUME NEW n \in Nat
  PROVE  LenIn(n) \in Nat
<1>1. n \div Align \in Nat /\ n % Align \in Nat
  BY RxAssumption
<1>2. \A a, b \in Nat : a * b \in Nat
  OBVIOUS
<1>3. (n \div Align) + 1 \in Nat /\ Align \in Nat
  BY <1>1, RxAssumption
<1>4. ((n \div Align) + 1) * Align \in Nat
  BY <1>2, <1>3
<1> QED
  BY <1>4 DEF LenIn

\* No message is padded to nothing.
LEMMA LenInPositive ==
  ASSUME NEW n \in Nat \ {0}
  PROVE  LenIn(n) > 0
<1>1. n \div Align \in Nat /\ Align \in Nat \ {0}
  BY RxAssumption
<1>2. \A a, b \in Nat \ {0} : a * b > 0
  OBVIOUS
<1>3. (n \div Align) + 1 \in Nat \ {0}
  BY <1>1
<1>4. ((n \div Align) + 1) * Align > 0
  BY <1>1, <1>2, <1>3
<1> QED
  BY <1>4 DEF LenIn

\* The frame of a message is a sequence of bytes of the padded length.
LEMMA FrameBytesSeq ==
  ASSUME NEW k \in Nat, NEW n \in Nat
  PROVE  /\ FrameBytes(k, n) \in Seq(Byte)
         /\ Len(FrameBytes(k, n)) = LenIn(n)
<1>1. LenIn(n) \in Nat
  BY LenInNat
<1>2. \A i \in 1 .. LenIn(n) : <<k, i>> \in Byte
  BY <1>1 DEF Byte
<1> QED
  BY <1>1, <1>2 DEF FrameBytes

\* When the callback's test finds room, kfifo_in stores the whole frame.
LEMMA KfifoInWhole ==
  ASSUME NEW f \in Seq(Byte), rpmsg_kfifo \in Seq(Byte),
         ~ (KfifoAvail < Len(f))
  PROVE  /\ KfifoIn(f) = rpmsg_kfifo \o f
         /\ KfifoIn(f) \in Seq(Byte)
         /\ Len(KfifoIn(f)) = Len(rpmsg_kfifo) + Len(f)
<1>1. Len(f) \in Nat /\ Len(rpmsg_kfifo) \in Nat
  BY LenProperties
<1>2. MinOf(Len(f), KfifoAvail) = Len(f)
  BY <1>1, RxAssumption DEF MinOf, KfifoAvail
<1>3. SubSeq(f, 1, Len(f)) = f
  BY SubSeqFull
<1> QED
  BY <1>2, <1>3, ConcatProperties DEF KfifoIn

\* Taking n bytes out of the kfifo splits it in two.
LEMMA KfifoSplit ==
  ASSUME rpmsg_kfifo \in Seq(Byte), NEW n \in 0 .. Len(rpmsg_kfifo)
  PROVE  /\ KfifoFront(n) \in Seq(Byte) /\ KfifoRest(n) \in Seq(Byte)
         /\ Len(KfifoRest(n)) = Len(rpmsg_kfifo) - n
         /\ KfifoFront(n) \o KfifoRest(n) = rpmsg_kfifo
<1> DEFINE k == rpmsg_kfifo
<1>1. Len(k) \in Nat /\ \A i \in 1 .. Len(k) : k[i] \in Byte
  BY LenProperties, ElementOfSeq
<1>2. SubSeq(k, 1, n) \in Seq(Byte)
  BY <1>1, SubSeqProperties
<1>3. SubSeq(k, n + 1, Len(k)) \in Seq(Byte)
  <2>1. \A i \in n + 1 .. Len(k) : k[i] \in Byte
    BY <1>1
  <2> QED
    BY <1>1, <2>1, SubSeqProperties
<1>4. Len(SubSeq(k, n + 1, Len(k))) = Len(k) - n
  <2>1. \A i \in n + 1 .. Len(k) : k[i] \in Byte
    BY <1>1
  <2>2. Len(SubSeq(k, n + 1, Len(k))) = IF n + 1 <= Len(k) THEN Len(k) - (n + 1) + 1 ELSE 0
    BY <1>1, <2>1, SubSeqProperties
  <2> QED
    BY <1>1, <2>2
<1>5. SubSeq(k, 1, n) \o SubSeq(k, n + 1, Len(k)) = SubSeq(k, 1, Len(k))
  <2>1. 1 \in 1 .. Len(k) + 1 /\ n \in 1 - 1 .. Len(k) /\ Len(k) \in n .. Len(k)
    BY <1>1
  <2> HIDE DEF k
  <2>2. k \in Seq(Byte)
    BY DEF k
  <2> QED
    BY <2>1, <2>2, ConcatAdjacentSubSeq, Zenon
<1>6. SubSeq(k, 1, Len(k)) = k
  BY SubSeqFull
<1> QED
  BY <1>2, <1>3, <1>4, <1>5, <1>6, Zenon DEF KfifoFront, KfifoRest

\* The invariant holds for a new device.
LEMMA InitIInv == Init => IInv
<1> SUFFICES ASSUME Init PROVE IInv
  OBVIOUS
<1>0. <<>> \in Seq(Byte) /\ Len(<<>>) = 0
  OBVIOUS
<1>1. TypeOK
  <2>1. rpmsg_kfifo \in Seq(Byte) /\ Len(rpmsg_kfifo) <= KfifoSize
    BY <1>0, RxAssumption DEF Init
  <2>2. stream \in Seq(Byte) /\ delivered \in Seq(Byte)
    BY <1>0 DEF Init
  <2>3. /\ block_flag \in {0, 1} /\ sync_lock \in Readers \cup {Cb, Free}
        /\ cb \in CbPc /\ cb_len \in MsgLens \cup {0} /\ sent \in 0 .. MaxSent
        /\ frames \in Nat /\ spurious \in Nat
    BY RxAssumption DEF Init, CbPc
  <2>4. shutdown \in BOOLEAN
    BY Zenon DEF Init
  <2>5. /\ rpc \in [Readers -> ReadPc]
        /\ req \in [Readers -> ReadLens \cup {0}]
        /\ via \in [Readers -> {"none", "flag", "signal"}]
        /\ ret \in [Readers -> {EAGAIN, EFAULT} \cup Nat]
        /\ known \in [Readers -> Nat]
    BY DEF Init, ReadPc
  <2> QED
    BY <2>1, <2>2, <2>3, <2>4, <2>5 DEF TypeOK
<1>2. LockOwner /\ InProgressLens
  BY RxAssumption DEF Init, LockOwner, InProgressLens
<1>3. KfifoIsStream
  BY EmptySeq, ConcatEmptySeq DEF Init, KfifoIsStream
<1>4. KnownIsThere
  <2>1. Len(rpmsg_kfifo) = 0 /\ \A r \in Readers : known[r] = 0
    BY <1>0 DEF Init
  <2>2. \A r \in Readers : known[r] <= Len(rpmsg_kfifo)
    BY <2>1, 0 <= 0, Zenon
  <2> QED
    BY <2>2, Zenon DEF KnownIsThere
<1>5. WakePending
  BY DEF Init, WakePending
<1>6. FlagTokens
  BY DEF Init, FlagTokens
<1>7. InOrder
  BY DEF Init, InOrder, Accepted
<1> QED
  BY <1>1, <1>2, <1>3, <1>4, <1>5, <1>6, <1>7 DEF IInv

\* A read takes at most what the kfifo holds and what was asked for.
LEMMA DataUsedRange ==
  ASSUME TypeOK, NEW r \in Readers
  PROVE  /\ Len(rpmsg_kfifo) \in Nat /\ req[r] \in Nat
         /\ DataUsed(r) \in 0 .. Len(rpmsg_kfifo)
<1>1. Len(rpmsg_kfifo) \in Nat
  BY LenProperties DEF TypeOK
<1>2. req[r] \in ReadLens \cup {0}
  BY DEF TypeOK
<1>3. req[r] \in Nat
  <2>1. ReadLens \cup {0} \subseteq Nat
    BY RxAssumption
  <2> QED
    BY <1>2, <2>1, Zenon
<1> QED
  BY <1>1, <1>3 DEF DataUsed, MinOf

\* A completed read, faulty or not, takes some bytes out and returns.
LEMMA ReadReturns ==
  ASSUME TypeOK, NEW r \in Readers, ReadCopy(r) \/ ReadFault(r)
  PROVE  \E n \in 0 .. Len(rpmsg_kfifo), v \in Nat \cup {EFAULT} : ReadReturn(r, n, v)
<1>1. DataUsed(r) \in 0 .. Len(rpmsg_kfifo) /\ Len(rpmsg_kfifo) \in Nat
  BY DataUsedRange
<1>2. CASE ReadCopy(r)
  <2>1. ReadReturn(r, DataUsed(r), DataUsed(r)) /\ DataUsed(r) \in Nat \cup {EFAULT}
    BY <1>1, <1>2 DEF ReadCopy
  <2> QED
    BY <1>1, <2>1
<1>3. CASE ReadFault(r)
  <2>1. PICK n \in 0 .. DataUsed(r) - 1 : ReadReturn(r, n, EFAULT)
    BY <1>3 DEF ReadFault
  <2>2. n \in 0 .. Len(rpmsg_kfifo)
    BY <1>1
  <2> QED
    BY <2>1, <2>2, Zenon
<1> QED
  BY <1>2, <1>3

\* Type correctness is kept by every step.
LEMMA TypeStep == IInv /\ [Next]_vars => TypeOK'
<1> SUFFICES ASSUME IInv, [Next]_vars PROVE TypeOK'
  OBVIOUS
<1> USE DEF IInv
<1>0. TypeOK /\ InProgressLens
  OBVIOUS
<1>1. CASE CbShutdown
  BY <1>1, RxAssumption DEF CbShutdown, devVars, cbVars, readVars, hisVars, TypeOK, ReadPc, CbPc
<1>2. CASE CbLock
  BY <1>2, RxAssumption DEF CbLock, devVars, cbVars, readVars, hisVars, TypeOK, ReadPc, CbPc
<1>3. CASE CbDrop
  BY <1>3, RxAssumption DEF CbDrop, devVars, cbVars, readVars, hisVars, TypeOK, ReadPc, CbPc
<1>4. CASE CbPush
  <2>1. sent \in Nat /\ cb_len \in Nat /\ LenIn(cb_len) = Len(FrameBytes(sent, cb_len))
    BY <1>4, FrameBytesSeq, RxAssumption DEF TypeOK, InProgressLens, CbPush
  <2>2. FrameBytes(sent, cb_len) \in Seq(Byte)
    BY <2>1, FrameBytesSeq
  <2>3. /\ rpmsg_kfifo' \in Seq(Byte)
        /\ Len(rpmsg_kfifo') = Len(rpmsg_kfifo) + LenIn(cb_len)
    BY <1>4, <2>1, <2>2, KfifoInWhole DEF CbPush, TypeOK
  <2>4. Len(rpmsg_kfifo') <= KfifoSize
    <3>1. Len(rpmsg_kfifo) \in Nat /\ LenIn(cb_len) \in Nat
      BY <2>1, LenInNat, LenProperties DEF TypeOK
    <3> QED
      BY <1>4, <2>3, <3>1, RxAssumption DEF CbPush, KfifoAvail
  <2>5. stream' \in Seq(Byte)
    BY <1>4, <2>2, ConcatProperties DEF CbPush, TypeOK
  <2> QED
    BY <1>4, <2>3, <2>4, <2>5 DEF CbPush, TypeOK, CbPc, devVars, cbVars, readVars, hisVars
<1>5. CASE CbFlag
  BY <1>5, RxAssumption DEF CbFlag, devVars, cbVars, readVars, hisVars, TypeOK, ReadPc, CbPc
<1>6. CASE CbWake
  BY <1>6, RxAssumption DEF CbWake, devVars, cbVars, readVars, hisVars, TypeOK, ReadPc, CbPc
<1>7. ASSUME NEW n \in MsgLens, CbEnter(n) PROVE TypeOK'
  BY <1>7, RxAssumption DEF CbEnter, devVars, cbVars, readVars, hisVars, TypeOK, ReadPc, CbPc
<1>8. ASSUME NEW r \in Readers, ReadLock(r) PROVE TypeOK'
  BY <1>8, RxAssumption DEF ReadLock, devVars, cbVars, readVars, hisVars, TypeOK, ReadPc, CbPc
<1>9. ASSUME NEW r \in Readers, ReadHasData(r) PROVE TypeOK'
  BY <1>9, RxAssumption DEF ReadHasData, devVars, cbVars, readVars, hisVars, TypeOK, ReadPc, CbPc
<1>10. ASSUME NEW r \in Readers, ReadAgain(r) PROVE TypeOK'
  BY <1>10, RxAssumption DEF ReadAgain, devVars, cbVars, readVars, hisVars, TypeOK, ReadPc, CbPc
<1>11. ASSUME NEW r \in Readers, ReadBlock(r) PROVE TypeOK'
  BY <1>11, RxAssumption DEF ReadBlock, devVars, cbVars, readVars, hisVars, TypeOK, ReadPc, CbPc
<1>12. ASSUME NEW r \in Readers, ReadWoken(r) PROVE TypeOK'
  BY <1>12, RxAssumption DEF ReadWoken, devVars, cbVars, readVars, hisVars, TypeOK, ReadPc, CbPc
<1>13. ASSUME NEW r \in Readers, ReadSleep(r) PROVE TypeOK'
  BY <1>13, RxAssumption DEF ReadSleep, devVars, cbVars, readVars, hisVars, TypeOK, ReadPc, CbPc
<1>14. ASSUME NEW r \in Readers, ReadSignal(r) PROVE TypeOK'
  BY <1>14, RxAssumption DEF ReadSignal, devVars, cbVars, readVars, hisVars, TypeOK, ReadPc, CbPc
<1>15. ASSUME NEW r \in Readers, ReadRelock(r) PROVE TypeOK'
  BY <1>15, RxAssumption DEF ReadRelock, devVars, cbVars, readVars, hisVars, TypeOK, ReadPc, CbPc
<1>16. ASSUME NEW r \in Readers, ReadReset(r) PROVE TypeOK'
  BY <1>16, RxAssumption DEF ReadReset, devVars, cbVars, readVars, hisVars, TypeOK, ReadPc, CbPc
<1>17. ASSUME NEW r \in Readers, ReadCopy(r) PROVE TypeOK'
  <2>0. Len(rpmsg_kfifo) \in Nat
    BY DataUsedRange
  <2>2. PICK n \in 0 .. Len(rpmsg_kfifo), v \in Nat \cup {EFAULT} : ReadReturn(r, n, v)
    BY <1>17, ReadReturns
  <2>3. /\ rpmsg_kfifo' \in Seq(Byte) /\ Len(rpmsg_kfifo') <= KfifoSize
        /\ delivered' \in Seq(Byte)
    <3>1. /\ KfifoFront(n) \in Seq(Byte) /\ KfifoRest(n) \in Seq(Byte)
          /\ Len(KfifoRest(n)) = Len(rpmsg_kfifo) - n
      BY KfifoSplit DEF TypeOK
    <3> QED
      BY <2>0, <2>2, <3>1, ConcatProperties, RxAssumption DEF ReadReturn, TypeOK
  <2>4. spurious' \in Nat
    BY <1>17 DEF ReadCopy, TypeOK
  <2>5. /\ rpc' \in [Readers -> ReadPc]
        /\ ret' \in [Readers -> {EAGAIN, EFAULT} \cup Nat]
        /\ known' \in [Readers -> Nat]
    BY <2>2 DEF ReadReturn, TypeOK, ReadPc
  <2>6. UNCHANGED <<block_flag, req, via, cbVars, stream, frames>> /\ sync_lock' = Free
    BY <2>2 DEF ReadReturn
  <2> QED
    BY <2>3, <2>4, <2>5, <2>6 DEF TypeOK, cbVars
<1>18. ASSUME NEW r \in Readers, ReadFault(r) PROVE TypeOK'
  <2>0. Len(rpmsg_kfifo) \in Nat
    BY DataUsedRange
  <2>2. PICK n \in 0 .. Len(rpmsg_kfifo), v \in Nat \cup {EFAULT} : ReadReturn(r, n, v)
    BY <1>18, ReadReturns
  <2>3. /\ rpmsg_kfifo' \in Seq(Byte) /\ Len(rpmsg_kfifo') <= KfifoSize
        /\ delivered' \in Seq(Byte)
    <3>1. /\ KfifoFront(n) \in Seq(Byte) /\ KfifoRest(n) \in Seq(Byte)
          /\ Len(KfifoRest(n)) = Len(rpmsg_kfifo) - n
      BY KfifoSplit DEF TypeOK
    <3> QED
      BY <2>0, <2>2, <3>1, ConcatProperties, RxAssumption DEF ReadReturn, TypeOK
  <2>4. spurious' \in Nat
    BY <1>18 DEF ReadFault, TypeOK
  <2>5. /\ rpc' \in [Readers -> ReadPc]
        /\ ret' \in [Readers -> {EAGAIN, EFAULT} \cup Nat]
        /\ known' \in [Readers -> Nat]
    BY <2>2 DEF ReadReturn, TypeOK, ReadPc
  <2>6. UNCHANGED <<block_flag, req, via, cbVars, stream, frames>> /\ sync_lock' = Free
    BY <2>2 DEF ReadReturn
  <2> QED
    BY <2>3, <2>4, <2>5, <2>6 DEF TypeOK, cbVars
<1>19. ASSUME NEW r \in Readers, Ioctl(r) PROVE TypeOK'
  <2>1. Len(rpmsg_kfifo) \in Nat
    BY LenProperties DEF TypeOK
  <2>2. known' \in [Readers -> Nat]
    BY <1>19, <2>1 DEF Ioctl, TypeOK
  <2> QED
    BY <1>19, <2>2 DEF Ioctl, TypeOK, devVars, cbVars, hisVars
<1>20. ASSUME NEW r \in Readers, NEW n \in ReadLens, ReadCall(r, n) PROVE TypeOK'
  BY <1>20, RxAssumption DEF ReadCall, devVars, cbVars, readVars, hisVars, TypeOK, ReadPc, CbPc
<1>21. CASE UNCHANGED vars
  BY <1>21, RxAssumption DEF vars, devVars, cbVars, readVars, hisVars, TypeOK, ReadPc, CbPc
<1> QED
  BY <1>1, <1>2, <1>3, <1>4, <1>5, <1>6, <1>7, <1>8, <1>9, <1>10, <1>11, <1>12, <1>13, <1>14, <1>15, <1>16, <1>17, <1>18, <1>19, <1>20, <1>21 DEF Next, CbNext, ReadNext

\* Every exit of a critical section releases the mutex.
LEMMA LockStep == IInv /\ [Next]_vars => LockOwner'
<1> SUFFICES ASSUME IInv, [Next]_vars PROVE LockOwner'
  OBVIOUS
<1>0. TypeOK /\ LockOwner
  BY DEF IInv
<1> USE <1>0
<1>1. CASE CbShutdown
  BY <1>1, RxAssumption DEF CbShutdown, devVars, cbVars, readVars, hisVars, LockOwner, TypeOK
<1>2. CASE CbLock
  BY <1>2, RxAssumption DEF CbLock, devVars, cbVars, readVars, hisVars, LockOwner, TypeOK
<1>3. CASE CbDrop
  BY <1>3, RxAssumption DEF CbDrop, devVars, cbVars, readVars, hisVars, LockOwner, TypeOK
<1>4. CASE CbPush
  BY <1>4, RxAssumption DEF CbPush, devVars, cbVars, readVars, hisVars, LockOwner, TypeOK
<1>5. CASE CbFlag
  BY <1>5, RxAssumption DEF CbFlag, devVars, cbVars, readVars, hisVars, LockOwner, TypeOK
<1>6. CASE CbWake
  BY <1>6, RxAssumption DEF CbWake, devVars, cbVars, readVars, hisVars, LockOwner, TypeOK
<1>7. ASSUME NEW n \in MsgLens, CbEnter(n) PROVE LockOwner'
  BY <1>7, RxAssumption DEF CbEnter, devVars, cbVars, readVars, hisVars, LockOwner, TypeOK
<1>8. ASSUME NEW r \in Readers, ReadLock(r) PROVE LockOwner'
  BY <1>8, RxAssumption DEF ReadLock, devVars, cbVars, readVars, hisVars, LockOwner, TypeOK
<1>9. ASSUME NEW r \in Readers, ReadHasData(r) PROVE LockOwner'
  BY <1>9, RxAssumption DEF ReadHasData, devVars, cbVars, readVars, hisVars, LockOwner, TypeOK
<1>10. ASSUME NEW r \in Readers, ReadAgain(r) PROVE LockOwner'
  BY <1>10, RxAssumption DEF ReadAgain, devVars, cbVars, readVars, hisVars, LockOwner, TypeOK
<1>11. ASSUME NEW r \in Readers, ReadBlock(r) PROVE LockOwner'
  BY <1>11, RxAssumption DEF ReadBlock, devVars, cbVars, readVars, hisVars, LockOwner, TypeOK
<1>12. ASSUME NEW r \in Readers, ReadWoken(r) PROVE LockOwner'
  BY <1>12, RxAssumption DEF ReadWoken, devVars, cbVars, readVars, hisVars, LockOwner, TypeOK
<1>13. ASSUME NEW r \in Readers, ReadSleep(r) PROVE LockOwner'
  BY <1>13, RxAssumption DEF ReadSleep, devVars, cbVars, readVars, hisVars, LockOwner, TypeOK
<1>14. ASSUME NEW r \in Readers, ReadSignal(r) PROVE LockOwner'
  BY <1>14, RxAssumption DEF ReadSignal, devVars, cbVars, readVars, hisVars, LockOwner, TypeOK
<1>15. ASSUME NEW r \in Readers, ReadRelock(r) PROVE LockOwner'
  BY <1>15, RxAssumption DEF ReadRelock, devVars, cbVars, readVars, hisVars, LockOwner, TypeOK
<1>16. ASSUME NEW r \in Readers, ReadReset(r) PROVE LockOwner'
  BY <1>16, RxAssumption DEF ReadReset, devVars, cbVars, readVars, hisVars, LockOwner, TypeOK
<1>17. ASSUME NEW r \in Readers, ReadCopy(r) PROVE LockOwner'
  <2>1. PICK n \in 0 .. Len(rpmsg_kfifo), v \in Nat \cup {EFAULT} : ReadReturn(r, n, v)
    BY <1>17, ReadReturns
  <2>2. rpc[r] = "copy" /\ sync_lock = r
    BY <1>17 DEF ReadCopy, LockOwner
  <2> QED
    BY <2>1, <2>2, RxAssumption DEF ReadReturn, cbVars, LockOwner, TypeOK
<1>18. ASSUME NEW r \in Readers, ReadFault(r) PROVE LockOwner'
  <2>1. PICK n \in 0 .. Len(rpmsg_kfifo), v \in Nat \cup {EFAULT} : ReadReturn(r, n, v)
    BY <1>18, ReadReturns
  <2>2. rpc[r] = "copy" /\ sync_lock = r
    BY <1>18 DEF ReadFault, LockOwner
  <2> QED
    BY <2>1, <2>2, RxAssumption DEF ReadReturn, cbVars, LockOwner, TypeOK
<1>19. ASSUME NEW r \in Readers, Ioctl(r) PROVE LockOwner'
  BY <1>19, RxAssumption DEF Ioctl, devVars, cbVars, readVars, hisVars, LockOwner, TypeOK
<1>20. ASSUME NEW r \in Readers, NEW n \in ReadLens, ReadCall(r, n) PROVE LockOwner'
  BY <1>20, RxAssumption DEF ReadCall, devVars, cbVars, readVars, hisVars, LockOwner, TypeOK
<1>21. CASE UNCHANGED vars
  BY <1>21, RxAssumption DEF vars, devVars, cbVars, readVars, hisVars, LockOwner, TypeOK
<1> QED
  BY <1>1, <1>2, <1>3, <1>4, <1>5, <1>6, <1>7, <1>8, <1>9, <1>10, <1>11, <1>12, <1>13, <1>14, <1>15, <1>16, <1>17, <1>18, <1>19, <1>20, <1>21 DEF Next, CbNext, ReadNext

\* A read or a callback in progress keeps the length it was given.
LEMMA LensStep == IInv /\ [Next]_vars => InProgressLens'
<1> SUFFICES ASSUME IInv, [Next]_vars PROVE InProgressLens'
  OBVIOUS
<1>0. TypeOK /\ InProgressLens
  BY DEF IInv
<1> USE <1>0
<1>1. CASE CbShutdown
  BY <1>1 DEF CbShutdown, devVars, cbVars, readVars, hisVars, InProgressLens, TypeOK
<1>2. CASE CbLock
  BY <1>2 DEF CbLock, devVars, cbVars, readVars, hisVars, InProgressLens, TypeOK
<1>3. CASE CbDrop
  BY <1>3 DEF CbDrop, devVars, cbVars, readVars, hisVars, InProgressLens, TypeOK
<1>4. CASE CbPush
  BY <1>4 DEF CbPush, devVars, cbVars, readVars, hisVars, InProgressLens, TypeOK
<1>5. CASE CbFlag
  BY <1>5 DEF CbFlag, devVars, cbVars, readVars, hisVars, InProgressLens, TypeOK
<1>6. CASE CbWake
  BY <1>6 DEF CbWake, devVars, cbVars, readVars, hisVars, InProgressLens, TypeOK
<1>7. ASSUME NEW n \in MsgLens, CbEnter(n) PROVE InProgressLens'
  BY <1>7 DEF CbEnter, devVars, cbVars, readVars, hisVars, InProgressLens, TypeOK
<1>8. ASSUME NEW r \in Readers, ReadLock(r) PROVE InProgressLens'
  BY <1>8 DEF ReadLock, devVars, cbVars, readVars, hisVars, InProgressLens, TypeOK
<1>9. ASSUME NEW r \in Readers, ReadHasData(r) PROVE InProgressLens'
  BY <1>9 DEF ReadHasData, devVars, cbVars, readVars, hisVars, InProgressLens, TypeOK
<1>10. ASSUME NEW r \in Readers, ReadAgain(r) PROVE InProgressLens'
  BY <1>10 DEF ReadAgain, devVars, cbVars, readVars, hisVars, InProgressLens, TypeOK
<1>11. ASSUME NEW r \in Readers, ReadBlock(r) PROVE InProgressLens'
  BY <1>11 DEF ReadBlock, devVars, cbVars, readVars, hisVars, InProgressLens, TypeOK
<1>12. ASSUME NEW r \in Readers, ReadWoken(r) PROVE InProgressLens'
  BY <1>12 DEF ReadWoken, devVars, cbVars, readVars, hisVars, InProgressLens, TypeOK
<1>13. ASSUME NEW r \in Readers, ReadSleep(r) PROVE InProgressLens'
  BY <1>13 DEF ReadSleep, devVars, cbVars, readVars, hisVars, InProgressLens, TypeOK
<1>14. ASSUME NEW r \in Readers, ReadSignal(r) PROVE InProgressLens'
  BY <1>14 DEF ReadSignal, devVars, cbVars, readVars, hisVars, InProgressLens, TypeOK
<1>15. ASSUME NEW r \in Readers, ReadRelock(r) PROVE InProgressLens'
  BY <1>15 DEF ReadRelock, devVars, cbVars, readVars, hisVars, InProgressLens, TypeOK
<1>16. ASSUME NEW r \in Readers, ReadReset(r) PROVE InProgressLens'
  BY <1>16 DEF ReadReset, devVars, cbVars, readVars, hisVars, InProgressLens, TypeOK
<1>17. ASSUME NEW r \in Readers, ReadCopy(r) PROVE InProgressLens'
  <2>1. PICK n \in 0 .. Len(rpmsg_kfifo), v \in Nat \cup {EFAULT} : ReadReturn(r, n, v)
    BY <1>17, ReadReturns
  <2> QED
    BY <2>1 DEF ReadReturn, cbVars, InProgressLens, TypeOK
<1>18. ASSUME NEW r \in Readers, ReadFault(r) PROVE InProgressLens'
  <2>1. PICK n \in 0 .. Len(rpmsg_kfifo), v \in Nat \cup {EFAULT} : ReadReturn(r, n, v)
    BY <1>18, ReadReturns
  <2> QED
    BY <2>1 DEF ReadReturn, cbVars, InProgressLens, TypeOK
<1>19. ASSUME NEW r \in Readers, Ioctl(r) PROVE InProgressLens'
  BY <1>19 DEF Ioctl, devVars, cbVars, readVars, hisVars, InProgressLens, TypeOK
<1>20. ASSUME NEW r \in Readers, NEW n \in ReadLens, ReadCall(r, n) PROVE InProgressLens'
  BY <1>20 DEF ReadCall, devVars, cbVars, readVars, hisVars, InProgressLens, TypeOK
<1>21. CASE UNCHANGED vars
  BY <1>21 DEF vars, devVars, cbVars, readVars, hisVars, InProgressLens, TypeOK
<1> QED
  BY <1>1, <1>2, <1>3, <1>4, <1>5, <1>6, <1>7, <1>8, <1>9, <1>10, <1>11, <1>12, <1>13, <1>14, <1>15, <1>16, <1>17, <1>18, <1>19, <1>20, <1>21 DEF Next, CbNext, ReadNext

\* Only the callback's push and a completed read touch the byte stream.
LEMMA StreamSteps ==
  [Next]_vars =>
    \/ CbPush
    \/ \E r \in Readers : ReadCopy(r) \/ ReadFault(r)
    \/ UNCHANGED <<rpmsg_kfifo, stream, delivered>>
BY Zenon DEF Next, CbNext, ReadNext, vars, devVars, cbVars, readVars, hisVars,
       CbShutdown, CbEnter, CbLock, CbDrop, CbFlag, CbWake,
       ReadCall, ReadLock, ReadHasData, ReadAgain, ReadBlock, ReadWoken,
       ReadSleep, ReadSignal, ReadRelock, ReadReset, Ioctl

\* What the push does to the kfifo and to the history.
LEMMA PushEffect ==
  ASSUME TypeOK, InProgressLens, CbPush
  PROVE  \E f \in Seq(Byte) :
           /\ rpmsg_kfifo' = rpmsg_kfifo \o f
           /\ stream' = stream \o f
           /\ Len(rpmsg_kfifo') = Len(rpmsg_kfifo) + Len(f)
<1> DEFINE f == FrameBytes(sent, cb_len)
<1>1. sent \in Nat /\ cb_len \in Nat
  BY RxAssumption DEF TypeOK, InProgressLens, CbPush
<1>2. f \in Seq(Byte) /\ Len(f) = LenIn(cb_len)
  BY <1>1, FrameBytesSeq, Zenon
<1>3. rpmsg_kfifo' = KfifoIn(f) /\ stream' = stream \o f /\ ~ (KfifoAvail < Len(f))
  BY <1>2 DEF CbPush
<1> HIDE DEF f
<1>4. KfifoIn(f) = rpmsg_kfifo \o f /\ Len(KfifoIn(f)) = Len(rpmsg_kfifo) + Len(f)
  BY <1>2, <1>3, KfifoInWhole, Zenon DEF TypeOK
<1> QED
  BY <1>2, <1>3, <1>4, Zenon

\* The bytes delivered and those in the kfifo stay the bytes accepted.
LEMMA StreamStep == IInv /\ [Next]_vars => KfifoIsStream'
<1> SUFFICES ASSUME IInv, [Next]_vars PROVE KfifoIsStream'
  OBVIOUS
<1>0. TypeOK /\ InProgressLens /\ KfifoIsStream
  BY DEF IInv
<1>1. rpmsg_kfifo \in Seq(Byte) /\ delivered \in Seq(Byte) /\ stream = delivered \o rpmsg_kfifo
  BY <1>0 DEF TypeOK, KfifoIsStream
<1>2. CASE CbPush
  <2>1. PICK f \in Seq(Byte) : rpmsg_kfifo' = rpmsg_kfifo \o f /\ stream' = stream \o f
    BY <1>0, <1>2, PushEffect, Zenon
  <2>2. delivered' = delivered
    BY <1>2 DEF CbPush
  <2>3. (delivered \o rpmsg_kfifo) \o f = delivered \o (rpmsg_kfifo \o f)
    BY <1>1, ConcatAssociative
  <2> QED
    BY <1>1, <2>1, <2>2, <2>3 DEF KfifoIsStream
<1>3. ASSUME NEW r \in Readers, ReadCopy(r) \/ ReadFault(r) PROVE KfifoIsStream'
  <2>1. PICK n \in 0 .. Len(rpmsg_kfifo), v \in Nat \cup {EFAULT} : ReadReturn(r, n, v)
    BY <1>0, <1>3, ReadReturns
  <2>2. /\ KfifoFront(n) \in Seq(Byte) /\ KfifoRest(n) \in Seq(Byte)
        /\ KfifoFront(n) \o KfifoRest(n) = rpmsg_kfifo
    BY <1>1, KfifoSplit
  <2>3. \A a, b \in Seq(Byte) : (delivered \o a) \o b = delivered \o (a \o b)
    BY <1>1, ConcatAssociative
  <2>4. /\ rpmsg_kfifo' = KfifoRest(n) /\ delivered' = delivered \o KfifoFront(n)
        /\ stream' = stream
    BY <2>1 DEF ReadReturn
  <2> QED
    BY <1>1, <2>2, <2>3, <2>4, Zenon DEF KfifoIsStream
<1>4. CASE UNCHANGED <<rpmsg_kfifo, stream, delivered>>
  BY <1>1, <1>4 DEF KfifoIsStream
<1> QED
  BY <1>2, <1>3, <1>4, StreamSteps

\* What the ioctl reported stays there until the only reader reads.
LEMMA KnownStep == IInv /\ [Next]_vars => KnownIsThere'
<1> SUFFICES ASSUME IInv, [Next]_vars, SoleReader, NEW r \in Readers
             PROVE  known'[r] <= Len(rpmsg_kfifo')
  BY DEF KnownIsThere, SoleReader
<1>0. TypeOK /\ InProgressLens /\ known[r] <= Len(rpmsg_kfifo)
  BY DEF IInv, KnownIsThere
<1>1. known[r] \in Nat /\ Len(rpmsg_kfifo) \in Nat
  BY <1>0, LenProperties DEF TypeOK
<1>2. CASE CbPush
  <2>1. PICK f \in Seq(Byte) : Len(rpmsg_kfifo') = Len(rpmsg_kfifo) + Len(f)
    BY <1>0, <1>2, PushEffect
  <2>2. Len(f) \in Nat /\ known' = known
    BY <1>2, LenProperties DEF CbPush, readVars
  <2> QED
    BY <1>0, <1>1, <2>1, <2>2
<1>3. ASSUME NEW s \in Readers, ReadCopy(s) \/ ReadFault(s)
      PROVE  known'[r] <= Len(rpmsg_kfifo')
  <2>1. PICK n \in 0 .. Len(rpmsg_kfifo), v \in Nat \cup {EFAULT} : ReadReturn(s, n, v)
    BY <1>0, <1>3, ReadReturns
  <2>2. s = r
    BY DEF SoleReader
  <2>3. known'[r] = 0
    BY <1>0, <2>1, <2>2 DEF ReadReturn, TypeOK
  <2>4. Len(rpmsg_kfifo') = Len(rpmsg_kfifo) - n
    BY <1>0, <2>1, KfifoSplit, Zenon DEF ReadReturn, TypeOK
  <2> QED
    BY <1>1, <2>3, <2>4
<1>4. ASSUME NEW s \in Readers, Ioctl(s) PROVE known'[r] <= Len(rpmsg_kfifo')
  <2>1. known'[r] = Len(rpmsg_kfifo) \/ known'[r] = known[r]
    BY <1>0, <1>4 DEF Ioctl, TypeOK
  <2>2. rpmsg_kfifo' = rpmsg_kfifo
    BY <1>4 DEF Ioctl, devVars
  <2>3. CASE known'[r] = Len(rpmsg_kfifo)
    BY <1>1, <2>2, <2>3
  <2>4. CASE known'[r] = known[r]
    BY <1>0, <2>2, <2>4
  <2> QED
    BY <2>1, <2>3, <2>4
<1>5. CASE UNCHANGED <<rpmsg_kfifo, known>>
  BY <1>0, <1>5
<1> QED
  <2>1. \/ CbPush
        \/ \E s \in Readers : ReadCopy(s) \/ ReadFault(s) \/ Ioctl(s)
        \/ UNCHANGED <<rpmsg_kfifo, known>>
    BY Zenon DEF Next, CbNext, ReadNext, vars, devVars, cbVars, readVars, hisVars,
           CbShutdown, CbEnter, CbLock, CbDrop, CbFlag, CbWake,
           ReadCall, ReadLock, ReadHasData, ReadAgain, ReadBlock, ReadWoken,
           ReadSleep, ReadSignal, ReadRelock, ReadReset
  <2> QED
    BY <1>2, <1>3, <1>4, <1>5, <2>1

\* A reader on the wait queue beside data keeps a wake-up to come.
LEMMA WakeStep == IInv /\ [Next]_vars => WakePending'
<1> SUFFICES ASSUME IInv, [Next]_vars PROVE WakePending'
  OBVIOUS
<1>0. TypeOK /\ LockOwner /\ InProgressLens /\ WakePending
  BY DEF IInv
<1> USE <1>0
<1>1. CASE CbShutdown
  BY <1>1 DEF CbShutdown, devVars, cbVars, readVars, hisVars, WakePending, InRead, TypeOK, SoleReader, FullReads
<1>2. CASE CbLock
  BY <1>2 DEF CbLock, devVars, cbVars, readVars, hisVars, WakePending, InRead, TypeOK, SoleReader, FullReads
<1>3. CASE CbDrop
  BY <1>3 DEF CbDrop, devVars, cbVars, readVars, hisVars, WakePending, InRead, TypeOK, SoleReader, FullReads
<1>4. CASE CbPush
  BY <1>4 DEF CbPush, devVars, cbVars, readVars, hisVars, WakePending, InRead, TypeOK, SoleReader, FullReads
<1>5. CASE CbFlag
  BY <1>5 DEF CbFlag, devVars, cbVars, readVars, hisVars, WakePending, InRead, TypeOK, SoleReader, FullReads
<1>6. CASE CbWake
  BY <1>6 DEF CbWake, devVars, cbVars, readVars, hisVars, WakePending, InRead, TypeOK, SoleReader, FullReads
<1>7. ASSUME NEW n \in MsgLens, CbEnter(n) PROVE WakePending'
  BY <1>7 DEF CbEnter, devVars, cbVars, readVars, hisVars, WakePending, InRead, TypeOK, SoleReader, FullReads
<1>8. ASSUME NEW r \in Readers, ReadLock(r) PROVE WakePending'
  BY <1>8, Zenon DEF ReadLock, devVars, cbVars, readVars, hisVars, WakePending, InRead, TypeOK, SoleReader, FullReads
<1>9. ASSUME NEW r \in Readers, ReadHasData(r) PROVE WakePending'
  BY <1>9 DEF ReadHasData, devVars, cbVars, readVars, hisVars, WakePending, InRead, TypeOK, SoleReader, FullReads
<1>10. ASSUME NEW r \in Readers, ReadAgain(r) PROVE WakePending'
  BY <1>10 DEF ReadAgain, devVars, cbVars, readVars, hisVars, WakePending, InRead, TypeOK, SoleReader, FullReads
<1>11. ASSUME NEW r \in Readers, ReadBlock(r) PROVE WakePending'
  BY <1>11 DEF ReadBlock, devVars, cbVars, readVars, hisVars, WakePending, InRead, TypeOK, SoleReader, FullReads
<1>12. ASSUME NEW r \in Readers, ReadWoken(r) PROVE WakePending'
  BY <1>12, Zenon DEF ReadWoken, devVars, cbVars, readVars, hisVars, WakePending, InRead, TypeOK, SoleReader, FullReads
<1>13. ASSUME NEW r \in Readers, ReadSleep(r) PROVE WakePending'
  <2> SUFFICES ASSUME SoleReader \/ FullReads, NEW q \in Readers,
                      rpc'[q] \in {"wait", "asleep"}, rpmsg_kfifo # <<>>
             PROVE  \/ cb = "flag"
                    \/ \E s \in Readers : InRead(s)'
                    \/ block_flag = 1 /\ (rpc'[q] = "asleep" => cb = "wake")
    BY <1>13 DEF ReadSleep, devVars, cbVars, WakePending, SoleReader, FullReads
  <2>1. rpc[q] \in {"wait", "asleep"} /\ (q # r => rpc'[q] = rpc[q])
    BY <1>13 DEF ReadSleep, TypeOK
  <2>2. \A s \in Readers : InRead(s) => InRead(s)'
    BY <1>13 DEF ReadSleep, TypeOK, InRead
  <2>3. \/ cb = "flag"
        \/ \E s \in Readers : InRead(s)
        \/ block_flag = 1 /\ (rpc[q] = "asleep" => cb = "wake")
    BY <2>1 DEF WakePending
  <2>4. q = r => block_flag = 0
    BY <1>13 DEF ReadSleep
  <2> QED
    BY <2>1, <2>2, <2>3, <2>4
<1>14. ASSUME NEW r \in Readers, ReadSignal(r) PROVE WakePending'
  BY <1>14, Zenon DEF ReadSignal, devVars, cbVars, readVars, hisVars, WakePending, InRead, TypeOK, SoleReader, FullReads
<1>15. ASSUME NEW r \in Readers, ReadRelock(r) PROVE WakePending'
  BY <1>15 DEF ReadRelock, devVars, cbVars, readVars, hisVars, WakePending, InRead, TypeOK, SoleReader, FullReads
<1>16. ASSUME NEW r \in Readers, ReadReset(r) PROVE WakePending'
  BY <1>16 DEF ReadReset, devVars, cbVars, readVars, hisVars, WakePending, InRead, TypeOK, SoleReader, FullReads
<1>17. ASSUME NEW r \in Readers, ReadCopy(r) PROVE WakePending'
  <2> SUFFICES ASSUME SoleReader \/ FullReads, NEW q \in Readers,
                      rpc'[q] \in {"wait", "asleep"}, rpmsg_kfifo' # <<>>
             PROVE  FALSE
    BY DEF WakePending, SoleReader, FullReads
  <2>1. PICK n \in 0 .. Len(rpmsg_kfifo), v \in Nat \cup {EFAULT} : ReadReturn(r, n, v)
    BY <1>17, ReadReturns
  <2>2. q # r
    BY <2>1 DEF ReadReturn, TypeOK
  <2>3. FullReads
    BY <2>2 DEF SoleReader
  <2>4. DataUsed(r) = Len(rpmsg_kfifo)
    <3>1. req[r] >= KfifoSize
      BY <1>17, <2>3 DEF FullReads, ReadCopy, InProgressLens
    <3>2. Len(rpmsg_kfifo) <= KfifoSize /\ Len(rpmsg_kfifo) \in Nat /\ req[r] \in Nat
      BY DataUsedRange DEF TypeOK
    <3> QED
      BY <3>1, <3>2, RxAssumption DEF DataUsed, MinOf
  <2>5. Len(KfifoRest(Len(rpmsg_kfifo))) = 0 /\ KfifoRest(Len(rpmsg_kfifo)) \in Seq(Byte)
    <3>1. Len(rpmsg_kfifo) \in 0 .. Len(rpmsg_kfifo) /\ Len(rpmsg_kfifo) \in Nat
      BY DataUsedRange
    <3>2. Len(KfifoRest(Len(rpmsg_kfifo))) = Len(rpmsg_kfifo) - Len(rpmsg_kfifo)
      BY <3>1, KfifoSplit, Zenon DEF TypeOK
    <3> QED
      BY <3>1, <3>2, KfifoSplit DEF TypeOK
  <2>6. rpmsg_kfifo' = KfifoRest(Len(rpmsg_kfifo))
    BY <1>17, <2>4 DEF ReadCopy, ReadReturn
  <2> QED
    BY <2>5, <2>6, EmptySeq
<1>18. ASSUME NEW r \in Readers, ReadFault(r) PROVE WakePending'
  <2> SUFFICES ASSUME SoleReader \/ FullReads, NEW q \in Readers,
                      rpc'[q] \in {"wait", "asleep"}, rpmsg_kfifo' # <<>>
             PROVE  FALSE
    BY DEF WakePending, SoleReader, FullReads
  <2>1. PICK n \in 0 .. Len(rpmsg_kfifo), v \in Nat \cup {EFAULT} : ReadReturn(r, n, v)
    BY <1>18, ReadReturns
  <2>2. q # r
    BY <2>1 DEF ReadReturn, TypeOK
  <2>3. FullReads
    BY <2>2 DEF SoleReader
  <2> QED
    BY <1>18, <2>3 DEF FullReads, ReadFault
<1>19. ASSUME NEW r \in Readers, Ioctl(r) PROVE WakePending'
  BY <1>19 DEF Ioctl, devVars, cbVars, readVars, hisVars, WakePending, InRead, TypeOK, SoleReader, FullReads
<1>20. ASSUME NEW r \in Readers, NEW n \in ReadLens, ReadCall(r, n) PROVE WakePending'
  BY <1>20, Zenon DEF ReadCall, devVars, cbVars, readVars, hisVars, WakePending, InRead, TypeOK, SoleReader, FullReads
<1>21. CASE UNCHANGED vars
  BY <1>21 DEF vars, devVars, cbVars, readVars, hisVars, WakePending, InRead, TypeOK, SoleReader, FullReads
<1> QED
  BY <1>1, <1>2, <1>3, <1>4, <1>5, <1>6, <1>7, <1>8, <1>9, <1>10, <1>11, <1>12, <1>13, <1>14, <1>15, <1>16, <1>17, <1>18, <1>19, <1>20, <1>21 DEF Next, CbNext, ReadNext

\* Every spurious read is paid for by a message.
LEMMA TokenStep == IInv /\ [Next]_vars => FlagTokens'
<1> SUFFICES ASSUME IInv, [Next]_vars PROVE FlagTokens'
  OBVIOUS
<1>0. TypeOK /\ LockOwner /\ FlagTokens
  BY DEF IInv
<1> USE <1>0
<1>1. CASE CbShutdown
  BY <1>1 DEF CbShutdown, devVars, cbVars, readVars, hisVars, FlagTokens, TypeOK, SoleReader, CbPc
<1>2. CASE CbLock
  BY <1>2 DEF CbLock, devVars, cbVars, readVars, hisVars, FlagTokens, TypeOK, SoleReader, CbPc
<1>3. CASE CbDrop
  BY <1>3 DEF CbDrop, devVars, cbVars, readVars, hisVars, FlagTokens, TypeOK, SoleReader, CbPc
<1>4. CASE CbPush
  BY <1>4 DEF CbPush, devVars, cbVars, readVars, hisVars, FlagTokens, TypeOK, SoleReader, CbPc
<1>5. CASE CbFlag
  BY <1>5 DEF CbFlag, devVars, cbVars, readVars, hisVars, FlagTokens, TypeOK, SoleReader, CbPc
<1>6. CASE CbWake
  BY <1>6 DEF CbWake, devVars, cbVars, readVars, hisVars, FlagTokens, TypeOK, SoleReader, CbPc
<1>7. ASSUME NEW n \in MsgLens, CbEnter(n) PROVE FlagTokens'
  BY <1>7 DEF CbEnter, devVars, cbVars, readVars, hisVars, FlagTokens, TypeOK, SoleReader, CbPc
<1>8. ASSUME NEW r \in Readers, ReadLock(r) PROVE FlagTokens'
  BY <1>8 DEF ReadLock, devVars, cbVars, readVars, hisVars, FlagTokens, TypeOK, SoleReader, CbPc
<1>9. ASSUME NEW r \in Readers, ReadHasData(r) PROVE FlagTokens'
  BY <1>9 DEF ReadHasData, devVars, cbVars, readVars, hisVars, FlagTokens, TypeOK, SoleReader, CbPc
<1>10. ASSUME NEW r \in Readers, ReadAgain(r) PROVE FlagTokens'
  BY <1>10 DEF ReadAgain, devVars, cbVars, readVars, hisVars, FlagTokens, TypeOK, SoleReader, CbPc
<1>11. ASSUME NEW r \in Readers, ReadBlock(r) PROVE FlagTokens'
  BY <1>11 DEF ReadBlock, devVars, cbVars, readVars, hisVars, FlagTokens, TypeOK, SoleReader, CbPc
<1>12. ASSUME NEW r \in Readers, ReadWoken(r) PROVE FlagTokens'
  BY <1>12 DEF ReadWoken, devVars, cbVars, readVars, hisVars, FlagTokens, TypeOK, SoleReader, CbPc
<1>13. ASSUME NEW r \in Readers, ReadSleep(r) PROVE FlagTokens'
  BY <1>13 DEF ReadSleep, devVars, cbVars, readVars, hisVars, FlagTokens, TypeOK, SoleReader, CbPc
<1>14. ASSUME NEW r \in Readers, ReadSignal(r) PROVE FlagTokens'
  BY <1>14 DEF ReadSignal, devVars, cbVars, readVars, hisVars, FlagTokens, TypeOK, SoleReader, CbPc
<1>15. ASSUME NEW r \in Readers, ReadRelock(r) PROVE FlagTokens'
  BY <1>15 DEF ReadRelock, devVars, cbVars, readVars, hisVars, FlagTokens, TypeOK, SoleReader, CbPc
<1>16. ASSUME NEW r \in Readers, ReadReset(r) PROVE FlagTokens'
  BY <1>16 DEF ReadReset, devVars, cbVars, readVars, hisVars, FlagTokens, TypeOK, SoleReader, CbPc
<1>17. ASSUME NEW r \in Readers, ReadCopy(r) PROVE FlagTokens'
  <2>1. PICK n \in 0 .. Len(rpmsg_kfifo), v \in Nat \cup {EFAULT} : ReadReturn(r, n, v)
    BY <1>17, ReadReturns
  <2>2. rpc[r] = "copy" /\ rpc' = [rpc EXCEPT ![r] = "idle"]
        /\ UNCHANGED <<block_flag, via, cb, frames>>
    BY <1>17, <2>1 DEF ReadReturn, cbVars, ReadCopy
  <2> SUFFICES ASSUME SoleReader PROVE FlagTokens'
    BY DEF FlagTokens, SoleReader
  <2>3. \A q \in Readers : q = r
    BY DEF SoleReader
  <2>4. \A q \in Readers : rpc'[q] = "idle"
    BY <2>2, <2>3 DEF TypeOK
  <2> DEFINE a == IF via[r] = "flag" THEN 1 ELSE 0
             c == IF cb = "flag" THEN 1 ELSE 0
  <2>5. spurious' <= spurious + a
    BY <1>17 DEF ReadCopy, IsSpurious, TypeOK
  <2>6. spurious + block_flag + a + c <= frames
    <3>1. (\E q \in Readers : rpc[q] = "copy" /\ via[q] = "flag") <=> via[r] = "flag"
      BY <2>2, <2>3
    <3> QED
      BY <3>1 DEF FlagTokens
  <2>7. spurious' + block_flag + c <= frames
    <3>1. /\ spurious \in Nat /\ block_flag \in Nat /\ frames \in Nat /\ a \in Nat /\ c \in Nat
          /\ spurious' \in Nat
      BY <1>17 DEF ReadCopy, TypeOK
    <3>2. \A s, t, b, x, y, f \in Nat : t <= s + x /\ s + b + x + y <= f => t + b + y <= f
      OBVIOUS
    <3> HIDE DEF a, c
    <3> QED
      BY <2>5, <2>6, <3>1, <3>2, Zenon
  <2>8. ~ \E q \in Readers : rpc'[q] = "copy" /\ via'[q] = "flag"
    BY <2>4
  <2>9. spurious' + block_flag' + 0 + (IF cb' = "flag" THEN 1 ELSE 0) <= frames'
    <3>1. /\ spurious' \in Nat /\ block_flag \in Nat
      BY <1>17 DEF ReadCopy, TypeOK
    <3> QED
      BY <2>2, <2>7, <3>1
  <2> QED
    BY <2>4, <2>8, <2>9 DEF FlagTokens
<1>18. ASSUME NEW r \in Readers, ReadFault(r) PROVE FlagTokens'
  <2>1. PICK n \in 0 .. Len(rpmsg_kfifo), v \in Nat \cup {EFAULT} : ReadReturn(r, n, v)
    BY <1>18, ReadReturns
  <2>2. rpc[r] = "copy" /\ rpc' = [rpc EXCEPT ![r] = "idle"]
        /\ UNCHANGED <<block_flag, via, cb, frames>>
    BY <1>18, <2>1 DEF ReadReturn, cbVars, ReadFault
  <2> SUFFICES ASSUME SoleReader PROVE FlagTokens'
    BY DEF FlagTokens, SoleReader
  <2>3. \A q \in Readers : q = r
    BY DEF SoleReader
  <2>4. \A q \in Readers : rpc'[q] = "idle"
    BY <2>2, <2>3 DEF TypeOK
  <2> DEFINE a == IF via[r] = "flag" THEN 1 ELSE 0
             c == IF cb = "flag" THEN 1 ELSE 0
  <2>5. spurious' <= spurious + a
    BY <1>18 DEF ReadFault, IsSpurious, TypeOK
  <2>6. spurious + block_flag + a + c <= frames
    <3>1. (\E q \in Readers : rpc[q] = "copy" /\ via[q] = "flag") <=> via[r] = "flag"
      BY <2>2, <2>3
    <3> QED
      BY <3>1 DEF FlagTokens
  <2>7. spurious' + block_flag + c <= frames
    <3>1. /\ spurious \in Nat /\ block_flag \in Nat /\ frames \in Nat /\ a \in Nat /\ c \in Nat
          /\ spurious' \in Nat
      BY <1>18 DEF ReadFault, TypeOK
    <3>2. \A s, t, b, x, y, f \in Nat : t <= s + x /\ s + b + x + y <= f => t + b + y <= f
      OBVIOUS
    <3> HIDE DEF a, c
    <3> QED
      BY <2>5, <2>6, <3>1, <3>2, Zenon
  <2>8. ~ \E q \in Readers : rpc'[q] = "copy" /\ via'[q] = "flag"
    BY <2>4
  <2>9. spurious' + block_flag' + 0 + (IF cb' = "flag" THEN 1 ELSE 0) <= frames'
    <3>1. /\ spurious' \in Nat /\ block_flag \in Nat
      BY <1>18 DEF ReadFault, TypeOK
    <3> QED
      BY <2>2, <2>7, <3>1
  <2> QED
    BY <2>4, <2>8, <2>9 DEF FlagTokens
<1>19. ASSUME NEW r \in Readers, Ioctl(r) PROVE FlagTokens'
  BY <1>19 DEF Ioctl, devVars, cbVars, readVars, hisVars, FlagTokens, TypeOK, SoleReader, CbPc
<1>20. ASSUME NEW r \in Readers, NEW n \in ReadLens, ReadCall(r, n) PROVE FlagTokens'
  BY <1>20 DEF ReadCall, devVars, cbVars, readVars, hisVars, FlagTokens, TypeOK, SoleReader, CbPc
<1>21. CASE UNCHANGED vars
  BY <1>21 DEF vars, devVars, cbVars, readVars, hisVars, FlagTokens, TypeOK, SoleReader, CbPc
<1> QED
  BY <1>1, <1>2, <1>3, <1>4, <1>5, <1>6, <1>7, <1>8, <1>9, <1>10, <1>11, <1>12, <1>13, <1>14, <1>15, <1>16, <1>17, <1>18, <1>19, <1>20, <1>21 DEF Next, CbNext, ReadNext

\* The last byte accepted is one of the message just pushed.
LEMMA PushAccepts ==
  ASSUME TypeOK, InProgressLens, CbPush
  PROVE  Accepted' = sent
<1> DEFINE f == FrameBytes(sent, cb_len)
<1>1. sent \in Nat /\ cb_len \in Nat \ {0} /\ stream \in Seq(Byte)
  BY RxAssumption DEF TypeOK, InProgressLens, CbPush
<1>2. f \in Seq(Byte) /\ Len(f) = LenIn(cb_len) /\ Len(f) \in Nat \ {0}
  <2>1. f \in Seq(Byte) /\ Len(f) = LenIn(cb_len)
    BY <1>1, FrameBytesSeq
  <2>2. LenIn(cb_len) \in Nat /\ LenIn(cb_len) > 0
    BY <1>1, LenInPositive, LenInNat
  <2> QED
    BY <2>1, <2>2
<1>3. stream' = stream \o f
  BY DEF CbPush
<1>4. f[Len(f)][1] = sent
  <2>1. \A m \in Nat \ {0} : [i \in 1 .. m |-> <<sent, i>>][m] = <<sent, m>>
    OBVIOUS
  <2>2. LenIn(cb_len) \in Nat \ {0} /\ f[Len(f)] = f[LenIn(cb_len)]
    BY <1>2, Zenon
  <2>3. f[LenIn(cb_len)] = <<sent, LenIn(cb_len)>>
    BY <2>1, <2>2 DEF FrameBytes
  <2> QED
    BY <2>2, <2>3
<1> HIDE DEF f
<1>5. Len(stream \o f) = Len(stream) + Len(f) /\ Len(stream) \in Nat
  BY <1>1, <1>2, ConcatProperties, LenProperties
<1>6. (stream \o f)[Len(stream) + Len(f)] = f[Len(f)]
  BY <1>1, <1>2, <1>5
<1>7. stream \o f # <<>>
  BY <1>2, <1>5
<1> QED
  BY <1>3, <1>4, <1>5, <1>6, <1>7 DEF Accepted

\* Messages are pushed in the order of their numbers.
LEMMA OrderStep == IInv /\ [Next]_vars => InOrder'
<1> SUFFICES ASSUME IInv, [Next]_vars PROVE InOrder'
  OBVIOUS
<1>0. TypeOK /\ InProgressLens /\ InOrder
  BY DEF IInv
<1>1. sent \in Nat
  BY <1>0, RxAssumption DEF TypeOK
<1>2. CASE CbPush
  BY <1>0, <1>1, <1>2, PushAccepts DEF CbPush, InOrder
<1>3. CASE stream' = stream
  <2>1. Accepted' = Accepted
    BY <1>3 DEF Accepted
  <2>2. Accepted \in Int
    BY <1>0, <1>1, LenProperties, ElementOfSeq, EmptySeq DEF TypeOK, Accepted, Byte
  <2>3. /\ sent' \in {sent, sent + 1}
        /\ cb' \in {"lock", "push"} => (cb \in {"lock", "push"} /\ sent' = sent) \/ sent' = sent + 1
    BY Zenon DEF Next, CbNext, ReadNext, vars, devVars, cbVars, readVars, hisVars,
           CbShutdown, CbEnter, CbLock, CbDrop, CbPush, CbFlag, CbWake,
           ReadCall, ReadLock, ReadHasData, ReadAgain, ReadBlock, ReadWoken,
           ReadSleep, ReadSignal, ReadRelock, ReadReset, ReadCopy, ReadFault,
           ReadReturn, Ioctl
  <2> QED
    BY <1>0, <1>1, <2>1, <2>2, <2>3 DEF InOrder
<1> QED
  BY <1>2, <1>3, StreamSteps DEF ReadCopy, ReadFault, ReadReturn

\* Every step keeps the invariant.
LEMMA NextIInv == IInv /\ [Next]_vars => IInv'
BY TypeStep, LockStep, LensStep, StreamStep, KnownStep, WakeStep, TokenStep, OrderStep
   DEF IInv

\* The inductive invariant holds in every reachable state.
THEOREM Invariance == Spec => []IInv
BY InitIInv, NextIInv, PTL DEF Spec

(***************************************************************************)
(* Type correctness of the receive path; in particular the kfifo never     *)
(* exceeds its size.                                                       *)
(***************************************************************************)
THEOREM TypeCorrect == Spec => []TypeOK
<1>1. IInv => TypeOK
  BY DEF IInv
<1> QED
  BY <1>1, Invariance, PTL

(***************************************************************************)
(* The mutex is held exactly inside the critical sections of the callback  *)
(* and of rpmsg_dev_read.                                                  *)
(***************************************************************************)
THEOREM LockDiscipline == Spec => []LockOwner
<1>1. IInv => LockOwner
  BY DEF IInv
<1> QED
  BY <1>1, Invariance, PTL

(***************************************************************************)
(* User space receives the accepted messages whole, once and in order, for *)
(* any number of readers.                                                  *)
(***************************************************************************)
THEOREM StreamIntegrity == Spec => []KfifoIsStream
<1>1. IInv => KfifoIsStream
  BY DEF IInv
<1> QED
  BY <1>1, Invariance, PTL

(***************************************************************************)
(* With one reader, or with reads of the whole kfifo, no reader sleeps     *)
(* beside data that nobody will announce.                                  *)
(***************************************************************************)
THEOREM WakeupNotLost == Spec => []NoLostWakeup
<1>1. IInv => NoLostWakeup
  BY DEF IInv, WakePending, NoLostWakeup
<1> QED
  BY <1>1, Invariance, PTL

(***************************************************************************)
(* The size the ioctl reported to the only reader can be read.             *)
(***************************************************************************)
THEOREM IoctlReliable == Spec => []KnownIsThere
<1>1. IInv => KnownIsThere
  BY DEF IInv
<1> QED
  BY <1>1, Invariance, PTL

(***************************************************************************)
(* With one reader, at most one empty blocking read per accepted message.  *)
(***************************************************************************)
THEOREM SpuriousPaidFor == Spec => []SpuriousBounded
<1>1. IInv => SpuriousBounded
  BY DEF IInv, FlagTokens, SpuriousBounded, TypeOK
<1> QED
  BY <1>1, Invariance, PTL

\* Each step of the receive path is a step of the byte stream or none.
LEMMA StepSimulates == IInv /\ [Next]_vars => [Stream!StreamNext]_(Stream!streamVars)
<1> SUFFICES ASSUME IInv, [Next]_vars PROVE [Stream!StreamNext]_(Stream!streamVars)
  OBVIOUS
<1>0. TypeOK /\ InProgressLens /\ InOrder
  BY DEF IInv
<1>1. CASE CbPush
  <2> DEFINE f == FrameBytes(sent, cb_len)
  <2>1. sent \in 1 .. MaxSent /\ sent > Accepted
    <3>1. sent \in 0 .. MaxSent /\ sent > Accepted
      BY <1>0, <1>1 DEF TypeOK, InOrder, CbPush
    <3>2. Accepted \in Nat
      BY <1>0, LenProperties, ElementOfSeq, EmptySeq DEF TypeOK, Accepted, Byte
    <3> QED
      BY <3>1, <3>2, RxAssumption
  <2>2. cb_len \in MsgLens /\ cb_len \in Nat /\ LenIn(cb_len) \in Nat /\ sent \in Nat
    <3>1. cb_len \in MsgLens /\ cb_len \in Nat
      BY <1>0, <1>1, RxAssumption, Zenon DEF InProgressLens, CbPush
    <3>2. LenIn(cb_len) \in Nat
      BY <3>1, LenInNat, Zenon
    <3> QED
      BY <2>1, <3>1, <3>2, RxAssumption
  <2>3. f \in Seq(Byte) /\ Len(f) = LenIn(cb_len)
    BY <2>2, FrameBytesSeq, Zenon
  <2>4. rpmsg_kfifo' = KfifoIn(f) /\ delivered' = delivered /\ ~ (KfifoAvail < LenIn(cb_len))
    BY <1>1 DEF CbPush
  <2>5. rpmsg_kfifo' = rpmsg_kfifo \o [i \in 1 .. LenIn(cb_len) |-> <<sent, i>>]
    <3>1. f = [i \in 1 .. LenIn(cb_len) |-> <<sent, i>>]
      BY DEF FrameBytes
    <3> HIDE DEF f
    <3>2. KfifoIn(f) = rpmsg_kfifo \o f
      BY <1>0, <2>3, <2>4, KfifoInWhole DEF TypeOK
    <3> QED
      BY <2>4, <3>1, <3>2, Zenon
  <2>6. Len(rpmsg_kfifo) + LenIn(cb_len) <= KfifoSize
    BY <1>0, <2>2, <2>4, RxAssumption, LenProperties DEF KfifoAvail, TypeOK
  <2>7. Accepted' = sent
    BY <1>0, <1>1, PushAccepts
  <2>8. Stream!Put(sent, LenIn(cb_len))
    BY <2>1, <2>4, <2>5, <2>6, <2>7 DEF Stream!Put
  <2> QED
    BY <2>1, <2>2, <2>8 DEF Stream!StreamNext
<1>2. ASSUME NEW r \in Readers, ReadCopy(r) \/ ReadFault(r)
      PROVE  [Stream!StreamNext]_(Stream!streamVars)
  <2>1. PICK n \in 0 .. Len(rpmsg_kfifo), v \in Nat \cup {EFAULT} : ReadReturn(r, n, v)
    BY <1>0, <1>2, ReadReturns
  <2>2. Accepted' = Accepted
    BY <2>1 DEF ReadReturn, Accepted
  <2>3. Stream!Take(n)
    BY <2>1, <2>2 DEF Stream!Take, ReadReturn, KfifoFront, KfifoRest
  <2>4. CASE n = 0
    <3>1. rpmsg_kfifo \in Seq(Byte) /\ delivered \in Seq(Byte)
      BY <1>0 DEF TypeOK
    <3>2. SubSeq(rpmsg_kfifo, 1, 0) = <<>> /\ SubSeq(rpmsg_kfifo, 1, Len(rpmsg_kfifo)) = rpmsg_kfifo
      <4>1. SubSeq(rpmsg_kfifo, 1, 0) = <<>>
        BY SubSeqEmpty, 0 < 1
      <4> QED
        BY <3>1, <4>1, SubSeqFull, Zenon
    <3>3. delivered \o <<>> = delivered
      BY <3>1, ConcatEmptySeq
    <3>4. rpmsg_kfifo' = rpmsg_kfifo /\ delivered' = delivered
      BY <2>1, <2>4, <3>2, <3>3, 0 + 1 = 1, Zenon DEF ReadReturn, KfifoFront, KfifoRest
    <3> QED
      BY <2>2, <3>4 DEF Stream!streamVars
  <2>5. CASE n # 0
    <3>1. n \in 1 .. Len(rpmsg_kfifo)
      BY <1>0, <2>5, LenProperties DEF TypeOK
    <3> QED
      BY <2>3, <3>1 DEF Stream!StreamNext
  <2> QED
    BY <2>4, <2>5
<1>3. CASE UNCHANGED <<rpmsg_kfifo, stream, delivered>>
  BY <1>3 DEF Stream!streamVars, Accepted
<1> QED
  BY <1>1, <1>2, <1>3, StreamSteps

(***************************************************************************)
(* The receive path implements the byte stream, for any number of readers  *)
(* and any sizes.                                                          *)
(***************************************************************************)
THEOREM StreamImplemented == Spec => ImplementsStream
<1>1. Init => Stream!StreamInit
  BY DEF Init, Stream!StreamInit, Accepted
<1> QED
  BY <1>1, StepSimulates, Invariance, PTL DEF Spec, ImplementsStream, Stream!StreamSpec

-----------------------------------------------------------------------------
(***************************************************************************)
(* The transmit path.                                                      *)
(***************************************************************************)
Message == [id : CallId, data : Seq(CallId), meddled : SUBSET CallId]

\* The size of a call fits the buffer.
LEMMA ClampRange ==
  ASSUME NEW n \in WriteLens
  PROVE  Clamp(n) \in 0 .. BuffSize
BY TxAssumption DEF Clamp

\* The message a call sends: a prefix of the buffer.
LEMMA SentPrefix ==
  ASSUME TxTypeOK, NEW w \in Writers
  PROVE  LET d == SubSeq(tx_buff, 1, size[w])
         IN  /\ d \in Seq(CallId) /\ Len(d) = size[w]
             /\ \A i \in 1 .. size[w] : d[i] = tx_buff[i]
<1>1. size[w] \in 0 .. BuffSize /\ BuffSize \in Nat /\ tx_buff \in [Buff -> CallId]
  BY TxAssumption DEF TxTypeOK
<1>2. \A i \in 1 .. size[w] : tx_buff[i] \in CallId
  BY <1>1 DEF Buff
<1>3. /\ SubSeq(tx_buff, 1, size[w]) \in Seq(CallId)
      /\ Len(SubSeq(tx_buff, 1, size[w])) = IF 1 <= size[w] THEN size[w] - 1 + 1 ELSE 0
      /\ \A i \in 1 .. size[w] - 1 + 1 : SubSeq(tx_buff, 1, size[w])[i] = tx_buff[1 + i - 1]
  BY <1>1, <1>2, SubSeqProperties
<1> QED
  BY <1>1, <1>3

\* The invariant holds for a new device.
LEMMA InitTxInv == TxInit => TxInv
<1> SUFFICES ASSUME TxInit PROVE TxInv
  OBVIOUS
<1>1. wire \in Seq(Message) /\ Len(wire) = 0
  BY DEF TxInit
<1>2. TxTypeOK
  BY <1>1, TxAssumption DEF TxInit, TxTypeOK, Message, CallId, Buff
<1>3. Filled /\ NothingYet /\ ReturnIsTruth
  BY DEF TxInit, Filled, NothingYet, ReturnIsTruth
<1>4. MessageIsOfItsCalls
  BY <1>1 DEF MessageIsOfItsCalls
<1> QED
  BY <1>2, <1>3, <1>4 DEF TxInv

\* The bytes that other calls put in the buffer are those of calls.
LEMMA MeddleType ==
  ASSUME TxTypeOK, NEW w \in Writers, NEW byte \in CallId, Meddle(w, byte)
  PROVE  meddled' \in [Writers -> SUBSET CallId]
BY DEF TxTypeOK, Meddle

\* Type correctness is kept by every step.
LEMMA TxTypeStep == TxInv /\ [TxNext]_txVars => TxTypeOK'
<1> SUFFICES ASSUME TxInv, [TxNext]_txVars PROVE TxTypeOK'
  OBVIOUS
<1>0. TxTypeOK /\ Filled /\ MessageIsOfItsCalls /\ NothingYet /\ ReturnIsTruth
  BY DEF TxInv
<1>1. ASSUME NEW w \in Writers, NEW n \in WriteLens, WriteCall(w, n) PROVE TxTypeOK'
  <2>1. Clamp(n) \in 0 .. BuffSize
    BY ClampRange
  <2>2. calls + 1 \in CallId /\ calls' \in CallId
    BY <1>0, <1>1, TxAssumption DEF WriteCall, TxTypeOK, CallId
  <2> QED
    BY <1>0, <1>1, <2>1, <2>2, TxAssumption DEF WriteCall, TxTypeOK
<1>2. ASSUME NEW w \in Writers, WriteCopy(w) PROVE TxTypeOK'
  <2>1. tx_buff' \in [Buff -> CallId]
    BY <1>0, <1>2, Zenon DEF WriteCopy, TxTypeOK
  <2>2. copied[w] + 1 \in 0 .. BuffSize /\ copied[w] + 1 <= size[w]
    BY <1>0, <1>2, TxAssumption DEF WriteCopy, TxTypeOK
  <2>3. copied' \in [Writers -> 0 .. BuffSize] /\ \A v \in Writers : copied'[v] <= size[v]
    BY <1>0, <1>2, <2>2 DEF WriteCopy, TxTypeOK
  <2>4. meddled' \in [Writers -> SUBSET CallId]
    BY <1>0, <1>2, MeddleType DEF WriteCopy, TxTypeOK
  <2> QED
    BY <1>0, <1>2, <2>1, <2>3, <2>4 DEF WriteCopy, TxTypeOK
<1>3. ASSUME NEW w \in Writers, WriteFault(w) PROVE TxTypeOK'
  <2>1. -1 \in -1 .. BuffSize /\ 0 \in CallId
    BY TxAssumption DEF CallId
  <2>2. wret' \in [Writers -> -1 .. BuffSize] /\ tx_buff' \in [Buff -> CallId]
    BY <1>0, <1>3, <2>1 DEF WriteFault, Return, TxTypeOK
  <2>3. meddled' \in [Writers -> SUBSET CallId]
    BY <1>0, <1>3, <2>1, MeddleType DEF WriteFault
  <2> QED
    BY <1>0, <1>3, <2>2, <2>3 DEF WriteFault, Return, TxTypeOK
<1>4. ASSUME NEW w \in Writers, WriteSendFails(w) PROVE TxTypeOK'
  BY <1>0, <1>4, TxAssumption DEF WriteSendFails, Return, TxTypeOK, CallId, Buff
<1>5. ASSUME NEW w \in Writers, WriteSend(w) PROVE TxTypeOK'
  <2>1. SubSeq(tx_buff, 1, size[w]) \in Seq(CallId)
    BY <1>0, SentPrefix
  <2>2. wire' \in Seq(Message)
    <3>1. Sent(w) \in Message
      BY <1>0, <2>1, Zenon DEF TxTypeOK, Sent, Message
    <3> QED
      BY <1>0, <1>5, <3>1, AppendProperties, Zenon DEF WriteSend, TxTypeOK, Message
  <2>3. size[w] \in -1 .. BuffSize /\ size[w] \in 0 .. BuffSize
    BY <1>0, TxAssumption DEF TxTypeOK
  <2> QED
    BY <1>0, <1>5, <2>2, <2>3 DEF WriteSend, Return, TxTypeOK, Message
<1>6. CASE UNCHANGED txVars
  BY <1>0, <1>6, TxAssumption DEF txVars, TxTypeOK, CallId, Buff
<1> QED
  BY <1>1, <1>2, <1>3, <1>4, <1>5, <1>6 DEF TxNext, WriteNext, Done

\* Where a writer has copied, only calls that meet it change the buffer.
LEMMA FilledStep == TxInv /\ [TxNext]_txVars => Filled'
<1> SUFFICES ASSUME TxInv, [TxNext]_txVars PROVE Filled'
  OBVIOUS
<1>0. TxTypeOK /\ Filled /\ MessageIsOfItsCalls /\ NothingYet /\ ReturnIsTruth
  BY DEF TxInv
<1>1. ASSUME NEW w \in Writers, NEW n \in WriteLens, WriteCall(w, n) PROVE Filled'
  BY <1>0, <1>1, TxAssumption DEF WriteCall, Filled, TxTypeOK, Buff
<1>2. ASSUME NEW w \in Writers, WriteCopy(w) PROVE Filled'
  BY <1>0, <1>2, TxAssumption DEF WriteCopy, Meddle, Filled, TxTypeOK, Buff
<1>3. ASSUME NEW w \in Writers, WriteFault(w) PROVE Filled'
  BY <1>0, <1>3, TxAssumption DEF WriteFault, Return, Meddle, Filled, TxTypeOK, Buff
<1>4. ASSUME NEW w \in Writers, WriteSendFails(w) PROVE Filled'
  BY <1>0, <1>4, TxAssumption DEF WriteSendFails, Return, Filled, TxTypeOK, Buff
<1>5. ASSUME NEW w \in Writers, WriteSend(w) PROVE Filled'
  BY <1>0, <1>5, TxAssumption DEF WriteSend, Return, Filled, TxTypeOK, Buff
<1>6. CASE UNCHANGED txVars
  BY <1>0, <1>6, TxAssumption DEF txVars, Filled, TxTypeOK, Buff
<1> QED
  BY <1>1, <1>2, <1>3, <1>4, <1>5, <1>6 DEF TxNext, WriteNext, Done

\* What is sent for a call is of that call or of one that met it.
LEMMA PureStep == TxInv /\ [TxNext]_txVars => MessageIsOfItsCalls'
<1> SUFFICES ASSUME TxInv, [TxNext]_txVars PROVE MessageIsOfItsCalls'
  OBVIOUS
<1>0. TxTypeOK /\ Filled /\ MessageIsOfItsCalls /\ NothingYet /\ ReturnIsTruth
  BY DEF TxInv
<1>1. ASSUME NEW w \in Writers, NEW n \in WriteLens, WriteCall(w, n) PROVE MessageIsOfItsCalls'
  BY <1>0, <1>1, Zenon DEF WriteCall, MessageIsOfItsCalls, OfItsCalls
<1>2. ASSUME NEW w \in Writers, WriteCopy(w) PROVE MessageIsOfItsCalls'
  BY <1>0, <1>2, Zenon DEF WriteCopy, Return, MessageIsOfItsCalls, OfItsCalls
<1>3. ASSUME NEW w \in Writers, WriteFault(w) PROVE MessageIsOfItsCalls'
  BY <1>0, <1>3 DEF WriteFault, Return, MessageIsOfItsCalls, OfItsCalls
<1>4. ASSUME NEW w \in Writers, WriteSendFails(w) PROVE MessageIsOfItsCalls'
  BY <1>0, <1>4, Zenon DEF WriteSendFails, Return, MessageIsOfItsCalls, OfItsCalls
<1>5. ASSUME NEW w \in Writers, WriteSend(w) PROVE MessageIsOfItsCalls'
  <2> DEFINE msg == Sent(w)
  <2> SUFFICES ASSUME NEW k \in 1 .. Len(wire') PROVE OfItsCalls(wire'[k])
    BY DEF MessageIsOfItsCalls, OfItsCalls
  <2>1. OfItsCalls(msg)
    <3>1. \A i \in 1 .. size[w] : tx_buff[i] \in {id[w]} \cup meddled[w]
      BY <1>0, <1>5 DEF WriteSend, Filled
    <3>2. Len(msg.data) = size[w] /\ \A i \in 1 .. size[w] : msg.data[i] = tx_buff[i]
      BY <1>0, SentPrefix DEF Sent
    <3>3. msg.id = id[w] /\ msg.meddled = meddled[w]
      BY DEF Sent
    <3> QED
      BY <3>1, <3>2, <3>3, Zenon DEF OfItsCalls
  <2>2. wire \in Seq(Message) /\ msg \in Message /\ wire' = Append(wire, msg)
    <3>1. SubSeq(tx_buff, 1, size[w]) \in Seq(CallId)
      BY <1>0, SentPrefix
    <3> QED
      BY <1>0, <1>5, <3>1, Zenon DEF WriteSend, Sent, TxTypeOK, Message
  <2> HIDE DEF msg
  <2>3. CASE k \in 1 .. Len(wire)
    <3>1. wire'[k] = wire[k]
      BY <2>2, <2>3, AppendProperties
    <3>2. OfItsCalls(wire[k])
      BY <1>0, <2>3, Zenon DEF MessageIsOfItsCalls
    <3> QED
      BY <3>1, <3>2, Zenon
  <2>4. CASE k = Len(wire) + 1
    <3>1. wire'[k] = msg
      BY <2>2, <2>4, AppendProperties
    <3> QED
      BY <2>1, <3>1, Zenon
  <2> QED
    <3>1. Len(wire') = Len(wire) + 1 /\ Len(wire) \in Nat
      BY <2>2, AppendProperties, LenProperties
    <3> QED
      BY <2>3, <2>4, <3>1
<1>6. CASE UNCHANGED txVars
  BY <1>0, <1>6 DEF txVars, MessageIsOfItsCalls, OfItsCalls
<1> QED
  BY <1>1, <1>2, <1>3, <1>4, <1>5, <1>6 DEF TxNext, WriteNext, Done

\* The result of a call stays what it put on the wire.
LEMMA TruthStep == TxInv /\ [TxNext]_txVars => (NothingYet /\ ReturnIsTruth)'
<1> SUFFICES ASSUME TxInv, [TxNext]_txVars PROVE (NothingYet /\ ReturnIsTruth)'
  OBVIOUS
<1>0. TxTypeOK /\ Filled /\ MessageIsOfItsCalls /\ NothingYet /\ ReturnIsTruth
  BY DEF TxInv
<1>1. ASSUME NEW w \in Writers, NEW n \in WriteLens, WriteCall(w, n) PROVE (NothingYet /\ ReturnIsTruth)'
  BY <1>0, <1>1, TxAssumption, Zenon DEF WriteCall, NothingYet, ReturnIsTruth, TxTypeOK
<1>2. ASSUME NEW w \in Writers, WriteCopy(w) PROVE (NothingYet /\ ReturnIsTruth)'
  BY <1>0, <1>2, TxAssumption DEF WriteCopy, Return, NothingYet, ReturnIsTruth, TxTypeOK
<1>3. ASSUME NEW w \in Writers, WriteFault(w) PROVE (NothingYet /\ ReturnIsTruth)'
  BY <1>0, <1>3, TxAssumption DEF WriteFault, Return, NothingYet, ReturnIsTruth, TxTypeOK
<1>4. ASSUME NEW w \in Writers, WriteSendFails(w) PROVE (NothingYet /\ ReturnIsTruth)'
  BY <1>0, <1>4, TxAssumption DEF WriteSendFails, Return, NothingYet, ReturnIsTruth, TxTypeOK
<1>5. ASSUME NEW w \in Writers, WriteSend(w) PROVE (NothingYet /\ ReturnIsTruth)'
  BY <1>0, <1>5, TxAssumption DEF WriteSend, Return, NothingYet, ReturnIsTruth, TxTypeOK
<1>6. CASE UNCHANGED txVars
  BY <1>0, <1>6, TxAssumption DEF txVars, NothingYet, ReturnIsTruth, TxTypeOK
<1> QED
  BY <1>1, <1>2, <1>3, <1>4, <1>5, <1>6 DEF TxNext, WriteNext, Done

\* Every step keeps the invariant.
LEMMA NextTxInv == TxInv /\ [TxNext]_txVars => TxInv'
BY TxTypeStep, FilledStep, PureStep, TruthStep DEF TxInv

\* The inductive invariant of the transmit path holds in every reachable state.
THEOREM TxInvariance == TxSpec => []TxInv
BY InitTxInv, NextTxInv, PTL DEF TxSpec

(***************************************************************************)
(* For any number of writers, every byte of a message handed to the bus is *)
(* of the call it is sent for or of a call in progress at the same time.   *)
(***************************************************************************)
THEOREM MessagesOfCalls == TxSpec => []MessageIsOfItsCalls
<1>1. TxInv => MessageIsOfItsCalls
  BY DEF TxInv
<1> QED
  BY <1>1, TxInvariance, PTL

(***************************************************************************)
(* For any number of writers, the result of write(2) is the number of      *)
(* bytes that call put on the wire.                                        *)
(***************************************************************************)
THEOREM WriteTellsTruth == TxSpec => []ReturnIsTruth
<1>1. TxInv => ReturnIsTruth
  BY DEF TxInv
<1> QED
  BY <1>1, TxInvariance, PTL
=============================================================================
