----------------------------- MODULE RpmsgDevRx -----------------------------
(***************************************************************************)
(* The receive path of the rpmsg character device: the rpmsg callback puts *)
(* each message of the remote processor into a kfifo, and read(2) takes    *)
(* bytes out of it, blocking while it is empty.                            *)
(*                                                                         *)
(* kernel/drivers/rpmsg_user_dev_driver.c and rpmsg_proxy_dev_driver.c     *)
(* have the same rpmsg_dev_read, rpmsg_dev_ioctl and callback body; the    *)
(* line numbers given in the comments are those of the user driver.        *)
(*                                                                         *)
(* A byte is <<k, i>>: byte i of the k-th message that arrived.  Bytes     *)
(* beyond the message's length are the padding the callback adds.          *)
(***************************************************************************)
EXTENDS Integers, Sequences

CONSTANTS
  Readers,       \* tasks that read the device, one open file each
  Nonblock,      \* the readers whose file may have O_NONBLOCK,
  Blocking,      \* and those whose file may lack it: F_SETFL changes it
  Cb, Free,      \* owners of sync_lock other than a reader
  KfifoSize,     \* RPMSG_KFIFO_SIZE, 2048
  Align,         \* a message is padded to a multiple of this, 8
  MsgLens,       \* lengths of the messages the remote sends
  ReadLens,      \* lengths passed to read(2)
  UserFaults,    \* may copying to a user buffer fail?
  MaxSent        \* bound: number of messages the remote sends

ASSUME RxAssumption ==
  /\ Nonblock \cup Blocking = Readers
  /\ Cb \notin Readers
  /\ Free \notin Readers \cup {Cb}
  /\ KfifoSize \in Nat
  /\ Align \in Nat \ {0}
  /\ MsgLens \subseteq Nat \ {0}
  /\ ReadLens \subseteq Nat
  /\ UserFaults \in BOOLEAN
  /\ MaxSent \in Nat

EAGAIN == -11
EFAULT == -14

VARIABLES
  rpmsg_kfifo,   \* bytes waiting to be read
  block_flag,    \* "there may be data", tested by the wait queue
  sync_lock,     \* owner of the mutex
  cb, cb_len,    \* where the callback is, and the length of its message
  sent,          \* messages that have arrived
  shutdown,      \* has the callback asked user space to shut down?
  rpc,           \* where each reader is in rpmsg_dev_read
  req,           \* the length it asked for
  via,           \* how it left the wait queue
  ret,           \* what its last read returned
  known,         \* data size last reported to it by ioctl, since its last read
  stream,        \* history: every byte the callback meant to enqueue
  delivered,     \* history: every byte copied to user space
  frames,        \* history: messages accepted
  spurious       \* history: reads woken by the flag that found no data

devVars  == <<rpmsg_kfifo, block_flag, sync_lock>>
cbVars   == <<cb, cb_len, sent, shutdown>>
readVars == <<rpc, req, via, ret, known>>
hisVars  == <<stream, delivered, frames, spurious>>
vars     == <<devVars, cbVars, readVars, hisVars>>

Byte == Nat \X Nat

(***************************************************************************)
(* Helpers.                                                                *)
(***************************************************************************)
MinOf(a, b) == IF a <= b THEN a ELSE b

\* len_in: the length rounded up to a multiple of Align (lines 201-203).
LenIn(n) == IF n % Align # 0 THEN ((n \div Align) + 1) * Align ELSE n

\* The bytes enqueued for message k of length n.
FrameBytes(k, n) == [i \in 1 .. LenIn(n) |-> <<k, i>>]

\* kfifo_avail, kfifo_in and kfifo_to_user of the kernel: kfifo_in stores
\* what fits.
KfifoAvail      == KfifoSize - Len(rpmsg_kfifo)
KfifoIn(buf)    == rpmsg_kfifo \o SubSeq(buf, 1, MinOf(Len(buf), KfifoAvail))
KfifoFront(n)   == SubSeq(rpmsg_kfifo, 1, n)
KfifoRest(n)    == SubSeq(rpmsg_kfifo, n + 1, Len(rpmsg_kfifo))

Init ==
  /\ rpmsg_kfifo = <<>> /\ block_flag = 0 /\ sync_lock = Free
  /\ cb = "idle" /\ cb_len = 0 /\ sent = 0 /\ shutdown = FALSE
  /\ rpc = [r \in Readers |-> "idle"]
  /\ req = [r \in Readers |-> 0]
  /\ via = [r \in Readers |-> "none"]
  /\ ret = [r \in Readers |-> 0]
  /\ known = [r \in Readers |-> 0]
  /\ stream = <<>> /\ delivered = <<>> /\ frames = 0 /\ spurious = 0

-----------------------------------------------------------------------------
(***************************************************************************)
(* The callback.  The rpmsg bus delivers messages one at a time.           *)
(***************************************************************************)

\* A message whose first word is SHUTDOWN_MSG only starts /sbin/shutdown.
CbShutdown ==
  /\ cb = "idle" /\ sent < MaxSent
  /\ sent' = sent + 1
  /\ shutdown' = TRUE
  /\ UNCHANGED <<cb, cb_len, devVars, readVars, hisVars>>

CbEnter(n) ==
  /\ cb = "idle" /\ sent < MaxSent
  /\ sent' = sent + 1
  /\ cb' = "lock" /\ cb_len' = n
  /\ UNCHANGED <<shutdown, devVars, readVars, hisVars>>

CbLock ==
  /\ cb = "lock" /\ sync_lock = Free
  /\ sync_lock' = Cb
  /\ cb' = "push"
  /\ UNCHANGED <<rpmsg_kfifo, block_flag, cb_len, sent, shutdown, readVars, hisVars>>

\* Not enough room: the message is dropped.
CbDrop ==
  /\ cb = "push" /\ KfifoAvail < LenIn(cb_len)
  /\ sync_lock' = Free
  /\ cb' = "idle"
  /\ UNCHANGED <<rpmsg_kfifo, block_flag, cb_len, sent, shutdown, readVars, hisVars>>

\* Mutant: the room is compared with the unpadded length.
CbPushMut_Len ==
  /\ cb = "push" /\ ~ (KfifoAvail < cb_len)
  /\ rpmsg_kfifo' = KfifoIn(FrameBytes(sent, cb_len))
  /\ stream' = stream \o FrameBytes(sent, cb_len)
  /\ frames' = frames + 1
  /\ sync_lock' = Free
  /\ cb' = "flag"
  /\ UNCHANGED <<block_flag, cb_len, sent, shutdown, readVars, delivered, spurious>>

\* kfifo_in, then the mutex is released before the flag is set.
CbPush ==
  /\ cb = "push" /\ ~ (KfifoAvail < LenIn(cb_len))
  /\ rpmsg_kfifo' = KfifoIn(FrameBytes(sent, cb_len))
  /\ stream' = stream \o FrameBytes(sent, cb_len)
  /\ frames' = frames + 1
  /\ sync_lock' = Free
  /\ cb' = "flag"
  /\ UNCHANGED <<block_flag, cb_len, sent, shutdown, readVars, delivered, spurious>>

CbFlag ==
  /\ cb = "flag"
  /\ block_flag' = 1
  /\ cb' = "wake"
  /\ UNCHANGED <<rpmsg_kfifo, sync_lock, cb_len, sent, shutdown, readVars, hisVars>>

\* Mutant: nobody is woken.
CbWakeMut_None ==
  /\ cb = "wake"
  /\ cb' = "idle"
  /\ UNCHANGED <<cb_len, sent, shutdown, readVars, devVars, hisVars>>

\* wake_up_interruptible: every sleeper tests its condition again.
CbWake ==
  /\ cb = "wake"
  /\ rpc' = [r \in Readers |-> IF rpc[r] = "asleep" THEN "wait" ELSE rpc[r]]
  /\ cb' = "idle"
  /\ UNCHANGED <<cb_len, sent, shutdown, req, via, ret, known, devVars, hisVars>>

-----------------------------------------------------------------------------
(***************************************************************************)
(* read(2).                                                                *)
(***************************************************************************)
ReadCall(r, n) ==
  /\ rpc[r] = "idle"
  /\ rpc' = [rpc EXCEPT ![r] = "lock"]
  /\ req' = [req EXCEPT ![r] = n]
  /\ via' = [via EXCEPT ![r] = "none"]
  /\ UNCHANGED <<ret, known, devVars, cbVars, hisVars>>

\* while (mutex_lock_interruptible(...)): retried until it is taken.
ReadLock(r) ==
  /\ rpc[r] = "lock" /\ sync_lock = Free
  /\ sync_lock' = r
  /\ rpc' = [rpc EXCEPT ![r] = "test"]
  /\ UNCHANGED <<rpmsg_kfifo, block_flag, req, via, ret, known, cbVars, hisVars>>

ReadHasData(r) ==
  /\ rpc[r] = "test" /\ Len(rpmsg_kfifo) # 0
  /\ rpc' = [rpc EXCEPT ![r] = "reset"]
  /\ UNCHANGED <<req, via, ret, known, devVars, cbVars, hisVars>>

ReadAgain(r) ==
  /\ rpc[r] = "test" /\ Len(rpmsg_kfifo) = 0 /\ r \in Nonblock
  /\ sync_lock' = Free
  /\ rpc' = [rpc EXCEPT ![r] = "idle"]
  /\ ret' = [ret EXCEPT ![r] = EAGAIN]
  /\ UNCHANGED <<rpmsg_kfifo, block_flag, req, via, known, cbVars, hisVars>>

ReadBlock(r) ==
  /\ rpc[r] = "test" /\ Len(rpmsg_kfifo) = 0 /\ r \in Blocking
  /\ sync_lock' = Free
  /\ rpc' = [rpc EXCEPT ![r] = "wait"]
  /\ UNCHANGED <<rpmsg_kfifo, block_flag, req, via, ret, known, cbVars, hisVars>>

\* wait_event_interruptible tests the flag once it is on the wait queue, so
\* that no wake-up falls between the test and the sleep.
ReadWoken(r) ==
  /\ rpc[r] = "wait" /\ block_flag # 0
  /\ rpc' = [rpc EXCEPT ![r] = "relock"]
  /\ via' = [via EXCEPT ![r] = "flag"]
  /\ UNCHANGED <<req, ret, known, devVars, cbVars, hisVars>>

\* Mutant: the reader goes to sleep without testing the flag.
ReadSleepMut_NoTest(r) ==
  /\ rpc[r] = "wait"
  /\ rpc' = [rpc EXCEPT ![r] = "asleep"]
  /\ UNCHANGED <<req, via, ret, known, devVars, cbVars, hisVars>>

ReadSleep(r) ==
  /\ rpc[r] = "wait" /\ block_flag = 0
  /\ rpc' = [rpc EXCEPT ![r] = "asleep"]
  /\ UNCHANGED <<req, via, ret, known, devVars, cbVars, hisVars>>

\* A signal ends the wait; its return value is ignored and the read goes on.
ReadSignal(r) ==
  /\ rpc[r] = "asleep" \/ (rpc[r] = "wait" /\ block_flag = 0)
  /\ rpc' = [rpc EXCEPT ![r] = "relock"]
  /\ via' = [via EXCEPT ![r] = "signal"]
  /\ UNCHANGED <<req, ret, known, devVars, cbVars, hisVars>>

ReadRelock(r) ==
  /\ rpc[r] = "relock" /\ sync_lock = Free
  /\ sync_lock' = r
  /\ rpc' = [rpc EXCEPT ![r] = "reset"]
  /\ UNCHANGED <<rpmsg_kfifo, block_flag, req, via, ret, known, cbVars, hisVars>>

\* Mutant: the flag is not reset.
ReadResetMut_Keep(r) ==
  /\ rpc[r] = "reset"
  /\ rpc' = [rpc EXCEPT ![r] = "copy"]
  /\ UNCHANGED <<req, via, ret, known, devVars, cbVars, hisVars>>

ReadReset(r) ==
  /\ rpc[r] = "reset"
  /\ block_flag' = 0
  /\ rpc' = [rpc EXCEPT ![r] = "copy"]
  /\ UNCHANGED <<rpmsg_kfifo, sync_lock, req, via, ret, known, cbVars, hisVars>>

\* data_used: what is there, up to what was asked for.
DataUsed(r) == MinOf(req[r], Len(rpmsg_kfifo))

\* Take n bytes out, unlock and return v.
ReadReturn(r, n, v) ==
  /\ rpmsg_kfifo' = KfifoRest(n)
  /\ delivered' = delivered \o KfifoFront(n)
  /\ sync_lock' = Free
  /\ rpc' = [rpc EXCEPT ![r] = "idle"]
  /\ ret' = [ret EXCEPT ![r] = v]
  /\ known' = [known EXCEPT ![r] = 0]
  /\ UNCHANGED <<block_flag, req, via, cbVars, stream, frames>>

\* A read that was let through by the flag, asked for data and found none.
IsSpurious(r) == via[r] = "flag" /\ DataUsed(r) = 0 /\ req[r] # 0

ReadCopy(r) ==
  /\ rpc[r] = "copy"
  /\ ReadReturn(r, DataUsed(r), DataUsed(r))
  /\ spurious' = IF IsSpurious(r) THEN spurious + 1 ELSE spurious

\* kfifo_to_user fails part-way: what was copied has left the kfifo.
ReadFault(r) ==
  /\ rpc[r] = "copy" /\ UserFaults
  /\ \E n \in 0 .. DataUsed(r) - 1 : ReadReturn(r, n, EFAULT)
  /\ UNCHANGED spurious

\* The ioctl reads the kfifo's length (data and free size) without the mutex.
Ioctl(r) ==
  /\ rpc[r] = "idle"
  /\ known' = [known EXCEPT ![r] = Len(rpmsg_kfifo)]
  /\ UNCHANGED <<rpc, req, via, ret, devVars, cbVars, hisVars>>

-----------------------------------------------------------------------------
CbNext ==
  \/ CbShutdown
  \/ \E n \in MsgLens : CbEnter(n)
  \/ CbLock \/ CbDrop \/ CbPush \/ CbFlag \/ CbWake

ReadNext(r) ==
  \/ \E n \in ReadLens : ReadCall(r, n)
  \/ ReadLock(r) \/ ReadHasData(r) \/ ReadAgain(r) \/ ReadBlock(r)
  \/ ReadWoken(r) \/ ReadSleep(r) \/ ReadSignal(r) \/ ReadRelock(r)
  \/ ReadReset(r) \/ ReadCopy(r) \/ ReadFault(r) \/ Ioctl(r)

Next == CbNext \/ \E r \in Readers : ReadNext(r)

Spec == Init /\ [][Next]_vars

(***************************************************************************)
(* A started callback and a started read keep running.  The kernel's mutex *)
(* queues its waiters, hence strong fairness of the two lock steps.        *)
(* Nothing obliges the remote to send, a user to read or a signal to come. *)
(***************************************************************************)
Running(r) ==
  \/ ReadHasData(r) \/ ReadAgain(r) \/ ReadBlock(r) \/ ReadWoken(r)
  \/ ReadSleep(r) \/ ReadReset(r) \/ ReadCopy(r)

Fairness ==
  /\ WF_vars(CbDrop \/ CbPush \/ CbFlag \/ CbWake)
  /\ SF_vars(CbLock)
  /\ \A r \in Readers : WF_vars(Running(r)) /\ SF_vars(ReadLock(r) \/ ReadRelock(r))

FairSpec == Spec /\ Fairness

-----------------------------------------------------------------------------
(***************************************************************************)
(* Properties.                                                             *)
(***************************************************************************)
ReadPc == {"idle", "lock", "test", "wait", "asleep", "relock", "reset", "copy"}
CbPc   == {"idle", "lock", "push", "flag", "wake"}

(***************************************************************************)
(* Type invariant of the device's fields and of the locals of the callback *)
(* and of rpmsg_dev_read: the kfifo never holds more than it was allocated *)
(* for, block_flag is 0 or 1.                                              *)
(***************************************************************************)
TypeOK ==
  /\ rpmsg_kfifo \in Seq(Byte) /\ Len(rpmsg_kfifo) <= KfifoSize
  /\ block_flag \in {0, 1}
  /\ sync_lock \in Readers \cup {Cb, Free}
  /\ cb \in CbPc /\ cb_len \in MsgLens \cup {0} /\ sent \in 0 .. MaxSent
  /\ shutdown \in BOOLEAN
  /\ rpc \in [Readers -> ReadPc]
  /\ req \in [Readers -> ReadLens \cup {0}]
  /\ via \in [Readers -> {"none", "flag", "signal"}]
  /\ ret \in [Readers -> {EAGAIN, EFAULT} \cup Nat]
  /\ known \in [Readers -> Nat]
  /\ stream \in Seq(Byte) /\ delivered \in Seq(Byte)
  /\ frames \in Nat /\ spurious \in Nat

(***************************************************************************)
(* Every exit of the callback and of rpmsg_dev_read releases sync_lock: it *)
(* is held exactly by the context that is between a lock and its unlock.   *)
(***************************************************************************)
LockOwner ==
  /\ sync_lock = Cb <=> cb = "push"
  /\ \A r \in Readers : sync_lock = r <=> rpc[r] \in {"test", "reset", "copy"}

(***************************************************************************)
(* The bytes copied to user space, followed by those in the kfifo, are the *)
(* padded messages the callback accepted, whole and in order of arrival:   *)
(* none is truncated by a full kfifo, none is read twice, whatever the     *)
(* interleaving of the readers and wherever a copy to user space faults.   *)
(***************************************************************************)
KfifoIsStream == stream = delivered \o rpmsg_kfifo

SoleReader == \A r, s \in Readers : r = s
FullReads  == ~ UserFaults /\ \A n \in ReadLens : n >= KfifoSize

InRead(s) == rpc[s] \in {"reset", "copy"}

(***************************************************************************)
(* No lost wake-up: when the device has one reader, or every read asks for *)
(* all the kfifo can hold, a reader is asleep beside a non-empty kfifo     *)
(* only while the callback is still to wake it or a reader is taking the   *)
(* data out (the flag is set outside the mutex, lines 212-216, and reset   *)
(* inside it, line 136).                                                   *)
(***************************************************************************)
NoLostWakeup ==
  SoleReader \/ FullReads =>
    \A r \in Readers : rpc[r] = "asleep" /\ rpmsg_kfifo # <<>> =>
      cb \in {"flag", "wake"} \/ \E s \in Readers : InRead(s)

(***************************************************************************)
(* What the ioctl told the only reader, without taking the mutex, is still *)
(* there when it reads: the callback never takes data away.                *)
(***************************************************************************)
KnownIsThere ==
  SoleReader => \A r \in Readers : known[r] <= Len(rpmsg_kfifo)

(***************************************************************************)
(* The flag may be left set over an empty kfifo, and the next blocking     *)
(* read then returns 0.  With one reader this happens at most once per     *)
(* accepted message: a stale flag is not seen twice.                       *)
(***************************************************************************)
SpuriousBounded == SoleReader => spurious <= frames

(***************************************************************************)
(* "Block the calling context till data becomes available" (line 129): a   *)
(* blocking read that was not interrupted and asked for something returns  *)
(* something.  It does not hold; SpuriousBounded is what is left of it.    *)
(***************************************************************************)
BlockingReadGetsData == spurious = 0

(***************************************************************************)
(* "Wake up any blocking contexts waiting for data" (line 214): a reader   *)
(* that sleeps while there is data does not sleep forever.                 *)
(***************************************************************************)
SleeperServed ==
  \A r \in Readers : (rpc[r] = "asleep" /\ rpmsg_kfifo # <<>>) ~> (rpc[r] # "asleep")

(***************************************************************************)
(* The callback and rpmsg_dev_read implement the byte stream that programs *)
(* rely on: a message enters the kfifo whole, after those sent before it,  *)
(* or not at all, and a read takes bytes from the front, once, also when   *)
(* it faults.                                                              *)
(***************************************************************************)
Accepted == IF stream = <<>> THEN 0 ELSE stream[Len(stream)][1]

Stream == INSTANCE ByteStream WITH
  Capacity <- KfifoSize, Sizes <- {LenIn(n) : n \in MsgLens}, MaxMsg <- MaxSent,
  fifo <- rpmsg_kfifo, out <- delivered, last <- Accepted

ImplementsStream == Stream!StreamSpec

-----------------------------------------------------------------------------
(***************************************************************************)
(* Strengthenings that make the invariants above inductive.                *)
(***************************************************************************)

\* The length of a read or a callback in progress is one of those passed in.
InProgressLens ==
  /\ \A r \in Readers : rpc[r] # "idle" => req[r] \in ReadLens
  /\ cb # "idle" => cb_len \in MsgLens

\* Messages are numbered as they arrive; the one being pushed is new.
InOrder ==
  /\ Accepted <= sent
  /\ cb \in {"lock", "push"} => Accepted < sent

\* A reader on the wait queue beside data has a flag or a wake-up to come.
WakePending ==
  SoleReader \/ FullReads =>
    \A r \in Readers : rpc[r] \in {"wait", "asleep"} /\ rpmsg_kfifo # <<>> =>
      \/ cb = "flag"
      \/ \E s \in Readers : InRead(s)
      \/ block_flag = 1 /\ (rpc[r] = "asleep" => cb = "wake")

\* Each setting of the flag is worth one spurious read, and is used up when
\* the reader it let through resets the flag.
FlagTokens ==
  SoleReader =>
    /\ \A r \in Readers :
         /\ rpc[r] \in {"lock", "test", "wait", "asleep"} => via[r] = "none"
         /\ rpc[r] \in {"relock", "reset"} /\ via[r] = "flag" => block_flag = 1
    /\ spurious + block_flag
         + (IF \E r \in Readers : rpc[r] = "copy" /\ via[r] = "flag" THEN 1 ELSE 0)
         + (IF cb = "flag" THEN 1 ELSE 0) <= frames

(***************************************************************************)
(* The inductive invariant of the receive path: it implies every invariant *)
(* above and is kept by each step of the callback and of rpmsg_dev_read.   *)
(***************************************************************************)
IInv ==
  /\ TypeOK /\ LockOwner /\ InProgressLens
  /\ KfifoIsStream /\ KnownIsThere /\ WakePending /\ FlagTokens /\ InOrder
=============================================================================
