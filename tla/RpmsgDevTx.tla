----------------------------- MODULE RpmsgDevTx -----------------------------
(***************************************************************************)
(* The transmit path of the rpmsg character device: write(2) copies the    *)
(* caller's data into tx_buff, a buffer of the device and not of the call, *)
(* and hands it to the rpmsg bus.  No lock is taken.                       *)
(*                                                                         *)
(* kernel/drivers/rpmsg_user_dev_driver.c and rpmsg_proxy_dev_driver.c     *)
(* have the same rpmsg_dev_write up to the destination address.            *)
(*                                                                         *)
(* The data of the k-th write is a run of bytes k; 0 is a byte of no write.*)
(***************************************************************************)
EXTENDS Integers, Sequences

CONSTANTS
  Writers,     \* tasks that write to the device
  BuffSize,    \* MAX_RPMSG_BUFF_SIZE, the size of tx_buff, 512
  BusLimit,    \* the longest payload the bus takes: its buffer less its header, 496
  WriteLens,   \* lengths passed to write(2)
  MaxWrites    \* bound: number of calls of write(2)

ASSUME TxAssumption ==
  /\ BuffSize \in Nat \ {0}
  /\ BusLimit \in Nat
  /\ WriteLens \subseteq Nat
  /\ MaxWrites \in Nat

VARIABLES
  tx_buff,     \* the device's buffer
  wpc,         \* where each writer is in rpmsg_dev_write
  size,        \* its local of that name
  copied,      \* bytes copy_from_user has copied so far
  id,          \* the number of its call
  wret,        \* what its last call returned
  calls,       \* calls made so far
  wire,        \* the messages handed to the bus
  onWire,      \* history: bytes each writer's last call put on the wire
  meddled      \* history: bytes other calls put in the buffer during each writer's call

txVars == <<tx_buff, wpc, size, copied, id, wret, calls, wire, onWire, meddled>>

Buff   == 1 .. BuffSize
CallId == 0 .. MaxWrites

TxInit ==
  /\ tx_buff = [i \in Buff |-> 0]
  /\ wpc = [w \in Writers |-> "idle"]
  /\ size = [w \in Writers |-> 0]
  /\ copied = [w \in Writers |-> 0]
  /\ id = [w \in Writers |-> 0]
  /\ wret = [w \in Writers |-> 0]
  /\ calls = 0 /\ wire = <<>>
  /\ onWire = [w \in Writers |-> 0]
  /\ meddled = [w \in Writers |-> {}]

\* size: the length asked for, at most that of the buffer.
Clamp(n) == IF n < BuffSize THEN n ELSE BuffSize

WriteCall(w, n) ==
  /\ wpc[w] = "idle" /\ calls < MaxWrites
  /\ calls' = calls + 1
  /\ wpc' = [wpc EXCEPT ![w] = "copy"]
  /\ size' = [size EXCEPT ![w] = Clamp(n)]
  /\ copied' = [copied EXCEPT ![w] = 0]
  /\ id' = [id EXCEPT ![w] = calls + 1]
  /\ onWire' = [onWire EXCEPT ![w] = 0]
  /\ meddled' = [meddled EXCEPT ![w] = {}]
  /\ UNCHANGED <<tx_buff, wret, wire>>

\* The other calls in progress share the buffer.
Meddle(w, byte) ==
  meddled' = [v \in Writers |-> IF v # w /\ wpc[v] = "copy" THEN meddled[v] \cup {byte}
                                                           ELSE meddled[v]]

\* copy_from_user, a byte at a time: other tasks run in between.
WriteCopy(w) ==
  /\ wpc[w] = "copy" /\ copied[w] < size[w]
  /\ tx_buff' = [tx_buff EXCEPT ![copied[w] + 1] = id[w]]
  /\ copied' = [copied EXCEPT ![w] = @ + 1]
  /\ Meddle(w, id[w])
  /\ UNCHANGED <<wpc, size, id, wret, calls, wire, onWire>>

Return(w, v) ==
  /\ wpc' = [wpc EXCEPT ![w] = "idle"]
  /\ wret' = [wret EXCEPT ![w] = v]
  /\ UNCHANGED <<size, copied, id, calls>>

\* A fault ends the call with -1; the kernel clears the part not copied.
WriteFault(w) ==
  /\ wpc[w] = "copy" /\ copied[w] < size[w]
  /\ tx_buff' = [i \in Buff |-> IF i \in copied[w] + 1 .. size[w] THEN 0 ELSE tx_buff[i]]
  /\ Return(w, -1) /\ Meddle(w, 0)
  /\ UNCHANGED <<wire, onWire>>

\* Mutant: the size is returned whether or not the bus took the message.
WriteSendFailsMut_Size(w) ==
  /\ wpc[w] = "copy" /\ copied[w] = size[w]
  /\ Return(w, size[w])
  /\ UNCHANGED <<tx_buff, wire, onWire, meddled>>

\* rpmsg_sendto refuses the message (it is too long, or no buffer became
\* free in time, or a signal came): the call returns 0.
WriteSendFails(w) ==
  /\ wpc[w] = "copy" /\ copied[w] = size[w]
  /\ Return(w, 0)
  /\ UNCHANGED <<tx_buff, wire, onWire, meddled>>

\* What the bus takes from the buffer for w's call.
Sent(w) == [id |-> id[w], data |-> SubSeq(tx_buff, 1, size[w]), meddled |-> meddled[w]]

\* Mutant: the message is sent while it is still being copied.
WriteSendMut_Early(w) ==
  /\ wpc[w] = "copy" /\ copied[w] + 1 >= size[w] /\ size[w] <= BusLimit
  /\ wire' = Append(wire, Sent(w))
  /\ onWire' = [onWire EXCEPT ![w] = size[w]]
  /\ Return(w, size[w])
  /\ UNCHANGED <<tx_buff, meddled>>

\* rpmsg_sendto takes the message from tx_buff as it is by then.
WriteSend(w) ==
  /\ wpc[w] = "copy" /\ copied[w] = size[w] /\ size[w] <= BusLimit
  /\ wire' = Append(wire, Sent(w))
  /\ onWire' = [onWire EXCEPT ![w] = size[w]]
  /\ Return(w, size[w])
  /\ UNCHANGED <<tx_buff, meddled>>

WriteNext(w) ==
  \/ \E n \in WriteLens : WriteCall(w, n)
  \/ WriteCopy(w) \/ WriteFault(w) \/ WriteSendFails(w) \/ WriteSend(w)

\* The bound on the calls lets every writer stop.
Done == calls = MaxWrites /\ (\A w \in Writers : wpc[w] = "idle") /\ UNCHANGED txVars

TxNext == (\E w \in Writers : WriteNext(w)) \/ Done

TxSpec == TxInit /\ [][TxNext]_txVars

-----------------------------------------------------------------------------
(***************************************************************************)
(* Type invariant: rpmsg_dev_write never copies beyond tx_buff.            *)
(***************************************************************************)
TxTypeOK ==
  /\ tx_buff \in [Buff -> CallId]
  /\ wpc \in [Writers -> {"idle", "copy"}]
  /\ size \in [Writers -> 0 .. BuffSize]
  /\ copied \in [Writers -> 0 .. BuffSize]
  /\ \A w \in Writers : copied[w] <= size[w]
  /\ id \in [Writers -> CallId]
  /\ wret \in [Writers -> -1 .. BuffSize]
  /\ calls \in CallId
  /\ wire \in Seq([id : CallId, data : Seq(CallId), meddled : SUBSET CallId])
  /\ onWire \in [Writers -> 0 .. BuffSize]
  /\ meddled \in [Writers -> SUBSET CallId]

OfItsCalls(msg) == \A i \in 1 .. Len(msg.data) : msg.data[i] \in {msg.id} \cup msg.meddled

(***************************************************************************)
(* Each byte of a message handed to the bus is of the call of write(2) it  *)
(* is sent for, or another call put it in tx_buff during that call: never  *)
(* is it left from a call that had ended before.  So a task whose calls    *)
(* meet no other call has its own data sent; tasks that write at the same  *)
(* time may have theirs mixed, as nothing locks "buffer to keep the        *)
(* message to send" (line 56).                                             *)
(***************************************************************************)
MessageIsOfItsCalls == \A k \in 1 .. Len(wire) : OfItsCalls(wire[k])

(***************************************************************************)
(* A call that has returned tells the truth: a positive result is the      *)
(* number of bytes it put on the wire, and after 0 or -1 it put none.      *)
(***************************************************************************)
ReturnIsTruth ==
  \A w \in Writers : wpc[w] = "idle" => onWire[w] = IF wret[w] > 0 THEN wret[w] ELSE 0

\* What the buffer holds where a writer has filled it.
Filled ==
  \A w \in Writers : wpc[w] = "copy" =>
    \A i \in 1 .. copied[w] : tx_buff[i] \in {id[w]} \cup meddled[w]

\* A call in progress has sent nothing.
NothingYet == \A w \in Writers : wpc[w] = "copy" => onWire[w] = 0

(***************************************************************************)
(* The inductive invariant of rpmsg_dev_write: where a writer has copied,  *)
(* the buffer holds its own bytes or those of calls that met it.           *)
(***************************************************************************)
TxInv == TxTypeOK /\ Filled /\ MessageIsOfItsCalls /\ NothingYet /\ ReturnIsTruth
=============================================================================
