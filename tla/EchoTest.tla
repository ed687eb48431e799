------------------------------ MODULE EchoTest ------------------------------
(***************************************************************************)
(* sw/openamp/echo_test.c: payloads of growing size are sent to the remote *)
(* processor one at a time, and the data of each echo is compared with     *)
(* what was sent.  The device is opened O_NONBLOCK and polled.             *)
(*                                                                         *)
(* A payload is its number, its size and the index of its first bad byte,  *)
(* which is its size when it has none.  A read asks for the largest frame, *)
(* so it takes the whole echo and the padding the driver adds to it; the   *)
(* kfifo is the sequence of echoes not yet read.                           *)
(***************************************************************************)
EXTENDS Naturals, Sequences

CONSTANTS
  PAYLOAD_MAX_SIZE,
  MaxTests          \* bound: how often the user asks for a test

PAYLOAD_MIN_SIZE == 1
NUM_PAYLOADS == PAYLOAD_MAX_SIZE \div PAYLOAD_MIN_SIZE

ASSUME EchoAssumption ==
  /\ PAYLOAD_MAX_SIZE \in Nat \ {0} /\ MaxTests \in Nat

VARIABLES
  tpc,
  i, size,          \* the loop variables
  expect_rnum,
  err_cnt,
  r_payload,        \* the echo read last
  wire,             \* payloads the remote has not echoed yet
  kfifo,            \* echoes received and not read
  tests,            \* history: tests begun
  spoilt            \* history: echoes that were spoilt

loopVars == <<i, size, expect_rnum>>
testVars == <<tpc, loopVars, err_cnt, r_payload, wire, kfifo, tests, spoilt>>

Payload(n, s, b) == [num |-> n, size |-> s, bad |-> b]

TestInit ==
  /\ tpc = "menu"
  /\ i = 0 /\ size = PAYLOAD_MIN_SIZE /\ expect_rnum = 0 /\ err_cnt = 0
  /\ r_payload = Payload(0, 0, 0)
  /\ wire = <<>> /\ kfifo = <<>>
  /\ tests = 0 /\ spoilt = 0

-----------------------------------------------------------------------------
\* Command 1, up to the first test of the loop.
Test ==
  /\ tpc = "menu" /\ tests < MaxTests
  /\ tests' = tests + 1
  /\ expect_rnum' = 0 /\ i' = 0 /\ size' = PAYLOAD_MIN_SIZE
  /\ tpc' = "loop"
  /\ UNCHANGED <<err_cnt, r_payload, wire, kfifo, spoilt>>

LoopEnd ==
  /\ tpc = "loop" /\ i >= NUM_PAYLOADS
  /\ tpc' = "menu"
  /\ UNCHANGED <<loopVars, err_cnt, r_payload, wire, kfifo, tests, spoilt>>

\* The payload is filled in and written.
Send ==
  /\ tpc = "loop" /\ i < NUM_PAYLOADS
  /\ size <= PAYLOAD_MAX_SIZE    \* beyond it, memset has left the buffer
  /\ wire' = Append(wire, Payload(i, size, size))
  /\ expect_rnum' = expect_rnum + 1
  /\ r_payload' = [r_payload EXCEPT !.num = 0]
  /\ tpc' = "poll"
  /\ UNCHANGED <<i, size, err_cnt, kfifo, tests, spoilt>>

\* write returned 0: the test is given up.
SendFails ==
  /\ tpc = "loop" /\ i < NUM_PAYLOADS /\ size <= PAYLOAD_MAX_SIZE
  /\ tpc' = "menu"
  /\ UNCHANGED <<loopVars, err_cnt, r_payload, wire, kfifo, tests, spoilt>>

\* Mutant: an echo is left in the kfifo when it is read.
PollMut_Peek ==
  /\ tpc = "poll" /\ kfifo # <<>>
  /\ r_payload' = Head(kfifo)
  /\ kfifo' = kfifo \o <<Head(kfifo)>>
  /\ tpc' = "validate"
  /\ UNCHANGED <<loopVars, err_cnt, wire, tests, spoilt>>

\* read is repeated every 10 ms until it returns something.
Poll ==
  /\ tpc = "poll" /\ kfifo # <<>>
  /\ r_payload' = Head(kfifo)
  /\ kfifo' = Tail(kfifo)
  /\ tpc' = "validate"
  /\ UNCHANGED <<loopVars, err_cnt, wire, tests, spoilt>>

\* Mutant: the bytes are checked from the last to the first.
ValidateMut_Down ==
  /\ tpc = "validate"
  /\ i' = IF r_payload.bad < r_payload.size THEN r_payload.bad ELSE 0
  /\ err_cnt' = IF r_payload.bad < r_payload.size THEN err_cnt + 1 ELSE err_cnt
  /\ tpc' = "drain"
  /\ UNCHANGED <<size, expect_rnum, r_payload, wire, kfifo, tests, spoilt>>

\* The loop over the data uses the variable of the loop around it, and
\* leaves it at the first bad byte, or at the size when there is none.
Validate ==
  /\ tpc = "validate"
  /\ i' = r_payload.bad
  /\ err_cnt' = IF r_payload.bad < r_payload.size THEN err_cnt + 1 ELSE err_cnt
  /\ tpc' = "drain"
  /\ UNCHANGED <<size, expect_rnum, r_payload, wire, kfifo, tests, spoilt>>

\* Mutant: this read is repeated until it returns something, as the first is.
DrainMut_Wait ==
  /\ tpc = "drain" /\ kfifo # <<>>
  /\ r_payload' = Head(kfifo) /\ kfifo' = Tail(kfifo)
  /\ i' = i + 1 /\ size' = size + 1
  /\ tpc' = "loop"
  /\ UNCHANGED <<expect_rnum, err_cnt, wire, tests, spoilt>>

\* One more read, whose result is not looked at, and the loop's increments.
Drain ==
  /\ tpc = "drain"
  /\ IF kfifo = <<>> THEN UNCHANGED <<r_payload, kfifo>>
                     ELSE r_payload' = Head(kfifo) /\ kfifo' = Tail(kfifo)
  /\ i' = i + 1 /\ size' = size + 1
  /\ tpc' = "loop"
  /\ UNCHANGED <<expect_rnum, err_cnt, wire, tests, spoilt>>

\* The remote is told to stop; it does not answer that.
Quit ==
  /\ tpc = "menu"
  /\ tpc' = "end"
  /\ UNCHANGED <<loopVars, err_cnt, r_payload, wire, kfifo, tests, spoilt>>

\* The remote echoes a payload, possibly spoiling a byte of it.
Echo ==
  /\ wire # <<>>
  /\ \E b \in 0 .. Head(wire).size :
       /\ kfifo' = Append(kfifo, [Head(wire) EXCEPT !.bad = b])
       /\ spoilt' = IF b < Head(wire).size THEN spoilt + 1 ELSE spoilt
  /\ wire' = Tail(wire)
  /\ UNCHANGED <<tpc, loopVars, err_cnt, r_payload, tests>>

TestStep == LoopEnd \/ Send \/ SendFails \/ Poll \/ Validate \/ Drain
TestNext == Test \/ Quit \/ TestStep \/ Echo

TestSpec == TestInit /\ [][TestNext]_testVars

\* The program runs, the remote answers; the user need not type anything.
TestFairSpec == TestSpec /\ WF_testVars(TestStep) /\ WF_testVars(Echo)

-----------------------------------------------------------------------------
(***************************************************************************)
(* Before a payload is written nothing of an earlier one is under way or   *)
(* unread, so the echo that is validated is the echo of the payload just   *)
(* sent, in its number and its size.                                       *)
(***************************************************************************)
EchoIsOwn ==
  /\ tpc \in {"menu", "loop"} => wire = <<>> /\ kfifo = <<>>
  /\ tpc = "validate" => r_payload.num = i /\ r_payload.size = size

(***************************************************************************)
(* The data buffer is marked within its bounds: as long as no echo came    *)
(* back spoilt, a payload that is about to be filled in is no longer than  *)
(* the buffer allocated for it, although the inner loop overwrites i.      *)
(***************************************************************************)
MarksBuffer ==
  spoilt = 0 /\ tpc = "loop" /\ i < NUM_PAYLOADS => size <= PAYLOAD_MAX_SIZE

(***************************************************************************)
(* A test that was asked for ends and the menu comes back, unless an echo  *)
(* came back spoilt.                                                       *)
(***************************************************************************)
TestEnds == tpc = "loop" ~> (tpc = "menu" \/ spoilt > 0)
-----------------------------------------------------------------------------
(***************************************************************************)
(* The strengthening that makes the invariants inductive: one payload is   *)
(* under way at most, and only while the program polls; where it is, it is *)
(* the one sent last, and unspoilt if none was spoilt; and without a       *)
(* spoilt echo the inner loop leaves i no smaller than the loop found it.  *)
(***************************************************************************)
Unspoilt(b) == spoilt = 0 => b = size

OneUnderWay ==
  \/ tpc # "poll" /\ wire = <<>> /\ kfifo = <<>>
  \/ tpc = "poll" /\ wire = <<Payload(i, size, size)>> /\ kfifo = <<>>
  \/ /\ tpc = "poll" /\ wire = <<>>
     /\ \E b \in 0 .. size : Unspoilt(b) /\ kfifo = <<Payload(i, size, b)>>

LoopCounts ==
  /\ tpc = "validate" => \E b \in 0 .. size : Unspoilt(b) /\ r_payload = Payload(i, size, b)
  /\ tpc = "drain" => Unspoilt(i)
  /\ tpc = "loop" => (spoilt = 0 => size <= i + 1)

EchoInv ==
  /\ i \in Nat /\ size \in Nat \ {0} /\ spoilt \in Nat
  /\ tpc \in {"menu", "loop", "poll", "validate", "drain", "end"}
  /\ OneUnderWay /\ LoopCounts
=============================================================================
