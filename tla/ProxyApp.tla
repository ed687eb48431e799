------------------------------ MODULE ProxyApp ------------------------------
(***************************************************************************)
(* sw/openamp/proxy_app.c: the proxy opens, closes, reads and writes files *)
(* for the firmware of the remote processor.  It blocks reading requests   *)
(* from the rpmsg proxy device, does what each one asks and writes back an *)
(* answer, until the remote is ready to close, a signal comes or an answer *)
(* cannot be written.                                                      *)
(*                                                                         *)
(* The device is a ByteStream, which RpmsgDevRx implements: a read takes   *)
(* what is there, at most the size of the buffer, and message boundaries   *)
(* are lost.  The unit is the 16 byte header of a request.  The remote,    *)
(* which is external, sends one request at a time if it waits for answers, *)
(* but it need not wait.                                                   *)
(***************************************************************************)
EXTENDS ByteStream

CONSTANTS
  RPC_BUFF_SIZE,    \* units one read can take
  MaxSignals        \* bound: number of signals

Kinds == {"open", "close", "read", "write", "ready", "bad"}

\* A write carries its data; the text of "ready to close" is two units long.
Size(kind) == IF kind \in {"write", "ready"} THEN 2 ELSE 1

ASSUME ProxyAssumption ==
  /\ RPC_BUFF_SIZE \in Nat \ {0, 1} /\ Capacity \in Nat /\ MaxMsg \in Nat /\ MaxSignals \in Nat
  /\ Sizes = {Size(kind) : kind \in Kinds}

VARIABLES
  pc,
  tries,            \* i: how often opening the device failed
  active,
  bytes_rcvd,
  rpc,              \* the units in the request buffer
  id,               \* what handle_rpc takes the request for
  msgs,             \* the kinds of the messages the remote has sent
  answered,         \* the message that was answered last
  signals,          \* history: signals so far
  pipelined,        \* history: did the remote not wait for an answer?
  missed            \* history: did a signal come just before a blocking call?

appVars == <<tries, active, bytes_rcvd, rpc, id>>
hisVars == <<signals, pipelined, missed>>
proxyVars == <<pc, appVars, msgs, answered, hisVars, streamVars>>

ProxyInit ==
  /\ pc = "start" /\ tries = 0 /\ active = FALSE /\ bytes_rcvd = 0
  /\ rpc = <<>> /\ id = "bad"
  /\ msgs = <<>> /\ answered = 0
  /\ signals = 0 /\ pipelined = FALSE /\ missed = FALSE
  /\ StreamInit

-----------------------------------------------------------------------------
(***************************************************************************)
(* main.                                                                   *)
(***************************************************************************)

\* The firmware is started, the driver is loaded and proxy is allocated.
Start ==
  /\ pc = "start"
  /\ pc' = "open" /\ active' = TRUE
  /\ UNCHANGED <<tries, bytes_rcvd, rpc, id, msgs, answered, hisVars, streamVars>>

OpenDevice ==
  /\ pc = "open"
  /\ pc' = "test"
  /\ UNCHANGED <<appVars, msgs, answered, hisVars, streamVars>>

\* The device is not there yet: three attempts, then the drivers are unloaded.
OpenFails ==
  /\ pc = "open"
  /\ tries' = tries + 1
  /\ pc' = IF tries < 2 THEN "open" ELSE "unload"
  /\ UNCHANGED <<active, bytes_rcvd, rpc, id, msgs, answered, hisVars, streamVars>>

TestActive ==
  /\ pc = "test"
  /\ pc' = IF active THEN "read" ELSE "terminate"
  /\ UNCHANGED <<appVars, msgs, answered, hisVars, streamVars>>

\* read: it sleeps while there is nothing.
ReadSleep ==
  /\ pc = "read" /\ fifo = <<>>
  /\ pc' = "asleep"
  /\ UNCHANGED <<appVars, msgs, answered, hisVars, streamVars>>

Least(a, b) == IF a < b THEN a ELSE b

\* Mutant: only a header is read.
ReadDataMut_Header ==
  LET n == Least(1, Len(fifo)) IN
  /\ pc \in {"read", "asleep"} /\ n > 0
  /\ Take(n)
  /\ bytes_rcvd' = n
  /\ rpc' = SubSeq(fifo, 1, n) \o SubSeq(rpc, n + 1, Len(rpc))
  /\ pc' = "check"
  /\ UNCHANGED <<tries, active, id, msgs, answered, hisVars>>

\* It takes what there is; the rest of the buffer keeps what was in it.
ReadData ==
  LET n == Least(RPC_BUFF_SIZE, Len(fifo)) IN
  /\ pc \in {"read", "asleep"} /\ n > 0
  /\ Take(n)
  /\ bytes_rcvd' = n
  /\ rpc' = SubSeq(fifo, 1, n) \o SubSeq(rpc, n + 1, Len(rpc))
  /\ pc' = "check"
  /\ UNCHANGED <<tries, active, id, msgs, answered, hisVars>>

\* A wake-up flag left set over an empty kfifo: read returns 0.
ReadNothing ==
  /\ pc \in {"read", "asleep"} /\ fifo = <<>>
  /\ bytes_rcvd' = 0
  /\ pc' = "check"
  /\ UNCHANGED <<tries, active, rpc, id, msgs, answered, hisVars, streamVars>>

\* Mutant: a read that returned nothing is repeated whatever has happened.
CheckReadMut_NoTest ==
  /\ pc = "check"
  /\ pc' = IF bytes_rcvd = 0 THEN "read" ELSE IF active THEN "handle" ELSE "terminate"
  /\ UNCHANGED <<appVars, msgs, answered, hisVars, streamVars>>

\* Both loops are left when a signal has come; nothing read is read again.
CheckRead ==
  /\ pc = "check"
  /\ pc' = IF ~ active THEN "terminate" ELSE IF bytes_rcvd = 0 THEN "read" ELSE "handle"
  /\ UNCHANGED <<appVars, msgs, answered, hisVars, streamVars>>

-----------------------------------------------------------------------------
(***************************************************************************)
(* handle_rpc.                                                             *)
(***************************************************************************)

\* The first word is that of a message, or some word inside one.
IsKind(kind) == rpc[1][2] = 1 => kind = msgs[rpc[1][1]]

HandleRpc ==
  /\ pc = "handle"
  /\ \E kind \in Kinds :
       /\ IsKind(kind)
       /\ id' = kind
       /\ active' = (active /\ kind # "ready")
       /\ pc' = CASE kind = "ready" -> "test"
                  [] kind = "bad"   -> "terminate"
                  [] OTHER          -> "call"
  /\ UNCHANGED <<tries, bytes_rcvd, rpc, msgs, answered, hisVars, streamVars>>

\* open, close, read or write; only a read of standard input may block.
Call ==
  /\ pc = "call"
  /\ \/ pc' = "answer"
     \/ id = "read" /\ pc' = "stdin"
  /\ UNCHANGED <<appVars, msgs, answered, hisVars, streamVars>>

StdinRead ==
  /\ pc = "stdin"
  /\ pc' = "answer"
  /\ UNCHANGED <<appVars, msgs, answered, hisVars, streamVars>>

\* Mutant: a read that failed is not answered.
AnswerMut_Skip ==
  /\ pc = "answer"
  /\ IF id = "read" THEN UNCHANGED answered ELSE answered' = rpc[1][1]
  /\ pc' = "test"
  /\ UNCHANGED <<appVars, msgs, hisVars, streamVars>>

Answer ==
  /\ pc = "answer"
  /\ answered' = rpc[1][1]
  /\ pc' = "test"
  /\ UNCHANGED <<appVars, msgs, hisVars, streamVars>>

\* The answer was not written, or not all of it: the service ends.
AnswerFails ==
  /\ pc = "answer"
  /\ pc' = "terminate"
  /\ UNCHANGED <<appVars, msgs, answered, hisVars, streamVars>>

-----------------------------------------------------------------------------
(***************************************************************************)
(* The end of main: terminate_rpc_app, closing, freeing and unloading.     *)
(***************************************************************************)
Terminate ==
  /\ pc = "terminate"
  /\ pc' = "unload"
  /\ UNCHANGED <<appVars, msgs, answered, hisVars, streamVars>>

Unload ==
  /\ pc = "unload"
  /\ pc' = "end"
  /\ UNCHANGED <<appVars, msgs, answered, hisVars, streamVars>>

(***************************************************************************)
(* exit_action_handler.  The handlers do not restart an interrupted call:  *)
(* a sleeping read of the device returns 0, one of standard input fails.   *)
(* While there is no proxy the handler's store goes astray.                *)
(***************************************************************************)
Exit ==
  /\ pc \notin {"end", "wild"} /\ signals < MaxSignals
  /\ signals' = signals + 1
  /\ IF pc \in {"start", "unload"}
       THEN pc' = "wild" /\ UNCHANGED <<active, bytes_rcvd>>
       ELSE /\ active' = FALSE
            /\ pc' = CASE pc = "asleep" -> "check"
                       [] pc = "stdin"  -> "answer"
                       [] OTHER         -> pc
            /\ bytes_rcvd' = IF pc = "asleep" THEN 0 ELSE bytes_rcvd
  /\ missed' = (missed \/ pc \in {"read", "handle", "call"})
  /\ UNCHANGED <<tries, rpc, id, msgs, answered, pipelined, streamVars>>

\* kill_action_handler tears everything down and returns into main.
Kill ==
  /\ pc \notin {"end", "wild"} /\ signals < MaxSignals
  /\ signals' = signals + 1
  /\ pc' = "wild"
  /\ UNCHANGED <<appVars, msgs, answered, pipelined, missed, streamVars>>

\* The remote sends a message, from when the driver is loaded, before the device is
\* opened; the device may have no room for it.
RemoteSend ==
  /\ pc \notin {"start", "unload", "end", "wild"} /\ Len(msgs) < MaxMsg
  /\ \E kind \in Kinds :
       /\ msgs' = Append(msgs, kind)
       /\ \/ Put(Len(msgs'), Size(kind))
          \/ Len(fifo) + Size(kind) > Capacity /\ UNCHANGED streamVars
  /\ pipelined' = (pipelined \/ answered < Len(msgs))
  /\ UNCHANGED <<pc, appVars, answered, signals, missed>>

ProxyStep ==
  \/ Start \/ OpenDevice \/ OpenFails \/ TestActive \/ ReadSleep \/ ReadData \/ ReadNothing
  \/ CheckRead \/ HandleRpc \/ Call \/ Answer \/ AnswerFails \/ Terminate \/ Unload
ProxyNext == ProxyStep \/ StdinRead \/ Exit \/ Kill \/ RemoteSend

ProxySpec == ProxyInit /\ [][ProxyNext]_proxyVars

(***************************************************************************)
(* The program runs, and does not find the stale flag over and over.       *)
(* Nobody need type anything, send a signal or send a request.             *)
(***************************************************************************)
ProxyFairSpec == ProxySpec /\ WF_proxyVars(ProxyStep) /\ SF_proxyVars(ReadSleep \/ ReadData)

-----------------------------------------------------------------------------
Gone == pc \in {"terminate", "unload", "end", "wild"}

Handling == pc \in {"handle", "call", "stdin", "answer"}

\* The units of the message sent last.
LastMsg == [i \in 1 .. Size(msgs[Len(msgs)]) |-> <<Len(msgs), i>>]

(***************************************************************************)
(* A remote that waits for its answers gets each of its requests done, and *)
(* no other: what handle_rpc finds in the buffer, behind which older       *)
(* requests may still lie, is the whole of the message sent last.  Reading *)
(* a stream, the proxy cannot promise this to a remote that does not wait. *)
(***************************************************************************)
RequestIsWhole == Handling /\ ~ pipelined => SubSeq(rpc, 1, bytes_rcvd) = LastMsg

(***************************************************************************)
(* The request of a remote that waits is answered unless the service ends  *)
(* or waits for standard input: it is not lost in a full kfifo, left in    *)
(* the buffer or slept over.                                               *)
(***************************************************************************)
RequestAnswered ==
  (answered < Len(msgs) /\ ~ pipelined) ~>
    (answered = Len(msgs) \/ pipelined \/ Gone \/ pc = "stdin")

(***************************************************************************)
(* Once SIGTERM or SIGINT has come, or the remote is ready to close, the   *)
(* program ends: also from a sleeping read, which the signal makes return  *)
(* 0.  A signal between the test of active and a blocking call is missed,  *)
(* and is noticed only when that call returns.  SIGHUP, whose handler      *)
(* frees what main goes on to use, and a signal while there is no proxy    *)
(* leave the program's own code (pc = "wild"): nothing is said of what     *)
(* follows them.                                                           *)
(***************************************************************************)
SignalEnds ==
  (~ active /\ pc # "start") ~>
    (pc \in {"end", "wild"} \/ (missed /\ pc \in {"asleep", "stdin"}))

-----------------------------------------------------------------------------
(***************************************************************************)
(* Strengthening: with a remote that waits, the last message is either in  *)
(* the stream, alone, or in the buffer, at its front, or answered.         *)
(***************************************************************************)
Taken == Handling \/ (pc = "check" /\ bytes_rcvd # 0)

InStream == fifo = LastMsg /\ msgs # <<>> /\ answered < Len(msgs) /\ ~ Taken
InBuffer ==
  /\ SubSeq(rpc, 1, bytes_rcvd) = LastMsg /\ rpc[1] = <<Len(msgs), 1>>
  /\ msgs # <<>> /\ answered < Len(msgs)

ProxyInv ==
  ~ pipelined =>
    /\ msgs \in Seq(Kinds) /\ answered \in 0 .. Len(msgs)
    /\ fifo \in Seq(Nat \X Nat) /\ rpc \in Seq(Nat \X Nat)
    /\ fifo # <<>> => InStream
    /\ Taken => InBuffer
=============================================================================
