---------------------------- MODULE EchoKernApp -----------------------------
(***************************************************************************)
(* kernel/drivers/rpmsg_echo_test_kern_app.c: the echo test as a kernel    *)
(* module.  A work item sends one payload; the callback checks its echo    *)
(* and queues the work item again, until the largest payload has been      *)
(* echoed and the remote is told to shut down.                             *)
(*                                                                         *)
(* Work queue, rpmsg bus and remote are external: a work item is queued at *)
(* most once and is no longer queued when its function starts; flush_work  *)
(* waits for the last run queued when it is called, not for later ones;    *)
(* callbacks run one at a time from before probe until after remove; the   *)
(* remote, which does not know of remove, echoes payloads, possibly        *)
(* spoiling one byte, and may answer the init_msg, once and at any time    *)
(* after it, as long as there is an endpoint.  Queueing a work item before *)
(* INIT_WORK does nothing but warn.  What a worker does with data that was *)
(* freed is anything (bus = "wild"), and the model ends there.             *)
(***************************************************************************)
EXTENDS Naturals, Sequences

CONSTANTS
  PAYLOAD_MAX_SIZE,
  MaxBinds         \* bound: how often the channel appears

PAYLOAD_MIN_SIZE == 1

ASSUME EchoKernAssumption ==
  PAYLOAD_MAX_SIZE \in Nat \ {0} /\ MaxBinds \in Nat

VARIABLES
  bus,                  \* where probe and remove are
  drvdata,              \* does the channel point to the device's data?
  work,                 \* "none" before INIT_WORK, then "idle" or "queued"
  worker,               \* what the worker thread does with the work item
  err_cnt,
  payload_num, next_payload_size,   \* static: they outlive the device
  wire,                 \* payloads at the remote
  inbox,                \* messages whose callback has not run
  halting,              \* has Linux been told to shut down?
  binds,                \* history: probes so far
  spoilt,               \* history: spoilt echoes seen by this device
  answered,             \* history: has the remote answered the init_msg?
  greeted,              \* history: callbacks that saw such an answer
  failed,               \* history: did a send of this device fail?
  told,                 \* history: was the remote told by this device?
  late                  \* history: did a callback queue the work item too late for remove?

devVars == <<drvdata, work, worker, err_cnt>>
staticVars == <<payload_num, next_payload_size>>
hisVars == <<binds, spoilt, answered, greeted, failed, told, late>>
vars == <<bus, devVars, staticVars, wire, inbox, halting, hisVars>>

Init ==
  /\ bus = "unbound"
  /\ drvdata = FALSE /\ work = "none" /\ worker = "idle" /\ err_cnt = 0
  /\ payload_num = 0 /\ next_payload_size = PAYLOAD_MIN_SIZE
  /\ wire = <<>> /\ inbox = <<>> /\ halting = FALSE
  /\ binds = 0 /\ spoilt = 0 /\ answered = FALSE /\ greeted = 0
  /\ failed = FALSE /\ told = FALSE /\ late = FALSE

-----------------------------------------------------------------------------
(***************************************************************************)
(* rpmsg_echo_test_kern_app_probe: the data, the first message, from which *)
(* the remote learns the address, and the work item.                       *)
(***************************************************************************)
ProbeData ==
  /\ bus = "unbound" /\ binds < MaxBinds
  /\ binds' = binds + 1
  /\ drvdata' = TRUE /\ err_cnt' = 0
  /\ spoilt' = 0 /\ answered' = FALSE /\ greeted' = 0
  /\ failed' = FALSE /\ told' = FALSE /\ late' = FALSE
  /\ bus' = "init_msg"
  /\ UNCHANGED <<work, worker, staticVars, wire, inbox, halting>>

\* Without memory, or when the message cannot be sent, the data is freed.
ProbeFails ==
  /\ bus = "init_msg"
  /\ drvdata' = FALSE
  /\ bus' = "unbound"
  /\ UNCHANGED <<work, worker, err_cnt, staticVars, wire, inbox, halting, hisVars>>

ProbeSend ==
  /\ bus = "init_msg"
  /\ bus' = "work"
  /\ UNCHANGED <<devVars, staticVars, wire, inbox, halting, hisVars>>

ProbeWork ==
  /\ bus = "work"
  /\ work' = "idle"
  /\ bus' = "schedule"
  /\ UNCHANGED <<drvdata, worker, err_cnt, staticVars, wire, inbox, halting, hisVars>>

\* Mutant: the first payload is sent by probe as well.
ProbeScheduleMut_Both ==
  /\ bus = "schedule"
  /\ work' = "queued"
  /\ wire' = Append(wire, [size |-> PAYLOAD_MIN_SIZE, bad |-> PAYLOAD_MIN_SIZE])
  /\ bus' = "bound"
  /\ UNCHANGED <<drvdata, worker, err_cnt, staticVars, inbox, halting, hisVars>>

ProbeSchedule ==
  /\ bus = "schedule"
  /\ work' = "queued"
  /\ bus' = "bound"
  /\ UNCHANGED <<drvdata, worker, err_cnt, staticVars, wire, inbox, halting, hisVars>>

-----------------------------------------------------------------------------
(***************************************************************************)
(* The work function, with rpmsg_echo_test_kern_app_echo_test.             *)
(***************************************************************************)
WorkStart ==
  /\ work = "queued" /\ worker = "idle"
  /\ work' = "idle" /\ worker' = "echo_test"
  /\ bus' = IF bus = "flush_queued" THEN "flush_running" ELSE bus
  /\ UNCHANGED <<drvdata, err_cnt, staticVars, wire, inbox, halting, hisVars>>

SendShutdown ==
  /\ worker = "echo_test" /\ next_payload_size > PAYLOAD_MAX_SIZE
  /\ \/ told' = TRUE /\ UNCHANGED failed
     \/ failed' = TRUE /\ UNCHANGED told
  /\ worker' = "report"
  /\ UNCHANGED <<bus, drvdata, work, err_cnt, staticVars, wire, inbox, halting>>
  /\ UNCHANGED <<binds, spoilt, answered, greeted, late>>

\* The run ends; remove goes on if it waited for this one.
WorkEnd ==
  /\ worker' = "idle"
  /\ bus' = IF bus = "flush_running" THEN "destroy" ELSE bus

\* The counters advance whether or not the payload can be sent.
SendPayload ==
  /\ worker = "echo_test" /\ next_payload_size <= PAYLOAD_MAX_SIZE
  /\ payload_num' = payload_num + 1 /\ next_payload_size' = next_payload_size + 1
  /\ \/ /\ wire' = Append(wire, [size |-> next_payload_size, bad |-> next_payload_size])
        /\ WorkEnd /\ UNCHANGED failed
     \/ /\ failed' = TRUE /\ worker' = "report" /\ UNCHANGED <<bus, wire>>
  /\ UNCHANGED <<drvdata, work, err_cnt, inbox, halting, binds, spoilt, answered, greeted, told, late>>

\* The error count is read and printed.
Report ==
  /\ worker = "report"
  /\ WorkEnd
  /\ UNCHANGED <<drvdata, work, err_cnt, staticVars, wire, inbox, halting, hisVars>>

-----------------------------------------------------------------------------
(***************************************************************************)
(* The remote, and rpmsg_echo_test_kern_app_cb.                            *)
(***************************************************************************)
RemoteEcho ==
  /\ wire # <<>>
  /\ \E b \in 0 .. Head(wire).size : inbox' = Append(inbox, [Head(wire) EXCEPT !.bad = b])
  /\ wire' = Tail(wire)
  /\ UNCHANGED <<bus, devVars, staticVars, halting, hisVars>>

\* The text of the init_msg is no payload: its first data byte is not 0xA5.
Answer == [size |-> 0, bad |-> 0]

RemoteAnswer ==
  /\ bus \in {"work", "schedule", "bound", "flush_queued", "flush_running", "destroy"}
  /\ ~ answered
  /\ inbox' = Append(inbox, Answer) /\ answered' = TRUE
  /\ UNCHANGED <<bus, devVars, staticVars, wire, halting, binds, spoilt, greeted, failed, told, late>>

\* It is too late for remove once the run that flush_work waits for has started.
schedule_work ==
  /\ work' = IF work = "none" THEN "none" ELSE "queued"
  /\ late' = (late \/ bus \in {"flush_running", "destroy"})

Corrupt(m) == m = Answer \/ m.bad < m.size

\* What the callback saw, for the properties.
Count(m) ==
  /\ spoilt' = spoilt + (IF Corrupt(m) /\ m # Answer THEN 1 ELSE 0)
  /\ greeted' = greeted + (IF m = Answer THEN 1 ELSE 0)

\* Mutant: what is no payload is not counted.
CbPayloadMut_NoCount ==
  /\ inbox # <<>> /\ Count(Head(inbox))
  /\ err_cnt' = err_cnt + (IF Head(inbox).bad < Head(inbox).size THEN 1 ELSE 0)
  /\ schedule_work
  /\ inbox' = Tail(inbox)
  /\ UNCHANGED <<bus, drvdata, worker, staticVars, wire, halting, binds, answered, failed, told>>

\* Mutant: a spoilt echo ends the test.
CbPayloadMut_Stop ==
  /\ inbox # <<>> /\ Count(Head(inbox))
  /\ IF Corrupt(Head(inbox)) THEN err_cnt' = err_cnt + 1 /\ UNCHANGED <<work, late>>
                             ELSE schedule_work /\ UNCHANGED err_cnt
  /\ inbox' = Tail(inbox)
  /\ UNCHANGED <<bus, drvdata, worker, staticVars, wire, halting, binds, answered, failed, told>>

CbPayload ==
  /\ inbox # <<>> /\ Count(Head(inbox))
  /\ err_cnt' = err_cnt + (IF Corrupt(Head(inbox)) THEN 1 ELSE 0)
  /\ schedule_work
  /\ inbox' = Tail(inbox)
  /\ UNCHANGED <<bus, drvdata, worker, staticVars, wire, halting, binds, answered, failed, told>>

\* SHUTDOWN_MSG from the remote: user space is asked to shut Linux down.
CbShutdown ==
  /\ drvdata /\ ~ halting
  /\ halting' = TRUE
  /\ UNCHANGED <<bus, devVars, staticVars, wire, inbox, hisVars>>

-----------------------------------------------------------------------------
(***************************************************************************)
(* rpmsg_echo_test_kern_app_remove waits for the work item; then the bus   *)
(* destroys the endpoint, with what was meant for it, and frees the data.  *)
(***************************************************************************)
\* Mutant: remove does not wait for the work item.
RemoveMut_NoFlush ==
  /\ bus = "bound"
  /\ bus' = "destroy"
  /\ UNCHANGED <<devVars, staticVars, wire, inbox, halting, hisVars>>

Remove ==
  /\ bus = "bound"
  /\ bus' = IF work = "queued" THEN "flush_queued"
            ELSE IF worker # "idle" THEN "flush_running" ELSE "destroy"
  /\ UNCHANGED <<devVars, staticVars, wire, inbox, halting, hisVars>>

RemoveFree ==
  /\ bus = "destroy"
  /\ wire' = <<>> /\ inbox' = <<>>
  /\ drvdata' = FALSE
  /\ IF work = "idle" /\ worker = "idle"
       THEN bus' = "unbound" /\ work' = "none"
       ELSE bus' = "wild" /\ UNCHANGED work
  /\ UNCHANGED <<worker, err_cnt, staticVars, halting, hisVars>>

Worker == bus # "wild" /\ (WorkStart \/ SendShutdown \/ SendPayload \/ Report)
Driver == ProbeSend \/ ProbeWork \/ ProbeFails \/ ProbeSchedule \/ RemoveFree
Next ==
  \/ ProbeData \/ Driver \/ Worker \/ RemoteEcho \/ RemoteAnswer \/ CbPayload \/ CbShutdown
  \/ Remove

Spec == Init /\ [][Next]_vars

\* Workers and callbacks run, probe and remove proceed, the remote answers.
FairSpec ==
  Spec /\ WF_vars(Driver) /\ WF_vars(Worker) /\ WF_vars(RemoteEcho) /\ WF_vars(CbPayload)

-----------------------------------------------------------------------------
(***************************************************************************)
(* The test is a chain: of the work item, the worker, the payload at the   *)
(* remote and the echo not yet handled there is never more than one.  A    *)
(* remote that answers the init_msg starts a second chain, and no answer   *)
(* or echo starts a third (schedule_work, the callback and probe).         *)
(***************************************************************************)
Links == Len(wire) + Len(inbox) + (IF work = "queued" THEN 1 ELSE 0)
                                + (IF worker = "idle" THEN 0 ELSE 1)
OneInFlight == Links <= IF answered THEN 2 ELSE 1

(***************************************************************************)
(* The error count that is reported is the number of spoilt echoes, and    *)
(* one more if the init_msg was answered; and unless it was answered the   *)
(* report counts every echo there will be.                                 *)
(***************************************************************************)
ReportIsTrue ==
  worker = "report" => /\ err_cnt = spoilt + greeted
                       /\ answered \/ (wire = <<>> /\ inbox = <<>>)

(***************************************************************************)
(* The work item is queued, or its function runs, only while the device's  *)
(* data exists, unless a callback queued it after remove had seen the run  *)
(* start that flush_work waits for (K:139, K:196).  So flush_work covers   *)
(* every run queued before remove, whichever of them sent the last         *)
(* payload; it does not cover the echo of that payload, which nothing      *)
(* keeps from being handled before the endpoint is destroyed.              *)
(***************************************************************************)
WorkHasDevice == work = "queued" \/ worker # "idle" => drvdata \/ late

(***************************************************************************)
(* A device that stays and whose sends succeed runs the test to its end,   *)
(* whatever the echoes contain and even if an answer came before INIT_WORK *)
(* and could not queue the work item.                                      *)
(***************************************************************************)
RunsToEnd == bus = "bound" ~> told \/ failed \/ bus # "bound"

-----------------------------------------------------------------------------
(***************************************************************************)
(* Strengthening: where the links may be in each phase of the device.      *)
(***************************************************************************)
Message == [size : Nat, bad : Nat]

Shapes ==
  /\ bus \in {"unbound", "init_msg", "work", "schedule", "bound", "flush_queued", "flush_running",
             "destroy", "wild"}
  /\ work \in {"none", "idle", "queued"} /\ worker \in {"idle", "echo_test", "report"}
  /\ err_cnt \in Nat /\ spoilt \in Nat /\ greeted \in Nat /\ next_payload_size \in Nat
  /\ wire \in Seq(Message) /\ inbox \in Seq(Message)

Phases ==
  /\ bus \notin {"unbound", "wild"} => drvdata
  /\ bus \in {"unbound", "init_msg", "work"} => work = "none" /\ worker = "idle" /\ wire = <<>>
  /\ bus \in {"unbound", "init_msg"} => inbox = <<>>
  /\ bus \in {"work", "schedule"} => Links <= IF answered THEN 1 ELSE 0
  /\ bus \in {"schedule", "bound", "flush_running", "destroy"} => work # "none"
  /\ bus = "flush_queued" => work = "queued"
  /\ bus \in {"flush_running", "destroy"} /\ ~ late => work = "idle"
  /\ bus = "destroy" /\ ~ late => worker = "idle"
  /\ bus = "wild" => late
  /\ err_cnt = spoilt + greeted

KernInv == Shapes /\ Phases /\ OneInFlight
=============================================================================
