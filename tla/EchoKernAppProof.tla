-------------------------- MODULE EchoKernAppProof --------------------------
(***************************************************************************)
(* Proofs about the echo test as a kernel module, for payloads of any size *)
(* and any number of devices.                                              *)
(***************************************************************************)
EXTENDS EchoKernApp, SequenceTheorems, TLAPS

\* The variables keep their shapes.
LEMMA ShapesStep == KernInv /\ [Next]_vars => Shapes'
<1> SUFFICES ASSUME KernInv, [Next]_vars PROVE Shapes'
  OBVIOUS
<1>0. Shapes /\ Phases /\ OneInFlight
  BY DEF KernInv
<1>1. CASE ProbeData
  BY <1>0, <1>1, EchoKernAssumption DEF ProbeData, Shapes, Message, devVars, staticVars, hisVars, PAYLOAD_MIN_SIZE
<1>2. CASE ProbeSend
  BY <1>0, <1>2, EchoKernAssumption DEF ProbeSend, Shapes, Message, devVars, staticVars, hisVars, PAYLOAD_MIN_SIZE
<1>3. CASE ProbeWork
  BY <1>0, <1>3, EchoKernAssumption DEF ProbeWork, Shapes, Message, devVars, staticVars, hisVars, PAYLOAD_MIN_SIZE
<1>4. CASE ProbeFails
  BY <1>0, <1>4, EchoKernAssumption DEF ProbeFails, Shapes, Message, devVars, staticVars, hisVars, PAYLOAD_MIN_SIZE
<1>5. CASE ProbeSchedule
  BY <1>0, <1>5, EchoKernAssumption DEF ProbeSchedule, Shapes, Message, devVars, staticVars, hisVars, PAYLOAD_MIN_SIZE
<1>6. CASE WorkStart
  BY <1>0, <1>6, EchoKernAssumption DEF WorkStart, Shapes, Message, devVars, staticVars, hisVars, PAYLOAD_MIN_SIZE
<1>7. CASE SendShutdown
  BY <1>0, <1>7, EchoKernAssumption DEF SendShutdown, Shapes, Message, devVars, staticVars, hisVars, PAYLOAD_MIN_SIZE
<1>8. CASE SendPayload
  <2>1. [size |-> next_payload_size, bad |-> next_payload_size] \in Message
    BY <1>0 DEF Shapes, Message
  <2>2. \A s \in Seq(Message), m \in Message : Append(s, m) \in Seq(Message)
    OBVIOUS
  <2>3. wire' \in Seq(Message)
    BY <1>0, <1>8, <2>1, <2>2, Zenon DEF SendPayload, WorkEnd, Shapes
  <2> QED
    BY <1>0, <1>8, <2>3 DEF SendPayload, WorkEnd, Shapes
<1>9. CASE Report
  BY <1>0, <1>9, EchoKernAssumption DEF Report, WorkEnd, Shapes, Message, devVars, staticVars, hisVars, PAYLOAD_MIN_SIZE
<1>10. CASE RemoteEcho
  <2>1. PICK b \in 0 .. Head(wire).size : inbox' = Append(inbox, [Head(wire) EXCEPT !.bad = b])
    BY <1>10, Zenon DEF RemoteEcho
  <2>2. Head(wire) \in Message /\ wire' \in Seq(Message)
    BY <1>0, <1>10, HeadTailProperties DEF RemoteEcho, Shapes
  <2>3. b \in Nat
    BY <2>1, <2>2 DEF Message
  <2>4. \A m \in Message, c \in Nat : [m EXCEPT !.bad = c] \in Message
    BY DEF Message
  <2>5. [Head(wire) EXCEPT !.bad = b] \in Message
    BY <2>2, <2>3, <2>4, Zenon
  <2>6. \A s \in Seq(Message), m \in Message : Append(s, m) \in Seq(Message)
    OBVIOUS
  <2>7. inbox' \in Seq(Message)
    BY <1>0, <2>1, <2>5, <2>6, Zenon DEF Shapes
  <2> QED
    BY <1>0, <1>10, <2>2, <2>7 DEF RemoteEcho, Shapes, devVars, staticVars, hisVars
<1>11. CASE RemoteAnswer
  BY <1>0, <1>11, EchoKernAssumption DEF RemoteAnswer, Answer, Shapes, Message, devVars, staticVars, hisVars, PAYLOAD_MIN_SIZE
<1>12. CASE CbPayload
  BY <1>0, <1>12, EchoKernAssumption DEF CbPayload, schedule_work, Count, Corrupt, Answer, Shapes, Message, devVars, staticVars, hisVars, PAYLOAD_MIN_SIZE
<1>13. CASE CbShutdown
  BY <1>0, <1>13, EchoKernAssumption DEF CbShutdown, Shapes, Message, devVars, staticVars, hisVars, PAYLOAD_MIN_SIZE
<1>14. CASE Remove
  BY <1>0, <1>14, EchoKernAssumption DEF Remove, Shapes, Message, devVars, staticVars, hisVars, PAYLOAD_MIN_SIZE
<1>15. CASE RemoveFree
  BY <1>0, <1>15, EchoKernAssumption DEF RemoveFree, Shapes, Message, devVars, staticVars, hisVars, PAYLOAD_MIN_SIZE
<1>16. CASE UNCHANGED vars
  BY <1>0, <1>16 DEF vars, Shapes, Message, devVars, staticVars, hisVars, PAYLOAD_MIN_SIZE
<1> QED
  BY <1>1, <1>2, <1>3, <1>4, <1>5, <1>6, <1>7, <1>8, <1>9, <1>10, <1>11, <1>12, <1>13, <1>14, <1>15, <1>16
     DEF Next, Driver, Worker

\* The links stay where the phase allows them.
LEMMA PhasesStep == KernInv /\ [Next]_vars => Phases'
<1> SUFFICES ASSUME KernInv, [Next]_vars PROVE Phases'
  OBVIOUS
<1>0. Shapes /\ Phases /\ OneInFlight
  BY DEF KernInv
<1>1. CASE ProbeData
  BY <1>0, <1>1 DEF ProbeData, Shapes, Phases, Links, OneInFlight, devVars, staticVars, hisVars
<1>2. CASE ProbeSend
  BY <1>0, <1>2 DEF ProbeSend, Shapes, Phases, Links, OneInFlight, devVars, staticVars, hisVars
<1>3. CASE ProbeWork
  BY <1>0, <1>3 DEF ProbeWork, Shapes, Phases, Links, OneInFlight, devVars, staticVars, hisVars
<1>4. CASE ProbeFails
  BY <1>0, <1>4 DEF ProbeFails, Shapes, Phases, Links, OneInFlight, devVars, staticVars, hisVars
<1>5. CASE ProbeSchedule
  BY <1>0, <1>5 DEF ProbeSchedule, Shapes, Phases, Links, OneInFlight, devVars, staticVars, hisVars
<1>6. CASE WorkStart
  BY <1>0, <1>6 DEF WorkStart, Shapes, Phases, Links, OneInFlight, devVars, staticVars, hisVars
<1>7. CASE SendShutdown
  BY <1>0, <1>7 DEF SendShutdown, Shapes, Phases, Links, OneInFlight, devVars, staticVars, hisVars
<1>8. CASE SendPayload
  BY <1>0, <1>8 DEF SendPayload, WorkEnd, Shapes, Phases, Links, OneInFlight, devVars, staticVars, hisVars
<1>9. CASE Report
  BY <1>0, <1>9 DEF Report, WorkEnd, Shapes, Phases, Links, OneInFlight, devVars, staticVars, hisVars
<1>10. CASE RemoteEcho
  BY <1>0, <1>10 DEF RemoteEcho, Shapes, Phases, Links, OneInFlight, devVars, staticVars, hisVars
<1>11. CASE RemoteAnswer
  BY <1>0, <1>11 DEF RemoteAnswer, Answer, Shapes, Phases, Links, OneInFlight, devVars, staticVars, hisVars
<1>12. CASE CbPayload
  <2>1. UNCHANGED <<bus, drvdata, worker, wire, answered>> /\ inbox # <<>> /\ inbox' = Tail(inbox)
    BY <1>12 DEF CbPayload
  <2>2. work' = (IF work = "none" THEN "none" ELSE "queued") /\ work' \in {"none", "queued"}
    BY <1>12 DEF CbPayload, schedule_work
  <2>3. late' = (late \/ bus \in {"flush_running", "destroy"})
    BY <1>12, Zenon DEF CbPayload, schedule_work
  <2>4. err_cnt' = spoilt' + greeted'
    BY <1>0, <1>12 DEF CbPayload, Count, Corrupt, Answer, Shapes, Phases
  <2>5. bus \in {"work", "schedule"} => Links' <= IF answered' THEN 1 ELSE 0
    BY <1>0, <2>1, <2>2 DEF Shapes, Phases, Links
  <2>6. (bus \notin {"unbound", "wild"} => drvdata) /\ (bus = "wild" => late)
    BY <1>0, Zenon DEF Phases
  <2>7. bus \in {"flush_running", "destroy"} => late'
    BY <2>3, Zenon
  <2>8. bus = "wild" => late'
    BY <2>3, <2>6, Zenon
  <2>9. bus \notin {"unbound", "init_msg"}
    BY <1>0, <2>1 DEF Phases
  <2>10. bus = "work" => work = "none" /\ worker = "idle" /\ wire = <<>>
    BY <1>0, Zenon DEF Phases
  <2>11. /\ bus \in {"schedule", "bound", "flush_running", "destroy"} => work # "none"
         /\ bus = "flush_queued" => work = "queued"
    BY <1>0, Zenon DEF Phases
  <2> QED
    BY <2>1, <2>2, <2>4, <2>5, <2>6, <2>7, <2>8, <2>9, <2>10, <2>11 DEF Phases
<1>13. CASE CbShutdown
  BY <1>0, <1>13 DEF CbShutdown, Shapes, Phases, Links, OneInFlight, devVars, staticVars, hisVars
<1>14. CASE Remove
  BY <1>0, <1>14 DEF Remove, Shapes, Phases, Links, OneInFlight, devVars, staticVars, hisVars
<1>15. CASE RemoveFree
  BY <1>0, <1>15 DEF RemoveFree, Shapes, Phases, Links, OneInFlight, devVars, staticVars, hisVars
<1>16. CASE UNCHANGED vars
  BY <1>0, <1>16 DEF vars, Shapes, Phases, Links, OneInFlight, devVars, staticVars, hisVars
<1> QED
  BY <1>1, <1>2, <1>3, <1>4, <1>5, <1>6, <1>7, <1>8, <1>9, <1>10, <1>11, <1>12, <1>13, <1>14, <1>15, <1>16
     DEF Next, Driver, Worker

\* No step adds a link too many.
LEMMA LinksStep == KernInv /\ [Next]_vars => OneInFlight'
<1> SUFFICES ASSUME KernInv, [Next]_vars PROVE OneInFlight'
  OBVIOUS
<1>0. Shapes /\ Phases /\ OneInFlight
  BY DEF KernInv
<1>1. CASE ProbeData
  BY <1>0, <1>1 DEF ProbeData, Shapes, Phases, Links, OneInFlight, devVars, staticVars, hisVars
<1>2. CASE ProbeSend
  BY <1>0, <1>2 DEF ProbeSend, Shapes, Phases, Links, OneInFlight, devVars, staticVars, hisVars
<1>3. CASE ProbeWork
  BY <1>0, <1>3 DEF ProbeWork, Shapes, Phases, Links, OneInFlight, devVars, staticVars, hisVars
<1>4. CASE ProbeFails
  BY <1>0, <1>4 DEF ProbeFails, Shapes, Phases, Links, OneInFlight, devVars, staticVars, hisVars
<1>5. CASE ProbeSchedule
  BY <1>0, <1>5 DEF ProbeSchedule, Shapes, Phases, Links, OneInFlight, devVars, staticVars, hisVars
<1>6. CASE WorkStart
  BY <1>0, <1>6 DEF WorkStart, Shapes, Phases, Links, OneInFlight, devVars, staticVars, hisVars
<1>7. CASE SendShutdown
  BY <1>0, <1>7 DEF SendShutdown, Shapes, Phases, Links, OneInFlight, devVars, staticVars, hisVars
<1>8. CASE SendPayload
  BY <1>0, <1>8 DEF SendPayload, WorkEnd, Shapes, Phases, Links, OneInFlight, devVars, staticVars, hisVars
<1>9. CASE Report
  BY <1>0, <1>9 DEF Report, WorkEnd, Shapes, Phases, Links, OneInFlight, devVars, staticVars, hisVars
<1>10. CASE RemoteEcho
  BY <1>0, <1>10 DEF RemoteEcho, Shapes, Phases, Links, OneInFlight, devVars, staticVars, hisVars
<1>11. CASE RemoteAnswer
  BY <1>0, <1>11 DEF RemoteAnswer, Answer, Shapes, Phases, Links, OneInFlight, devVars, staticVars, hisVars
<1>12. CASE CbPayload
  BY <1>0, <1>12 DEF CbPayload, schedule_work, Count, Corrupt, Answer, Shapes, Phases, Links, OneInFlight, devVars, staticVars, hisVars
<1>13. CASE CbShutdown
  BY <1>0, <1>13 DEF CbShutdown, Shapes, Phases, Links, OneInFlight, devVars, staticVars, hisVars
<1>14. CASE Remove
  BY <1>0, <1>14 DEF Remove, Shapes, Phases, Links, OneInFlight, devVars, staticVars, hisVars
<1>15. CASE RemoveFree
  BY <1>0, <1>15 DEF RemoveFree, Shapes, Phases, Links, OneInFlight, devVars, staticVars, hisVars
<1>16. CASE UNCHANGED vars
  BY <1>0, <1>16 DEF vars, Shapes, Phases, Links, OneInFlight, devVars, staticVars, hisVars
<1> QED
  BY <1>1, <1>2, <1>3, <1>4, <1>5, <1>6, <1>7, <1>8, <1>9, <1>10, <1>11, <1>12, <1>13, <1>14, <1>15, <1>16
     DEF Next, Driver, Worker

(***************************************************************************)
(* The strengthened invariant holds as long as the driver runs.            *)
(***************************************************************************)
THEOREM KernInvariance == Spec => []KernInv
<1>1. Init => KernInv
  BY DEF Init, KernInv, Shapes, Phases, OneInFlight, Links, PAYLOAD_MIN_SIZE
<1>2. KernInv /\ [Next]_vars => KernInv'
  BY ShapesStep, PhasesStep, LinksStep DEF KernInv
<1> QED
  BY <1>1, <1>2, PTL DEF Spec

(***************************************************************************)
(* The callback and probe never queue more than one chain of payloads, and *)
(* a second one only for an answer to the init_msg.                        *)
(***************************************************************************)
THEOREM ChainIsSingle == Spec => []OneInFlight
<1>1. KernInv => OneInFlight
  BY DEF KernInv
<1> QED
  BY <1>1, KernInvariance, PTL

(***************************************************************************)
(* What the work function prints is the number of spoilt echoes.           *)
(***************************************************************************)
THEOREM ReportTrue == Spec => []ReportIsTrue
<1>1. KernInv => ReportIsTrue
  <2> SUFFICES ASSUME KernInv, worker = "report", ~ answered PROVE wire = <<>> /\ inbox = <<>>
    BY DEF KernInv, Phases, ReportIsTrue
  <2>1. Len(wire) \in Nat /\ Len(inbox) \in Nat /\ Len(wire) + Len(inbox) <= 0
    BY LenProperties DEF KernInv, Shapes, OneInFlight, Links
  <2> QED
    BY <2>1, EmptySeq DEF KernInv, Shapes
<1> QED
  BY <1>1, KernInvariance, PTL

(***************************************************************************)
(* flush_work in remove covers every run queued before it: the work item   *)
(* is queued or runs without the device's data only if a callback queued   *)
(* it after that.                                                          *)
(***************************************************************************)
THEOREM WorkIsSafe == Spec => []WorkHasDevice
<1>1. KernInv => WorkHasDevice
  BY DEF KernInv, Shapes, Phases, WorkHasDevice
<1> QED
  BY <1>1, KernInvariance, PTL
=============================================================================
