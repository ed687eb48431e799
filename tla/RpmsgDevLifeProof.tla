-------------------------- MODULE RpmsgDevLifeProof --------------------------
(***************************************************************************)
(* Proofs about RpmsgDevLife, for any channels, descriptors and number of  *)
(* minors.  LifeInv is inductive: one lemma per conjunct, one step per     *)
(* action that can disturb it.                                             *)
(***************************************************************************)
EXTENDS RpmsgDevLife, TLAPS

\* Every step keeps what memory a channel has at each place.
LEMMA MemStep ==
  ASSUME TypeOK, MemInv, [Next]_vars
  PROVE  MemInv'
<1> USE DEF MemInv, HasLocal, HasKfifo, Goto
<1>1. ASSUME NEW c \in Chans, ChanNext(c) PROVE MemInv'
  <2>1. CASE ProbeStart(c) BY <2>1 DEF ProbeStart, TypeOK, ChanPc
  <2>2. CASE ProbeAlloc(c) BY <2>2 DEF ProbeAlloc, TypeOK, ChanPc
  <2>3. CASE ProbeKfifo(c) BY <2>3 DEF ProbeKfifo, TypeOK, ChanPc
  <2>4. CASE ProbeEpt(c) BY <2>4 DEF ProbeEpt, memVars, TypeOK, ChanPc
  <2>5. CASE ProbeData(c) BY <2>5 DEF ProbeData, TypeOK, ChanPc
  <2>6. CASE ProbeSend(c) BY <2>6 DEF ProbeSend, memVars, TypeOK, ChanPc
  <2>7. CASE ProbeMinor(c) BY <2>7 DEF ProbeMinor, OnError, memVars, TypeOK, ChanPc
  <2>8. CASE ProbeCdev(c) BY <2>8 DEF ProbeCdev, OnError, memVars, TypeOK, ChanPc
  <2>9. CASE ProbeNode(c) BY <2>9 DEF ProbeNode, memVars, TypeOK, ChanPc
  <2>10. CASE ProbeError2(c) BY <2>10 DEF ProbeError2, memVars, TypeOK, ChanPc
  <2>11. CASE ProbeError1(c) BY <2>11 DEF ProbeError1, TypeOK, ChanPc
  <2>12. CASE Unbind(c) BY <2>12 DEF Unbind, TypeOK, ChanPc
  <2>13. CASE RemoveStart(c) BY <2>13 DEF RemoveStart, memVars, TypeOK, ChanPc
  <2>14. CASE RemoveNode(c) BY <2>14 DEF RemoveNode, memVars, TypeOK, ChanPc
  <2>15. CASE RemoveCdev(c) BY <2>15 DEF RemoveCdev, memVars, TypeOK, ChanPc
  <2>16. CASE RemoveFree(c) BY <2>16 DEF RemoveFree, TypeOK, ChanPc
  <2> QED BY <1>1, <2>1, <2>2, <2>3, <2>4, <2>5, <2>6, <2>7, <2>8, <2>9, <2>10,
             <2>11, <2>12, <2>13, <2>14, <2>15, <2>16, Zenon DEF ChanNext, ChanStep
<1>2. CASE ModNext
  <2>1. UNCHANGED <<pc, local, kfifo>>
    BY <1>2 DEF ModNext, InitClass, InitRegion, InitRegister, FiniStart, FiniEnd, memVars
  <2> QED BY <2>1
<1>3. CASE UserNext
  <2>1. UNCHANGED <<pc, local, kfifo>>
    BY <1>3 DEF UserNext, rpmsg_dev_open, rpmsg_dev_release, memVars
  <2> QED BY <2>1
<1>4. CASE UNCHANGED vars
  BY <1>4 DEF vars, memVars
<1> QED BY <1>1, <1>2, <1>3, <1>4 DEF Next

\* Every step keeps the types of the flags.
LEMMA FlagsStep ==
  ASSUME TypeOK, [Next]_vars
  PROVE  /\ proxy' \in BOOLEAN /\ rpmsg_class' \in BOOLEAN /\ class' \in BOOLEAN
         /\ drvdata' \in [Chans -> BOOLEAN]
         /\ ept' \in [Chans -> BOOLEAN] /\ invited' \in [Chans -> BOOLEAN]
<1> USE DEF TypeOK
<1>1. ASSUME NEW c \in Chans, ChanNext(c)
      PROVE  /\ proxy' \in BOOLEAN /\ rpmsg_class' \in BOOLEAN /\ class' \in BOOLEAN
             /\ drvdata' \in [Chans -> BOOLEAN]
             /\ ept' \in [Chans -> BOOLEAN] /\ invited' \in [Chans -> BOOLEAN]
  <2>1. CASE ProbeStart(c) BY <2>1 DEF ProbeStart, modVars, memVars, msgVars
  <2>2. CASE ProbeAlloc(c) BY <2>2 DEF ProbeAlloc, modVars, memVars, msgVars
  <2>3. CASE ProbeKfifo(c) BY <2>3 DEF ProbeKfifo, modVars, memVars, msgVars
  <2>4. CASE ProbeEpt(c) BY <2>4, Zenon DEF ProbeEpt, modVars, memVars, msgVars
  <2>5. CASE ProbeData(c) BY <2>5 DEF ProbeData, modVars, memVars, msgVars
  <2>6. CASE ProbeSend(c) BY <2>6, Zenon DEF ProbeSend, modVars, memVars, msgVars
  <2>7. CASE ProbeMinor(c) BY <2>7 DEF ProbeMinor, OnError, modVars, memVars, msgVars
  <2>8. CASE ProbeCdev(c) BY <2>8 DEF ProbeCdev, OnError, modVars, memVars, msgVars
  <2>9. CASE ProbeNode(c) BY <2>9 DEF ProbeNode, modVars, memVars, msgVars
  <2>10. CASE ProbeError2(c) BY <2>10 DEF ProbeError2, modVars, memVars, msgVars
  <2>11. CASE ProbeError1(c) BY <2>11 DEF ProbeError1, modVars, memVars, msgVars
  <2>12. CASE Unbind(c) BY <2>12 DEF Unbind, modVars, memVars, msgVars
  <2>13. CASE RemoveStart(c) BY <2>13 DEF RemoveStart, modVars, memVars, msgVars
  <2>14. CASE RemoveNode(c) BY <2>14 DEF RemoveNode, modVars, memVars, msgVars
  <2>15. CASE RemoveCdev(c) BY <2>15 DEF RemoveCdev, modVars, memVars, msgVars
  <2>16. CASE RemoveFree(c) BY <2>16 DEF RemoveFree, modVars, memVars, msgVars
  <2> QED BY <1>1, <2>1, <2>2, <2>3, <2>4, <2>5, <2>6, <2>7, <2>8, <2>9, <2>10,
             <2>11, <2>12, <2>13, <2>14, <2>15, <2>16, Zenon DEF ChanNext, ChanStep
<1>2. CASE ModNext
  BY <1>2, Zenon DEF ModNext, InitClass, InitRegion, InitRegister, FiniStart, FiniEnd, DestroyClass, memVars, msgVars
<1>3. CASE UserNext
  BY <1>3 DEF UserNext, rpmsg_dev_open, rpmsg_dev_release, modVars, memVars, msgVars
<1>4. CASE UNCHANGED vars
  BY <1>4 DEF vars, modVars, memVars, msgVars
<1> QED BY <1>1, <1>2, <1>3, <1>4 DEF Next

\* Every step keeps the types.
LEMMA TypeStep ==
  ASSUME TypeOK, MinorInv, ModInv, [Next]_vars
  PROVE  TypeOK'
<1> DEFINE Rest ==
      /\ mod \in {"out", "region", "register", "in", "exit"}
      /\ regions \in Nat /\ refused \in Nat
      /\ next_minor \in 0 .. MaxMinors
      /\ pc \in [Chans -> ChanPc]
      /\ local \in [Chans -> {"none", "live", "freed"}]
      /\ kfifo \in [Chans -> {"none", "live", "freed"}]
      /\ minor \in [Chans -> Nat]
      /\ cdevs \in [Minors -> Chans \cup {None}]
      /\ nodes \subseteq Minors
      /\ file \in [Files -> Minors \cup {None}] /\ lost \subseteq Minors
<1> SUFFICES Rest' BY FlagsStep DEF TypeOK
<1>0. Rest BY DEF TypeOK
<1>a. \A c \in Chans : pc[c] \in HasMinor => minor[c] \in Minors
  BY DEF MinorInv
<1>1. ASSUME NEW c \in Chans, ChanNext(c) PROVE Rest'
  <2> USE <1>0 DEF ChanPc, Goto
  <2>1. CASE ProbeStart(c) BY <2>1 DEF ProbeStart, modVars, memVars, fileVars, userVars
  <2>2. CASE ProbeAlloc(c) BY <2>2 DEF ProbeAlloc, modVars, memVars, fileVars, userVars
  <2>3. CASE ProbeKfifo(c) BY <2>3 DEF ProbeKfifo, modVars, memVars, fileVars, userVars
  <2>4. CASE ProbeEpt(c) BY <2>4 DEF ProbeEpt, modVars, memVars, fileVars, userVars
  <2>5. CASE ProbeData(c) BY <2>5 DEF ProbeData, modVars, memVars, fileVars, userVars
  <2>6. CASE ProbeSend(c) BY <2>6 DEF ProbeSend, modVars, memVars, fileVars, userVars
  <2>7. CASE ProbeMinor(c)
    <3>1. next_minor < MaxMinors => next_minor \in Nat /\ next_minor + 1 \in 0 .. MaxMinors
      BY LifeAssumption
    <3> QED BY <2>7, <3>1 DEF ProbeMinor, OnError, memVars, userVars
  <2>8. CASE ProbeCdev(c) BY <2>8 DEF ProbeCdev, OnError, modVars, memVars, fileVars, userVars
  <2>9. CASE ProbeNode(c) BY <2>9, <1>a DEF ProbeNode, modVars, memVars, userVars, HasMinor, HasCdev
  <2>10. CASE ProbeError2(c) BY <2>10 DEF ProbeError2, modVars, memVars, fileVars, userVars
  <2>11. CASE ProbeError1(c) BY <2>11 DEF ProbeError1, modVars, memVars, fileVars, userVars
  <2>12. CASE Unbind(c) BY <2>12 DEF Unbind, modVars, memVars, fileVars, userVars
  <2>13. CASE RemoveStart(c) BY <2>13, <1>a DEF RemoveStart, modVars, memVars, fileVars, HasMinor, HasCdev
  <2>14. CASE RemoveNode(c) BY <2>14 DEF RemoveNode, modVars, memVars, fileVars, userVars
  <2>15. CASE RemoveCdev(c) BY <2>15, Zenon DEF RemoveCdev, modVars, memVars, fileVars, userVars
  <2>16. CASE RemoveFree(c) BY <2>16 DEF RemoveFree, modVars, memVars, fileVars, userVars
  <2> QED BY <1>1, <2>1, <2>2, <2>3, <2>4, <2>5, <2>6, <2>7, <2>8, <2>9, <2>10,
             <2>11, <2>12, <2>13, <2>14, <2>15, <2>16, Zenon DEF ChanNext, ChanStep
<1>2. CASE ModNext
  <2>1. CASE FiniEnd
    <3>1. regions - 1 \in Nat
      BY <1>0, <2>1 DEF FiniEnd, ModInv
    <3> QED BY <1>0, <2>1, <3>1 DEF FiniEnd, memVars, fileVars, userVars
  <2>2. CASE InitClass \/ InitRegion \/ InitRegister \/ FiniStart
    BY <1>0, <2>2, LifeAssumption DEF InitClass, InitRegion, InitRegister, FiniStart, memVars, fileVars, userVars
  <2> QED BY <1>2, <2>1, <2>2 DEF ModNext
<1>3. CASE UserNext
  BY <1>0, <1>3 DEF UserNext, rpmsg_dev_open, rpmsg_dev_release, modVars, memVars, fileVars
<1>4. CASE UNCHANGED vars
  BY <1>0, <1>4 DEF vars, modVars, memVars, fileVars, userVars
<1> QED BY <1>1, <1>2, <1>3, <1>4 DEF Next

\* Every step keeps when messages can reach the callback.
LEMMA MsgStep ==
  ASSUME TypeOK, MemInv, MsgInv, [Next]_vars
  PROVE  MsgInv'
<1> USE DEF MsgInv, MemInv, HasLocal, HasKfifo, HasEpt, Goto
<1>1. ASSUME NEW c \in Chans, ChanNext(c) PROVE MsgInv'
  <2>1. CASE ProbeStart(c) BY <2>1 DEF ProbeStart, memVars, msgVars, TypeOK, ChanPc
  <2>2. CASE ProbeAlloc(c) BY <2>2 DEF ProbeAlloc, memVars, msgVars, TypeOK, ChanPc
  <2>3. CASE ProbeKfifo(c) BY <2>3 DEF ProbeKfifo, memVars, msgVars, TypeOK, ChanPc
  <2>4. CASE ProbeEpt(c) BY <2>4 DEF ProbeEpt, memVars, msgVars, TypeOK, ChanPc
  <2>5. CASE ProbeData(c) BY <2>5 DEF ProbeData, memVars, msgVars, TypeOK, ChanPc
  <2>6. CASE ProbeSend(c) BY <2>6 DEF ProbeSend, memVars, msgVars, TypeOK, ChanPc
  <2>7. CASE ProbeMinor(c) BY <2>7 DEF ProbeMinor, OnError, memVars, msgVars, TypeOK, ChanPc
  <2>8. CASE ProbeCdev(c) BY <2>8 DEF ProbeCdev, OnError, memVars, msgVars, TypeOK, ChanPc
  <2>9. CASE ProbeNode(c) BY <2>9 DEF ProbeNode, memVars, msgVars, TypeOK, ChanPc
  <2>10. CASE ProbeError2(c) BY <2>10 DEF ProbeError2, memVars, msgVars, TypeOK, ChanPc
  <2>11. CASE ProbeError1(c) BY <2>11 DEF ProbeError1, memVars, msgVars, TypeOK, ChanPc
  <2>12. CASE Unbind(c) BY <2>12 DEF Unbind, memVars, msgVars, TypeOK, ChanPc
  <2>13. CASE RemoveStart(c) BY <2>13 DEF RemoveStart, memVars, msgVars, TypeOK, ChanPc
  <2>14. CASE RemoveNode(c) BY <2>14 DEF RemoveNode, memVars, msgVars, TypeOK, ChanPc
  <2>15. CASE RemoveCdev(c) BY <2>15 DEF RemoveCdev, memVars, msgVars, TypeOK, ChanPc
  <2>16. CASE RemoveFree(c) BY <2>16 DEF RemoveFree, memVars, msgVars, TypeOK, ChanPc
  <2> QED BY <1>1, <2>1, <2>2, <2>3, <2>4, <2>5, <2>6, <2>7, <2>8, <2>9, <2>10,
             <2>11, <2>12, <2>13, <2>14, <2>15, <2>16, Zenon DEF ChanNext, ChanStep
<1>2. CASE ModNext
  <2>1. UNCHANGED <<proxy, pc, ept, invited, drvdata, local>>
    BY <1>2 DEF ModNext, InitClass, InitRegion, InitRegister, FiniStart, FiniEnd, memVars, msgVars, fileVars, userVars
  <2> QED BY <2>1
<1>3. CASE UserNext
  <2>1. UNCHANGED <<proxy, pc, ept, invited, drvdata, local>>
    BY <1>3 DEF UserNext, rpmsg_dev_open, rpmsg_dev_release, memVars, msgVars, fileVars, userVars, modVars
  <2> QED BY <2>1
<1>4. CASE UNCHANGED vars
  <2>1. UNCHANGED <<proxy, pc, ept, invited, drvdata, local>>
    BY <1>4 DEF vars, memVars, msgVars, fileVars, userVars, modVars
  <2> QED BY <2>1
<1> QED BY <1>1, <1>2, <1>3, <1>4 DEF Next

\* Every step keeps what the module has registered.
LEMMA ModStep ==
  ASSUME TypeOK, ModInv, [Next]_vars
  PROVE  ModInv'
<1> USE DEF ModInv, Goto
<1>1. ASSUME NEW c \in Chans, ChanNext(c) PROVE ModInv'
  <2>1. mod \in {"in", "exit"}
    BY <1>1 DEF ChanNext, ChanStep, ProbeStart, ProbeAlloc, ProbeKfifo, ProbeEpt, ProbeData, ProbeSend,
       ProbeMinor, ProbeCdev, ProbeNode, ProbeError2, ProbeError1, Unbind, RemoveStart, RemoveNode,
       RemoveCdev, RemoveFree
  <2>2. UNCHANGED <<mod, rpmsg_class, class, regions, refused>>
    BY <1>1 DEF ChanNext, ChanStep, ProbeStart, ProbeAlloc, ProbeKfifo, ProbeEpt, ProbeData, ProbeSend,
       ProbeMinor, ProbeCdev, ProbeNode, ProbeError2, ProbeError1, Unbind, RemoveStart, RemoveNode,
       RemoveCdev, RemoveFree, modVars
  <2> QED BY <2>1, <2>2
<1>2. CASE ModNext
  <2>1. CASE InitClass BY <2>1 DEF InitClass, TypeOK
  <2>2. CASE InitRegion
    <3>1. mod = "region" /\ (\A c \in Chans : pc[c] = "none") /\ UNCHANGED <<pc, refused>>
      BY <2>2 DEF InitRegion
    <3>2. CASE regions' = regions + 1 /\ mod' = "register" /\ UNCHANGED <<class, rpmsg_class>>
      BY <3>1, <3>2 DEF TypeOK
    <3>3. CASE DestroyClass /\ mod' = "out" /\ UNCHANGED regions
      <4>1. ~ rpmsg_class' /\ (class' => refused > 0)
        BY <3>3, Zenon DEF DestroyClass
      <4> QED BY <3>1, <3>3, <4>1 DEF TypeOK
    <3> QED BY <2>2, <3>2, <3>3, Zenon DEF InitRegion
  <2>3. CASE InitRegister BY <2>3 DEF InitRegister, TypeOK
  <2>4. CASE FiniStart BY <2>4 DEF FiniStart, TypeOK
  <2>5. CASE FiniEnd
    <3>1. /\ mod = "exit" /\ mod' = "out" /\ (\A c \in Chans : pc[c] = "none")
          /\ regions' = regions - 1 /\ UNCHANGED <<pc, refused>>
      BY <2>5 DEF FiniEnd
    <3>2. ~ rpmsg_class' /\ (class' => refused > 0)
      BY <2>5, Zenon DEF FiniEnd, DestroyClass
    <3> QED BY <3>1, <3>2 DEF TypeOK
  <2> QED BY <1>2, <2>1, <2>2, <2>3, <2>4, <2>5 DEF ModNext
<1>3. CASE UserNext
  <2>1. UNCHANGED <<pc, mod, rpmsg_class, class, regions, refused>>
    BY <1>3 DEF UserNext, rpmsg_dev_open, rpmsg_dev_release, modVars
  <2> QED BY <2>1
<1>4. CASE UNCHANGED vars BY <1>4 DEF vars, modVars
<1> QED BY <1>1, <1>2, <1>3, <1>4 DEF Next

\* Every step keeps who owns which minor.
LEMMA MinorStep ==
  ASSUME TypeOK, MinorInv, ModInv, [Next]_vars
  PROVE  MinorInv'
<1> USE DEF MinorInv, HasMinor, HasCdev, Goto
<1>1. ASSUME NEW c \in Chans, ChanNext(c) PROVE MinorInv'
  <2>1. CASE ProbeStart(c) BY <2>1 DEF ProbeStart, modVars, fileVars, TypeOK, ChanPc
  <2>2. CASE ProbeAlloc(c) BY <2>2 DEF ProbeAlloc, modVars, fileVars, TypeOK, ChanPc
  <2>3. CASE ProbeKfifo(c) BY <2>3 DEF ProbeKfifo, modVars, fileVars, TypeOK, ChanPc
  <2>4. CASE ProbeEpt(c) BY <2>4 DEF ProbeEpt, modVars, fileVars, TypeOK, ChanPc
  <2>5. CASE ProbeData(c) BY <2>5 DEF ProbeData, modVars, fileVars, TypeOK, ChanPc
  <2>6. CASE ProbeSend(c) BY <2>6 DEF ProbeSend, modVars, fileVars, TypeOK, ChanPc
  <2>7. CASE ProbeMinor(c)
    <3>0. next_minor \in Nat /\ \A d \in Chans : minor[d] \in Nat
      BY DEF TypeOK
    <3>1. CASE next_minor < MaxMinors
      <4>1. /\ next_minor \in Minors /\ minor' = [minor EXCEPT ![c] = next_minor]
            /\ next_minor' = next_minor + 1 /\ pc' = [pc EXCEPT ![c] = "cdev"]
            /\ UNCHANGED <<rpmsg_class, cdevs, nodes>>
        BY <2>7, <3>1, <3>0, LifeAssumption DEF ProbeMinor, Minors
      <4>2. pc[c] = "minor" BY <2>7 DEF ProbeMinor
      <4>3. ASSUME NEW d \in Chans, d # c PROVE pc'[d] = pc[d] /\ minor'[d] = minor[d]
        BY <4>1, <4>3 DEF TypeOK
      <4>4. pc'[c] = "cdev" /\ minor'[c] = next_minor
        BY <4>1 DEF TypeOK
      <4>5. \A d \in Chans : pc'[d] \in HasMinor => minor'[d] \in Minors /\ minor'[d] < next_minor'
        BY <4>1, <4>3, <4>4, <3>0
      <4>6. \A d \in Chans : d # c /\ pc'[d] \in HasMinor => minor'[d] # minor'[c]
        BY <4>3, <4>4, <3>0
      <4>7. \A k \in Minors, d \in Chans : cdevs'[k] = d <=> (pc'[d] \in HasCdev /\ minor'[d] = k)
        BY <4>1, <4>2, <4>3, <4>4
      <4>8. \A k \in nodes' : rpmsg_class' /\ \E d \in Chans : pc'[d] \in {"bound", "destroy"} /\ minor'[d] = k
        BY <4>1, <4>2, <4>3
      <4>9. \A d, e \in Chans :
              d # e /\ pc'[d] \in HasMinor /\ pc'[e] \in HasMinor => minor'[d] # minor'[e]
        <5> TAKE d, e \in Chans
        <5>1. CASE d = c \/ e = c BY <4>6, <5>1, Zenon
        <5>2. CASE d # c /\ e # c
          <6>1. pc'[d] = pc[d] /\ minor'[d] = minor[d] /\ pc'[e] = pc[e] /\ minor'[e] = minor[e]
            BY <4>3, <5>2
          <6>2. d # e /\ pc[d] \in HasMinor /\ pc[e] \in HasMinor => minor[d] # minor[e]
            OBVIOUS
          <6> QED BY <6>1, <6>2
        <5> QED BY <5>1, <5>2
      <4> QED BY <4>5, <4>7, <4>8, <4>9, Zenon
    <3>2. CASE ~ (next_minor < MaxMinors)
      BY <2>7, <3>2 DEF ProbeMinor, OnError, TypeOK, ChanPc
    <3> QED BY <3>1, <3>2
  <2>8. CASE ProbeCdev(c) BY <2>8 DEF ProbeCdev, OnError, modVars, fileVars, TypeOK, ChanPc
  <2>9. CASE ProbeNode(c) BY <2>9 DEF ProbeNode, modVars, fileVars, TypeOK, ChanPc
  <2>10. CASE ProbeError2(c) BY <2>10 DEF ProbeError2, modVars, fileVars, TypeOK, ChanPc
  <2>11. CASE ProbeError1(c) BY <2>11 DEF ProbeError1, modVars, fileVars, TypeOK, ChanPc
  <2>12. CASE Unbind(c) BY <2>12 DEF Unbind, modVars, fileVars, TypeOK, ChanPc
  <2>13. CASE RemoveStart(c) BY <2>13 DEF RemoveStart, modVars, fileVars, TypeOK, ChanPc
  <2>14. CASE RemoveNode(c) BY <2>14 DEF RemoveNode, modVars, fileVars, TypeOK, ChanPc
  <2>15. CASE RemoveCdev(c)
    <3>1. /\ pc[c] = "cdevdel" /\ pc' = [pc EXCEPT ![c] = "free"]
          /\ cdevs' = [cdevs EXCEPT ![minor[c]] = None] /\ UNCHANGED <<rpmsg_class, next_minor, minor, nodes>>
      BY <2>15 DEF RemoveCdev, modVars
    <3>2. ASSUME NEW d \in Chans, d # c PROVE pc'[d] = pc[d]
      BY <3>1, <3>2 DEF TypeOK
    <3>3. pc'[c] = "free" BY <3>1 DEF TypeOK
    <3>4. ASSUME NEW k \in Minors, NEW d \in Chans
          PROVE  cdevs'[k] = d <=> (pc'[d] \in HasCdev /\ minor'[d] = k)
      <4>1. CASE k = minor[c]
        BY <4>1, <3>1, <3>2, <3>3, LifeAssumption DEF TypeOK
      <4>2. CASE k # minor[c]
        BY <4>2, <3>1, <3>2, <3>3 DEF TypeOK
      <4> QED BY <4>1, <4>2
    <3> QED BY <3>1, <3>2, <3>3, <3>4
  <2>16. CASE RemoveFree(c) BY <2>16 DEF RemoveFree, modVars, fileVars, TypeOK, ChanPc
  <2> QED BY <1>1, <2>1, <2>2, <2>3, <2>4, <2>5, <2>6, <2>7, <2>8, <2>9, <2>10,
             <2>11, <2>12, <2>13, <2>14, <2>15, <2>16, Zenon DEF ChanNext, ChanStep
<1>2. CASE ModNext
  <2>1. CASE FiniStart
    <3>1. UNCHANGED <<rpmsg_class, next_minor, pc, minor, cdevs, nodes>>
      BY <2>1 DEF FiniStart, fileVars
    <3> QED BY <3>1
  <2>2. CASE ModNext /\ ~ FiniStart
    <3>1. (\A c \in Chans : pc[c] = "none") /\ UNCHANGED <<pc, minor, cdevs, nodes>>
      BY <2>2 DEF ModNext, InitClass, InitRegion, InitRegister, FiniEnd, fileVars, ModInv
    <3>2. nodes' = {}
      BY <3>1
    <3> QED BY <3>1, <3>2
  <2> QED BY <1>2, <2>1, <2>2
<1>3. CASE UserNext
  <2>1. UNCHANGED <<rpmsg_class, next_minor, pc, minor, cdevs, nodes>>
    BY <1>3 DEF UserNext, rpmsg_dev_open, rpmsg_dev_release, modVars, fileVars
  <2> QED BY <2>1
<1>4. CASE UNCHANGED vars
  <2>1. UNCHANGED <<rpmsg_class, next_minor, pc, minor, cdevs, nodes>>
    BY <1>4 DEF vars, modVars, fileVars
  <2> QED BY <2>1
<1> QED BY <1>1, <1>2, <1>3, <1>4 DEF Next

\* Every step keeps what open files lead to.
LEMMA FileStep ==
  ASSUME TypeOK, MinorInv, ModInv, FileInv, [Next]_vars
  PROVE  FileInv'
<1> USE DEF FileInv, Goto
<1>1. ASSUME NEW c \in Chans, ChanNext(c) PROVE FileInv'
  <2>1. CASE ProbeStart(c) BY <2>1 DEF ProbeStart, modVars, fileVars, userVars, TypeOK, ChanPc
  <2>2. CASE ProbeAlloc(c) BY <2>2 DEF ProbeAlloc, modVars, fileVars, userVars, TypeOK, ChanPc
  <2>3. CASE ProbeKfifo(c) BY <2>3 DEF ProbeKfifo, modVars, fileVars, userVars, TypeOK, ChanPc
  <2>4. CASE ProbeEpt(c) BY <2>4 DEF ProbeEpt, modVars, fileVars, userVars, TypeOK, ChanPc
  <2>5. CASE ProbeData(c) BY <2>5 DEF ProbeData, modVars, fileVars, userVars, TypeOK, ChanPc
  <2>6. CASE ProbeSend(c) BY <2>6 DEF ProbeSend, modVars, fileVars, userVars, TypeOK, ChanPc
  <2>7. CASE ProbeMinor(c) BY <2>7 DEF ProbeMinor, OnError, modVars, fileVars, userVars, TypeOK, ChanPc
  <2>8. CASE ProbeCdev(c) BY <2>8 DEF ProbeCdev, OnError, modVars, fileVars, userVars, TypeOK, ChanPc
  <2>9. CASE ProbeNode(c) BY <2>9 DEF ProbeNode, modVars, fileVars, userVars, TypeOK, ChanPc
  <2>10. CASE ProbeError2(c) BY <2>10 DEF ProbeError2, modVars, fileVars, userVars, TypeOK, ChanPc
  <2>11. CASE ProbeError1(c) BY <2>11 DEF ProbeError1, modVars, fileVars, userVars, TypeOK, ChanPc
  <2>12. CASE Unbind(c) BY <2>12 DEF Unbind, modVars, fileVars, userVars, TypeOK, ChanPc
  <2>13. CASE RemoveStart(c) BY <2>13 DEF RemoveStart, modVars, fileVars, userVars, TypeOK, ChanPc
  <2>14. CASE RemoveNode(c) BY <2>14 DEF RemoveNode, modVars, fileVars, userVars, TypeOK, ChanPc
  <2>15. CASE RemoveCdev(c) BY <2>15 DEF RemoveCdev, modVars, fileVars, userVars, TypeOK, ChanPc
  <2>16. CASE RemoveFree(c) BY <2>16 DEF RemoveFree, modVars, fileVars, userVars, TypeOK, ChanPc
  <2> QED BY <1>1, <2>1, <2>2, <2>3, <2>4, <2>5, <2>6, <2>7, <2>8, <2>9, <2>10,
             <2>11, <2>12, <2>13, <2>14, <2>15, <2>16, Zenon DEF ChanNext, ChanStep
<1>2. CASE ModNext
  <2>1. CASE InitClass BY <2>1 DEF InitClass, fileVars, ModInv
  <2>2. CASE InitRegion BY <2>2 DEF InitRegion, fileVars, userVars
  <2>3. CASE InitRegister BY <2>3 DEF InitRegister, fileVars, userVars, ModInv
  <2>4. CASE FiniStart BY <2>4 DEF FiniStart, fileVars, userVars
  <2>5. CASE FiniEnd BY <2>5 DEF FiniEnd, fileVars, userVars
  <2> QED BY <1>2, <2>1, <2>2, <2>3, <2>4, <2>5 DEF ModNext
<1>3. CASE UserNext
  <2>1. ASSUME NEW f \in Files, rpmsg_dev_release(f) PROVE FileInv'
    BY <2>1 DEF rpmsg_dev_release, modVars, fileVars, TypeOK
  <2>2. ASSUME NEW f \in Files, NEW k \in Minors, rpmsg_dev_open(f, k) PROVE FileInv'
    <3>1. PICK c \in Chans : cdevs[k] = c
      BY <2>2 DEF rpmsg_dev_open, TypeOK
    <3>2. pc[c] \in HasCdev /\ minor[c] = k
      BY <3>1 DEF MinorInv
    <3>3. k \in lost \/ pc[c] \in {"node", "bound"}
      BY <2>2, <3>2 DEF rpmsg_dev_open, HasCdev
    <3> QED BY <2>2, <3>2, <3>3 DEF rpmsg_dev_open, modVars, fileVars, TypeOK
  <2> QED BY <1>3, <2>1, <2>2 DEF UserNext
<1>4. CASE UNCHANGED vars BY <1>4 DEF vars, modVars, fileVars, userVars
<1> QED BY <1>1, <1>2, <1>3, <1>4 DEF Next

-----------------------------------------------------------------------------
(***************************************************************************)
(* The inductive invariant holds: at every place of probe and remove, of   *)
(* either driver, a channel has exactly what the code has given it there,  *)
(* and the system has of the module what each load and unload left it.     *)
(***************************************************************************)
THEOREM LifeInvariance == Spec => []LifeInv
<1>1. Init => LifeInv
  <2> SUFFICES ASSUME Init PROVE LifeInv OBVIOUS
  <2>1. TypeOK
    <3>1. /\ proxy \in BOOLEAN /\ rpmsg_class \in BOOLEAN /\ class \in BOOLEAN
          /\ drvdata \in [Chans -> BOOLEAN]
          /\ ept \in [Chans -> BOOLEAN] /\ invited \in [Chans -> BOOLEAN]
      BY Zenon DEF Init
    <3>2. /\ mod \in {"out", "region", "register", "in", "exit"}
          /\ regions \in Nat /\ refused \in Nat
          /\ next_minor \in 0 .. MaxMinors
          /\ pc \in [Chans -> ChanPc]
          /\ local \in [Chans -> {"none", "live", "freed"}]
          /\ kfifo \in [Chans -> {"none", "live", "freed"}]
          /\ minor \in [Chans -> Nat]
          /\ cdevs \in [Minors -> Chans \cup {None}]
          /\ nodes \subseteq Minors
          /\ file \in [Files -> Minors \cup {None}] /\ lost \subseteq Minors
      BY LifeAssumption DEF Init, ChanPc
    <3> QED BY <3>1, <3>2 DEF TypeOK
  <2>2. MemInv BY Zenon DEF Init, MemInv, HasLocal, HasKfifo
  <2>3. MsgInv BY Zenon DEF Init, MsgInv
  <2>4. MinorInv BY LifeAssumption DEF Init, MinorInv, HasMinor, HasCdev
  <2>5. ModInv BY DEF Init, ModInv
  <2>6. FileInv BY DEF Init, FileInv
  <2> QED BY <2>1, <2>2, <2>3, <2>4, <2>5, <2>6 DEF LifeInv
<1>2. LifeInv /\ [Next]_vars => LifeInv'
  BY TypeStep, MemStep, MsgStep, MinorStep, ModStep, FileStep DEF LifeInv
<1> QED BY <1>1, <1>2, PTL DEF Spec

(***************************************************************************)
(* What the callback of either driver finds, for any number of channels.   *)
(***************************************************************************)
THEOREM CallbackSafe == Spec => []CbFindsDevice
<1>1. LifeInv => CbFindsDevice
  BY DEF LifeInv, TypeOK, ChanPc, MemInv, MsgInv, CbFindsDevice, HasEpt, HasKfifo
<1> QED BY <1>1, LifeInvariance, PTL

(***************************************************************************)
(* Device files and open files lead to live devices, for any number of     *)
(* channels, descriptors and minors.                                       *)
(***************************************************************************)
THEOREM FilesSafe == Spec => []FileReachesDevice
<1>1. LifeInv => FileReachesDevice
  <2> SUFFICES ASSUME LifeInv PROVE FileReachesDevice OBVIOUS
  <2> USE DEF LifeInv, MemInv, MinorInv, HasMinor, HasCdev, HasLocal, HasKfifo
  <2>1. ASSUME NEW k \in nodes
        PROVE  \E c \in Chans :
                 /\ cdevs[k] = c /\ minor[c] = k
                 /\ pc[c] \in {"bound", "destroy"}
                 /\ local[c] = "live" /\ kfifo[c] = "live"
    <3>1. k \in Minors BY DEF TypeOK
    <3> QED BY <3>1
  <2>2. ASSUME NEW f \in Files, file[f] # None
        PROVE  /\ mod = "in"
               /\ \/ file[f] \in lost
                  \/ \E c \in Chans :
                       cdevs[file[f]] = c /\ minor[c] = file[f] /\ local[c] = "live" /\ kfifo[c] = "live"
    <3>1. file[f] \in Minors BY <2>2 DEF TypeOK
    <3> QED BY <2>2, <3>1 DEF FileInv
  <2> QED BY <2>1, <2>2 DEF FileReachesDevice
<1> QED BY <1>1, LifeInvariance, PTL

(***************************************************************************)
(* What failed probes, removes, unloading and failed loads leave behind,   *)
(* for any number of loads: class_create may fail in each.                 *)
(***************************************************************************)
THEOREM CleanedUp == Spec => []NothingLeft
<1>1. LifeInv => NothingLeft
  BY DEF LifeInv, TypeOK, MemInv, MsgInv, MinorInv, ModInv, NothingLeft, HasLocal, HasKfifo, HasEpt, HasCdev
<1> QED BY <1>1, LifeInvariance, PTL
=============================================================================
