---------------------------- MODULE DynclkProof -----------------------------
(***************************************************************************)
(* Proofs about the pixel clock, for a table of any length its 4-bit       *)
(* counters allow and any rates, when both machines of the core see LOCKED *)
(* at the same edge: first about the core (AxiDynclk), then about the      *)
(* driver together with the core (DynclkDriver).                           *)
(***************************************************************************)
EXTENDS DynclkDriver, TLAPS

-----------------------------------------------------------------------------
(***************************************************************************)
(* The core.                                                               *)
(***************************************************************************)

\* An edge at which both machines see the same LOCKED.
EdgeAt(rst, c) ==
  /\ DrpEdge(rst, sen_reg, locked)
  /\ clk_state' = IF rst THEN "RESET" ELSE TopState(locked)
  /\ sen_reg' = (~ rst /\ SenNext)
  /\ ctrl' = (~ rst /\ c)

(***************************************************************************)
(* Without skew every step of the core is such an edge.                    *)
(***************************************************************************)
LEMMA EdgeIs ==
  ASSUME ~ Skew, Next
  PROVE  \E rst, c \in BOOLEAN : EdgeAt(rst, c)
  BY DEF Next, Edge, SeenLock, EdgeAt

(***************************************************************************)
(* What the MMCM and the ROM do at an edge, whatever state the machine is  *)
(* in.                                                                     *)
(***************************************************************************)
LEMMA MmcmShapes ==
  ASSUME Shapes, NEW rst \in BOOLEAN, NEW c \in BOOLEAN, EdgeAt(rst, c)
  PROVE  /\ rom_do' \in Nat
         /\ {locked, drdy, busy, again, sen_reg, ctrl}' \subseteq BOOLEAN
<1>1. locked' \in BOOLEAN
  BY Zenon DEF Shapes, EdgeAt, DrpEdge, MmcmLock
<1>2. drdy' \in BOOLEAN /\ busy' \in BOOLEAN
  BY Zenon DEF Shapes, EdgeAt, DrpEdge, MmcmAccess
<1>3. again' \in BOOLEAN /\ sen_reg' \in BOOLEAN /\ ctrl' \in BOOLEAN
  BY DEF Shapes, EdgeAt, DrpEdge, Walked, SenNext
<1>4. rom_do' \in Nat
  BY DrpAssumption DEF Shapes, EdgeAt, DrpEdge, RomStep, RomRead
<1> QED BY <1>1, <1>2, <1>3, <1>4

(***************************************************************************)
(* The machine stays in its states and its registers keep their types.     *)
(***************************************************************************)
LEMMA ShapesStep ==
  ASSUME Shapes, NEW rst \in BOOLEAN, NEW c \in BOOLEAN, EdgeAt(rst, c)
  PROVE  Shapes'
<1>1. regs' \in [srdy : BOOLEAN, daddr : Nat, dwe : BOOLEAN, den : BOOLEAN,
                 rst_mmcm : BOOLEAN, mask : Nat, bits : Nat, rom_addr : Nat, state_count : Nat]
  <2>a. N \in Nat
    BY DrpAssumption
  <2>b. (regs.rom_addr + 1) % 16 \in Nat /\ (regs.state_count + 15) % 16 \in Nat
    BY DEF Shapes
  <2>c. locked \in BOOLEAN
    BY DEF Shapes
  <2>1. CASE Restart(rst) BY <2>1, <2>a, Zenon DEF Shapes, Restart, Past, Default
  <2>2. CASE WaitLock(rst, locked) BY <2>2, <2>a, <2>c, Zenon DEF Shapes, WaitLock, Default
  <2>3. CASE WaitSen(rst, sen_reg) BY <2>3, Zenon DEF Shapes, WaitSen, Default
  <2>4. CASE Address(rst) BY <2>4, Zenon DEF Shapes, Address, Default
  <2>5. CASE WaitADrdy(rst) BY <2>5, Zenon DEF Shapes, WaitADrdy, Default
  <2>6. CASE Bitmask(rst) BY <2>6, Zenon DEF Shapes, Bitmask, Default
  <2>7. CASE Bitset(rst) BY <2>7, <2>b, Zenon DEF Shapes, Bitset, Default
  <2>8. CASE Write(rst) BY <2>8, <2>b, Zenon DEF Shapes, Write, Default
  <2>9. CASE WaitDrdy(rst) BY <2>9, Zenon DEF Shapes, WaitDrdy, Default
  <2> QED BY <2>1, <2>2, <2>3, <2>4, <2>5, <2>6, <2>7, <2>8, <2>9 DEF EdgeAt, DrpEdge, Machine
<1>2. current_state' \in Configuring \cup {"RESTART", "WAIT_LOCK", "WAIT_SEN"}
  BY DEF Shapes, EdgeAt, DrpEdge, Machine, Restart, WaitLock, WaitSen, Address,
       WaitADrdy, Bitmask, Bitset, Write, WaitDrdy, Goto, Configuring
<1>3. clk_state' \in {"RESET", "WAIT_LOCKED", "WAIT_EN", "WAIT_SRDY", "ENABLED"}
  BY DEF Shapes, EdgeAt, TopState
<1> QED BY <1>1, <1>2, <1>3, MmcmShapes DEF Shapes

\* The state the machine goes to, and the values its registers take, by state.
After ==
  CASE current_state = "RESTART"     -> "WAIT_LOCK"
    [] current_state = "WAIT_LOCK"   -> IF locked THEN "WAIT_SEN" ELSE "WAIT_LOCK"
    [] current_state = "WAIT_SEN"    -> IF sen_reg THEN "ADDRESS" ELSE "WAIT_SEN"
    [] current_state = "ADDRESS"     -> "WAIT_A_DRDY"
    [] current_state = "WAIT_A_DRDY" -> IF drdy THEN "BITMASK" ELSE "WAIT_A_DRDY"
    [] current_state = "BITMASK"     -> "BITSET"
    [] current_state = "BITSET"      -> "WRITE"
    [] current_state = "WRITE"       -> "WAIT_DRDY"
    [] current_state = "WAIT_DRDY"   -> IF ~ drdy THEN "WAIT_DRDY"
                                        ELSE IF regs.state_count > 0 THEN "ADDRESS" ELSE "WAIT_LOCK"

(***************************************************************************)
(* The next state, from the actions of mmcme2_drp.v.                       *)
(***************************************************************************)
LEMMA StateAfter ==
  ASSUME NEW rst \in BOOLEAN, NEW c \in BOOLEAN, EdgeAt(rst, c)
  PROVE  current_state' = IF rst THEN "RESTART" ELSE After
<1>1. CASE Restart(rst) BY <1>1 DEF Restart, Goto, After
<1>2. CASE WaitLock(rst, locked) BY <1>2 DEF WaitLock, Goto, After
<1>3. CASE WaitSen(rst, sen_reg) BY <1>3 DEF WaitSen, Goto, After
<1>4. CASE Address(rst) BY <1>4 DEF Address, Goto, After
<1>5. CASE WaitADrdy(rst) BY <1>5 DEF WaitADrdy, Goto, After
<1>6. CASE Bitmask(rst) BY <1>6 DEF Bitmask, Goto, After
<1>7. CASE Bitset(rst) BY <1>7 DEF Bitset, Goto, After
<1>8. CASE Write(rst) BY <1>8 DEF Write, Goto, After
<1>9. CASE WaitDrdy(rst) BY <1>9 DEF WaitDrdy, Goto, After
<1> QED BY <1>1, <1>2, <1>3, <1>4, <1>5, <1>6, <1>7, <1>8, <1>9 DEF EdgeAt, DrpEdge, Machine

(***************************************************************************)
(* The outputs to the MMCM and to the control machine.                     *)
(***************************************************************************)
LEMMA OutputsAfter ==
  ASSUME Shapes, NEW rst \in BOOLEAN, NEW c \in BOOLEAN, EdgeAt(rst, c)
  PROVE  /\ regs'.den <=> current_state \in {"ADDRESS", "WRITE"}
         /\ regs'.dwe <=> current_state = "WRITE"
         /\ regs'.srdy <=> current_state = "WAIT_LOCK" /\ locked
         /\ regs'.rst_mmcm <=> \/ current_state \in {"RESTART", "ADDRESS"}
                               \/ current_state # "WAIT_LOCK" /\ regs.rst_mmcm
<1>1. CASE Restart(rst) BY <1>1 DEF Shapes, Restart, Default
<1>2. CASE WaitLock(rst, locked) BY <1>2 DEF Shapes, WaitLock, Default
<1>3. CASE WaitSen(rst, sen_reg) BY <1>3 DEF Shapes, WaitSen, Default
<1>4. CASE Address(rst) BY <1>4 DEF Shapes, Address, Default
<1>5. CASE WaitADrdy(rst) BY <1>5 DEF Shapes, WaitADrdy, Default
<1>6. CASE Bitmask(rst) BY <1>6 DEF Shapes, Bitmask, Default
<1>7. CASE Bitset(rst) BY <1>7 DEF Shapes, Bitset, Default
<1>8. CASE Write(rst) BY <1>8 DEF Shapes, Write, Default
<1>9. CASE WaitDrdy(rst) BY <1>9 DEF Shapes, WaitDrdy, Default
<1> QED BY <1>1, <1>2, <1>3, <1>4, <1>5, <1>6, <1>7, <1>8, <1>9 DEF EdgeAt, DrpEdge, Machine

(***************************************************************************)
(* The registers that walk the table.                                      *)
(***************************************************************************)
LEMMA TableAfter ==
  ASSUME Shapes, NEW rst \in BOOLEAN, NEW c \in BOOLEAN, EdgeAt(rst, c)
  PROVE  /\ regs'.rom_addr = IF current_state = "RESTART" \/ (current_state = "WAIT_SEN" /\ sen_reg)
                             THEN 0
                             ELSE IF current_state = "BITSET" THEN (regs.rom_addr + 1) % 16
                             ELSE regs.rom_addr
         /\ regs'.state_count = IF current_state = "WAIT_LOCK" THEN N
                                ELSE IF current_state = "WRITE" THEN (regs.state_count + 15) % 16
                                ELSE regs.state_count
         /\ current_state # "RESTART" =>
              /\ regs'.daddr = IF current_state = "ADDRESS" THEN rom_do ELSE regs.daddr
              /\ regs'.mask = IF current_state = "BITMASK" THEN rom_do ELSE regs.mask
              /\ regs'.bits = IF current_state = "BITSET" THEN rom_do ELSE regs.bits
<1>1. CASE Restart(rst) BY <1>1 DEF Shapes, Restart, Default
<1>2. CASE WaitLock(rst, locked) BY <1>2 DEF Shapes, WaitLock, Default
<1>3. CASE WaitSen(rst, sen_reg) BY <1>3 DEF Shapes, WaitSen, Default
<1>4. CASE Address(rst) BY <1>4 DEF Shapes, Address, Default
<1>5. CASE WaitADrdy(rst) BY <1>5 DEF Shapes, WaitADrdy, Default
<1>6. CASE Bitmask(rst) BY <1>6 DEF Shapes, Bitmask, Default
<1>7. CASE Bitset(rst) BY <1>7 DEF Shapes, Bitset, Default
<1>8. CASE Write(rst) BY <1>8 DEF Shapes, Write, Default
<1>9. CASE WaitDrdy(rst) BY <1>9 DEF Shapes, WaitDrdy, Default
<1> QED BY <1>1, <1>2, <1>3, <1>4, <1>5, <1>6, <1>7, <1>8, <1>9 DEF EdgeAt, DrpEdge, Machine

(***************************************************************************)
(* Accesses follow each other and the MMCM is in reset during each.  An    *)
(* access a reset has interrupted is over before the machine goes on,      *)
(* because the MMCM does not lock before.                                  *)
(***************************************************************************)
LEMMA AccessesStep ==
  ASSUME Shapes, Accesses, NEW rst \in BOOLEAN, NEW c \in BOOLEAN, EdgeAt(rst, c)
  PROVE  Accesses'
<1>1. /\ drdy' => busy
      /\ busy' <=> regs.den \/ (busy /\ ~ drdy')
  BY Zenon DEF Shapes, EdgeAt, DrpEdge, MmcmAccess
<1>2. locked' => /\ ~ regs.rst_mmcm
                 /\ locked \/ (~ busy /\ ~ regs.den)
  BY Zenon DEF Shapes, EdgeAt, DrpEdge, MmcmLock
<1>3. (busy \/ drdy => ~ locked)' /\ (busy => ~ drdy)'
  BY <1>1, <1>2 DEF Accesses
<1>4. (regs.den => regs.rst_mmcm /\ ~ busy /\ ~ drdy)'
  BY <1>1, OutputsAfter DEF Accesses, Configuring
<1>5. (current_state \in {"WAIT_SEN", "ADDRESS", "BITMASK", "BITSET", "WRITE"} =>
         ~ regs.den /\ ~ busy /\ ~ drdy)'
  BY <1>1, OutputsAfter, StateAfter DEF Accesses, After, Shapes, Configuring
<1>6. (current_state = "WAIT_LOCK" => ~ regs.den)'
  BY OutputsAfter, StateAfter DEF After, Shapes, Configuring
<1>7. (current_state \in {"WAIT_A_DRDY", "WAIT_DRDY"} => regs.den \/ busy \/ drdy)'
  BY <1>1, OutputsAfter, StateAfter DEF Accesses, After, Shapes, Configuring
<1>8. (current_state \in Configuring \ {"ADDRESS"} => regs.rst_mmcm)'
  BY OutputsAfter, StateAfter DEF Accesses, After, Shapes, Configuring
<1>9. (current_state = "WAIT_SEN" => ~ regs.rst_mmcm)'
  BY OutputsAfter, StateAfter DEF Accesses, After, Shapes, Configuring
<1> QED BY <1>3, <1>4, <1>5, <1>6, <1>7, <1>8, <1>9 DEF Accesses

(***************************************************************************)
(* The counters walk the table in step, and what was taken of a word is    *)
(* that word's; the address alone may be stale, at the first word.         *)
(***************************************************************************)
LEMMA TableStep ==
  ASSUME Shapes, Accesses, Table, NEW rst \in BOOLEAN, NEW c \in BOOLEAN, EdgeAt(rst, c)
  PROVE  Table'
<1>1. /\ N \in Nat /\ N \in 2 .. 15
      /\ regs.rom_addr \in Nat /\ regs.state_count \in Nat
  BY DrpAssumption DEF Shapes
<1>2. rom_do' = regs.rom_addr \/ regs.rom_addr >= N
  BY <1>1 DEF EdgeAt, DrpEdge, RomStep, RomRead
<1>3. again' <=> /\ current_state # "RESTART"
                 /\ again \/ (current_state = "WAIT_DRDY" /\ current_state' = "WAIT_LOCK")
  BY DEF EdgeAt, DrpEdge, Walked, Shapes
<1>4. CASE current_state' = "RESTART"
  BY <1>1, <1>3, <1>4, OutputsAfter, TableAfter DEF Table, Word, Configuring
<1>5. CASE current_state' # "RESTART"
  <2>0. current_state' = After
    BY <1>5, StateAfter
  <2>1. CASE current_state = "RESTART"
    BY <2>1, <2>0, <1>1, <1>2, <1>3, OutputsAfter, TableAfter
       DEF Table, Accesses, After, Word, Words, Configuring
  <2>2. CASE current_state = "WAIT_LOCK"
    BY <2>2, <2>0, <1>1, <1>2, <1>3, OutputsAfter, TableAfter
       DEF Table, Accesses, After, Word, Words, Configuring
  <2>3. CASE current_state = "WAIT_SEN"
    BY <2>3, <2>0, <1>1, <1>2, <1>3, OutputsAfter, TableAfter
       DEF Table, Accesses, After, Word, Words, Configuring
  <2>4. CASE current_state = "ADDRESS"
    BY <2>4, <2>0, <1>1, <1>2, <1>3, OutputsAfter, TableAfter
       DEF Table, Accesses, After, Word, Words, Configuring
  <2>5. CASE current_state = "WAIT_A_DRDY"
    BY <2>5, <2>0, <1>1, <1>2, <1>3, OutputsAfter, TableAfter
       DEF Table, Accesses, After, Word, Words, Configuring
  <2>6. CASE current_state = "BITMASK"
    BY <2>6, <2>0, <1>1, <1>2, <1>3, OutputsAfter, TableAfter
       DEF Table, Accesses, After, Word, Words, Configuring
  <2>7. CASE current_state = "BITSET"
    BY <2>7, <2>0, <1>1, <1>2, <1>3, OutputsAfter, TableAfter
       DEF Table, Accesses, After, Word, Words, Configuring
  <2>8. CASE current_state = "WRITE"
    <3>1. regs.state_count = N - (regs.rom_addr - 1) /\ regs.rom_addr \in 1 .. N
      BY <2>8, <1>1 DEF Table, Word, Words, Configuring
    <3>2. \A k \in 1 .. 15 : (k + 15) % 16 = k - 1
      OBVIOUS
    <3>3. (regs.state_count + 15) % 16 = N - regs.rom_addr
      BY <3>1, <3>2, <1>1
    <3> QED
      BY <3>1, <3>3, <2>8, <2>0, <1>1, <1>2, <1>3, OutputsAfter, TableAfter
         DEF Table, Accesses, After, Word, Words, Configuring
  <2>9. CASE current_state = "WAIT_DRDY"
    BY <2>9, <2>0, <1>1, <1>2, <1>3, OutputsAfter, TableAfter
       DEF Table, Accesses, After, Word, Words, Configuring
  <2> QED BY <2>1, <2>2, <2>3, <2>4, <2>5, <2>6, <2>7, <2>8, <2>9 DEF Shapes, Configuring
<1> QED BY <1>4, <1>5

(***************************************************************************)
(* What has been written stays written until the next walk begins, and a   *)
(* write that is asked for is done at the next edge.                       *)
(***************************************************************************)
LEMMA WrittenGrows ==
  ASSUME Shapes, NEW rst \in BOOLEAN, NEW c \in BOOLEAN, EdgeAt(rst, c),
         ~ (current_state = "WAIT_SEN" /\ current_state' = "ADDRESS")
  PROVE  /\ written \subseteq written'
         /\ regs.den /\ regs.dwe => <<regs.daddr, regs.mask, regs.bits>> \in written'
  BY DEF EdgeAt, DrpEdge, MmcmAccess

(***************************************************************************)
(* The words behind the machine are in the MMCM.                           *)
(***************************************************************************)
LEMMA ProgressStep ==
  ASSUME Shapes, Accesses, Table, Progress, Table',
         NEW rst \in BOOLEAN, NEW c \in BOOLEAN, EdgeAt(rst, c)
  PROVE  /\ Progress'
         /\ current_state = "WAIT_DRDY" /\ current_state' = "WAIT_LOCK" => Done(N)'
<1>1. N \in Nat /\ regs.rom_addr \in Nat /\ regs'.rom_addr \in Nat
  BY DrpAssumption, ShapesStep DEF Shapes
<1>2. CASE current_state' = "RESTART"
  BY <1>2 DEF Progress, Configuring
<1>3. CASE current_state' # "RESTART"
  <2>0. current_state' = After
    BY <1>3, StateAfter
  <2>1. CASE current_state \in {"RESTART", "WAIT_LOCK"}
    BY <2>1, <2>0 DEF Progress, After, Configuring
  <2>2. CASE current_state = "WAIT_SEN"
    <3>1. current_state' = "ADDRESS" => regs'.rom_addr = 0
      BY <2>2, <2>0, TableAfter DEF After, Shapes
    <3> QED BY <3>1, <2>2, <2>0 DEF Progress, After, Configuring, Done, Word
  <2>3. CASE current_state \in {"ADDRESS", "WAIT_A_DRDY", "BITMASK"}
    BY <2>3, <2>0, <1>1, WrittenGrows, TableAfter DEF Progress, After, Configuring, Done, Word
  <2>4. CASE current_state \in {"BITSET", "WRITE"}
    <3>1. Word' = Word /\ (current_state' = "WAIT_DRDY" => regs'.dwe)
      <4>1. CASE current_state = "BITSET"
        BY <4>1, <2>0, <1>1, TableAfter, DrpAssumption DEF After, Word, Words, Table, Configuring
      <4>2. CASE current_state = "WRITE"
        BY <4>2, <2>0, TableAfter, OutputsAfter DEF After, Word
      <4> QED BY <4>1, <4>2, <2>4
    <3> QED BY <3>1, <2>4, <2>0, WrittenGrows DEF Progress, After, Configuring, Done
  <2>5. CASE current_state = "WAIT_DRDY"
    <3>1. /\ regs'.rom_addr = regs.rom_addr /\ ~ regs'.dwe
          /\ regs.rom_addr \in 1 .. N /\ Word = regs.rom_addr - 1
      BY <2>5, <1>1, TableAfter, OutputsAfter DEF Table, Word, Words, Configuring
    <3>a. Word \in Nat
      BY <3>1, <1>1
    <3>b. \A n \in Nat : (n + 1) - 1 = n /\ \A w \in 1 .. n : w \in 1 .. n - 1 \/ (w = n /\ n # 0)
      OBVIOUS
    <3>2. \A w \in 1 .. Word : <<w, w, w>> \in written'
      <4>1. CASE ~ regs.dwe
        BY <4>1, <2>5, <3>a, <3>b, <2>0, WrittenGrows, Zenon DEF Progress, Configuring, Done
      <4>2. CASE regs.dwe
        <5>1. \A w \in 1 .. Word - 1 : <<w, w, w>> \in written'
          BY <4>2, <2>5, <3>1, <2>0, WrittenGrows, Zenon DEF Progress, Configuring, Done
        <5>2. Word # 0 => <<Word, Word, Word>> \in written'
          BY <4>2, <2>5, <2>0, WrittenGrows DEF Table, Configuring
        <5> QED BY <5>1, <5>2, <3>a, <3>b, Zenon
      <4> QED BY <4>1, <4>2, Zenon
    <3>3. CASE current_state' = "WAIT_DRDY"
      <4>1. Word' = Word
        BY <2>5, <3>1, <3>3 DEF Word
      <4> QED BY <4>1, <3>1, <3>2, <3>3, <1>1 DEF Progress, Done, Configuring
    <3>4. CASE current_state' = "ADDRESS"
      <4>1. Word' = Word + 1
        BY <2>5, <3>1, <3>4, <1>1 DEF Word
      <4> QED BY <4>1, <3>1, <3>2, <3>4, <1>1 DEF Progress, Done, Configuring
    <3>5. CASE current_state' = "WAIT_LOCK"
      <4>1. regs.rom_addr = N
        BY <2>5, <2>0, <3>1, <3>5, <1>1 DEF After, Table, Shapes
      <4> QED BY <4>1, <3>1, <3>2, <3>5, <1>1 DEF Progress, Done, Configuring
    <3> QED BY <3>3, <3>4, <3>5, <2>5, <2>0 DEF After
  <2> QED BY <2>1, <2>2, <2>3, <2>4, <2>5 DEF Shapes, Configuring
<1> QED BY <1>2, <1>3

(***************************************************************************)
(* The control machine and the reconfiguration machine take turns: SEN     *)
(* finds the other in WAIT_SEN, and SRDY in WAIT_SRDY ends a whole walk.   *)
(***************************************************************************)
LEMMA TurnsStep ==
  ASSUME Shapes, Accesses, Table, Progress, Turns, Table',
         NEW rst \in BOOLEAN, NEW c \in BOOLEAN, EdgeAt(rst, c)
  PROVE  Turns'
<1>1. /\ clk_state' = IF rst THEN "RESET" ELSE TopState(locked)
      /\ sen_reg' <=> ~ rst /\ SenNext
  BY Zenon DEF EdgeAt, SenNext
<1>2. CASE rst
  BY <1>2, <1>1, StateAfter, Zenon DEF Turns
<1>3. CASE ~ rst
  <2>0. clk_state' = TopState(locked) /\ current_state' = After /\ (sen_reg' <=> SenNext)
    BY <1>3, <1>1, StateAfter
  <2>1. CASE clk_state = "RESET"
    BY <2>0, <2>1, Zenon DEF Turns, TopState, After, SenNext
  <2>2. CASE clk_state = "WAIT_LOCKED"
    BY <2>0, <2>2 DEF Turns, TopState, After, SenNext
  <2>3. CASE clk_state = "WAIT_EN"
    BY <2>0, <2>3, OutputsAfter DEF Turns, TopState, After, SenNext
  <2>4. CASE clk_state = "WAIT_SRDY"
    <3>1. ~ sen_reg'
      BY <2>0, <2>4 DEF SenNext
    <3>2. CASE current_state = "WAIT_SEN"
      <4>1. CASE sen_reg
        BY <4>1, <3>1, <3>2, <2>0, <2>4, OutputsAfter DEF Turns, TopState, After
      <4>2. CASE ~ sen_reg
        <5>1. regs.srdy /\ locked /\ Done(N) /\ ~ regs.rst_mmcm
          BY <4>2, <3>2, <2>4 DEF Turns, Accesses
        <5>2. clk_state' = "ENABLED" /\ current_state' = "WAIT_SEN"
          BY <5>1, <4>2, <3>2, <2>0, <2>4 DEF TopState, After
        <5>3. locked' /\ ~ regs'.rst_mmcm
          BY <5>1, <3>2, OutputsAfter, Zenon DEF EdgeAt, DrpEdge, MmcmLock, Shapes
        <5>4. Done(N)'
          BY <5>1, <5>2, WrittenGrows, Zenon DEF Done
        <5> QED BY <5>2, <5>3, <5>4, <3>1 DEF Turns
      <4> QED BY <4>1, <4>2
    <3>3. CASE current_state = "WAIT_LOCK"
      <4>1. clk_state' = "WAIT_SRDY" /\ Done(N)'
        BY <3>3, <2>0, <2>4, WrittenGrows DEF Turns, TopState, After, Done
      <4>2. CASE locked
        <5>1. locked' /\ regs'.srdy
          BY <4>2, <3>3, <2>4, OutputsAfter, Zenon DEF Turns, EdgeAt, DrpEdge, MmcmLock, Shapes
        <5> QED BY <5>1, <4>1, <4>2, <3>1, <3>3, <2>0 DEF Turns, After
      <4>3. CASE ~ locked
        BY <4>1, <4>3, <3>1, <3>3, <2>0, OutputsAfter DEF Turns, After
      <4> QED BY <4>2, <4>3
    <3>4. CASE current_state \in Configuring
      <4>1. clk_state' = "WAIT_SRDY" /\ ~ regs'.srdy
        BY <3>4, <2>0, <2>4, OutputsAfter DEF Turns, TopState, Configuring
      <4>2. current_state' \in Configuring \/ (current_state = "WAIT_DRDY" /\ current_state' = "WAIT_LOCK")
        BY <3>4, <2>0 DEF After, Configuring
      <4>3. current_state = "WAIT_DRDY" => ~ locked'
        BY Zenon DEF Accesses, Configuring, EdgeAt, DrpEdge, MmcmLock
      <4>4. current_state' = "WAIT_LOCK" => Done(N)'
        BY <4>2, ProgressStep DEF Configuring
      <4> QED BY <4>1, <4>2, <4>3, <4>4, <3>1 DEF Turns, Configuring
    <3> QED BY <3>2, <3>3, <3>4, <2>4 DEF Turns, Shapes
  <2>5. CASE clk_state = "ENABLED"
    <3>1. current_state' = "WAIT_SEN" /\ ~ sen_reg'
      BY <2>0, <2>5 DEF Turns, After, SenNext
    <3>2. locked' /\ Done(N)'
      BY <2>5, <3>1, OutputsAfter, WrittenGrows, Zenon
         DEF Turns, Accesses, Done, EdgeAt, DrpEdge, MmcmLock, Shapes
    <3> QED BY <2>0, <2>5, <3>1, <3>2 DEF Turns, TopState
  <2> QED BY <2>1, <2>2, <2>3, <2>4, <2>5 DEF Shapes
<1> QED BY <1>2, <1>3

\* The invariant holds after power-on,
LEMMA InitCoreInv == Init => CoreInv
<1> SUFFICES ASSUME Init PROVE CoreInv
  OBVIOUS
<1>1. /\ current_state = "RESTART" /\ clk_state = "RESET" /\ ~ sen_reg
      /\ ~ busy /\ ~ drdy /\ ~ regs.den /\ ~ regs.dwe
  BY DEF Init, DrpInit
<1>2. Shapes
  <2>1. N \in Nat
    BY DrpAssumption
  <2>2. locked \in BOOLEAN /\ rom_do \in Nat
    BY DEF Init, DrpInit
  <2>3. {locked, drdy, busy, again, sen_reg, ctrl} \subseteq BOOLEAN
    BY Zenon DEF Init, DrpInit
  <2> QED BY <2>1, <2>2, <2>3, <1>1 DEF Init, DrpInit, Shapes
<1> QED BY <1>1, <1>2 DEF CoreInv, Accesses, Table, Progress, Turns, Configuring

\* at every edge,
LEMMA EdgeKeepsCore ==
  ASSUME CoreInv, NEW rst \in BOOLEAN, NEW c \in BOOLEAN, EdgeAt(rst, c)
  PROVE  CoreInv'
<1>1. Shapes' /\ Accesses' /\ Table'
  BY ShapesStep, AccessesStep, TableStep DEF CoreInv
<1>2. Progress' /\ Turns'
  BY <1>1, ProgressStep, TurnsStep DEF CoreInv
<1> QED BY <1>1, <1>2 DEF CoreInv

\* and between the edges.
LEMMA StutterKeepsCore ==
  ASSUME CoreInv, UNCHANGED vars
  PROVE  CoreInv'
  BY DEF vars, drpVars, topVars, CoreInv, Shapes, Accesses, Table, Progress, Turns, Word, Done

(***************************************************************************)
(* The inductive invariant.                                                *)
(***************************************************************************)
THEOREM CoreInvariance == ~ Skew /\ Spec => []CoreInv
<1> SUFFICES ASSUME ~ Skew PROVE Spec => []CoreInv
  OBVIOUS
<1>1. CoreInv /\ [Next]_vars => CoreInv'
  <2>1. ASSUME CoreInv, Next PROVE CoreInv'
    <3>1. PICK rst \in BOOLEAN, c \in BOOLEAN : EdgeAt(rst, c)
      BY <2>1, EdgeIs
    <3> QED BY <2>1, <3>1, EdgeKeepsCore
  <2>2. ASSUME CoreInv, UNCHANGED vars PROVE CoreInv'
    BY <2>2, StutterKeepsCore
  <2> QED BY <2>1, <2>2
<1> QED BY <1>1, InitCoreInv, PTL DEF Spec

(***************************************************************************)
(* The status bit tells the truth: see EnabledIsConfigured.                *)
(***************************************************************************)
THEOREM StatusIsTrue == ~ Skew /\ Spec => []EnabledIsConfigured
<1>1. CoreInv => EnabledIsConfigured
  BY DrpAssumption DEF CoreInv, Turns, Done, Stat, EnabledIsConfigured, Words
<1> QED BY <1>1, CoreInvariance, PTL

(***************************************************************************)
(* Right bits to right registers, one access at a time, in reset: see      *)
(* WritesMatch.                                                            *)
(***************************************************************************)
THEOREM WritesAreRight == ~ Skew /\ Spec => []WritesMatch
<1>1. CoreInv => WritesMatch
  BY DEF CoreInv, Shapes, Accesses, Table, WritesMatch, Configuring, Word
<1> QED BY <1>1, CoreInvariance, PTL
-----------------------------------------------------------------------------
(***************************************************************************)
(* The driver.                                                             *)
(***************************************************************************)

\* An edge of the driver's module is an edge of the core.
LEMMA SameEdge ==
  ASSUME ~ Skew, NEW c \in BOOLEAN, DrvEdge(c)
  PROVE  EdgeAt(FALSE, c)
  BY Zenon DEF DrvEdge, Edge, SeenLock, EdgeAt

\* Every step of the driver is an edge, or leaves the core alone.
LEMMA DriverSteps ==
  ASSUME ~ Skew, ctrl \in BOOLEAN, [DrvNext]_allVars
  PROVE  (\E c \in BOOLEAN : DrvEdge(c)) \/ UNCHANGED allVars
<1>1. CASE Idle \/ (\E r \in Rates : SetRate(r)) \/ WriteReg \/ SetPoll \/ EnablePoll
  BY <1>1 DEF Idle, SetRate, WriteReg, SetPoll, EnablePoll
<1>2. CASE SetDisable \/ Disable
  BY <1>2, Zenon DEF SetDisable, Disable
<1>3. CASE SetEnable
  BY <1>3, Zenon DEF SetEnable
<1>4. CASE Enable
  <2>1. DrvEdge(freq # NoRate \/ ctrl) /\ (freq # NoRate \/ ctrl) \in BOOLEAN
    BY <1>4 DEF Enable
  <2> QED
    BY <2>1, Zenon
<1> QED
  BY <1>1, <1>2, <1>3, <1>4 DEF DrvNext

(***************************************************************************)
(* The driver never resets the core and leaves its invariant true.         *)
(***************************************************************************)
THEOREM CoreUnderDriver == ~ Skew /\ DrvSpec => []CoreInv
<1> SUFFICES ASSUME ~ Skew PROVE DrvSpec => []CoreInv
  OBVIOUS
<1>1. DrvInit => CoreInv
  BY InitCoreInv DEF DrvInit
<1>2. CoreInv /\ [DrvNext]_allVars => CoreInv'
  <2> SUFFICES ASSUME CoreInv, [DrvNext]_allVars PROVE CoreInv'
    OBVIOUS
  <2>1. ctrl \in BOOLEAN
    BY DEF CoreInv, Shapes
  <2>2. CASE \E c \in BOOLEAN : DrvEdge(c)
    <3>1. PICK c \in BOOLEAN : EdgeAt(FALSE, c)
      BY <2>2, SameEdge, Zenon
    <3> QED
      BY <3>1, EdgeKeepsCore, Zenon
  <2>3. CASE UNCHANGED allVars
    <3>1. UNCHANGED vars
      BY <2>3 DEF allVars
    <3> QED
      BY <3>1, StutterKeepsCore
  <2> QED
    BY <2>1, <2>2, <2>3, DriverSteps
<1> QED
  BY <1>1, <1>2, PTL DEF DrvSpec

-----------------------------------------------------------------------------
(***************************************************************************)
(* What an edge of the driver's module does, one fact each.                *)
(***************************************************************************)

\* The top level: when it starts, when it is done, when it starts over.
LEMMA TopMoves ==
  ASSUME CoreInv, NEW c \in BOOLEAN, EdgeAt(FALSE, c)
  PROVE  /\ ctrl' = c
         /\ clk_state' = "WAIT_SRDY" => clk_state = "WAIT_SRDY" \/ (clk_state = "WAIT_EN" /\ ctrl)
         /\ clk_state' = "ENABLED" => \/ clk_state = "ENABLED" /\ ctrl
                                      \/ clk_state = "WAIT_SRDY" /\ regs.srdy
         /\ clk_state = "ENABLED" /\ ctrl => clk_state' = "ENABLED"
<1>1. clk_state' = TopState(locked) /\ ctrl' = c
  BY DEF EdgeAt
<1>2. clk_state \in {"RESET", "WAIT_LOCKED", "WAIT_EN", "WAIT_SRDY", "ENABLED"}
  BY DEF CoreInv, Shapes
<1> QED
  BY <1>1, <1>2 DEF TopState

\* The machine walks the table only while the top level waits for it.
LEMMA WalkIsWaitedFor ==
  ASSUME CoreInv, CoreInv', NEW c \in BOOLEAN, EdgeAt(FALSE, c), current_state' \in Configuring
  PROVE  clk_state = "WAIT_SRDY" /\ clk_state' = "WAIT_SRDY"
<1>1. current_state' = After
  BY StateAfter, Zenon
<1>2. current_state \in Configuring \/ (current_state = "WAIT_SEN" /\ sen_reg)
  BY <1>1 DEF CoreInv, Shapes, After, Configuring
<1> QED
  BY <1>2 DEF CoreInv, Shapes, Turns, Configuring

\* c is the value CTRL has after the edge.
LEMMA EdgeCtrl ==
  ASSUME NEW c \in BOOLEAN, DrvEdge(c)
  PROVE  ctrl' = c
  BY DEF DrvEdge, Edge

(***************************************************************************)
(* Who sets CTRL polls until STAT is set.                                  *)
(***************************************************************************)
LEMMA AttendedStep ==
  ASSUME CoreInv, DrvShapes, Attended, DrvNext,
         NEW c \in BOOLEAN, EdgeAt(FALSE, c)
  PROVE  Attended'
<1>0. ctrl \in BOOLEAN /\ ctrl' = c
  BY TopMoves, Zenon DEF CoreInv, Shapes
<1>1. CASE Idle
  BY <1>0, <1>1, TopMoves, EdgeCtrl, Zenon DEF Attended, Idle, drvVars
<1>2. CASE \E r \in Rates : SetRate(r)
  BY <1>0, <1>2, TopMoves, EdgeCtrl, Zenon DEF Attended, SetRate
<1>3. CASE WriteReg
  BY <1>0, <1>3, TopMoves, EdgeCtrl, Zenon DEF Attended, WriteReg
<1>4. CASE SetDisable
  BY <1>0, <1>4, TopMoves, EdgeCtrl, Zenon DEF Attended, SetDisable
<1>5. CASE SetEnable
  BY <1>5 DEF Attended, SetEnable
<1>6. CASE SetPoll
  BY <1>0, <1>6, TopMoves, EdgeCtrl, Zenon DEF Attended, SetPoll, Stat
<1>7. CASE Enable
  <2>1. CASE freq = NoRate
    <3>1. DrvEdge(ctrl)
      BY <1>0, <1>7, <2>1, Zenon DEF Enable
    <3> QED
      BY <1>0, <1>7, <2>1, <3>1, TopMoves, EdgeCtrl, Zenon DEF Attended, Enable
  <2>2. CASE freq # NoRate
    BY <1>7, <2>2 DEF Attended, Enable
  <2> QED
    BY <2>1, <2>2
<1>8. CASE EnablePoll
  BY <1>0, <1>8, TopMoves, EdgeCtrl, Zenon DEF Attended, EnablePoll, Stat
<1>9. CASE Disable
  BY <1>0, <1>9, TopMoves, EdgeCtrl, Zenon DEF Attended, Disable
<1> QED
  BY <1>1, <1>2, <1>3, <1>4, <1>5, <1>6, <1>7, <1>8, <1>9 DEF DrvNext

(***************************************************************************)
(* An undisturbed call stays so only while nobody gates the clock.         *)
(***************************************************************************)
LEMMA UndisturbedStep ==
  ASSUME CoreInv, DrvShapes, Undisturbed, DrvNext
  PROVE  Undisturbed'
<1>0. ctrl \in BOOLEAN /\ clean \in BOOLEAN
  BY DEF CoreInv, Shapes, DrvShapes
<1>1. CASE Idle
  BY <1>0, <1>1, EdgeCtrl DEF Undisturbed, Idle, drvVars
<1>2. CASE \E r \in Rates : SetRate(r)
  BY <1>0, <1>2, EdgeCtrl, Zenon DEF Undisturbed, SetRate
<1>3. CASE WriteReg
  BY <1>0, <1>3, EdgeCtrl DEF Undisturbed, WriteReg
<1>4. CASE SetDisable
  BY <1>0, <1>4, EdgeCtrl, Zenon DEF Undisturbed, SetDisable
<1>5. CASE SetEnable
  BY <1>5 DEF Undisturbed, SetEnable
<1>6. CASE SetPoll
  BY <1>6 DEF Undisturbed, SetPoll
<1>7. CASE Enable
  BY <1>0, <1>7, Zenon DEF Undisturbed, Enable
<1>8. CASE EnablePoll
  BY <1>0, <1>8, EdgeCtrl DEF Undisturbed, EnablePoll
<1>9. CASE Disable
  BY <1>0, <1>9, EdgeCtrl DEF Undisturbed, Disable
<1> QED
  BY <1>1, <1>2, <1>3, <1>4, <1>5, <1>6, <1>7, <1>8, <1>9 DEF DrvNext

(***************************************************************************)
(* The registers are written in order, with the rate being set.            *)
(***************************************************************************)
LEMMA AxiIsTargetStep ==
  ASSUME DrvShapes, AxiIsTarget, DrvNext
  PROVE  AxiIsTarget'
<1>0. N \in Nat /\ N \in 2 .. 15 /\ reg \in Nat /\ reg \in 1 .. N - 1
  BY DrpAssumption DEF DrvShapes, Regs
<1>1. CASE WriteReg
  <2>1. axi' = [axi EXCEPT ![reg] = target] /\ target' = target /\ freq' = freq
    BY <1>1 DEF WriteReg
  <2>2. \A w \in Regs : axi'[w] = IF w = reg THEN target ELSE axi[w]
    BY <2>1 DEF DrvShapes
  <2>3. spc = "write" /\ (\/ reg' = reg + 1 /\ spc' = spc
                          \/ reg = N - 1 /\ spc' = "disable")
    BY <1>0, <1>1 DEF WriteReg
  <2> QED
    BY <1>0, <2>1, <2>2, <2>3 DEF AxiIsTarget, Regs
<1>2. CASE \E r \in Rates : SetRate(r)
  BY <1>2 DEF AxiIsTarget, SetRate, Regs
<1>3. CASE Idle
  BY <1>3 DEF AxiIsTarget, Idle, drvVars
<1>4. CASE SetDisable \/ SetEnable \/ SetPoll
  BY <1>4, Zenon DEF AxiIsTarget, SetDisable, SetEnable, SetPoll
<1>5. CASE Enable \/ EnablePoll \/ Disable
  BY <1>5, Zenon DEF AxiIsTarget, Enable, EnablePoll, Disable
<1> QED
  BY <1>1, <1>2, <1>3, <1>4, <1>5 DEF DrvNext

(***************************************************************************)
(* The driver's state and the values in the core keep their shapes.        *)
(***************************************************************************)
LEMMA DrvShapesStep ==
  ASSUME DrvShapes, DrvNext, NEW c \in BOOLEAN, DrvEdge(c)
  PROVE  DrvShapes'
<1> DEFINE R == Rates \cup {NoRate}
<1>0. N \in Nat /\ N \in 2 .. 15 /\ reg \in Nat /\ reg \in 1 .. N - 1 /\ 1 \in Regs
  BY DrpAssumption DEF DrvShapes, Regs
<1>1. /\ axi \in [Regs -> R] /\ mmcm \in [Regs -> R]
      /\ rom_val \in R /\ di_val \in R /\ target \in R
  BY DEF DrvShapes
<1>2. rom_val' \in R /\ di_val' \in R
  BY <1>1 DEF DrvEdge
<1>3. mmcm' \in [Regs -> R]
  BY <1>1 DEF DrvEdge
<1>4. axi' \in [Regs -> R] /\ target' \in R
  <2>1. CASE WriteReg
    BY <1>1, <2>1, Zenon DEF WriteReg
  <2>2. CASE \E r \in Rates : SetRate(r)
    BY <1>1, <2>2 DEF SetRate
  <2>3. CASE UNCHANGED <<axi, target>>
    BY <1>1, <2>3
  <2> QED
    BY <2>1, <2>2, <2>3, Zenon DEF DrvNext, Idle, drvVars, SetDisable, SetEnable,
       SetPoll, Enable, EnablePoll, Disable
<1>5. /\ spc' \in {"idle", "write", "disable", "enable", "poll"} /\ reg' \in Regs
      /\ gpc' \in {"idle", "poll"} /\ clean' \in BOOLEAN
  <2>1. CASE WriteReg
    BY <1>0, <2>1 DEF WriteReg, DrvShapes, Regs
  <2>2. CASE \E r \in Rates : SetRate(r)
    BY <1>0, <2>2 DEF SetRate, DrvShapes
  <2>3. CASE Idle \/ SetDisable \/ SetEnable \/ SetPoll
    BY <2>3, Zenon DEF DrvShapes, Idle, drvVars, SetDisable, SetEnable, SetPoll
  <2>4. CASE Enable \/ EnablePoll \/ Disable
    BY <2>4, Zenon DEF DrvShapes, Enable, EnablePoll, Disable
  <2> QED
    BY <2>1, <2>2, <2>3, <2>4 DEF DrvNext
<1> QED
  BY <1>1, <1>2, <1>3, <1>4, <1>5 DEF DrvShapes

(***************************************************************************)
(* Under an undisturbed call, while the core works, the driver only polls, *)
(* and so the registers stay as they are.                                  *)
(***************************************************************************)
LEMMA OnlyPolls ==
  ASSUME DrvShapes, Attended, Undisturbed, AxiIsTarget, DrvNext,
         clk_state = "WAIT_SRDY", clean'
  PROVE  clean /\ target' = target /\ \A w \in Regs : axi[w] = target
<1>0. spc = "poll" \/ gpc = "poll"
  BY DEF Attended
<1>1. CASE SetRate(target')
  BY <1>0, <1>1, Zenon DEF SetRate
<1>2. CASE Idle \/ WriteReg \/ SetDisable \/ SetEnable \/ SetPoll \/ EnablePoll
  <2>1. clean /\ target' = target
    BY <1>2, Zenon DEF Idle, drvVars, WriteReg, SetDisable, SetEnable, SetPoll,
       EnablePoll
  <2> QED
    BY <1>0, <2>1 DEF Undisturbed, AxiIsTarget
<1>3. CASE Enable \/ Disable
  BY <1>0, <1>3, Zenon DEF Enable, Disable
<1>4. SetRate(target') \/ ~ \E r \in Rates : SetRate(r)
  BY Zenon DEF SetRate
<1> QED
  BY <1>1, <1>2, <1>3, <1>4 DEF DrvNext

(***************************************************************************)
(* The words that are written to the MMCM, one at an edge at most.         *)
(***************************************************************************)
LEMMA MmcmAfter ==
  ASSUME CoreInv, DrvShapes, NEW c \in BOOLEAN, DrvEdge(c)
  PROVE  /\ ~ regs.dwe => mmcm' = mmcm
         /\ regs.dwe => \A w \in Regs : mmcm'[w] = IF w = regs.daddr THEN di_val ELSE mmcm[w]
<1>1. regs.dwe => regs.den
  BY DEF CoreInv, Table
<1>2. mmcm \in [Regs -> Rates \cup {NoRate}]
  BY DEF DrvShapes
<1>3. CASE ~ regs.dwe
  BY <1>3 DEF DrvEdge
<1>4. CASE regs.dwe
  BY <1>1, <1>2, <1>4 DEF DrvEdge
<1> QED
  BY <1>3, <1>4

\* The word a driver step ends at, and the words that are in the MMCM then.
Held == IF current_state = "WAIT_DRDY" /\ ~ regs.dwe THEN Word ELSE Word - 1

(***************************************************************************)
(* What the walk has put into the MMCM by the end of an edge.              *)
(***************************************************************************)
LEMMA HeldStep ==
  ASSUME CoreInv, CoreInv', DrvShapes, NEW c \in BOOLEAN, EdgeAt(FALSE, c), DrvEdge(c),
         NEW v,
         current_state \in Configuring => \A w \in 1 .. Held : mmcm[w] = v,
         current_state = "WAIT_DRDY" /\ Word \in Regs => di_val = v
  PROVE  /\ current_state' \in Configuring => \A w \in 1 .. Held' : mmcm'[w] = v
         /\ current_state = "WAIT_DRDY" /\ current_state' = "WAIT_LOCK" =>
              \A w \in Regs : mmcm'[w] = v
<1>1. /\ N \in Nat /\ N \in 2 .. 15 /\ regs.rom_addr \in Nat /\ regs'.rom_addr \in Nat
      /\ Shapes /\ Table
  BY DrpAssumption DEF CoreInv, Shapes
<1>2. current_state' = After
  BY StateAfter, Zenon
<1>3. CASE current_state \in {"RESTART", "WAIT_LOCK"}
  BY <1>3, <1>2 DEF After, Configuring
<1>4. CASE current_state = "WAIT_SEN"
  <2>1. current_state' = "ADDRESS" => regs'.rom_addr = 0
    BY <1>1, <1>4, <1>2, TableAfter, Zenon DEF After, Shapes
  <2> QED
    BY <2>1, <1>4, <1>2 DEF After, Configuring, Held, Word
<1>5. CASE current_state \in {"ADDRESS", "WAIT_A_DRDY", "BITMASK"}
  <2>1. ~ regs.dwe
    BY <1>1, <1>5 DEF Table
  <2>2. mmcm' = mmcm
    BY <2>1, MmcmAfter
  <2>3. Held' = Held
    BY <1>5, <1>2, <1>1, TableAfter, Zenon DEF After, Held, Word
  <2> QED
    BY <2>2, <2>3, <1>5, <1>2 DEF After, Configuring
<1>6. CASE current_state \in {"BITSET", "WRITE"}
  <2>1. ~ regs.dwe
    BY <1>1, <1>6 DEF Table
  <2>2. mmcm' = mmcm
    BY <2>1, MmcmAfter
  <2>3. Word' = Word /\ (current_state' = "WAIT_DRDY" => regs'.dwe)
    <3>1. CASE current_state = "BITSET"
      <4>1. Word = regs.rom_addr /\ Word \in 0 .. N - 1
        BY <3>1, <1>1 DEF Word, Words, Table, Configuring
      <4>2. regs'.rom_addr = (regs.rom_addr + 1) % 16
        BY <3>1, <1>1, TableAfter, Zenon
      <4>3. regs'.rom_addr = regs.rom_addr + 1
        BY <4>1, <4>2, <1>1
      <4>4. current_state' = "WRITE"
        BY <3>1, <1>2 DEF After
      <4>5. Word' = regs'.rom_addr - 1
        BY <4>4 DEF Word
      <4> QED
        BY <1>1, <4>1, <4>3, <4>4, <4>5
    <3>2. CASE current_state = "WRITE"
      BY <3>2, <1>1, <1>2, TableAfter, OutputsAfter, Zenon DEF After, Word
    <3> QED
      BY <3>1, <3>2, <1>6
  <2> QED
    BY <2>2, <2>3, <1>6, <1>2 DEF After, Configuring, Held
<1>7. CASE current_state = "WAIT_DRDY"
  <2>1. /\ regs'.rom_addr = regs.rom_addr /\ ~ regs'.dwe
        /\ regs.rom_addr \in 1 .. N /\ Word = regs.rom_addr - 1
    <3>1. regs'.rom_addr = regs.rom_addr
      BY <1>7, <1>1, TableAfter, Zenon
    <3>2. ~ regs'.dwe
      BY <1>7, <1>1, OutputsAfter, Zenon
    <3>3. Word = regs.rom_addr - 1
      BY <1>7 DEF Word
    <3>4. Word \in 0 .. N - 1
      BY <1>7, <1>1 DEF Table, Words, Configuring
    <3> QED
      BY <1>1, <3>1, <3>2, <3>3, <3>4
  <2>2. Word \in Nat /\ Word < N
    BY <2>1, <1>1
  <2>3. \A w \in 1 .. Word : mmcm'[w] = v
    <3>1. CASE ~ regs.dwe
      <4>1. mmcm' = mmcm /\ Held = Word
        BY <3>1, <1>7, MmcmAfter DEF Held
      <4> QED
        BY <4>1, <1>7 DEF Configuring
    <3>2. CASE regs.dwe
      <4>1. Held = Word - 1
        BY <3>2 DEF Held
      <4>2. \A w \in 1 .. Word - 1 : mmcm[w] = v
        BY <4>1, <1>7 DEF Configuring
      <4>3. Word # 0 => regs.daddr = Word
        BY <3>2, <1>7, <1>1 DEF Table, Configuring
      <4>4. \A w \in 1 .. Word : w \in Regs /\ (w = Word \/ w \in 1 .. Word - 1)
        BY <1>1, <2>2 DEF Regs
      <4>5. \A w \in Regs : mmcm'[w] = IF w = regs.daddr THEN di_val ELSE mmcm[w]
        BY <3>2, MmcmAfter
      <4> SUFFICES ASSUME NEW w \in 1 .. Word PROVE mmcm'[w] = v
        OBVIOUS
      <4>6. Word # 0 /\ w \in Regs
        BY <2>2, <4>4
      <4>7. CASE w = Word
        BY <4>3, <4>5, <4>6, <4>7, <1>7
      <4>8. CASE w # Word
        BY <4>2, <4>3, <4>4, <4>5, <4>6, <4>8
      <4> QED
        BY <4>7, <4>8
    <3> QED
      BY <3>1, <3>2
  <2>4. CASE current_state' = "WAIT_DRDY"
    <3>1. Held' = Word
      BY <1>7, <2>1, <2>4 DEF Held, Word
    <3> QED
      BY <3>1, <2>3, <2>4
  <2>5. CASE current_state' = "ADDRESS"
    <3>1. Held' = Word
      BY <1>1, <1>7, <2>1, <2>5 DEF Held, Word
    <3> QED
      BY <3>1, <2>3, <2>5
  <2>6. CASE current_state' = "WAIT_LOCK"
    <3>1. regs.rom_addr = N
      BY <1>7, <1>2, <2>1, <2>6, <1>1 DEF After, Table, Shapes
    <3> QED
      BY <3>1, <2>1, <2>3, <2>6 DEF Configuring, Regs
  <2> QED
    BY <2>4, <2>5, <2>6, <1>7, <1>2 DEF After
<1> QED
  BY <1>1, <1>3, <1>4, <1>5, <1>6, <1>7 DEF Shapes, Configuring

(***************************************************************************)
(* A walk under an undisturbed call carries the rate being set.            *)
(***************************************************************************)
LEMMA WalkIsTargetStep ==
  ASSUME CoreInv, CoreInv', DrvShapes, Attended, Undisturbed, AxiIsTarget,
         WalkIsTarget, DrvNext, NEW c \in BOOLEAN, EdgeAt(FALSE, c), DrvEdge(c)
  PROVE  /\ WalkIsTarget'
         /\ clean' /\ current_state = "WAIT_DRDY" /\ current_state' = "WAIT_LOCK" =>
              \A w \in Regs : mmcm'[w] = target'
<1>1. WalkIsTarget <=>
        (clean /\ current_state \in Configuring =>
           /\ rom_do \in Regs => rom_val = target
           /\ current_state \in {"WRITE", "WAIT_DRDY"} /\ Word \in Regs => di_val = target
           /\ \A w \in 1 .. Held : mmcm[w] = target)
  BY Zenon DEF WalkIsTarget, Held
<1>2. WalkIsTarget' <=>
        (clean' /\ current_state' \in Configuring =>
           /\ rom_do' \in Regs => rom_val' = target'
           /\ current_state' \in {"WRITE", "WAIT_DRDY"} /\ Word' \in Regs => di_val' = target'
           /\ \A w \in 1 .. Held' : mmcm'[w] = target')
  BY Zenon DEF WalkIsTarget, Held, Word, Word, Configuring, Configuring
<1>3. ASSUME clean', clk_state = "WAIT_SRDY"
      PROVE  clean /\ target' = target /\ \A w \in Regs : axi[w] = target
  BY <1>3, OnlyPolls
<1>4. ASSUME clean', clk_state = "WAIT_SRDY"
      PROVE  /\ current_state' \in Configuring => \A w \in 1 .. Held' : mmcm'[w] = target
             /\ current_state = "WAIT_DRDY" /\ current_state' = "WAIT_LOCK" =>
                  \A w \in Regs : mmcm'[w] = target
  <2>1. clean
    BY <1>3, <1>4
  <2>2. /\ current_state \in Configuring => \A w \in 1 .. Held : mmcm[w] = target
        /\ current_state = "WAIT_DRDY" /\ Word \in Regs => di_val = target
    BY <1>1, <2>1 DEF Configuring
  <2> QED
    BY <2>2, HeldStep, Zenon
<1>5. ASSUME clean', current_state' \in Configuring
      PROVE  /\ rom_do' \in Regs => rom_val' = target'
             /\ current_state' \in {"WRITE", "WAIT_DRDY"} /\ Word' \in Regs => di_val' = target'
             /\ \A w \in 1 .. Held' : mmcm'[w] = target'
  <2>0. clk_state = "WAIT_SRDY"
    BY <1>5, WalkIsWaitedFor, Zenon
  <2>1. clean /\ target' = target /\ \A w \in Regs : axi[w] = target
    BY <1>3, <1>5, <2>0
  <2>2. rom_do' \in Regs => rom_val' = target'
    BY <2>1 DEF DrvEdge
  <2>3. ASSUME current_state' \in {"WRITE", "WAIT_DRDY"}, Word' \in Regs PROVE di_val' = target'
    <3>0. Shapes /\ Table /\ N \in 2 .. 15 /\ regs.rom_addr \in Nat
      BY DrpAssumption DEF CoreInv, Shapes
    <3>1. current_state' = After
      BY StateAfter, Zenon
    <3>2. CASE current_state = "BITSET"
      <4>1. rom_do = Word /\ Word = regs.rom_addr /\ Word \in 0 .. N - 1
        BY <3>0, <3>2 DEF Table, Word, Words, Configuring
      <4>2. regs'.rom_addr = (regs.rom_addr + 1) % 16
        BY <3>0, <3>2, TableAfter, Zenon
      <4>3. Word' = regs'.rom_addr - 1
        BY <2>3 DEF Word
      <4>4. Word' = rom_do
        BY <3>0, <4>1, <4>2, <4>3
      <4>5. rom_val = target
        BY <1>1, <2>1, <2>3, <3>2, <4>4 DEF Configuring
      <4> QED
        BY <2>1, <3>2, <4>5 DEF DrvEdge
    <3>3. CASE current_state \in {"WRITE", "WAIT_DRDY"}
      <4>1. regs'.rom_addr = regs.rom_addr
        BY <3>0, <3>3, TableAfter, Zenon
      <4>2. Word' = Word
        BY <2>3, <3>3, <4>1 DEF Word
      <4>3. di_val = target
        BY <1>1, <2>1, <2>3, <3>3, <4>2 DEF Configuring
      <4> QED
        BY <2>1, <3>3, <4>3 DEF DrvEdge
    <3> QED
      BY <2>3, <3>0, <3>1, <3>2, <3>3 DEF After, Shapes, Configuring
  <2>4. \A w \in 1 .. Held' : mmcm'[w] = target'
    BY <1>4, <1>5, <2>0, <2>1
  <2> QED
    BY <2>2, <2>3, <2>4
<1>6. ASSUME clean', current_state = "WAIT_DRDY", current_state' = "WAIT_LOCK"
      PROVE  \A w \in Regs : mmcm'[w] = target'
  <2>1. clk_state = "WAIT_SRDY"
    BY <1>6 DEF CoreInv, Shapes, Turns
  <2> QED
    BY <1>3, <1>4, <1>6, <2>1
<1> QED
  BY <1>2, <1>5, <1>6

(***************************************************************************)
(* After the walk the MMCM has the rate, and keeps it.                     *)
(***************************************************************************)
LEMMA MmcmIsTargetStep ==
  ASSUME CoreInv, CoreInv', DriverInv, DrvNext, NEW c \in BOOLEAN, EdgeAt(FALSE, c), DrvEdge(c)
  PROVE  MmcmIsTarget'
<1>0. DrvShapes /\ Attended /\ Undisturbed /\ AxiIsTarget /\ WalkIsTarget
  BY DEF DriverInv
<1>1. current_state' = After /\ Shapes /\ Turns /\ Table
  BY StateAfter, Zenon DEF CoreInv
<1>2. current_state \in {"WAIT_SEN", "WAIT_LOCK"} => mmcm' = mmcm
  <2>1. current_state \in {"WAIT_SEN", "WAIT_LOCK"} => ~ regs.dwe
    BY <1>1 DEF Table
  <2> QED
    BY <1>0, <2>1, MmcmAfter
<1>3. ASSUME clean', clk_state' = "WAIT_SRDY", current_state' = "WAIT_LOCK" \/ regs'.srdy
      PROVE  \A w \in Regs : mmcm'[w] = target'
  <2>1. current_state \in {"WAIT_LOCK", "WAIT_DRDY", "RESTART"}
    <3>1. regs'.srdy => current_state = "WAIT_LOCK"
      BY <1>1, OutputsAfter, Zenon
    <3>2. current_state' = "WAIT_LOCK" => current_state \in {"WAIT_LOCK", "WAIT_DRDY", "RESTART"}
      BY <1>1 DEF After, Shapes, Configuring
    <3> QED
      BY <1>3, <3>1, <3>2
  <2>2. clk_state = "WAIT_SRDY"
    BY <1>1, <1>3, <2>1, TopMoves, Zenon DEF Turns
  <2>3. CASE current_state = "WAIT_LOCK"
    <3>1. clean /\ target' = target
      BY <1>0, <1>3, <2>2, OnlyPolls
    <3>2. \A w \in Regs : mmcm[w] = target
      BY <3>1, <2>2, <2>3 DEF DriverInv, MmcmIsTarget
    <3> QED
      BY <1>2, <2>3, <3>1, <3>2
  <2>4. CASE current_state = "WAIT_DRDY"
    <3>1. current_state' = "WAIT_LOCK"
      <4>1. ~ regs'.srdy
        BY <1>1, <2>4, OutputsAfter, Zenon
      <4> QED
        BY <1>3, <4>1
    <3> QED
      BY <1>0, <1>3, <2>4, <3>1, WalkIsTargetStep, Zenon
  <2>5. current_state # "RESTART"
    BY <1>1, <2>2 DEF Turns
  <2> QED
    BY <2>1, <2>3, <2>4, <2>5
<1>4. ASSUME clean', clk_state' = "ENABLED", spc' \in {"poll", "idle"}
      PROVE  \A w \in Regs : mmcm'[w] = target'
  <2>1. CASE clk_state = "WAIT_SRDY" /\ regs.srdy
    <3>1. clean /\ target' = target
      BY <1>0, <1>4, <2>1, OnlyPolls
    <3>2. \A w \in Regs : mmcm[w] = target
      BY <3>1, <2>1 DEF DriverInv, MmcmIsTarget
    <3>3. current_state = "WAIT_SEN"
      BY <1>1, <2>1 DEF Turns
    <3> QED
      BY <1>2, <3>1, <3>2, <3>3
  <2>2. CASE clk_state = "ENABLED" /\ ctrl
    <3>1. clean /\ spc \in {"poll", "idle"} /\ target' = target
      <4>1. CASE Idle \/ SetPoll \/ EnablePoll \/ Enable \/ Disable
        BY <1>4, <4>1, Zenon DEF Idle, drvVars, SetPoll, EnablePoll, Enable, Disable
      <4>2. CASE WriteReg \/ SetDisable \/ \E r \in Rates : SetRate(r)
        BY <1>4, <4>2, Zenon DEF WriteReg, SetDisable, SetRate
      <4>3. CASE SetEnable
        BY <1>0, <1>4, <2>2, <4>3 DEF SetEnable, Undisturbed
      <4> QED
        BY <4>1, <4>2, <4>3 DEF DrvNext
    <3>2. \A w \in Regs : mmcm[w] = target
      BY <3>1, <2>2 DEF DriverInv, MmcmIsTarget
    <3>3. current_state = "WAIT_SEN"
      BY <1>1, <2>2 DEF Turns
    <3> QED
      BY <1>2, <3>1, <3>2, <3>3
  <2> QED
    BY <1>4, <2>1, <2>2, TopMoves, Zenon
<1> QED
  BY <1>3, <1>4 DEF MmcmIsTarget

(***************************************************************************)
(* The inductive invariant of the driver with the core.                    *)
(***************************************************************************)
THEOREM DriverInvariance == ~ Skew /\ DrvSpec => []DriverInv
<1> SUFFICES ASSUME ~ Skew PROVE DrvSpec => []DriverInv
  OBVIOUS
<1>1. DrvInit => DriverInv
  <2> SUFFICES ASSUME DrvInit PROVE DriverInv
    OBVIOUS
  <2>1. current_state = "RESTART" /\ clk_state = "RESET" /\ ~ ctrl
    BY DEF DrvInit, Init, DrpInit
  <2>2. 1 \in Regs
    BY DrpAssumption DEF Regs
  <2>3. DrvShapes
    BY <2>2 DEF DrvInit, DrvShapes
  <2>4. Attended /\ Undisturbed /\ AxiIsTarget
    BY <2>1 DEF DrvInit, Attended, Undisturbed, AxiIsTarget
  <2>5. WalkIsTarget /\ MmcmIsTarget
    BY <2>1 DEF DrvInit, WalkIsTarget, MmcmIsTarget, Configuring
  <2> QED
    BY <2>3, <2>4, <2>5 DEF DriverInv
<1>2. CoreInv /\ CoreInv' /\ DriverInv /\ [DrvNext]_allVars => DriverInv'
  <2> SUFFICES ASSUME CoreInv, CoreInv', DriverInv, [DrvNext]_allVars PROVE DriverInv'
    OBVIOUS
  <2>1. CASE UNCHANGED allVars
    BY <2>1 DEF allVars, vars, drpVars, topVars, valVars, drvVars, DriverInv, DrvShapes,
       Attended, Undisturbed, AxiIsTarget, WalkIsTarget, MmcmIsTarget,
       Word
  <2>2. CASE DrvNext /\ ~ UNCHANGED allVars
    <3>1. ctrl \in BOOLEAN
      BY DEF CoreInv, Shapes
    <3>2. PICK c \in BOOLEAN : DrvEdge(c)
      BY <2>2, <3>1, DriverSteps
    <3>3. EdgeAt(FALSE, c)
      BY <3>2, SameEdge, Zenon
    <3>4. /\ DrvShapes /\ Attended /\ Undisturbed /\ AxiIsTarget
          /\ WalkIsTarget /\ DrvNext
      BY <2>2 DEF DriverInv
    <3>5. DrvShapes' /\ Attended' /\ Undisturbed' /\ AxiIsTarget'
      BY <3>2, <3>3, <3>4, DrvShapesStep, AttendedStep, UndisturbedStep, AxiIsTargetStep, Zenon
    <3>6. WalkIsTarget'
      BY <3>2, <3>3, <3>4, WalkIsTargetStep, Zenon
    <3>7. MmcmIsTarget'
      BY <3>2, <3>3, <3>4, MmcmIsTargetStep, Zenon
    <3> QED
      BY <3>5, <3>6, <3>7 DEF DriverInv
  <2> QED
    BY <2>1, <2>2
<1>3. DrvSpec => []CoreInv
  BY CoreUnderDriver
<1> QED
  BY <1>1, <1>2, <1>3, PTL DEF DrvSpec

(***************************************************************************)
(* recalc_rate tells the truth after an undisturbed set_rate: see          *)
(* RunsAtFreq.                                                             *)
(***************************************************************************)
THEOREM RateIsTrue == ~ Skew /\ DrvSpec => []RunsAtFreq
<1>1. DriverInv => RunsAtFreq
  BY DEF DriverInv, AxiIsTarget, MmcmIsTarget, RunsAtFreq, Stat
<1> QED
  BY <1>1, DriverInvariance, PTL

(***************************************************************************)
(* No register is written under a reconfiguration: see WritesAreQuiet.     *)
(***************************************************************************)
THEOREM RegistersAreQuiet == ~ Skew /\ DrvSpec => []WritesAreQuiet
<1>1. CoreInv /\ DriverInv => WritesAreQuiet
  <2> SUFFICES ASSUME CoreInv, DriverInv, clean, spc = "write" PROVE current_state \notin Configuring
    BY DEF WritesAreQuiet
  <2>1. clk_state # "WAIT_SRDY"
    BY DEF DriverInv, Attended, Undisturbed, DrvShapes
  <2> QED
    BY <2>1 DEF CoreInv, Shapes, Turns, Configuring
<1> QED
  BY <1>1, CoreUnderDriver, DriverInvariance, PTL
=============================================================================
