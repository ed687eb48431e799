------------------------------ MODULE AxiDynclk ------------------------------
(***************************************************************************)
(* axi_dynclk.vhd: the control machine of the pixel clock, composed with   *)
(* the reconfiguration machine of MmcmDrp.  Both are clocked by            *)
(* s00_axi_aclk; a step is one edge.  Software sees bit 0 of CTRL_REG,     *)
(* which it writes, and bit 0 of STAT_REG, which says ENABLED.             *)
(*                                                                         *)
(* LOCKED comes from the MMCM and belongs to another clock.  Neither       *)
(* machine synchronises it, so at an edge close to a change of LOCKED each *)
(* of them may still see the old value: Skew allows that.                  *)
(***************************************************************************)
EXTENDS MmcmDrp

CONSTANT
  Skew         \* may the machines see a change of LOCKED at different edges?

ASSUME DynclkAssumption == Skew \in BOOLEAN

VARIABLES
  clk_state,
  sen_reg,
  ctrl         \* CTRL_REG(0)

topVars == <<clk_state, sen_reg, ctrl>>
vars == <<drpVars, topVars>>

Init ==
  /\ DrpInit
  /\ clk_state = "RESET" /\ sen_reg = FALSE
  /\ ctrl = FALSE

SeenLock == IF Skew THEN {locked, was_locked} ELSE {locked}

\* STAT_REG(0).
Stat == clk_state = "ENABLED"

\* The next clk_state when the reset is not asserted.
TopState(lock) ==
  CASE clk_state = "RESET"       -> "WAIT_LOCKED"
    [] clk_state = "WAIT_LOCKED" -> IF lock THEN "WAIT_EN" ELSE "WAIT_LOCKED"
    [] clk_state = "WAIT_EN"     -> IF ctrl THEN "WAIT_SRDY" ELSE "WAIT_EN"
    [] clk_state = "WAIT_SRDY"   -> IF regs.srdy THEN "ENABLED" ELSE "WAIT_SRDY"
    [] clk_state = "ENABLED"     -> IF ctrl THEN "ENABLED" ELSE "WAIT_EN"

SenNext == clk_state = "WAIT_EN" /\ ctrl

\* c is what the bus interface writes to CTRL_REG(0) at this edge.
Edge(rst, c) ==
  /\ \E lock \in SeenLock : DrpEdge(rst, sen_reg, lock)
  /\ \E lock \in SeenLock : clk_state' = IF rst THEN "RESET" ELSE TopState(lock)
  /\ sen_reg' = (~ rst /\ SenNext)
  /\ ctrl' = (~ rst /\ c)

Next == \E rst, c \in BOOLEAN : Edge(rst, c)

Spec == Init /\ [][Next]_vars

\* The clock runs, an access to the MMCM ends, and the MMCM locks once it is
\* out of reset.
Fairness ==
  /\ WF_vars(Next)
  /\ WF_vars(Next /\ drdy')
  /\ WF_vars(Next /\ locked' /\ ~ locked)
FairSpec == Spec /\ Fairness

-----------------------------------------------------------------------------
Configuring == {"ADDRESS", "WAIT_A_DRDY", "BITMASK", "BITSET", "WRITE", "WAIT_DRDY"}

(***************************************************************************)
(* The status bit tells the truth: when it is set, the reconfiguration     *)
(* that CTRL asked for is over, every register after the first has had its *)
(* own bits, and the MMCM is locked.                                       *)
(***************************************************************************)
EnabledIsConfigured ==
  Stat => /\ current_state = "WAIT_SEN" /\ locked
          /\ \A w \in Words \ {0} : <<w, w, w>> \in written

(***************************************************************************)
(* Every write puts the bits of a word of the table into a register,       *)
(* keeping the bits that word's mask names; the register is the one that   *)
(* word names, except for the first word of every walk of the table but    *)
(* the first, whose address is what rom_do still holds.  No two accesses   *)
(* overlap, and during each the MMCM is held in reset (states ADDRESS to   *)
(* WAIT_DRDY).                                                             *)
(***************************************************************************)
WritesMatch ==
  /\ regs.den => ~ busy
  /\ busy /\ current_state \in Configuring => regs.rst_mmcm
  /\ regs.dwe => /\ regs.mask = regs.bits /\ regs.bits \in Words
                 /\ regs.daddr = regs.bits \/ (again /\ regs.bits = 0)

(***************************************************************************)
(* A request to enable the clock is answered: the control machine does not *)
(* stay in WAIT_SRDY, unless there is a reset.                             *)
(***************************************************************************)
EnableAnswered == clk_state = "WAIT_SRDY" ~> clk_state \in {"ENABLED", "RESET"}

-----------------------------------------------------------------------------
(***************************************************************************)
(* Strengthening, for machines that see LOCKED at the same edge.           *)
(***************************************************************************)
Shapes ==
  /\ regs \in [srdy : BOOLEAN, daddr : Nat, dwe : BOOLEAN, den : BOOLEAN,
               rst_mmcm : BOOLEAN, mask : Nat, bits : Nat, rom_addr : Nat, state_count : Nat]
  /\ current_state \in Configuring \cup {"RESTART", "WAIT_LOCK", "WAIT_SEN"}
  /\ clk_state \in {"RESET", "WAIT_LOCKED", "WAIT_EN", "WAIT_SRDY", "ENABLED"}
  /\ rom_do \in Nat
  /\ {locked, drdy, busy, again, sen_reg, ctrl} \subseteq BOOLEAN

\* An access is asked for, in progress or ended, in turn, and only in the
\* states that wait for it and after a reset; meanwhile the MMCM has no lock.
Accesses ==
  /\ regs.den => regs.rst_mmcm /\ ~ busy /\ ~ drdy
  /\ busy => ~ drdy
  /\ busy \/ drdy => ~ locked
  /\ current_state \in {"WAIT_SEN", "ADDRESS", "BITMASK", "BITSET", "WRITE"} =>
       ~ regs.den /\ ~ busy /\ ~ drdy
  /\ current_state = "WAIT_LOCK" => ~ regs.den
  /\ current_state \in {"WAIT_A_DRDY", "WAIT_DRDY"} => regs.den \/ busy \/ drdy
  /\ current_state \in Configuring \ {"ADDRESS"} => regs.rst_mmcm
  /\ current_state = "WAIT_SEN" => ~ regs.rst_mmcm

\* The word of the table the machine is at, and what it has taken of it.
Word == IF current_state \in {"WRITE", "WAIT_DRDY"} THEN regs.rom_addr - 1 ELSE regs.rom_addr

Table ==
  /\ current_state \in {"WAIT_LOCK", "WAIT_SEN"} /\ ~ again => regs.rom_addr = 0
  /\ current_state = "WAIT_SEN" => regs.state_count = N /\ (again \/ rom_do = 0)
  /\ current_state \in Configuring => Word \in Words
  /\ current_state \in Configuring \ {"WAIT_DRDY"} => regs.state_count = N - Word
  /\ current_state = "WAIT_DRDY" => regs.state_count = N - regs.rom_addr
  /\ current_state = "ADDRESS" => rom_do = Word \/ (again /\ Word = 0)
  /\ current_state \in Configuring \ {"ADDRESS"} => regs.daddr = Word \/ (again /\ Word = 0)
  /\ current_state \in {"WAIT_A_DRDY", "BITMASK", "BITSET"} => rom_do = Word
  /\ current_state = "BITSET" => regs.mask = Word
  /\ current_state \in {"WRITE", "WAIT_DRDY"} => regs.mask = Word /\ regs.bits = Word
  /\ current_state = "WAIT_DRDY" => regs.rom_addr = N \/ rom_do = regs.rom_addr
  /\ regs.dwe => /\ current_state \in {"WAIT_DRDY", "RESTART"} /\ regs.den
                 /\ regs.mask = regs.bits /\ regs.bits \in Words
                 /\ regs.daddr = regs.bits \/ (again /\ regs.bits = 0)

\* The words that are in the MMCM: those before Word, and Word itself once
\* its write has been taken.
Done(n) == \A w \in 1 .. n - 1 : <<w, w, w>> \in written

Progress ==
  current_state \in Configuring =>
    Done(IF current_state = "WAIT_DRDY" /\ ~ regs.dwe THEN Word + 1 ELSE Word)

\* The two machines take turns.
Turns ==
  /\ clk_state = "RESET" <=> current_state = "RESTART"
  /\ clk_state = "WAIT_LOCKED" => current_state = "WAIT_LOCK"
  /\ clk_state = "WAIT_EN" => current_state = "WAIT_SEN"
  /\ sen_reg => clk_state = "WAIT_SRDY" /\ current_state = "WAIT_SEN"
  /\ clk_state = "WAIT_SRDY" =>
       /\ current_state = "WAIT_SEN" => (sen_reg <=> ~ regs.srdy)
       /\ current_state # "WAIT_SEN" => ~ regs.srdy
       /\ current_state = "WAIT_LOCK" \/ regs.srdy => Done(N)
       /\ current_state = "WAIT_LOCK" /\ regs.rst_mmcm => ~ locked
       /\ regs.srdy => locked
  /\ clk_state = "ENABLED" => current_state = "WAIT_SEN" /\ locked /\ Done(N)

CoreInv == Shapes /\ Accesses /\ Table /\ Progress /\ Turns
=============================================================================
