------------------------------- MODULE MmcmDrp -------------------------------
(***************************************************************************)
(* mmcme2_drp.v: the state machine that rewrites the registers of the MMCM *)
(* (the clock generator of the FPGA) through its reconfiguration port, one *)
(* read-modify-write per word of the table rom.                            *)
(*                                                                         *)
(* A step is one edge of SCLK.  The data is abstracted to the words of the *)
(* table: an address, a mask or a value is the index of the word it comes  *)
(* from, so that "the right bits go to the right register" is an equality. *)
(* The MMCM itself is not in the repository; of it the model takes that an *)
(* access ends with a pulse of DRDY, that a reset takes LOCKED away, and   *)
(* that it locks some time after the reset and after the last access.      *)
(***************************************************************************)
EXTENDS Naturals

CONSTANT
  N            \* STATE_COUNT_CONST, the number of words of rom: 13

ASSUME DrpAssumption == N \in 2 .. 15

VARIABLES
  current_state,
  regs,        \* the outputs registered at every edge
  rom_do,      \* the word of rom read at the last edge
  locked,      \* LOCKED
  was_locked,  \* LOCKED before the last edge
  drdy,        \* DRDY
  busy,        \* the MMCM is working on an access
  written,     \* the writes of this reconfiguration: <<register, mask, bits>>
  again        \* history: the table has been walked since the last reset

drpVars == <<current_state, regs, rom_do, locked, was_locked, drdy, busy, written, again>>

Words == 0 .. N - 1
Past  == N               \* what is read beyond the end of rom

\* rom is a vector of 13 entries with a 4-bit index: what entry 13 reads as
\* is left to synthesis.
RomRead(a) == IF a < N THEN {a} ELSE 0 .. N

DrpInit ==
  /\ current_state = "RESTART"
  /\ regs = [srdy |-> FALSE, daddr |-> 0, dwe |-> FALSE, den |-> FALSE,
             rst_mmcm |-> FALSE, mask |-> 0, bits |-> 0,
             rom_addr |-> 0, state_count |-> N]
  /\ rom_do = 0
  /\ locked \in BOOLEAN /\ was_locked = locked
  /\ drdy = FALSE /\ busy = FALSE
  /\ written = {} /\ again = FALSE

-----------------------------------------------------------------------------
(***************************************************************************)
(* One action per state; nregs and nstate are its next_... values.         *)
(***************************************************************************)
Default == [regs EXCEPT !.srdy = FALSE, !.dwe = FALSE, !.den = FALSE]

\* RST is synchronous and overrides the next state only.
Goto(rst, nstate) == current_state' = IF rst THEN "RESTART" ELSE nstate

Restart(rst) ==
  /\ current_state = "RESTART"
  /\ regs' = [Default EXCEPT !.daddr = 0, !.mask = Past, !.bits = Past,
                             !.rom_addr = 0, !.rst_mmcm = TRUE]
  /\ Goto(rst, "WAIT_LOCK")

\* Mutant: the machine is ready again without telling.
WaitLockMut_NoSrdy(rst, lock) ==
  /\ current_state = "WAIT_LOCK"
  /\ regs' = [Default EXCEPT !.rst_mmcm = FALSE, !.state_count = N]
  /\ Goto(rst, IF lock THEN "WAIT_SEN" ELSE "WAIT_LOCK")

WaitLock(rst, lock) ==
  /\ current_state = "WAIT_LOCK"
  /\ regs' = [Default EXCEPT !.rst_mmcm = FALSE, !.state_count = N,
                             !.srdy = lock]
  /\ Goto(rst, IF lock THEN "WAIT_SEN" ELSE "WAIT_LOCK")

WaitSen(rst, sen) ==
  /\ current_state = "WAIT_SEN"
  /\ regs' = IF sen THEN [Default EXCEPT !.rom_addr = 0] ELSE Default
  /\ Goto(rst, IF sen THEN "ADDRESS" ELSE "WAIT_SEN")

Address(rst) ==
  /\ current_state = "ADDRESS"
  /\ regs' = [Default EXCEPT !.rst_mmcm = TRUE, !.den = TRUE, !.daddr = rom_do]
  /\ Goto(rst, "WAIT_A_DRDY")

\* Mutant: the read is not waited for.
WaitADrdyMut_NoWait(rst) ==
  /\ current_state = "WAIT_A_DRDY"
  /\ regs' = Default
  /\ Goto(rst, "BITMASK")

WaitADrdy(rst) ==
  /\ current_state = "WAIT_A_DRDY"
  /\ regs' = Default
  /\ Goto(rst, IF drdy THEN "BITMASK" ELSE "WAIT_A_DRDY")

Bitmask(rst) ==
  /\ current_state = "BITMASK"
  /\ regs' = [Default EXCEPT !.mask = rom_do]
  /\ Goto(rst, "BITSET")

Bitset(rst) ==
  /\ current_state = "BITSET"
  /\ regs' = [Default EXCEPT !.bits = rom_do, !.rom_addr = (@ + 1) % 16]
  /\ Goto(rst, "WRITE")

Write(rst) ==
  /\ current_state = "WRITE"
  /\ regs' = [Default EXCEPT !.dwe = TRUE, !.den = TRUE,
                             !.state_count = (@ + 15) % 16]
  /\ Goto(rst, "WAIT_DRDY")

\* Mutant: the last word is left out.
WaitDrdyMut_Last(rst) ==
  /\ current_state = "WAIT_DRDY"
  /\ regs' = Default
  /\ Goto(rst, IF ~ drdy THEN "WAIT_DRDY"
               ELSE IF regs.state_count > 1 THEN "ADDRESS" ELSE "WAIT_LOCK")

WaitDrdy(rst) ==
  /\ current_state = "WAIT_DRDY"
  /\ regs' = Default
  /\ Goto(rst, IF ~ drdy THEN "WAIT_DRDY"
               ELSE IF regs.state_count > 0 THEN "ADDRESS" ELSE "WAIT_LOCK")

Machine(rst, sen, lock) ==
  \/ Restart(rst) \/ WaitLock(rst, lock) \/ WaitSen(rst, sen)
  \/ Address(rst) \/ WaitADrdy(rst) \/ Bitmask(rst) \/ Bitset(rst)
  \/ Write(rst) \/ WaitDrdy(rst)

-----------------------------------------------------------------------------
(***************************************************************************)
(* The MMCM at the same edge.                                              *)
(***************************************************************************)
MmcmAccess ==
  /\ drdy' \in IF busy THEN BOOLEAN ELSE {FALSE}
  /\ busy' = (regs.den \/ (busy /\ ~ drdy'))
  /\ written' = IF current_state = "WAIT_SEN" /\ current_state' = "ADDRESS" THEN {}
                ELSE IF regs.den /\ regs.dwe
                THEN written \cup {<<regs.daddr, regs.mask, regs.bits>>}
                ELSE written

\* The reset is asynchronous and may be seen at the next edge or the one after.
MmcmLock ==
  /\ was_locked' = locked
  /\ locked' \in IF regs.rst_mmcm THEN {FALSE}
                 ELSE IF regs'.rst_mmcm THEN {FALSE, locked}
                 ELSE IF locked THEN {TRUE}
                 ELSE IF busy \/ regs.den THEN {FALSE} ELSE BOOLEAN

RomStep == rom_do' \in RomRead(regs.rom_addr)

Walked ==
  again' = /\ current_state # "RESTART"
           /\ \/ again
              \/ current_state = "WAIT_DRDY" /\ current_state' = "WAIT_LOCK"

DrpEdge(rst, sen, lock) ==
  Machine(rst, sen, lock) /\ RomStep /\ MmcmAccess /\ MmcmLock /\ Walked
=============================================================================
