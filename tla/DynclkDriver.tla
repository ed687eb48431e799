---------------------------- MODULE DynclkDriver ----------------------------
(***************************************************************************)
(* clk-dglnt-dynclk.c together with the hardware it drives (AxiDynclk):    *)
(* set_rate writes the configuration registers one by one, then clears and *)
(* sets CTRL and polls STAT; the hardware reads the registers whenever its *)
(* reconfiguration machine gets to them.                                   *)
(*                                                                         *)
(* The clock framework runs set_rate under its prepare mutex and enable    *)
(* and disable under its enable spinlock, so a consumer that gates the     *)
(* clock may run beside one that sets its rate.                            *)
(* A rate is a model value, standing for the mode that find_mode finds and *)
(* the register values find_reg makes of it (module DynclkMode).           *)
(***************************************************************************)
EXTENDS AxiDynclk

CONSTANTS
  Rates,       \* the rates that may be asked for
  NoRate       \* freq = 0, and the registers before the first set_rate

ASSUME DriverAssumption == NoRate \notin Rates

VARIABLES
  axi,         \* the configuration registers, one per word of rom
  rom_val,     \* the value that came with rom_do
  di_val,      \* the value in DI
  mmcm,        \* the registers of the MMCM
  freq,        \* dglnt_dynclk->freq
  spc,         \* where set_rate is
  reg,         \* the register it writes next
  gpc,         \* where enable or disable is
  gated,       \* has the consumer no enable outstanding?
  target,      \* the rate being set
  clean        \* history: the last set_rate ran, from first to last, beside no gating

valVars == <<rom_val, di_val, mmcm>>
drvVars == <<axi, freq, spc, reg, gpc, gated, target, clean>>
allVars == <<vars, valVars, drvVars>>

Regs == 1 .. N - 1       \* word 0, the power bits, has no register

DrvInit ==
  /\ Init
  /\ axi = [w \in Regs |-> NoRate]
  /\ rom_val = NoRate /\ di_val = NoRate
  /\ mmcm = [w \in Regs |-> NoRate]
  /\ freq = NoRate /\ spc = "idle" /\ reg = 1 /\ gpc = "idle" /\ gated = TRUE
  /\ target = NoRate /\ clean = TRUE

-----------------------------------------------------------------------------
(***************************************************************************)
(* One edge of the bus clock, with the values that go with the words.  c   *)
(* is CTRL_REG(0) after it.                                                *)
(***************************************************************************)
DrvEdge(c) ==
  /\ Edge(FALSE, c)
  /\ rom_val' = IF rom_do' \in Regs THEN axi[rom_do'] ELSE NoRate
  /\ di_val' = IF current_state = "BITSET" THEN rom_val ELSE di_val
  /\ mmcm' = IF regs.den /\ regs.dwe /\ regs.daddr \in Regs
             THEN [mmcm EXCEPT ![regs.daddr] = di_val]
             ELSE mmcm

Idle == DrvEdge(ctrl) /\ UNCHANGED drvVars

\* set_rate up to the first writel; a rate that is already set returns at once.
SetRate(r) ==
  /\ spc = "idle"
  /\ r # freq
  /\ target' = r /\ spc' = "write" /\ reg' = 1
  /\ clean' = (gpc = "idle")
  /\ DrvEdge(ctrl)
  /\ UNCHANGED <<axi, freq, gpc, gated>>

\* dglnt_dynclk_write_reg, one writel at a time.
WriteReg ==
  /\ spc = "write"
  /\ axi' = [axi EXCEPT ![reg] = target]
  /\ IF reg < N - 1 THEN reg' = reg + 1 /\ spc' = spc
                    ELSE reg' = reg /\ spc' = "disable"
  /\ DrvEdge(ctrl)
  /\ UNCHANGED <<freq, gpc, gated, target, clean>>

\* Mutant: the clock is not disabled first.
SetDisableMut_None ==
  /\ spc = "disable"
  /\ freq' = target
  /\ spc' = "enable"
  /\ DrvEdge(ctrl)
  /\ UNCHANGED <<axi, reg, gpc, gated, target, clean>>

SetDisable ==
  /\ spc = "disable"
  /\ freq' = target
  /\ spc' = "enable"
  /\ DrvEdge(FALSE)
  /\ UNCHANGED <<axi, reg, gpc, gated, target, clean>>

\* Mutant: CTRL is not set again.
SetEnableMut_None ==
  /\ spc = "enable"
  /\ spc' = "poll"
  /\ DrvEdge(ctrl)
  /\ UNCHANGED <<axi, freq, reg, gpc, gated, target, clean>>

SetEnable ==
  /\ spc = "enable"
  /\ spc' = "poll"
  /\ DrvEdge(TRUE)
  /\ UNCHANGED <<axi, freq, reg, gpc, gated, target, clean>>

\* Mutant: STAT is not waited for.
SetPollMut_NoWait ==
  /\ spc = "poll"
  /\ spc' = "idle"
  /\ DrvEdge(ctrl)
  /\ UNCHANGED <<axi, freq, reg, gpc, gated, target, clean>>

SetPoll ==
  /\ spc = "poll"
  /\ spc' = IF Stat THEN "idle" ELSE "poll"
  /\ DrvEdge(ctrl)
  /\ UNCHANGED <<axi, freq, reg, gpc, gated, target, clean>>

\* dglnt_dynclk_enable; nothing happens while there is no rate.
Enable ==
  /\ gpc = "idle" /\ gated
  /\ gated' = FALSE /\ clean' = (clean /\ spc = "idle")
  /\ gpc' = IF freq = NoRate THEN "idle" ELSE "poll"
  /\ DrvEdge(freq # NoRate \/ ctrl)
  /\ UNCHANGED <<axi, freq, spc, reg, target>>

EnablePoll ==
  /\ gpc = "poll"
  /\ gpc' = IF Stat THEN "idle" ELSE "poll"
  /\ DrvEdge(ctrl)
  /\ UNCHANGED <<axi, freq, spc, reg, gated, target, clean>>

Disable ==
  /\ gpc = "idle" /\ ~ gated
  /\ gated' = TRUE /\ clean' = (clean /\ spc = "idle")
  /\ DrvEdge(FALSE)
  /\ UNCHANGED <<axi, freq, spc, reg, gpc, target>>

DrvNext ==
  \/ Idle
  \/ \E r \in Rates : SetRate(r)
  \/ WriteReg \/ SetDisable \/ SetEnable \/ SetPoll
  \/ Enable \/ EnablePoll \/ Disable

DrvSpec == DrvInit /\ [][DrvNext]_allVars

\* The clock runs, the MMCM answers and locks, and a caller that polls is
\* never kept from reading STAT once it has been set for good.
DrvFairness ==
  /\ WF_allVars(DrvNext /\ drdy')
  /\ WF_allVars(DrvNext /\ locked' /\ ~ locked)
  /\ WF_allVars(DrvNext)
  /\ WF_allVars(WriteReg \/ SetDisable \/ SetEnable \/ SetPoll)
  /\ WF_allVars(EnablePoll)
DrvFairSpec == DrvSpec /\ DrvFairness

-----------------------------------------------------------------------------
(***************************************************************************)
(* What recalc_rate reports is what the hardware does, even though the     *)
(* clock may be gated while its rate is set: when no call is in progress   *)
(* and the status bit is set, every register of the MMCM has the value     *)
(* that belongs to freq, from the first set_rate on that ran undisturbed,  *)
(* whatever the disturbed ones before it left behind.                      *)
(***************************************************************************)
RunsAtFreq ==
  clean /\ spc = "idle" /\ gpc = "idle" /\ Stat =>
    \A w \in Regs : mmcm[w] = freq

(***************************************************************************)
(* An undisturbed set_rate never changes a configuration register the      *)
(* hardware is about to read: it writes them while no reconfiguration is   *)
(* in progress, that of an earlier call included.                          *)
(***************************************************************************)
WritesAreQuiet ==
  clean /\ spc = "write" => current_state \notin Configuring

(***************************************************************************)
(* Every call comes back: the polling loops of enable, whose only exit is  *)
(* the status bit, end.  What can keep set_rate is only another consumer   *)
(* that gated the clock under it; what can keep enable is only that the    *)
(* rate is set again and again.                                            *)
(***************************************************************************)
CallsReturn ==
  /\ spc # "idle" ~> spc = "idle" \/ (~ clean /\ spc = "poll" /\ gated)
  /\ gpc = "poll" ~> gpc = "idle" \/ spc = "write"
-----------------------------------------------------------------------------
(***************************************************************************)
(* The strengthening that makes the invariants inductive, on top of that   *)
(* of the hardware.                                                        *)
(***************************************************************************)
DrvShapes ==
  /\ axi \in [Regs -> Rates \cup {NoRate}] /\ mmcm \in [Regs -> Rates \cup {NoRate}]
  /\ {rom_val, di_val, target} \subseteq Rates \cup {NoRate}
  /\ spc \in {"idle", "write", "disable", "enable", "poll"} /\ reg \in Regs
  /\ gpc \in {"idle", "poll"} /\ clean \in BOOLEAN

\* Nobody leaves the hardware to itself while it works or is about to: who sets
\* CTRL polls until STAT is set.
Attended ==
  spc # "poll" /\ gpc # "poll" => clk_state # "WAIT_SRDY" /\ (ctrl => clk_state = "ENABLED")

\* What an undisturbed call can rely on.
Undisturbed ==
  clean => /\ gpc = "poll" => spc = "idle"
           /\ spc = "enable" => ~ ctrl

\* The configuration registers hold the rate being set, up to the one that
\* is written next.
AxiIsTarget ==
  /\ \A w \in Regs : spc # "write" \/ w < reg => axi[w] = target
  /\ spc \in {"enable", "poll", "idle"} => freq = target

\* A walk of the table under an undisturbed call carries that rate, and what
\* is behind it in the MMCM has it.
WalkIsTarget ==
  clean /\ current_state \in Configuring =>
    /\ rom_do \in Regs => rom_val = target
    /\ current_state \in {"WRITE", "WAIT_DRDY"} /\ Word \in Regs => di_val = target
    /\ \A w \in 1 .. (IF current_state = "WAIT_DRDY" /\ ~ regs.dwe THEN Word ELSE Word - 1) :
         mmcm[w] = target

\* After it the MMCM has it all.
MmcmIsTarget ==
  /\ clean
  /\ \/ clk_state = "WAIT_SRDY" /\ (current_state = "WAIT_LOCK" \/ regs.srdy)
     \/ clk_state = "ENABLED" /\ spc \in {"poll", "idle"}
  => \A w \in Regs : mmcm[w] = target

DriverInv ==
  /\ DrvShapes /\ Attended /\ Undisturbed /\ AxiIsTarget /\ WalkIsTarget /\ MmcmIsTarget
=============================================================================
