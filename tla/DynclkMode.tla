----------------------------- MODULE DynclkMode -----------------------------
(***************************************************************************)
(* The arithmetic of clk-dglnt-dynclk.c: find_mode searches for the        *)
(* multiplier and the dividers of the MMCM that come closest to a wanted   *)
(* frequency, and find_reg turns them into register values.  set_rate      *)
(* calls the one after the other and does not look at what find_reg        *)
(* returns.                                                                *)
(*                                                                         *)
(* A step is one turn of the inner loop.  Frequencies are in kHz.  The u32 *)
(* arithmetic is that of the naturals, but for curClkMult with a parent    *)
(* above about 4252000, whose sum may pass 2^32.  There it is not used:    *)
(* above VCOMAX the inner loop has no turn.                                *)
(***************************************************************************)
EXTENDS Integers, FiniteSetsExt

CONSTANTS
  Freqs,       \* the wanted frequencies
  Parents      \* the frequencies of the parent clock

MaxParent == 4294967

ASSUME ModeAssumption ==
  /\ Freqs \subseteq Nat
  /\ Parents \subseteq 0 .. MaxParent

VCOMIN == 600000
VCOMAX == 1200000
PFDMIN == 10000
PFDMAX == 450000
OUTMIN == 4000
OUTMAX == 800000
DIV_MAX == 106
FB_MIN == 2
FB_MAX == 64
CLKDIV_MAX == 128
CLKDIV_MIN == 1

VARIABLES
  pc,
  freq, parentFreq,            \* the arguments of find_mode
  curDiv, curFb, maxFb,        \* its loops
  curClkMult,
  bestError, freq_found,
  bestPick,                    \* struct dglnt_dynclk_mode
  regValues                    \* the divider fields of struct dglnt_dynclk_reg

loopVars == <<curDiv, curFb, maxFb, curClkMult>>
bestVars == <<bestError, freq_found, bestPick>>
vars == <<pc, freq, parentFreq, loopVars, bestVars, regValues>>

-----------------------------------------------------------------------------
(***************************************************************************)
(* find_reg and what it is made of.  A field that is masked to six bits    *)
(* loses its higher ones.                                                  *)
(***************************************************************************)
WEDGE == 8192
ERR_CLKDIVIDER == 12288
ERR_CLKCOUNTCALC == -1                    \* 0xFFFFFFFF
DIV_1_REGMASK == 4161                     \* 0x1041

\* Mutant: the low time of an odd divider is not one longer.
DividerMut_Odd(divide) ==
  IF divide < 1 \/ divide > 128 THEN ERR_CLKDIVIDER
  ELSE IF divide = 1 THEN DIV_1_REGMASK
  ELSE LET highTime == divide \div 2
           odd == divide % 2
       IN odd * WEDGE + (highTime % 64) + (highTime % 64) * 64

Divider(divide) ==
  IF divide < 1 \/ divide > 128 THEN ERR_CLKDIVIDER
  ELSE IF divide = 1 THEN DIV_1_REGMASK
  ELSE LET highTime == divide \div 2
           odd == divide % 2
           lowTime == highTime + odd
       IN odd * WEDGE + (lowTime % 64) + (highTime % 64) * 64

\* Bits 12 and 13 move to bits 22 and 23.
CountCalc(divide) ==
  LET divCalc == Divider(divide)
  IN IF divCalc = ERR_CLKDIVIDER THEN ERR_CLKCOUNTCALC
     ELSE (divCalc % 4096) + ((divCalc \div 4096) % 4) * 4194304

\* NULL stands for the registers before find_reg, and for its -EINVAL.
NULL == [result |-> "none"]
EINVAL == [result |-> "EINVAL"]

FindReg(m) ==
  IF \/ m.fbmult < 2 \/ m.fbmult > 64
     \/ CountCalc(m.clkdiv) = ERR_CLKCOUNTCALC
     \/ CountCalc(m.fbmult) = ERR_CLKCOUNTCALC
     \/ Divider(m.maindiv) = ERR_CLKDIVIDER
  THEN EINVAL
  ELSE [result |-> "ok", clk0L |-> CountCalc(m.clkdiv), clkFBL |-> CountCalc(m.fbmult),
        divclk |-> Divider(m.maindiv), lookup |-> m.fbmult - 1]

-----------------------------------------------------------------------------
(***************************************************************************)
(* find_mode.                                                              *)
(***************************************************************************)
DIV_ROUND_UP(n, d) == (n + d - 1) \div d
AtMost(x, hi) == IF x > hi THEN hi ELSE x
AtLeast(x, lo) == IF x < lo THEN lo ELSE x

Clamp(f) == AtMost(AtLeast(f, OUTMIN), OUTMAX)
FirstDiv(p) == IF p > PFDMAX THEN 2 ELSE 1
MaxDiv(p) == AtMost(p \div PFDMIN, DIV_MAX)

\* Mutant: the least multiplier is rounded down.
MinFbMut_Floor(p, d) == AtLeast(d * (VCOMIN \div p), FB_MIN)

MinFb(p, d) == AtLeast(d * DIV_ROUND_UP(VCOMIN, p), FB_MIN)
MaxFb(p, d) == AtMost(d * (VCOMAX \div p), FB_MAX)
ClkMult(f, p, d) == (p * 1000 + (d * f) \div 2) \div (d * f)

\* Mutant: the divider has no upper limit.
ClkDivMut_NoMax(mult, fb) == AtLeast((mult * fb + 500) \div 1000, CLKDIV_MIN)

ClkDiv(mult, fb) == AtLeast(AtMost((mult * fb + 500) \div 1000, CLKDIV_MAX), CLKDIV_MIN)
OutFreq(p, fb, d, c) == ((p * fb) \div d) \div c
Error(f, g) == IF g >= f THEN g - f ELSE f - g

Init ==
  /\ pc = "start"
  /\ freq \in Freqs /\ parentFreq \in Parents
  /\ curDiv = 1 /\ curFb = 0 /\ maxFb = 0 /\ curClkMult = 0
  /\ bestError = OUTMAX /\ freq_found = FALSE
  /\ bestPick = [freq |-> 0, fbmult |-> 0, clkdiv |-> 0, maindiv |-> 0]
  /\ regValues = NULL

NoParent ==
  /\ pc = "start" /\ parentFreq = 0
  /\ pc' = "done"
  /\ UNCHANGED <<freq, parentFreq, loopVars, bestVars, regValues>>

Start ==
  /\ pc = "start" /\ parentFreq # 0
  /\ freq' = Clamp(freq)
  /\ curDiv' = FirstDiv(parentFreq)
  /\ pc' = "outer"
  /\ UNCHANGED <<parentFreq, curFb, maxFb, curClkMult, bestVars, regValues>>

\* The head of the outer loop.
OuterLoop ==
  /\ pc = "outer" /\ curDiv <= MaxDiv(parentFreq) /\ ~ freq_found
  /\ curFb' = MinFb(parentFreq, curDiv)
  /\ maxFb' = MaxFb(parentFreq, curDiv)
  /\ curClkMult' = ClkMult(freq, parentFreq, curDiv)
  /\ pc' = "inner"
  /\ UNCHANGED <<freq, parentFreq, curDiv, bestVars, regValues>>

\* Mutant: a later candidate replaces an equally good one, and a worse one.
InnerLoopMut_Any ==
  /\ pc = "inner" /\ curFb <= maxFb /\ ~ freq_found
  /\ LET c == ClkDiv(curClkMult, curFb)
         f == OutFreq(parentFreq, curFb, curDiv, c)
         e == Error(freq, f)
     IN /\ bestError' = e
        /\ bestPick' = [freq |-> f, fbmult |-> curFb, clkdiv |-> c, maindiv |-> curDiv]
        /\ freq_found' = (e = 0)
  /\ curFb' = curFb + 1
  /\ UNCHANGED <<pc, freq, parentFreq, curDiv, maxFb, curClkMult, regValues>>

InnerLoop ==
  /\ pc = "inner" /\ curFb <= maxFb /\ ~ freq_found
  /\ LET c == ClkDiv(curClkMult, curFb)
         f == OutFreq(parentFreq, curFb, curDiv, c)
         e == Error(freq, f)
     IN /\ IF e < bestError
           THEN /\ bestError' = e
                /\ bestPick' = [freq |-> f, fbmult |-> curFb, clkdiv |-> c, maindiv |-> curDiv]
           ELSE UNCHANGED <<bestError, bestPick>>
        /\ freq_found' = (e = 0)
  /\ curFb' = curFb + 1
  /\ UNCHANGED <<pc, freq, parentFreq, curDiv, maxFb, curClkMult, regValues>>

InnerEnd ==
  /\ pc = "inner" /\ ~ (curFb <= maxFb /\ ~ freq_found)
  /\ curDiv' = curDiv + 1
  /\ pc' = "outer"
  /\ UNCHANGED <<freq, parentFreq, curFb, maxFb, curClkMult, bestVars, regValues>>

OuterEnd ==
  /\ pc = "outer" /\ ~ (curDiv <= MaxDiv(parentFreq) /\ ~ freq_found)
  /\ pc' = "found"
  /\ UNCHANGED <<freq, parentFreq, loopVars, bestVars, regValues>>

\* set_rate: -EINVAL when find_mode returned 0, or find_reg.
SetReg ==
  /\ pc = "found"
  /\ regValues' = IF bestPick.freq = 0 THEN NULL ELSE FindReg(bestPick)
  /\ pc' = "done"
  /\ UNCHANGED <<freq, parentFreq, loopVars, bestVars>>

\* The end of the call.
Done == pc = "done" /\ UNCHANGED vars

Next == NoParent \/ Start \/ OuterLoop \/ InnerLoop \/ InnerEnd \/ OuterEnd \/ SetReg \/ Done

Spec == Init /\ [][Next]_vars

-----------------------------------------------------------------------------
Modes == [freq : Nat, fbmult : 0 .. FB_MAX, clkdiv : 0 .. CLKDIV_MAX, maindiv : 0 .. DIV_MAX]

(***************************************************************************)
(* Type invariant; the fields of the mode fit those of the registers.      *)
(***************************************************************************)
TypeOK ==
  /\ pc \in {"start", "outer", "inner", "found", "done"}
  /\ freq \in Nat /\ parentFreq \in 0 .. MaxParent
  /\ curDiv \in 1 .. DIV_MAX + 1
  /\ curFb \in Nat /\ maxFb \in 0 .. FB_MAX /\ curClkMult \in Nat
  /\ bestError \in Nat /\ freq_found \in BOOLEAN
  /\ bestPick \in Modes

(***************************************************************************)
(* find_reg accepts every mode that find_mode returns: set_rate, which     *)
(* ignores the result of find_reg, never writes registers that were left   *)
(* uninitialised.                                                          *)
(***************************************************************************)
FindRegAccepts == regValues # EINVAL

(***************************************************************************)
(* The mode that is returned keeps the MMCM inside its specification: the  *)
(* VCO between VCOMIN and VCOMAX and the phase detector between PFDMIN and *)
(* PFDMAX, the latter for parents up to twice PFDMAX.                      *)
(***************************************************************************)
InSpecification ==
  bestPick.freq # 0 =>
    LET vco == parentFreq * bestPick.fbmult
        d == bestPick.maindiv
    IN /\ VCOMIN * d <= vco /\ vco <= VCOMAX * d
       /\ PFDMIN * d <= parentFreq
       /\ parentFreq <= 2 * PFDMAX => parentFreq <= PFDMAX * d

\* The pairs of a divider and a multiplier that the loops may try.
Candidates(p) ==
  UNION {{d} \X (MinFb(p, d) .. MaxFb(p, d)) : d \in FirstDiv(p) .. MaxDiv(p)}
CandidateError(f, p, x) ==
  Error(f, OutFreq(p, x[2], x[1], ClkDiv(ClkMult(f, p, x[1]), x[2])))

(***************************************************************************)
(* The search finds the best candidate: no pair it may try, the ones after *)
(* an exact hit included, comes closer to the wanted frequency; and it     *)
(* finds one whenever there is one.                                        *)
(***************************************************************************)
PickIsBest ==
  pc = "done" /\ parentFreq # 0 /\ Candidates(parentFreq) # {} =>
    /\ bestPick.freq # 0
    /\ Error(freq, bestPick.freq) =
         Min({CandidateError(freq, parentFreq, x) : x \in Candidates(parentFreq)})

(***************************************************************************)
(* The divider tried for a multiplier is the best one for it.  It is not   *)
(* always, because of the rounding of curClkMult.                          *)
(***************************************************************************)
ClkDivIsBest ==
  pc = "inner" /\ curFb <= maxFb =>
    \A c \in CLKDIV_MIN .. CLKDIV_MAX :
      Error(freq, OutFreq(parentFreq, curFb, curDiv, ClkDiv(curClkMult, curFb)))
        <= Error(freq, OutFreq(parentFreq, curFb, curDiv, c))

\* What the hardware makes of a divider register: a time of 0 means 64.
Time(x) == IF x = 0 THEN 64 ELSE x
Decoded(r) ==
  IF (r \div 4096) % 4 = 1 THEN 1 ELSE Time(r % 64) + Time((r \div 64) % 64)
DecodedCount(r) == Decoded((r % 4096) + (r \div 4194304) * 4096)

(***************************************************************************)
(* The hardware divides by what find_mode meant: decoding the fields, with *)
(* the six-bit times that wrap at 64, gives the mode back.                 *)
(***************************************************************************)
RegistersDecode ==
  regValues.result = "ok" =>
    /\ DecodedCount(regValues.clk0L) = bestPick.clkdiv
    /\ DecodedCount(regValues.clkFBL) = bestPick.fbmult
    /\ Decoded(regValues.divclk) = bestPick.maindiv
    /\ regValues.lookup \in 0 .. 63
-----------------------------------------------------------------------------
(***************************************************************************)
(* The strengthening that makes the invariants inductive: inside the loops *)
(* the candidate stays in the window computed at the head of the outer     *)
(* loop, a mode that was picked came from such a candidate, and the        *)
(* registers are made last.                                                *)
(***************************************************************************)
InWindow ==
  /\ pc \in {"outer", "inner"} =>
       parentFreq > 0 /\ freq >= OUTMIN /\ curDiv >= FirstDiv(parentFreq)
  /\ pc = "inner" => /\ curDiv <= MaxDiv(parentFreq)
                     /\ curFb >= MinFb(parentFreq, curDiv)
                     /\ maxFb = MaxFb(parentFreq, curDiv)

ModeOK ==
  bestPick.freq # 0 => /\ bestPick.fbmult \in FB_MIN .. FB_MAX
                       /\ bestPick.clkdiv \in CLKDIV_MIN .. CLKDIV_MAX
                       /\ bestPick.maindiv \in 1 .. DIV_MAX

RegsLast == pc # "done" => regValues = NULL

ModeInv ==
  /\ TypeOK /\ InWindow /\ ModeOK /\ InSpecification
  /\ FindRegAccepts /\ RegsLast /\ RegistersDecode

\* The pairs the search has been through, or has passed over after an exact hit.
Tried(x) ==
  \/ pc \in {"found", "done"}
  \/ x[1] < curDiv
  \/ pc = "inner" /\ x[1] = curDiv /\ x[2] < curFb

(***************************************************************************)
(* The loop invariant of the search: no candidate tried so far comes       *)
(* closer than the pick, the pick is one of the candidates, and an exact   *)
(* hit ends the search.                                                    *)
(***************************************************************************)
SearchInv ==
  /\ freq_found => bestError = 0
  /\ bestPick.freq = 0 => bestError = OUTMAX
  /\ pc = "start" => ~ freq_found /\ curDiv = 1 /\ bestPick.freq = 0
  /\ pc # "start" /\ parentFreq # 0 =>
       /\ OUTMIN <= freq /\ freq <= OUTMAX
       /\ pc = "inner" => curClkMult = ClkMult(freq, parentFreq, curDiv)
       /\ bestPick.freq # 0 =>
            /\ bestError = Error(freq, bestPick.freq)
            /\ \E x \in Candidates(parentFreq) : bestError = CandidateError(freq, parentFreq, x)
       /\ \A x \in Candidates(parentFreq) :
            Tried(x) => bestError <= CandidateError(freq, parentFreq, x)

=============================================================================
