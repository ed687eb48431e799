--------------------------- MODULE DynclkModeProof ---------------------------
(***************************************************************************)
(* Proofs about DynclkMode, for every set of wanted and of parent          *)
(* frequencies.                                                            *)
(***************************************************************************)
EXTENDS DynclkMode, TLAPS

\* What the provers need of multiplication and division.
LEMMA MulMono == \A a, b, c \in Nat : a <= b => a * c <= b * c
  OBVIOUS

\* A product of positive numbers is positive.
LEMMA MulPos == \A a, b \in Nat : a > 0 /\ b > 0 => a * b \in Nat /\ a * b > 0
  OBVIOUS

\* A product of naturals is one.
LEMMA MulNat == \A a, b \in Nat : a * b \in Nat
  OBVIOUS

\* A quotient of naturals is one.
LEMMA DivNat == \A a, b \in Nat : b > 0 => a \div b \in Nat
  OBVIOUS

\* A quotient, multiplied again, is at most the dividend.
LEMMA DivBelow == \A a, b \in Nat : b > 0 => (a \div b) * b <= a
  OBVIOUS

\* It misses the dividend by less than the divisor.
LEMMA DivAbove == \A a, b \in Nat : b > 0 => a < (a \div b) * b + b
  OBVIOUS

\* What they need of the limits.
LEMMA Limits ==
  /\ OUTMIN \in Nat /\ OUTMAX \in Nat /\ 0 < OUTMIN /\ OUTMIN <= OUTMAX
  /\ \A p \in 0 .. MaxParent : p \in Nat
<1>1. OUTMIN \in Nat /\ OUTMAX \in Nat /\ 0 < OUTMIN /\ OUTMIN <= OUTMAX
  BY SMT DEF OUTMIN, OUTMAX
<1>2. \A p \in 0 .. MaxParent : p \in Nat
  BY SMT
<1> QED
  BY <1>1, <1>2

-----------------------------------------------------------------------------
(***************************************************************************)
(* The register fields.                                                    *)
(***************************************************************************)

\* A divider that is in range never encodes to the error value.
LEMMA DividerInRange ==
  ASSUME NEW d \in 1 .. 128
  PROVE  Divider(d) \in Nat /\ Divider(d) # ERR_CLKDIVIDER
<1>1. CASE d = 1
  BY <1>1 DEF Divider, DIV_1_REGMASK, ERR_CLKDIVIDER
<1>2. CASE d # 1
  <2> DEFINE h == d \div 2
             o == d % 2
  <2>1. h \in Nat /\ o \in {0, 1}
    OBVIOUS
  <2>2. (h + o) % 64 \in 0 .. 63 /\ h % 64 \in 0 .. 63
    BY <2>1
  <2>3. Divider(d) = o * WEDGE + ((h + o) % 64) + (h % 64) * 64
    BY <1>2 DEF Divider
  <2> HIDE DEF h, o
  <2> DEFINE l == (h + o) % 64
             g == h % 64
  <2>4. l \in 0 .. 63 /\ g \in 0 .. 63 /\ Divider(d) = o * 8192 + l + g * 64
    BY <2>2, <2>3 DEF WEDGE
  <2> HIDE DEF l, g
  <2>5. CASE o = 0
    BY <2>4, <2>5 DEF ERR_CLKDIVIDER
  <2>6. CASE o = 1
    BY <2>4, <2>6 DEF ERR_CLKDIVIDER
  <2> QED
    BY <2>1, <2>5, <2>6
<1> QED
  BY <1>1, <1>2

\* What dglnt_dynclk_count_calc makes of a divider in range is a valid register value.
LEMMA CountCalcInRange ==
  ASSUME NEW d \in 1 .. 128
  PROVE  CountCalc(d) # ERR_CLKCOUNTCALC
<1> DEFINE v == Divider(d)
<1>1. v \in Nat /\ v # ERR_CLKDIVIDER
  BY DividerInRange
<1>2. CountCalc(d) = (v % 4096) + ((v \div 4096) % 4) * 4194304
  BY <1>1 DEF CountCalc
<1> HIDE DEF v
<1>3. v % 4096 \in Nat /\ (v \div 4096) % 4 \in Nat
  BY <1>1
<1>4. CountCalc(d) \in Nat
  BY <1>2, <1>3
<1> QED
  BY <1>4 DEF ERR_CLKCOUNTCALC

\* The hardware reads a divider that is in range back from its fields.
LEMMA DividerDecodes ==
  ASSUME NEW d \in 1 .. 128
  PROVE  Divider(d) \in Nat /\ Divider(d) < 16384 /\ Decoded(Divider(d)) = d
<1>1. CASE d = 1
  <2>1. Divider(d) = 4161
    BY <1>1 DEF Divider, DIV_1_REGMASK
  <2>2. 4161 \div 4096 = 1 /\ 1 % 4 = 1
    BY SMT
  <2>3. Decoded(4161) = 1
    BY <2>2, SMT DEF Decoded
  <2> QED
    BY <1>1, <2>1, <2>3, SMT
<1>2. CASE d # 1
  <2> DEFINE h == d \div 2
             o == d % 2
             l == (h + o) % 64
             g == h % 64
             v == o * 8192 + l + g * 64
  <2>1. h \in 1 .. 64 /\ o \in {0, 1} /\ d = 2 * h + o
    BY <1>2
  <2>2. Divider(d) = v
    BY <1>2, SMT DEF Divider, WEDGE
  <2> HIDE DEF h, o
  <2>3. l \in 0 .. 63 /\ g \in 0 .. 63
    BY <2>1
  <2>4. Time(l) = h + o /\ Time(g) = h
    BY <1>2, <2>1 DEF Time
  <2> HIDE DEF l, g
  <2>5. v % 64 = l
    BY <2>1, <2>3, SMT
  <2>6. (v \div 64) % 64 = g
    BY <2>1, <2>3, SMT
  <2>7. (v \div 4096) % 4 # 1
    BY <2>1, <2>3, SMT
  <2>8. v \in Nat /\ v < 16384
    BY <2>1, <2>3, SMT
  <2> HIDE DEF v
  <2>9. Decoded(v) = Time(l) + Time(g)
    BY <2>5, <2>6, <2>7, SMT DEF Decoded
  <2> QED
    BY <2>1, <2>2, <2>4, <2>8, <2>9, SMT
<1> QED
  BY <1>1, <1>2, SMT

\* It decodes to the divider it was made of.
LEMMA CountDecodes ==
  ASSUME NEW d \in 1 .. 128
  PROVE  DecodedCount(CountCalc(d)) = d
<1> DEFINE v == Divider(d)
           lo == v % 4096
           hi == (v \div 4096) % 4
           r == lo + hi * 4194304
<1>1. v \in Nat /\ v < 16384 /\ Decoded(v) = d /\ v # ERR_CLKDIVIDER
  BY DividerDecodes, DividerInRange, SMT
<1>2. CountCalc(d) = r
  BY <1>1, SMT DEF CountCalc
<1> HIDE DEF v
<1>3. lo \in Nat /\ lo < 4096 /\ hi \in 0 .. 3 /\ v = lo + hi * 4096
  BY <1>1, SMT
<1> HIDE DEF lo, hi
<1>4. r % 4096 = lo /\ r \div 4194304 = hi
  BY <1>3, SMT
<1> QED
  BY <1>1, <1>2, <1>3, <1>4, SMT DEF DecodedCount

\* find_reg accepts a mode whose fields are in range.
LEMMA FindRegInRange ==
  ASSUME NEW m, m.fbmult \in 2 .. 64, m.clkdiv \in 1 .. 128, m.maindiv \in 1 .. 106
  PROVE  FindReg(m) # EINVAL
<1>1. CountCalc(m.clkdiv) # ERR_CLKCOUNTCALC
  BY CountCalcInRange
<1>2. m.fbmult \in 1 .. 128 /\ ~ (m.fbmult < 2) /\ ~ (m.fbmult > 64)
  OBVIOUS
<1>3. CountCalc(m.fbmult) # ERR_CLKCOUNTCALC
  BY <1>2, CountCalcInRange
<1>4. m.maindiv \in 1 .. 128
  OBVIOUS
<1>5. Divider(m.maindiv) # ERR_CLKDIVIDER
  BY <1>4, DividerInRange
<1>6. FindReg(m).result = "ok"
  BY <1>1, <1>2, <1>3, <1>5 DEF FindReg
<1> QED
  BY <1>6 DEF EINVAL

-----------------------------------------------------------------------------
(***************************************************************************)
(* The window of the loops.                                                *)
(***************************************************************************)

\* A clamped value lies between its limits.
LEMMA ClampFacts ==
  ASSUME NEW x \in Nat, NEW b \in Nat
  PROVE  /\ AtMost(x, b) \in Nat /\ AtMost(x, b) <= b /\ AtMost(x, b) <= x
         /\ AtLeast(x, b) \in Nat /\ AtLeast(x, b) >= b /\ AtLeast(x, b) >= x
  BY DEF AtMost, AtLeast

\* The heads of the loops compute naturals.
LEMMA WindowTypes ==
  ASSUME NEW p \in Nat, p > 0, NEW d \in Nat
  PROVE  /\ MinFb(p, d) \in Nat /\ MinFb(p, d) >= FB_MIN
         /\ MinFb(p, d) >= d * DIV_ROUND_UP(VCOMIN, p)
         /\ MaxFb(p, d) \in 0 .. FB_MAX
         /\ MaxFb(p, d) <= d * (VCOMAX \div p)
<1>1. DIV_ROUND_UP(VCOMIN, p) \in Nat
  <2>1. VCOMIN + p - 1 \in Nat
    BY DEF VCOMIN
  <2> QED
    BY <2>1, DivNat DEF DIV_ROUND_UP
<1>2. d * DIV_ROUND_UP(VCOMIN, p) \in Nat
  BY <1>1, MulNat
<1>3. VCOMAX \div p \in Nat
  BY DivNat DEF VCOMAX
<1>4. d * (VCOMAX \div p) \in Nat
  BY <1>3, MulNat
<1>5. FB_MIN \in Nat /\ FB_MAX \in Nat
  BY DEF FB_MIN, FB_MAX
<1>6. MinFb(p, d) \in Nat /\ MinFb(p, d) >= FB_MIN /\ MinFb(p, d) >= d * DIV_ROUND_UP(VCOMIN, p)
  BY <1>2, <1>5, ClampFacts, Zenon DEF MinFb
<1>7. MaxFb(p, d) \in Nat /\ MaxFb(p, d) <= FB_MAX /\ MaxFb(p, d) <= d * (VCOMAX \div p)
  BY <1>4, <1>5, ClampFacts, Zenon DEF MaxFb
<1> QED
  BY <1>5, <1>6, <1>7

\* A multiplier of the window keeps the VCO above VCOMIN ...
LEMMA VcoAbove ==
  ASSUME NEW p \in Nat, p > 0, NEW d \in Nat, NEW fb \in Nat, fb >= MinFb(p, d)
  PROVE  VCOMIN * d <= p * fb
<1> DEFINE q == DIV_ROUND_UP(VCOMIN, p)
<1>1. q \in Nat /\ VCOMIN <= q * p
  <2>1. VCOMIN + p - 1 \in Nat
    BY DEF VCOMIN
  <2>2. q \in Nat /\ VCOMIN + p - 1 < q * p + p
    BY <2>1, DivNat, DivAbove DEF DIV_ROUND_UP
  <2> HIDE DEF q
  <2>3. q * p \in Nat
    BY <2>2, MulNat
  <2> QED
    BY <2>2, <2>3 DEF VCOMIN
<1>2. fb >= d * q
  <2>1. MinFb(p, d) \in Nat /\ MinFb(p, d) >= d * q
    BY WindowTypes
  <2> HIDE DEF q
  <2>2. d * q \in Nat
    BY <1>1, MulNat
  <2> QED
    BY <2>1, <2>2
<1> HIDE DEF q
<1>3. d * q \in Nat /\ q * p \in Nat /\ VCOMIN \in Nat
  BY <1>1, MulNat DEF VCOMIN
<1>4. (d * q) * p <= fb * p
  BY <1>2, <1>3, MulMono
<1>5. VCOMIN * d <= (q * p) * d
  BY <1>1, <1>3, MulMono
<1>6. (q * p) * d = (d * q) * p
  BY <1>1
<1>7. fb * p = p * fb /\ p * fb \in Nat /\ VCOMIN * d \in Nat /\ (q * p) * d \in Nat
  BY <1>3, MulNat
<1> QED
  BY <1>4, <1>5, <1>6, <1>7

\* ... and below VCOMAX.
LEMMA VcoBelow ==
  ASSUME NEW p \in Nat, p > 0, NEW d \in Nat, NEW fb \in Nat, fb <= MaxFb(p, d)
  PROVE  p * fb <= VCOMAX * d
<1> DEFINE q == VCOMAX \div p
<1>1. q \in Nat /\ q * p <= VCOMAX /\ VCOMAX \in Nat
  BY DivNat, DivBelow DEF VCOMAX
<1>2. fb <= d * q
  <2>1. MaxFb(p, d) \in Nat /\ MaxFb(p, d) <= d * q
    <3>1. MaxFb(p, d) \in 0 .. FB_MAX /\ MaxFb(p, d) <= d * q
      BY WindowTypes
    <3>2. \A x : x \in 0 .. 64 => x \in Nat
      OBVIOUS
    <3> QED
      BY <3>1, <3>2 DEF FB_MAX
  <2> HIDE DEF q
  <2>2. d * q \in Nat
    BY <1>1, MulNat
  <2> QED
    BY <2>1, <2>2
<1> HIDE DEF q
<1>3. d * q \in Nat /\ q * p \in Nat
  BY <1>1, MulNat
<1>4. fb * p <= (d * q) * p
  BY <1>2, <1>3, MulMono
<1>5. (q * p) * d <= VCOMAX * d
  BY <1>1, <1>3, MulMono
<1>6. (q * p) * d = (d * q) * p
  BY <1>1
<1>7. fb * p = p * fb /\ p * fb \in Nat /\ VCOMAX * d \in Nat /\ (q * p) * d \in Nat
  BY <1>1, <1>3, MulNat
<1> QED
  BY <1>4, <1>5, <1>6, <1>7

\* A divider of the window keeps the phase detector in its range.
LEMMA PfdInRange ==
  ASSUME NEW p \in Nat, p > 0, NEW d \in Nat, d >= FirstDiv(p), d <= MaxDiv(p)
  PROVE  /\ d \in 1 .. DIV_MAX
         /\ PFDMIN * d <= p
         /\ p <= 2 * PFDMAX => p <= PFDMAX * d
<1>1. p \div PFDMIN \in Nat /\ (p \div PFDMIN) * 10000 <= p
  BY DivNat, DivBelow DEF PFDMIN
<1>2. d <= DIV_MAX /\ d <= p \div PFDMIN
  <2> DEFINE q == p \div PFDMIN
  <2>1. q \in Nat /\ d <= AtMost(q, 106)
    BY <1>1 DEF MaxDiv, DIV_MAX
  <2> HIDE DEF q
  <2>2. d <= 106 /\ d <= q
    BY <2>1 DEF AtMost
  <2> QED
    BY <2>2 DEF DIV_MAX, q
<1>3. d >= 1 /\ (p > 450000 => d >= 2)
  BY DEF FirstDiv, PFDMAX
<1>4. PFDMIN * d <= p
  BY <1>1, <1>2 DEF PFDMIN
<1>5. p <= 900000 => p <= 450000 * d
  BY <1>3
<1> QED
  BY <1>2, <1>3, <1>4, <1>5 DEF PFDMAX, DIV_MAX

-----------------------------------------------------------------------------
(***************************************************************************)
(* One candidate.                                                          *)
(***************************************************************************)

\* The output divider tried in the inner loop is in range.
LEMMA ClkDivInRange ==
  ASSUME NEW mult \in Nat, NEW fb \in Nat
  PROVE  ClkDiv(mult, fb) \in CLKDIV_MIN .. CLKDIV_MAX
<1> DEFINE x == (mult * fb + 500) \div 1000
<1>1. mult * fb \in Nat
  BY MulNat
<1>2. x \in Nat
  BY <1>1
<1> HIDE DEF x
<1> QED
  BY <1>2 DEF ClkDiv, x, AtLeast, AtMost, CLKDIV_MAX, CLKDIV_MIN

\* The frequency a candidate gives is a natural.
LEMMA OutFreqNat ==
  ASSUME NEW p \in Nat, NEW fb \in Nat, NEW d \in Nat, d > 0, NEW c \in Nat, c > 0
  PROVE  OutFreq(p, fb, d, c) \in Nat
<1>1. p * fb \in Nat
  BY MulNat
<1>2. (p * fb) \div d \in Nat
  BY <1>1, DivNat
<1> QED
  BY <1>2, DivNat DEF OutFreq

\* So is its distance from the wanted one.
LEMMA ErrorNat == \A f, g \in Nat : Error(f, g) \in Nat
  BY DEF Error

\* So is the multiplier in thousandths.
LEMMA ClkMultNat ==
  ASSUME NEW f \in Nat, f > 0, NEW p \in Nat, NEW d \in Nat, d > 0
  PROVE  ClkMult(f, p, d) \in Nat
<1>1. d * f \in Nat /\ d * f > 0
  BY MulPos
<1>2. p * 1000 + ((d * f) \div 2) \in Nat
  BY <1>1
<1> QED
  BY <1>1, <1>2, DivNat DEF ClkMult

-----------------------------------------------------------------------------
(***************************************************************************)
(* The inductive invariant.                                                *)
(***************************************************************************)

\* The conjuncts that are about the registers.
RegsOK == FindRegAccepts /\ RegsLast /\ RegistersDecode

\* What find_reg makes of a mode it accepts.
FindRegOK(m) ==
  [result |-> "ok", clk0L |-> CountCalc(m.clkdiv), clkFBL |-> CountCalc(m.fbmult),
   divclk |-> Divider(m.maindiv), lookup |-> m.fbmult - 1]

\* The invariant holds before find_mode.
LEMMA InitModeInv == Init => ModeInv
<1> SUFFICES ASSUME Init PROVE ModeInv
  OBVIOUS
<1>1. TypeOK
  <2>1. freq \in Nat /\ parentFreq \in 0 .. MaxParent
    BY ModeAssumption DEF Init
  <2>2. bestPick \in Modes
    BY DEF Init, Modes, FB_MAX, CLKDIV_MAX, DIV_MAX
  <2>3. curDiv \in 1 .. DIV_MAX + 1 /\ maxFb \in 0 .. FB_MAX
    BY DEF Init, FB_MAX, DIV_MAX
  <2>4. curFb \in Nat /\ curClkMult \in Nat
    BY DEF Init
  <2>5. bestError \in Nat
    BY Limits DEF Init
  <2> QED
    BY <2>1, <2>2, <2>3, <2>4, <2>5, Zenon DEF Init, TypeOK
<1>2. InWindow
  BY DEF Init, InWindow
<1>3. bestPick.freq = 0
  BY DEF Init
<1>4. RegsOK
  BY DEF Init, RegsOK, FindRegAccepts, RegsLast, RegistersDecode, NULL, EINVAL
<1> QED
  BY <1>1, <1>2, <1>3, <1>4 DEF ModeInv, ModeOK, InSpecification, RegsOK

\* It holds when the outer loop is entered,
LEMMA StartStep ==
  ASSUME ModeInv, Start
  PROVE  ModeInv'
<1>1. TypeOK /\ ModeOK /\ InSpecification /\ RegsOK
  BY DEF ModeInv, RegsOK
<1>2. freq' \in Nat /\ freq' >= OUTMIN
  BY <1>1, Limits DEF Start, TypeOK, Clamp, AtMost, AtLeast
<1>3. curDiv' \in 1 .. DIV_MAX + 1 /\ curDiv' >= FirstDiv(parentFreq)
  BY DEF Start, FirstDiv, DIV_MAX
<1>4. parentFreq > 0
  BY <1>1, Limits DEF Start, TypeOK
<1>5. TypeOK'
  BY <1>1, <1>2, <1>3 DEF Start, TypeOK, bestVars
<1>6. InWindow'
  BY <1>2, <1>3, <1>4 DEF Start, InWindow
<1>7. (ModeOK /\ InSpecification /\ RegsOK)'
  BY <1>1 DEF Start, bestVars, ModeOK, InSpecification, RegsOK,
          FindRegAccepts, RegsLast, RegistersDecode
<1> QED
  BY <1>5, <1>6, <1>7 DEF ModeInv, RegsOK

\* at each turn of the outer loop,
LEMMA OuterStep ==
  ASSUME ModeInv, OuterLoop
  PROVE  ModeInv'
<1>1. TypeOK /\ InWindow /\ ModeOK /\ InSpecification /\ RegsOK
  BY DEF ModeInv, RegsOK
<1>2. parentFreq \in Nat /\ parentFreq > 0 /\ curDiv \in Nat /\ curDiv > 0
  BY <1>1, Limits DEF TypeOK, InWindow, OuterLoop, DIV_MAX
<1>3. freq \in Nat /\ freq > 0
  BY <1>1, Limits DEF TypeOK, InWindow, OuterLoop
<1>4. curFb' \in Nat /\ maxFb' \in 0 .. FB_MAX
  BY <1>2, WindowTypes DEF OuterLoop
<1>5. curClkMult' \in Nat
  BY <1>2, <1>3, ClkMultNat DEF OuterLoop
<1>6. TypeOK'
  BY <1>1, <1>4, <1>5 DEF OuterLoop, TypeOK, bestVars
<1>7. MinFb(parentFreq, curDiv) \in Nat
  BY <1>2, WindowTypes
<1>8. curFb' >= MinFb(parentFreq, curDiv) /\ maxFb' = MaxFb(parentFreq, curDiv)
  BY <1>7 DEF OuterLoop
<1>9. InWindow'
  BY <1>1, <1>8 DEF OuterLoop, InWindow
<1>10. (ModeOK /\ InSpecification /\ RegsOK)'
  BY <1>1 DEF OuterLoop, bestVars, ModeOK, InSpecification, RegsOK,
          FindRegAccepts, RegsLast, RegistersDecode
<1> QED
  BY <1>6, <1>9, <1>10 DEF ModeInv, RegsOK

\* at each turn of the inner loop,
LEMMA InnerStep ==
  ASSUME ModeInv, InnerLoop
  PROVE  ModeInv'
<1>1. TypeOK /\ InWindow /\ ModeOK /\ InSpecification /\ RegsOK
  BY DEF ModeInv, RegsOK
<1>2. /\ parentFreq \in Nat /\ parentFreq > 0 /\ freq \in Nat
      /\ curDiv \in Nat /\ curDiv >= FirstDiv(parentFreq) /\ curDiv <= MaxDiv(parentFreq)
  BY <1>1, Limits DEF TypeOK, InWindow, InnerLoop, DIV_MAX
<1>3. /\ curFb \in Nat /\ curClkMult \in Nat
      /\ curFb >= MinFb(parentFreq, curDiv) /\ curFb <= MaxFb(parentFreq, curDiv)
  BY <1>1 DEF TypeOK, InWindow, InnerLoop
<1>4. MinFb(parentFreq, curDiv) \in Nat /\ MinFb(parentFreq, curDiv) >= 2
  BY <1>2, WindowTypes DEF FB_MIN
<1>5. MaxFb(parentFreq, curDiv) \in 0 .. 64
  BY <1>2, WindowTypes DEF FB_MAX
<1>6. curFb \in FB_MIN .. FB_MAX
  BY <1>3, <1>4, <1>5 DEF FB_MIN, FB_MAX
<1>7. /\ curDiv \in 1 .. DIV_MAX
      /\ PFDMIN * curDiv <= parentFreq
      /\ parentFreq <= 2 * PFDMAX => parentFreq <= PFDMAX * curDiv
  BY <1>2, PfdInRange
<1>8. VCOMIN * curDiv <= parentFreq * curFb /\ parentFreq * curFb <= VCOMAX * curDiv
  BY <1>2, <1>3, VcoAbove, VcoBelow
<1> DEFINE c == ClkDiv(curClkMult, curFb)
           f == OutFreq(parentFreq, curFb, curDiv, c)
           e == Error(freq, f)
           m == [freq |-> f, fbmult |-> curFb, clkdiv |-> c, maindiv |-> curDiv]
<1>9. c \in CLKDIV_MIN .. CLKDIV_MAX
  BY <1>3, ClkDivInRange
<1>10. f \in Nat
  <2>1. c \in Nat /\ c > 0
    BY <1>9 DEF CLKDIV_MIN, CLKDIV_MAX
  <2>2. curDiv > 0
    BY <1>7 DEF DIV_MAX
  <2> QED
    BY <1>2, <1>3, <2>1, <2>2, OutFreqNat
<1>11. e \in Nat
  BY <1>2, <1>10, ErrorNat, Zenon
<1>12. \/ bestError' = e /\ bestPick' = m
       \/ bestError' = bestError /\ bestPick' = bestPick
  BY DEF InnerLoop
<1>13. /\ curFb' = curFb + 1 /\ freq_found' = (e = 0)
       /\ UNCHANGED <<pc, freq, parentFreq, curDiv, maxFb, curClkMult, regValues>>
  BY DEF InnerLoop
<1> HIDE DEF c, f, e
<1>14. m \in Modes
  <2>1. curFb \in 0 .. FB_MAX
    BY <1>6 DEF FB_MIN, FB_MAX
  <2>2. c \in 0 .. CLKDIV_MAX
    BY <1>9 DEF CLKDIV_MIN, CLKDIV_MAX
  <2>3. curDiv \in 0 .. DIV_MAX
    BY <1>7 DEF DIV_MAX
  <2> QED
    BY <1>10, <2>1, <2>2, <2>3 DEF Modes
<1>15. TypeOK'
  <2>1. bestPick' \in Modes
    BY <1>1, <1>12, <1>14 DEF TypeOK
  <2>2. bestError' \in Nat
    BY <1>1, <1>11, <1>12 DEF TypeOK
  <2>3. curFb' \in Nat
    BY <1>3, <1>13
  <2>4. freq_found' \in BOOLEAN
    BY <1>13
  <2> QED
    BY <1>1, <1>13, <2>1, <2>2, <2>3, <2>4 DEF TypeOK
<1>16. InWindow'
  <2>1. curFb' >= MinFb(parentFreq, curDiv)
    BY <1>3, <1>4, <1>13
  <2> QED
    BY <1>1, <1>13, <2>1 DEF InWindow, InnerLoop
<1>17. ModeOK'
  BY <1>1, <1>6, <1>7, <1>9, <1>12 DEF ModeOK
<1>18. InSpecification'
  <2>1. CASE bestPick' = m
    <3>1. bestPick'.fbmult = curFb /\ bestPick'.maindiv = curDiv
      BY <2>1
    <3> QED
      BY <3>1, <1>7, <1>8, <1>13 DEF InSpecification
  <2>2. CASE bestPick' = bestPick
    BY <2>2, <1>1, <1>13 DEF InSpecification
  <2> QED
    BY <2>1, <2>2, <1>12
<1>19. RegsOK'
  <2>1. regValues = NULL
    BY <1>1 DEF RegsOK, RegsLast, InnerLoop
  <2> QED
    BY <2>1, <1>13 DEF RegsOK, FindRegAccepts, RegsLast, RegistersDecode, NULL, EINVAL
<1> QED
  BY <1>15, <1>16, <1>17, <1>18, <1>19 DEF ModeInv, RegsOK

\* at the end of the inner loop,
LEMMA InnerEndStep ==
  ASSUME ModeInv, InnerEnd
  PROVE  ModeInv'
<1>1. TypeOK /\ InWindow /\ ModeOK /\ InSpecification /\ RegsOK
  BY DEF ModeInv, RegsOK
<1>2. /\ parentFreq \in Nat /\ parentFreq > 0
      /\ curDiv \in Nat /\ curDiv >= FirstDiv(parentFreq) /\ curDiv <= MaxDiv(parentFreq)
  BY <1>1, Limits DEF TypeOK, InWindow, InnerEnd, DIV_MAX
<1>3. curDiv \in 1 .. DIV_MAX
  BY <1>2, PfdInRange
<1>4. curDiv' \in 1 .. DIV_MAX + 1
  BY <1>3 DEF InnerEnd, DIV_MAX
<1>5. curDiv' >= FirstDiv(parentFreq)
  BY <1>2 DEF InnerEnd, FirstDiv
<1>6. TypeOK'
  BY <1>1, <1>4 DEF InnerEnd, TypeOK, bestVars
<1>7. InWindow'
  BY <1>1, <1>5 DEF InnerEnd, InWindow
<1>8. (ModeOK /\ InSpecification /\ RegsOK)'
  BY <1>1 DEF InnerEnd, bestVars, ModeOK, InSpecification, RegsOK,
          FindRegAccepts, RegsLast, RegistersDecode
<1> QED
  BY <1>6, <1>7, <1>8 DEF ModeInv, RegsOK

\* when find_reg has encoded the mode,
LEMMA SetRegStep ==
  ASSUME ModeInv, SetReg
  PROVE  ModeInv'
<1>1. TypeOK /\ InWindow /\ ModeOK /\ InSpecification
  BY DEF ModeInv
<1>2. RegsOK'
  <2>1. CASE bestPick.freq = 0
    BY <2>1 DEF SetReg, RegsOK, FindRegAccepts, RegsLast, RegistersDecode, NULL, EINVAL
  <2>2. CASE bestPick.freq # 0
    <3>1. /\ bestPick.fbmult \in 2 .. 64 /\ bestPick.clkdiv \in 1 .. 128
          /\ bestPick.maindiv \in 1 .. 106
      BY <1>1, <2>2 DEF ModeOK, FB_MIN, FB_MAX, CLKDIV_MIN, CLKDIV_MAX, DIV_MAX
    <3>2. FindReg(bestPick) # EINVAL
      BY <3>1, FindRegInRange
    <3>3. /\ regValues' = FindReg(bestPick) /\ pc' = "done" /\ bestPick' = bestPick
      BY <2>2 DEF SetReg, bestVars
    <3>4. FindReg(bestPick) = FindRegOK(bestPick)
      BY <3>2 DEF FindReg, FindRegOK
    <3>5. bestPick.fbmult \in 1 .. 128 /\ bestPick.maindiv \in 1 .. 128 /\ bestPick.fbmult - 1 \in 0 .. 63
      BY <3>1
    <3>6. /\ DecodedCount(CountCalc(bestPick.clkdiv)) = bestPick.clkdiv
          /\ DecodedCount(CountCalc(bestPick.fbmult)) = bestPick.fbmult
      BY <3>1, <3>5, CountDecodes
    <3>7. Decoded(Divider(bestPick.maindiv)) = bestPick.maindiv
      BY <3>5, DividerDecodes
    <3>8. /\ regValues'.clk0L = CountCalc(bestPick.clkdiv)
          /\ regValues'.clkFBL = CountCalc(bestPick.fbmult)
          /\ regValues'.divclk = Divider(bestPick.maindiv)
          /\ regValues'.lookup = bestPick.fbmult - 1
      BY <3>3, <3>4 DEF FindRegOK
    <3>9. RegistersDecode'
      BY <3>3, <3>5, <3>6, <3>7, <3>8 DEF RegistersDecode
    <3> QED
      BY <3>2, <3>3, <3>9 DEF RegsOK, FindRegAccepts, RegsLast, EINVAL
  <2> QED
    BY <2>1, <2>2
<1>3. (TypeOK /\ InWindow /\ ModeOK /\ InSpecification)'
  BY <1>1 DEF SetReg, loopVars, bestVars, TypeOK, InWindow, ModeOK, InSpecification
<1> QED
  BY <1>2, <1>3 DEF ModeInv, RegsOK

\* and when nothing happens.
LEMMA StutterStep ==
  ASSUME ModeInv, NoParent \/ OuterEnd \/ UNCHANGED vars
  PROVE  ModeInv'
<1>1. /\ UNCHANGED <<freq, parentFreq, loopVars, bestVars, regValues>>
      /\ pc' \in {pc, "found", "done"} /\ (pc = "done" => pc' = "done")
  BY DEF NoParent, OuterEnd, vars
<1>2. TypeOK /\ InWindow /\ ModeOK /\ InSpecification /\ RegsOK
  BY DEF ModeInv, RegsOK
<1>3. TypeOK'
  BY <1>1, <1>2 DEF loopVars, bestVars, TypeOK
<1>4. InWindow'
  BY <1>1, <1>2 DEF loopVars, InWindow
<1>5. (ModeOK /\ InSpecification /\ RegsOK)'
  BY <1>1, <1>2 DEF bestVars, ModeOK, InSpecification, RegsOK,
          FindRegAccepts, RegsLast, RegistersDecode
<1> QED
  BY <1>3, <1>4, <1>5 DEF ModeInv, RegsOK

\* Every step keeps the invariant.
LEMMA NextModeInv == ModeInv /\ [Next]_vars => ModeInv'
<1> SUFFICES ASSUME ModeInv, [Next]_vars PROVE ModeInv'
  OBVIOUS
<1>1. CASE Start
  BY <1>1, StartStep
<1>2. CASE OuterLoop
  BY <1>2, OuterStep
<1>3. CASE InnerLoop
  BY <1>3, InnerStep
<1>4. CASE InnerEnd
  BY <1>4, InnerEndStep
<1>5. CASE SetReg
  BY <1>5, SetRegStep
<1>6. CASE NoParent \/ OuterEnd \/ Done \/ UNCHANGED vars
  BY <1>6, StutterStep DEF Done
<1> QED
  BY <1>1, <1>2, <1>3, <1>4, <1>5, <1>6 DEF Next

(***************************************************************************)
(* The inductive invariant of find_mode and find_reg holds throughout.     *)
(***************************************************************************)
THEOREM ModeInvariance == Spec => []ModeInv
  BY InitModeInv, NextModeInv, PTL DEF Spec

(***************************************************************************)
(* find_reg accepts every mode find_mode finds, whatever the frequencies:  *)
(* ignoring its result, as set_rate does, is safe.                         *)
(***************************************************************************)
THEOREM ResultMayBeIgnored == Spec => []FindRegAccepts
<1>1. ModeInv => FindRegAccepts
  BY DEF ModeInv
<1> QED
  BY <1>1, ModeInvariance, PTL

(***************************************************************************)
(* Every mode find_mode finds keeps the VCO and the phase detector of the  *)
(* MMCM in their ranges.                                                   *)
(***************************************************************************)
THEOREM ModeInSpecification == Spec => []InSpecification
<1>1. ModeInv => InSpecification
  BY DEF ModeInv
<1> QED
  BY <1>1, ModeInvariance, PTL

(***************************************************************************)
(* The hardware, decoding the divider fields find_reg wrote, divides and   *)
(* multiplies by exactly what find_mode chose, the value 128, whose        *)
(* six-bit times wrap to 0, included.                                      *)
(***************************************************************************)
THEOREM FieldsDecode == Spec => []RegistersDecode
<1>1. ModeInv => RegistersDecode
  BY DEF ModeInv
<1> QED
  BY <1>1, ModeInvariance, PTL

(***************************************************************************)
(* Type correctness.                                                       *)
(***************************************************************************)
THEOREM ModeTypeCorrect == Spec => []TypeOK
<1>1. ModeInv => TypeOK
  BY DEF ModeInv
<1> QED
  BY <1>1, ModeInvariance, PTL

-----------------------------------------------------------------------------
(***************************************************************************)
(* The search.                                                             *)
(***************************************************************************)

\* The candidates are the pairs of the two windows.
LEMMA CandidatePairs ==
  ASSUME NEW p, NEW x
  PROVE  x \in Candidates(p) <=>
           /\ x = <<x[1], x[2]>>
           /\ x[1] \in FirstDiv(p) .. MaxDiv(p)
           /\ x[2] \in MinFb(p, x[1]) .. MaxFb(p, x[1])
  BY DEF Candidates

\* The VCO frequency, divided down, stays between VCOMIN and VCOMAX.
LEMMA VcoDivided ==
  ASSUME NEW a \in Nat, NEW d \in Nat, d > 0, 600000 * d <= a, a <= 1200000 * d
  PROVE  a \div d \in Nat /\ a \div d >= 600000 /\ a \div d <= 1200000
<1> DEFINE v == a \div d
<1>1. v \in Nat /\ v * d <= a /\ a < v * d + d
  BY DivNat, DivBelow, DivAbove
<1> HIDE DEF v
<1>2. v * d + d = (v + 1) * d
  BY <1>1
<1>3. v >= 600000
  <2> SUFFICES ASSUME v + 1 <= 600000 PROVE FALSE
    BY <1>1
  <2>1. (v + 1) * d <= 600000 * d
    BY <1>1, MulMono
  <2>2. (v + 1) * d \in Nat /\ 600000 * d \in Nat
    BY <1>1, MulNat
  <2> QED
    BY <1>1, <1>2, <2>1, <2>2
<1>4. v <= 1200000
  <2> SUFFICES ASSUME 1200001 <= v PROVE FALSE
    BY <1>1
  <2>1. 1200001 * d <= v * d
    BY <1>1, MulMono
  <2>2. v * d \in Nat
    BY <1>1, MulNat
  <2> QED
    BY <1>1, <2>1, <2>2
<1> QED
  BY <1>1, <1>3, <1>4 DEF v

\* v is less than 1.6 times f.
Near(v, f) == 2000 * v <= 3062 * f + 64

\* A candidate without an output divider is tried for a frequency near the VCO's only.
LEMMA UndividedIsNear ==
  ASSUME NEW p \in Nat, NEW fb \in 2 .. 64, NEW d \in Nat, d > 0, NEW f \in Nat, f > 0,
         ClkDiv(ClkMult(f, p, d), fb) = 1,
         NEW v \in Nat, v * d <= p * fb
  PROVE  Near(v, f)
<1> DEFINE m == ClkMult(f, p, d)
           g == d * f
<1>1. g \in Nat /\ g > 0
  BY MulPos
<1> HIDE DEF g
<1>2. g \div 2 \in Nat /\ 2 * (g \div 2) + 1 >= g
  BY <1>1
<1>3. m \in Nat /\ p * 1000 + (g \div 2) < m * g + g
  <2>1. p * 1000 + (g \div 2) \in Nat
    BY <1>2
  <2>2. m = (p * 1000 + (g \div 2)) \div g
    BY DEF ClkMult, g
  <2> QED
    BY <1>1, <2>1, <2>2, DivNat, DivAbove
<1>4. m * fb <= 1499
  <2>1. ClkDiv(m, fb) = 1
    OBVIOUS
  <2> HIDE DEF m
  <2>2. m * fb \in Nat
    BY <1>3, MulNat
  <2> DEFINE y == m * fb
  <2>3. (y + 500) \div 1000 \in Nat
    BY <2>2
  <2>4. (y + 500) \div 1000 <= 1
    BY <2>1, <2>3 DEF ClkDiv, AtLeast, AtMost, CLKDIV_MAX, CLKDIV_MIN
  <2> HIDE DEF y
  <2>5. y \in Nat
    BY <2>2 DEF y
  <2>6. y <= 1499
    BY <2>4, <2>5
  <2> QED
    BY <2>6 DEF y
<1> HIDE DEF m
<1>5. m * g \in Nat
  BY <1>1, <1>3, MulNat
<1>6. 2000 * p <= 2 * (m * g) + g
  <2> DEFINE h == g \div 2
             k == m * g
  <2>1. h \in Nat /\ k \in Nat /\ 2 * h + 1 >= g /\ p * 1000 + h < k + g
    BY <1>2, <1>3, <1>5
  <2> HIDE DEF h, k
  <2>2. 2000 * p <= 2 * k + g
    BY <1>1, <2>1
  <2> QED
    BY <2>2 DEF k
<1>7. (2000 * p) * fb <= (2 * (m * g) + g) * fb
  BY <1>1, <1>5, <1>6, MulMono
<1>8. (2 * (m * g) + g) * fb = 2 * ((m * fb) * g) + g * fb
  BY <1>1, <1>3
<1>9. (m * fb) * g <= 1499 * g /\ g * fb <= 64 * g
  <2>1. m * fb \in Nat
    BY <1>3, MulNat
  <2>2. (m * fb) * g <= 1499 * g
    BY <1>1, <1>4, <2>1, MulMono
  <2>3. fb * g <= 64 * g
    BY <1>1, MulMono
  <2> QED
    BY <2>2, <2>3, <1>1
<1>10. 2000 * (p * fb) <= 3062 * g
  <2>1. (m * fb) * g \in Nat /\ g * fb \in Nat
    BY <1>1, <1>3, MulNat
  <2>2. (2000 * p) * fb = 2000 * (p * fb) /\ p * fb \in Nat
    BY MulNat
  <2> QED
    BY <1>1, <1>7, <1>8, <1>9, <2>1, <2>2
<1>11. 2000 * (v * d) <= 3062 * g
  <2>1. v * d \in Nat /\ p * fb \in Nat
    BY MulNat
  <2> QED
    BY <1>1, <1>10, <2>1
<1>12. (2000 * v) * d <= (3062 * f) * d
  BY <1>11 DEF g
<1>13. 2000 * v <= 3062 * f
  <2> SUFFICES ASSUME 3062 * f + 1 <= 2000 * v PROVE FALSE
    OBVIOUS
  <2>1. (3062 * f + 1) * d <= (2000 * v) * d
    BY MulMono
  <2>2. (3062 * f + 1) * d = (3062 * f) * d + d
    OBVIOUS
  <2>3. (3062 * f) * d \in Nat /\ (2000 * v) * d \in Nat
    BY MulNat
  <2> QED
    BY <1>12, <2>1, <2>2, <2>3
<1> QED
  BY <1>13 DEF Near

\* A candidate gives a frequency, and one less than OUTMAX away: the first one is picked.
LEMMA CandidateIsClose ==
  ASSUME NEW p \in Nat, p > 0, NEW f \in Nat, f >= OUTMIN, f <= OUTMAX,
         NEW d \in FirstDiv(p) .. MaxDiv(p), NEW fb \in MinFb(p, d) .. MaxFb(p, d)
  PROVE  LET g == OutFreq(p, fb, d, ClkDiv(ClkMult(f, p, d), fb))
         IN /\ g \in Nat /\ g > 0
            /\ Error(f, g) \in Nat /\ Error(f, g) < OUTMAX
<1>1. d \in 1 .. 106
  <2>1. d \in Nat /\ d >= FirstDiv(p) /\ d <= MaxDiv(p)
    BY DEF FirstDiv
  <2> QED
    BY <2>1, PfdInRange DEF DIV_MAX
<1>2. d \in Nat /\ d > 0
  BY <1>1
<1>3. MinFb(p, d) \in Nat /\ MinFb(p, d) >= 2 /\ MaxFb(p, d) \in 0 .. 64
  BY <1>2, WindowTypes DEF FB_MIN, FB_MAX
<1>4. fb \in 2 .. 64 /\ fb \in Nat /\ fb >= MinFb(p, d) /\ fb <= MaxFb(p, d)
  BY <1>3
<1>5. 600000 * d <= p * fb /\ p * fb <= 1200000 * d /\ p * fb \in Nat
  BY <1>2, <1>4, VcoAbove, VcoBelow, MulNat DEF VCOMIN, VCOMAX
<1> DEFINE m == ClkMult(f, p, d)
           c == ClkDiv(m, fb)
           v == (p * fb) \div d
           g == v \div c
<1>6. f \in Nat /\ f >= 4000 /\ f <= 800000
  BY DEF OUTMIN, OUTMAX
<1>7. f \in Nat /\ f > 0
  BY <1>6
<1>8. m \in Nat
  BY <1>2, <1>7, ClkMultNat, Zenon
<1>9. c \in 1 .. 128
  BY <1>4, <1>8, ClkDivInRange, Zenon DEF CLKDIV_MIN, CLKDIV_MAX
<1>10. v \in Nat /\ v >= 600000 /\ v <= 1200000
  BY <1>2, <1>5, VcoDivided
<1>11. v * d <= p * fb
  BY <1>2, <1>5, DivBelow
<1> HIDE DEF v
<1>12. c = 1 => Near(v, f)
  <2>1. v \in Nat
    BY <1>10
  <2> QED
    BY <1>2, <1>4, <1>7, <1>11, <2>1, UndividedIsNear, Zenon
<1> HIDE DEF c
<1>13. g \in Nat /\ g * c <= v /\ v < g * c + c
  <2>1. v \in Nat /\ c \in Nat /\ c > 0
    BY <1>9, <1>10
  <2> QED
    BY <2>1, DivNat, DivBelow, DivAbove
<1> HIDE DEF g
<1>14. g > 0
  BY <1>9, <1>10, <1>13
<1>15. c >= 2 => g <= 600000
  <2> SUFFICES ASSUME c >= 2, g >= 600001 PROVE FALSE
    BY <1>13
  <2>1. c \in Nat /\ g * c \in Nat
    BY <1>9, <1>13, MulNat
  <2>2. 600001 * c <= g * c
    BY <1>13, <2>1, MulMono
  <2> QED
    BY <1>10, <1>13, <2>1, <2>2
<1>16. c = 1 => g = v
  BY <1>10, <1>13
<1>17. Error(f, g) \in Nat /\ Error(f, g) < 800000
  <2>1. CASE c = 1
    BY <2>1, <1>6, <1>10, <1>12, <1>16 DEF Error, Near
  <2>2. CASE c >= 2
    BY <2>2, <1>6, <1>13, <1>14, <1>15 DEF Error
  <2> QED
    BY <1>9, <2>1, <2>2
<1>18. g = OutFreq(p, fb, d, ClkDiv(ClkMult(f, p, d), fb))
  BY DEF OutFreq, g, v, c
<1> QED
  BY <1>13, <1>14, <1>17, <1>18 DEF OUTMAX

\* The same for a pair: its error is a natural below OUTMAX.
LEMMA CandidateErrorBelow ==
  ASSUME NEW p \in Nat, p > 0, NEW f \in Nat, f >= OUTMIN, f <= OUTMAX,
         NEW x \in Candidates(p)
  PROVE  CandidateError(f, p, x) \in Nat /\ CandidateError(f, p, x) < OUTMAX
<1>1. x[1] \in FirstDiv(p) .. MaxDiv(p) /\ x[2] \in MinFb(p, x[1]) .. MaxFb(p, x[1])
  BY CandidatePairs
<1> QED
  BY <1>1, CandidateIsClose, Zenon DEF CandidateError

\* The part of the loop invariant that is about the pick.
Picked ==
  /\ bestPick.freq = 0 => bestError = OUTMAX
  /\ bestPick.freq # 0 =>
       /\ bestError = Error(freq, bestPick.freq)
       /\ \E x \in Candidates(parentFreq) : bestError = CandidateError(freq, parentFreq, x)

\* The part that is about the candidates tried.
Scanned ==
  \A x \in Candidates(parentFreq) : Tried(x) => bestError <= CandidateError(freq, parentFreq, x)

\* The loop invariant holds when the outer loop is entered,
LEMMA StartSearch ==
  ASSUME ModeInv, SearchInv, Start
  PROVE  SearchInv'
<1>1. /\ bestPick' = bestPick /\ bestError' = bestError /\ freq_found' = freq_found
      /\ parentFreq' = parentFreq /\ pc' = "outer" /\ curDiv' = FirstDiv(parentFreq)
      /\ bestPick.freq = 0 /\ ~ freq_found /\ bestError = OUTMAX
  BY DEF Start, bestVars, SearchInv
<1>2. OUTMIN <= freq' /\ freq' <= OUTMAX
  <2>1. freq \in Nat
    BY DEF ModeInv, TypeOK
  <2> QED
    BY <2>1, Limits DEF Start, Clamp, AtMost, AtLeast
<1>3. \A x \in Candidates(parentFreq) : ~ Tried(x)'
  <2> SUFFICES ASSUME NEW x \in Candidates(parentFreq) PROVE ~ Tried(x)'
    OBVIOUS
  <2>1. x[1] \in FirstDiv(parentFreq) .. MaxDiv(parentFreq)
    BY CandidatePairs
  <2>2. ~ (x[1] < FirstDiv(parentFreq))
    BY <2>1 DEF FirstDiv
  <2> QED
    BY <2>2, <1>1 DEF Tried
<1> QED
  BY <1>1, <1>2, <1>3 DEF SearchInv

\* at each turn of the outer loop,
LEMMA OuterSearch ==
  ASSUME ModeInv, SearchInv, OuterLoop
  PROVE  SearchInv'
<1>1. /\ bestPick' = bestPick /\ bestError' = bestError /\ freq_found' = freq_found
      /\ parentFreq' = parentFreq /\ freq' = freq /\ curDiv' = curDiv
      /\ pc = "outer" /\ pc' = "inner"
      /\ curClkMult' = ClkMult(freq, parentFreq, curDiv)
      /\ curFb' = MinFb(parentFreq, curDiv)
  BY DEF OuterLoop, bestVars
<1>2. \A x \in Candidates(parentFreq) : Tried(x)' => Tried(x)
  <2> SUFFICES ASSUME NEW x \in Candidates(parentFreq), x[1] = curDiv
               PROVE  ~ (x[2] < curFb')
    BY <1>1 DEF Tried
  <2>1. x[2] \in MinFb(parentFreq, curDiv) .. MaxFb(parentFreq, curDiv)
    BY CandidatePairs
  <2>2. /\ parentFreq \in Nat /\ parentFreq > 0 /\ curDiv \in Nat
    BY <1>1, Limits DEF ModeInv, TypeOK, InWindow, DIV_MAX
  <2>3. MinFb(parentFreq, curDiv) \in Nat /\ MaxFb(parentFreq, curDiv) \in 0 .. 64
    BY <2>2, WindowTypes DEF FB_MAX
  <2> QED
    BY <1>1, <2>1, <2>3
<1> QED
  BY <1>1, <1>2 DEF SearchInv

\* at each turn of the inner loop,
LEMMA InnerSearch ==
  ASSUME ModeInv, SearchInv, InnerLoop
  PROVE  SearchInv'
<1>1. /\ parentFreq \in Nat /\ parentFreq > 0 /\ freq \in Nat
      /\ curDiv \in Nat /\ curDiv >= FirstDiv(parentFreq) /\ curDiv <= MaxDiv(parentFreq)
  BY Limits DEF ModeInv, TypeOK, InWindow, InnerLoop, DIV_MAX
<1>2. /\ curFb \in Nat /\ curFb >= MinFb(parentFreq, curDiv)
      /\ curFb <= MaxFb(parentFreq, curDiv)
  BY DEF ModeInv, TypeOK, InWindow, InnerLoop
<1>3. pc = "inner" /\ ~ freq_found /\ bestError \in Nat
  BY DEF ModeInv, TypeOK, InnerLoop
<1>4. /\ OUTMIN <= freq /\ freq <= OUTMAX
      /\ curClkMult = ClkMult(freq, parentFreq, curDiv)
      /\ Picked /\ Scanned
  BY <1>1, <1>3 DEF SearchInv, Picked, Scanned
<1> DEFINE y == <<curDiv, curFb>>
           f == OutFreq(parentFreq, curFb, curDiv, ClkDiv(curClkMult, curFb))
           e == Error(freq, f)
<1>5. y \in Candidates(parentFreq) /\ e = CandidateError(freq, parentFreq, y)
  <2>1. curDiv \in FirstDiv(parentFreq) .. MaxDiv(parentFreq)
    <3>1. FirstDiv(parentFreq) \in Int /\ MaxDiv(parentFreq) \in Int
      BY <1>1 DEF FirstDiv, MaxDiv, AtMost, PFDMIN, DIV_MAX
    <3> QED
      BY <1>1, <3>1
  <2>2. curFb \in MinFb(parentFreq, curDiv) .. MaxFb(parentFreq, curDiv)
    <3>1. MinFb(parentFreq, curDiv) \in Nat /\ MaxFb(parentFreq, curDiv) \in 0 .. 64
      BY <1>1, WindowTypes DEF FB_MAX
    <3> QED
      BY <1>2, <3>1
  <2>3. y[1] = curDiv /\ y[2] = curFb
    OBVIOUS
  <2>4. y \in Candidates(parentFreq)
    BY <2>1, <2>2, <2>3, CandidatePairs
  <2>5. e = CandidateError(freq, parentFreq, y)
    BY <1>4, <2>3 DEF CandidateError
  <2> QED
    BY <2>4, <2>5
<1>6. f \in Nat /\ f > 0
  <2>1. y[1] = curDiv /\ y[2] = curFb
    OBVIOUS
  <2>2. /\ curDiv \in FirstDiv(parentFreq) .. MaxDiv(parentFreq)
        /\ curFb \in MinFb(parentFreq, curDiv) .. MaxFb(parentFreq, curDiv)
    BY <1>5, <2>1, CandidatePairs
  <2>3. freq >= OUTMIN
    BY <1>1, <1>4, Limits
  <2> QED
    BY <1>1, <1>4, <2>2, <2>3, CandidateIsClose, Zenon
<1>7. e \in Nat
  BY <1>1, <1>6, ErrorNat, Zenon
<1>8. \/ e < bestError /\ bestError' = e /\ bestPick'.freq = f
      \/ ~ (e < bestError) /\ bestError' = bestError /\ bestPick' = bestPick
  BY DEF InnerLoop
<1>9. /\ curFb' = curFb + 1 /\ freq_found' = (e = 0)
      /\ UNCHANGED <<pc, freq, parentFreq, curDiv, curClkMult>>
  BY DEF InnerLoop
<1> HIDE DEF f, e, y
<1>10. freq_found' => bestError' = 0
  <2>1. e = 0 => bestError' = 0
    BY <1>3, <1>7, <1>8
  <2> QED
    BY <2>1, <1>9, Zenon
<1>11. Picked'
  <2>1. CASE bestError' = e /\ bestPick'.freq = f
    <3>1. f # 0
      BY <1>6
    <3>2. bestError' = Error(freq, f)
      BY <2>1 DEF e
    <3> QED
      BY <2>1, <3>1, <3>2, <1>5, <1>9, Zenon DEF Picked
  <2>2. CASE bestError' = bestError /\ bestPick' = bestPick
    BY <2>2, <1>4, <1>9 DEF Picked
  <2> QED
    BY <1>8, <2>1, <2>2
<1>12. Scanned'
  <2> SUFFICES ASSUME NEW x \in Candidates(parentFreq), Tried(x)'
               PROVE  bestError' <= CandidateError(freq, parentFreq, x)
    BY <1>9 DEF Scanned
  <2>1. CandidateError(freq, parentFreq, x) \in Nat
    <3>1. freq >= OUTMIN
      BY <1>1, <1>4, Limits
    <3> QED
      BY <1>1, <1>4, <3>1, CandidateErrorBelow, Zenon
  <2>2. bestError' <= bestError /\ bestError' <= e /\ bestError' \in Nat
    BY <1>3, <1>7, <1>8
  <2>3. Tried(x) \/ x = y
    <3>1. /\ x = <<x[1], x[2]>> /\ x[1] \in FirstDiv(parentFreq) .. MaxDiv(parentFreq)
          /\ x[2] \in MinFb(parentFreq, x[1]) .. MaxFb(parentFreq, x[1])
      BY CandidatePairs
    <3>2. CASE x[1] < curDiv
      BY <3>2 DEF Tried
    <3>3. CASE x[1] = curDiv /\ x[2] < curFb'
      <4>1. MinFb(parentFreq, curDiv) \in Nat /\ MaxFb(parentFreq, curDiv) \in 0 .. 64
        BY <1>1, WindowTypes DEF FB_MAX
      <4>2. x[2] \in Nat
        BY <3>1, <3>3, <4>1
      <4>3. x[2] < curFb \/ x[2] = curFb
        BY <1>2, <1>9, <3>3, <4>2
      <4> QED
        BY <1>3, <3>1, <3>3, <4>3 DEF Tried, y
    <3> QED
      BY <1>3, <1>9, <3>2, <3>3 DEF Tried
  <2>4. CASE Tried(x)
    <3>1. bestError <= CandidateError(freq, parentFreq, x)
      BY <2>4, <1>4 DEF Scanned
    <3> QED
      BY <1>3, <2>1, <2>2, <3>1
  <2>5. CASE x = y
    BY <2>2, <2>5, <1>5
  <2> QED
    BY <2>3, <2>4, <2>5
<1> QED
  BY <1>3, <1>4, <1>9, <1>10, <1>11, <1>12 DEF SearchInv, Picked, Scanned

\* at the end of the inner loop,
LEMMA InnerEndSearch ==
  ASSUME ModeInv, SearchInv, InnerEnd
  PROVE  SearchInv'
<1>1. /\ parentFreq \in Nat /\ parentFreq > 0 /\ freq \in Nat /\ curDiv \in Nat
      /\ curFb \in Nat /\ pc = "inner" /\ maxFb = MaxFb(parentFreq, curDiv)
  BY Limits DEF ModeInv, TypeOK, InWindow, InnerEnd, DIV_MAX
<1>2. /\ UNCHANGED <<freq, parentFreq, bestError, freq_found, bestPick>>
      /\ curDiv' = curDiv + 1 /\ pc' = "outer"
      /\ ~ (curFb <= maxFb) \/ freq_found
  BY DEF InnerEnd, bestVars
<1>3. OUTMIN <= freq /\ freq <= OUTMAX /\ Scanned
  BY <1>1 DEF SearchInv, Scanned
<1>4. Scanned'
  <2> SUFFICES ASSUME NEW x \in Candidates(parentFreq), Tried(x)'
               PROVE  bestError <= CandidateError(freq, parentFreq, x)
    BY <1>2 DEF Scanned
  <2>1. CASE freq_found
    <3>1. freq >= OUTMIN
      BY <1>1, <1>3, Limits
    <3>2. CandidateError(freq, parentFreq, x) \in Nat
      BY <1>1, <1>3, <3>1, CandidateErrorBelow, Zenon
    <3> QED
      BY <2>1, <3>2 DEF SearchInv
  <2>2. CASE ~ (curFb <= maxFb)
    <3>1. /\ x[1] \in FirstDiv(parentFreq) .. MaxDiv(parentFreq)
          /\ x[2] \in MinFb(parentFreq, x[1]) .. MaxFb(parentFreq, x[1])
      BY CandidatePairs
    <3>2. x[1] < curDiv + 1
      BY <1>2 DEF Tried
    <3>3. x[1] \in Nat
      BY <3>1 DEF FirstDiv
    <3>4. x[1] < curDiv \/ x[1] = curDiv
      BY <1>1, <3>2, <3>3
    <3>5. x[1] = curDiv => x[2] < curFb
      <4>1. MinFb(parentFreq, curDiv) \in Nat /\ MaxFb(parentFreq, curDiv) \in 0 .. 64
        BY <1>1, WindowTypes DEF FB_MAX
      <4> QED
        BY <1>1, <2>2, <3>1, <4>1
    <3> QED
      BY <1>1, <1>3, <3>4, <3>5 DEF Tried, Scanned
  <2> QED
    BY <1>2, <2>1, <2>2
<1> QED
  BY <1>1, <1>2, <1>4 DEF SearchInv, Scanned

\* at the end of the outer loop,
LEMMA OuterEndSearch ==
  ASSUME ModeInv, SearchInv, OuterEnd
  PROVE  SearchInv'
<1>1. /\ parentFreq \in Nat /\ parentFreq > 0 /\ freq \in Nat /\ curDiv \in Nat
      /\ pc = "outer"
  BY Limits DEF ModeInv, TypeOK, InWindow, OuterEnd, DIV_MAX
<1>2. /\ UNCHANGED <<freq, parentFreq, bestError, freq_found, bestPick>>
      /\ pc' = "found"
      /\ ~ (curDiv <= MaxDiv(parentFreq)) \/ freq_found
  BY DEF OuterEnd, bestVars
<1>3. OUTMIN <= freq /\ freq <= OUTMAX /\ Scanned
  BY <1>1 DEF SearchInv, Scanned
<1>4. Scanned'
  <2> SUFFICES ASSUME NEW x \in Candidates(parentFreq)
               PROVE  bestError <= CandidateError(freq, parentFreq, x)
    BY <1>2 DEF Scanned
  <2>1. CASE freq_found
    <3>1. freq >= OUTMIN
      BY <1>1, <1>3, Limits
    <3>2. CandidateError(freq, parentFreq, x) \in Nat
      BY <1>1, <1>3, <3>1, CandidateErrorBelow, Zenon
    <3> QED
      BY <2>1, <3>2 DEF SearchInv
  <2>2. CASE ~ (curDiv <= MaxDiv(parentFreq))
    <3>1. x[1] \in FirstDiv(parentFreq) .. MaxDiv(parentFreq)
      BY CandidatePairs
    <3>2. MaxDiv(parentFreq) \in Int
      BY <1>1 DEF MaxDiv, AtMost, PFDMIN, DIV_MAX
    <3>3. x[1] < curDiv
      BY <1>1, <2>2, <3>1, <3>2 DEF FirstDiv
    <3> QED
      BY <1>3, <3>3 DEF Tried, Scanned
  <2> QED
    BY <1>2, <2>1, <2>2
<1> QED
  BY <1>1, <1>2, <1>4 DEF SearchInv, Scanned

\* and at every other step.
LEMMA OtherSearch ==
  ASSUME SearchInv, NoParent \/ SetReg \/ UNCHANGED vars
  PROVE  SearchInv'
<1>1. CASE NoParent
  BY <1>1 DEF NoParent, bestVars, SearchInv
<1>2. CASE SetReg
  BY <1>2 DEF SetReg, bestVars, loopVars, SearchInv, Tried
<1>3. CASE UNCHANGED vars
  BY <1>3 DEF vars, bestVars, loopVars, SearchInv, Tried
<1> QED
  BY <1>1, <1>2, <1>3

(***************************************************************************)
(* The loop invariant of find_mode holds throughout the search.            *)
(***************************************************************************)
THEOREM SearchInvariance == Spec => []SearchInv
<1>1. Init => SearchInv
  BY DEF Init, SearchInv
<1>2. ModeInv /\ SearchInv /\ [Next]_vars => SearchInv'
  BY StartSearch, OuterSearch, InnerSearch, InnerEndSearch, OuterEndSearch, OtherSearch
     DEF Next, Done
<1> QED
  BY <1>1, <1>2, ModeInvariance, PTL DEF Spec

(***************************************************************************)
(* find_mode returns a mode whenever its loops have a candidate to try,    *)
(* and no candidate, the ones skipped after an exact hit included, comes   *)
(* closer to the wanted frequency, whatever the frequencies.               *)
(***************************************************************************)
THEOREM SearchFindsBest == Spec => []PickIsBest
<1>1. ModeInv /\ SearchInv => PickIsBest
  <2> DEFINE E == {CandidateError(freq, parentFreq, x) : x \in Candidates(parentFreq)}
  <2> SUFFICES ASSUME ModeInv, SearchInv, pc = "done", parentFreq # 0,
                      Candidates(parentFreq) # {}
               PROVE  bestPick.freq # 0 /\ Error(freq, bestPick.freq) = Min(E)
    BY DEF PickIsBest
  <2>1. /\ parentFreq \in Nat /\ parentFreq > 0 /\ freq \in Nat
        /\ bestError \in Nat /\ freq >= OUTMIN /\ freq <= OUTMAX
    BY Limits DEF ModeInv, TypeOK, SearchInv
  <2>2. \A x \in Candidates(parentFreq) :
          /\ CandidateError(freq, parentFreq, x) \in Nat
          /\ CandidateError(freq, parentFreq, x) < OUTMAX
    BY <2>1, CandidateErrorBelow, Zenon
  <2>3. \A x \in Candidates(parentFreq) : bestError <= CandidateError(freq, parentFreq, x)
    BY DEF SearchInv, Tried
  <2>4. bestError < OUTMAX
    BY <2>1, <2>2, <2>3, Limits
  <2>5. bestPick.freq # 0
    BY <2>1, <2>4, Limits DEF SearchInv
  <2>6. bestError = Error(freq, bestPick.freq) /\ bestError \in E
    BY <2>5 DEF SearchInv
  <2>7. \A y \in E : y \in Nat /\ bestError <= y
    BY <2>2, <2>3
  <2> HIDE DEF E
  <2>8. Min(E) \in E /\ \A y \in E : Min(E) <= y
    BY <2>6, <2>7 DEF Min
  <2>9. Min(E) = bestError
    <3>1. \A a, b \in Nat : a <= b /\ b <= a => a = b
      OBVIOUS
    <3>2. Min(E) \in Nat /\ bestError <= Min(E) /\ Min(E) <= bestError
      BY <2>6, <2>7, <2>8
    <3> QED
      BY <2>1, <3>1, <3>2
  <2> QED
    BY <2>5, <2>6, <2>9
<1> QED
  BY <1>1, ModeInvariance, SearchInvariance, PTL

=============================================================================
