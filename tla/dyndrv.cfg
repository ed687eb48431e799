\* set_rate beside enable and disable, two rates, a table of three words.
CONSTANTS
  N = 3
  Skew = FALSE
  Rates = {r1, r2}
  NoRate = NoRate
SPECIFICATION DrvFairSpec
INVARIANTS RunsAtFreq WritesAreQuiet
PROPERTY CallsReturn
