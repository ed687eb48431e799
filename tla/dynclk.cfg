\* The table of the source, and LOCKED seen at the same edge by both machines.
CONSTANTS
  N = 13
  Skew = FALSE
SPECIFICATION FairSpec
INVARIANTS EnabledIsConfigured WritesMatch
PROPERTY EnableAnswered
