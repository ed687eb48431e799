CONSTANTS
  BURST = 3
  Depth = 7
  AlmostFull = 2
  Words = 9
  PortWords = 2
  MaxRuns = 2
SPECIFICATION FairSpec
INVARIANTS CopyIsTrue
PROPERTY CopyEnds
\* The clock is not followed once something has gone wrong.
CHECK_DEADLOCK FALSE
