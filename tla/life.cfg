\* Two channels and three minors: probes run out of them.  Two loads may fail late.
CONSTANTS
  Chans = {c1, c2}
  Files = {f1}
  None = None
  MaxMinors = 3
  MaxRefused = 2
SPECIFICATION FairSpec
INVARIANTS CbFindsDevice FileReachesDevice NothingLeft
PROPERTY UnloadEnds
\* A remove that was killed in device_destroy never ends.
CHECK_DEADLOCK FALSE
