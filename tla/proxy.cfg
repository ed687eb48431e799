CONSTANTS
  Capacity = 4
  Sizes = {1, 2}
  MaxMsg = 3
  RPC_BUFF_SIZE = 3
  MaxSignals = 2
SPECIFICATION ProxyFairSpec
INVARIANTS RequestIsWhole
PROPERTIES RequestAnswered SignalEnds
\* The program ends.
CHECK_DEADLOCK FALSE
