\* Two writers, with sizes around the limits of the buffer and of the bus.
CONSTANTS
  Writers = {w1, w2}
  BuffSize = 3
  BusLimit = 2
  WriteLens = {0, 1, 2, 3, 5}
  MaxWrites = 3
SPECIFICATION TxSpec
INVARIANTS MessageIsOfItsCalls ReturnIsTruth
