\* One reader whose file is blocking or not, with partial reads, signals,
\* faulting buffers and messages that do not fit.
CONSTANTS
  Readers = {r1}
  Nonblock = {r1}
  Blocking = {r1}
  Cb = Cb
  Free = Free
  KfifoSize = 4
  Align = 2
  MsgLens = {1, 3}
  ReadLens = {0, 1, 4}
  UserFaults = TRUE
  MaxSent = 3
SPECIFICATION FairSpec
INVARIANTS NoLostWakeup SpuriousBounded
PROPERTIES SleeperServed ImplementsStream
