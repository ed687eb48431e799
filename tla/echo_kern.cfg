\* Payloads of up to three bytes and three devices one after the other.
CONSTANTS
  PAYLOAD_MAX_SIZE = 3
  MaxBinds = 3
SPECIFICATION FairSpec
INVARIANTS OneInFlight ReportIsTrue WorkHasDevice
PROPERTY RunsToEnd
\* The test ends.
CHECK_DEADLOCK FALSE
