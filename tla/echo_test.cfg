CONSTANTS
  PAYLOAD_MAX_SIZE = 6
  MaxTests = 2
SPECIFICATION TestFairSpec
INVARIANTS EchoIsOwn MarksBuffer
PROPERTY TestEnds
\* The program ends.
CHECK_DEADLOCK FALSE
