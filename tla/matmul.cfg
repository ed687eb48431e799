\* The sizes of the source in words of four bytes.
CONSTANTS
  ResultWords = 37
  FrameWords = 38
  KfifoWords = 512
  MaxCmds = 4
SPECIFICATION MatMulFairSpec
INVARIANTS RoundsAsked PromptIsWhole
PROPERTY QuitEnds
\* The program ends.
CHECK_DEADLOCK FALSE
