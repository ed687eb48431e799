SPECIFICATION Spec
CONSTANTS
    Frames <- MCFrames
    MaxRx = 4
    MaxResets = 2
INVARIANTS
    NewestIsKept
    HeldHasTimer
PROPERTIES
    ImplementsBuffer
    HeldIsReleased
    FreeEnds
CHECK_DEADLOCK FALSE
