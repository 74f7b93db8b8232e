SPECIFICATION Spec
CONSTANTS
    Packets <- MCPackets
    Window = 2
    ConnWindow = 3
    MaxBytes = 3
    MaxLow = 2
INVARIANT EndedStreamReturnsCredit
CHECK_DEADLOCK FALSE
