CONSTANTS
    Packets = {1, 2}
    Capacity = 2
    InitialMaxData = 1
    InitialMaxStreamData = 1
    MaxWindow = 3
    MaxBytes = 3
    MaxChunk = 2
    MaxRoom = 4

SPECIFICATION Spec
INVARIANT FinishedHasNoWaiter
