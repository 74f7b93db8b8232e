SPECIFICATION TransferSpec
CONSTANTS
    Packets = {1, 2}
    RPackets = {1}
    Capacity = 2
    InitialMaxData = 2
    InitialMaxStreamData = 1
    MaxWindow = 4
    MaxBytes = 2
    MaxChunk = 1
    MaxRoom = 3
    Resets = TRUE
    MaxLate = 1
INVARIANT NoConnectionError
CHECK_DEADLOCK FALSE
