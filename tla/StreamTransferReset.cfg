SPECIFICATION TransferSpec
CONSTANTS
    Packets = {1, 2}
    RPackets = {1}
    Capacity = 2
    InitialMaxData = 1
    InitialMaxStreamData = 2
    MaxWindow = 4
    MaxBytes = 2
    MaxChunk = 1
    MaxRoom = 3
    Resets = TRUE
    MaxLate = 1
INVARIANTS
    NoConnectionError
    CreditInSync
    FinishedIsDelivered
CHECK_DEADLOCK FALSE
