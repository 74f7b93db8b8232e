SPECIFICATION FairTransferSpec
CONSTANTS
    Packets = {1, 2, 3}
    RPackets = {1}
    Capacity = 2
    InitialMaxData = 1
    InitialMaxStreamData = 1
    MaxWindow = 4
    MaxBytes = 2
    MaxChunk = 1
    MaxRoom = 3
    Resets = FALSE
    MaxLate = 0
INVARIANTS
    TransferTypeOK
    NoConnectionError
    FinishedIsDelivered
PROPERTIES
    TransferCompletes
CHECK_DEADLOCK FALSE
