SPECIFICATION Spec
CONSTANTS
    Packets <- MCPackets
    Window = 2
    ConnWindow = 3
    MaxBytes = 3
    MaxLow = 2
INVARIANTS
    TypeOK
    CreditIsSound
    CreditCoversData
    BufferIsBounded
    
    EndCancelsSyncs
    ResetReturnsCredit
    StoppedIsComplete
PROPERTIES
    FinalSizeIsFinal
CHECK_DEADLOCK FALSE
