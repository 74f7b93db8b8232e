CONSTANTS
    InitialValue = 1
    FirstValue = 3
    Threshold = 2
    MaxValue = 7
    Packets = {1, 2, 3}
SPECIFICATION Spec
INVARIANTS TypeOK PeerBetweenAckedAndLatest IdleMeansInsignificant
PROPERTIES AckedNeverDecreases PeerCatchesUp
CHECK_DEADLOCK FALSE
