CONSTANTS
    s1 = s1
    s2 = s2
    Streams = {s1, s2}
    Packets = {1}
    InitialMaxData = 0
    InitialMaxStreamData = 1
    MaxWindow = 2
    MaxBytes = 2
SYMMETRY StreamSymmetry
SPECIFICATION Spec
INVARIANTS
    TypeOK
    CreditIsConserved
    SentWithinLimits
    NoStarvedStream
    
