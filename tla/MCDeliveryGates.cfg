SPECIFICATION GatesSpec
CONSTANTS
    d1 = d1
    d2 = d2
    p1 = p1
    p2 = p2
    Deliverers <- mc_Deliverers
    Publishers <- mc_Publishers
    Nothing = Nothing
    MaxRemakes = 1
    MaxRejects = 1
    MaxFaults = 1
SYMMETRY mc_Symmetry
INVARIANTS
    SentAtMostOnce
    UploadedAsShown
PROPERTIES
    OutboxSettles
CHECK_DEADLOCK FALSE
