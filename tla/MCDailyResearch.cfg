CONSTANTS
    Attempt = {a1, a2}
    a1 = a1
    a2 = a2
    FinalAttempt = {a2}
    Digest = {d1, d2}
    Null = Null
    MaxQuantAge = 1
    MaxDay = 2
    MaxImports = 1
    MaxFaults = 2
SPECIFICATION Spec
INVARIANTS
    TypeOK
    AttemptIsHonest
    ReleaseIsCoherent
    NoNeedlessRepublication
SYMMETRY Interchangeable
CHECK_DEADLOCK FALSE
