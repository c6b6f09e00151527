CONSTANTS
    i1 = i1
    i2 = i2
    i3 = i3
    Null = Null
    Expected = 3
    RequiredEligible = 2
    MinCohort = 2
    Issuer = {i1, i2, i3}
    Evidence <- MCEvidence
    Candidate = {"a"}
    Panel = {"p", "q"}
    RunId = {"v", "w"}
    Base <- MCBase
    MinUniverse = 2
    HoldoutChecks = {"drawdown", "rank_ic", "deterministic_rebuild"}
    MaxWrites = 3
SPECIFICATION Spec
SYMMETRY MCSymmetry
CHECK_DEADLOCK FALSE
INVARIANTS
    TypeOK
    ReleaseFeedsTheScan
    FavorableIsExecutable
    ReleasesAreBacked
