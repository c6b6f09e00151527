CONSTANTS
    Ticker = {"BBCA"}
    Session <- MCSession
    Close = {"low"}
    File <- MCFiles
    Accepted <- MCSeeded
    MonthLength = 1
    MaxTime = 3
    MaxIngests = 1
    MaxRefreshes = 2
    MAX_DIAGNOSTIC_ITEMS = 2
    MaxGap = 1
    Horizon = {1, 2}
    daily = daily
    retry = retry
    Evaluator = {daily, retry}
SYMMETRY MCSymmetry
SPECIFICATION Spec
INVARIANTS
    TypeOK
    AcceptedIsStored
    DiagnosticsMatchFacts
    NeverJudgedEarly
PROPERTIES
    PastPricesAreFixed
    ReingestNeverFreshens
    OutcomesAreFinal
CHECK_DEADLOCK FALSE
