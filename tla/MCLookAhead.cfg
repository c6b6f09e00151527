CONSTANTS
    Ticker = {"BBCA"}
    Session <- MCSession
    Close = {"low"}
    File <- MCEvidence
    Accepted <- MCSeeded
    MonthLength = 1
    MaxTime = 3
    MaxIngests = 3
    MAX_DIAGNOSTIC_ITEMS = 2
    MaxGap = 0
    MaxRefreshes = 1
    Horizon = {1}
    daily = daily
    retry = retry
    Evaluator = {daily}
SPECIFICATION Spec
INVARIANT NoLookAhead
CHECK_DEADLOCK FALSE
