CONSTANTS
    Update = {1, 2}
    Deployment <- MCDeployment
    Member = {"BBCA"}
    Ranking <- MCRanking
    Content <- MCContent
    Other = "GOTO"
    Ttl = 2
    SessionLength = 1
    StaleAfter = 0
    Remembered = 1
    MaxTime = 3
    MaxScans = 2
    MaxQuants = 1
    MaxMishaps = 1
    MaxHandlers = 1
SPECIFICATION Spec
INVARIANT
    StaleRowsAreRemoved
CHECK_DEADLOCK FALSE
