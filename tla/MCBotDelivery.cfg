CONSTANTS
    Update = {1, 2}
    Deployment <- MCDeployment
    Member = {"BBCA"}
    Ranking <- MCRanking
    Content <- MCContent
    Other = "GOTO"
    Ttl = 1
    SessionLength = 1
    StaleAfter = 0
    Remembered = 1
    MaxTime = 2
    MaxScans = 2
    MaxQuants = 1
    MaxMishaps = 1
    MaxHandlers = 2
SPECIFICATION Spec
INVARIANTS
    TypeOK
    AnswersAreSound
PROPERTIES
    ServedNeverGoesBack
    AcknowledgedIsTaken
    EveryUpdateIsAcknowledged
CHECK_DEADLOCK FALSE
