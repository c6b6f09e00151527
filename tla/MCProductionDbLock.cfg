SPECIFICATION FairLockSpec

CONSTANTS
    shard1 = shard1
    shard2 = shard2
    research = research
    Job <- MCJob
    Mode <- MCMode
    MaxPolls = 2
    MaxLost = 2

INVARIANTS
    WritersSerialized
    NoSilentOverlap

PROPERTIES
    WaitIsBounded

\* Every wrapper ends and the workflows stop.
CHECK_DEADLOCK FALSE
