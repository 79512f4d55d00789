SPECIFICATION FairSpec
CONSTANTS
    MaxAddrs = 2
    MaxLines = 2
    GenCount = 3
    AttemptCap = 2
INVARIANTS
    StateTellsTruth
    NothingStale
    LinesHonest
    QueueIsServed
PROPERTIES
    QueueAndBackoffKept
    EndsConnected
