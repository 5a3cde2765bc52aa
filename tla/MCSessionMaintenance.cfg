SPECIFICATION FairSpec
CONSTANTS
    MaxAttempts = 2
    Window = 0
    MaxTime = 1
    MaxProcs = 2
    MaxRecords = 2
    MaxEntries = 2
    MaxCalls = 2
INVARIANTS TypeOK CompletedIsCompacted AttemptCompactsOnce CompactsAtAnchor MintsAreSpaced
PROPERTIES ImplementsAsks DeadClaimIsRecovered
CHECK_DEADLOCK FALSE
