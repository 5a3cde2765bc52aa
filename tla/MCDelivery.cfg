SPECIFICATION FairSpec
CONSTANTS
    People <- MCPeople
    Scope <- MCScope
    Intervals <- MCIntervals
    Expiries <- MCExpiries
    MinRecurring = 2
    PersonLimit = 1
    AttemptLimit = 2
    ReopenLimit = 1
    MaxId = 2
    MaxTime = 3
    MaxRequests = 3
    MaxFaults = 2
INVARIANTS TypeOK FreshWindow NoBurst
PROPERTIES MailOnce DueIsMailed ImplementsDueWindows
CHECK_DEADLOCK FALSE
