SPECIFICATION FairSpec
CONSTANTS
    Passes <- MCPasses
    Duty = "duty"
    ClaimStale = 3
    Floor = 2
    TripThreshold = 2
    MaxCommands = 1
INVARIANTS TypeOK SingleFlight ClaimIsOwned
PROPERTIES PublishRespectsOperator TripIsSticky FloorHolds ConvergeResumes
CHECK_DEADLOCK FALSE
