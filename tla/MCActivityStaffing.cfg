SPECIFICATION Spec
CONSTANTS
    Staff <- MCOne
    Ceo = "ceo"
    pos <- MCPos
    Founders <- MCNoFounder
    Depts <- MCDepts
    Home = "desk"
    Lease = 2
    Liveness = 1
    Grace = 1
    MaxParks = 1
    Verbs <- StaffingVerbs
    MaxRequests = 3

INVARIANTS TypeOK ParkedIsDown
PROPERTIES HandoffIsWaitedFor ConflictHasGrace
CHECK_DEADLOCK FALSE
