SPECIFICATION FairSpec
CONSTANTS
    Staff <- MCOne
    Ceo = "ceo"
    pos <- MCPos
    Founders <- MCOne
    Depts <- MCOneDept
    Home = "desk"
    Lease = 2
    Liveness = 1
    Grace = 1
    MaxParks = 1
    Verbs <- FireVerbs
    MaxRequests = 2
PROPERTIES DepartureApplies
CHECK_DEADLOCK FALSE
