SPECIFICATION FairMailSpec
CONSTANTS
    Staff <- MCTwo
    Ceo = "ceo"
    pos <- MCPos
    Founders <- MCTwo
    Depts <- MCOneDept
    Home = "desk"
    Lease = 2
    Liveness = 1
    Grace = 1
    MaxParks = 1
    Verbs <- IdleVerbs
    MaxRequests = 2
PROPERTIES NoParkInsideLease WithdrawsOnlyWhatItRead IdleIsParked MailIsRead
CHECK_DEADLOCK FALSE
