SPECIFICATION Spec
CONSTANTS
    Pids <- MCTwoPids
    Clients <- MCClient
    NoPid = "nobody"
    NoRow = "no-row"
    Vacant = "vacant"
    Verbs <- DrainVerbs
    MaxRequests = 2
INVARIANT OneWriter
CHECK_DEADLOCK FALSE
