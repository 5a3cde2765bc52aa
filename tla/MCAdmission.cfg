SPECIFICATION FairSpec
CONSTANTS
    Pids <- MCPids
    Clients <- MCClient
    NoPid = "nobody"
    NoRow = "no-row"
    Vacant = "vacant"
    Verbs <- AllVerbs
    MaxRequests = 3
INVARIANTS TypeOK OneWriterWhileListed RowNamesHolder
PROPERTIES CompanyComesBack
CHECK_DEADLOCK FALSE
