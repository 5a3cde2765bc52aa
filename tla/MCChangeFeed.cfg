SPECIFICATION Spec
CONSTANTS
    Mail = Mail
    Stores = {Mail, other}
    Capacity = 1
    WireRoom = 1
    MaxCommits = 3
    MaxFaults = 2
INVARIANTS TypeOK NothingMissed
PROPERTIES ForwardedInOrder
CHECK_DEADLOCK FALSE
