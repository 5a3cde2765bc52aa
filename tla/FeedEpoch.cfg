SPECIFICATION Spec
CONSTANTS
    Mail = Mail
    Stores = {Mail, other}
    Capacity = 4
    WireRoom = 1
    MaxCommits = 3
    MaxFaults = 1
INVARIANTS ResumeIsLossless
CHECK_DEADLOCK FALSE
