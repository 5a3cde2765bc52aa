SPECIFICATION FairSpec
CONSTANTS
    ada = ada  ben = ben
    Order <- AdaBen
    Hashes = {h1, h2}
    NoHash = NoHash
    MaxPanes = 5
    MaxChanges = 2
    Mishaps = {"exit", "crash", "fault", "glance"}
    MaxMishaps = 2
INVARIANTS TypeOK OneProcessEach
PROPERTIES FailuresAreDeaths KeepsWanted Converges
CHECK_DEADLOCK FALSE
