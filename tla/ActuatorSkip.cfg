SPECIFICATION Spec
CONSTANTS
    ada = ada  ben = ben
    Order <- AdaBen
    Hashes = {h1}
    NoHash = NoHash
    MaxPanes = 5
    MaxChanges = 2
    Mishaps = {"exit"}
    MaxMishaps = 1
PROPERTIES SkipCostsOneStep
CHECK_DEADLOCK FALSE
