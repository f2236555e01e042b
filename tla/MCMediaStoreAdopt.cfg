SPECIFICATION Spec
CONSTANTS
    a = a
    b = b
    o = o
    NoOne = NoOne
    Janitor = Janitor
    Path <- MCPath
    Old <- MCOld
    Bytes <- Unit
    Limit = 2
    MaxTry = 2
    MaxFaults = 1
    MaxCrashes = 1
SYMMETRY Symmetry
INVARIANTS EvidenceNeverLost
