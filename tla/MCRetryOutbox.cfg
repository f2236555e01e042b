SPECIFICATION Spec
CONSTANTS
    guess = guess
    strict = strict
    other = other
    plateA = plateA
    plateB = plateB
    NoPlate = NoPlate
    s1 = s1
    s2 = s2
    Slots = {s1, s2}
    Keys <- MCKeys
    Scope <- MCScope
    Ident <- MCIdent
    Follows <- MCFollows
    LowCount = 2
    MaxObs = 2
    MaxFaults = 1
    MaxCrashes = 1
    MaxExpired = 1
    MaxCopies = 2
    MaxRemovals = 1
    MaxCorrections = 1
CHECK_DEADLOCK FALSE
CONSTRAINT RemovedAlone
SYMMETRY Symmetry
INVARIANTS NothingLost InsertedOnce ChainKept
PROPERTIES JournalSpec Frozen
