SPECIFICATION LiveSpec
CONSTANTS
    guess = guess
    strict = strict
    other = other
    plateA = plateA
    plateB = plateB
    NoPlate = NoPlate
    s1 = s1
    s2 = s2
    Slots = {s1, s2}
    Keys <- ChainKeys
    Scope <- ChainScope
    Ident <- ChainIdent
    Follows <- ChainFollows
    LowCount = 2
    MaxObs = 2
    MaxFaults = 1
    MaxCrashes = 1
    MaxExpired = 0
    MaxCopies = 0
    MaxRemovals = 0
    MaxCorrections = 0
CHECK_DEADLOCK FALSE
PROPERTIES EventuallySettled
