SPECIFICATION Spec
CONSTANTS
    None = None
    Roots = {old, new, newer}
    FirstRoot = old
    Readings = {i}
    Workers = {w1, w2, w3, w4}
    MaxFaults = 2
    MaxCrashes = 1
CHECK_DEADLOCK FALSE
SYMMETRY Symmetry
INVARIANTS MoveLosesNothing ServiceRestored
