SPECIFICATION Spec
CONSTANTS
    t1 = t1
    t2 = t2
    p = p
    q = q
    r = r
    NoTrack = NoTrack
    NoPlate = NoPlate
    Tracks <- MCTracks
    Plates <- MCPlates
    Near <- MCNear
    Close <- MCClose
    Reads <- MCReads
    Cooldown = 1
    AbsenceObservations = 2
    AbsenceTime = 1
    MaxGap = 1
    Window = 1
    Ticks = {1}
    MaxTime = 3
    MaxEntries = 3
    MaxFaults = 1
INVARIANT LedgerAgrees
INVARIANT ConfirmedShowsPlate
PROPERTY RowsKeepPlates
PROPERTY VisitEndsByAbsence
CHECK_DEADLOCK FALSE
