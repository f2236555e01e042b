SPECIFICATION Spec
CONSTANTS
    a = a
    b = b
    x = x
    y = y
    r1 = r1
    r2 = r2
    same = same
    Unread = Unread
    None = None
    Recovery = Recovery
    Reading <- MCReading
    Old <- MCOld
    Plate <- MCPlate
    First <- Unnamed
    CameraId <- OneCamera
    Pixels <- Alike
    Request <- Two
    MaxFeedback = 2
    MaxClock = 3
    MaxFaults = 1
    MaxCrashes = 1
SYMMETRY Symmetry
CHECK_DEADLOCK FALSE
INVARIANTS OneTruth OneCurrentTruth TruthNotLost
PROPERTIES DecisionKept RecordSpec
