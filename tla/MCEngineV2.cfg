SPECIFICATION Spec
CONSTANTS
    MaxFrames = 2
    MaxLives = 2
    MaxTracks = 2
    MaxAttempts = 2
    MaxAudits = 1
    MaxFaults = 2
CHECK_DEADLOCK FALSE
INVARIANTS SubmittedIsBacked EvidenceOfItsLife
PROPERTIES DecidedOnce FinalizeEnds
