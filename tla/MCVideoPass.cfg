SPECIFICATION VideoSpec
CONSTANTS
    MaxFrames = 2
    MaxStates = 2
    MaxGeneration = 1
    MaxFaults = 1
    Requests = {upload}
    Upload = upload
    MaxStreams = 2
    MaxCrashes = 1
CHECK_DEADLOCK FALSE
INVARIANTS OneFuture PureEvidence NoLockDeadlock SingleStream StoppedIsQuiet CompletedIsWhole RestartNeverResubmits
PROPERTIES FramesInOrder
