CONSTANTS
    BlobFrames = 3
    MaxReports = 5
    MaxQueue = 1
    MaxFinalFaults = 0
    MaxTempFaults = 1
    MaxPanics = 0
SPECIFICATION Spec
CHECK_DEADLOCK FALSE
INVARIANTS
    RecordingUnaffected
