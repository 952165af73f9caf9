CONSTANTS
    Wire <- MCWire
    QualityPolicy <- MCQualityPolicy
    SoakPolicy <- MCSoakPolicy
    Requests <- MCRequests
    CadenceThreshold = 1
    DuplicateWindow = 2
    MaxAhead = 1
    StaleAfter = 2
    SegmentDuration = 1
    MaxTime = 2
    MaxConnections = 4
    MaxFrames = 3
    MaxMishaps = 1
SPECIFICATION Spec
INVARIANTS
    OnlyDamageIsCorrupt
    SoakIsUnbroken
PROPERTIES
    DatasetIsTheRecord
CHECK_DEADLOCK FALSE
