\* The API server is lost once; a call fails or podmon restarts.
CONSTANTS
    PodKeys = {p1}
    Volumes = {v1}
    MaxUID = 2
    MaxQueue = 1
    MaxOutages = 1
    MaxTaints = 1
    MaxFaults = 1
    CSIFaults = FALSE
    ScanFaults = TRUE
    ManualUntaint = FALSE
    TaintCountDelay = 2
    IgnoreVolumelessPods = FALSE
SPECIFICATION FairSpec
INVARIANTS TaintRemovalClean
PROPERTIES TaintRemoved
