\* The API server is lost once.
CONSTANTS
    PodKeys = {p1}
    Volumes = {v1}
    MaxUID = 2
    MaxQueue = 2
    MaxOutages = 1
    MaxTaints = 1
    MaxFaults = 0
    CSIFaults = TRUE
    ScanFaults = FALSE
    ManualUntaint = FALSE
    TaintCountDelay = 2
    IgnoreVolumelessPods = FALSE
SPECIFICATION Spec
INVARIANT NeverCleanLive
