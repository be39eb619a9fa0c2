\* Two pods, a reliable API server, calls to the driver that fail, an operator who may remove the taint.
CONSTANTS
    PodKeys = {p1, p2}
    Volumes = {v1}
    MaxUID = 2
    MaxQueue = 1
    MaxOutages = 0
    MaxTaints = 2
    MaxFaults = 0
    CSIFaults = TRUE
    ScanFaults = FALSE
    ManualUntaint = TRUE
    TaintCountDelay = 2
    IgnoreVolumelessPods = FALSE
SPECIFICATION Spec
SYMMETRY Symmetry
INVARIANTS TypeOK NeverCleanLive TaintRemovalClean
