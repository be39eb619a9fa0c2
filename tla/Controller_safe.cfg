\* A pod handler with its cleanups and the array connectivity monitor with its own; calls fail.
CONSTANTS
    v1 = v1
    PodKeys = {p1}
    Nodes = {n1, n2}
    NoNode = NoNode
    Volumes = {v1}
    VolsOf <- OneVolume
    CSIVols = {v1}
    RWXVols = {}
    Workers = {w1}
    ArrayMonitor = ArrayMonitor
    FailingNodes = {n1}
    EnvTaints = {"noexec"}
    MaxUID = 2
    MaxQueue = 2
    MaxDisruptions = 0
    APIFaults = TRUE
    MaxCrashLoopBackOffRetry = 1
    CSIExtensionsPresent = TRUE
    SkipArrayConnectionValidation = FALSE
    IgnoreVolumelessPods = TRUE
SPECIFICATION Spec
INVARIANTS TypeOK LockOwnership DeleteOnlyFenced SingleWriter RightNode NoStaleInfo
PROPERTIES ImplementsTakeover
