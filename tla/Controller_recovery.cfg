\* The watch is lost or podmon restarts once; no call fails.
CONSTANTS
    v1 = v1
    PodKeys = {p1}
    Nodes = {n1, n2}
    NoNode = NoNode
    Volumes = {v1}
    VolsOf <- OneVolume
    CSIVols = {v1}
    RWXVols = {}
    Workers = {w1}
    ArrayMonitor = ArrayMonitor
    FailingNodes = {n1}
    EnvTaints = {"noexec", "podmon"}
    MaxUID = 3
    MaxQueue = 2
    MaxDisruptions = 1
    APIFaults = FALSE
    MaxCrashLoopBackOffRetry = 0
    CSIExtensionsPresent = FALSE
    SkipArrayConnectionValidation = FALSE
    IgnoreVolumelessPods = FALSE
SPECIFICATION FairSpec
INVARIANTS ReadyTracked
PROPERTIES LockReleased
