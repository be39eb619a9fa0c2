\* The watch is lost once; two cleanup goroutines.
CONSTANTS
    v1 = v1
    PodKeys = {p1}
    Nodes = {n1, n2}
    NoNode = NoNode
    Volumes = {v1}
    VolsOf <- OneVolume
    CSIVols = {v1}
    RWXVols = {}
    Workers = {w1, w2}
    ArrayMonitor = ArrayMonitor
    FailingNodes = {n1}
    EnvTaints = {"noexec"}
    MaxUID = 2
    MaxQueue = 2
    MaxDisruptions = 1
    APIFaults = FALSE
    MaxCrashLoopBackOffRetry = 1
    CSIExtensionsPresent = FALSE
    SkipArrayConnectionValidation = FALSE
    IgnoreVolumelessPods = FALSE
SPECIFICATION Spec
SYMMETRY Symmetry
INVARIANT FencedBeforeForceDelete
