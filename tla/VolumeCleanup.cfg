\* Every driver; a file-system volume and a raw block volume; three calls fail.
CONSTANTS
    Mounts = {m1}
    Devices = {d1}
    CSIMaxRetries = 2
    MaxFaults = 3
SPECIFICATION FairSpec
CHECK_DEADLOCK FALSE
INVARIANTS TypeOK SuccessMeansClean UnstageAfterUnpublish
PROPERTIES CleanupCompletes
