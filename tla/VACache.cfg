\* Two cleanups and two volumes on a node, one of which may be attached again; calls fail.
CONSTANTS
    Keys = {k1, k2}
    Threads = {t1, t2}
    Free = Free
    MaxAttach = 3
    APIFaults = TRUE
SPECIFICATION Spec
INVARIANTS TypeOK PurgedAfterDelete AttachmentDeleted
