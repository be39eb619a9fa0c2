\* Calls of TaintNode one after the other, some of which fail.
CONSTANTS
    Callers = {c1, c2}
    Driver = Driver
    Foreign = {"noexec", "nosched"}
    Overlap = FALSE
    MaxEvents = 2
    APIFaults = TRUE
SPECIFICATION Spec
INVARIANTS TypeOK TaintApplied DriverTaintFollows
