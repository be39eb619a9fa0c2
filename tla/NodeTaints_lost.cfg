\* Two calls of TaintNode that overlap.
CONSTANTS
    Callers = {c1, c2}
    Driver = Driver
    Foreign = {}
    Overlap = TRUE
    MaxEvents = 2
    APIFaults = FALSE
SPECIFICATION Spec
INVARIANT TaintApplied
