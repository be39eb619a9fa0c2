\* Two changes of the file while podmon starts and runs.
CONSTANTS
    Settings = {2}
    FlagPoll = 1
    FlagLoss = 3
    FlagSkip = FALSE
    Mode = "controller"
    MaxChanges = 2
SPECIFICATION Spec
CHECK_DEADLOCK FALSE
INVARIANTS TypeOK ChangesFollowed
