\* One INIT and errors only: what happens after the last retry.
SPECIFICATION Spec
CONSTANTS
    SlaveCounts = {0}
    MaxErrors = 2
    MaxInits = 1
    MaxFaults = 2
    MaxControllers = 3
    MaxRefused = 0
INVARIANT SurvivesErrors
CHECK_DEADLOCK FALSE
