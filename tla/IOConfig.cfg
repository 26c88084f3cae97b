\* A device without slaves and a chain of two, three faults where the second in a row is the
\* last that is retried, INIT events with and without QI.  A run ends when the bounds are
\* used up or the program is in an undefined state.
SPECIFICATION Spec
CONSTANTS
    SlaveCounts = {0, 2}
    MaxErrors = 2
    MaxInits = 2
    MaxFaults = 3
    MaxControllers = 5
    MaxRefused = 1
INVARIANTS TypeOK OneController RetriesAreBounded ConfirmedMeansAllUp
PROPERTIES InitIsAnswered ErrorIsHandled
CHECK_DEADLOCK FALSE
