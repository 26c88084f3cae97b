\* A start and a stop or kill with a restart.  The external list takes three events and
\* the event list one, so that a transfer overflows.
SPECIFICATION Spec
CONSTANTS
    Producers = {p1, p2}
    Internal = Internal
    ListCap = 1
    ExtCap = 3
    FanOut = 2
    MaxCalls = 4
    MaxCommands = 4
INVARIANTS TypeOK NoLostWakeup EveryEventOnceInOrder
PROPERTY OneThread
SYMMETRY Symmetry
\* an idle thread waits for ever once the producers and the manager have nothing to do
CHECK_DEADLOCK FALSE
