\* Start, Stop, Start, Stop with quick hands; another producer competes for the single
\* place of the external list, and the blocks may keep the chain going for ever.
SPECIFICATION RestartSpec
CONSTANTS
    Producers = {m, p}
    Manager = m
    Internal = Internal
    ListCap = 2
    ExtCap = 1
    FanOut = 1
    MaxCalls = 5
    MaxCommands = 4
    OtherCalls = 1
INVARIANT StopIsOwed
PROPERTIES CleanStop StopReturns AcceptedIsHandled 
\* an idle thread, or a Stop whose entry was lost, waits for ever
CHECK_DEADLOCK FALSE
