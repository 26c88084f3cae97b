\* Two controllers and five calls; up to two threads, which may end on their own.
SPECIFICATION FairSpec
CONSTANTS
    Controllers = {c1, c2}
    NoOne = NoOne
    SelfEnding = TRUE
    MaxThreads = 2
    MaxCalls = 5
INVARIANTS TypeOK OneThreadAtATime FirstJoinWaits
PROPERTY EveryJoinerReleased
CHECK_DEADLOCK FALSE
