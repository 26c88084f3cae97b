\* Three events and two management commands within three ticks; an interval of one tick
\* (DT below the resolution) and one of two; the executing thread holds one chain.
SPECIFICATION Spec
CONSTANTS
    delay = delay
    rdelay = rdelay
    cycle = cycle
    FB = {delay, rdelay, cycle}
    NoEntry = NoEntry
    NoFB = NoFB
    Kind <- MCKind
    UnitsPerTick = 2
    UInt32 = 8
    ChainCap = 1
    MaxTime = 3
    DT = {0, 5}
    MaxEvents = 3
    MaxCommands = 2
INVARIANTS
    TypeOK
    OnTick
    OneEventPerStart
CHECK_DEADLOCK FALSE
