\* Four blocks, two of which have the same name: event connections from a and b, data from
\* a to b and c, an adapter between a and b, and in-out connections among a and b.
SPECIFICATION Spec
CONSTANTS
    a = a
    b = b
    b2 = b2
    c = c
    nameA = nameA
    nameB = nameB
    nameC = nameC
    None = None
    FB = {a, b, b2, c}
    NameOf <- MCNameOf
    EO = {a, b}
    EI = {b, b2, c}
    DO = {a}
    DI = {b, c}
    Plugs = {a}
    Sockets = {b}
    DIO = {a, b}
    CountMod = 16
    MaxDestinations = 2
    StateCommands = {"Start", "Stop"}
    Careful = TRUE
INVARIANTS TypeOK CountIsExact
PROPERTY ImplementsGraph
CHECK_DEADLOCK FALSE
