\* A block with event connections to three others is deleted.
SPECIFICATION Spec
CONSTANTS
    a = a
    b = b
    b2 = b2
    c = c
    nameA = nameA
    nameB = nameB
    nameC = nameC
    None = None
    FB = {a, b, b2, c}
    NameOf <- MCDistinctNames
    EO = {a}
    EI = {b, b2, c}
    DO = {}
    DI = {}
    Plugs = {}
    Sockets = {}
    DIO = {}
    CountMod = 16
    MaxDestinations = 3
    StateCommands = {}
    Careful = TRUE
INVARIANT CountIsExact
CHECK_DEADLOCK FALSE
