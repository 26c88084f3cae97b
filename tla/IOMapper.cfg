\* Two ids, two blocks, two handles; every interleaving of the blocks, the configuration,
\* the controller and the management thread.
SPECIFICATION Spec
CONSTANTS
    i1 = i1
    i2 = i2
    ix = ix
    iw = iw
    h1 = h1
    h2 = h2
    Ids = {i1, i2}
    Blocks = {ix, iw}
    Handles = {h1, h2}
    Fitting <- MCFitting
    Managed = {ix}
SYMMETRY MCSymmetry
INVARIANTS
    TypeOK
    LinkedMeansRegistered
    NoDanglingHandle
    BlockKnowsItsState
CHECK_DEADLOCK FALSE
