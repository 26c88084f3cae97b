\* Four slots and sixteen index values: the indices wrap four times as late as the mask.
SPECIFICATION RingSpec
CONSTANTS
    Elem = {e1, e2, e3}
    NoElem = NoElem
    Size = 4
    IndexMod = 16
INVARIANT RingInv
PROPERTY ImplementsFifo
