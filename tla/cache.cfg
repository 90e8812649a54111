SPECIFICATION Spec
CONSTANTS
    Procs = {p1, p2}
    Blocks = {1, 2, 3}
    Vals = {0, 1}
    NBUF = 2
    MaxHold = 1
    MaxPins = 1
    NULL = NULL
INVARIANTS
    RefcntExact PanicOnlyFull
PROPERTIES
    ReadsLatest
