SPECIFICATION Spec
CONSTANTS
    Procs = {p1, p2}
    Blocks = {b1, b2, b3}
    Vals = {0, 1}
    LOGSIZE = 4
    NLOG = 4
    MAXOPBLOCKS = 2
INVARIANTS
    NoLostWakeup PanicOnlyFull
PROPERTIES
    Atomic
