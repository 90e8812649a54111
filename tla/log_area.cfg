SPECIFICATION Spec
CONSTANTS
    Procs = {p1, p2}
    Blocks = {b1, b2, b3, b4}
    Vals = {0}
    LOGSIZE = 4
    NLOG = 4
    MAXOPBLOCKS = 2
INVARIANT NoPanic
