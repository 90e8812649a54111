SPECIFICATION MCSpec
CONSTANTS
    p1 = p1
    p2 = p2
    Procs = {p1, p2, p3}
    NULL = NULL
    NUM = 6
    WORD = 12
    Ops = {"read", "write"}
INVARIANTS
    ReturnsServed  ReadsBack  OpFits
