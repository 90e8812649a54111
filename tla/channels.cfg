SPECIFICATION MCSpec
CONSTANTS
    Readers = {r1, r2}
    Writers = {w1}
    Killable = {r1, w1}
    Bytes = {0, 1}
    PIPESIZE = 2
    WORD = 4
    MinN = 0
    MaxN = 2
    NULL = NULL
    p1 = p1
    p2 = p2
    s1 = s1
    s2 = s2
    intr = intr
INVARIANTS
    NoUseAfterFree NoLostWakeup OutputRight FilesExact Resolves
PROPERTIES
    InOrder 
