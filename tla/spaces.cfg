SPECIFICATION MCSpec
CONSTANTS
    Harts = {h1, h2}
    Procs = {p1, p2, p3}
    Pages = {a}
    Frames = {f1, f2}
    Vals = {x}
    Zero = Zero
    Junk = Junk
    NULL = NULL
INVARIANTS
     MappedExactly
PROPERTIES
    StaleByEviction 
