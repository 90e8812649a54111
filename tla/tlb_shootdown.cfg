SPECIFICATION Spec
CONSTANTS
    Harts = {h1, h2}
    Procs = {p1, p2}
    Pages = {a, b}
    Frames = {f1, f2}
    Vals = {x}
    Zero = Zero
    Junk = Junk
    NULL = NULL
INVARIANTS PagesKept
