SPECIFICATION Spec
CONSTANTS
    Root = root
    Procs = {root, p1}
    Live0 = {root}
    Frames = {f1, f2, f3, f4, f5, f6}
    NSlots = 2
    MaxPages = 2
    LeafSpan = 2
    Vals = {a}
    Zero = zero
    Junk = junk
    NULL = null
    GrowMax = 1
    Growers = {root}
    Shrinkers = {}
    Forkers = {root}
    Exiters = {}
    Reapers = {}
    Copiers = {}
    Racers = {}
INVARIANTS DataIntact
