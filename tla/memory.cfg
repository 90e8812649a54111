SPECIFICATION MCSpec
CONSTANTS
    Root = root
    Procs = {root}
    Live0 = {root}
    Frames = {f1, f2, f3, f4}
    NSlots = 2
    MaxPages = 4
    LeafSpan = 3
    Vals = {a}
    Zero = zero
    Junk = junk
    NULL = NULL
    GrowMax = 2
    Growers = {root}
    Shrinkers = {root}
    Forkers = {}
    Exiters = {}
    Reapers = {}
    Copiers = {root}
    Racers = {root}
    p1 = p1
    f5 = f5
    f6 = f6
INVARIANTS
    Owned  ClockRight 
PROPERTIES
    TrapsReturn
