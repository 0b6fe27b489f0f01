CONSTANTS
    a1 = a1
    a2 = a2
    a3 = a3
    Arena = {a1, a2, a3}
    None = None
    Nodes = 2
    ArenaPages = 5
    MinPages = 2
    MaxPages = 6
    MaxSpans = 5
SPECIFICATION Spec
SYMMETRY Sym
INVARIANTS ListShape IInv
CHECK_DEADLOCK FALSE
