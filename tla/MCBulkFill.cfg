CONSTANTS
    t1 = t1
    t2 = t2
    t3 = t3
    s1 = s1
    s2 = s2
    Thread = {t1, t2, t3}
    Span = {s1, s2}
    None = None
    Nodes = 2
    IsNuma = TRUE
    Cap = 3
    MaxBatch = 2
SPECIFICATION Spec
SYMMETRY Sym
INVARIANTS SpanOnce PendingHasBlocks
CHECK_DEADLOCK FALSE
