SPECIFICATION Spec
CONSTANTS
    t1 = t1
    t2 = t2
    p1 = p1
    p2 = p2
    p3 = p3
    p4 = p4
    p5 = p5
    Root = Root
    Null = Null
    Thread = {t1, t2}
    Page = {p1, p2, p3, p4, p5}
    Fan = 2
    LeafSize = 4
    WordSize = 2
    ChunkSize = 2
    Spans <- SomeSpans
SYMMETRY Symmetric
INVARIANTS
    Settled
    GetExact
    PagesOwned
