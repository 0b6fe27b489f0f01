CONSTANTS
    t1 = t1
    t2 = t2
    b1 = b1
    b2 = b2
    Thread = {t1, t2}
    Block = {b1, b2}
    NCPU = 2
    WordSize = 1
    Topologies <- Tables
    MaxRetries = 2
    MaxBatch = 2
SPECIFICATION Spec
SYMMETRY Sym
INVARIANTS OnePlace NeverAborts StealFlagOwned
PROPERTIES MallocSpec ScanComplete CallNearsEnd
