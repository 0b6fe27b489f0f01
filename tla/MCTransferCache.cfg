CONSTANTS
    Thread = {t1, t2}
    Block = {b1, b2}
    NULL = NULL
    TagMod = 3
    MaxLag = 2
    MaxBatch = 2
SPECIFICATION Spec
SYMMETRY Symmetry
INVARIANTS SingleOwner HintNotLost IInv
PROPERTY PoolSpec
