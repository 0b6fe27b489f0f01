CONSTANTS
    Thread = {t1, t2}
    CPU = {c1, c2}
    Block = {b1, b2}
    NULL = NULL
    Off = Off
    High = 1
    UsageMod = 8
    MaxTries = 1
    MaxBatch = 2
SPECIFICATION Spec
SYMMETRY Symmetry
INVARIANTS
    UsageAccounts
    IInv
PROPERTIES PoolSpec PushNearsEnd
