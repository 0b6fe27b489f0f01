SPECIFICATION Spec
CONSTANTS
    t1 = t1
    t2 = t2
    r1 = r1
    r2 = r2
    Thread = {t1, t2}
    Region = {r1, r2}
    Machines <- Both
    MaxOrder = 2
    Tops = 1
    Trims = {TRUE, FALSE}
SYMMETRY Symmetric
INVARIANTS
    Partition
    InSync
    StateHonest
PROPERTIES
    BackendSpec
    NoneMeansNone
