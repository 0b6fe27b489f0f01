SPECIFICATION Spec
CONSTANTS
    t1 = t1
    t2 = t2
    h1 = h1
    h2 = h2
    None = None
    Thread = {t1, t2}
    Handle = {h1, h2}
    KPages = 3
    BPages = 4
    Unit = 1
    Huge = 3
    Slack = 1
    Programs <- SmallAndLarge
SYMMETRY Symmetric
INVARIANTS
    Accounted
    NeverRefused
    DataKept
    CallocClean
