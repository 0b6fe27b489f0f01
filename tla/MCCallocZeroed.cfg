SPECIFICATION Spec
CONSTANTS
    t1 = t1
    h1 = h1
    None = None
    Thread = {t1}
    Handle = {h1}
    KPages = 4
    BPages = 4
    Unit = 1
    Huge = 3
    Slack = 1
    Programs <- All
INVARIANT CallocZeroed
