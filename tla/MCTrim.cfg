CONSTANTS
    NClass = 1
    Block = {b1, b2, b3}
    Machines <- Small
    ClassOf <- OneClass
    Size <- OneUnit
    Manual = {m}
    Bg = bg
    NULL = NULL
    Batch = 2
    MaxStamp = 2
    Lives = {0}
    Requests = {0, 1}
    MaxBuddy = 1
SPECIFICATION Spec
SYMMETRY Symmetric
INVARIANTS
    OnePlace
    DataKept
    AdvisedOnce
    NotMoreThanAsked
PROPERTY TrimNearsEnd
