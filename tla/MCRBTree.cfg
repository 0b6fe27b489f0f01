SPECIFICATION Spec
CONSTANT N = 10
INVARIANTS
    FindsAll
    Balanced
