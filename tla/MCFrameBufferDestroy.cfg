SPECIFICATION Spec
CONSTANTS
    Threads = {t1, t2}
    Ids = {f1, f2}
    Blocks = {b1, b2, b3, b4}
    Capacity = 2
    NULL = NULL
INVARIANTS
    DestroyFreesAll
