\* Two calls of any method, one made inside the other or both at once, on a
\* pool of two threads.
SPECIFICATION Spec
CONSTANTS
    Threads = {h1, h2}
    Calls = {c1, c2}
    Types = {A, B}
    Ops <- AllOps
    None = None
SYMMETRY Symmetry
INVARIANTS
    TypeOK
    ExactThreads
    InitReachesAll
    NoneStranded
\* Calls are not made again once all have returned.
CHECK_DEADLOCK FALSE
