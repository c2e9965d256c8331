\* Two calls share a pool of two threads and may be made on them: every split
\* into leaves, every place of a panic.
SPECIFICATION FairSpec
CONSTANTS
    Calls = {c1, c2}
    N = 2
    Threads = 2
INVARIANTS
    TypeOK
    StopsAtFirstGap
PROPERTIES
    ImplementsLoop
    Terminates
\* A call that has ended takes no further step; calls can block one another.
CHECK_DEADLOCK FALSE
