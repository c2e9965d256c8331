\* Two threads that ask for a shutdown race two tasks and the end of the runtime.
SPECIFICATION Spec
CONSTANTS
    Tasks = {t1, t2}
    Callers = {c1, c2}
    Guards = {g1, g2}
    NoOne = NoOne
    Kinds <- AlmostAll
    MaxCalls = 1
SYMMETRY Symmetry
INVARIANTS
    TypeOK
    GuardCount
    ShutdownHasCause
    MetricsBalance
PROPERTIES
    ImplementsContract
\* User code may never end, and every task and caller may have ended.
CHECK_DEADLOCK FALSE
