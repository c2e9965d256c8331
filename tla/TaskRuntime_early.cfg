\* graceful_shutdown against its own comment.
SPECIFICATION Spec
CONSTANTS
    Tasks = {t1}
    Callers = {c1}
    Guards = {g1}
    NoOne = NoOne
    Kinds <- GracefulOnly
    MaxCalls = 1
INVARIANTS
    ReturnsAfterSignal
CHECK_DEADLOCK FALSE
