\* What the runtime achieves by itself, and with the help of those it waits for.
SPECIFICATION FairSpec
CONSTANTS
    Tasks = {t1}
    Callers = {c1, c2}
    Guards = {g1, g2}
    NoOne = NoOne
    Kinds <- Watched
    MaxCalls = 1
PROPERTIES
    NoWorkAfterShutdown
    RequestFires
    PanicFires
    SelectTasksStop
    TimedCallReturns
    UntimedCallReturns
CHECK_DEADLOCK FALSE
