\* With fairness; the closure runs, but does not use the runtime.
SPECIFICATION FairSpec
CONSTANTS
    Tasks = {t1}
    Guards = {g1}
    NoOne = NoOne
    Main = Main
    Command = Command
    Closure = Closure
    Clients <- NoClosure
    MaxAskers = 1
    Kinds <- HalfWatched
    MaxCalls = 1
PROPERTIES
    ReturnsOnReason
CHECK_DEADLOCK FALSE
