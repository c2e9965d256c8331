\* One command, one closure and one task of either kind, under each of the four
\* methods; any of them may be the one that asks for a shutdown.
SPECIFICATION Spec
CONSTANTS
    Tasks = {t1}
    Guards = {g1}
    NoOne = NoOne
    Main = Main
    Command = Command
    Closure = Closure
    Clients <- Holders
    MaxAskers = 1
    Kinds <- Watched
    MaxCalls = 1
INVARIANTS
    TypeOK
    ResultJustified
    NothingLeftRunning
\* A method that has returned takes no further step.
CHECK_DEADLOCK FALSE
