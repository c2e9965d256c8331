\* A thread with a Runtime, one without, two closures on one or two workers.
SPECIFICATION Spec
CONSTANTS
    Clients = {c1, c2}
    Spawners = {c1}
    Tasks = {t1, t2}
    Names = {n1, n2}
    None = None
SYMMETRY Symmetry
INVARIANTS
    TypeOK
    InOrder
    PanicsOnlyIfDropped
    OwnedAlone
    DropDrains
    NoneStranded
\* Closures that wait for each other, and programs that are over, stop.
CHECK_DEADLOCK FALSE
