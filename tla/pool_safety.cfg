CONSTANTS
    w1 = w1
    w2 = w2
    w3 = w3
    c1 = c1
    c2 = c2
    t1 = t1
    t2 = t2
    t3 = t3
    t4 = t4
    Workers = {w1, w2, w3}
    Clients = {c1, c2}
    Tasks = {t1, t2, t3, t4}
    HasFinish = {t1, t2}
    NoThread = NoThread
    NoTask = NoTask
    CreateMayFail = TRUE
    MaxSpurious = 1
SPECIFICATION Spec
SYMMETRY PoolSymmetry
INVARIANTS
    ListConsistent
    HandedOutComplete
    OneOwner
    RunOnceThenFreed
    WorkerPerTask
    GoneIsQuiet
PROPERTIES
    NoStartAfterQuit
    ImplementsTaskPool
