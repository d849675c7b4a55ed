CONSTANTS
    w1 = w1
    w2 = w2
    c1 = c1
    p1 = p1
    r1 = r1
    r2 = r2
    r3 = r3
    Workers = {w1, w2}
    Clients = {c1, p1}
    Pollers = {p1}
    Tasks = {r1, r2, r3}
    HasFinish = {r1, r2, r3}
    PathOps = {r1}
    PipeCap = 2
    NoThread = NoThread
    NoTask = NoTask
    CreateMayFail = TRUE
    MaxSpurious = 0
SPECIFICATION AioFairSpec
INVARIANTS
    InFlightExact
    InitAllOrNothing
PROPERTIES
    ImplementsService
    EveryRequestDelivered
CHECK_DEADLOCK FALSE
