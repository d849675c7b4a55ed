CONSTANTS
    w1 = w1
    w2 = w2
    p2 = p2
    p1 = p1
    r1 = r1
    r2 = r2
    r3 = r3
    Workers = {w1, w2}
    Clients = {p1, p2}
    Pollers = {p1, p2}
    Tasks = {r1, r2, r3}
    HasFinish = {r1, r2, r3}
    PathOps = {r1}
    PipeCap = 1
    NoThread = NoThread
    NoTask = NoTask
    CreateMayFail = FALSE
    MaxSpurious = 1
SPECIFICATION AioSpec
SYMMETRY AioSymmetry
INVARIANTS
    ListIsQueue
    NoLostCompletion
    NoUseAfterFree
    DeliveredOnce
CHECK_DEADLOCK FALSE
