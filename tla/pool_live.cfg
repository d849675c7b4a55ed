CONSTANTS
    w1 = w1
    w2 = w2
    c1 = c1
    t1 = t1
    t2 = t2
    t3 = t3
    Workers = {w1, w2}
    Clients = {c1}
    Tasks = {t1, t2, t3}
    HasFinish = {t1}
    NoThread = NoThread
    NoTask = NoTask
    CreateMayFail = FALSE
    MaxSpurious = 1
SPECIFICATION FairSpec
PROPERTIES
    EveryTaskServed
    DestroyReturns
    NewReturns
