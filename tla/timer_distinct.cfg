CONSTANTS
    n1 = n1
    n2 = n2
    n3 = n3
    Nodes = {n1, n2, n3}
    Nil = Nil
    MaxHeight = 2
    MaxTime = 4
    Timeouts = {0, 2}
    Retvals = {0, 1, 2, 5, 10}
    IntBits = 3
    Ties = FALSE
    ClockMayGoBack = TRUE
SPECIFICATION FairSpec
INVARIANTS
    NoTimerLost
PROPERTIES
    NoElementsTimeout
    ImplementsTimerSet
    EveryTimerFires
CHECK_DEADLOCK FALSE
