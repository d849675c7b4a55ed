CONSTANTS
    n1 = n1
    n2 = n2
    n3 = n3
    n4 = n4
    Nodes = {n1, n2, n3, n4}
    Nil = Nil
    MaxHeight = 3
    MaxTime = 5
    Timeouts = {0, 2, 3}
    Retvals = {0, 1, 2, 3, 5, 8, 10}
    IntBits = 3
    Ties = TRUE
    ClockMayGoBack = FALSE
SPECIFICATION Spec
SYMMETRY TimerSymmetry
PROPERTIES
    NoElementsTimeout
CHECK_DEADLOCK FALSE
