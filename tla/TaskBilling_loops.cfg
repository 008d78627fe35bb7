SPECIFICATION Spec
CONSTANTS
    t1 = t1
    t2 = t2
    n1 = n1
    Tasks = {t1, t2}
    Mixes <- MCMixes
    Nodes = {n1}
    Price = 2
    Costs = {3}
    MaxFaults = 1
    MaxOutside = 1
INVARIANTS RefundPerOpening SettledTask
PROPERTIES TasksFinish
CHECK_DEADLOCK FALSE
