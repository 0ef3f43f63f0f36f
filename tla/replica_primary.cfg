CONSTANTS
    n0 = n0
    n1 = n1
    n2 = n2
    n3 = n3
    Nodes = {n0, n1, n2, n3}
    Me = n0
    Primary = n0
    Alive = {n0, n1, n2}
    Threads = 3
    Free = Free
    MaxSeq = 2
SPECIFICATION FairSpec
INVARIANTS ReturnedIsExecuted
PROPERTIES RequestReturns
CHECK_DEADLOCK FALSE
