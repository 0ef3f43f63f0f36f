CONSTANTS
    n0 = n0
    n1 = n1
    n2 = n2
    n3 = n3
    Nodes = {n0, n1, n2, n3}
    Me = n1
    Primary = n0
    Alive = {n0, n1, n2, n3}
    Threads = 2
    Free = Free
    MaxSeq = 1
SYMMETRY Symmetry
SPECIFICATION Spec
INVARIANTS TypeOK CommitOnce VotesBacked
CHECK_DEADLOCK FALSE
