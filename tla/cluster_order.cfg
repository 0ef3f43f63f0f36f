CONSTANTS
    n0 = n0
    n1 = n1
    n2 = n2
    n3 = n3
    Nodes = {n0, n1, n2, n3}
    Primary = n0
    Requests = {x, y}
    NoBody = NoBody
    Absent = Absent
    Link <- OneDown
    MaxSeq = 2
    MaxRestarts = 0
SPECIFICATION Spec
SYMMETRY Symmetry
INVARIANTS QuorumApproved
PROPERTIES ImplementsOrder
CHECK_DEADLOCK FALSE
