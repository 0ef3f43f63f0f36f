CONSTANTS
    n0 = n0
    n1 = n1
    n2 = n2
    n3 = n3
    Nodes = {n0, n1, n2, n3}
    Primary = n0
    Requests = {x}
    NoBody = NoBody
    Absent = Absent
    Link <- OneMute
    MaxSeq = 1
    MaxRestarts = 0
SPECIFICATION Spec
SYMMETRY Symmetry
INVARIANTS ReadyIsCommitted
CHECK_DEADLOCK FALSE
