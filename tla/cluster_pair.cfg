CONSTANTS
    n0 = n0
    n1 = n1
    n2 = n2
    n3 = n3
    Nodes = {n0, n1}
    Primary = n0
    Requests = {x, y}
    NoBody = NoBody
    Absent = Absent
    Link <- OneWay
    MaxSeq = 2
    MaxRestarts = 1
SPECIFICATION Spec
SYMMETRY RequestSymmetry
INVARIANTS TypeOK Inv Agreement ExecutedOnce
CHECK_DEADLOCK FALSE
