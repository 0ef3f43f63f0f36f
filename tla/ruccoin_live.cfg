CONSTANTS
    n0 = n0
    n1 = n1
    n2 = n2
    n3 = n3
    Nodes = {n0, n1, n2, n3}
    Primary = n0
    Accounts = {1, 2, 3}
    Genesis = Genesis
    Scale = 4
    Txs <- OneEach
    InitBalance <- Rich
    MinTxPerBlock = 1
    MaxTxPerBlock = 2
    MaxSeq = 2
    MaxRestarts = 0
SPECIFICATION FairSpec
PROPERTIES Progress
CHECK_DEADLOCK FALSE
