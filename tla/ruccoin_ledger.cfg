CONSTANTS
    n0 = n0
    n1 = n1
    n2 = n2
    n3 = n3
    Nodes = {n0, n1, n2, n3}
    Primary = n0
    Accounts = {1, 2, 3}
    Genesis = Genesis
    Scale = 4
    Txs <- RoundTrip
    InitBalance <- TwoAndOnes
    MinTxPerBlock = 1
    MaxTxPerBlock = 1
    MaxSeq = 2
    MaxRestarts = 1
SYMMETRY Symmetry
SPECIFICATION Spec
INVARIANTS TypeOK PrimaryChainLinked NoOverdraft SameBalances CoinsKept RefusedIsLast ExecutedOnce AcceptedIsKept
CHECK_DEADLOCK FALSE
