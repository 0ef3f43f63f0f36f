CONSTANTS
    Accounts = {1, 2, 3}
    Genesis = Genesis
    Scale = 4
    Txs <- Few
    InitBalance <- OneCoinEach
    MinTxPerBlock = 1
    MaxTxPerBlock = 1
    MaxSeq = 2
    MaxCrashes = 2
SPECIFICATION Spec
INVARIANTS TypeOK PrimaryBalances CheckExact ReadyToPack
PROPERTIES RestartReadsChain
CHECK_DEADLOCK FALSE
