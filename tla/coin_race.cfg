CONSTANTS
    Accounts = {1, 2, 3}
    Genesis = Genesis
    Scale = 4
    Txs <- Few
    InitBalance <- OneCoinEach
    MinTxPerBlock = 1
    MaxTxPerBlock = 1
    MaxSeq = 2
    MaxCrashes = 0
SPECIFICATION Spec
INVARIANTS BalancesExecuted
CHECK_DEADLOCK FALSE
