SPECIFICATION FairSpec
CONSTANTS
    Width = 32
    HexBase = 3
    Keys = {1, 13, 5, 40}
    NodeAddr <- MCNodeAddr
    NodeKey <- MCNodeKey
    RewardKey = 5
    Users = 1
    Recipients = {"any"}
    Nonces <- MCNonces
    MaxGens = 2
    MaxSends = 2
    MaxFaults = 1
INVARIANTS
    TypeOK
    KeysKept
    SentVerifies
    NobodyMissed
    SendersKnown
PROPERTIES
    EveryoneGetsIt
CHECK_DEADLOCK FALSE
