SPECIFICATION Spec
CONSTANTS
    Lines <- MCLines
    Half = 128
    Undefined = Undefined
    Configs <- MCConfigs
    NoKey <- MCNoKey
    Width = 5
    HexBase = 16
    Keys = {5, 300}
    Numbers = {1, 2, 12}
    Digests <- MCDigests
    Nonce <- MCNonce
INVARIANTS
    TypeOK
    ParsedAsWritten
    UnreadKept
    IntegerExact
    Paired
    ServesAsItself
    MessagesVerify
CHECK_DEADLOCK FALSE
