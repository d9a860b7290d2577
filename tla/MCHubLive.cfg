SPECIFICATION FairSpec
CONSTANTS
    Conn = {c1}
    Txid = {t1}
    Hash = {h1}
    NoHash = NoHash
    NoKey = NoKey
    NoCmd = NoCmd
    MaxClients = 0
    MaxWatched = 1
    SendBuf = 1
    UnregCap = 1
    MaxPushes = 0
CHECK_DEADLOCK FALSE
PROPERTIES LostConnReaped PumpsEnd OwedPushStarts
