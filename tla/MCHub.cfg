SPECIFICATION Spec
CONSTANTS
    Conn = {c1, c2}
    Txid = {t1, t2}
    Hash = {h1}
    NoHash = NoHash
    NoKey = NoKey
    NoCmd = NoCmd
    MaxClients = 1
    MaxWatched = 1
    SendBuf = 1
    UnregCap = 1
    MaxPushes = 0
VIEW View
SYMMETRY Symmetry
CHECK_DEADLOCK FALSE
INVARIANTS TypeOK RegisteredUntilShutdown NotifierNeverBlocks NoLostWakeup WatchBooksAgree
PROPERTIES WatchesServed
