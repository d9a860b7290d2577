\* Two sockets (one more than OneConnection allows), two transactions, at
\* most two failures and two confirmation fetches at a time.  The delays of
\* the reconnects double from 1 to at most 2.
SPECIFICATION FairSpec
CONSTANTS
    Socket = {s1, s2}
    Txid = {t1, t2}
    Callback = {c1}
    None = None
    InitialBackoff = 1
    MaxBackoff = 2
    MaxWire = 2
    MaxFaults = 2
    MaxFlights = 2
INVARIANTS
    OneConnection
    PageIsOwn
PROPERTIES
    PromiseKept
    WatchEnds
