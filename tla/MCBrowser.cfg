SPECIFICATION Spec
CONSTANTS
    Home = Home
    None = None
    Query = {t1, a1, x1, 0, 1}
    TxQuery = {t1}
    AddressQuery = {a1}
    WrongQuery = {x1}
    MaxHeight = 1
    MaxEntries = 3
    MaxNavs = 2
INVARIANTS
    ShownIsAsked
    HistorySound
CHECK_DEADLOCK FALSE
