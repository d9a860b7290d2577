SPECIFICATION FairSpec
CONSTANTS
    Reader = {r1, r2}
    None = None
    Fallback = Fallback
    Free = Free
    TTL = 1
    MaxTip = 1
    MaxJoins = 1
INVARIANTS
    TypeOK
    OncePerBlock
    CurrentUnlessRaced
PROPERTIES
    LookupsReturn
    CachesSettle
