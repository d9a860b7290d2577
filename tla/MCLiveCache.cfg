\* One recompute may be stranded on the node; the watchdog starts another.
SPECIFICATION FairFeedSpec
CONSTANTS
    Caller = {r1, r2}
    Slow = {r2}
    MinAge = 1
    MaxAge = 1
    Stuck = 1
    None = None
    MaxVersion = 1
    MaxGen = 1
    Followed = {{"stats"}, {"fees"}, {"mempool"}}
    LiveEvery = 1
    LiveStuck = 1
PROPERTIES
    FeedsStay
    LiveSettles
