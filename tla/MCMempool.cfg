\* Two callers, one of which the node may leave stuck for good: overlapping
\* fetches on a cold start and beside a stuck one.
SPECIFICATION FairSpec
CONSTANTS
    Caller = {c1, c2}
    Slow = {c2}
    MinAge = 1
    MaxAge = 2
    Stuck = 2
    None = None
    MaxVersion = 2
    MaxGen = 3
INVARIANTS
    ReadsAreConsistent
    CleanUnlessOverlapped
PROPERTIES
    SingleFlight
    ForwardUnlessOverlapped
    SettlesCurrent
