SPECIFICATION Spec
CONSTANTS
    Caller = {c1, c2}
    Slow = {c2}
    MinAge = 1
    MaxAge = 2
    Stuck = 2
    None = None
    MaxVersion = 2
    MaxGen = 3
INVARIANTS
    CleanIsCurrent
