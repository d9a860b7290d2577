\* Two heights, so that a stall follows upon progress; two interventions per
\* stall, one period apart.
SPECIFICATION FairSpec
CONSTANTS
    Stall = 1
    Interval = 2
    MaxInterv = 2
    MaxHeight = 2
    MaxLosses = 2
INVARIANTS
    BudgetKept
    LogSettled
PROPERTIES
    RateLimited
    OutcomesTruthful
    GivesUpInTheEnd
