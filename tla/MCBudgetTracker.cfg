SPECIFICATION FairSpec
CONSTANTS
    Refreshers = {run, caller}
    MonthlyBudget = 100
    TightPct = 80
    BreachedPct = 100
    SpendLevels <- MCSpendLevels
    MaxMonth = 2
    MaxErrors = 1
INVARIANTS
    HooksAtMostOnce
    SingleNeverCrosses
    LadderComplete
PROPERTIES
    OverspendHalves
    CacheSettles
