SPECIFICATION FairSpec
CONSTANTS
    Refreshers = {run}
    MonthlyBudget = 100
    TightPct = 80
    BreachedPct = 100
    SpendLevels <- MCSpendLevels
    MaxMonth = 1
    MaxErrors = 1
PROPERTIES
    TightActionsInPlace
