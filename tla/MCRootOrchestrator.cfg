SPECIFICATION FairSpec
CONSTANTS
    a1 = a1
    a2 = a2
    Agents <- MCAgents
    NumProposals = 1
    Class <- MCClass
    Parent <- MCParent
    Reserve <- MCReserve
    Rows <- MCRows
    Null = Null
    Cfg <- MCCfg
    BacktestReplies = {"passed", "failed"}
    MaxFaults = 2
INVARIANTS
    PostmortemsMatchDeaths
    ProposalRowsConsistent
    LoggedCountsExact
PROPERTIES
    DeadIsFinal
    DecisionsFinal
    UnfitEventuallyDead
