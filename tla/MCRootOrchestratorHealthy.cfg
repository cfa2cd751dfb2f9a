SPECIFICATION FairSpec
CONSTANTS
    a1 = a1
    a2 = a2
    Agents <- MCAgents
    NumProposals = 1
    Class <- MCClass
    Parent <- MCParent
    Reserve <- MCReserve
    Rows <- HealthyRows
    Null = Null
    Cfg <- MCCfg
    BacktestReplies = {"passed", "failed"}
    MaxFaults = 0
PROPERTIES
    HealthyResumed
