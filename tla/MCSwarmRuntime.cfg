SPECIFICATION FairSpec
CONSTANTS
    a1 = a1
    a2 = a2
    Agents <- MCAgents
    Rows <- MCRows
    Broken = {}
    Holders = {a1}
    NoAgent = NoAgent
    MaxSlots = 2
    MaxMoves = 3
INVARIANTS
    NoOrphanRunner
    QuiescentAgreement
    FlatWhenDone
PROPERTIES
    KillDelivered
    ShutdownCompletes
