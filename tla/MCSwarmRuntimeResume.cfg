SPECIFICATION FairSpec
CONSTANTS
    a1 = a1
    a2 = a2
    Agents <- MCAgents
    Rows <- PausedRows
    Broken = {}
    Holders = {a1}
    NoAgent = NoAgent
    MaxSlots = 2
    MaxMoves = 1
PROPERTIES
    ResumeRestores
