SPECIFICATION Spec
CONSTANTS
    Parts = {"graph", "tracker", "digest"}
    Sources = {"a", "b"}
    Window = 2
    MinObservations = 1
    MaxOutcomes = 4
    MaxDigestOutcomes = 1
    Tuples = {"SOL-leads-ETH"}
    Scale = 20
    Strengths = {3, 12}
    DecayInterval = 2
    Channels <- MCChannels
    Signals <- MCSignals
    Subscribed <- MCSubscribed
    Entities = {"SOL", "ETH"}
    Graphs <- MCGraphs
    MaxSignals = 2
    MaxEdges = 2
    TokenBudget = 3
    Freshness = 1
    Stamps = {0, 1}
    OutCap = 1
    MaxMessages = 2
    Garbage = Garbage
    None = None
INVARIANTS
    ScoreWindow
    IndexExact
    AuditExact
PROPERTIES
    UnconfirmedForgotten
