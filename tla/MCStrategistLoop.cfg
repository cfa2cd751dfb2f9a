SPECIFICATION Spec
CONSTANTS
    Nodes = {"funded", "shadow"}
    Shadows = {"shadow"}
    Anchor <- MCAnchor
    MaxLLM = 1
    Interval = 3
    AwakeWindow = 2
    Responses <- MCResponses
    Known = {"entry", "interval"}
    Refused = Refused
    None = None
INVARIANTS
    RowsTellWhatLanded
PROPERTIES
    WaitersServed
    StrategistKeepsRunning
