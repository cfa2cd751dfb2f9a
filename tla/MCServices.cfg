SPECIFICATION Spec
CONSTANTS
    Running = {"notifier", "hub", "prices"}
    HourlyCap = 2
    Hour = 3
    Cooldown = 1
    EventTypes = {"circuit_breaker", "agent_killed", "agent_spawned", "daily_digest"}
    Messages <- MCMessages
    InboxCap = 1
    DayLength = 3
    DigestHour = 1
    MaxDay = 2
    MaxRestarts = 1
    None = None
    Clients = {"c1", "c2"}
    SendCap = 1
    MaxMessages = 3
    NoMessage = NoMessage
    Pairs = {"sol/usdc"}
    Readers = {"t1", "t2"}
    TTL = 2
    Timeout = 2
    NoPair = NoPair
CHECK_DEADLOCK FALSE
INVARIANTS
    HourlyBound
    DigestOncePerDay
    NoGapUnlessDropped
    QuoteAgeBounded
    InvalidateForgets
PROPERTIES
    ClientsLeave
