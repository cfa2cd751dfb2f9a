SPECIFICATION BacktestSpec
CONSTANTS
    Seed = 400
    MaxInterval = 2
    Adjustments <- MCAdjustments
    Bad = Bad
    RawConfigs <- MCRawConfigs
    Wired = {"momentum", "liquidity_provision", "cross_chain_yield", "liquidation_hunting"}
    Prices = {4, 5, 6}
    Lookback = 2
    MinSamples = 1
    HeadRoom = 1
    Roots = {2, 3}
    RateTables <- MCRateTables
    Protocols = {"kamino", "aave"}
    NumProtocols = 2
    Lendings <- MCLendings
    MaxLendings = 2
    MaxDay = 1
    NoDay = NoDay
    None = None
    Candidates <- MCCandidates
    PriceRows <- MCPriceRows
    PeriodEnd = 12
CHECK_DEADLOCK FALSE
INVARIANTS
    WindowComplete
    CapRespected
    SeizuresReported
    NoLookAhead
    PassedIsEarned
PROPERTIES
    BookRefined
    QuotaPerDay
