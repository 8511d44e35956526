\* Provider calls, the chain stream, event order, route probes, curve quotes, learning evidence and
\* checkpoint turns, one part at a time.
SPECIFICATION MarketSpec
CONSTANTS
    Calls = {c1, c2}
    MonthlyLimit = 2
    Reserve = 1
    Burst = 2
    Delays = {2}
    MaxRequests = 3
    MaxChanges = 1
    MaxTicks = 1
    MaxGenerations = 2
    MaxFailures = 2
    MaxStarts = 2
    NormalCap = 2
    LimitFloor = 3
    LimitCap = 5
    MaxSlot = 2
    MaxDeliveries = 3
    MaxSnapshots = 1
    MaxPrunes = 1
    Pools = {1, 2}
    MaxPositions = 2
    MaxProbes = 3
    MaxChainSlot = 3
    MaxClock = 3
    MaxResets = 1
    ProbeMaxAge = 1
    AnswerMaxAge = 0
    BPS = 10
    Markets <- MCMarkets
    Schedules <- MCSchedules
    Budgets <- MCBudgets
    NetworkFee = 0
    MaxTrades = 3
    Horizons = {1, 3}
    Primary = 1
    CheckpointGrace = 1
    MaxAge = 4
    MaxCollectSeasons = 2
    MaxCollectErrors = 1
    MaxCollectRestarts = 1
    PolicyRoutes = {p1, p2}
    DiscoveryRoutes = {d1, d2}
    Budget = 2
    MaxCalls = 3
INVARIANTS
    WriteOffsAreProven
    TurnsAreFair
    NoFreeMoney
    MaximalInput
PROPERTIES
    QuotaHonoured
    StreamIsCurrent
    HealthImplemented
    TokenFollowsChain
    EvidenceIsSound
    VaultCovers
CHECK_DEADLOCK FALSE
