SPECIFICATION Spec
CONSTANTS
    Mints = {m1}
    OrderIds = {1, 2}
    MaxTime = 2
    MaxSeasons = 2
    EntryLatency = 0
    ExitLatency = 1
    StuckAfter = 0
    MaxOpen = 1
    Bankrolls = {4}
    Costs = {3, 5}
    Repriced = TRUE
    BuyTotals = {3, 5}
    NetworkFee = 1
    SellGross = {2}
    ExitFees = 1
    FaultySeasons = {1}
INVARIANTS
    FundsReconcile
    MemoryFollowsDatabase
    StoppedHasNoEntry
PROPERTIES
    HoldingsEndure
