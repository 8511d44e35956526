SPECIFICATION Spec
CONSTANTS
    Mints = {m1, m2}
    OrderIds = {1, 2, 3}
    MaxTime = 2
    MaxSeasons = 1
    EntryLatency = 1
    ExitLatency = 0
    StuckAfter = 0
    MaxOpen = 2
    Bankrolls = {9}
    Costs = {2, 5}
    Repriced = FALSE
    BuyTotals = {4}
    NetworkFee = 1
    SellGross = {2, 6}
    ExitFees = 1
    FaultySeasons = {}
SYMMETRY MintSymmetry
INVARIANTS
    BooksReconcile
    OrdersAreUnique
    ReservationsFunded
    FillsAuditClean
