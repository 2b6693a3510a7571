SPECIFICATION BenchFairSpec
CONSTANTS
    MaxOrders = 5
    MAX_PRICES = 6
    Qtys = {1, 2}
    MaxSubmits = 20
    Ops = {"submit", "cancel", "replace", "init"}
    Rules = {}
    Programs = {"sparse", "seed A"}
    SparseLevels = 2
    SparseOrdersPerLevel = 1
    SparseRounds = 2
    WideOrders = 2
    WideSpread = 2
    ChurnOps = 3
    LiveOrders = 3
    NumOps = 2
    Margin = 1
INVARIANTS NoTrade SameBook SweptEmpty
PROPERTY Finishes
CHECK_DEADLOCK FALSE
