SPECIFICATION BenchSpec
CONSTANTS
    MaxOrders = 5
    MAX_PRICES = 4
    Qtys = {1, 2}
    MaxSubmits = 20
    Ops = {"submit", "cancel", "replace", "init"}
    Rules = {}
    Programs = {"sparse"}
    SparseLevels = 2
    SparseOrdersPerLevel = 1
    SparseRounds = 2
    WideOrders = 2
    WideSpread = 2
    ChurnOps = 4
    LiveOrders = 3
    NumOps = 2
    Margin = 1
INVARIANT SlotPartition
CHECK_DEADLOCK FALSE
