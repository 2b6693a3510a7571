SPECIFICATION FairSpec
CONSTANTS
    MaxOrders = 3
    MAX_PRICES = 3
    Qtys = {1, 2}
    MaxSubmits = 3
    Ops = {"submit", "cancel", "init"}
    Rules = {"unused_ids", "known_ids", "no_promoted_head", "lowest_id"}
INVARIANTS TypeOK ScanInv
PROPERTIES LossExact ImplementsBitsetBook InnerReturns
