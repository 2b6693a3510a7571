SPECIFICATION FairSpec
CONSTANTS
    MaxOrders = 3
    MAX_PRICES = 3
    Qtys = {1, 2}
    MaxSubmits = 3
    Ops = {"submit", "cancel", "init"}
    Rules = {"unused_ids", "known_ids", "no_promoted_head", "price_range", "lowest_id"}
PROPERTY SubmitReturns
