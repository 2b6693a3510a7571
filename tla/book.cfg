SPECIFICATION FairSpec
CONSTANTS
    MaxOrders = 3
    MAX_PRICES = 2
    Qtys = {1, 2}
    MaxSubmits = 4
    Ops = {"submit", "cancel", "replace", "init"}
    Rules = {"unused_ids", "known_ids", "no_promoted_head", "price_range", "lowest_id"}
INVARIANTS TypeOK SlotPartition LevelLists IndexExact IdMapExact InBounds
PROPERTIES SubmitReturns OnlyReplaceCrosses PriceTime
