SPECIFICATION Spec
CONSTANTS
    MaxOrders = 3
    MAX_PRICES = 2
    Qtys = {1, 2}
    MaxSubmits = 3
    Ops = {"submit", "cancel", "replace"}
    Rules = {"unused_ids", "no_promoted_head", "price_range"}
PROPERTY InvalidIdIsNoop
