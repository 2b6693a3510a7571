SPECIFICATION FairSpec
CONSTANTS
    Prices = {1, 2, 3}
    Ids = {0, 1, 2}
    Qtys = {1, 2}
    MaxSubmits = 4
INVARIANTS TypeOK LookupExact TradesBounded
PROPERTIES PriceTime AddReturns
