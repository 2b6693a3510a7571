SPECIFICATION Spec
CONSTANTS
    BLOCK_SIZE = 3
    MAX_PRICES = 11
INVARIANTS SummaryInv FindExact
PROPERTY PriceSetSpec
