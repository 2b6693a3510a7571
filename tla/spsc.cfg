SPECIFICATION FairSpec
CONSTANTS
    N = 4
    Messages = {m1, m2}
    NoMsg = NoMsg
    Pushes = 8
INVARIANTS NoSlotRace RingInv
PROPERTIES FifoSpec Delivered
CHECK_DEADLOCK FALSE
