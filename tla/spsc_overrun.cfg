SPECIFICATION Spec
CONSTANTS
    N = 4
    Messages = {m1, m2}
    NoMsg = NoMsg
    Pushes = 9
INVARIANT NoSlotRace
CHECK_DEADLOCK FALSE
