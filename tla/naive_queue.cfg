SPECIFICATION FairSpec
CONSTANTS
    Producers = {p1, p2}
    Consumers = {c1, c2}
    Messages = {m1, m2}
    Pushes = 2
INVARIANT NoLostWakeup
PROPERTIES FifoSpec Delivered
