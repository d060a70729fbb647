CONSTANTS
    Orders = {1, 2}
    Rows = {1, 2}
    MaxEvents = 2
    NoEvent = NoEvent
    Workers = {w1}
    Limit = 100
    Buffer = 256
    MishapKinds = {"rebalance"}
    MaxMishaps = 1
SPECIFICATION FairSpec
PROPERTY AtLeastOnce
CHECK_DEADLOCK FALSE
