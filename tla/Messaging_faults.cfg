CONSTANTS
    Orders = {1, 2}
    Rows = {1, 2}
    MaxEvents = 2
    NoEvent = NoEvent
    Workers = {w1, w2}
    Limit = 1
    Buffer = 1
    MishapKinds = {"publish", "markSent", "relayDies", "redis", "db", "commit", "rebalance", "crash"}
    MaxMishaps = 2
SPECIFICATION FairSpec
INVARIANTS TypeOK SentIsPublished SkippedOnlyOnFailure DeliveryAnnounced
PROPERTIES ReservedIsDelivered ServiceImplemented
CHECK_DEADLOCK FALSE
