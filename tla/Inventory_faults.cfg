CONSTANTS
    Orders = {o1, o2}
    MaxEvents = 2
    NoEvent = NoEvent
    Topics <- InventoryTopics
    FaultKinds = {"redis", "db", "redeliver", "crash"}
    MaxFaults = 1
    Stocks = {1}
    Schemas = {{"RESERVED", "CONFIRMED", "CANCELED", "EXPIRED"},
               {"RESERVED", "CONFIRMED", "CANCELLED", "EXPIRED"}}
SPECIFICATION FairSpec
INVARIANTS TypeOK StockConserved ReservationAnnounced
PROPERTIES RefusedOnlyWhenSoldOut PaidGetsAnswer RefundRestoresIfKnown
CHECK_DEADLOCK FALSE
