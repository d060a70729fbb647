CONSTANTS
    Orders = {o1}
    MaxEvents = 2
    NoEvent = NoEvent
    Clients = {c1}
    Schemas = {{"RESERVED", "CONFIRMED", "CANCELED", "EXPIRED"}}
    FaultKinds = {"redis", "db", "redeliver", "crash"}
    MaxFaults = 1
    Stocks = {0, 1}
SPECIFICATION FairSpec
INVARIANTS CanceledIsNotCharged GoodsOrMoney
PROPERTIES SagaEnds VerdictIsNoticed ChoreographyImplemented
CHECK_DEADLOCK FALSE
