CONSTANTS
    Orders = {o1}
    MaxEvents = 3
    NoEvent = NoEvent
    Clients = {c1}
    Schemas = {{"RESERVED", "CONFIRMED", "CANCELED", "EXPIRED"}}
    FaultKinds = {"redis", "db", "redeliver", "crash"}
    MaxFaults = 2
    Stocks = {2}
SPECIFICATION Spec
INVARIANTS DeliveredIsPaid StatusIsTrue
PROPERTIES OrderImplemented PaymentImplemented InventoryImplemented DeliveryImplemented
CHECK_DEADLOCK FALSE
