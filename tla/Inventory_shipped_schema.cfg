CONSTANTS
    Orders = {o1}
    MaxEvents = 2
    NoEvent = NoEvent
    Topics <- InventoryTopics
    FaultKinds = {}
    MaxFaults = 0
    Stocks = {1}
    Schemas = {{"RESERVED", "CONFIRMED", "CANCELED", "EXPIRED"}}
SPECIFICATION FairSpec
PROPERTY RefundRestores
CHECK_DEADLOCK FALSE
