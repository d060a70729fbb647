CONSTANTS
    Orders = {o1}
    MaxEvents = 1
    NoEvent = NoEvent
    Clients = {c1}
    Schemas = {{"RESERVED", "CONFIRMED", "CANCELED", "EXPIRED"}}
    FaultKinds = {}
    MaxFaults = 0
    Stocks = {1}
SPECIFICATION FairSpec
PROPERTY DeliveredCompletes
CHECK_DEADLOCK FALSE
