CONSTANTS
    Orders = {o1}
    MaxEvents = 1
    NoEvent = NoEvent
    Clients = {c1}
    Schemas = {{"RESERVED", "CONFIRMED", "CANCELED", "EXPIRED"}}
    FaultKinds = {}
    MaxFaults = 0
    Stocks = {0}
SPECIFICATION FairSpec
PROPERTY RefusedFails
CHECK_DEADLOCK FALSE
