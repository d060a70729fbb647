CONSTANTS
    Orders = {o1}
    MaxEvents = 1
    NoEvent = NoEvent
    Topics <- OrderTopics
    ForeignTypes = {}
    Clients = {c1}
    FaultKinds = {"crash"}
    MaxFaults = 1
SPECIFICATION FairSpec
PROPERTY AckedIsAnnounced
CHECK_DEADLOCK FALSE
