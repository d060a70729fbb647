CONSTANTS
    Orders = {o1}
    MaxEvents = 2
    NoEvent = NoEvent
    Topics <- OrderTopics
    ForeignTypes = {"payment.completed.v1", "stock.reserved.v1",
                    "stock.reservation_failed.v1", "delivery.started.v1"}
    Clients = {c1, c2}
    FaultKinds = {"redis", "db", "redeliver", "crash"}
    MaxFaults = 2
SPECIFICATION Spec
SYMMETRY Symmetry
INVARIANTS TypeOK OneOrderCreated StatusBacked
PROPERTY FailedIsFinal
CHECK_DEADLOCK FALSE
