CONSTANTS
    Orders = {o1}
    MaxEvents = 3
    NoEvent = NoEvent
    Topics <- PaymentTopics
    FaultKinds = {"redis", "db", "redeliver", "crash"}
    MaxFaults = 3
SPECIFICATION FairSpec
INVARIANTS TypeOK OneVerdict VerdictBacked GatewayOnce
PROPERTIES OrderGetsVerdict RefusedIsRefunded
CHECK_DEADLOCK FALSE
