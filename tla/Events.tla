-------------------------------- MODULE Events --------------------------------
(***************************************************************************)
(* The messages of the saga: event types (which are also the Kafka topics) *)
(* and the events that the services publish about orders.  A payload is    *)
(* abstracted to the order it is about and to the identity of the event.   *)
(***************************************************************************)
EXTENDS Integers, FiniteSets

CONSTANTS
    Orders,     \* the orders: one per idempotency key a client may send
    MaxEvents,  \* bound on the events of one type published about one order
    NoEvent     \* the value "no message in hand"

ASSUME OrdersAssumption == IsFiniteSet(Orders)
ASSUME MaxEventsAssumption == MaxEvents \in Nat \ {0}

OrderCreated           == "order.created.v1"
PaymentCompleted       == "payment.completed.v1"
PaymentFailed          == "payment.failed.v1"
PaymentRefunded        == "payment.refunded.v1"
StockReserved          == "stock.reserved.v1"
StockReservationFailed == "stock.reservation_failed.v1"
StockRestored          == "stock.restored.v1"
DeliveryStarted        == "delivery.started.v1"
DeliveryFailed         == "delivery.failed.v1"

(* order.completed, order.canceled and order.failed exist as constants of  *)
(* the Go package only: no service publishes or subscribes to them.        *)
EventType == {OrderCreated, PaymentCompleted, PaymentFailed, PaymentRefunded,
              StockReserved, StockReservationFailed, StockRestored,
              DeliveryStarted, DeliveryFailed}

(* The EventID is a fresh UUID in the code; here it counts the events of   *)
(* one type about one order.                                               *)
Event == [type : EventType, order : Orders, id : 1 .. MaxEvents]

(* The subscriptions of the four consumer groups. *)
OrderTopics     == {PaymentCompleted, PaymentFailed, StockReserved,
                    StockReservationFailed, DeliveryStarted, DeliveryFailed}
PaymentTopics   == {OrderCreated, StockReservationFailed}
InventoryTopics == {PaymentCompleted, PaymentRefunded}
DeliveryTopics  == {StockReserved}

ASSUME NoEventAssumption == NoEvent \notin Event

===============================================================================
