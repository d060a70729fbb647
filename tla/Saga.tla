---------------------------------- MODULE Saga --------------------------------
(***************************************************************************)
(* The choreographed saga: the four services together.  Each is a process  *)
(* of its own with its own database, consumer group and idempotency store; *)
(* they share nothing but the events they publish (outbox stands for the   *)
(* four outbox tables) and this model's budget of faults.                  *)
(***************************************************************************)
EXTENDS Events

CONSTANTS Clients, FaultKinds, MaxFaults, Stocks, Schemas

ASSUME FaultKindsAssumption == FaultKinds \subseteq {"redis", "db", "redeliver", "crash"}
ASSUME MaxFaultsAssumption == MaxFaults \in Nat
ASSUME StocksAssumption == Stocks \subseteq Nat

VARIABLES
    outbox, faults,
    oMarked, oIdem, oClaim, oSnap, orders, client, acked,  \* order service
    pMarked, pIdem, pClaim, payments, charged, refunded,   \* payment service
    iMarked, iIdem, iClaim, iSnap, labels, inventory, reservations,\* inventory service
    dMarked, dIdem, dClaim, deliveries                     \* delivery service

orderOwn == <<oMarked, oIdem, oClaim, oSnap, orders, client, acked>>
paymentOwn == <<pMarked, pIdem, pClaim, payments, charged, refunded>>
inventoryOwn == <<iMarked, iIdem, iClaim, iSnap, labels, inventory, reservations>>
deliveryOwn == <<dMarked, dIdem, dClaim, deliveries>>

vars == <<outbox, faults, orderOwn, paymentOwn, inventoryOwn, deliveryOwn>>

(* DeliveryFailed has subscribers but no service publishes it. *)
OrderInputs == OrderTopics \ {DeliveryFailed}

Ord == INSTANCE OrderService WITH
            Topics <- OrderTopics, ForeignTypes <- OrderInputs,
            marked <- oMarked, idem <- oIdem, claim <- oClaim, snap <- oSnap

Pay == INSTANCE PaymentService WITH
            Topics <- PaymentTopics,
            marked <- pMarked, idem <- pIdem, claim <- pClaim

Inv == INSTANCE InventoryService WITH
            Topics <- InventoryTopics,
            marked <- iMarked, idem <- iIdem, claim <- iClaim, snap <- iSnap

Del == INSTANCE DeliveryService WITH
            Topics <- DeliveryTopics,
            marked <- dMarked, idem <- dIdem, claim <- dClaim

Init == Ord!Init /\ Pay!Init /\ Inv!Init /\ Del!Init

OrderStep     == Ord!Service /\ UNCHANGED <<paymentOwn, inventoryOwn, deliveryOwn>>
PaymentStep   == Pay!Service /\ UNCHANGED <<orderOwn, inventoryOwn, deliveryOwn>>
InventoryStep == Inv!Service /\ UNCHANGED <<orderOwn, paymentOwn, deliveryOwn>>
DeliveryStep  == Del!Service /\ UNCHANGED <<orderOwn, paymentOwn, inventoryOwn>>

Next == OrderStep \/ PaymentStep \/ InventoryStep \/ DeliveryStep

Spec == Init /\ [][Next]_vars

(* The fairness of the four services. *)
Fairness ==
    /\ \A c \in Clients :
          WF_vars(Ord!Answer(c) /\ UNCHANGED <<paymentOwn, inventoryOwn, deliveryOwn>>)
    /\ \A t \in OrderTopics :
          WF_vars(Ord!Serve(t) /\ UNCHANGED <<paymentOwn, inventoryOwn, deliveryOwn>>)
    /\ \A t \in PaymentTopics :
          WF_vars(Pay!Serve(t) /\ UNCHANGED <<orderOwn, inventoryOwn, deliveryOwn>>)
    /\ \A t \in InventoryTopics :
          WF_vars(Inv!Serve(t) /\ UNCHANGED <<orderOwn, paymentOwn, deliveryOwn>>)
    /\ WF_vars(Del!Consume /\ UNCHANGED <<orderOwn, paymentOwn, inventoryOwn>>)

FairSpec == Spec /\ Fairness

-------------------------------------------------------------------------------
(* Each service, next to the others, is the service of its own module: the *)
(* others' steps are steps of the environment that the module allows.      *)

Visible(types) == {e \in outbox : e.type \in types}

(* The events that a service hears of or publishes itself. *)
OrderTypes     == OrderTopics \cup {OrderCreated}
PaymentTypes   == PaymentTopics \cup {PaymentCompleted, PaymentFailed, PaymentRefunded}
InventoryTypes == InventoryTopics \cup {StockReserved, StockReservationFailed, StockRestored}
DeliveryTypes  == DeliveryTopics \cup {DeliveryStarted}

OrdView == INSTANCE OrderService WITH
            Topics <- OrderTopics, ForeignTypes <- OrderInputs,
            outbox <- Visible(OrderTypes),
            marked <- oMarked, idem <- oIdem, claim <- oClaim, snap <- oSnap

PayView == INSTANCE PaymentService WITH
            Topics <- PaymentTopics,
            outbox <- Visible(PaymentTypes),
            marked <- pMarked, idem <- pIdem, claim <- pClaim

InvView == INSTANCE InventoryService WITH
            Topics <- InventoryTopics,
            outbox <- Visible(InventoryTypes),
            marked <- iMarked, idem <- iIdem, claim <- iClaim, snap <- iSnap

DelView == INSTANCE DeliveryService WITH
            Topics <- DeliveryTopics,
            outbox <- Visible(DeliveryTypes),
            marked <- dMarked, idem <- dIdem, claim <- dClaim

(* The saga implements each service's specification. *)
OrderImplemented     == OrdView!Spec
PaymentImplemented   == PayView!Spec
InventoryImplemented == InvView!Spec
DeliveryImplemented  == DelView!Spec

-------------------------------------------------------------------------------
(* Properties across services. *)

Announced(type, o) == \E e \in outbox : e.type = type /\ e.order = o

(* Nothing is shipped that is not paid for and taken from stock, and what  *)
(* is shipped is neither refunded nor put back on the shelf later.         *)
DeliveredIsPaid ==
    \A o \in deliveries : payments[o] = "COMPLETED" /\ reservations[o] = "RESERVED"

(* For every order, the types of the events announced about it. *)
Told == [o \in Orders |-> {e.type : e \in {x \in outbox : x.order = o}}]

(* The events of an order tell the story of Choreography: every verdict in *)
(* its place, and delivery and refund exclude each other, whatever is      *)
(* delivered again, fails or crashes in whichever service.                 *)
Story == INSTANCE Choreography WITH story <- Told

ChoreographyImplemented == Story!StorySpec

(* Goods or money, never both: an order that inventory's table holds a     *)
(* reservation for is one that the gateway has not refunded.  The two      *)
(* records are kept by two services, and a duplicate of PaymentCompleted   *)
(* makes inventory decide again about an order that it has decided.        *)
GoodsOrMoney ==
    \A o \in Orders : reservations[o] = "RESERVED" => refunded[o] = 0

(* What the customer reads is true: a COMPLETED order has been delivered,  *)
(* a FAILED order has not been and will not be.                            *)
StatusIsTrue ==
    \A o \in Orders :
        /\ orders[o].status = "COMPLETED" => o \in deliveries
        /\ orders[o].status = "FAILED" => ~ Announced(StockReserved, o)

(* A CANCELED order does not leave the customer charged: what the gateway  *)
(* has taken it has given back, except for one charge for every time that  *)
(* OrderCreated may have come again.  The handler reports a decline as an  *)
(* error, so the key of the message is not reserved and a duplicate of it  *)
(* tries the payment again; it must not be tried more often than that.     *)
CanceledIsNotCharged ==
    \A o \in Orders :
        orders[o].status = "CANCELED" =>
            charged[o] <= refunded[o] + faults.redeliver + faults.crash

(* Every saga that starts ends, unless a database error or a crash stopped *)
(* a handler in the middle: the order is delivered, or its payment was     *)
(* declined, or it was refunded.                                           *)
SagaEnds ==
    \A o \in Orders :
        Announced(OrderCreated, o) ~>
            \/ o \in deliveries
            \/ Announced(PaymentFailed, o)
            \/ Announced(PaymentRefunded, o)
            \/ faults.db + faults.crash > 0

(* The order notices: once its payment has a verdict it does not stay      *)
(* PENDING, unless a database error made a handler give up.                *)
VerdictIsNoticed ==
    \A o \in Orders :
        Announced(PaymentCompleted, o) \/ Announced(PaymentFailed, o) ~>
            orders[o].status # "PENDING" \/ faults.db > 0

-------------------------------------------------------------------------------
(* What the documentation promises and the code does not keep. *)

(* README, success flow: a delivered order becomes COMPLETED.              *)
DeliveredCompletes ==
    \A o \in Orders : o \in deliveries ~> orders[o].status = "COMPLETED"

(* README, failure flow: an order whose stock is refused becomes CANCELED  *)
(* or FAILED.                                                              *)
RefusedFails ==
    \A o \in Orders :
        Announced(StockReservationFailed, o) ~>
            orders[o].status \in {"CANCELED", "FAILED"}

===============================================================================
