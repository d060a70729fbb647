------------------------------ MODULE SagaProofs ------------------------------
(***************************************************************************)
(* The saga as a whole, for every set of orders and clients, every stock,  *)
(* every schema and every bound on events and faults: what is delivered is *)
(* paid, no order has both its goods and its money back, the status is     *)
(* true, the saga tells the story of Choreography, and each of the four    *)
(* services is in it what it is alone: what OrderService, PaymentService,  *)
(* InventoryService and DeliveryService assume of the others is what those *)
(* do.                                                                     *)
(***************************************************************************)
EXTENDS Saga, TLAPS

USE DEF OrderCreated, PaymentCompleted, PaymentFailed, PaymentRefunded, StockReserved,
        StockReservationFailed, StockRestored, DeliveryStarted, DeliveryFailed,
        Ord!OrderCreated, Ord!PaymentCompleted, Ord!PaymentFailed, Ord!StockReserved,
        Ord!StockReservationFailed, Ord!DeliveryStarted, Ord!DeliveryFailed,
        Pay!OrderCreated, Pay!PaymentCompleted, Pay!PaymentFailed, Pay!PaymentRefunded,
        Pay!StockReservationFailed,
        Inv!PaymentCompleted, Inv!PaymentRefunded, Inv!StockReserved,
        Inv!StockReservationFailed, Inv!StockRestored,
        Del!StockReserved, Del!DeliveryStarted,
        Story!OrderCreated, Story!PaymentCompleted, Story!PaymentFailed,
        Story!PaymentRefunded, Story!StockReserved, Story!StockReservationFailed,
        Story!StockRestored, Story!DeliveryStarted

-------------------------------------------------------------------------------
(* The invariant. *)

(* Every busy handler has a committed event of its topic in hand. *)
OrderHolds ==
    /\ oClaim \in [OrderTopics -> [pc : Ord!PCs, event : Event \cup {NoEvent}]]
    /\ \A t \in OrderTopics :
          oClaim[t].pc # "idle" => oClaim[t].event \in outbox /\ oClaim[t].event.type = t

PaymentHolds ==
    /\ pClaim \in [PaymentTopics -> [pc : Pay!PCs, event : Event \cup {NoEvent}]]
    /\ \A t \in PaymentTopics :
          pClaim[t].pc # "idle" => pClaim[t].event \in outbox /\ pClaim[t].event.type = t

InventoryHolds ==
    /\ iClaim \in [InventoryTopics -> [pc : Inv!PCs, event : Event \cup {NoEvent}]]
    /\ \A t \in InventoryTopics :
          iClaim[t].pc # "idle" => iClaim[t].event \in outbox /\ iClaim[t].event.type = t

Refused(o) == Announced(StockReservationFailed, o)

(* The payments table knows who paid, and only refused orders are refunded. *)
PaymentsTell ==
    /\ payments \in [Orders -> {"NONE", "COMPLETED", "REFUNDED"}]
    /\ pClaim[OrderCreated].pc = "commit" => payments[pClaim[OrderCreated].event.order] # "NONE"
    /\ \A o \in Orders :
          /\ Announced(PaymentCompleted, o) => payments[o] # "NONE"
          /\ payments[o] = "REFUNDED" \/ Announced(PaymentRefunded, o) => Refused(o)

(* Once an order was refused the stock is gone for good: nothing is ever   *)
(* restored, because no refunded order holds a reservation.                *)
StockTells ==
    /\ reservations \in [Orders -> {"NONE", "RESERVED"}]
    /\ inventory \in Inv!Row /\ iSnap \in [InventoryTopics -> Inv!Row]
    /\ iClaim[PaymentRefunded].pc # "locked"
    /\ iClaim[PaymentCompleted].pc = "locked" =>
          /\ iSnap[PaymentCompleted] = inventory
          /\ reservations[iClaim[PaymentCompleted].event.order] = "NONE"
    /\ \A o \in Orders :
          /\ Announced(StockReserved, o) <=> reservations[o] = "RESERVED"
          /\ Announced(StockReserved, o) => Announced(PaymentCompleted, o)
          /\ Refused(o) => reservations[o] = "NONE" /\ ~ (inventory.available >= Inv!Quantity)
          /\ ~ Announced(StockRestored, o)

DeliveriesTell ==
    /\ deliveries \subseteq Orders
    /\ \A o \in Orders :
          /\ o \in deliveries <=> Announced(DeliveryStarted, o)
          /\ o \in deliveries => Announced(StockReserved, o)

(* The order service writes what it has heard. *)
StatusTells ==
    /\ client \in [Clients -> [pc : {"idle"}, order : {NoEvent}]
                              \cup [pc : {"create", "commit"}, order : Orders]]
    /\ orders \in [Orders -> [status : Ord!Status \cup {"NONE"}, version : Nat]]
    /\ oSnap \in [OrderTopics -> Nat]
    /\ \A o \in Orders :
          /\ orders[o].status = "COMPLETED" => o \in deliveries
          /\ orders[o].status = "FAILED" => Refused(o)
          /\ orders[o].status = "CANCELED" => Announced(PaymentFailed, o)
          /\ ~ Announced(DeliveryFailed, o)

Holds == outbox \subseteq Event /\ OrderHolds /\ PaymentHolds /\ InventoryHolds

SInv == Holds /\ PaymentsTell /\ StockTells /\ DeliveriesTell /\ StatusTells

LEMMA InitSInv == Init => SInv
BY NoEventAssumption, StocksAssumption
DEF Init, Ord!Init, Pay!Init, Inv!Init, Del!Init, Ord!ChannelInit, Pay!ChannelInit,
    Inv!ChannelInit, Del!ChannelInit, Ord!Idle, Pay!Idle, Inv!Idle, Ord!NoRow,
    Inv!NothingRead, Inv!Row, Ord!PCs, Pay!PCs, Inv!PCs, OrderTopics, PaymentTopics,
    InventoryTopics, SInv, Holds, OrderHolds, PaymentHolds, InventoryHolds, PaymentsTell,
    StockTells, DeliveriesTell, StatusTells, Announced, Refused

(* What the invariant is for. *)
LEMMA InvariantSuffices == SInv => DeliveredIsPaid /\ StatusIsTrue
<1> SUFFICES ASSUME SInv PROVE DeliveredIsPaid /\ StatusIsTrue
    OBVIOUS
<1>1. DeliveredIsPaid
    BY DEF DeliveredIsPaid, SInv, PaymentsTell, StockTells, DeliveriesTell
<1>2. StatusIsTrue
    BY DEF StatusIsTrue, SInv, StatusTells, StockTells
<1> QED BY <1>1, <1>2

-------------------------------------------------------------------------------
(* What a step announces. *)

Publishes(type, o) ==
    \E n \in 1 .. MaxEvents :
        LET ev(k) == [type |-> type, order |-> o, id |-> k] IN
        /\ ev(n) \notin outbox
        /\ \A k \in 1 .. n - 1 : ev(k) \in outbox
        /\ outbox' = outbox \cup {ev(n)}

LEMMA SendPublishes ==
    ASSUME NEW type, NEW o,
           Ord!Send(type, o) \/ Pay!Send(type, o) \/ Inv!Send(type, o) \/ Del!Send(type, o)
    PROVE  Publishes(type, o)
BY DEF Publishes, Ord!Send, Pay!Send, Inv!Send, Del!Send

LEMMA PublishAnnounces ==
    ASSUME outbox \subseteq Event, NEW type \in EventType, NEW o \in Orders,
           Publishes(type, o)
    PROVE  /\ outbox \subseteq outbox' /\ outbox' \subseteq Event
           /\ \A other, p : Announced(other, p)'
                 <=> Announced(other, p) \/ (other = type /\ p = o)
<1>1. PICK n \in 1 .. MaxEvents :
         outbox' = outbox \cup {[type |-> type, order |-> o, id |-> n]}
    BY DEF Publishes
<1> DEFINE new == [type |-> type, order |-> o, id |-> n]
<1>2. new \in Event /\ new.type = type /\ new.order = o
    BY DEF Event
<1> HIDE DEF new
<1>3. outbox' = outbox \cup {new}
    BY <1>1 DEF new
<1> QED BY <1>2, <1>3 DEF Announced

(* Nothing, or one event with its grounds. *)
OrderAnnounces ==
    UNCHANGED outbox \/ \E o \in Orders : Publishes(OrderCreated, o)

PaymentAnnounces ==
    \/ UNCHANGED outbox
    \/ \E o \in Orders :
          \/ Announced(OrderCreated, o)
                /\ (Publishes(PaymentCompleted, o) \/ Publishes(PaymentFailed, o))
          \/ Refused(o) /\ Publishes(PaymentRefunded, o)

InventoryAnnounces ==
    \/ UNCHANGED outbox
    \/ \E o \in Orders :
          /\ Announced(PaymentCompleted, o)
          /\ \/ ~ Refused(o) /\ Publishes(StockReserved, o)
             \/ ~ Announced(StockReserved, o) /\ Publishes(StockReservationFailed, o)

DeliveryAnnounces ==
    \/ UNCHANGED outbox
    \/ \E o \in Orders : Announced(StockReserved, o) /\ Publishes(DeliveryStarted, o)

(* The handlers go on holding what they hold while the outbox grows. *)
Grows == outbox \subseteq Event /\ outbox \subseteq outbox' /\ outbox' \subseteq Event

LEMMA OrderHoldsOn ==
    ASSUME OrderHolds, Grows,
           \/ UNCHANGED oClaim
           \/ \E t \in OrderTopics, pc \in Ord!PCs : oClaim[t].pc # "idle" /\ Ord!Goto(t, pc)
           \/ \E t \in OrderTopics, pc \in Ord!PCs : \E e : Ord!Begin(t, e, pc)
           \/ \E t \in OrderTopics : \E e : Ord!MarkMessage(t, e)
           \/ Ord!CrashClaims
    PROVE  OrderHolds'
BY DEF Grows, OrderHolds, Ord!Goto, Ord!Begin, Ord!MarkMessage, Ord!CrashClaims, Ord!Idle,
       Ord!Delivered, Ord!PCs

LEMMA PaymentHoldsOn ==
    ASSUME PaymentHolds, Grows,
           \/ UNCHANGED pClaim
           \/ \E t \in PaymentTopics, pc \in Pay!PCs : pClaim[t].pc # "idle" /\ Pay!Goto(t, pc)
           \/ \E t \in PaymentTopics, pc \in Pay!PCs : \E e : Pay!Begin(t, e, pc)
           \/ \E t \in PaymentTopics : \E e : Pay!MarkMessage(t, e)
           \/ Pay!CrashClaims
    PROVE  PaymentHolds'
BY DEF Grows, PaymentHolds, Pay!Goto, Pay!Begin, Pay!MarkMessage, Pay!CrashClaims, Pay!Idle,
       Pay!Delivered, Pay!PCs

LEMMA InventoryHoldsOn ==
    ASSUME InventoryHolds, Grows,
           \/ UNCHANGED iClaim
           \/ \E t \in InventoryTopics, pc \in Inv!PCs : iClaim[t].pc # "idle" /\ Inv!Goto(t, pc)
           \/ \E t \in InventoryTopics, pc \in Inv!PCs : \E e : Inv!Begin(t, e, pc)
           \/ \E t \in InventoryTopics : \E e : Inv!MarkMessage(t, e)
           \/ Inv!CrashClaims
    PROVE  InventoryHolds'
BY DEF Grows, InventoryHolds, Inv!Goto, Inv!Begin, Inv!MarkMessage, Inv!CrashClaims, Inv!Idle,
       Inv!Delivered, Inv!PCs

-------------------------------------------------------------------------------
(* What a step leaves alone stays true while others announce. *)

(* No new event of these types. *)
Silent(types) ==
    \A o \in Orders, type \in types : Announced(type, o)' => Announced(type, o)

LEMMA PaymentsQuiet ==
    ASSUME PaymentsTell, outbox \subseteq outbox', UNCHANGED payments,
           Silent({PaymentCompleted, PaymentRefunded}),
           pClaim'[OrderCreated] = pClaim[OrderCreated] \/ pClaim'[OrderCreated].pc # "commit"
    PROVE  PaymentsTell'
BY DEF PaymentsTell, Silent, Announced, Refused

LEMMA StockQuiet ==
    ASSUME StockTells, outbox \subseteq outbox', UNCHANGED <<reservations, inventory>>,
           Silent({StockReserved, StockReservationFailed, StockRestored}),
           iSnap' \in [InventoryTopics -> Inv!Row],
           \/ UNCHANGED <<iClaim, iSnap>>
           \/ \A t \in InventoryTopics : iClaim'[t].pc # "locked"
           \/ UNCHANGED iClaim /\ iSnap'[PaymentCompleted] = iSnap[PaymentCompleted]
    PROVE  StockTells'
BY DEF StockTells, Silent, Announced, Refused, InventoryTopics

LEMMA DeliveriesQuiet ==
    ASSUME DeliveriesTell, outbox \subseteq outbox', UNCHANGED deliveries,
           Silent({DeliveryStarted})
    PROVE  DeliveriesTell'
BY DEF DeliveriesTell, Silent, Announced

LEMMA StatusQuiet ==
    ASSUME StatusTells, outbox \subseteq outbox', UNCHANGED <<client, orders, oSnap>>,
           deliveries \subseteq deliveries', Silent({DeliveryFailed})
    PROVE  StatusTells'
BY DEF StatusTells, Silent, Announced, Refused

-------------------------------------------------------------------------------
(* The payment service. *)

LEMMA PaymentInHand ==
    ASSUME Holds, NEW t \in PaymentTopics, pClaim[t].pc # "idle"
    PROVE  /\ pClaim[t].event.order \in Orders
           /\ Announced(t, pClaim[t].event.order)
BY DEF Holds, PaymentHolds, Announced, Event

(* The steps of the consumer and the failures: nothing is written. *)
LEMMA PaymentConsumes ==
    ASSUME SInv, UNCHANGED <<outbox, Pay!paymentVars>>,
           \/ \E t \in PaymentTopics, pc \in Pay!PCs \ {"commit"} :
                 pClaim[t].pc # "idle" /\ Pay!Goto(t, pc)
           \/ \E t \in PaymentTopics, pc \in Pay!PCs \ {"commit"} : \E e : Pay!Begin(t, e, pc)
           \/ \E t \in PaymentTopics : \E e : Pay!MarkMessage(t, e)
           \/ UNCHANGED pClaim
           \/ Pay!CrashClaims
    PROVE  PaymentHolds' /\ PaymentsTell'
<1>1. Grows /\ PaymentHolds /\ PaymentsTell
    BY DEF SInv, Holds, Grows
<1>2. PaymentHolds'
    BY <1>1, PaymentHoldsOn
<1>3. pClaim'[OrderCreated] = pClaim[OrderCreated] \/ pClaim'[OrderCreated].pc # "commit"
    BY <1>1 DEF PaymentHolds, Pay!Goto, Pay!Begin, Pay!MarkMessage, Pay!CrashClaims, Pay!Idle,
                PaymentTopics
<1>4. Silent({PaymentCompleted, PaymentRefunded}) /\ UNCHANGED payments
    BY DEF Silent, Announced, Pay!paymentVars
<1> QED BY <1>1, <1>2, <1>3, <1>4, PaymentsQuiet DEF Grows

(* The handlers' own steps on the order in hand. *)
LEMMA PaymentWrites ==
    ASSUME SInv, NEW o \in Orders,
           \/ Pay!PaymentStep(o) /\ o = pClaim[OrderCreated].event.order
           \/ Pay!RefundStep(o) /\ o = pClaim[StockReservationFailed].event.order
    PROVE  PaymentAnnounces /\ PaymentHolds' /\ PaymentsTell'
<1>1. Holds /\ PaymentHolds /\ PaymentsTell /\ outbox \subseteq Event
    BY DEF SInv, Holds
<1>2. {OrderCreated, StockReservationFailed} = PaymentTopics
      /\ {"create", "commit", "update", "commitRefund", "finish", "drop"} \subseteq Pay!PCs
      /\ {PaymentCompleted, PaymentFailed, PaymentRefunded} \subseteq EventType
    BY DEF PaymentTopics, Pay!PCs, EventType
<1>3. Pay!PaymentStep(o) /\ o = pClaim[OrderCreated].event.order => Announced(OrderCreated, o)
    BY <1>1, <1>2, PaymentInHand
    DEF Pay!PaymentStep, Pay!Charge, Pay!Decline, Pay!CreatePayment, Pay!CommitPayment
<1>4. Pay!RefundStep(o) /\ o = pClaim[StockReservationFailed].event.order => Refused(o)
    BY <1>1, <1>2, PaymentInHand
    DEF Pay!RefundStep, Pay!Refund, Pay!UpdatePayment, Pay!CommitRefund, Refused
<1>5. ASSUME UNCHANGED outbox, PaymentsTell',
             \E t \in PaymentTopics, pc \in Pay!PCs : pClaim[t].pc # "idle" /\ Pay!Goto(t, pc)
      PROVE  PaymentAnnounces /\ PaymentHolds' /\ PaymentsTell'
    BY <1>1, <1>5, PaymentHoldsOn DEF PaymentAnnounces, Grows
<1>6. ASSUME NEW type \in {PaymentCompleted, PaymentFailed, PaymentRefunded},
             Publishes(type, o),
             \E t \in PaymentTopics, pc \in Pay!PCs : pClaim[t].pc # "idle" /\ Pay!Goto(t, pc)
      PROVE  /\ PaymentHolds' /\ outbox \subseteq outbox'
             /\ \A other, p : Announced(other, p)'
                   <=> Announced(other, p) \/ (other = type /\ p = o)
  <2>1. type \in EventType
    BY <1>2, <1>6
  <2>2. /\ outbox \subseteq outbox' /\ outbox' \subseteq Event
        /\ \A other, p : Announced(other, p)'
              <=> Announced(other, p) \/ (other = type /\ p = o)
    BY <1>1, <1>6, <2>1, PublishAnnounces
  <2> QED BY <1>1, <1>6, <2>2, PaymentHoldsOn DEF Grows
<1>7. CASE Pay!Charge(o) /\ o = pClaim[OrderCreated].event.order
  <2>1. Pay!Goto(OrderCreated, "create") /\ pClaim[OrderCreated].pc # "idle"
        /\ UNCHANGED <<outbox, payments>>
    BY <1>7 DEF Pay!Charge
  <2>2. PaymentsTell'
    BY <1>1, <1>2, <2>1 DEF PaymentsTell, PaymentHolds, Pay!Goto, Announced, Refused
  <2> QED BY <1>2, <1>5, <2>1, <2>2
<1>8. CASE Pay!Decline(o) /\ o = pClaim[OrderCreated].event.order
  <2>1. Pay!Goto(OrderCreated, "drop") /\ pClaim[OrderCreated].pc # "idle"
        /\ UNCHANGED payments /\ Publishes(PaymentFailed, o)
    BY <1>8, SendPublishes DEF Pay!Decline, Pay!paymentVars
  <2>2. PaymentHolds' /\ outbox \subseteq outbox'
        /\ Silent({PaymentCompleted, PaymentRefunded})
    BY <1>2, <1>6, <2>1 DEF Silent
  <2>3. pClaim'[OrderCreated].pc # "commit"
    BY <1>1, <1>2, <2>1 DEF PaymentHolds, Pay!Goto
  <2>4. PaymentsTell'
    BY <1>1, <2>1, <2>2, <2>3, PaymentsQuiet
  <2> QED BY <1>3, <1>8, <2>1, <2>2, <2>4 DEF PaymentAnnounces, Pay!PaymentStep
<1>9. CASE Pay!CreatePayment(o) /\ o = pClaim[OrderCreated].event.order
  <2>1. PaymentsTell'
    BY <1>1, <1>2, <1>9
    DEF PaymentsTell, PaymentHolds, Pay!CreatePayment, Pay!Goto, Announced, Refused
  <2>2. \E pc \in Pay!PCs : Pay!Goto(OrderCreated, pc)
    BY <1>2, <1>9 DEF Pay!CreatePayment
  <2> QED BY <1>2, <1>5, <1>9, <2>1, <2>2 DEF Pay!CreatePayment
<1>10. CASE Pay!CommitPayment(o) /\ o = pClaim[OrderCreated].event.order
  <2>1. Pay!Goto(OrderCreated, "finish") /\ pClaim[OrderCreated].pc = "commit"
        /\ UNCHANGED payments /\ Publishes(PaymentCompleted, o)
    BY <1>10, SendPublishes DEF Pay!CommitPayment, Pay!paymentVars
  <2>2. /\ PaymentHolds' /\ outbox \subseteq outbox'
        /\ \A other, p : Announced(other, p)'
              <=> Announced(other, p) \/ (other = PaymentCompleted /\ p = o)
    BY <1>2, <1>6, <2>1
  <2>3. pClaim'[OrderCreated].pc # "commit"
    BY <1>1, <1>2, <2>1 DEF PaymentHolds, Pay!Goto
  <2>4. PaymentsTell'
    BY <1>1, <1>10, <2>1, <2>2, <2>3 DEF PaymentsTell, Refused
  <2> QED BY <1>3, <1>10, <2>1, <2>2, <2>4 DEF PaymentAnnounces, Pay!PaymentStep
<1>11. CASE Pay!Refund(o) /\ o = pClaim[StockReservationFailed].event.order
  <2>1. Pay!Goto(StockReservationFailed, "update") /\ pClaim[StockReservationFailed].pc # "idle"
        /\ UNCHANGED <<outbox, payments>>
    BY <1>11 DEF Pay!Refund
  <2>2. PaymentsTell'
    BY <1>1, <1>2, <2>1 DEF PaymentsTell, PaymentHolds, Pay!Goto, Announced, Refused
  <2> QED BY <1>2, <1>5, <2>1, <2>2
<1>12. CASE Pay!UpdatePayment(o) /\ o = pClaim[StockReservationFailed].event.order
  <2>1. Refused(o)
    BY <1>4, <1>12 DEF Pay!RefundStep
  <2>2. Pay!Goto(StockReservationFailed, "commitRefund")
        /\ pClaim[StockReservationFailed].pc # "idle" /\ UNCHANGED outbox
        /\ payments' = [payments EXCEPT ![o] = "REFUNDED"]
    BY <1>12 DEF Pay!UpdatePayment
  <2>3. PaymentsTell'
    BY <1>1, <1>2, <2>1, <2>2 DEF PaymentsTell, PaymentHolds, Pay!Goto, Announced, Refused
  <2> QED BY <1>2, <1>5, <2>2, <2>3
<1>13. CASE Pay!CommitRefund(o) /\ o = pClaim[StockReservationFailed].event.order
  <2>1. Pay!Goto(StockReservationFailed, "finish") /\ pClaim[StockReservationFailed].pc # "idle"
        /\ UNCHANGED payments /\ Publishes(PaymentRefunded, o)
    BY <1>13, SendPublishes DEF Pay!CommitRefund, Pay!paymentVars
  <2>2. /\ PaymentHolds' /\ outbox \subseteq outbox'
        /\ \A other, p : Announced(other, p)'
              <=> Announced(other, p) \/ (other = PaymentRefunded /\ p = o)
    BY <1>2, <1>6, <2>1
  <2>3. Refused(o) /\ pClaim'[OrderCreated] = pClaim[OrderCreated]
    BY <1>1, <1>2, <1>4, <1>13, <2>1 DEF PaymentHolds, Pay!Goto, Pay!RefundStep
  <2>4. PaymentsTell'
    BY <1>1, <2>1, <2>2, <2>3 DEF PaymentsTell, Refused
  <2> QED BY <2>1, <2>2, <2>3, <2>4 DEF PaymentAnnounces
<1> QED BY <1>7, <1>8, <1>9, <1>10, <1>11, <1>12, <1>13 DEF Pay!PaymentStep, Pay!RefundStep

LEMMA PaymentServes ==
    ASSUME SInv, PaymentStep
    PROVE  PaymentAnnounces /\ PaymentHolds' /\ PaymentsTell'
<1>1. {OrderCreated, StockReservationFailed} = PaymentTopics
      /\ {"charge", "refund", "finish", "drop"} \subseteq Pay!PCs \ {"commit"}
    BY DEF PaymentTopics, Pay!PCs
<1>2. CASE \E e : \/ Pay!FindPayment(e) \/ Pay!FindRefundable(e) \/ Pay!FindRefundableFails(e)
  <2>1. UNCHANGED <<outbox, Pay!paymentVars>>
    BY <1>2 DEF Pay!FindPayment, Pay!FindRefundable, Pay!FindRefundableFails
  <2>2. \E t \in PaymentTopics, pc \in Pay!PCs \ {"commit"} : \E e : Pay!Begin(t, e, pc)
    BY <1>1, <1>2 DEF Pay!FindPayment, Pay!FindRefundable, Pay!FindRefundableFails
  <2> QED BY <2>1, <2>2, PaymentConsumes DEF PaymentAnnounces
<1>3. CASE Pay!PaymentStep(pClaim[OrderCreated].event.order)
  <2>1. pClaim[OrderCreated].event.order \in Orders
    BY <1>1, <1>3, PaymentInHand
    DEF SInv, Pay!PaymentStep, Pay!Charge, Pay!Decline, Pay!CreatePayment, Pay!CommitPayment
  <2> QED BY <1>3, <2>1, PaymentWrites
<1>4. CASE Pay!RefundStep(pClaim[StockReservationFailed].event.order)
  <2>1. pClaim[StockReservationFailed].event.order \in Orders
    BY <1>1, <1>4, PaymentInHand
    DEF SInv, Pay!RefundStep, Pay!Refund, Pay!UpdatePayment, Pay!CommitRefund
  <2> QED BY <1>4, <2>1, PaymentWrites
<1>5. CASE \E t \in PaymentTopics :
              /\ \/ \E e : Pay!Skip(t, e)
                 \/ Pay!Finish(t) \/ Pay!Drop(t)
                 \/ pClaim[t].pc \notin {"idle", "finish", "drop"} /\ Pay!Fail(t)
              /\ UNCHANGED Pay!paymentVars
  <2>1. UNCHANGED <<outbox, Pay!paymentVars>>
    BY <1>5 DEF Pay!Skip, Pay!Finish, Pay!Drop, Pay!Fail
  <2>2. \/ \E t \in PaymentTopics, pc \in Pay!PCs \ {"commit"} :
              pClaim[t].pc # "idle" /\ Pay!Goto(t, pc)
        \/ \E t \in PaymentTopics : \E e : Pay!MarkMessage(t, e)
    BY <1>1, <1>5 DEF Pay!Skip, Pay!Finish, Pay!Drop, Pay!Fail
  <2> QED BY <2>1, <2>2, PaymentConsumes DEF PaymentAnnounces
<1>6. CASE ((\E e : Pay!Redeliver(e)) \/ Pay!CrashClaims) /\ UNCHANGED Pay!paymentVars
  <2>1. UNCHANGED <<outbox, Pay!paymentVars>> /\ (UNCHANGED pClaim \/ Pay!CrashClaims)
    BY <1>6 DEF Pay!Redeliver, Pay!CrashClaims
  <2> QED BY <2>1, PaymentConsumes DEF PaymentAnnounces
<1> QED BY <1>2, <1>3, <1>4, <1>5, <1>6
        DEF PaymentStep, Pay!Service, Pay!Serve, Pay!Errors, Pay!HandleOrderCreated,
            Pay!HandleStockReservationFailed

-------------------------------------------------------------------------------
(* The inventory service. *)

LEMMA InventoryInHand ==
    ASSUME Holds, NEW t \in InventoryTopics, iClaim[t].pc # "idle"
    PROVE  /\ iClaim[t].event.order \in Orders
           /\ Announced(t, iClaim[t].event.order)
BY DEF Holds, InventoryHolds, Announced, Event

(* The steps of the consumer and the failures: nothing is written and no   *)
(* lock is taken.                                                          *)
LEMMA InventoryConsumes ==
    ASSUME SInv, UNCHANGED <<outbox, inventory, reservations>>,
           iSnap' \in [InventoryTopics -> Inv!Row],
           \/ \E t \in InventoryTopics, pc \in Inv!PCs \ {"locked"} :
                 /\ iClaim[t].pc # "idle" /\ Inv!Goto(t, pc)
                 /\ \A u \in InventoryTopics \ {t} : iSnap'[u] = iSnap[u]
           \/ (\E t \in InventoryTopics, pc \in Inv!PCs \ {"locked"} :
                 \E e : Inv!Begin(t, e, pc)) /\ UNCHANGED iSnap
           \/ (\E t \in InventoryTopics : \E e : Inv!MarkMessage(t, e)) /\ UNCHANGED iSnap
           \/ UNCHANGED <<iClaim, iSnap>>
           \/ Inv!CrashClaims
    PROVE  InventoryHolds' /\ StockTells'
<1>1. Grows /\ InventoryHolds /\ StockTells
    BY DEF SInv, Holds, Grows
<1>2. InventoryHolds'
    BY <1>1, InventoryHoldsOn
<1>3. /\ iClaim'[PaymentRefunded].pc # "locked"
      /\ \/ iClaim'[PaymentCompleted].pc # "locked"
         \/ /\ iClaim'[PaymentCompleted] = iClaim[PaymentCompleted]
            /\ iSnap'[PaymentCompleted] = iSnap[PaymentCompleted]
    BY <1>1 DEF StockTells, InventoryHolds, Inv!Goto, Inv!Begin, Inv!MarkMessage,
                Inv!CrashClaims, Inv!Idle, InventoryTopics
<1> QED BY <1>1, <1>2, <1>3 DEF StockTells, Announced, Refused


(* The statements that take the lock and those that commit. *)
LEMMA InventoryWrites ==
    ASSUME SInv, NEW o \in Orders,
           \/ \E e \in Inv!Delivered(PaymentCompleted) :
                 Inv!NotProcessed(e) /\ reservations[e.order] = "NONE"
                    /\ Inv!LockRow(PaymentCompleted, e)
           \/ /\ o = iClaim[PaymentCompleted].event.order
              /\ Inv!CommitReservation(o) \/ Inv!RefuseReservation(o)
    PROVE  InventoryAnnounces /\ InventoryHolds' /\ StockTells'
<1>1. Holds /\ InventoryHolds /\ StockTells /\ outbox \subseteq Event
    BY DEF SInv, Holds
<1>2. {PaymentCompleted, PaymentRefunded} = InventoryTopics
      /\ {"locked", "finish", "drop"} \subseteq Inv!PCs
      /\ {StockReserved, StockReservationFailed} \subseteq EventType
    BY DEF InventoryTopics, Inv!PCs, EventType
<1>3. CASE \E e \in Inv!Delivered(PaymentCompleted) :
              Inv!NotProcessed(e) /\ reservations[e.order] = "NONE"
                 /\ Inv!LockRow(PaymentCompleted, e)
  <2>1. PICK e \in Inv!Delivered(PaymentCompleted) :
           reservations[e.order] = "NONE" /\ Inv!LockRow(PaymentCompleted, e)
    BY <1>3
  <2>2. /\ Inv!Begin(PaymentCompleted, e, "locked")
        /\ iSnap' = [iSnap EXCEPT ![PaymentCompleted] = inventory]
        /\ UNCHANGED <<outbox, inventory, reservations>>
    BY <2>1 DEF Inv!LockRow
  <2>3. InventoryHolds'
    BY <1>1, <1>2, <2>2, InventoryHoldsOn DEF Grows
  <2>4. StockTells'
    BY <1>1, <1>2, <2>1, <2>2
    DEF StockTells, InventoryHolds, Inv!Begin, Announced, Refused
  <2> QED BY <2>2, <2>3, <2>4 DEF InventoryAnnounces
<1>4. ASSUME o = iClaim[PaymentCompleted].event.order,
             iClaim[PaymentCompleted].pc = "locked",
             NEW type \in {StockReserved, StockReservationFailed},
             NEW pc \in {"finish", "drop"},
             Inv!Send(type, o), Inv!EndTx(PaymentCompleted, pc)
      PROVE  /\ Announced(PaymentCompleted, o) /\ Publishes(type, o)
             /\ InventoryHolds' /\ outbox \subseteq outbox'
             /\ \A other, p : Announced(other, p)'
                   <=> Announced(other, p) \/ (other = type /\ p = o)
             /\ \A t \in InventoryTopics : iClaim'[t].pc # "locked"
             /\ iSnap' \in [InventoryTopics -> Inv!Row]
             /\ iSnap[PaymentCompleted] = inventory /\ reservations[o] = "NONE"
  <2>1. Announced(PaymentCompleted, o) /\ Publishes(type, o)
    BY <1>1, <1>2, <1>4, InventoryInHand, SendPublishes
  <2>2. /\ outbox \subseteq outbox' /\ outbox' \subseteq Event
        /\ \A other, p : Announced(other, p)'
              <=> Announced(other, p) \/ (other = type /\ p = o)
    BY <1>1, <1>2, <1>4, <2>1, PublishAnnounces
  <2>3. Inv!Goto(PaymentCompleted, pc) /\ pc \in Inv!PCs
        /\ iSnap' = [iSnap EXCEPT ![PaymentCompleted] = Inv!NothingRead]
    BY <1>2, <1>4 DEF Inv!EndTx
  <2>4. InventoryHolds'
    BY <1>1, <1>2, <1>4, <2>2, <2>3, InventoryHoldsOn DEF Grows
  <2>5. /\ \A t \in InventoryTopics : iClaim'[t].pc # "locked"
        /\ iSnap' \in [InventoryTopics -> Inv!Row]
    BY <1>1, <1>2, <1>4, <2>3
    DEF StockTells, InventoryHolds, Inv!Goto, Inv!NothingRead, Inv!Row
  <2> QED BY <1>1, <1>4, <2>1, <2>2, <2>4, <2>5 DEF StockTells
<1>5. CASE o = iClaim[PaymentCompleted].event.order /\ Inv!CommitReservation(o)
  <2>1. /\ Announced(PaymentCompleted, o) /\ Publishes(StockReserved, o)
        /\ InventoryHolds' /\ outbox \subseteq outbox'
        /\ \A other, p : Announced(other, p)'
              <=> Announced(other, p) \/ (other = StockReserved /\ p = o)
        /\ \A t \in InventoryTopics : iClaim'[t].pc # "locked"
        /\ iSnap' \in [InventoryTopics -> Inv!Row]
        /\ iSnap[PaymentCompleted] = inventory /\ reservations[o] = "NONE"
    BY <1>4, <1>5 DEF Inv!CommitReservation
  <2>2. inventory.available >= Inv!Quantity
        /\ inventory' = Inv!Reserve(inventory)
        /\ reservations' = [reservations EXCEPT ![o] = "RESERVED"]
    BY <1>5, <2>1 DEF Inv!CommitReservation, Inv!CanReserve
  <2>3. \A p \in Orders : ~ Refused(p)
    BY <1>1, <2>2 DEF StockTells
  <2>4. inventory' \in Inv!Row
    BY <1>1, <2>2 DEF StockTells, Inv!Row, Inv!Reserve, Inv!Quantity
  <2>5. StockTells'
    BY <1>1, <1>2, <2>1, <2>2, <2>3, <2>4 DEF StockTells, Refused
  <2> QED BY <2>1, <2>3, <2>5 DEF InventoryAnnounces
<1>6. CASE o = iClaim[PaymentCompleted].event.order /\ Inv!RefuseReservation(o)
  <2>1. /\ Announced(PaymentCompleted, o) /\ Publishes(StockReservationFailed, o)
        /\ InventoryHolds' /\ outbox \subseteq outbox'
        /\ \A other, p : Announced(other, p)'
              <=> Announced(other, p) \/ (other = StockReservationFailed /\ p = o)
        /\ \A t \in InventoryTopics : iClaim'[t].pc # "locked"
        /\ iSnap' \in [InventoryTopics -> Inv!Row]
        /\ iSnap[PaymentCompleted] = inventory /\ reservations[o] = "NONE"
    BY <1>4, <1>6 DEF Inv!RefuseReservation
  <2>2. ~ (inventory.available >= Inv!Quantity) /\ UNCHANGED <<inventory, reservations>>
    BY <1>6, <2>1 DEF Inv!RefuseReservation, Inv!CanReserve, Inv!SameVersion
  <2>3. StockTells'
    BY <1>1, <1>2, <2>1, <2>2 DEF StockTells, Refused, Inv!Quantity
  <2>4. ~ Announced(StockReserved, o)
    BY <1>1, <2>1 DEF StockTells
  <2> QED BY <2>1, <2>3, <2>4 DEF InventoryAnnounces
<1> QED BY <1>3, <1>5, <1>6

LEMMA InventoryServes ==
    ASSUME SInv, InventoryStep
    PROVE  InventoryAnnounces /\ InventoryHolds' /\ StockTells'
<1>1. Holds /\ StockTells /\ PaymentsTell
    BY DEF SInv
<1>2. {PaymentCompleted, PaymentRefunded} = InventoryTopics
      /\ {"finish", "drop"} \subseteq Inv!PCs \ {"locked"}
      /\ Inv!NothingRead \in Inv!Row
    BY DEF InventoryTopics, Inv!PCs, Inv!NothingRead, Inv!Row
<1>3. iSnap \in [InventoryTopics -> Inv!Row]
    BY <1>1 DEF StockTells
<1>4. ASSUME NEW e \in Inv!Delivered(PaymentRefunded)
      PROVE  reservations[e.order] # "RESERVED"
    BY <1>1, <1>4
    DEF Holds, PaymentsTell, StockTells, Inv!Delivered, Announced, Event
<1>5. CASE \/ \E e \in Inv!Delivered(PaymentCompleted) :
                 /\ reservations[e.order] # "NONE"
                 /\ Inv!Begin(PaymentCompleted, e, "finish")
                 /\ UNCHANGED <<outbox, Inv!inventoryVars>>
           \/ \E e \in Inv!Delivered(PaymentRefunded) : Inv!FindReserved(e)
           \/ \E t \in InventoryTopics : \E e : Inv!FindFails(t, e)
  <2>1. UNCHANGED <<outbox, inventory, reservations, iSnap>>
        /\ \E t \in InventoryTopics, pc \in Inv!PCs \ {"locked"} : \E e : Inv!Begin(t, e, pc)
    BY <1>2, <1>4, <1>5 DEF Inv!FindReserved, Inv!FindFails, Inv!inventoryVars
  <2> QED BY <1>3, <2>1, InventoryConsumes DEF InventoryAnnounces
<1>6. CASE \E e \in Inv!Delivered(PaymentCompleted) :
              Inv!NotProcessed(e) /\ reservations[e.order] = "NONE"
                 /\ Inv!LockRow(PaymentCompleted, e)
  <2>1. \E o \in Orders : TRUE
    BY <1>1, <1>6 DEF Holds, Inv!Delivered, Event
  <2> QED BY <1>6, <2>1, InventoryWrites
<1>7. CASE LET o == iClaim[PaymentCompleted].event.order
           IN  Inv!CommitReservation(o) \/ Inv!RefuseReservation(o)
  <2>1. iClaim[PaymentCompleted].event.order \in Orders
    BY <1>1, <1>2, <1>7, InventoryInHand DEF Inv!CommitReservation, Inv!RefuseReservation
  <2> QED BY <1>7, <2>1, InventoryWrites
<1>8. CASE \/ Inv!CommitRestoration(iClaim[PaymentRefunded].event.order)
           \/ Inv!RollbackRestoration
    BY <1>1, <1>8 DEF StockTells, Inv!CommitRestoration, Inv!RollbackRestoration
<1>9. CASE \E t \in InventoryTopics :
              /\ (\E e : Inv!Skip(t, e)) \/ Inv!Finish(t) \/ Inv!Drop(t)
              /\ UNCHANGED Inv!inventoryVars
  <2>1. UNCHANGED <<outbox, inventory, reservations, iSnap>>
        /\ \E t \in InventoryTopics : \E e : Inv!MarkMessage(t, e)
    BY <1>9 DEF Inv!Skip, Inv!Finish, Inv!Drop, Inv!inventoryVars
  <2> QED BY <1>3, <2>1, InventoryConsumes DEF InventoryAnnounces
<1>10. CASE \E t \in InventoryTopics : Inv!TxFails(t)
  <2>1. PICK t \in InventoryTopics : Inv!TxFails(t)
    BY <1>10
  <2>2. /\ UNCHANGED <<outbox, inventory, reservations>>
        /\ iClaim[t].pc # "idle" /\ Inv!Goto(t, "drop")
        /\ iSnap' = [iSnap EXCEPT ![t] = Inv!NothingRead]
    BY <2>1 DEF Inv!TxFails, Inv!Fail
  <2>3. iSnap' \in [InventoryTopics -> Inv!Row]
        /\ \A u \in InventoryTopics \ {t} : iSnap'[u] = iSnap[u]
    BY <1>2, <1>3, <2>2
  <2>4. \E u \in InventoryTopics, pc \in Inv!PCs \ {"locked"} :
           /\ iClaim[u].pc # "idle" /\ Inv!Goto(u, pc)
           /\ \A v \in InventoryTopics \ {u} : iSnap'[v] = iSnap[v]
    BY <1>2, <2>2, <2>3
  <2> QED BY <2>2, <2>3, <2>4, InventoryConsumes DEF InventoryAnnounces
<1>11. CASE (\E e : Inv!Redeliver(e)) /\ UNCHANGED Inv!inventoryVars
  <2>1. UNCHANGED <<outbox, inventory, reservations, iSnap, iClaim>>
    BY <1>11 DEF Inv!Redeliver, Inv!inventoryVars
  <2> QED BY <1>3, <2>1, InventoryConsumes DEF InventoryAnnounces
<1>12. CASE Inv!Crash
  <2>1. UNCHANGED <<outbox, inventory, reservations>> /\ Inv!CrashClaims
        /\ iSnap' \in [InventoryTopics -> Inv!Row]
    BY <1>2, <1>12 DEF Inv!Crash, Inv!CrashClaims
  <2> QED BY <2>1, InventoryConsumes DEF InventoryAnnounces
<1> QED BY <1>5, <1>6, <1>7, <1>8, <1>9, <1>10, <1>11, <1>12
        DEF InventoryStep, Inv!Service, Inv!Serve, Inv!Errors, Inv!HandlePaymentCompleted,
            Inv!HandlePaymentRefunded, Inv!FindReservation


-------------------------------------------------------------------------------
(* The delivery service. *)

LEMMA DeliveryServes ==
    ASSUME SInv, DeliveryStep
    PROVE  DeliveryAnnounces /\ deliveries \subseteq deliveries' /\ DeliveriesTell'
<1>1. outbox \subseteq Event /\ DeliveriesTell
    BY DEF SInv, Holds
<1>2. CASE UNCHANGED <<outbox, deliveries>>
    BY <1>1, <1>2 DEF DeliveryAnnounces, DeliveriesTell, Announced
<1>3. CASE \E e \in Del!Delivered(StockReserved) :
              /\ deliveries' = deliveries \cup {e.order}
              /\ Del!Send(DeliveryStarted, e.order)
  <2>1. PICK e \in Del!Delivered(StockReserved) :
           deliveries' = deliveries \cup {e.order} /\ Del!Send(DeliveryStarted, e.order)
    BY <1>3
  <2>2. e.order \in Orders /\ Announced(StockReserved, e.order)
    BY <1>1 DEF Del!Delivered, Announced, Event
  <2>3. Publishes(DeliveryStarted, e.order) /\ DeliveryStarted \in EventType
    BY <2>1, SendPublishes DEF EventType
  <2>4. \A other, p : Announced(other, p)'
           <=> Announced(other, p) \/ (other = DeliveryStarted /\ p = e.order)
    BY <1>1, <2>2, <2>3, PublishAnnounces
  <2>5. DeliveriesTell'
    BY <1>1, <2>1, <2>2, <2>4 DEF DeliveriesTell
  <2> QED BY <2>1, <2>2, <2>3, <2>5 DEF DeliveryAnnounces
<1> QED
  BY <1>2, <1>3
  DEF DeliveryStep, Del!Service, Del!Consume, Del!Errors, Del!HandleStockReserved, Del!Skip,
      Del!Finish, Del!Drop, Del!TxFails, Del!Redeliver, Del!CrashClaims

-------------------------------------------------------------------------------
(* The order service. *)

LEMMA OrderInHand ==
    ASSUME Holds, NEW t \in OrderTopics, oClaim[t].pc # "idle"
    PROVE  /\ oClaim[t].event.order \in Orders
           /\ Announced(t, oClaim[t].event.order)
BY DEF Holds, OrderHolds, Announced, Event

(* The requests. *)
LEMMA OrderAnswers ==
    ASSUME SInv, UNCHANGED <<deliveries, oClaim>>,
           \/ \E c \in Clients, o \in Orders : Ord!FindExisting(c, o) \/ Ord!FindNothing(c, o)
           \/ \E c \in Clients : Ord!Answer(c) \/ Ord!RequestFails(c)
    PROVE  OrderAnnounces /\ OrderHolds' /\ StatusTells'
<1>1. outbox \subseteq Event /\ OrderHolds /\ StatusTells
    BY DEF SInv, Holds
<1>2. CASE /\ UNCHANGED <<outbox, orders, oSnap>>
           /\ \/ UNCHANGED client
              \/ \E c \in Clients, o \in Orders :
                    client' = [client EXCEPT ![c] = [pc |-> "create", order |-> o]]
              \/ \E c \in Clients : Ord!ClientDone(c)
  <2>1. OrderHolds'
    BY <1>1, <1>2, OrderHoldsOn DEF Grows
  <2>2. client' \in [Clients -> [pc : {"idle"}, order : {NoEvent}]
                                \cup [pc : {"create", "commit"}, order : Orders]]
    BY <1>1, <1>2 DEF StatusTells, Ord!ClientDone
  <2> QED BY <1>1, <1>2, <2>1, <2>2 DEF OrderAnnounces, StatusTells, Announced, Refused
<1>3. CASE \E c \in Clients : Ord!CreateRow(c)
  <2>1. PICK c \in Clients : Ord!CreateRow(c)
    BY <1>3
  <2>2. CASE Ord!ClientDone(c) /\ UNCHANGED <<outbox, orders, oSnap>>
    BY <1>2, <2>2
  <2>3. CASE /\ orders' = [orders EXCEPT ![client[c].order] =
                             [status |-> "PENDING", version |-> 0]]
             /\ client' = [client EXCEPT ![c].pc = "commit"]
    <3>1. UNCHANGED <<outbox, oSnap>> /\ client[c].pc = "create"
      BY <2>1 DEF Ord!CreateRow, Ord!channelVars
    <3>2. OrderHolds'
      BY <1>1, <3>1, OrderHoldsOn DEF Grows
    <3>3. client' \in [Clients -> [pc : {"idle"}, order : {NoEvent}]
                                  \cup [pc : {"create", "commit"}, order : Orders]]
      BY <1>1, <2>3, <3>1 DEF StatusTells
    <3>4. /\ orders' \in [Orders -> [status : Ord!Status \cup {"NONE"}, version : Nat]]
          /\ \A o \in Orders : orders'[o] = orders[o] \/ orders'[o].status = "PENDING"
      BY <1>1, <2>3 DEF StatusTells, Ord!Status
    <3> QED BY <1>1, <3>1, <3>2, <3>3, <3>4
            DEF OrderAnnounces, StatusTells, Announced, Refused
  <2> QED BY <2>1, <2>2, <2>3 DEF Ord!CreateRow, Ord!channelVars
<1>4. CASE \E c \in Clients : Ord!CommitOrder(c)
  <2>1. PICK c \in Clients : Ord!CommitOrder(c)
    BY <1>4
  <2>2. /\ client[c].order \in Orders /\ UNCHANGED <<orders, oSnap>>
        /\ Publishes(OrderCreated, client[c].order) /\ Ord!ClientDone(c)
    BY <1>1, <2>1, SendPublishes DEF StatusTells, Ord!CommitOrder
  <2>3. OrderCreated \in EventType
    BY DEF EventType
  <2>4. /\ outbox \subseteq outbox' /\ outbox' \subseteq Event
        /\ \A other, p : Announced(other, p)'
              <=> Announced(other, p) \/ (other = OrderCreated /\ p = client[c].order)
    BY <1>1, <2>2, <2>3, PublishAnnounces
  <2>5. OrderHolds'
    BY <1>1, <2>4, OrderHoldsOn DEF Grows
  <2>6. client' \in [Clients -> [pc : {"idle"}, order : {NoEvent}]
                                \cup [pc : {"create", "commit"}, order : Orders]]
    BY <1>1, <2>2 DEF StatusTells, Ord!ClientDone
  <2>7. StatusTells'
    BY <1>1, <2>2, <2>4, <2>6 DEF StatusTells, Refused
  <2> QED BY <2>2, <2>5, <2>7 DEF OrderAnnounces
<1> QED BY <1>2, <1>3, <1>4
        DEF Ord!FindExisting, Ord!FindNothing, Ord!Answer, Ord!RequestFails, Ord!channelVars

(* The event handlers: the status that is written has been heard of. *)
LEMMA OrderConsumes ==
    ASSUME SInv, UNCHANGED <<outbox, deliveries>>, oSnap' \in [OrderTopics -> Nat],
           \/ UNCHANGED client
           \/ client' = [c \in Clients |-> [pc |-> "idle", order |-> NoEvent]],
           \/ UNCHANGED orders
           \/ \E t \in OrderTopics : Ord!WriteOrder(t),
           \/ UNCHANGED oClaim
           \/ \E t \in OrderTopics, pc \in Ord!PCs : oClaim[t].pc # "idle" /\ Ord!Goto(t, pc)
           \/ \E t \in OrderTopics, pc \in Ord!PCs : \E e : Ord!Begin(t, e, pc)
           \/ \E t \in OrderTopics : \E e : Ord!MarkMessage(t, e)
           \/ Ord!CrashClaims
    PROVE  OrderHolds' /\ StatusTells'
<1>1. Holds /\ outbox \subseteq Event /\ OrderHolds /\ StatusTells /\ DeliveriesTell
    BY DEF SInv, Holds
<1>2. OrderHolds'
    BY <1>1, OrderHoldsOn DEF Grows
<1>3. client' \in [Clients -> [pc : {"idle"}, order : {NoEvent}]
                              \cup [pc : {"create", "commit"}, order : Orders]]
    BY <1>1 DEF StatusTells
<1>4. /\ orders' \in [Orders -> [status : Ord!Status \cup {"NONE"}, version : Nat]]
      /\ \A o \in Orders :
            /\ orders'[o].status = "COMPLETED" => o \in deliveries
            /\ orders'[o].status = "FAILED" => Refused(o)
            /\ orders'[o].status = "CANCELED" => Announced(PaymentFailed, o)
  <2>1. CASE UNCHANGED orders
    BY <1>1, <2>1 DEF StatusTells
  <2>2. CASE \E t \in OrderTopics : Ord!WriteOrder(t)
    <3>1. PICK t \in OrderTopics : Ord!WriteOrder(t)
      BY <2>2
    <3> DEFINE o == oClaim[t].event.order
               to == Ord!Handler[t].to
    <3>2. o \in Orders /\ Announced(t, o)
      BY <1>1, <3>1, OrderInHand DEF Ord!WriteOrder
    <3>3. /\ to \in Ord!Status
          /\ to = "COMPLETED" => t = DeliveryStarted
          /\ to = "FAILED" => t = StockReservationFailed \/ t = DeliveryFailed
          /\ to = "CANCELED" => t = PaymentFailed
      BY DEF OrderTopics, Ord!Handler, Ord!OrderTopics, Ord!Status, Ord!HandlePaymentCompleted,
             Ord!HandlePaymentFailed, Ord!HandleStockReserved,
             Ord!HandleStockReservationFailed, Ord!HandleDeliveryStarted,
             Ord!HandleDeliveryFailed
    <3>4. /\ to = "COMPLETED" => o \in deliveries
          /\ to = "FAILED" => Refused(o)
          /\ to = "CANCELED" => Announced(PaymentFailed, o)
      BY <1>1, <3>2, <3>3 DEF DeliveriesTell, StatusTells, Refused
    <3> HIDE DEF o, to
    <3>5. orders' = orders
          \/ orders' = [orders EXCEPT ![o] = [status |-> to, version |-> oSnap[t] + 1]]
      BY <3>1 DEF Ord!WriteOrder, Ord!UpdateStatusWithVersion, o, to
    <3>6. oSnap[t] + 1 \in Nat
      BY <1>1 DEF StatusTells
    <3> QED BY <1>1, <3>2, <3>3, <3>4, <3>5, <3>6 DEF StatusTells
  <2> QED BY <2>1, <2>2
<1> QED BY <1>1, <1>2, <1>3, <1>4 DEF StatusTells, Announced, Refused


LEMMA OrderServes ==
    ASSUME SInv, OrderStep
    PROVE  OrderAnnounces /\ OrderHolds' /\ StatusTells'
<1>1. Holds /\ StatusTells /\ oSnap \in [OrderTopics -> Nat]
    BY DEF SInv, StatusTells
<1>2. UNCHANGED deliveries
    BY DEF OrderStep, deliveryOwn
<1>3. {"write", "finish", "drop"} \subseteq Ord!PCs
    BY DEF Ord!PCs
<1>4. ASSUME UNCHANGED <<outbox, client>>, oSnap' \in [OrderTopics -> Nat],
             UNCHANGED orders \/ \E t \in OrderTopics : Ord!WriteOrder(t),
             \/ UNCHANGED oClaim
             \/ \E t \in OrderTopics, pc \in Ord!PCs : oClaim[t].pc # "idle" /\ Ord!Goto(t, pc)
             \/ \E t \in OrderTopics, pc \in Ord!PCs : \E e : Ord!Begin(t, e, pc)
             \/ \E t \in OrderTopics : \E e : Ord!MarkMessage(t, e)
      PROVE  OrderAnnounces /\ OrderHolds' /\ StatusTells'
    BY <1>2, <1>4, OrderConsumes DEF OrderAnnounces
<1>5. CASE \/ \E c \in Clients, o \in Orders : Ord!FindExisting(c, o) \/ Ord!FindNothing(c, o)
           \/ \E c \in Clients : Ord!Answer(c) \/ Ord!RequestFails(c)
  <2>1. UNCHANGED oClaim
    BY <1>5 DEF Ord!FindExisting, Ord!FindNothing, Ord!Answer, Ord!CreateRow, Ord!CommitOrder,
                Ord!RequestFails, Ord!channelVars
  <2> QED BY <1>2, <1>5, <2>1, OrderAnswers
<1>6. CASE \E t \in OrderTopics : \E e : Ord!ReadOrder(t, e) \/ Ord!ReadFails(t, e)
  <2>1. PICK t \in OrderTopics : \E e : Ord!ReadOrder(t, e) \/ Ord!ReadFails(t, e)
    BY <1>6
  <2>2. PICK e : Ord!ReadOrder(t, e) \/ Ord!ReadFails(t, e)
    BY <2>1
  <2>3. UNCHANGED <<outbox, client, orders>>
        /\ \E pc \in Ord!PCs : Ord!Begin(t, e, pc)
    BY <1>3, <2>2 DEF Ord!ReadOrder, Ord!ReadFails, Ord!orderVars
  <2>4. e.order \in Orders
    BY <1>1, <2>3 DEF Holds, Ord!Begin, Ord!Delivered, Event
  <2>5. oSnap' \in [OrderTopics -> Nat]
    <3>1. orders[e.order].version \in Nat
      BY <1>1, <2>4 DEF StatusTells
    <3> QED BY <1>1, <2>2, <3>1 DEF Ord!ReadOrder, Ord!ReadFails, Ord!orderVars
  <2> QED BY <1>4, <2>3, <2>5
<1>7. CASE \E t \in OrderTopics : Ord!WriteOrder(t)
  <2>1. PICK t \in OrderTopics : Ord!WriteOrder(t)
    BY <1>7
  <2>2. /\ UNCHANGED <<outbox, client>> /\ oSnap' = [oSnap EXCEPT ![t] = 0]
        /\ oClaim[t].pc # "idle" /\ Ord!Goto(t, "finish")
    BY <2>1 DEF Ord!WriteOrder
  <2>3. oSnap' \in [OrderTopics -> Nat]
    BY <1>1, <2>2
  <2> QED BY <1>3, <1>4, <1>7, <2>2, <2>3
<1>8. CASE \E t \in OrderTopics :
              /\ (\E e : Ord!Skip(t, e)) \/ Ord!Finish(t) \/ Ord!Drop(t)
              /\ UNCHANGED Ord!orderVars
  <2>1. UNCHANGED <<outbox, client, orders, oSnap>>
        /\ \E t \in OrderTopics : \E e : Ord!MarkMessage(t, e)
    BY <1>8 DEF Ord!Skip, Ord!Finish, Ord!Drop, Ord!orderVars
  <2> QED BY <1>1, <1>4, <2>1
<1>9. CASE \E t \in OrderTopics : Ord!WriteFails(t)
  <2>1. PICK t \in OrderTopics : Ord!WriteFails(t)
    BY <1>9
  <2>2. /\ UNCHANGED <<outbox, client, orders>> /\ oSnap' = [oSnap EXCEPT ![t] = 0]
        /\ oClaim[t].pc # "idle" /\ Ord!Goto(t, "drop")
    BY <2>1 DEF Ord!WriteFails, Ord!Fail
  <2>3. oSnap' \in [OrderTopics -> Nat]
    BY <1>1, <2>2
  <2> QED BY <1>3, <1>4, <2>2, <2>3
<1>10. CASE (\E e : Ord!Redeliver(e)) /\ UNCHANGED Ord!orderVars
  <2>1. UNCHANGED <<outbox, client, orders, oSnap, oClaim>>
    BY <1>10 DEF Ord!Redeliver, Ord!orderVars
  <2> QED BY <1>1, <1>4, <2>1
<1>11. CASE Ord!Crash
  <2>1. /\ UNCHANGED <<outbox, orders>> /\ Ord!CrashClaims
        /\ client' = [c \in Clients |-> [pc |-> "idle", order |-> NoEvent]]
        /\ oSnap' \in [OrderTopics -> Nat]
    BY <1>11 DEF Ord!Crash, Ord!CrashClaims
  <2> QED BY <1>2, <2>1, OrderConsumes DEF OrderAnnounces
<1> QED BY <1>5, <1>6, <1>7, <1>8, <1>9, <1>10, <1>11
        DEF OrderStep, Ord!Service, Ord!Serve, Ord!Errors

-------------------------------------------------------------------------------
(* The four services together. *)

(* What a service does not announce stays as it is. *)
LEMMA OthersQuiet ==
    ASSUME outbox \subseteq Event, NEW types \in SUBSET EventType,
           UNCHANGED outbox \/ \E o \in Orders, type \in types : Publishes(type, o)
    PROVE  Grows /\ \A quiet : quiet \cap types = {} => Silent(quiet)
<1>1. CASE UNCHANGED outbox
    BY <1>1 DEF Grows, Silent, Announced
<1>2. CASE \E o \in Orders, type \in types : Publishes(type, o)
  <2>1. PICK o \in Orders, type \in types : Publishes(type, o)
    BY <1>2
  <2>2. /\ outbox \subseteq outbox' /\ outbox' \subseteq Event
        /\ \A other, p : Announced(other, p)'
              <=> Announced(other, p) \/ (other = type /\ p = o)
    BY <2>1, PublishAnnounces
  <2> QED BY <2>2 DEF Grows, Silent
<1> QED BY <1>1, <1>2

LEMMA NextSInv == SInv /\ [Next]_vars => SInv'
<1> SUFFICES ASSUME SInv, [Next]_vars PROVE SInv'
    OBVIOUS
<1>1. /\ outbox \subseteq Event /\ OrderHolds /\ PaymentHolds /\ InventoryHolds
      /\ PaymentsTell /\ StockTells /\ DeliveriesTell /\ StatusTells
    BY DEF SInv, Holds
<1>2. iSnap \in [InventoryTopics -> Inv!Row]
    BY <1>1 DEF StockTells
<1>3. CASE OrderStep
  <2>1. OrderAnnounces /\ OrderHolds' /\ StatusTells'
    BY <1>3, OrderServes
  <2>2. UNCHANGED <<pClaim, payments, iClaim, iSnap, inventory, reservations, deliveries>>
    BY <1>3 DEF OrderStep, paymentOwn, inventoryOwn, deliveryOwn
  <2>3. Grows /\ \A quiet : quiet \cap {OrderCreated} = {} => Silent(quiet)
    <3>1. {OrderCreated} \in SUBSET EventType
      BY DEF EventType
    <3>2. UNCHANGED outbox \/ \E o \in Orders, type \in {OrderCreated} : Publishes(type, o)
      BY <2>1 DEF OrderAnnounces
    <3> QED BY <1>1, <3>1, <3>2, OthersQuiet
  <2>4. /\ Grows /\ Silent({PaymentCompleted, PaymentRefunded})
        /\ Silent({StockReserved, StockReservationFailed, StockRestored})
        /\ Silent({DeliveryStarted})
    BY <2>3
  <2>5. outbox \subseteq outbox' /\ outbox' \subseteq Event
    BY <2>4 DEF Grows
  <2>6. PaymentHolds' /\ InventoryHolds'
    BY <1>1, <2>2, <2>4, PaymentHoldsOn, InventoryHoldsOn
  <2>7. PaymentsTell' /\ StockTells' /\ DeliveriesTell'
    BY <1>1, <1>2, <2>2, <2>4, <2>5, PaymentsQuiet, StockQuiet, DeliveriesQuiet
  <2> QED BY <2>1, <2>5, <2>6, <2>7 DEF SInv, Holds
<1>4. CASE PaymentStep
  <2>1. PaymentAnnounces /\ PaymentHolds' /\ PaymentsTell'
    BY <1>4, PaymentServes
  <2>2. UNCHANGED <<oClaim, oSnap, orders, client,
                    iClaim, iSnap, inventory, reservations, deliveries>>
    BY <1>4 DEF PaymentStep, orderOwn, inventoryOwn, deliveryOwn
  <2>3. Grows /\ \A quiet :
           quiet \cap {PaymentCompleted, PaymentFailed, PaymentRefunded} = {} => Silent(quiet)
    <3>1. {PaymentCompleted, PaymentFailed, PaymentRefunded} \in SUBSET EventType
      BY DEF EventType
    <3>2. UNCHANGED outbox \/
             \E o \in Orders, type \in {PaymentCompleted, PaymentFailed, PaymentRefunded} :
                Publishes(type, o)
      BY <2>1 DEF PaymentAnnounces
    <3> QED BY <1>1, <3>1, <3>2, OthersQuiet
  <2>4. /\ Grows /\ Silent({StockReserved, StockReservationFailed, StockRestored})
        /\ Silent({DeliveryStarted}) /\ Silent({DeliveryFailed})
    BY <2>3
  <2>5. outbox \subseteq outbox' /\ outbox' \subseteq Event
    BY <2>4 DEF Grows
  <2>6. OrderHolds' /\ InventoryHolds'
    BY <1>1, <2>2, <2>4, OrderHoldsOn, InventoryHoldsOn
  <2>7. StockTells' /\ DeliveriesTell' /\ StatusTells'
    BY <1>1, <1>2, <2>2, <2>4, <2>5, StockQuiet, DeliveriesQuiet, StatusQuiet
  <2> QED BY <2>1, <2>5, <2>6, <2>7 DEF SInv, Holds
<1>5. CASE InventoryStep
  <2>1. InventoryAnnounces /\ InventoryHolds' /\ StockTells'
    BY <1>5, InventoryServes
  <2>2. UNCHANGED <<oClaim, oSnap, orders, client, pClaim, payments, deliveries>>
    BY <1>5 DEF InventoryStep, orderOwn, paymentOwn, deliveryOwn
  <2>3. Grows /\ \A quiet : quiet \cap {StockReserved, StockReservationFailed} = {} => Silent(quiet)
    <3>1. {StockReserved, StockReservationFailed} \in SUBSET EventType
      BY DEF EventType
    <3>2. UNCHANGED outbox \/
             \E o \in Orders, type \in {StockReserved, StockReservationFailed} :
                Publishes(type, o)
      BY <2>1 DEF InventoryAnnounces
    <3> QED BY <1>1, <3>1, <3>2, OthersQuiet
  <2>4. /\ Grows /\ Silent({PaymentCompleted, PaymentRefunded})
        /\ Silent({DeliveryStarted}) /\ Silent({DeliveryFailed})
    BY <2>3
  <2>5. outbox \subseteq outbox' /\ outbox' \subseteq Event
    BY <2>4 DEF Grows
  <2>6. OrderHolds' /\ PaymentHolds'
    BY <1>1, <2>2, <2>4, OrderHoldsOn, PaymentHoldsOn
  <2>7. PaymentsTell' /\ DeliveriesTell' /\ StatusTells'
    BY <1>1, <2>2, <2>4, <2>5, PaymentsQuiet, DeliveriesQuiet, StatusQuiet
  <2> QED BY <2>1, <2>5, <2>6, <2>7 DEF SInv, Holds
<1>6. CASE DeliveryStep
  <2>1. DeliveryAnnounces /\ deliveries \subseteq deliveries' /\ DeliveriesTell'
    BY <1>6, DeliveryServes
  <2>2. UNCHANGED <<oClaim, oSnap, orders, client, pClaim, payments,
                    iClaim, iSnap, inventory, reservations>>
    BY <1>6 DEF DeliveryStep, orderOwn, paymentOwn, inventoryOwn
  <2>3. Grows /\ \A quiet : quiet \cap {DeliveryStarted} = {} => Silent(quiet)
    <3>1. {DeliveryStarted} \in SUBSET EventType
      BY DEF EventType
    <3>2. UNCHANGED outbox \/ \E o \in Orders, type \in {DeliveryStarted} : Publishes(type, o)
      BY <2>1 DEF DeliveryAnnounces
    <3> QED BY <1>1, <3>1, <3>2, OthersQuiet
  <2>4. /\ Grows /\ Silent({PaymentCompleted, PaymentRefunded})
        /\ Silent({StockReserved, StockReservationFailed, StockRestored})
        /\ Silent({DeliveryFailed})
    BY <2>3
  <2>5. outbox \subseteq outbox' /\ outbox' \subseteq Event
    BY <2>4 DEF Grows
  <2>6. OrderHolds' /\ PaymentHolds' /\ InventoryHolds'
    BY <1>1, <2>2, <2>4, OrderHoldsOn, PaymentHoldsOn, InventoryHoldsOn
  <2>7. PaymentsTell' /\ StockTells' /\ StatusTells'
    BY <1>1, <1>2, <2>1, <2>2, <2>4, <2>5, PaymentsQuiet, StockQuiet, StatusQuiet
  <2> QED BY <2>1, <2>5, <2>6, <2>7 DEF SInv, Holds
<1>7. CASE UNCHANGED vars
  <2>1. UNCHANGED <<outbox, oClaim, oSnap, orders, client, pClaim, payments,
                    iClaim, iSnap, inventory, reservations, deliveries>>
    BY <1>7 DEF vars, orderOwn, paymentOwn, inventoryOwn, deliveryOwn
  <2> QED BY <1>1, <2>1
          DEF SInv, Holds, OrderHolds, PaymentHolds, InventoryHolds, PaymentsTell, StockTells,
              DeliveriesTell, StatusTells, Announced, Refused
<1> QED BY <1>3, <1>4, <1>5, <1>6, <1>7 DEF Next


-------------------------------------------------------------------------------
(* The theorems. *)

LEMMA SpecSInv == Spec => []SInv
<1>1. Init => SInv
    BY InitSInv
<1>2. SInv /\ [Next]_vars => SInv'
    BY NextSInv
<1> QED BY <1>1, <1>2, PTL DEF Spec

(* What is delivered has been paid for and taken from stock, and stays so: *)
(* no handler of any service refunds it or puts it back on the shelf.      *)
THEOREM DeliveredPaid == Spec => []DeliveredIsPaid
<1>1. SInv => DeliveredIsPaid
    BY InvariantSuffices
<1> QED BY <1>1, SpecSInv, PTL

(* What the customer reads is true: the order service writes COMPLETED     *)
(* only after a delivery, and FAILED only when no delivery can come.       *)
THEOREM StatusTrue == Spec => []StatusIsTrue
<1>1. SInv => StatusIsTrue
    BY InvariantSuffices
<1> QED BY <1>1, SpecSInv, PTL

-------------------------------------------------------------------------------
(* The saga implements Choreography. *)

(* The story of an order is what is announced about it. *)
LEMMA ToldIsAnnounced ==
    \A o \in Orders : \A type : type \in Told[o] <=> Announced(type, o)
<1> SUFFICES ASSUME NEW o \in Orders, NEW type
             PROVE  type \in Told[o] <=> Announced(type, o)
    OBVIOUS
<1>1. Told[o] = {e.type : e \in {x \in outbox : x.order = o}}
    BY DEF Told
<1>2. type \in {e.type : e \in {x \in outbox : x.order = o}}
         <=> \E e \in outbox : e.order = o /\ e.type = type
    BY Zenon
<1> QED BY <1>1, <1>2 DEF Announced

(* A published event is news of its order, or was told before. *)
LEMMA PublishTells ==
    ASSUME outbox \subseteq Event, NEW type \in EventType, NEW o \in Orders,
           Publishes(type, o)
    PROVE  \/ UNCHANGED Told
           \/ /\ type \notin Told[o]
              /\ Told' = [Told EXCEPT ![o] = @ \cup {type}]
<1>1. \A other, p : Announced(other, p)'
         <=> Announced(other, p) \/ (other = type /\ p = o)
    BY PublishAnnounces
<1>2. \A p \in Orders : \A other : other \in Told[p] <=> Announced(other, p)
    BY ToldIsAnnounced
<1>3. ASSUME NEW p \in Orders, NEW other
      PROVE  other \in Told'[p] <=> Announced(other, p)'
  <2>1. Told'[p] = {e.type : e \in {x \in outbox' : x.order = p}}
    BY DEF Told
  <2>2. other \in {e.type : e \in {x \in outbox' : x.order = p}}
           <=> \E e \in outbox' : e.order = p /\ e.type = other
    BY Zenon
  <2> QED BY <2>1, <2>2 DEF Announced
<1>4. /\ Told = [p \in Orders |-> Told[p]]
      /\ Told' = [p \in Orders |-> Told'[p]]
    BY DEF Told
<1>5. \A p \in Orders \ {o} : Told'[p] = Told[p]
    BY <1>1, <1>2, <1>3
<1>6. Told'[o] = Told[o] \cup {type}
    BY <1>1, <1>2, <1>3
<1>7. CASE type \in Told[o]
    BY <1>4, <1>5, <1>6, <1>7
<1>8. CASE type \notin Told[o]
    BY <1>4, <1>5, <1>6, <1>8
<1> QED BY <1>7, <1>8

LEMMA NextTells == SInv /\ [Next]_vars => [Story!StoryNext]_Told
<1> SUFFICES ASSUME SInv, [Next]_vars PROVE [Story!StoryNext]_Told
    OBVIOUS
<1>1. outbox \subseteq Event
    BY DEF SInv, Holds
<1>2. \A o \in Orders : \A type : type \in Told[o] <=> Announced(type, o)
    BY ToldIsAnnounced
<1>3. /\ OrderCreated \in EventType /\ PaymentCompleted \in EventType
      /\ PaymentFailed \in EventType /\ PaymentRefunded \in EventType
      /\ StockReserved \in EventType /\ StockReservationFailed \in EventType
      /\ DeliveryStarted \in EventType
    BY DEF EventType
<1>4. CASE UNCHANGED outbox
    BY <1>4 DEF Told, Announced
<1>5. ASSUME NEW o \in Orders, Publishes(OrderCreated, o)
      PROVE  [Story!StoryNext]_Told
    BY <1>1, <1>3, <1>5, PublishTells DEF Story!StoryNext, Story!Create, Story!Announce
<1>6. ASSUME NEW o \in Orders, Announced(OrderCreated, o),
             Publishes(PaymentCompleted, o) \/ Publishes(PaymentFailed, o)
      PROVE  [Story!StoryNext]_Told
    BY <1>1, <1>2, <1>3, <1>6, PublishTells
    DEF Story!StoryNext, Story!Pay, Story!Decline, Story!Announce
<1>7. ASSUME NEW o \in Orders, Refused(o), Publishes(PaymentRefunded, o)
      PROVE  [Story!StoryNext]_Told
    BY <1>1, <1>2, <1>3, <1>7, PublishTells
    DEF Story!StoryNext, Story!Refund, Story!Announce, Refused
<1>8. ASSUME NEW o \in Orders, Announced(PaymentCompleted, o), ~ Refused(o),
             Publishes(StockReserved, o)
      PROVE  [Story!StoryNext]_Told
    BY <1>1, <1>2, <1>3, <1>8, PublishTells
    DEF Story!StoryNext, Story!Reserve, Story!Announce, Refused
<1>9. ASSUME NEW o \in Orders, Announced(PaymentCompleted, o), ~ Announced(StockReserved, o),
             Publishes(StockReservationFailed, o)
      PROVE  [Story!StoryNext]_Told
    BY <1>1, <1>2, <1>3, <1>9, PublishTells DEF Story!StoryNext, Story!Refuse, Story!Announce
<1>10. ASSUME NEW o \in Orders, Announced(StockReserved, o), Publishes(DeliveryStarted, o)
       PROVE  [Story!StoryNext]_Told
    BY <1>1, <1>2, <1>3, <1>10, PublishTells DEF Story!StoryNext, Story!Deliver, Story!Announce
<1>11. CASE OrderStep
    BY <1>4, <1>5, <1>11, OrderServes DEF OrderAnnounces
<1>12. CASE PaymentStep
    BY <1>4, <1>6, <1>7, <1>12, PaymentServes DEF PaymentAnnounces
<1>13. CASE InventoryStep
    BY <1>4, <1>8, <1>9, <1>13, InventoryServes DEF InventoryAnnounces
<1>14. CASE DeliveryStep
    BY <1>4, <1>10, <1>14, DeliveryServes DEF DeliveryAnnounces
<1>15. CASE UNCHANGED vars
    BY <1>4, <1>15 DEF vars
<1> QED BY <1>11, <1>12, <1>13, <1>14, <1>15 DEF Next

(* The four services together, with redelivery, failures and crashes, tell *)
(* of every order a story that Choreography allows.                        *)
THEOREM TellsTheStory == Spec => ChoreographyImplemented
<1>1. Init => Story!StoryInit
    BY DEF Init, Ord!Init, Ord!ChannelInit, Told, Announced, Story!StoryInit
<1>2. SInv /\ [Next]_vars => [Story!StoryNext]_Told
    BY NextTells
<1> QED BY <1>1, <1>2, SpecSInv, PTL DEF Spec, ChoreographyImplemented, Story!StorySpec

-------------------------------------------------------------------------------
(* The theorems about each service, read in its own view of the saga. *)

OrdProof == INSTANCE OrderServiceProofs WITH
            Topics <- OrderTopics, ForeignTypes <- OrderInputs,
            outbox <- Visible(OrderTypes),
            marked <- oMarked, idem <- oIdem, claim <- oClaim, snap <- oSnap

PayProof == INSTANCE PaymentServiceProofs WITH
            Topics <- PaymentTopics,
            outbox <- Visible(PaymentTypes),
            marked <- pMarked, idem <- pIdem, claim <- pClaim

InvProof == INSTANCE InventoryServiceProofs WITH
            Topics <- InventoryTopics,
            outbox <- Visible(InventoryTypes),
            marked <- iMarked, idem <- iIdem, claim <- iClaim, snap <- iSnap

DelProof == INSTANCE DeliveryServiceProofs WITH
            Topics <- DeliveryTopics,
            outbox <- Visible(DeliveryTypes),
            marked <- dMarked, idem <- dIdem, claim <- dClaim

USE DEF OrdProof!OrderCreated, OrdProof!PaymentCompleted, OrdProof!PaymentFailed,
        OrdProof!StockReserved, OrdProof!StockReservationFailed, OrdProof!DeliveryStarted,
        OrdProof!DeliveryFailed,
        PayProof!OrderCreated, PayProof!PaymentCompleted, PayProof!PaymentFailed,
        PayProof!PaymentRefunded, PayProof!StockReservationFailed,
        InvProof!PaymentCompleted, InvProof!PaymentRefunded, InvProof!StockReserved,
        InvProof!StockReservationFailed, InvProof!StockRestored,
        DelProof!StockReserved, DelProof!DeliveryStarted

(* What a view shows of a step that publishes. *)
LEMMA ViewPublishes ==
    ASSUME NEW types, NEW type, NEW o, Publishes(type, o)
    PROVE  /\ type \notin types => UNCHANGED Visible(types)
           /\ type \in types =>
                 \E n \in 1 .. MaxEvents :
                    LET ev(k) == [type |-> type, order |-> o, id |-> k] IN
                    /\ ev(n) \notin Visible(types)
                    /\ \A k \in 1 .. n - 1 : ev(k) \in Visible(types)
                    /\ Visible(types)' = Visible(types) \cup {ev(n)}
<1> DEFINE ev(k) == [type |-> type, order |-> o, id |-> k]
<1>1. PICK n \in 1 .. MaxEvents :
         /\ ev(n) \notin outbox
         /\ \A k \in 1 .. n - 1 : ev(k) \in outbox
         /\ outbox' = outbox \cup {ev(n)}
    BY DEF Publishes
<1>2. \A k : ev(k).type = type
    OBVIOUS
<1> HIDE DEF ev
<1>3. type \notin types => UNCHANGED Visible(types)
    BY <1>1, <1>2 DEF Visible
<1>4. type \in types =>
         /\ ev(n) \notin Visible(types)
         /\ \A k \in 1 .. n - 1 : ev(k) \in Visible(types)
         /\ Visible(types)' = Visible(types) \cup {ev(n)}
    BY <1>1, <1>2 DEF Visible
<1> QED BY <1>3, <1>4 DEF ev

(* The channel of a service is the same in its view. *)
LEMMA ViewChannel ==
    /\ UNCHANGED outbox => \A types : UNCHANGED Visible(types)
    /\ \A t \in OrderTopics : OrdProof!Delivered(t) = Ord!Delivered(t)
    /\ \A t \in PaymentTopics : PayProof!Delivered(t) = Pay!Delivered(t)
    /\ \A t \in InventoryTopics : InvProof!Delivered(t) = Inv!Delivered(t)
    /\ \A t \in DeliveryTopics : DelProof!Delivered(t) = Del!Delivered(t)
    /\ \A o : Ord!Send(OrderCreated, o) => OrdProof!Send(OrderCreated, o)
    /\ \A o : \A type \in {PaymentCompleted, PaymentFailed, PaymentRefunded} :
          Pay!Send(type, o) => PayProof!Send(type, o)
    /\ \A o : \A type \in {StockReserved, StockReservationFailed, StockRestored} :
          Inv!Send(type, o) => InvProof!Send(type, o)
    /\ \A o : Del!Send(DeliveryStarted, o) => DelProof!Send(DeliveryStarted, o)
<1>1. UNCHANGED outbox => \A types : UNCHANGED Visible(types)
    BY DEF Visible
<1>2. /\ \A t \in OrderTopics : OrdProof!Delivered(t) = Ord!Delivered(t)
      /\ \A t \in PaymentTopics : PayProof!Delivered(t) = Pay!Delivered(t)
      /\ \A t \in InventoryTopics : InvProof!Delivered(t) = Inv!Delivered(t)
      /\ \A t \in DeliveryTopics : DelProof!Delivered(t) = Del!Delivered(t)
    BY DEF Visible, OrderTypes, PaymentTypes, InventoryTypes, DeliveryTypes,
           OrdProof!Delivered, Ord!Delivered, PayProof!Delivered, Pay!Delivered,
           InvProof!Delivered, Inv!Delivered, DelProof!Delivered, Del!Delivered
<1>3. ASSUME NEW o, Ord!Send(OrderCreated, o) PROVE OrdProof!Send(OrderCreated, o)
  <2>1. Publishes(OrderCreated, o) /\ OrderCreated \in OrderTypes
    BY <1>3, SendPublishes DEF OrderTypes
  <2> QED BY <2>1, ViewPublishes DEF OrdProof!Send
<1>4. ASSUME NEW o, NEW type \in {PaymentCompleted, PaymentFailed, PaymentRefunded},
             Pay!Send(type, o)
      PROVE  PayProof!Send(type, o)
  <2>1. Publishes(type, o) /\ type \in PaymentTypes
    BY <1>4, SendPublishes DEF PaymentTypes
  <2> QED BY <2>1, ViewPublishes DEF PayProof!Send
<1>5. ASSUME NEW o, NEW type \in {StockReserved, StockReservationFailed, StockRestored},
             Inv!Send(type, o)
      PROVE  InvProof!Send(type, o)
  <2>1. Publishes(type, o) /\ type \in InventoryTypes
    BY <1>5, SendPublishes DEF InventoryTypes
  <2> QED BY <2>1, ViewPublishes DEF InvProof!Send
<1>6. ASSUME NEW o, Del!Send(DeliveryStarted, o) PROVE DelProof!Send(DeliveryStarted, o)
  <2>1. Publishes(DeliveryStarted, o) /\ DeliveryStarted \in DeliveryTypes
    BY <1>6, SendPublishes DEF DeliveryTypes
  <2> QED BY <2>1, ViewPublishes DEF DelProof!Send
<1> QED BY <1>1, <1>2, <1>3, <1>4, <1>5, <1>6

LEMMA OrderInView == ASSUME OrderStep PROVE OrdProof!Service
<1> USE ViewChannel
    DEF OrdProof!Fault, Ord!Fault, OrdProof!QueryFails, Ord!QueryFails,
        OrdProof!NotProcessed, Ord!NotProcessed,
        OrdProof!Begin, Ord!Begin, OrdProof!Goto, Ord!Goto, OrdProof!MarkMessage,
        Ord!MarkMessage, OrdProof!Idle, Ord!Idle, OrdProof!orderVars, Ord!orderVars,
        OrdProof!channelVars, Ord!channelVars
<1>1. ASSUME NEW c \in Clients
      PROVE  /\ \A o \in Orders : Ord!FindExisting(c, o) => OrdProof!FindExisting(c, o)
             /\ \A o \in Orders : Ord!FindNothing(c, o) => OrdProof!FindNothing(c, o)
             /\ Ord!Answer(c) => OrdProof!Answer(c)
             /\ Ord!RequestFails(c) => OrdProof!RequestFails(c)
    BY DEF Ord!FindExisting, OrdProof!FindExisting, Ord!FindNothing, OrdProof!FindNothing,
           Ord!Answer, OrdProof!Answer, Ord!CreateRow, OrdProof!CreateRow, Ord!CommitOrder,
           OrdProof!CommitOrder, Ord!RequestFails, OrdProof!RequestFails, Ord!ClientDone,
           OrdProof!ClientDone, Ord!NoRow, OrdProof!NoRow
<1>2. OrdProof!Handler = Ord!Handler
    BY DEF OrdProof!Handler, Ord!Handler, OrdProof!OrderTopics, Ord!OrderTopics,
           OrdProof!Status, Ord!Status,
           OrdProof!HandlePaymentCompleted, Ord!HandlePaymentCompleted,
           OrdProof!HandlePaymentFailed, Ord!HandlePaymentFailed,
           OrdProof!HandleStockReserved, Ord!HandleStockReserved,
           OrdProof!HandleStockReservationFailed, Ord!HandleStockReservationFailed,
           OrdProof!HandleDeliveryStarted, Ord!HandleDeliveryStarted,
           OrdProof!HandleDeliveryFailed, Ord!HandleDeliveryFailed
<1>3. ASSUME NEW t \in OrderTopics
      PROVE  /\ \A e : Ord!ReadOrder(t, e) => OrdProof!ReadOrder(t, e)
             /\ \A e : Ord!ReadFails(t, e) => OrdProof!ReadFails(t, e)
    BY <1>2 DEF Ord!ReadOrder, OrdProof!ReadOrder, Ord!ReadFails, OrdProof!ReadFails
<1>4. ASSUME NEW t \in OrderTopics
      PROVE  /\ Ord!WriteOrder(t) => OrdProof!WriteOrder(t)
             /\ Ord!WriteFails(t) => OrdProof!WriteFails(t)
    BY <1>2 DEF Ord!WriteOrder, OrdProof!WriteOrder, Ord!WriteFails, OrdProof!WriteFails,
           Ord!Fail, OrdProof!Fail, Ord!UpdateStatusWithVersion, OrdProof!UpdateStatusWithVersion
<1>5. ASSUME NEW t \in OrderTopics
      PROVE  /\ \A e : Ord!Skip(t, e) => OrdProof!Skip(t, e)
             /\ Ord!Finish(t) => OrdProof!Finish(t)
             /\ Ord!Drop(t) => OrdProof!Drop(t)
    BY DEF Ord!Skip, OrdProof!Skip, Ord!Finish, OrdProof!Finish, Ord!Drop, OrdProof!Drop
<1>6. /\ \A e : Ord!Redeliver(e) => OrdProof!Redeliver(e)
      /\ Ord!Crash => OrdProof!Crash
    BY DEF Ord!Redeliver, OrdProof!Redeliver, Ord!Crash, OrdProof!Crash,
           Ord!CrashClaims, OrdProof!CrashClaims
<1>7. \A t \in OrderTopics : Ord!Serve(t) => OrdProof!Serve(t)
    BY <1>3, <1>4, <1>5 DEF Ord!Serve, OrdProof!Serve
<1>8. Ord!Errors => OrdProof!Errors
    BY <1>1, <1>3, <1>4, <1>6 DEF Ord!Errors, OrdProof!Errors
<1> QED BY <1>1, <1>7, <1>8 DEF OrderStep, Ord!Service, OrdProof!Service

LEMMA PaymentInView == ASSUME PaymentStep PROVE PayProof!Service
<1> USE ViewChannel
    DEF PayProof!Fault, Pay!Fault, PayProof!QueryFails, Pay!QueryFails,
        PayProof!NotProcessed, Pay!NotProcessed,
        PayProof!Begin, Pay!Begin, PayProof!Goto, Pay!Goto, PayProof!MarkMessage,
        Pay!MarkMessage, PayProof!Idle, Pay!Idle, PayProof!paymentVars, Pay!paymentVars
<1>1. ASSUME NEW e
      PROVE  /\ Pay!FindPayment(e) => PayProof!FindPayment(e)
             /\ Pay!FindRefundable(e) => PayProof!FindRefundable(e)
             /\ Pay!FindRefundableFails(e) => PayProof!FindRefundableFails(e)
    BY DEF PaymentTopics, Pay!FindPayment, PayProof!FindPayment, Pay!FindRefundable,
           PayProof!FindRefundable, Pay!FindRefundableFails, PayProof!FindRefundableFails
<1>2. ASSUME NEW o
      PROVE  /\ Pay!PaymentStep(o) => PayProof!PaymentStep(o)
             /\ Pay!RefundStep(o) => PayProof!RefundStep(o)
    BY DEF Pay!PaymentStep, PayProof!PaymentStep, Pay!RefundStep, PayProof!RefundStep,
           Pay!Charge, PayProof!Charge, Pay!Decline, PayProof!Decline, Pay!CreatePayment,
           PayProof!CreatePayment, Pay!CommitPayment, PayProof!CommitPayment, Pay!Refund,
           PayProof!Refund, Pay!UpdatePayment, PayProof!UpdatePayment, Pay!CommitRefund,
           PayProof!CommitRefund
<1>3. ASSUME NEW t \in PaymentTopics
      PROVE  /\ \A e : Pay!Skip(t, e) => PayProof!Skip(t, e)
             /\ Pay!Finish(t) => PayProof!Finish(t)
             /\ Pay!Drop(t) => PayProof!Drop(t)
             /\ Pay!Fail(t) => PayProof!Fail(t)
    BY DEF Pay!Skip, PayProof!Skip, Pay!Finish, PayProof!Finish, Pay!Drop, PayProof!Drop,
           Pay!Fail, PayProof!Fail
<1>4. /\ \A e : Pay!Redeliver(e) => PayProof!Redeliver(e)
      /\ Pay!CrashClaims => PayProof!CrashClaims
    BY DEF Pay!Redeliver, PayProof!Redeliver, Pay!CrashClaims, PayProof!CrashClaims
<1>5. \A t \in PaymentTopics : Pay!Serve(t) => PayProof!Serve(t)
    BY <1>1, <1>2, <1>3
    DEF Pay!Serve, PayProof!Serve, Pay!HandleOrderCreated, PayProof!HandleOrderCreated,
        Pay!HandleStockReservationFailed, PayProof!HandleStockReservationFailed, PaymentTopics
<1>6. Pay!Errors => PayProof!Errors
    BY <1>1, <1>3, <1>4 DEF Pay!Errors, PayProof!Errors, PaymentTopics
<1> QED BY <1>5, <1>6 DEF PaymentStep, Pay!Service, PayProof!Service

LEMMA InventoryInView == ASSUME InventoryStep PROVE InvProof!Service
<1> USE ViewChannel
    DEF InvProof!Fault, Inv!Fault, InvProof!QueryFails, Inv!QueryFails,
        InvProof!NotProcessed, Inv!NotProcessed,
        InvProof!Begin, Inv!Begin, InvProof!Goto, Inv!Goto, InvProof!MarkMessage,
        Inv!MarkMessage, InvProof!Idle, Inv!Idle, InvProof!inventoryVars, Inv!inventoryVars,
        InvProof!NothingRead, Inv!NothingRead, InvProof!Quantity, Inv!Quantity
<1>1. ASSUME NEW t \in InventoryTopics
      PROVE  /\ \A e : Inv!LockRow(t, e) => InvProof!LockRow(t, e)
             /\ \A pc : Inv!EndTx(t, pc) => InvProof!EndTx(t, pc)
             /\ Inv!SameVersion(t) <=> InvProof!SameVersion(t)
    BY DEF Inv!LockRow, InvProof!LockRow, Inv!RowLocked, InvProof!RowLocked, Inv!EndTx,
           InvProof!EndTx, Inv!SameVersion, InvProof!SameVersion
<1>2. ASSUME NEW e
      PROVE  /\ Inv!FindReservation(e) => InvProof!FindReservation(e)
             /\ Inv!FindReserved(e) => InvProof!FindReserved(e)
             /\ \A t \in InventoryTopics : Inv!FindFails(t, e) => InvProof!FindFails(t, e)
    BY <1>1 DEF InventoryTopics, Inv!FindReservation, InvProof!FindReservation,
           Inv!FindReserved, InvProof!FindReserved, Inv!FindFails, InvProof!FindFails
<1>3. ASSUME NEW o
      PROVE  /\ Inv!CommitReservation(o) => InvProof!CommitReservation(o)
             /\ Inv!RefuseReservation(o) => InvProof!RefuseReservation(o)
             /\ Inv!CommitRestoration(o) => InvProof!CommitRestoration(o)
             /\ Inv!RollbackRestoration => InvProof!RollbackRestoration
    BY <1>1 DEF InventoryTopics, Inv!CommitReservation, InvProof!CommitReservation,
           Inv!RefuseReservation, InvProof!RefuseReservation, Inv!CommitRestoration,
           InvProof!CommitRestoration, Inv!RollbackRestoration, InvProof!RollbackRestoration,
           Inv!CanReserve, InvProof!CanReserve, Inv!CanCancel, InvProof!CanCancel,
           Inv!Reserve, InvProof!Reserve, Inv!Restore, InvProof!Restore
<1>4. ASSUME NEW t \in InventoryTopics
      PROVE  /\ \A e : Inv!Skip(t, e) => InvProof!Skip(t, e)
             /\ Inv!Finish(t) => InvProof!Finish(t)
             /\ Inv!Drop(t) => InvProof!Drop(t)
             /\ Inv!TxFails(t) => InvProof!TxFails(t)
    BY DEF Inv!Skip, InvProof!Skip, Inv!Finish, InvProof!Finish, Inv!Drop, InvProof!Drop,
           Inv!TxFails, InvProof!TxFails, Inv!Fail, InvProof!Fail
<1>5. /\ \A e : Inv!Redeliver(e) => InvProof!Redeliver(e)
      /\ Inv!Crash => InvProof!Crash
    BY DEF Inv!Redeliver, InvProof!Redeliver, Inv!Crash, InvProof!Crash,
           Inv!CrashClaims, InvProof!CrashClaims
<1>6. \A t \in InventoryTopics : Inv!Serve(t) => InvProof!Serve(t)
    BY <1>2, <1>3, <1>4
    DEF Inv!Serve, InvProof!Serve, Inv!HandlePaymentCompleted, InvProof!HandlePaymentCompleted,
        Inv!HandlePaymentRefunded, InvProof!HandlePaymentRefunded, InventoryTopics
<1>7. Inv!Errors => InvProof!Errors
    BY <1>2, <1>4, <1>5 DEF Inv!Errors, InvProof!Errors
<1> QED BY <1>6, <1>7 DEF InventoryStep, Inv!Service, InvProof!Service

LEMMA DeliveryInView == ASSUME DeliveryStep PROVE DelProof!Service
<1> USE ViewChannel
    DEF DelProof!Fault, Del!Fault, DelProof!QueryFails, Del!QueryFails,
        DelProof!NotProcessed, Del!NotProcessed,
        DelProof!Begin, Del!Begin, DelProof!MarkMessage, Del!MarkMessage,
        DelProof!Idle, Del!Idle, DeliveryTopics
<1>1. ASSUME NEW e
      PROVE  /\ Del!HandleStockReserved(e) => DelProof!HandleStockReserved(e)
             /\ Del!TxFails(e) => DelProof!TxFails(e)
             /\ Del!Skip(StockReserved, e) => DelProof!Skip(StockReserved, e)
             /\ Del!Redeliver(e) => DelProof!Redeliver(e)
    BY DEF Del!HandleStockReserved, DelProof!HandleStockReserved, Del!TxFails,
           DelProof!TxFails, Del!Skip, DelProof!Skip, Del!Redeliver, DelProof!Redeliver
<1>2. /\ Del!Finish(StockReserved) => DelProof!Finish(StockReserved)
      /\ Del!Drop(StockReserved) => DelProof!Drop(StockReserved)
      /\ Del!CrashClaims => DelProof!CrashClaims
    BY DEF Del!Finish, DelProof!Finish, Del!Drop, DelProof!Drop, Del!CrashClaims,
           DelProof!CrashClaims
<1> QED BY <1>1, <1>2
        DEF DeliveryStep, Del!Service, DelProof!Service, Del!Consume, DelProof!Consume,
            Del!Errors, DelProof!Errors

-------------------------------------------------------------------------------
(* What each service announces is what the views of the others allow. *)

Grounds(type, o) ==
    /\ type = OrderCreated <=> ~ Announced(OrderCreated, o)
    /\ type \in {PaymentCompleted, StockReserved, DeliveryStarted} => ~ Announced(type, o)
    /\ type = StockReservationFailed => Announced(PaymentCompleted, o)
    /\ type = PaymentRefunded => Refused(o)

News(types) ==
    \/ UNCHANGED outbox
    \/ \E o \in Orders, type \in types : Grounds(type, o) /\ Publishes(type, o)

(* Nothing is announced about an order that was not created. *)
Created == \A o \in Orders : \A type : Announced(type, o) => Announced(OrderCreated, o)

(* Each service keeps its own invariant in its view. *)
OrderHonest     == OrdProof!TypeOK /\ OrdProof!SnapOK /\ OrdProof!StartInv
PaymentHonest   == PayProof!IInv /\ PayProof!GInv
InventoryHonest == InvProof!IInv
DeliveryHonest  == DelProof!TypeOK /\ DelProof!DeliveryAnnounced

Honest == OrderHonest /\ PaymentHonest /\ InventoryHonest /\ DeliveryHonest

RInv == SInv /\ Created /\ Honest

LEMMA ViewEvents ==
    /\ OrdProof!EventType = EventType /\ PayProof!EventType = EventType
    /\ InvProof!EventType = EventType /\ DelProof!EventType = EventType
    /\ OrdProof!Event = Event /\ PayProof!Event = Event
    /\ InvProof!Event = Event /\ DelProof!Event = Event
BY DEF Event, OrdProof!Event, PayProof!Event, InvProof!Event, DelProof!Event, EventType,
       OrdProof!EventType, PayProof!EventType, InvProof!EventType, DelProof!EventType,
       PayProof!StockReserved, PayProof!StockRestored,
       PayProof!DeliveryStarted, PayProof!DeliveryFailed, OrdProof!PaymentRefunded,
       OrdProof!StockRestored, InvProof!OrderCreated, InvProof!PaymentFailed,
       InvProof!DeliveryStarted, InvProof!DeliveryFailed, DelProof!OrderCreated,
       DelProof!PaymentCompleted, DelProof!PaymentFailed, DelProof!PaymentRefunded,
       DelProof!StockReservationFailed, DelProof!StockRestored, DelProof!DeliveryFailed

(* What the theorems of the services assume of the constants. *)
LEMMA ViewAssumptions ==
    /\ MaxEvents \in Nat \ {0} /\ MaxFaults \in Nat /\ Stocks \subseteq Nat
    /\ OrdProof!IsFiniteSet(Orders) /\ PayProof!IsFiniteSet(Orders)
    /\ InvProof!IsFiniteSet(Orders) /\ DelProof!IsFiniteSet(Orders)
    /\ NoEvent \notin OrdProof!Event /\ NoEvent \notin PayProof!Event
    /\ NoEvent \notin InvProof!Event /\ NoEvent \notin DelProof!Event
    /\ FaultKinds \subseteq OrdProof!FaultKind /\ FaultKinds \subseteq PayProof!FaultKind
    /\ FaultKinds \subseteq InvProof!FaultKind /\ FaultKinds \subseteq DelProof!FaultKind
    /\ OrderTopics \subseteq OrdProof!EventType /\ PaymentTopics \subseteq PayProof!EventType
    /\ InventoryTopics \subseteq InvProof!EventType
    /\ DeliveryTopics \subseteq DelProof!EventType
    /\ OrderTopics = OrdProof!OrderTopics /\ OrderInputs \subseteq OrdProof!OrderTopics
    /\ PaymentTopics = PayProof!PaymentTopics
    /\ InventoryTopics = InvProof!InventoryTopics
    /\ DelProof!SubscribedTopics
<1>1. /\ OrdProof!IsFiniteSet(Orders) /\ PayProof!IsFiniteSet(Orders)
      /\ InvProof!IsFiniteSet(Orders) /\ DelProof!IsFiniteSet(Orders)
    BY OrdersAssumption
    DEF IsFiniteSet, OrdProof!IsFiniteSet, PayProof!IsFiniteSet, InvProof!IsFiniteSet,
        DelProof!IsFiniteSet
<1>3. /\ NoEvent \notin OrdProof!Event /\ NoEvent \notin PayProof!Event
      /\ NoEvent \notin InvProof!Event /\ NoEvent \notin DelProof!Event
    BY ViewEvents, NoEventAssumption
<1>4. /\ FaultKinds \subseteq OrdProof!FaultKind /\ FaultKinds \subseteq PayProof!FaultKind
      /\ FaultKinds \subseteq InvProof!FaultKind /\ FaultKinds \subseteq DelProof!FaultKind
    BY FaultKindsAssumption
    DEF OrdProof!FaultKind, PayProof!FaultKind, InvProof!FaultKind, DelProof!FaultKind
<1>5. /\ OrderTopics = OrdProof!OrderTopics /\ OrderInputs \subseteq OrdProof!OrderTopics
      /\ PaymentTopics = PayProof!PaymentTopics
      /\ InventoryTopics = InvProof!InventoryTopics
      /\ DelProof!SubscribedTopics
    BY DEF OrderTopics, OrdProof!OrderTopics, OrderInputs, PaymentTopics,
           PayProof!PaymentTopics, InventoryTopics, InvProof!InventoryTopics, DeliveryTopics,
           DelProof!DeliveryTopics, DelProof!SubscribedTopics
<1>6. /\ OrderTopics \subseteq OrdProof!EventType /\ PaymentTopics \subseteq PayProof!EventType
      /\ InventoryTopics \subseteq InvProof!EventType
      /\ DeliveryTopics \subseteq DelProof!EventType
    BY ViewEvents DEF OrderTopics, PaymentTopics, InventoryTopics, DeliveryTopics, EventType
<1> QED BY <1>1, <1>3, <1>4, <1>5, <1>6, MaxEventsAssumption, MaxFaultsAssumption,
           StocksAssumption

(* The invariants of the services, in the words of the views. *)
LEMMA HonestInit ==
    OrdProof!Init /\ PayProof!Init /\ InvProof!Init /\ DelProof!Init => Honest
BY ViewAssumptions, OrdProof!InitTypeOK, OrdProof!InitSnapOK, OrdProof!InitStartInv,
   PayProof!InitIInv, PayProof!InitGInv, InvProof!InitIInv, DelProof!InitTypeOK,
   DelProof!InitAnnounced
DEF Honest, OrderHonest, PaymentHonest, InventoryHonest, DeliveryHonest

LEMMA HonestSteps ==
    /\ OrderHonest /\ [OrdProof!Next]_OrdProof!vars => OrderHonest'
    /\ PaymentHonest /\ [PayProof!Next]_PayProof!vars => PaymentHonest'
    /\ InventoryHonest /\ [InvProof!Next]_InvProof!vars => InventoryHonest'
    /\ DeliveryHonest /\ [DelProof!Next]_DelProof!vars => DeliveryHonest'
<1>1. OrderHonest /\ [OrdProof!Next]_OrdProof!vars => OrderHonest'
    BY ViewAssumptions, OrdProof!NextTypeOK, OrdProof!NextSnapOK, OrdProof!NextStartInv
    DEF OrderHonest
<1>2. PaymentHonest /\ [PayProof!Next]_PayProof!vars => PaymentHonest'
    BY ViewAssumptions, PayProof!NextIInv, PayProof!NextGInv DEF PaymentHonest, PayProof!IInv
<1>3. InventoryHonest /\ [InvProof!Next]_InvProof!vars => InventoryHonest'
    BY ViewAssumptions, InvProof!NextIInv DEF InventoryHonest
<1>4. DeliveryHonest /\ [DelProof!Next]_DelProof!vars => DeliveryHonest'
    BY ViewAssumptions, DelProof!NextTypeOK, DelProof!NextAnnounced DEF DeliveryHonest
<1> QED BY <1>1, <1>2, <1>3, <1>4

(* A view has the announcements of its types. *)
LEMMA ViewAnnounced ==
    /\ \A type \in OrderTypes : \A o : OrdProof!Announced(type, o) <=> Announced(type, o)
    /\ \A type \in PaymentTypes : \A o : PayProof!Announced(type, o) <=> Announced(type, o)
    /\ \A type \in InventoryTypes : \A o : InvProof!Announced(type, o) <=> Announced(type, o)
    /\ \A type \in DeliveryTypes : \A o : DelProof!Announced(type, o) <=> Announced(type, o)
BY DEF Visible, Announced, OrdProof!Announced, PayProof!Announced, InvProof!Announced,
       DelProof!Announced

(* The faults are the common budget of the services. *)
FaultsMove == UNCHANGED faults \/ \E kind \in FaultKinds : Ord!Fault(kind)

LEMMA StepsFault ==
    ASSUME OrderStep \/ PaymentStep \/ InventoryStep \/ DeliveryStep PROVE FaultsMove
<1> USE DEF Pay!Fault, Inv!Fault, Del!Fault, Ord!Fault, Pay!QueryFails, Inv!QueryFails,
            Del!QueryFails, Ord!QueryFails, FaultsMove
<1>1. CASE OrderStep
  <2>1. ASSUME NEW t \in OrderTopics, Ord!Serve(t) PROVE FaultsMove
    BY <2>1 DEF Ord!Serve, Ord!ReadOrder, Ord!NotProcessed, Ord!WriteOrder, Ord!Skip,
                Ord!Finish, Ord!Drop
  <2>2. ASSUME Ord!Errors PROVE FaultsMove
    BY <2>2 DEF Ord!Errors, Ord!RequestFails, Ord!ReadFails, Ord!WriteFails, Ord!Fail,
                Ord!Redeliver, Ord!Crash, Ord!CrashClaims
  <2> QED BY <1>1, <2>1, <2>2
          DEF OrderStep, Ord!Service, Ord!FindExisting, Ord!FindNothing, Ord!Answer,
              Ord!CreateRow, Ord!CommitOrder, Ord!channelVars
<1>2. CASE PaymentStep
  <2>1. ASSUME NEW t \in PaymentTopics, Pay!Serve(t) PROVE FaultsMove
    BY <2>1 DEF Pay!Serve, Pay!HandleOrderCreated, Pay!HandleStockReservationFailed,
                Pay!FindPayment, Pay!FindRefundable, Pay!NotProcessed, Pay!PaymentStep,
                Pay!Charge, Pay!Decline, Pay!CreatePayment, Pay!CommitPayment,
                Pay!RefundStep, Pay!Refund, Pay!UpdatePayment, Pay!CommitRefund, Pay!Skip,
                Pay!Finish, Pay!Drop
  <2> QED BY <1>2, <2>1
          DEF PaymentStep, Pay!Service, Pay!Errors, Pay!Fail, Pay!FindRefundableFails,
              Pay!Redeliver, Pay!CrashClaims
<1>3. CASE InventoryStep
  <2>1. ASSUME NEW t \in InventoryTopics, Inv!Serve(t) PROVE FaultsMove
    BY <2>1 DEF Inv!Serve, Inv!HandlePaymentCompleted, Inv!HandlePaymentRefunded,
                Inv!FindReservation, Inv!FindReserved, Inv!NotProcessed, Inv!LockRow,
                Inv!CommitReservation, Inv!RefuseReservation, Inv!CommitRestoration,
                Inv!RollbackRestoration, Inv!EndTx, Inv!Skip, Inv!Finish, Inv!Drop
  <2> QED BY <1>3, <2>1
          DEF InventoryStep, Inv!Service, Inv!Errors, Inv!FindFails, Inv!TxFails, Inv!Fail,
              Inv!Redeliver, Inv!Crash, Inv!CrashClaims
<1>4. CASE DeliveryStep
    BY <1>4 DEF DeliveryStep, Del!Service, Del!Consume, Del!HandleStockReserved,
                Del!NotProcessed, Del!Skip, Del!Finish, Del!Drop, Del!Errors, Del!TxFails,
                Del!Redeliver, Del!CrashClaims
<1> QED BY <1>1, <1>2, <1>3, <1>4

(* An event that is alone of its type and order was not announced before. *)
LEMMA AloneIsFirst ==
    ASSUME NEW type, NEW o, NEW types, type \in types, Publishes(type, o),
           \A e, f \in Visible(types)' :
              e.type = type /\ f.type = type /\ e.order = o /\ f.order = o => e = f
    PROVE  ~ Announced(type, o)
<1> DEFINE ev(k) == [type |-> type, order |-> o, id |-> k]
<1>1. PICK n \in 1 .. MaxEvents : ev(n) \notin outbox /\ outbox' = outbox \cup {ev(n)}
    BY DEF Publishes
<1>2. ev(n).type = type /\ ev(n).order = o
    OBVIOUS
<1> HIDE DEF ev
<1>3. ev(n) \in Visible(types)'
    BY <1>1, <1>2 DEF Visible
<1>4. ASSUME NEW f \in outbox, f.type = type, f.order = o PROVE FALSE
  <2>1. f \in Visible(types)'
    BY <1>1, <1>4 DEF Visible
  <2> QED BY <1>1, <1>2, <1>3, <1>4, <2>1
<1> QED BY <1>4 DEF Announced

LEMMA OrderNews == ASSUME RInv, OrderStep PROVE News({OrderCreated}) /\ OrderHonest'
<1>1. OrderHonest'
    BY HonestSteps, OrderInView DEF RInv, Honest, OrdProof!Next
<1>2. ASSUME NEW o \in Orders, Publishes(OrderCreated, o) PROVE ~ Announced(OrderCreated, o)
  <2>1. OrderCreated \in OrderTypes
    BY DEF OrderTypes
  <2>2. \A e, f \in Visible(OrderTypes)' :
           e.type = OrderCreated /\ f.type = OrderCreated /\ e.order = o /\ f.order = o => e = f
    BY <1>1 DEF OrderHonest, OrdProof!StartInv, OrdProof!OneOrderCreated
  <2> QED BY <1>2, <2>1, <2>2, AloneIsFirst
<1> QED BY <1>1, <1>2, OrderServes DEF RInv, OrderAnnounces, News, Grounds

LEMMA PaymentNews ==
    ASSUME RInv, PaymentStep
    PROVE  News({PaymentCompleted, PaymentFailed, PaymentRefunded}) /\ PaymentHonest'
<1>1. PaymentHonest'
    BY HonestSteps, PaymentInView DEF RInv, Honest, PayProof!Next
<1>2. ASSUME NEW o \in Orders, Publishes(PaymentCompleted, o)
      PROVE  ~ Announced(PaymentCompleted, o)
  <2>1. PaymentCompleted \in PaymentTypes
    BY DEF PaymentTypes
  <2>2. \A e, f \in Visible(PaymentTypes)' :
           e.type = PaymentCompleted /\ f.type = PaymentCompleted
              /\ e.order = o /\ f.order = o => e = f
    BY <1>1 DEF PaymentHonest, PayProof!IInv, PayProof!OneVerdict
  <2> QED BY <1>2, <2>1, <2>2, AloneIsFirst
<1>3. ASSUME NEW o \in Orders, Refused(o) PROVE Announced(OrderCreated, o)
    BY <1>3 DEF RInv, Created, Refused
<1> QED BY <1>1, <1>2, <1>3, PaymentServes DEF RInv, PaymentAnnounces, News, Grounds

LEMMA InventoryNews ==
    ASSUME RInv, InventoryStep
    PROVE  News({StockReserved, StockReservationFailed}) /\ InventoryHonest'
<1>1. InventoryHonest'
    BY HonestSteps, InventoryInView DEF RInv, Honest, InvProof!Next
<1>2. ASSUME NEW o \in Orders, Publishes(StockReserved, o) PROVE ~ Announced(StockReserved, o)
  <2>1. StockReserved \in InventoryTypes
    BY DEF InventoryTypes
  <2>2. \A e, f \in Visible(InventoryTypes)' :
           e.type = StockReserved /\ f.type = StockReserved
              /\ e.order = o /\ f.order = o => e = f
    BY <1>1 DEF InventoryHonest, InvProof!IInv, InvProof!ReservationAnnounced
  <2> QED BY <1>2, <2>1, <2>2, AloneIsFirst
<1>3. ASSUME NEW o \in Orders, Announced(PaymentCompleted, o)
      PROVE  Announced(OrderCreated, o)
    BY <1>3 DEF RInv, Created
<1> QED BY <1>1, <1>2, <1>3, InventoryServes DEF RInv, InventoryAnnounces, News, Grounds

LEMMA DeliveryNews ==
    ASSUME RInv, DeliveryStep PROVE News({DeliveryStarted}) /\ DeliveryHonest'
<1>1. DeliveryHonest'
    BY HonestSteps, DeliveryInView DEF RInv, Honest, DelProof!Next
<1>2. ASSUME NEW o \in Orders, Publishes(DeliveryStarted, o)
      PROVE  ~ Announced(DeliveryStarted, o)
  <2>1. DeliveryStarted \in DeliveryTypes
    BY DEF DeliveryTypes
  <2>2. \A e, f \in Visible(DeliveryTypes)' :
           e.type = DeliveryStarted /\ f.type = DeliveryStarted
              /\ e.order = o /\ f.order = o => e = f
    BY <1>1 DEF DeliveryHonest, DelProof!DeliveryAnnounced
  <2> QED BY <1>2, <2>1, <2>2, AloneIsFirst
<1>3. ASSUME NEW o \in Orders, Announced(StockReserved, o) PROVE Announced(OrderCreated, o)
    BY <1>3 DEF RInv, Created
<1> QED BY <1>1, <1>2, <1>3, DeliveryServes DEF RInv, DeliveryAnnounces, News, Grounds

(* How the news of others shows in a view. *)
LEMMA ViewNews ==
    ASSUME NEW types \in SUBSET EventType, News(types), NEW shown
    PROVE  \/ UNCHANGED Visible(shown)
           \/ \E e \in Event :
                 /\ e.type \in types \cap shown /\ Grounds(e.type, e.order)
                 /\ \A k \in 1 .. e.id - 1 : [e EXCEPT !.id = k] \in Visible(shown)
                 /\ Visible(shown)' = Visible(shown) \cup {e}
<1>1. CASE UNCHANGED outbox
    BY <1>1 DEF Visible
<1>2. ASSUME NEW o \in Orders, NEW type \in types, Grounds(type, o), Publishes(type, o),
             type \in shown
      PROVE  \E e \in Event :
                 /\ e.type \in types \cap shown /\ Grounds(e.type, e.order)
                 /\ \A k \in 1 .. e.id - 1 : [e EXCEPT !.id = k] \in Visible(shown)
                 /\ Visible(shown)' = Visible(shown) \cup {e}
  <2>1. PICK n \in 1 .. MaxEvents :
           LET ev(k) == [type |-> type, order |-> o, id |-> k] IN
           /\ ev(n) \notin Visible(shown)
           /\ \A k \in 1 .. n - 1 : ev(k) \in Visible(shown)
           /\ Visible(shown)' = Visible(shown) \cup {ev(n)}
    BY <1>2, ViewPublishes
  <2> DEFINE e == [type |-> type, order |-> o, id |-> n]
  <2>2. e \in Event /\ e.type = type /\ e.order = o /\ e.id = n
    BY DEF Event
  <2>3. \A k : [e EXCEPT !.id = k] = [type |-> type, order |-> o, id |-> k]
    OBVIOUS
  <2>4. \A k \in 1 .. e.id - 1 : [e EXCEPT !.id = k] \in Visible(shown)
    BY <2>1, <2>2, <2>3
  <2>5. Visible(shown)' = Visible(shown) \cup {e}
    BY <2>1
  <2> HIDE DEF e
  <2> QED BY <1>2, <2>2, <2>4, <2>5
<1> QED BY <1>1, <1>2, ViewPublishes DEF News

(* The events that are ever announced. *)
Announcements == {OrderCreated, PaymentCompleted, PaymentFailed, PaymentRefunded,
                  StockReserved, StockReservationFailed, DeliveryStarted}

(* What the others announce is what the view's environment may announce. *)
LEMMA NewsIsForeign ==
    ASSUME FaultsMove, NEW types \in SUBSET Announcements, News(types)
    PROVE  /\ OrderCreated \notin types /\ UNCHANGED orderOwn => OrdProof!Environment
           /\ {PaymentCompleted, PaymentFailed, PaymentRefunded} \cap types = {}
                 /\ UNCHANGED paymentOwn => PayProof!Environment
           /\ {StockReserved, StockReservationFailed} \cap types = {}
                 /\ UNCHANGED inventoryOwn => InvProof!Environment
           /\ DeliveryStarted \notin types /\ UNCHANGED deliveryOwn => DelProof!Environment
<1>1. \A kind : /\ Ord!Fault(kind) <=> OrdProof!Fault(kind)
                /\ Ord!Fault(kind) <=> PayProof!Fault(kind)
                /\ Ord!Fault(kind) <=> InvProof!Fault(kind)
                /\ Ord!Fault(kind) <=> DelProof!Fault(kind)
    BY DEF Ord!Fault, OrdProof!Fault, PayProof!Fault, InvProof!Fault, DelProof!Fault
<1>2. types \in SUBSET EventType
    BY DEF Announcements, EventType
<1>3. OrdProof!Event = Event /\ PayProof!Event = Event
      /\ InvProof!Event = Event /\ DelProof!Event = Event
    BY ViewEvents
<1>4. ASSUME OrderCreated \notin types, UNCHANGED orderOwn PROVE OrdProof!Environment
  <2>1. ASSUME NEW e \in Event, e.type \in types \cap OrderTypes, Grounds(e.type, e.order)
        PROVE  e \in OrdProof!Foreign
    BY <1>3, <1>4, <2>1, ViewAnnounced
    DEF OrdProof!Foreign, Grounds, OrderTypes, OrderTopics, OrderInputs, Announcements
  <2> QED BY <1>1, <1>2, <1>4, <2>1, ViewNews
          DEF OrdProof!Environment, OrdProof!Elsewhere, OrdProof!orderVars, FaultsMove, orderOwn
<1>5. ASSUME {PaymentCompleted, PaymentFailed, PaymentRefunded} \cap types = {},
             UNCHANGED paymentOwn
      PROVE  PayProof!Environment
  <2>1. ASSUME NEW e \in Event, e.type \in types \cap PaymentTypes, Grounds(e.type, e.order)
        PROVE  e \in PayProof!Foreign
    BY <1>3, <1>5, <2>1, ViewAnnounced
    DEF PayProof!Foreign, Grounds, PaymentTypes, PaymentTopics
  <2> QED BY <1>1, <1>2, <1>5, <2>1, ViewNews
          DEF PayProof!Environment, PayProof!Elsewhere, PayProof!paymentVars, FaultsMove,
              paymentOwn
<1>6. ASSUME {StockReserved, StockReservationFailed} \cap types = {}, UNCHANGED inventoryOwn
      PROVE  InvProof!Environment
  <2>1. ASSUME NEW e \in Event, e.type \in types \cap InventoryTypes, Grounds(e.type, e.order)
        PROVE  e \in InvProof!Foreign
    BY <1>3, <1>6, <2>1, ViewAnnounced
    DEF InvProof!Foreign, InvProof!Answered, Grounds, Refused, InventoryTypes,
        InventoryTopics, Announcements
  <2> QED BY <1>1, <1>2, <1>6, <2>1, ViewNews
          DEF InvProof!Environment, InvProof!Elsewhere, InvProof!inventoryVars, FaultsMove,
              inventoryOwn
<1>7. ASSUME DeliveryStarted \notin types, UNCHANGED deliveryOwn PROVE DelProof!Environment
  <2>1. ASSUME NEW e \in Event, e.type \in types \cap DeliveryTypes, Grounds(e.type, e.order)
        PROVE  e \in DelProof!Foreign
    BY <1>3, <1>7, <2>1, ViewAnnounced
    DEF DelProof!Foreign, Grounds, DeliveryTypes, DeliveryTopics
  <2> QED BY <1>1, <1>2, <1>7, <2>1, ViewNews
          DEF DelProof!Environment, DelProof!Elsewhere, FaultsMove, deliveryOwn
<1> QED BY <1>4, <1>5, <1>6, <1>7

LEMMA OrderBridge ==
    /\ OrdProof!Init => OrdView!Init
    /\ [OrdProof!Next]_OrdProof!vars => [OrdView!Next]_OrdView!vars
<1> USE DEF OrdProof!OrderCreated, OrdView!OrderCreated, OrdProof!PaymentCompleted,
        OrdView!PaymentCompleted, OrdProof!PaymentFailed, OrdView!PaymentFailed,
        OrdProof!PaymentRefunded, OrdView!PaymentRefunded, OrdProof!StockReserved,
        OrdView!StockReserved, OrdProof!StockReservationFailed,
        OrdView!StockReservationFailed, OrdProof!StockRestored, OrdView!StockRestored,
        OrdProof!DeliveryStarted, OrdView!DeliveryStarted, OrdProof!DeliveryFailed,
        OrdView!DeliveryFailed, OrdProof!EventType, OrdView!EventType, OrdProof!Event,
        OrdView!Event, OrdProof!OrderTopics, OrdView!OrderTopics, OrdProof!FaultKind,
        OrdView!FaultKind, OrdProof!channelVars, OrdView!channelVars, OrdProof!Idle,
        OrdView!Idle, OrdProof!ChannelInit, OrdView!ChannelInit, OrdProof!Announced,
        OrdView!Announced, OrdProof!Fault, OrdView!Fault, OrdProof!Send, OrdView!Send,
        OrdProof!Delivered, OrdView!Delivered, OrdProof!Begin, OrdView!Begin,
        OrdProof!NotProcessed, OrdView!NotProcessed, OrdProof!Goto, OrdView!Goto,
        OrdProof!MarkMessage, OrdView!MarkMessage, OrdProof!Skip, OrdView!Skip,
        OrdProof!Finish, OrdView!Finish, OrdProof!Drop, OrdView!Drop, OrdProof!Fail,
        OrdView!Fail, OrdProof!Redeliver, OrdView!Redeliver, OrdProof!CrashClaims,
        OrdView!CrashClaims, OrdProof!Elsewhere, OrdView!Elsewhere, OrdProof!orderVars,
        OrdView!orderVars, OrdProof!vars, OrdView!vars, OrdProof!QueryFails, OrdView!QueryFails,
        OrdProof!Status, OrdView!Status,
        OrdProof!NoRow, OrdView!NoRow, OrdProof!HandlePaymentCompleted,
        OrdView!HandlePaymentCompleted, OrdProof!HandlePaymentFailed,
        OrdView!HandlePaymentFailed, OrdProof!HandleStockReserved,
        OrdView!HandleStockReserved, OrdProof!HandleStockReservationFailed,
        OrdView!HandleStockReservationFailed, OrdProof!HandleDeliveryStarted,
        OrdView!HandleDeliveryStarted, OrdProof!HandleDeliveryFailed,
        OrdView!HandleDeliveryFailed, OrdProof!Handler, OrdView!Handler, OrdProof!Init,
        OrdView!Init, OrdProof!ClientDone, OrdView!ClientDone, OrdProof!FindExisting,
        OrdView!FindExisting, OrdProof!FindNothing, OrdView!FindNothing,
        OrdProof!CreateRow, OrdView!CreateRow, OrdProof!CommitOrder,
        OrdView!CommitOrder, OrdProof!RequestFails, OrdView!RequestFails,
        OrdProof!ReadOrder, OrdView!ReadOrder, OrdProof!UpdateStatusWithVersion,
        OrdView!UpdateStatusWithVersion, OrdProof!WriteOrder, OrdView!WriteOrder,
        OrdProof!ReadFails, OrdView!ReadFails, OrdProof!WriteFails, OrdView!WriteFails,
        OrdProof!Crash, OrdView!Crash, OrdProof!Serve, OrdView!Serve, OrdProof!Answer,
        OrdView!Answer, OrdProof!Errors, OrdView!Errors, OrdProof!Service,
        OrdView!Service, OrdProof!Foreign, OrdView!Foreign, OrdProof!Environment,
        OrdView!Environment, OrdProof!Next, OrdView!Next
<1>1. OrdProof!Init => OrdView!Init
    OBVIOUS
<1>2. [OrdProof!Next]_OrdProof!vars => [OrdView!Next]_OrdView!vars
    OBVIOUS
<1> QED BY <1>1, <1>2

LEMMA PaymentBridge ==
    /\ PayProof!Init => PayView!Init
    /\ [PayProof!Next]_PayProof!vars => [PayView!Next]_PayView!vars
<1> USE DEF PayProof!OrderCreated, PayView!OrderCreated, PayProof!PaymentCompleted,
        PayView!PaymentCompleted, PayProof!PaymentFailed, PayView!PaymentFailed,
        PayProof!PaymentRefunded, PayView!PaymentRefunded, PayProof!StockReserved,
        PayView!StockReserved, PayProof!StockReservationFailed,
        PayView!StockReservationFailed, PayProof!StockRestored, PayView!StockRestored,
        PayProof!DeliveryStarted, PayView!DeliveryStarted, PayProof!DeliveryFailed,
        PayView!DeliveryFailed, PayProof!EventType, PayView!EventType, PayProof!Event,
        PayView!Event, PayProof!PaymentTopics, PayView!PaymentTopics,
        PayProof!FaultKind, PayView!FaultKind, PayProof!channelVars,
        PayView!channelVars, PayProof!Idle, PayView!Idle, PayProof!ChannelInit,
        PayView!ChannelInit, PayProof!Announced, PayView!Announced, PayProof!Fault,
        PayView!Fault, PayProof!Send, PayView!Send, PayProof!Delivered,
        PayView!Delivered, PayProof!Begin, PayView!Begin, PayProof!NotProcessed,
        PayView!NotProcessed, PayProof!Goto, PayView!Goto, PayProof!MarkMessage,
        PayView!MarkMessage, PayProof!Skip, PayView!Skip, PayProof!Finish,
        PayView!Finish, PayProof!Drop, PayView!Drop, PayProof!Fail, PayView!Fail,
        PayProof!Redeliver, PayView!Redeliver, PayProof!CrashClaims,
        PayView!CrashClaims, PayProof!Elsewhere, PayView!Elsewhere,
        PayProof!paymentVars, PayView!paymentVars, PayProof!vars, PayView!vars,
        PayProof!QueryFails, PayView!QueryFails,
        PayProof!Init, PayView!Init, PayProof!FindPayment, PayView!FindPayment,
        PayProof!Charge, PayView!Charge, PayProof!Decline, PayView!Decline,
        PayProof!CreatePayment, PayView!CreatePayment, PayProof!CommitPayment,
        PayView!CommitPayment, PayProof!FindRefundable, PayView!FindRefundable,
        PayProof!FindRefundableFails, PayView!FindRefundableFails, PayProof!Refund,
        PayView!Refund, PayProof!UpdatePayment, PayView!UpdatePayment,
        PayProof!CommitRefund, PayView!CommitRefund, PayProof!PaymentStep,
        PayView!PaymentStep, PayProof!RefundStep, PayView!RefundStep,
        PayProof!HandleOrderCreated, PayView!HandleOrderCreated,
        PayProof!HandleStockReservationFailed, PayView!HandleStockReservationFailed,
        PayProof!Serve, PayView!Serve, PayProof!Errors, PayView!Errors,
        PayProof!Service, PayView!Service, PayProof!Foreign, PayView!Foreign,
        PayProof!Environment, PayView!Environment, PayProof!Next, PayView!Next
<1>1. PayProof!Init => PayView!Init
    OBVIOUS
<1>2. [PayProof!Next]_PayProof!vars => [PayView!Next]_PayView!vars
    OBVIOUS
<1> QED BY <1>1, <1>2

LEMMA InventoryBridge ==
    /\ InvProof!Init => InvView!Init
    /\ [InvProof!Next]_InvProof!vars => [InvView!Next]_InvView!vars
<1> USE DEF InvProof!OrderCreated, InvView!OrderCreated, InvProof!PaymentCompleted,
        InvView!PaymentCompleted, InvProof!PaymentFailed, InvView!PaymentFailed,
        InvProof!PaymentRefunded, InvView!PaymentRefunded, InvProof!StockReserved,
        InvView!StockReserved, InvProof!StockReservationFailed,
        InvView!StockReservationFailed, InvProof!StockRestored, InvView!StockRestored,
        InvProof!DeliveryStarted, InvView!DeliveryStarted, InvProof!DeliveryFailed,
        InvView!DeliveryFailed, InvProof!EventType, InvView!EventType, InvProof!Event,
        InvView!Event, InvProof!InventoryTopics, InvView!InventoryTopics,
        InvProof!FaultKind, InvView!FaultKind, InvProof!channelVars,
        InvView!channelVars, InvProof!Idle, InvView!Idle, InvProof!ChannelInit,
        InvView!ChannelInit, InvProof!Announced, InvView!Announced, InvProof!Fault,
        InvView!Fault, InvProof!Send, InvView!Send, InvProof!Delivered,
        InvView!Delivered, InvProof!Begin, InvView!Begin, InvProof!NotProcessed,
        InvView!NotProcessed, InvProof!Goto, InvView!Goto, InvProof!MarkMessage,
        InvView!MarkMessage, InvProof!Skip, InvView!Skip, InvProof!Finish,
        InvView!Finish, InvProof!Drop, InvView!Drop, InvProof!Fail, InvView!Fail,
        InvProof!Redeliver, InvView!Redeliver, InvProof!CrashClaims,
        InvView!CrashClaims, InvProof!Elsewhere, InvView!Elsewhere,
        InvProof!inventoryVars, InvView!inventoryVars, InvProof!vars, InvView!vars,
        InvProof!QueryFails, InvView!QueryFails,
        InvProof!NothingRead, InvView!NothingRead, InvProof!Init, InvView!Init,
        InvProof!Quantity, InvView!Quantity, InvProof!Reserve, InvView!Reserve,
        InvProof!Restore, InvView!Restore, InvProof!RowLocked, InvView!RowLocked,
        InvProof!LockRow, InvView!LockRow, InvProof!EndTx, InvView!EndTx,
        InvProof!SameVersion, InvView!SameVersion, InvProof!FindReservation,
        InvView!FindReservation, InvProof!CanReserve, InvView!CanReserve,
        InvProof!CommitReservation, InvView!CommitReservation,
        InvProof!RefuseReservation, InvView!RefuseReservation, InvProof!FindReserved,
        InvView!FindReserved, InvProof!CanCancel, InvView!CanCancel,
        InvProof!CommitRestoration, InvView!CommitRestoration,
        InvProof!RollbackRestoration, InvView!RollbackRestoration,
        InvProof!HandlePaymentCompleted, InvView!HandlePaymentCompleted,
        InvProof!HandlePaymentRefunded, InvView!HandlePaymentRefunded, InvProof!Serve,
        InvView!Serve, InvProof!FindFails, InvView!FindFails, InvProof!TxFails,
        InvView!TxFails, InvProof!Crash, InvView!Crash, InvProof!Errors, InvView!Errors,
        InvProof!Service, InvView!Service, InvProof!Answered, InvView!Answered,
        InvProof!Foreign, InvView!Foreign, InvProof!Environment, InvView!Environment,
        InvProof!Next, InvView!Next
<1>1. InvProof!Init => InvView!Init
    OBVIOUS
<1>2. [InvProof!Next]_InvProof!vars => [InvView!Next]_InvView!vars
    OBVIOUS
<1> QED BY <1>1, <1>2

LEMMA DeliveryBridge ==
    /\ DelProof!Init => DelView!Init
    /\ [DelProof!Next]_DelProof!vars => [DelView!Next]_DelView!vars
<1> USE DEF DelProof!OrderCreated, DelView!OrderCreated, DelProof!PaymentCompleted,
        DelView!PaymentCompleted, DelProof!PaymentFailed, DelView!PaymentFailed,
        DelProof!PaymentRefunded, DelView!PaymentRefunded, DelProof!StockReserved,
        DelView!StockReserved, DelProof!StockReservationFailed,
        DelView!StockReservationFailed, DelProof!StockRestored, DelView!StockRestored,
        DelProof!DeliveryStarted, DelView!DeliveryStarted, DelProof!DeliveryFailed,
        DelView!DeliveryFailed, DelProof!EventType, DelView!EventType, DelProof!Event,
        DelView!Event, DelProof!FaultKind, DelView!FaultKind, DelProof!channelVars,
        DelView!channelVars, DelProof!Idle, DelView!Idle, DelProof!ChannelInit,
        DelView!ChannelInit, DelProof!Announced, DelView!Announced, DelProof!Fault,
        DelView!Fault, DelProof!Send, DelView!Send, DelProof!Delivered,
        DelView!Delivered, DelProof!Begin, DelView!Begin, DelProof!NotProcessed,
        DelView!NotProcessed, DelProof!MarkMessage, DelView!MarkMessage, DelProof!Skip,
        DelView!Skip, DelProof!Finish, DelView!Finish, DelProof!Drop, DelView!Drop,
        DelProof!Redeliver, DelView!Redeliver, DelProof!CrashClaims,
        DelView!CrashClaims, DelProof!Elsewhere, DelView!Elsewhere, DelProof!vars,
        DelView!vars, DelProof!QueryFails, DelView!QueryFails,
        DelProof!Init, DelView!Init, DelProof!HandleStockReserved,
        DelView!HandleStockReserved, DelProof!Consume, DelView!Consume,
        DelProof!TxFails, DelView!TxFails, DelProof!Errors, DelView!Errors,
        DelProof!Service, DelView!Service, DelProof!Foreign, DelView!Foreign,
        DelProof!Environment, DelView!Environment, DelProof!Next, DelView!Next
<1>1. DelProof!Init => DelView!Init
    OBVIOUS
<1>2. [DelProof!Next]_DelProof!vars => [DelView!Next]_DelView!vars
    OBVIOUS
<1> QED BY <1>1, <1>2

-------------------------------------------------------------------------------
(* The composition keeps the promises of its parts. *)

LEMMA ViewsInit ==
    ASSUME Init PROVE OrdProof!Init /\ PayProof!Init /\ InvProof!Init /\ DelProof!Init
BY DEF Init, Visible,
       Ord!Init, OrdProof!Init, Ord!ChannelInit, OrdProof!ChannelInit, Ord!Idle,
       OrdProof!Idle, Ord!NoRow, OrdProof!NoRow, Ord!FaultKind, OrdProof!FaultKind,
       Pay!Init, PayProof!Init, Pay!ChannelInit, PayProof!ChannelInit, Pay!Idle,
       PayProof!Idle, Pay!FaultKind, PayProof!FaultKind,
       Inv!Init, InvProof!Init, Inv!ChannelInit, InvProof!ChannelInit, Inv!Idle,
       InvProof!Idle, Inv!NothingRead, InvProof!NothingRead, Inv!FaultKind,
       InvProof!FaultKind,
       Del!Init, DelProof!Init, Del!ChannelInit, DelProof!ChannelInit, Del!Idle,
       DelProof!Idle, Del!FaultKind, DelProof!FaultKind

LEMMA InitRInv == Init => RInv
<1> SUFFICES ASSUME Init PROVE RInv
    OBVIOUS
<1>1. Honest
    BY ViewsInit, HonestInit
<1>2. Created
    BY DEF Init, Ord!Init, Ord!ChannelInit, Created, Announced
<1> QED BY <1>1, <1>2, InitSInv DEF RInv

(* A step of one service is in the views of the others a step of their     *)
(* environment.                                                            *)
LEMMA NextInViews ==
    ASSUME RInv, [Next]_vars
    PROVE  /\ [OrdProof!Next]_OrdProof!vars /\ [PayProof!Next]_PayProof!vars
           /\ [InvProof!Next]_InvProof!vars /\ [DelProof!Next]_DelProof!vars
<1>1. CASE OrderStep
  <2>1. OrdProof!Service /\ News({OrderCreated}) /\ FaultsMove
    BY <1>1, OrderInView, OrderNews, StepsFault
  <2>2. PayProof!Environment /\ InvProof!Environment /\ DelProof!Environment
    BY <1>1, <2>1, NewsIsForeign DEF OrderStep, Announcements
  <2> QED BY <2>1, <2>2 DEF OrdProof!Next, PayProof!Next, InvProof!Next, DelProof!Next
<1>2. CASE PaymentStep
  <2>1. /\ PayProof!Service /\ FaultsMove
        /\ News({PaymentCompleted, PaymentFailed, PaymentRefunded})
    BY <1>2, PaymentInView, PaymentNews, StepsFault
  <2>2. OrdProof!Environment /\ InvProof!Environment /\ DelProof!Environment
    BY <1>2, <2>1, NewsIsForeign DEF PaymentStep, Announcements
  <2> QED BY <2>1, <2>2 DEF OrdProof!Next, PayProof!Next, InvProof!Next, DelProof!Next
<1>3. CASE InventoryStep
  <2>1. InvProof!Service /\ FaultsMove /\ News({StockReserved, StockReservationFailed})
    BY <1>3, InventoryInView, InventoryNews, StepsFault
  <2>2. OrdProof!Environment /\ PayProof!Environment /\ DelProof!Environment
    BY <1>3, <2>1, NewsIsForeign DEF InventoryStep, Announcements
  <2> QED BY <2>1, <2>2 DEF OrdProof!Next, PayProof!Next, InvProof!Next, DelProof!Next
<1>4. CASE DeliveryStep
  <2>1. DelProof!Service /\ FaultsMove /\ News({DeliveryStarted})
    BY <1>4, DeliveryInView, DeliveryNews, StepsFault
  <2>2. OrdProof!Environment /\ PayProof!Environment /\ InvProof!Environment
    BY <1>4, <2>1, NewsIsForeign DEF DeliveryStep, Announcements
  <2> QED BY <2>1, <2>2 DEF OrdProof!Next, PayProof!Next, InvProof!Next, DelProof!Next
<1>5. CASE UNCHANGED vars
    BY <1>5 DEF vars, orderOwn, paymentOwn, inventoryOwn, deliveryOwn, Visible,
           OrdProof!vars, OrdProof!channelVars, OrdProof!orderVars,
           PayProof!vars, PayProof!channelVars, PayProof!paymentVars,
           InvProof!vars, InvProof!channelVars, InvProof!inventoryVars,
           DelProof!vars, DelProof!channelVars
<1> QED BY <1>1, <1>2, <1>3, <1>4, <1>5 DEF Next

LEMMA NextCreated == ASSUME RInv, [Next]_vars PROVE Created'
<1>1. outbox \subseteq Event
    BY DEF RInv, SInv, Holds
<1>2. ASSUME NEW types \in SUBSET Announcements, News(types) PROVE Created'
  <2>1. CASE UNCHANGED outbox
    BY <2>1 DEF RInv, Created, Announced
  <2>2. ASSUME NEW o \in Orders, NEW type \in types, Grounds(type, o), Publishes(type, o)
        PROVE  Created'
    <3>1. type \in EventType
      BY <1>2 DEF Announcements, EventType
    <3>2. \A other, p : Announced(other, p)'
             <=> Announced(other, p) \/ (other = type /\ p = o)
      BY <1>1, <2>2, <3>1, PublishAnnounces
    <3> QED BY <2>2, <3>2 DEF RInv, Created, Grounds
  <2> QED BY <1>2, <2>1, <2>2 DEF News
<1>3. CASE UNCHANGED vars
    BY <1>3 DEF vars, RInv, Created, Announced
<1>4. CASE OrderStep
    BY <1>2, <1>4, OrderNews DEF Announcements
<1>5. CASE PaymentStep
    BY <1>2, <1>5, PaymentNews DEF Announcements
<1>6. CASE InventoryStep
    BY <1>2, <1>6, InventoryNews DEF Announcements
<1>7. CASE DeliveryStep
    BY <1>2, <1>7, DeliveryNews DEF Announcements
<1> QED BY <1>3, <1>4, <1>5, <1>6, <1>7 DEF Next

LEMMA NextRInv == RInv /\ [Next]_vars => RInv'
<1> SUFFICES ASSUME RInv, [Next]_vars PROVE RInv'
    OBVIOUS
<1>1. Honest'
    BY NextInViews, HonestSteps DEF RInv, Honest
<1> QED BY <1>1, NextCreated, NextSInv DEF RInv

LEMMA SpecRInv == Spec => []RInv
BY InitRInv, NextRInv, PTL DEF Spec

(* Among the others, redelivered to, failing and crashing, each service    *)
(* meets only what its own specification expects of its environment: what  *)
(* is proved of a service alone is true of it in the saga.                 *)
THEOREM OrderInSaga == Spec => OrderImplemented
<1>1. Init => OrdView!Init
    BY ViewsInit, OrderBridge
<1>2. RInv /\ [Next]_vars => [OrdView!Next]_OrdView!vars
    BY NextInViews, OrderBridge
<1> QED BY <1>1, <1>2, SpecRInv, PTL DEF Spec, OrderImplemented, OrdView!Spec

(* The payment service hears of an order once, and of a refusal of stock   *)
(* only for an order that was paid.                                        *)
THEOREM PaymentInSaga == Spec => PaymentImplemented
<1>1. Init => PayView!Init
    BY ViewsInit, PaymentBridge
<1>2. RInv /\ [Next]_vars => [PayView!Next]_PayView!vars
    BY NextInViews, PaymentBridge
<1> QED BY <1>1, <1>2, SpecRInv, PTL DEF Spec, PaymentImplemented, PayView!Spec

(* The inventory service hears of a payment once, and of a refund only     *)
(* after it refused the stock.                                             *)
THEOREM InventoryInSaga == Spec => InventoryImplemented
<1>1. Init => InvView!Init
    BY ViewsInit, InventoryBridge
<1>2. RInv /\ [Next]_vars => [InvView!Next]_InvView!vars
    BY NextInViews, InventoryBridge
<1> QED BY <1>1, <1>2, SpecRInv, PTL DEF Spec, InventoryImplemented, InvView!Spec

(* The delivery service hears of a reservation once.                       *)
THEOREM DeliveryInSaga == Spec => DeliveryImplemented
<1>1. Init => DelView!Init
    BY ViewsInit, DeliveryBridge
<1>2. RInv /\ [Next]_vars => [DelView!Next]_DelView!vars
    BY NextInViews, DeliveryBridge
<1> QED BY <1>1, <1>2, SpecRInv, PTL DEF Spec, DeliveryImplemented, DelView!Spec

(* Of the gateway's record of an order: only a refused order was refunded, *)
(* and one whose payment was declined was charged by duplicates alone.     *)
LEMMA GatewayTells ==
    ASSUME RInv, NEW o \in Orders
    PROVE  /\ charged[o] \in Nat /\ refunded[o] \in Nat
           /\ PayProof!Comebacks = faults.redeliver + faults.crash
           /\ PayProof!Comebacks \in Nat
           /\ refunded[o] > 0 => Refused(o)
           /\ Announced(PaymentFailed, o) => charged[o] <= PayProof!Comebacks
<1>1. PayProof!TypeOK /\ PayProof!GInv
    BY DEF RInv, Honest, PaymentHonest, PayProof!IInv
<1>2. /\ charged[o] \in Nat /\ refunded[o] \in Nat
      /\ faults \in [PayProof!FaultKind -> Nat]
    BY <1>1 DEF PayProof!TypeOK, PayProof!ChannelTypeOK
<1>3. /\ PayProof!Comebacks = faults.redeliver + faults.crash
      /\ PayProof!Comebacks \in Nat
    BY <1>2 DEF PayProof!Comebacks, PayProof!FaultKind
<1>4. StockReservationFailed \in PaymentTypes /\ PaymentFailed \in PaymentTypes
    BY DEF PaymentTypes, PaymentTopics
<1>5. refunded[o] > 0 => Refused(o)
    BY <1>1, <1>4, ViewAnnounced DEF PayProof!GInv, PayProof!RefundsAsked, Refused
<1>6. ASSUME Announced(PaymentFailed, o) PROVE charged[o] <= PayProof!Comebacks
  <2>1. PayProof!Announced(PaymentFailed, o)
    BY <1>4, <1>6, ViewAnnounced
  <2> QED BY <1>1, <2>1, ViewAssumptions, PayProof!DeclinedBound
<1> QED BY <1>2, <1>3, <1>5, <1>6

(* No order has both its goods and its money back: inventory holds no      *)
(* reservation for an order that the gateway refunded, whichever messages  *)
(* came again and wherever a process crashed.                              *)
THEOREM NeverBoth == Spec => []GoodsOrMoney
<1>1. RInv => GoodsOrMoney
  <2> SUFFICES ASSUME RInv, NEW o \in Orders, reservations[o] = "RESERVED"
               PROVE  refunded[o] = 0
    BY DEF GoodsOrMoney
  <2>1. ~ Refused(o)
    BY DEF RInv, SInv, StockTells
  <2> QED BY <2>1, GatewayTells
<1> QED BY <1>1, SpecRInv, PTL

(* A customer whose order is CANCELED has his money, except for one charge *)
(* per redelivery or crash.                                                *)
THEOREM CanceledNotCharged == Spec => []CanceledIsNotCharged
<1>1. RInv => CanceledIsNotCharged
  <2> SUFFICES ASSUME RInv, NEW o \in Orders, orders[o].status = "CANCELED"
               PROVE  charged[o] <= refunded[o] + faults.redeliver + faults.crash
    BY DEF CanceledIsNotCharged
  <2>1. Announced(PaymentFailed, o)
    BY DEF RInv, SInv, StatusTells
  <2>2. PICK n \in Nat : n = faults.redeliver + faults.crash /\ charged[o] <= n
    BY <2>1, GatewayTells
  <2>3. faults \in [PayProof!FaultKind -> Nat]
    BY DEF RInv, Honest, PaymentHonest, PayProof!IInv, PayProof!TypeOK, PayProof!ChannelTypeOK
  <2> QED BY <2>2, <2>3, GatewayTells DEF PayProof!FaultKind
<1> QED BY <1>1, SpecRInv, PTL

(* What a service promises alone it keeps among the others: one            *)
(* OrderCreated and one verdict on the payment per order, a gateway that   *)
(* is asked once and once more per failure, stock that is conserved, and   *)
(* reservations and deliveries announced when they are made.               *)
THEOREM PromisesKept ==
    Spec => [](/\ OrdProof!OneOrderCreated
               /\ PayProof!OneVerdict /\ PayProof!VerdictBacked /\ PayProof!GatewayOnce
               /\ InvProof!StockConserved /\ InvProof!ReservationAnnounced
               /\ DelProof!DeliveryAnnounced)
<1>1. RInv => PayProof!GatewayOnce
    BY ViewAssumptions, PayProof!IInvBoundsCalls DEF RInv, Honest, PaymentHonest
<1>2. RInv => /\ OrdProof!OneOrderCreated
              /\ PayProof!OneVerdict /\ PayProof!VerdictBacked
              /\ InvProof!StockConserved /\ InvProof!ReservationAnnounced
              /\ DelProof!DeliveryAnnounced
    BY DEF RInv, Honest, OrderHonest, PaymentHonest, InventoryHonest, DeliveryHonest,
           OrdProof!StartInv, PayProof!IInv, InvProof!IInv
<1> QED BY <1>1, <1>2, SpecRInv, PTL

(* The status the customer reads is backed by the events of all earlier    *)
(* steps, though the services handle the topics in any order.              *)
THEOREM StatusNeverAhead == Spec => []OrdProof!StatusBacked
<1>1. Init => OrdProof!StatusBacked
    BY ViewsInit, ViewAssumptions, OrdProof!InitStatusBacked
<1>2. RInv /\ OrdProof!StatusBacked /\ [Next]_vars => OrdProof!StatusBacked'
    BY NextInViews, ViewAssumptions, OrdProof!NextStatusBacked DEF RInv, Honest, OrderHonest
<1> QED BY <1>1, <1>2, SpecRInv, PTL DEF Spec

(* In the saga no event, late or twice, revives an order that the customer *)
(* has read as CANCELED or FAILED, and stock is refused only when there    *)
(* is none.                                                                *)
THEOREM StepsKept ==
    Spec => [][\A o \in Orders :
                  /\ OrdProof!Failed(o) => OrdProof!Failed(o)'
                  /\ ~ Refused(o) /\ Refused(o)' => inventory.available < InvProof!Quantity]_vars
<1>1. ASSUME RInv, [Next]_vars, NEW o \in Orders, OrdProof!Failed(o)
      PROVE  OrdProof!Failed(o)'
    BY <1>1, NextInViews, ViewAssumptions, OrdProof!FailedStays DEF RInv, Honest, OrderHonest
<1>2. ASSUME RInv, [Next]_vars, NEW o \in Orders, ~ Refused(o), Refused(o)'
      PROVE  inventory.available < InvProof!Quantity
  <2>1. ~ InvProof!Announced(StockReservationFailed, o)
        /\ InvProof!Announced(StockReservationFailed, o)'
    BY <1>2 DEF Refused, Announced, InvProof!Announced, Visible, InventoryTypes
  <2> QED BY <1>2, <2>1, NextInViews, ViewAssumptions, InvProof!RefusalMeansSoldOut
          DEF RInv, Honest, InventoryHonest
<1>3. RInv /\ [Next]_vars
         => [\A o \in Orders :
                /\ OrdProof!Failed(o) => OrdProof!Failed(o)'
                /\ ~ Refused(o) /\ Refused(o)' => inventory.available < InvProof!Quantity]_vars
    BY <1>1, <1>2
<1> QED BY <1>3, SpecRInv, PTL DEF Spec

===============================================================================
