---------------------------- MODULE DeliveryService ---------------------------
(***************************************************************************)
(* The delivery service: it starts a delivery when StockReserved arrives.  *)
(* The delivery and its event are written in one transaction, which has no *)
(* concurrent reader or writer and so is a single step.                    *)
(***************************************************************************)
EXTENDS Channel

VARIABLE deliveries \* the orders that have a row in the deliveries table

vars == <<channelVars, deliveries>>

(* What Topics has to be; it is a premise of the theorems.                 *)
SubscribedTopics == Topics = DeliveryTopics

(* The idempotency key of a delivery is made of the order and of the id of *)
(* its StockReserved event; there is at most one such event per order      *)
(* (ReservationAnnounced of InventoryService).                             *)
Init == ChannelInit /\ deliveries = {}

PCs == {"idle", "finish", "drop"}

TypeOK == ChannelTypeOK(PCs) /\ deliveries \subseteq Orders

-------------------------------------------------------------------------------
MutantHandleStockReserved(e) == \* the delivery is not looked for
    /\ NotProcessed(e)
    /\ Begin(StockReserved, e, "finish")
    /\ deliveries' = deliveries \cup {e.order}
    /\ Send(DeliveryStarted, e.order)

HandleStockReserved(e) ==
    /\ NotProcessed(e)
    /\ Begin(StockReserved, e, "finish")
    /\ \/ /\ e.order \notin deliveries
          /\ deliveries' = deliveries \cup {e.order}
          /\ Send(DeliveryStarted, e.order)
       \/ e.order \in deliveries /\ UNCHANGED <<outbox, deliveries>>

(* The handler and the consumer around it. *)
Consume ==
    \/ \E e \in Delivered(StockReserved) : HandleStockReserved(e)
    \/ \E e \in Delivered(StockReserved) : Skip(StockReserved, e) /\ UNCHANGED deliveries
    \/ Finish(StockReserved) /\ UNCHANGED deliveries
    \/ Drop(StockReserved) /\ UNCHANGED deliveries

(* A statement or the commit fails: the transaction is rolled back. *)
TxFails(e) ==
    /\ QueryFails(e)
    /\ Begin(StockReserved, e, "drop")
    /\ UNCHANGED <<outbox, deliveries>>

Errors ==
    \/ \E e \in Delivered(StockReserved) : TxFails(e)
    \/ \E e \in marked : Redeliver(e) /\ UNCHANGED deliveries
    \/ CrashClaims /\ UNCHANGED deliveries

Service == Consume \/ Errors

(* The other services: stock is reserved once for an order. *)
Foreign ==
    {e \in Event : e.type = StockReserved /\ ~ Announced(StockReserved, e.order)}

Environment == Elsewhere(Foreign) /\ UNCHANGED deliveries

Next == Service \/ Environment

Spec == Init /\ [][Next]_vars

-------------------------------------------------------------------------------
(* Properties. *)

(* A delivery is announced once, and exactly when it is in the table,      *)
(* whatever is delivered twice, fails or crashes.                          *)
DeliveryAnnounced ==
    /\ \A o \in Orders : Announced(DeliveryStarted, o) <=> o \in deliveries
    /\ \A e, f \in outbox :
          e.type = DeliveryStarted /\ f.type = e.type /\ f.order = e.order => e = f

===============================================================================
