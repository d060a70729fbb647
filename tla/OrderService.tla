----------------------------- MODULE OrderService -----------------------------
(***************************************************************************)
(* The order service: the HTTP handler that creates orders and starts the  *)
(* saga, and the six event handlers that move the order's status along.    *)
(*                                                                         *)
(* The handlers run on one goroutine per topic and each of them first      *)
(* reads the row (FindByID) and then writes it under the optimistic lock   *)
(* (UpdateStatusWithVersion), so their steps interleave.                   *)
(***************************************************************************)
EXTENDS Channel

CONSTANTS
    Clients,      \* the HTTP requests in flight at one time
    ForeignTypes  \* bound: the types the other services publish (see Foreign)

VARIABLES
    orders,  \* the orders table: status and version of every order
    client,  \* where each request is in CreateOrder, and the order it is for
    acked,   \* history: the orders for which a client got a 201
    snap     \* for every topic: the version its handler has read

orderVars == <<orders, client, acked, snap>>
vars == <<channelVars, orderVars>>

Status == {"PENDING", "PAYMENT_PROCESSING", "STOCK_RESERVING",
           "DELIVERY_PREPARING", "COMPLETED", "CANCELED", "FAILED"}

NoRow == [status |-> "NONE", version |-> 0]

ASSUME OrderTopicsAssumption == Topics = OrderTopics
ASSUME ForeignTypesAssumption == ForeignTypes \subseteq OrderTopics

(* The handlers differ in the statuses in which they act and in the status *)
(* they write.                                                             *)
MutantHandlePaymentCompleted == \* as the domain model's transitions have it
    [from |-> {"PAYMENT_PROCESSING"}, to |-> "STOCK_RESERVING"]
HandlePaymentCompleted ==
    [from |-> {"PENDING"}, to |-> "STOCK_RESERVING"]
HandlePaymentFailed ==
    [from |-> Status, to |-> "CANCELED"]
MutantHandleStockReserved == \* the order is completed one step early
    [from |-> {"STOCK_RESERVING"}, to |-> "COMPLETED"]
HandleStockReserved ==
    [from |-> {"STOCK_RESERVING"}, to |-> "DELIVERY_PREPARING"]
HandleStockReservationFailed ==
    [from |-> Status, to |-> "FAILED"]
MutantHandleDeliveryStarted == \* the test of the current status is dropped
    [from |-> Status, to |-> "COMPLETED"]
HandleDeliveryStarted ==
    [from |-> {"DELIVERY_PREPARING"}, to |-> "COMPLETED"]
HandleDeliveryFailed ==
    [from |-> Status, to |-> "FAILED"]

Handler ==
    [t \in OrderTopics |->
        CASE t = PaymentCompleted       -> HandlePaymentCompleted
          [] t = PaymentFailed          -> HandlePaymentFailed
          [] t = StockReserved          -> HandleStockReserved
          [] t = StockReservationFailed -> HandleStockReservationFailed
          [] t = DeliveryStarted        -> HandleDeliveryStarted
          [] t = DeliveryFailed         -> HandleDeliveryFailed]

Init ==
    /\ ChannelInit
    /\ orders = [o \in Orders |-> NoRow]
    /\ client = [c \in Clients |-> [pc |-> "idle", order |-> NoEvent]]
    /\ acked = {}
    /\ snap = [t \in Topics |-> 0]

PCs == {"idle", "write", "finish", "drop"}

TypeOK ==
    /\ ChannelTypeOK(PCs)
    /\ orders \in [Orders -> [status : Status \cup {"NONE"}, version : Nat]]
    /\ client \in [Clients -> [pc : {"idle"}, order : {NoEvent}]
                               \cup [pc : {"create", "commit"}, order : Orders]]
    /\ acked \subseteq Orders
    /\ snap \in [Topics -> Nat]

-------------------------------------------------------------------------------
(* CreateOrder.  The request carries an idempotency key, which stands for  *)
(* the order; the handler supplies one when the client does not.           *)

ClientDone(c) ==
    client' = [client EXCEPT ![c] = [pc |-> "idle", order |-> NoEvent]]

(* The key is found: the client gets the existing order. *)
FindExisting(c, o) ==
    /\ client[c].pc = "idle"
    /\ orders[o].status # "NONE"
    /\ acked' = acked \cup {o}
    /\ UNCHANGED <<channelVars, orders, client, snap>>

(* The key is not found, or the query fails: any error counts as absent. *)
FindNothing(c, o) ==
    /\ client[c].pc = "idle"
    /\ \/ orders[o].status = "NONE" /\ UNCHANGED faults
       \/ orders[o].status # "NONE" /\ Fault("db")
    /\ client' = [client EXCEPT ![c] = [pc |-> "create", order |-> o]]
    /\ UNCHANGED <<outbox, marked, idem, claim, orders, acked, snap>>

(* orderRepo.Create runs on the connection pool and not in the transaction *)
(* of CreateOrder, so the row is committed here.  The unique index on the  *)
(* key refuses a second row, and the request fails.                        *)
MutantCreateRow(c) == \* INSERT ... ON CONFLICT DO NOTHING
    LET o == client[c].order IN
    /\ client[c].pc = "create"
    /\ orders' = [orders EXCEPT ![o] =
                    IF @ = NoRow THEN [status |-> "PENDING", version |-> 0] ELSE @]
    /\ client' = [client EXCEPT ![c].pc = "commit"]
    /\ UNCHANGED <<channelVars, acked, snap>>

CreateRow(c) ==
    LET o == client[c].order IN
    /\ client[c].pc = "create"
    /\ \/ /\ orders[o].status = "NONE"
          /\ orders' = [orders EXCEPT ![o] = [status |-> "PENDING", version |-> 0]]
          /\ client' = [client EXCEPT ![c].pc = "commit"]
       \/ /\ orders[o].status # "NONE"
          /\ ClientDone(c)
          /\ UNCHANGED orders
    /\ UNCHANGED <<channelVars, acked, snap>>

(* The outbox row is committed and the client gets its 201. *)
MutantCommitOrder(c) == \* the row is not inserted into the outbox
    /\ client[c].pc = "commit"
    /\ acked' = acked \cup {client[c].order}
    /\ ClientDone(c)
    /\ UNCHANGED <<channelVars, orders, snap>>

CommitOrder(c) ==
    /\ client[c].pc = "commit"
    /\ Send(OrderCreated, client[c].order)
    /\ acked' = acked \cup {client[c].order}
    /\ ClientDone(c)
    /\ UNCHANGED <<marked, idem, claim, faults, orders, snap>>

(* A database error ends the request with an error response. *)
RequestFails(c) ==
    /\ client[c].pc # "idle"
    /\ Fault("db")
    /\ ClientDone(c)
    /\ UNCHANGED <<outbox, marked, idem, claim, orders, acked, snap>>

-------------------------------------------------------------------------------
(* The event handlers. *)

(* FindByID, then the test of the status that was read. *)
ReadOrder(t, e) ==
    LET row == orders[e.order] IN
    /\ NotProcessed(e)
    /\ \/ /\ row.status \in Handler[t].from
          /\ Begin(t, e, "write")
          /\ snap' = [snap EXCEPT ![t] = row.version]
       \/ /\ row.status \notin Handler[t].from \cup {"NONE"}
          /\ Begin(t, e, "finish")
          /\ UNCHANGED snap
       \/ /\ row.status = "NONE"
          /\ Begin(t, e, "drop")
          /\ UNCHANGED snap
    /\ UNCHANGED <<outbox, orders, client, acked>>

(* UPDATE ... WHERE id = $2 AND version = $3.  The handlers discard the    *)
(* boolean that says whether a row was updated, and succeed either way.    *)
MutantUpdateStatusWithVersion(o, status, version) == \* as UpdateStatus
    [orders EXCEPT ![o] = [status |-> status, version |-> version + 1]]

UpdateStatusWithVersion(o, status, version) ==
    IF orders[o].version = version
    THEN [orders EXCEPT ![o] = [status |-> status, version |-> version + 1]]
    ELSE orders

WriteOrder(t) ==
    /\ claim[t].pc = "write"
    /\ orders' = UpdateStatusWithVersion(claim[t].event.order, Handler[t].to, snap[t])
    /\ snap' = [snap EXCEPT ![t] = 0]
    /\ Goto(t, "finish")
    /\ UNCHANGED <<outbox, faults, client, acked>>

(* FindByID or the update fails. *)
ReadFails(t, e) ==
    /\ QueryFails(e)
    /\ Begin(t, e, "drop")
    /\ UNCHANGED <<outbox, orderVars>>

WriteFails(t) ==
    /\ claim[t].pc = "write"
    /\ Fail(t)
    /\ snap' = [snap EXCEPT ![t] = 0]
    /\ UNCHANGED <<orders, client, acked>>

-------------------------------------------------------------------------------
Crash ==
    /\ CrashClaims
    /\ client' = [c \in Clients |-> [pc |-> "idle", order |-> NoEvent]]
    /\ snap' = [t \in Topics |-> 0]
    /\ UNCHANGED <<orders, acked>>

(* Every handler's own progress on topic t. *)
Serve(t) ==
    \/ \E e \in Delivered(t) : ReadOrder(t, e)
    \/ WriteOrder(t)
    \/ \E e \in Delivered(t) : Skip(t, e) /\ UNCHANGED orderVars
    \/ Finish(t) /\ UNCHANGED orderVars
    \/ Drop(t) /\ UNCHANGED orderVars

Answer(c) == CreateRow(c) \/ CommitOrder(c)

Errors ==
    \/ \E c \in Clients : RequestFails(c)
    \/ \E t \in Topics : \E e \in Delivered(t) : ReadFails(t, e)
    \/ \E t \in Topics : WriteFails(t)
    \/ \E e \in marked : Redeliver(e) /\ UNCHANGED orderVars
    \/ Crash

Service ==
    \/ \E c \in Clients, o \in Orders : FindExisting(c, o) \/ FindNothing(c, o)
    \/ \E c \in Clients : Answer(c)
    \/ \E t \in Topics : Serve(t)
    \/ Errors

(* The other services only publish about orders they have heard of, and    *)
(* the events of the success flow once.                                    *)
Foreign ==
    {e \in Event :
        /\ e.type \in ForeignTypes
        /\ Announced(OrderCreated, e.order)
        /\ e.type \in {PaymentCompleted, StockReserved, DeliveryStarted} =>
              ~ Announced(e.type, e.order)}

Environment == Elsewhere(Foreign) /\ UNCHANGED orderVars

Next == Service \/ Environment

Spec == Init /\ [][Next]_vars

(* A request that was accepted is carried through and a message that was   *)
(* delivered is handled, as long as the process is up.                     *)
Fairness ==
    /\ \A c \in Clients : WF_vars(Answer(c))
    /\ \A t \in Topics : WF_vars(Serve(t))

FairSpec == Spec /\ Fairness

-------------------------------------------------------------------------------
(* Properties. *)

(* However many requests carry the same key, and however they interleave   *)
(* and fail, at most one OrderCreated is published for an order: the saga  *)
(* of an order starts once.                                                *)
OneOrderCreated ==
    \A e, f \in outbox :
        e.type = OrderCreated /\ f.type = OrderCreated /\ e.order = f.order => e = f

(* An order that has ended CANCELED or FAILED never leaves these statuses, *)
(* whatever the handlers of the other topics had read before it ended.     *)
Failed(o) == orders[o].status \in {"CANCELED", "FAILED"}
FailedIsFinal == [][\A o \in Orders : Failed(o) => Failed(o)']_vars

(* The status never runs ahead of the saga: an order in a later status has *)
(* all the events of the steps before it, though its handlers run on       *)
(* different goroutines and see their topics in any order.                 *)
StatusBacked ==
    \A o \in Orders :
        LET row == orders[o] IN
        /\ row.status = "STOCK_RESERVING" => Announced(PaymentCompleted, o)
        /\ row.status = "DELIVERY_PREPARING" =>
              Announced(PaymentCompleted, o) /\ Announced(StockReserved, o)
        /\ row.status = "COMPLETED" =>
              /\ Announced(PaymentCompleted, o)
              /\ Announced(StockReserved, o)
              /\ Announced(DeliveryStarted, o)

-------------------------------------------------------------------------------
(* What the documentation promises and the code does not keep. *)

(* README, outbox pattern: the order and its event are committed by one    *)
(* transaction, so an order for which a client got a 201 is announced, if  *)
(* not before the answer (to a repeated request) then after it.            *)
AckedIsAnnounced ==
    \A o \in Orders : o \in acked ~> Announced(OrderCreated, o)

===============================================================================
