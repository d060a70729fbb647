--------------------------- MODULE InventoryService ---------------------------
(***************************************************************************)
(* The inventory service: it reserves one unit of the one product for an   *)
(* order whose PaymentCompleted arrives, and gives it back when            *)
(* PaymentRefunded arrives.                                                *)
(*                                                                         *)
(* Each handler runs one database transaction.  Its first statement locks  *)
(* the inventory row (SELECT ... FOR UPDATE); what it writes becomes       *)
(* visible when it commits.  So a handler is two steps: the lock with the  *)
(* values it reads, and the commit, which also tests the row's version.    *)
(***************************************************************************)
EXTENDS Channel

CONSTANTS
    Stocks,   \* the quantities that may be on hand at the start
    Schemas   \* the sets of labels that the schema's type reservation_status
              \* may have: the one of the repository's script, or another

ASSUME StocksAssumption == Stocks \subseteq Nat

VARIABLES
    labels,       \* the labels of reservation_status in this database
    inventory,    \* the row of the product
    reservations, \* the status of the order's row in stock_reservations
    snap          \* for every topic: the inventory row its handler has read

inventoryVars == <<labels, inventory, reservations, snap>>
vars == <<channelVars, inventoryVars>>

ASSUME InventoryTopicsAssumption == Topics = InventoryTopics

Row == [available : Nat, reserved : Nat, version : Nat]

NothingRead == [available |-> 0, reserved |-> 0, version |-> 0]

(* The idempotency key of a reservation is made of the order and of the id *)
(* of its PaymentCompleted event; there is at most one such event per      *)
(* order (OneVerdict of PaymentService), so the rows are indexed by it.    *)
Init ==
    /\ ChannelInit
    /\ labels \in Schemas
    /\ \E stock \in Stocks :
          inventory = [available |-> stock, reserved |-> 0, version |-> 0]
    /\ reservations = [o \in Orders |-> "NONE"]
    /\ snap = [t \in Topics |-> NothingRead]

PCs == {"idle", "locked", "finish", "drop"}

TypeOK ==
    /\ ChannelTypeOK(PCs)
    /\ labels \in Schemas
    /\ inventory \in Row
    /\ reservations \in [Orders -> {"NONE", "RESERVED", "CANCELLED"}]
    /\ snap \in [Topics -> Row]

-------------------------------------------------------------------------------
(* The quantity is hard-wired; the quantity of the order is not used. *)
Quantity == 1

Reserve(row) ==
    [available |-> row.available - Quantity,
     reserved |-> row.reserved + Quantity,
     version |-> row.version + 1]

Restore(row) ==
    [available |-> row.available + Quantity,
     reserved |-> row.reserved - Quantity,
     version |-> row.version + 1]

(* The row is locked while another transaction has read it FOR UPDATE. *)
MutantRowLocked == FALSE \* a plain SELECT

RowLocked == \E t \in Topics : claim[t].pc = "locked"

(* FindByProductIDForUpdate. *)
LockRow(t, e) ==
    /\ ~ RowLocked
    /\ Begin(t, e, "locked")
    /\ snap' = [snap EXCEPT ![t] = inventory]
    /\ UNCHANGED <<outbox, labels, inventory, reservations>>

(* The transaction of topic t ends, with a commit or a rollback. *)
EndTx(t, pc) ==
    /\ snap' = [snap EXCEPT ![t] = NothingRead]
    /\ Goto(t, pc)
    /\ UNCHANGED <<labels, faults>>

(* UpdateWithOptimisticLock finds the version it has read. *)
SameVersion(t) == inventory.version = snap[t].version

-------------------------------------------------------------------------------
(* HandlePaymentCompleted. *)

MutantFindReservation(e) == \* the reservation is not looked for
    NotProcessed(e) /\ LockRow(PaymentCompleted, e)

FindReservation(e) ==
    /\ NotProcessed(e)
    /\ \/ reservations[e.order] = "NONE" /\ LockRow(PaymentCompleted, e)
       \/ /\ reservations[e.order] # "NONE"
          /\ Begin(PaymentCompleted, e, "finish")
          /\ UNCHANGED <<outbox, inventoryVars>>

CanReserve == snap[PaymentCompleted].available >= Quantity

(* Inventory, reservation and event are committed together. *)
CommitReservation(o) ==
    /\ claim[PaymentCompleted].pc = "locked"
    /\ CanReserve /\ SameVersion(PaymentCompleted)
    /\ inventory' = Reserve(snap[PaymentCompleted])
    /\ reservations' = [reservations EXCEPT ![o] = "RESERVED"]
    /\ Send(StockReserved, o)
    /\ EndTx(PaymentCompleted, "finish")

(* publishStockReservationFailed commits the event and returns an error,   *)
(* so the message is marked and its key is not reserved.                   *)
MutantRefuseReservation(o) == \* the deferred Rollback undoes the event
    /\ claim[PaymentCompleted].pc = "locked"
    /\ ~ (CanReserve /\ SameVersion(PaymentCompleted))
    /\ EndTx(PaymentCompleted, "drop")
    /\ UNCHANGED <<outbox, labels, inventory, reservations>>

MutantRefuseButReserve(o) == \* the return after the refusal is missing
    /\ claim[PaymentCompleted].pc = "locked"
    /\ ~ (CanReserve /\ SameVersion(PaymentCompleted))
    /\ outbox' = outbox \cup {[type |-> verdict, order |-> o, id |-> 1] :
                               verdict \in {StockReservationFailed, StockReserved}}
    /\ EndTx(PaymentCompleted, "finish")
    /\ UNCHANGED <<labels, inventory, reservations>>

RefuseReservation(o) ==
    /\ claim[PaymentCompleted].pc = "locked"
    /\ ~ (CanReserve /\ SameVersion(PaymentCompleted))
    /\ Send(StockReservationFailed, o)
    /\ EndTx(PaymentCompleted, "drop")
    /\ UNCHANGED <<labels, inventory, reservations>>

-------------------------------------------------------------------------------
(* HandlePaymentRefunded. *)

MutantFindReserved(e) == \* the status of the reservation is not tested
    /\ NotProcessed(e)
    /\ \/ reservations[e.order] # "NONE" /\ LockRow(PaymentRefunded, e)
       \/ /\ reservations[e.order] = "NONE"
          /\ Begin(PaymentRefunded, e, "finish")
          /\ UNCHANGED <<outbox, inventoryVars>>

MutantFindConfirmed(e) == \* the reservation is expected to be confirmed first
    /\ NotProcessed(e)
    /\ \/ reservations[e.order] = "CONFIRMED" /\ LockRow(PaymentRefunded, e)
       \/ /\ reservations[e.order] # "CONFIRMED"
          /\ Begin(PaymentRefunded, e, "finish")
          /\ UNCHANGED <<outbox, inventoryVars>>

FindReserved(e) ==
    /\ NotProcessed(e)
    /\ \/ reservations[e.order] = "RESERVED" /\ LockRow(PaymentRefunded, e)
       \/ /\ reservations[e.order] # "RESERVED"
          /\ Begin(PaymentRefunded, e, "finish")
          /\ UNCHANGED <<outbox, inventoryVars>>

(* The code writes the status CANCELLED, which the schema must know.  The  *)
(* schema of the repository has a label CANCELED instead.                  *)
ShippedLabels == {"RESERVED", "CONFIRMED", "CANCELED", "EXPIRED"}

CanCancel == "CANCELLED" \in labels

CommitRestoration(o) ==
    /\ claim[PaymentRefunded].pc = "locked"
    /\ SameVersion(PaymentRefunded) /\ CanCancel
    /\ inventory' = Restore(snap[PaymentRefunded])
    /\ reservations' = [reservations EXCEPT ![o] = "CANCELLED"]
    /\ Send(StockRestored, o)
    /\ EndTx(PaymentRefunded, "finish")

RollbackRestoration ==
    /\ claim[PaymentRefunded].pc = "locked"
    /\ ~ (SameVersion(PaymentRefunded) /\ CanCancel)
    /\ EndTx(PaymentRefunded, "drop")
    /\ UNCHANGED <<outbox, labels, inventory, reservations>>

-------------------------------------------------------------------------------
HandlePaymentCompleted ==
    LET o == claim[PaymentCompleted].event.order IN
    \/ \E e \in Delivered(PaymentCompleted) : FindReservation(e)
    \/ CommitReservation(o)
    \/ RefuseReservation(o)

HandlePaymentRefunded ==
    LET o == claim[PaymentRefunded].event.order IN
    \/ \E e \in Delivered(PaymentRefunded) : FindReserved(e)
    \/ CommitRestoration(o)
    \/ RollbackRestoration

Serve(t) ==
    \/ t = PaymentCompleted /\ HandlePaymentCompleted
    \/ t = PaymentRefunded /\ HandlePaymentRefunded
    \/ \E e \in Delivered(t) : Skip(t, e) /\ UNCHANGED inventoryVars
    \/ Finish(t) /\ UNCHANGED inventoryVars
    \/ Drop(t) /\ UNCHANGED inventoryVars

(* The query that looks for the reservation fails, or the one that locks   *)
(* the row does.  The code answers the latter with a refusal, but in the   *)
(* same transaction: PostgreSQL has aborted it, so the event cannot be     *)
(* inserted either and the handler returns an error.                       *)
FindFails(t, e) ==
    /\ QueryFails(e)
    /\ Begin(t, e, "drop")
    /\ UNCHANGED <<outbox, inventoryVars>>

(* A later statement or the commit fails: the transaction is rolled back. *)
TxFails(t) ==
    /\ claim[t].pc = "locked"
    /\ Fail(t)
    /\ snap' = [snap EXCEPT ![t] = NothingRead]
    /\ UNCHANGED <<labels, inventory, reservations>>

Crash ==
    /\ CrashClaims
    /\ snap' = [t \in Topics |-> NothingRead]
    /\ UNCHANGED <<labels, inventory, reservations>>

Errors ==
    \/ \E t \in Topics : (\E e \in Delivered(t) : FindFails(t, e)) \/ TxFails(t)
    \/ \E e \in marked : Redeliver(e) /\ UNCHANGED inventoryVars
    \/ Crash

Service == (\E t \in Topics : Serve(t)) \/ Errors

Answered(o) == Announced(StockReserved, o) \/ Announced(StockReservationFailed, o)

(* The other services: an order is paid once, and it is refunded only      *)
(* after this service has answered.                                        *)
Foreign ==
    {e \in Event : \/ e.type = PaymentCompleted /\ ~ Announced(PaymentCompleted, e.order)
                   \/ e.type = PaymentRefunded /\ Answered(e.order)}

Environment == Elsewhere(Foreign) /\ UNCHANGED inventoryVars

Next == Service \/ Environment

Spec == Init /\ [][Next]_vars

(* A message that was delivered is handled, as long as the process is up.  *)
Fairness == \A t \in Topics : WF_vars(Serve(t))

FairSpec == Spec /\ Fairness

-------------------------------------------------------------------------------
(* Properties. *)

ReservedOrders == {o \in Orders : reservations[o] = "RESERVED"}

(* No unit is lost, sold twice or given back twice: the row's quantities   *)
(* add up to what was on hand at the start, and the reserved quantity is   *)
(* the number of reservations, whatever comes twice, fails or crashes.     *)
StockConserved ==
    /\ inventory.available + inventory.reserved \in Stocks
    /\ inventory.reserved = Quantity * Cardinality(ReservedOrders)

(* The outbox is in the transaction: a reservation and its cancellation    *)
(* are announced, once each, exactly when they are in the table.           *)
ReservationAnnounced ==
    /\ \A o \in Orders :
          /\ Announced(StockReserved, o) <=> reservations[o] # "NONE"
          /\ Announced(StockRestored, o) <=> reservations[o] = "CANCELLED"
    /\ \A e, f \in outbox :
          e.type \in {StockReserved, StockRestored}
              /\ f.type = e.type /\ f.order = e.order => e = f

(* Stock is refused to an order only when there is none left: the handlers *)
(* of the two topics never make each other fail on the version of the row. *)
RefusedOnlyWhenSoldOut ==
    [][\A o \in Orders :
          ~ Announced(StockReservationFailed, o) /\ Announced(StockReservationFailed, o)'
              => inventory.available < Quantity]_vars

(* Every paid order is told whether it has its stock, unless a database    *)
(* error made a handler give up: crashes and redelivery do no harm.        *)
PaidGetsAnswer ==
    \A o \in Orders :
        Announced(PaymentCompleted, o) ~> Answered(o) \/ faults.db > 0

RefundArrived(o) ==
    /\ reservations[o] = "RESERVED"
    /\ \E e \in Delivered(PaymentRefunded) \ idem :
          e.order = o /\ e # claim[PaymentRefunded].event

(* When a refund arrives for an order that holds a reservation, the stock  *)
(* is given back, if the schema knows the label CANCELLED and no database  *)
(* error made the handler give up.                                         *)
RefundRestoresIfKnown ==
    \A o \in Orders :
        RefundArrived(o) /\ CanCancel ~>
            Announced(StockRestored, o) \/ faults.db > 0

-------------------------------------------------------------------------------
(* What the documentation promises and the code does not keep. *)

(* README, failure flow: a refund gives the stock back, under the schema   *)
(* of the repository's script.                                             *)
RefundRestores ==
    \A o \in Orders : RefundArrived(o) ~> Announced(StockRestored, o)

===============================================================================
