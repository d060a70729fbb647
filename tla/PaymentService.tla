---------------------------- MODULE PaymentService ----------------------------
(***************************************************************************)
(* The payment service: it charges an order when OrderCreated arrives, and *)
(* refunds it (the compensation of the saga) when StockReservationFailed   *)
(* arrives.                                                                *)
(*                                                                         *)
(* Each handler makes three separate writes: the call of the payment       *)
(* gateway, the row of the payments table (written on the connection pool, *)
(* outside the handler's transaction), and the outbox row, committed last. *)
(***************************************************************************)
EXTENDS Channel

VARIABLES
    payments, \* the status of the order's row in the payments table
    charged,  \* the gateway's own books: charges made for the order
    refunded  \* the gateway's own books: refunds made for the order

paymentVars == <<payments, charged, refunded>>
vars == <<channelVars, paymentVars>>

ASSUME PaymentTopicsAssumption == Topics = PaymentTopics

(* The idempotency key of a row is made of the order and of the id of its  *)
(* OrderCreated event; there is one such event per order (OneOrderCreated  *)
(* of OrderService), so the rows are indexed by the order.                 *)
Init ==
    /\ ChannelInit
    /\ payments = [o \in Orders |-> "NONE"]
    /\ charged = [o \in Orders |-> 0]
    /\ refunded = [o \in Orders |-> 0]

PCs == {"idle", "charge", "create", "commit",
        "refund", "update", "commitRefund", "finish", "drop"}

TypeOK ==
    /\ ChannelTypeOK(PCs)
    /\ payments \in [Orders -> {"NONE", "COMPLETED", "REFUNDED"}]
    /\ charged \in [Orders -> Nat]
    /\ refunded \in [Orders -> Nat]

-------------------------------------------------------------------------------
(* HandleOrderCreated. *)

(* FindByIdempotencyKey: a row that is found ends the handler; any error   *)
(* of the query counts as absent.                                          *)
FindPayment(e) ==
    /\ \/ /\ payments[e.order] = "NONE"
          /\ NotProcessed(e)
          /\ Begin(OrderCreated, e, "charge")
       \/ /\ payments[e.order] # "NONE"
          /\ NotProcessed(e)
          /\ Begin(OrderCreated, e, "finish")
       \/ /\ payments[e.order] # "NONE"
          /\ QueryFails(e)
          /\ Begin(OrderCreated, e, "charge")
    /\ UNCHANGED <<outbox, paymentVars>>

(* processPayment: the gateway accepts, *)
Charge(o) ==
    /\ claim[OrderCreated].pc = "charge"
    /\ charged' = [charged EXCEPT ![o] = @ + 1]
    /\ Goto(OrderCreated, "create")
    /\ UNCHANGED <<outbox, faults, payments, refunded>>

(* or declines: publishPaymentFailed commits the event and returns an      *)
(* error, so the message is marked and its key is not reserved.            *)
MutantDecline(o) == \* the deferred Rollback undoes the event
    /\ claim[OrderCreated].pc = "charge"
    /\ Goto(OrderCreated, "drop")
    /\ UNCHANGED <<outbox, faults, paymentVars>>

Decline(o) ==
    /\ claim[OrderCreated].pc = "charge"
    /\ Send(PaymentFailed, o)
    /\ Goto(OrderCreated, "drop")
    /\ UNCHANGED <<faults, paymentVars>>

(* paymentRepo.Create commits at once; the unique key refuses a second row. *)
MutantCreatePayment(o) == \* INSERT ... ON CONFLICT DO UPDATE
    /\ claim[OrderCreated].pc = "create"
    /\ payments' = [payments EXCEPT ![o] = "COMPLETED"]
    /\ Goto(OrderCreated, "commit")
    /\ UNCHANGED <<outbox, faults, charged, refunded>>

CreatePayment(o) ==
    /\ claim[OrderCreated].pc = "create"
    /\ \/ /\ payments[o] = "NONE"
          /\ payments' = [payments EXCEPT ![o] = "COMPLETED"]
          /\ Goto(OrderCreated, "commit")
       \/ /\ payments[o] # "NONE"
          /\ Goto(OrderCreated, "drop")
          /\ UNCHANGED payments
    /\ UNCHANGED <<outbox, faults, charged, refunded>>

MutantCommitPayment(o) == \* the handler returns without the Commit
    /\ claim[OrderCreated].pc = "commit"
    /\ Goto(OrderCreated, "finish")
    /\ UNCHANGED <<outbox, faults, paymentVars>>

CommitPayment(o) ==
    /\ claim[OrderCreated].pc = "commit"
    /\ Send(PaymentCompleted, o)
    /\ Goto(OrderCreated, "finish")
    /\ UNCHANGED <<faults, paymentVars>>

-------------------------------------------------------------------------------
(* HandleStockReservationFailed. *)

(* FindByOrderID: no row is an error; a refunded row ends the handler. *)
MutantFindRefundable(e) == \* the status of the row is not tested
    /\ NotProcessed(e)
    /\ Begin(StockReservationFailed, e,
             IF payments[e.order] = "NONE" THEN "drop" ELSE "refund")
    /\ UNCHANGED <<outbox, paymentVars>>

FindRefundable(e) ==
    /\ NotProcessed(e)
    /\ \/ payments[e.order] = "NONE" /\ Begin(StockReservationFailed, e, "drop")
       \/ payments[e.order] = "REFUNDED" /\ Begin(StockReservationFailed, e, "finish")
       \/ payments[e.order] = "COMPLETED" /\ Begin(StockReservationFailed, e, "refund")
    /\ UNCHANGED <<outbox, paymentVars>>

(* The query itself fails. *)
FindRefundableFails(e) ==
    /\ QueryFails(e)
    /\ Begin(StockReservationFailed, e, "drop")
    /\ UNCHANGED <<outbox, paymentVars>>

(* refundPayment: the gateway always accepts. *)
Refund(o) ==
    /\ claim[StockReservationFailed].pc = "refund"
    /\ refunded' = [refunded EXCEPT ![o] = @ + 1]
    /\ Goto(StockReservationFailed, "update")
    /\ UNCHANGED <<outbox, faults, payments, charged>>

MutantUpdatePayment(o) == \* the update matches no row, which is no error
    /\ claim[StockReservationFailed].pc = "update"
    /\ Goto(StockReservationFailed, "commitRefund")
    /\ UNCHANGED <<outbox, faults, paymentVars>>

(* paymentRepo.UpdateStatus commits at once. *)
UpdatePayment(o) ==
    /\ claim[StockReservationFailed].pc = "update"
    /\ payments' = [payments EXCEPT ![o] = "REFUNDED"]
    /\ Goto(StockReservationFailed, "commitRefund")
    /\ UNCHANGED <<outbox, faults, charged, refunded>>

MutantCommitRefund(o) == \* the handler returns without the Commit
    /\ claim[StockReservationFailed].pc = "commitRefund"
    /\ Goto(StockReservationFailed, "finish")
    /\ UNCHANGED <<outbox, faults, paymentVars>>

CommitRefund(o) ==
    /\ claim[StockReservationFailed].pc = "commitRefund"
    /\ Send(PaymentRefunded, o)
    /\ Goto(StockReservationFailed, "finish")
    /\ UNCHANGED <<faults, paymentVars>>

-------------------------------------------------------------------------------
PaymentStep(o) ==
    Charge(o) \/ Decline(o) \/ CreatePayment(o) \/ CommitPayment(o)

RefundStep(o) == Refund(o) \/ UpdatePayment(o) \/ CommitRefund(o)

HandleOrderCreated ==
    \/ \E e \in Delivered(OrderCreated) : FindPayment(e)
    \/ PaymentStep(claim[OrderCreated].event.order)

HandleStockReservationFailed ==
    \/ \E e \in Delivered(StockReservationFailed) : FindRefundable(e)
    \/ RefundStep(claim[StockReservationFailed].event.order)

(* Both handlers, and the consumer around them, on topic t. *)
Serve(t) ==
    \/ t = OrderCreated /\ HandleOrderCreated
    \/ t = StockReservationFailed /\ HandleStockReservationFailed
    \/ \E e \in Delivered(t) : Skip(t, e) /\ UNCHANGED paymentVars
    \/ Finish(t) /\ UNCHANGED paymentVars
    \/ Drop(t) /\ UNCHANGED paymentVars

(* A database call fails: the handler returns, and what it has done at the *)
(* gateway and in the payments table stays done.                           *)
Errors ==
    \/ \E t \in Topics : /\ claim[t].pc \notin {"idle", "finish", "drop"}
                         /\ Fail(t)
                         /\ UNCHANGED paymentVars
    \/ \E e \in Delivered(StockReservationFailed) : FindRefundableFails(e)
    \/ \E e \in marked : Redeliver(e) /\ UNCHANGED paymentVars
    \/ CrashClaims /\ UNCHANGED paymentVars

Service == (\E t \in Topics : Serve(t)) \/ Errors

(* The other services: an order is announced once, and stock is refused    *)
(* only to orders that were paid.                                          *)
Foreign ==
    {e \in Event : \/ e.type = OrderCreated /\ ~ Announced(OrderCreated, e.order)
                   \/ e.type = StockReservationFailed
                         /\ Announced(PaymentCompleted, e.order)}

Environment == Elsewhere(Foreign) /\ UNCHANGED paymentVars

Next == Service \/ Environment

Spec == Init /\ [][Next]_vars

(* A message that was delivered is handled, as long as the process is up.  *)
Fairness == \A t \in Topics : WF_vars(Serve(t))

FairSpec == Spec /\ Fairness

-------------------------------------------------------------------------------
(* Properties. *)

(* An order is charged and refunded at most once, however often messages   *)
(* come and Redis forgets that they were handled.  What can repeat the     *)
(* call is a crash or a database error in the middle of a handler, and it  *)
(* repeats it once.  Nothing is refunded that was not charged.             *)
GatewayOnce ==
    \A o \in Orders :
        /\ charged[o] <= 1 + Failures
        /\ refunded[o] <= 1 + Failures
        /\ refunded[o] > 0 => charged[o] > 0

(* Redelivery and crashes notwithstanding, an order has at most one        *)
(* PaymentCompleted and at most one PaymentRefunded: the saga neither goes *)
(* forward nor is compensated twice.                                       *)
OneVerdict ==
    \A e, f \in outbox :
        e.type \in {PaymentCompleted, PaymentRefunded}
            /\ f.type = e.type /\ f.order = e.order => e = f

(* What is published is backed by the gateway: PaymentCompleted needs a    *)
(* charge, PaymentRefunded needs a refund of a payment that was announced. *)
VerdictBacked ==
    \A o \in Orders :
        /\ Announced(PaymentCompleted, o) => charged[o] >= 1 /\ payments[o] # "NONE"
        /\ Announced(PaymentRefunded, o) =>
              /\ refunded[o] >= 1
              /\ payments[o] = "REFUNDED"
              /\ Announced(PaymentCompleted, o)

(* Every order that is announced gets a verdict on its payment, unless a   *)
(* handler was stopped in the middle.                                      *)
OrderGetsVerdict ==
    \A o \in Orders :
        Announced(OrderCreated, o) ~>
            \/ Announced(PaymentCompleted, o)
            \/ Announced(PaymentFailed, o)
            \/ Failures > 0

(* Every order that was refused stock after it was paid is refunded, unless *)
(* a handler was stopped in the middle.                                     *)
RefusedIsRefunded ==
    \A o \in Orders :
        Announced(StockReservationFailed, o) ~>
            Announced(PaymentRefunded, o) \/ Failures > 0

===============================================================================
