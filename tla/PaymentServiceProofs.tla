------------------------- MODULE PaymentServiceProofs -------------------------
(***************************************************************************)
(* The payment service's invariants, for every set of orders and every     *)
(* bound on events and faults.                                             *)
(***************************************************************************)
EXTENDS PaymentService, ChannelProofs

LEMMA Names ==
    /\ Topics = {OrderCreated, StockReservationFailed}
    /\ OrderCreated # StockReservationFailed
    /\ {PaymentCompleted, PaymentFailed, PaymentRefunded} \subseteq EventType
    /\ {PaymentCompleted, PaymentRefunded} \cap {OrderCreated, StockReservationFailed} = {}
    /\ PaymentCompleted # PaymentRefunded
    /\ PaymentFailed \notin {PaymentCompleted, PaymentRefunded, StockReservationFailed}
BY PaymentTopicsAssumption
DEF PaymentTopics, EventType, OrderCreated, StockReservationFailed, PaymentCompleted,
    PaymentFailed, PaymentRefunded

-------------------------------------------------------------------------------
(* Type correctness. *)

LEMMA InitTypeOK == Init => TypeOK
BY OrdersAssumption
DEF Init, ChannelInit, TypeOK, ChannelTypeOK, ClaimsHeld, Idle, PCs

(* The event in hand is about an order. *)
LEMMA InHand ==
    ASSUME TypeOK, NEW t \in Topics, claim[t].pc # "idle"
    PROVE  claim[t].event.order \in Orders /\ claim[t].event \in outbox
           /\ claim[t].event.type = t
BY DEF TypeOK, ChannelTypeOK, ClaimsHeld, Event

(* The first step of a handler. *)
LEMMA FindTypeOK ==
    ASSUME TypeOK, NEW t \in Topics, NEW e \in Delivered(t),
           \/ t = OrderCreated /\ FindPayment(e)
           \/ t = StockReservationFailed /\ (FindRefundable(e) \/ FindRefundableFails(e))
    PROVE  TypeOK'
<1>1. GrowingOutbox
    BY FaultCounts, NotProcessedCounts
    DEF FindPayment, FindRefundable, FindRefundableFails, QueryFails, TypeOK,
        ChannelTypeOK, GrowingOutbox
<1>2. PICK pc \in PCs \ {"idle"} : Begin(t, e, pc)
    BY DEF FindPayment, FindRefundable, FindRefundableFails, PCs
<1>3. UNCHANGED paymentVars
    BY DEF FindPayment, FindRefundable, FindRefundableFails
<1> QED BY <1>1, <1>2, <1>3, BeginType DEF TypeOK, paymentVars

(* The later steps of both handlers. *)
LEMMA StepTypeOK ==
    ASSUME TypeOK, NEW t \in Topics, NEW o, o = claim[t].event.order,
           \/ t = OrderCreated /\ PaymentStep(o)
           \/ t = StockReservationFailed /\ RefundStep(o)
    PROVE  TypeOK'
<1> USE DEF PaymentStep, RefundStep, Charge, Decline, CreatePayment, CommitPayment,
            Refund, UpdatePayment, CommitRefund
<1>1. claim[t].pc # "idle"
    OBVIOUS
<1>2. o \in Orders
    BY <1>1, InHand
<1>3. GrowingOutbox
    BY <1>2, SendGrows, Names DEF GrowingOutbox, TypeOK, ChannelTypeOK
<1>4. PICK pc \in PCs \ {"idle"} : Goto(t, pc)
    BY DEF PCs
<1>5. ChannelTypeOK(PCs)'
    BY <1>1, <1>3, <1>4, GotoType DEF TypeOK
<1>6. payments' \in [Orders -> {"NONE", "COMPLETED", "REFUNDED"}]
    BY DEF TypeOK, paymentVars
<1>7. charged' \in [Orders -> Nat] /\ refunded' \in [Orders -> Nat]
    BY <1>2 DEF TypeOK, paymentVars
<1> QED BY <1>5, <1>6, <1>7 DEF TypeOK, PCs

LEMMA NextTypeOK == TypeOK /\ [Next]_vars => TypeOK'
<1> SUFFICES ASSUME TypeOK, [Next]_vars PROVE TypeOK'
    OBVIOUS
<1>1. "idle" \in PCs /\ "drop" \in PCs
    BY DEF PCs
<1>2. ASSUME NEW t \in Topics, Serve(t) PROVE TypeOK'
  <2>1. ASSUME NEW e \in Delivered(t), Skip(t, e), UNCHANGED paymentVars PROVE TypeOK'
    BY <1>1, <2>1, SkipType DEF TypeOK, paymentVars, PCs
  <2>2. CASE Finish(t) /\ UNCHANGED paymentVars
    BY <1>1, <2>2, FinishType DEF TypeOK, paymentVars, PCs
  <2>3. CASE Drop(t) /\ UNCHANGED paymentVars
    BY <1>1, <2>3, DropType DEF TypeOK, paymentVars, PCs
  <2> QED BY <1>2, <2>1, <2>2, <2>3, FindTypeOK, StepTypeOK
          DEF Serve, HandleOrderCreated, HandleStockReservationFailed
<1>3. ASSUME Errors PROVE TypeOK'
  <2>1. ASSUME NEW t \in Topics, claim[t].pc # "idle", Fail(t), UNCHANGED paymentVars
        PROVE  TypeOK'
    BY <1>1, <2>1, FailType DEF TypeOK, paymentVars, PCs
  <2>2. ASSUME NEW e \in marked, Redeliver(e), UNCHANGED paymentVars PROVE TypeOK'
    BY <2>2, RedeliverType DEF TypeOK, paymentVars, PCs
  <2>3. CASE CrashClaims /\ UNCHANGED paymentVars
    BY <1>1, <2>3, CrashType DEF TypeOK, paymentVars, PCs
  <2> QED BY <1>3, <2>1, <2>2, <2>3, FindTypeOK, Names DEF Errors
<1>4. ASSUME Environment PROVE TypeOK'
    BY <1>4, ElsewhereType DEF Environment, Foreign, TypeOK, paymentVars, PCs
<1>5. ASSUME UNCHANGED vars PROVE TypeOK'
    BY <1>5, StutterType DEF vars, TypeOK, paymentVars, PCs
<1> QED BY <1>2, <1>3, <1>4, <1>5 DEF Next, Service

(* The payment service keeps its types, and every message in hand is an    *)
(* unmarked event of the claim's own topic.                                *)
THEOREM TypeCorrect == Spec => []TypeOK
BY InitTypeOK, NextTypeOK, PTL DEF Spec

-------------------------------------------------------------------------------
(* The inductive invariant. *)

(* Where the handler of topic t is with order o. *)
At(t, o, pcs) == claim[t].pc \in pcs /\ claim[t].event.order = o

(* Nobody is refused stock who has not paid. *)
RefusedWasPaid ==
    \A e \in outbox :
        e.type = StockReservationFailed => Announced(PaymentCompleted, e.order)

(* What has been done by a handler that is at work on the order. *)
InProgress ==
    \A o \in Orders :
        /\ refunded[o] > 0 => payments[o] # "NONE"
        /\ payments[o] # "NONE" \/ At(OrderCreated, o, {"create"}) => charged[o] >= 1
        /\ At(OrderCreated, o, {"commit"}) =>
              payments[o] # "NONE" /\ ~ Announced(PaymentCompleted, o)
        /\ At(StockReservationFailed, o, {"refund", "update"}) =>
              payments[o] = "COMPLETED"
        /\ At(StockReservationFailed, o, {"update", "commitRefund"}) => refunded[o] >= 1
        /\ At(StockReservationFailed, o, {"commitRefund"}) =>
              payments[o] = "REFUNDED" /\ ~ Announced(PaymentRefunded, o)

(* Every charge beyond the one the row stands for has cost a failure, and  *)
(* so has every refund.                                                    *)
One(condition) == IF condition THEN 1 ELSE 0

CallsCounted ==
    \A o \in Orders :
        /\ charged[o] + One(At(OrderCreated, o, {"charge"}))
              <= Failures + One(payments[o] # "NONE" \/ At(OrderCreated, o, {"charge", "create"}))
        /\ refunded[o] + One(At(StockReservationFailed, o, {"refund"}))
              <= Failures + One(payments[o] = "REFUNDED"
                                   \/ At(StockReservationFailed, o, {"refund", "update"}))

IInv ==
    /\ TypeOK
    /\ RefusedWasPaid
    /\ InProgress
    /\ CallsCounted
    /\ VerdictBacked
    /\ OneVerdict

LEMMA InitIInv == Init => IInv
BY InitTypeOK, Names
DEF Init, ChannelInit, Idle, IInv, RefusedWasPaid, InProgress, CallsCounted,
    VerdictBacked, OneVerdict, Announced, At, One, Failures, FaultKind

Quiet == {"idle", "finish", "drop"} \* nothing is at work on an order

(* The step sends no verdict of the payment, and whoever is refused stock  *)
(* has paid.                                                               *)
NoVerdict ==
    /\ outbox \subseteq outbox'
    /\ \A e \in outbox' \ outbox :
          /\ e.type \notin {PaymentCompleted, PaymentRefunded}
          /\ e.type = StockReservationFailed => Announced(PaymentCompleted, e.order)

LEMMA NoVerdictSent ==
    ASSUME NoVerdict, RefusedWasPaid
    PROVE  /\ RefusedWasPaid'
           /\ \A o : Announced(PaymentCompleted, o)' <=> Announced(PaymentCompleted, o)
           /\ \A o : Announced(PaymentRefunded, o)' <=> Announced(PaymentRefunded, o)
           /\ OneVerdict => OneVerdict'
BY DEF NoVerdict, RefusedWasPaid, Announced, OneVerdict

(* The failures are a number that never falls. *)
LEMMA FailureCount ==
    ASSUME faults \in [FaultKind -> Nat] PROVE Failures \in Nat
BY DEF Failures, FaultKind

LEMMA FaultsGrow ==
    ASSUME faults \in [FaultKind -> Nat], NEW kind, Fault(kind)
    PROVE  /\ Failures' >= Failures
           /\ kind \in {"db", "crash"} => Failures' > Failures
BY FaultKindsAssumption DEF Fault, Failures, FaultKind

(* A step that writes nothing about payments, and leaves each handler as   *)
(* it is, or outside its work: then it was outside, or a failure stopped   *)
(* it.                                                                     *)
LEMMA QuietStep ==
    ASSUME IInv, TypeOK', UNCHANGED paymentVars, NoVerdict, Failures' >= Failures,
           \A t \in Topics :
              \/ claim'[t] = claim[t]
              \/ /\ claim'[t].pc \in Quiet
                 /\ claim[t].pc \in Quiet \/ Failures' > Failures
    PROVE  IInv'
<1>1. \A o \in Orders, t \in Topics : \A pcs :
         pcs \cap Quiet = {} /\ At(t, o, pcs)' => At(t, o, pcs)
    BY DEF At
<1>2. RefusedWasPaid' /\ OneVerdict' /\ VerdictBacked'
    BY NoVerdictSent DEF IInv, VerdictBacked, paymentVars
<1>3. InProgress'
    BY <1>1, NoVerdictSent, Names DEF IInv, InProgress, Quiet, paymentVars
<1>4. CallsCounted'
  <2>1. Failures \in Nat /\ Failures' \in Nat
    BY DEF IInv, TypeOK, ChannelTypeOK, Failures, FaultKind
  <2>2. charged \in [Orders -> Nat] /\ refunded \in [Orders -> Nat]
    BY DEF IInv, TypeOK
  <2>3. ASSUME NEW o \in Orders, NEW t \in Topics, NEW pcs, pcs \cap Quiet = {}
        PROVE  Failures' > Failures \/ (At(t, o, pcs)' <=> At(t, o, pcs))
    BY <2>3 DEF At
  <2> QED BY <1>1, <2>1, <2>2, <2>3, Names
          DEF IInv, CallsCounted, One, Quiet, paymentVars
<1> QED BY <1>2, <1>3, <1>4 DEF IInv

(* Where the handlers are after a step of the handler of topic t. *)
LEMMA HandlerMoves ==
    ASSUME IInv, NEW t \in Topics, claim[t].pc # "idle",
           NEW o, o = claim[t].event.order, NEW pc, Goto(t, pc), UNCHANGED faults
    PROVE  /\ o \in Orders
           /\ Failures' = Failures /\ Failures \in Nat
           /\ \A q \in Orders : \A pcs :
                 /\ At(t, q, pcs) <=> claim[t].pc \in pcs /\ q = o
                 /\ At(t, q, pcs)' <=> pc \in pcs /\ q = o
                 /\ \A u \in Topics : u # t => At(u, q, pcs)' = At(u, q, pcs)
BY InHand, FailureCount DEF IInv, TypeOK, ChannelTypeOK, Goto, At, Failures

(* Where they are when the handler of topic t starts with event e. *)
LEMMA HandlerBegins ==
    ASSUME IInv, NEW t \in Topics, NEW e \in Delivered(t), NEW pc, Begin(t, e, pc)
    PROVE  /\ e.order \in Orders /\ e \in outbox /\ e.type = t
           /\ \A q \in Orders : \A pcs :
                 /\ "idle" \notin pcs => ~ At(t, q, pcs)
                 /\ At(t, q, pcs)' <=> pc \in pcs /\ q = e.order
                 /\ \A u \in Topics : u # t => At(u, q, pcs)' = At(u, q, pcs)
BY DEF IInv, TypeOK, ChannelTypeOK, Begin, Delivered, At, Event

LEMMA SameOutbox == UNCHANGED outbox => NoVerdict
BY DEF NoVerdict

(* A verdict is sent about an order that had none of its type. *)
LEMMA VerdictSent ==
    ASSUME IInv, NEW type \in {PaymentCompleted, PaymentRefunded}, NEW o \in Orders,
           ~ Announced(type, o), Send(type, o)
    PROVE  /\ RefusedWasPaid' /\ OneVerdict'
           /\ \A q : Announced(type, q)' <=> Announced(type, q) \/ q = o
           /\ \A other, q : other # type => (Announced(other, q)' <=> Announced(other, q))
<1>1. PICK n \in 1 .. MaxEvents :
         LET f == [type |-> type, order |-> o, id |-> n] IN
         f \notin outbox /\ outbox' = outbox \cup {f}
    BY SendAddsOne, Names DEF IInv, TypeOK, ChannelTypeOK
<1>2. \A q : Announced(type, q)' <=> Announced(type, q) \/ q = o
    BY <1>1 DEF Announced
<1>3. \A other, q : other # type => (Announced(other, q)' <=> Announced(other, q))
    BY <1>1 DEF Announced
<1>4. RefusedWasPaid'
  <2>1. \A e \in outbox' : e.type = StockReservationFailed => e \in outbox
    <3>1. type # StockReservationFailed
        BY Names
    <3> QED BY <1>1, <3>1
  <2>2. \A q : Announced(PaymentCompleted, q) => Announced(PaymentCompleted, q)'
    BY <1>2, <1>3
  <2> QED BY <2>1, <2>2 DEF IInv, RefusedWasPaid
<1>5. OneVerdict'
    BY <1>1 DEF IInv, OneVerdict, Announced
<1> QED BY <1>2, <1>3, <1>4, <1>5

-------------------------------------------------------------------------------
(* The handler of OrderCreated. *)

LEMMA FindPaymentStep ==
    ASSUME IInv, TypeOK', NEW e \in Delivered(OrderCreated), FindPayment(e)
    PROVE  IInv'
<1>1. Failures \in Nat /\ Failures' \in Nat /\ Failures' >= Failures
    BY FailureCount, FaultsGrow
    DEF IInv, TypeOK, ChannelTypeOK, FindPayment, NotProcessed, QueryFails, Failures,
        FaultKind
<1>2. NoVerdict /\ UNCHANGED paymentVars /\ OrderCreated \in Topics
    BY SameOutbox, Names DEF FindPayment
<1>3. CASE Begin(OrderCreated, e, "finish")
  <2>1. \A t \in Topics : \/ claim'[t] = claim[t]
                          \/ claim'[t].pc \in Quiet /\ claim[t].pc \in Quiet
    BY <1>3 DEF Begin, Quiet, IInv, TypeOK, ChannelTypeOK
  <2> QED BY <1>1, <1>2, <2>1, QuietStep
<1>4. CASE Begin(OrderCreated, e, "charge")
  <2>1. payments[e.order] = "NONE" \/ Failures' > Failures
    BY <1>4, FaultsGrow DEF FindPayment, QueryFails, Begin, IInv, TypeOK, ChannelTypeOK
  <2>2. RefusedWasPaid' /\ OneVerdict' /\ VerdictBacked'
    BY <1>2, NoVerdictSent DEF IInv, VerdictBacked, paymentVars
  <2>3. InProgress'
    BY <1>2, <1>4, HandlerBegins, NoVerdictSent, Names DEF IInv, InProgress, paymentVars
  <2>4. CallsCounted'
    BY <1>1, <1>2, <1>4, <2>1, HandlerBegins, Names
    DEF IInv, CallsCounted, One, paymentVars, TypeOK
  <2> QED BY <2>2, <2>3, <2>4 DEF IInv
<1> QED BY <1>3, <1>4 DEF FindPayment

LEMMA ChargeStep ==
    ASSUME IInv, TypeOK', Charge(claim[OrderCreated].event.order) PROVE IInv'
<1> DEFINE o == claim[OrderCreated].event.order
<1>1. /\ NoVerdict /\ UNCHANGED <<payments, refunded, faults>> /\ OrderCreated \in Topics
      /\ claim[OrderCreated].pc = "charge" /\ Goto(OrderCreated, "create")
      /\ charged' = [charged EXCEPT ![o] = @ + 1]
    BY SameOutbox, Names DEF Charge
<1>2. o \in Orders /\ charged \in [Orders -> Nat] /\ refunded \in [Orders -> Nat]
    BY <1>1, HandlerMoves DEF IInv, TypeOK
<1>3. RefusedWasPaid' /\ OneVerdict' /\ VerdictBacked'
    BY <1>1, <1>2, NoVerdictSent DEF IInv, VerdictBacked
<1>4. InProgress'
    BY <1>1, <1>2, HandlerMoves, NoVerdictSent, Names DEF IInv, InProgress
<1>5. CallsCounted'
    BY <1>1, <1>2, HandlerMoves, Names DEF IInv, CallsCounted, One
<1> QED BY <1>3, <1>4, <1>5 DEF IInv

LEMMA DeclineStep ==
    ASSUME IInv, TypeOK', Decline(claim[OrderCreated].event.order) PROVE IInv'
<1> DEFINE o == claim[OrderCreated].event.order
<1>1. /\ UNCHANGED <<paymentVars, faults>> /\ OrderCreated \in Topics
      /\ claim[OrderCreated].pc = "charge" /\ Goto(OrderCreated, "drop")
      /\ Send(PaymentFailed, o)
    BY Names DEF Decline
<1>2. o \in Orders /\ charged \in [Orders -> Nat] /\ refunded \in [Orders -> Nat]
    BY <1>1, HandlerMoves DEF IInv, TypeOK
<1>3. NoVerdict
  <2>1. PICK n \in 1 .. MaxEvents :
           LET f == [type |-> PaymentFailed, order |-> o, id |-> n] IN
           f \notin outbox /\ outbox' = outbox \cup {f}
    BY <1>1, <1>2, SendAddsOne, Names DEF IInv, TypeOK, ChannelTypeOK
  <2> QED BY <2>1, Names DEF NoVerdict
<1>4. RefusedWasPaid' /\ OneVerdict' /\ VerdictBacked'
    BY <1>1, <1>3, NoVerdictSent DEF IInv, VerdictBacked, paymentVars
<1>5. InProgress'
    BY <1>1, <1>3, HandlerMoves, NoVerdictSent, Names DEF IInv, InProgress, paymentVars
<1>6. CallsCounted'
    BY <1>1, <1>2, HandlerMoves, Names DEF IInv, CallsCounted, One, paymentVars
<1> QED BY <1>4, <1>5, <1>6 DEF IInv

LEMMA CreatePaymentStep ==
    ASSUME IInv, TypeOK', CreatePayment(claim[OrderCreated].event.order) PROVE IInv'
<1> DEFINE o == claim[OrderCreated].event.order
<1>1. /\ NoVerdict /\ UNCHANGED <<charged, refunded, faults>> /\ OrderCreated \in Topics
      /\ claim[OrderCreated].pc = "create"
      /\ \/ /\ payments[o] = "NONE" /\ Goto(OrderCreated, "commit")
            /\ payments' = [payments EXCEPT ![o] = "COMPLETED"]
         \/ payments[o] # "NONE" /\ Goto(OrderCreated, "drop") /\ UNCHANGED payments
    BY SameOutbox, Names DEF CreatePayment
<1>2. /\ o \in Orders /\ charged \in [Orders -> Nat] /\ refunded \in [Orders -> Nat]
      /\ payments \in [Orders -> {"NONE", "COMPLETED", "REFUNDED"}]
    BY <1>1, HandlerMoves DEF IInv, TypeOK
<1>3. CASE payments[o] = "NONE"
  <2>1. ~ Announced(PaymentCompleted, o)
    BY <1>2, <1>3 DEF IInv, VerdictBacked
  <2>2. RefusedWasPaid' /\ OneVerdict' /\ VerdictBacked'
    BY <1>1, <1>2, <1>3, NoVerdictSent DEF IInv, VerdictBacked
  <2>3. InProgress'
    BY <1>1, <1>2, <1>3, <2>1, HandlerMoves, NoVerdictSent, Names DEF IInv, InProgress
  <2>4. CallsCounted'
    BY <1>1, <1>2, <1>3, HandlerMoves, Names DEF IInv, CallsCounted, One
  <2> QED BY <2>2, <2>3, <2>4 DEF IInv
<1>4. CASE payments[o] # "NONE"
  <2>2. RefusedWasPaid' /\ OneVerdict' /\ VerdictBacked'
    BY <1>1, <1>4, NoVerdictSent DEF IInv, VerdictBacked
  <2>3. InProgress'
    BY <1>1, <1>4, HandlerMoves, NoVerdictSent, Names DEF IInv, InProgress
  <2>4. CallsCounted'
    BY <1>1, <1>2, <1>4, HandlerMoves, Names DEF IInv, CallsCounted, One
  <2> QED BY <2>2, <2>3, <2>4 DEF IInv
<1> QED BY <1>3, <1>4

LEMMA CommitPaymentStep ==
    ASSUME IInv, TypeOK', CommitPayment(claim[OrderCreated].event.order) PROVE IInv'
<1> DEFINE o == claim[OrderCreated].event.order
<1>1. /\ UNCHANGED <<paymentVars, faults>> /\ OrderCreated \in Topics
      /\ claim[OrderCreated].pc = "commit" /\ Goto(OrderCreated, "finish")
      /\ Send(PaymentCompleted, o)
    BY Names DEF CommitPayment
<1>2. o \in Orders /\ charged \in [Orders -> Nat] /\ refunded \in [Orders -> Nat]
    BY <1>1, HandlerMoves DEF IInv, TypeOK
<1>3. ~ Announced(PaymentCompleted, o) /\ payments[o] # "NONE" /\ charged[o] >= 1
    BY <1>1, <1>2, HandlerMoves DEF IInv, InProgress
<1>4. RefusedWasPaid' /\ OneVerdict' /\ VerdictBacked'
    BY <1>1, <1>2, <1>3, VerdictSent, Names DEF IInv, VerdictBacked, paymentVars
<1>5. InProgress'
    BY <1>1, <1>2, <1>3, HandlerMoves, VerdictSent, Names DEF IInv, InProgress, paymentVars
<1>6. CallsCounted'
    BY <1>1, <1>2, HandlerMoves, Names DEF IInv, CallsCounted, One, paymentVars
<1> QED BY <1>4, <1>5, <1>6 DEF IInv

-------------------------------------------------------------------------------
(* The handler of StockReservationFailed. *)

LEMMA FindRefundableStep ==
    ASSUME IInv, TypeOK', NEW e \in Delivered(StockReservationFailed),
           FindRefundable(e) \/ FindRefundableFails(e)
    PROVE  IInv'
<1>1. Failures \in Nat /\ Failures' \in Nat /\ Failures' >= Failures
    BY FailureCount, FaultsGrow
    DEF IInv, TypeOK, ChannelTypeOK, FindRefundable, FindRefundableFails, NotProcessed,
        QueryFails, Failures, FaultKind
<1>2. NoVerdict /\ UNCHANGED paymentVars /\ StockReservationFailed \in Topics
    BY SameOutbox, Names DEF FindRefundable, FindRefundableFails
<1>3. CASE \E pc \in {"drop", "finish"} : Begin(StockReservationFailed, e, pc)
  <2>1. \A t \in Topics : \/ claim'[t] = claim[t]
                          \/ claim'[t].pc \in Quiet /\ claim[t].pc \in Quiet
    BY <1>3 DEF Begin, Quiet, IInv, TypeOK, ChannelTypeOK
  <2> QED BY <1>1, <1>2, <2>1, QuietStep
<1>4. CASE Begin(StockReservationFailed, e, "refund") /\ payments[e.order] = "COMPLETED"
  <2>2. RefusedWasPaid' /\ OneVerdict' /\ VerdictBacked'
    BY <1>2, NoVerdictSent DEF IInv, VerdictBacked, paymentVars
  <2>3. InProgress'
    BY <1>2, <1>4, HandlerBegins, NoVerdictSent, Names DEF IInv, InProgress, paymentVars
  <2>4. CallsCounted'
    BY <1>1, <1>2, <1>4, HandlerBegins, Names
    DEF IInv, CallsCounted, One, paymentVars, TypeOK
  <2> QED BY <2>2, <2>3, <2>4 DEF IInv
<1> QED BY <1>3, <1>4 DEF FindRefundable, FindRefundableFails

LEMMA RefundStepOK ==
    ASSUME IInv, TypeOK', Refund(claim[StockReservationFailed].event.order) PROVE IInv'
<1> DEFINE o == claim[StockReservationFailed].event.order
<1>1. /\ NoVerdict /\ UNCHANGED <<payments, charged, faults>>
      /\ StockReservationFailed \in Topics
      /\ claim[StockReservationFailed].pc = "refund" /\ Goto(StockReservationFailed, "update")
      /\ refunded' = [refunded EXCEPT ![o] = @ + 1]
    BY SameOutbox, Names DEF Refund
<1>2. o \in Orders /\ charged \in [Orders -> Nat] /\ refunded \in [Orders -> Nat]
    BY <1>1, HandlerMoves DEF IInv, TypeOK
<1>3. RefusedWasPaid' /\ OneVerdict' /\ VerdictBacked'
    BY <1>1, <1>2, NoVerdictSent DEF IInv, VerdictBacked
<1>4. InProgress'
    BY <1>1, <1>2, HandlerMoves, NoVerdictSent, Names DEF IInv, InProgress
<1>5. CallsCounted'
    BY <1>1, <1>2, HandlerMoves, Names DEF IInv, CallsCounted, One
<1> QED BY <1>3, <1>4, <1>5 DEF IInv

LEMMA UpdatePaymentStep ==
    ASSUME IInv, TypeOK', UpdatePayment(claim[StockReservationFailed].event.order)
    PROVE  IInv'
<1> DEFINE o == claim[StockReservationFailed].event.order
<1>1. /\ NoVerdict /\ UNCHANGED <<charged, refunded, faults>>
      /\ StockReservationFailed \in Topics
      /\ claim[StockReservationFailed].pc = "update"
      /\ Goto(StockReservationFailed, "commitRefund")
      /\ payments' = [payments EXCEPT ![o] = "REFUNDED"]
    BY SameOutbox, Names DEF UpdatePayment
<1>2. /\ o \in Orders /\ charged \in [Orders -> Nat] /\ refunded \in [Orders -> Nat]
      /\ payments \in [Orders -> {"NONE", "COMPLETED", "REFUNDED"}]
    BY <1>1, HandlerMoves DEF IInv, TypeOK
<1>3. payments[o] = "COMPLETED" /\ refunded[o] >= 1
    BY <1>1, <1>2, HandlerMoves DEF IInv, InProgress
<1>4. ~ Announced(PaymentRefunded, o)
    BY <1>2, <1>3 DEF IInv, VerdictBacked
<1>5. RefusedWasPaid' /\ OneVerdict' /\ VerdictBacked'
    BY <1>1, <1>2, <1>3, NoVerdictSent DEF IInv, VerdictBacked
<1>6. InProgress'
    BY <1>1, <1>2, <1>3, <1>4, HandlerMoves, NoVerdictSent, Names DEF IInv, InProgress
<1>7. CallsCounted'
    BY <1>1, <1>2, <1>3, HandlerMoves, Names DEF IInv, CallsCounted, One
<1> QED BY <1>5, <1>6, <1>7 DEF IInv

LEMMA CommitRefundStep ==
    ASSUME IInv, TypeOK', CommitRefund(claim[StockReservationFailed].event.order)
    PROVE  IInv'
<1> DEFINE o == claim[StockReservationFailed].event.order
<1>1. /\ UNCHANGED <<paymentVars, faults>> /\ StockReservationFailed \in Topics
      /\ claim[StockReservationFailed].pc = "commitRefund"
      /\ Goto(StockReservationFailed, "finish")
      /\ Send(PaymentRefunded, o)
    BY Names DEF CommitRefund
<1>2. o \in Orders /\ charged \in [Orders -> Nat] /\ refunded \in [Orders -> Nat]
    BY <1>1, HandlerMoves DEF IInv, TypeOK
<1>3. ~ Announced(PaymentRefunded, o) /\ payments[o] = "REFUNDED" /\ refunded[o] >= 1
    BY <1>1, <1>2, HandlerMoves DEF IInv, InProgress
<1>4. Announced(PaymentCompleted, o)
    BY <1>1, InHand DEF IInv, RefusedWasPaid
<1>5. RefusedWasPaid' /\ OneVerdict' /\ VerdictBacked'
    BY <1>1, <1>2, <1>3, <1>4, VerdictSent, Names DEF IInv, VerdictBacked, paymentVars
<1>6. InProgress'
    BY <1>1, <1>2, <1>3, HandlerMoves, VerdictSent, Names DEF IInv, InProgress, paymentVars
<1>7. CallsCounted'
    BY <1>1, <1>2, HandlerMoves, Names DEF IInv, CallsCounted, One, paymentVars
<1> QED BY <1>5, <1>6, <1>7 DEF IInv

-------------------------------------------------------------------------------
(* All steps together. *)

LEMMA ServeStep ==
    ASSUME IInv, TypeOK', NEW t \in Topics, Serve(t) PROVE IInv'
<1>1. ASSUME NEW e \in Delivered(t), Skip(t, e), UNCHANGED paymentVars PROVE IInv'
    BY <1>1, QuietStep, SameOutbox, FailureCount
    DEF Skip, MarkMessage, Idle, Quiet, IInv, TypeOK, ChannelTypeOK, Failures
<1>2. CASE Finish(t) /\ UNCHANGED paymentVars
  <2>1. Failures' >= Failures
    BY <1>2, FaultsGrow, FailureCount DEF Finish, IInv, TypeOK, ChannelTypeOK, Failures
  <2> QED BY <1>2, <2>1, QuietStep, SameOutbox
          DEF Finish, MarkMessage, Idle, Quiet, IInv, TypeOK, ChannelTypeOK
<1>3. CASE Drop(t) /\ UNCHANGED paymentVars
    BY <1>3, QuietStep, SameOutbox, FailureCount
    DEF Drop, MarkMessage, Idle, Quiet, IInv, TypeOK, ChannelTypeOK, Failures
<1>4. CASE t = OrderCreated /\ HandleOrderCreated
    BY <1>4, FindPaymentStep, ChargeStep, DeclineStep, CreatePaymentStep, CommitPaymentStep
    DEF HandleOrderCreated, PaymentStep
<1>5. CASE t = StockReservationFailed /\ HandleStockReservationFailed
    BY <1>5, FindRefundableStep, RefundStepOK, UpdatePaymentStep, CommitRefundStep
    DEF HandleStockReservationFailed, RefundStep
<1> QED BY <1>1, <1>2, <1>3, <1>4, <1>5 DEF Serve

LEMMA ErrorsStep == ASSUME IInv, TypeOK', Errors PROVE IInv'
<1>1. ASSUME NEW t \in Topics, Fail(t), UNCHANGED paymentVars PROVE IInv'
  <2>1. Failures' > Failures /\ Failures \in Nat
    BY <1>1, FaultsGrow, FailureCount DEF Fail, IInv, TypeOK, ChannelTypeOK
  <2>2. Failures' >= Failures
    BY <2>1, <1>1 DEF Failures, IInv, TypeOK, ChannelTypeOK, FaultKind
  <2> QED BY <1>1, <2>1, <2>2, QuietStep, SameOutbox
          DEF Fail, Goto, Quiet, IInv, TypeOK, ChannelTypeOK
<1>2. ASSUME NEW e \in Delivered(StockReservationFailed), FindRefundableFails(e)
      PROVE  IInv'
    BY <1>2, FindRefundableStep
<1>3. ASSUME NEW e \in marked, Redeliver(e), UNCHANGED paymentVars PROVE IInv'
  <2>1. Failures' >= Failures
    BY <1>3, FaultsGrow DEF Redeliver, IInv, TypeOK, ChannelTypeOK
  <2> QED BY <1>3, <2>1, QuietStep, SameOutbox DEF Redeliver
<1>4. CASE CrashClaims /\ UNCHANGED paymentVars
  <2>1. Failures' > Failures /\ Failures' >= Failures
    BY <1>4, FaultsGrow DEF CrashClaims, IInv, TypeOK, ChannelTypeOK
  <2> QED BY <1>4, <2>1, QuietStep, SameOutbox DEF CrashClaims, Idle, Quiet
<1> QED BY <1>1, <1>2, <1>3, <1>4 DEF Errors

(* The other services announce orders, and refuse stock to who has paid. *)
LEMMA EnvironmentStep == ASSUME IInv, TypeOK', Environment PROVE IInv'
<1>1. NoVerdict
    BY Names DEF Environment, Elsewhere, Foreign, NoVerdict
<1>2. Failures' >= Failures
    BY FaultsGrow, FailureCount
    DEF Environment, Elsewhere, IInv, TypeOK, ChannelTypeOK, Failures
<1> QED BY <1>1, <1>2, QuietStep DEF Environment, Elsewhere

LEMMA NextIInv == IInv /\ [Next]_vars => IInv'
<1> SUFFICES ASSUME IInv, [Next]_vars PROVE IInv'
    OBVIOUS
<1>1. TypeOK'
    BY NextTypeOK DEF IInv
<1>2. CASE UNCHANGED vars
    BY <1>1, <1>2, QuietStep, SameOutbox, FailureCount
    DEF vars, channelVars, Failures, IInv, TypeOK, ChannelTypeOK
<1> QED BY <1>1, <1>2, ServeStep, ErrorsStep, EnvironmentStep DEF Next, Service

LEMMA AlwaysIInv == Spec => []IInv
BY InitIInv, NextIInv, PTL DEF Spec

(* No order has two PaymentCompleted or two PaymentRefunded, however often *)
(* its messages come and whatever fails in between.                        *)
THEOREM VerdictOnce == Spec => []OneVerdict
BY AlwaysIInv, PTL DEF IInv

(* A verdict is published only when the gateway and the table back it. *)
THEOREM VerdictIsBacked == Spec => []VerdictBacked
BY AlwaysIInv, PTL DEF IInv

LEMMA IInvBoundsCalls == IInv => GatewayOnce
<1> SUFFICES ASSUME IInv, NEW o \in Orders
             PROVE  /\ charged[o] <= 1 + Failures
                    /\ refunded[o] <= 1 + Failures
                    /\ refunded[o] > 0 => charged[o] > 0
    BY DEF GatewayOnce
<1>1. Failures \in Nat /\ charged[o] \in Nat /\ refunded[o] \in Nat
    BY FailureCount DEF IInv, TypeOK, ChannelTypeOK
<1> QED BY <1>1 DEF IInv, CallsCounted, InProgress, One

(* The gateway is called once for an order, and once more for every crash  *)
(* or database error at most.                                              *)
THEOREM CallsBounded == Spec => []GatewayOnce
BY AlwaysIInv, IInvBoundsCalls, PTL

-------------------------------------------------------------------------------
(* The gateway is asked about an order once, and once more whenever its    *)
(* message may have come again; it either charges or declines, and refunds *)
(* only whom stock was refused.                                            *)

Comebacks == faults.redeliver + faults.crash

OneStart ==
    \A e, f \in outbox :
        e.type = OrderCreated /\ f.type = OrderCreated /\ e.order = f.order => e = f

(* The message was handed to the gateway, or needs no more handling. *)
Settled(e) ==
    \/ e \in marked
    \/ claim[OrderCreated].event = e /\ claim[OrderCreated].pc \notin {"idle", "charge"}

(* The gateway may still be asked about the order. *)
Open(o) == \E e \in outbox : e.type = OrderCreated /\ e.order = o /\ ~ Settled(e)

AsksCounted ==
    \A o \in Orders :
        charged[o] + One(Announced(PaymentFailed, o)) + One(Open(o))
            <= One(Announced(OrderCreated, o)) + Comebacks

RefundsAsked ==
    \A o \in Orders : refunded[o] > 0 => Announced(StockReservationFailed, o)

GInv == OneStart /\ AsksCounted /\ RefundsAsked

LEMMA InitGInv == Init => GInv
BY DEF Init, ChannelInit, FaultKind, GInv, OneStart, AsksCounted, RefundsAsked, Announced,
       Open, One, Comebacks

(* Messages come again only with a fault of their own. *)
LEMMA ComebackCount ==
    ASSUME faults \in [FaultKind -> Nat] PROVE Comebacks \in Nat
BY DEF Comebacks, FaultKind

LEMMA ComebacksGrow ==
    ASSUME faults \in [FaultKind -> Nat], faults' \in [FaultKind -> Nat],
           UNCHANGED faults \/ (\E kind \in FaultKinds : Fault(kind))
    PROVE  Comebacks' >= Comebacks
BY FaultKindsAssumption DEF Fault, Comebacks, FaultKind

(* A step that asks nothing of the gateway keeps the count, if it keeps    *)
(* what is settled settled, or costs a fault that makes messages come      *)
(* again, and announces an order only when there was none.                 *)
LEMMA NotAsked ==
    ASSUME TypeOK, TypeOK', GInv, outbox \subseteq outbox', UNCHANGED charged,
           \A o \in Orders :
              refunded'[o] > 0 => refunded[o] > 0 \/ Announced(StockReservationFailed, o),
           \A e \in outbox' \ outbox :
              /\ e.type # PaymentFailed
              /\ e.type = OrderCreated => ~ Announced(OrderCreated, e.order),
           \A e, f \in outbox' \ outbox : e = f,
           \/ /\ Comebacks' >= Comebacks
              /\ \A e \in outbox : e.type = OrderCreated /\ Settled(e) => Settled(e)'
           \/ Comebacks' >= Comebacks + 1 /\ UNCHANGED outbox
    PROVE  GInv'
<1>1. OneStart'
    BY DEF GInv, OneStart, Announced
<1>2. RefundsAsked'
    BY DEF GInv, RefundsAsked, Announced
<1>3. ASSUME NEW o \in Orders
      PROVE  charged'[o] + One(Announced(PaymentFailed, o)') + One(Open(o)')
                <= One(Announced(OrderCreated, o)') + Comebacks'
  <2>1. Announced(PaymentFailed, o)' <=> Announced(PaymentFailed, o)
    BY DEF Announced
  <2>2. Announced(OrderCreated, o) => Announced(OrderCreated, o)'
    BY DEF Announced
  <2>3. \/ /\ Comebacks' >= Comebacks
           /\ Open(o)' => \/ Open(o)
                          \/ ~ Announced(OrderCreated, o) /\ Announced(OrderCreated, o)'
        \/ Comebacks' >= Comebacks + 1
    BY DEF Open, Announced
  <2>4. /\ charged[o] + One(Announced(PaymentFailed, o)) + One(Open(o))
              <= One(Announced(OrderCreated, o)) + Comebacks
        /\ ~ Announced(OrderCreated, o) => ~ Open(o)
    BY DEF GInv, AsksCounted, Open, Announced
  <2>5. charged[o] \in Nat /\ charged'[o] = charged[o]
        /\ Comebacks \in Nat /\ Comebacks' \in Nat
    BY ComebackCount DEF TypeOK, ChannelTypeOK, Comebacks, FaultKind
  <2> QED BY <2>1, <2>2, <2>3, <2>4, <2>5 DEF One
<1> QED BY <1>1, <1>2, <1>3 DEF GInv, AsksCounted

(* The gateway answers: the one message of the order is settled. *)
LEMMA Asked ==
    ASSUME TypeOK, TypeOK', GInv, NEW o, o = claim[OrderCreated].event.order,
           Charge(o) \/ Decline(o)
    PROVE  GInv'
<1>1. o \in Orders /\ claim[OrderCreated].event \in outbox \ marked /\ OrderCreated \in Topics
      /\ claim[OrderCreated].event.type = OrderCreated
      /\ claim[OrderCreated].pc = "charge"
    BY InHand, Names DEF Charge, Decline, TypeOK, ChannelTypeOK, ClaimsHeld
<1>2. /\ claim'[OrderCreated].event = claim[OrderCreated].event
      /\ claim'[OrderCreated].pc \in {"create", "drop"}
      /\ UNCHANGED <<marked, faults, refunded>>
    BY <1>1 DEF Charge, Decline, Goto, TypeOK, ChannelTypeOK, paymentVars
<1>3. /\ outbox \subseteq outbox'
      /\ \A e \in outbox' \ outbox : e.type = PaymentFailed /\ e.order = o
      /\ \/ UNCHANGED outbox /\ charged'[o] = charged[o] + 1
         \/ charged'[o] = charged[o]
      /\ \A p \in Orders \ {o} : charged'[p] = charged[p]
  <2>1. CASE Charge(o)
    BY <1>1, <2>1 DEF Charge, TypeOK
  <2>2. CASE Decline(o)
    <3>1. PICK n \in 1 .. MaxEvents :
             LET f == [type |-> PaymentFailed, order |-> o, id |-> n] IN
             f \notin outbox /\ outbox' = outbox \cup {f}
      BY <1>1, <2>2, SendAddsOne, Names DEF Decline, TypeOK, ChannelTypeOK
    <3> QED BY <2>2, <3>1 DEF Decline, paymentVars, TypeOK
  <2> QED BY <2>1, <2>2
<1>4. \A e : e.type \in {OrderCreated, StockReservationFailed}
         => (e \in outbox' <=> e \in outbox)
    BY <1>3, Names DEF OrderCreated, PaymentFailed
<1>5. \A p : Announced(OrderCreated, p)' <=> Announced(OrderCreated, p)
    BY <1>4 DEF Announced
<1>6. OneStart' /\ RefundsAsked'
  <2>1. OneStart'
    BY <1>4 DEF GInv, OneStart
  <2>2. RefundsAsked'
    BY <1>2, <1>3 DEF GInv, RefundsAsked, Announced
  <2> QED BY <2>1, <2>2
<1>7. Open(o) /\ ~ Open(o)'
  <2>1. Open(o)
    BY <1>1 DEF Open, Settled
  <2>2. \A e \in outbox' : e.type = OrderCreated /\ e.order = o
                              => e = claim[OrderCreated].event
    BY <1>1, <1>4 DEF GInv, OneStart
  <2> QED BY <1>2, <2>1, <2>2 DEF Open, Settled
<1>8. ASSUME NEW p \in Orders
      PROVE  charged'[p] + One(Announced(PaymentFailed, p)') + One(Open(p)')
                <= One(Announced(OrderCreated, p)') + Comebacks'
  <2>1. charged[p] + One(Announced(PaymentFailed, p)) + One(Open(p))
           <= One(Announced(OrderCreated, p)) + Comebacks
    BY DEF GInv, AsksCounted
  <2>2. charged[p] \in Nat /\ Comebacks \in Nat /\ Comebacks' = Comebacks
    BY <1>2, ComebackCount DEF TypeOK, ChannelTypeOK, Comebacks
  <2>3. CASE p = o
    <3>1. Announced(PaymentFailed, o)' => Announced(PaymentFailed, o) \/ ~ UNCHANGED outbox
      BY DEF Announced
    <3>2. charged'[o] = charged[o] + 1 => (Announced(PaymentFailed, o)' <=> Announced(PaymentFailed, o))
      BY <1>3, <2>2, <2>3 DEF Announced
    <3> QED BY <1>3, <1>5, <1>7, <2>1, <2>2, <2>3, <3>2 DEF One
  <2>4. CASE p # o
    <3>1. Announced(PaymentFailed, p)' <=> Announced(PaymentFailed, p)
      BY <1>3, <2>4 DEF Announced
    <3>2. Open(p)' => Open(p)
      BY <1>1, <1>2, <1>4, <2>4 DEF Open, Settled
    <3> QED BY <1>3, <1>5, <2>1, <2>2, <2>4, <3>1, <3>2 DEF One
  <2> QED BY <2>3, <2>4
<1> QED BY <1>6, <1>8 DEF GInv, AsksCounted

(* Nothing is asked by the consumer, the failures and the other handler. *)
LEMMA StepGInv == ASSUME TypeOK, TypeOK', GInv, [Next]_vars PROVE GInv'
<1>1. /\ faults \in [FaultKind -> Nat] /\ faults' \in [FaultKind -> Nat]
      /\ refunded \in [Orders -> Nat]
    BY DEF TypeOK, ChannelTypeOK
<1>2. CASE \E e \in Delivered(OrderCreated) : FindPayment(e)
  <2>1. PICK e \in Delivered(OrderCreated) : FindPayment(e)
    BY <1>2
  <2>2. /\ UNCHANGED <<outbox, charged, refunded, marked>>
        /\ claim[OrderCreated].pc = "idle"
    BY <2>1 DEF FindPayment, Begin, paymentVars
  <2>3. UNCHANGED faults \/ (\E kind \in FaultKinds : Fault(kind))
    BY <2>1 DEF FindPayment, NotProcessed, QueryFails, Fault
  <2> QED BY <1>1, <2>2, <2>3, ComebacksGrow, NotAsked DEF Settled
<1>3. ASSUME NEW t \in Topics, NEW o, o = claim[t].event.order,
             \/ t = OrderCreated /\ (CreatePayment(o) \/ CommitPayment(o))
             \/ t = StockReservationFailed /\ RefundStep(o)
      PROVE  GInv'
  <2> USE DEF CreatePayment, CommitPayment, RefundStep, Refund, UpdatePayment, CommitRefund
  <2>1. o \in Orders /\ claim[t].pc # "idle"
    BY <1>3, InHand
  <2>2. /\ outbox \subseteq outbox'
        /\ \A e \in outbox' \ outbox : e.type \in {PaymentCompleted, PaymentRefunded}
        /\ \A e, f \in outbox' \ outbox : e = f
    <3>1. ASSUME NEW type \in {PaymentCompleted, PaymentRefunded}, Send(type, o)
          PROVE  \E n \in 1 .. MaxEvents :
                    LET f == [type |-> type, order |-> o, id |-> n] IN
                    f \notin outbox /\ outbox' = outbox \cup {f}
      BY <2>1, <3>1, SendAddsOne, Names DEF TypeOK, ChannelTypeOK
    <3>2. UNCHANGED outbox \/ \E type \in {PaymentCompleted, PaymentRefunded} : Send(type, o)
      BY <1>3
    <3>3. CASE \E type \in {PaymentCompleted, PaymentRefunded} : Send(type, o)
      <4>1. PICK type \in {PaymentCompleted, PaymentRefunded} : Send(type, o)
        BY <3>3
      <4>2. PICK n \in 1 .. MaxEvents :
               LET f == [type |-> type, order |-> o, id |-> n] IN
               f \notin outbox /\ outbox' = outbox \cup {f}
        BY <3>1, <4>1
      <4> QED BY <4>1, <4>2
    <3> QED BY <3>2, <3>3
  <2>3. /\ UNCHANGED <<charged, marked, faults>>
        /\ \/ claim'[OrderCreated] = claim[OrderCreated]
           \/ /\ claim'[OrderCreated].event = claim[OrderCreated].event
              /\ claim'[OrderCreated].pc \notin {"idle", "charge"}
    BY <1>3, Names DEF Goto, paymentVars, TypeOK, ChannelTypeOK
  <2>4. \A p \in Orders :
           refunded'[p] > 0 => refunded[p] > 0 \/ Announced(StockReservationFailed, p)
    BY <1>1, <1>3, <2>1, InHand DEF paymentVars, Announced
  <2>5. Comebacks' >= Comebacks
    BY <1>1, <2>3, ComebacksGrow
  <2>6. \A e \in outbox : e.type = OrderCreated /\ Settled(e) => Settled(e)'
    BY <2>3 DEF Settled
  <2> QED BY <2>2, <2>3, <2>4, <2>5, <2>6, NotAsked, Names
<1>4. ASSUME NEW e \in Delivered(StockReservationFailed),
             FindRefundable(e) \/ FindRefundableFails(e)
      PROVE  GInv'
  <2>1. /\ UNCHANGED <<outbox, charged, refunded, marked>>
        /\ claim'[OrderCreated] = claim[OrderCreated]
    BY <1>4, Names
    DEF FindRefundable, FindRefundableFails, Begin, paymentVars, TypeOK, ChannelTypeOK
  <2>2. UNCHANGED faults \/ (\E kind \in FaultKinds : Fault(kind))
    BY <1>4 DEF FindRefundable, FindRefundableFails, NotProcessed, QueryFails, Fault
  <2> QED BY <1>1, <2>1, <2>2, ComebacksGrow, NotAsked DEF Settled
<1>5. ASSUME NEW t \in Topics, UNCHANGED paymentVars,
             (\E e : Skip(t, e)) \/ Finish(t) \/ Drop(t)
      PROVE  GInv'
  <2>1. UNCHANGED faults \/ (\E kind \in FaultKinds : Fault(kind))
    BY <1>5 DEF Skip, Finish, Drop, Fault
  <2>2. PICK e : /\ MarkMessage(t, e)
                 /\ claim[t].pc = "idle" \/ e = claim[t].event
    BY <1>5 DEF Skip, Finish, Drop
  <2>3. UNCHANGED outbox
    BY <1>5 DEF Skip, Finish, Drop
  <2>4. \A f \in outbox : Settled(f) => Settled(f)'
    BY <2>2, Names DEF Settled, MarkMessage, TypeOK, ChannelTypeOK
  <2> QED BY <1>1, <1>5, <2>1, <2>3, <2>4, ComebacksGrow, NotAsked DEF paymentVars
<1>6. ASSUME NEW t \in Topics, UNCHANGED paymentVars, claim[t].pc # "idle", Fail(t)
      PROVE  GInv'
  <2>1. UNCHANGED faults \/ (\E kind \in FaultKinds : Fault(kind))
    BY <1>6 DEF Fail, Fault
  <2>2. /\ UNCHANGED <<outbox, marked>>
        /\ \/ claim'[OrderCreated] = claim[OrderCreated]
           \/ /\ claim'[OrderCreated].event = claim[OrderCreated].event
              /\ claim'[OrderCreated].pc \notin {"idle", "charge"}
    BY <1>6, Names DEF Fail, Goto, TypeOK, ChannelTypeOK
  <2> QED BY <1>1, <1>6, <2>1, <2>2, ComebacksGrow, NotAsked DEF Settled, paymentVars
<1>7. CASE ((\E e : Redeliver(e)) \/ CrashClaims) /\ UNCHANGED paymentVars
  <2>1. Comebacks' >= Comebacks + 1 /\ UNCHANGED outbox
    BY <1>1, <1>7 DEF Redeliver, CrashClaims, Fault, Comebacks, FaultKind
  <2> QED BY <1>7, <2>1, NotAsked DEF paymentVars
<1>8. CASE Environment
  <2>1. /\ UNCHANGED faults \/ (\E kind \in FaultKinds : Fault(kind))
        /\ UNCHANGED <<charged, refunded, marked, claim>>
    BY <1>8 DEF Environment, Elsewhere, paymentVars
  <2>2. UNCHANGED outbox \/ \E e \in Foreign : outbox' = outbox \cup {e}
    BY <1>8 DEF Environment, Elsewhere
  <2>3. \A e \in Foreign : /\ e.type # PaymentFailed
                           /\ e.type = OrderCreated => ~ Announced(OrderCreated, e.order)
    BY Names DEF Foreign, OrderCreated, PaymentFailed, StockReservationFailed
  <2> QED BY <1>1, <2>1, <2>2, <2>3, ComebacksGrow, NotAsked DEF Settled
<1>9. CASE UNCHANGED vars
    BY <1>9, <1>1, NotAsked, ComebacksGrow DEF vars, channelVars, paymentVars, Settled
<1>10. ASSUME NEW t \in Topics, Serve(t) PROVE GInv'
    BY <1>2, <1>3, <1>4, <1>5, <1>10, Asked
    DEF Serve, HandleOrderCreated, HandleStockReservationFailed, PaymentStep
<1>11. ASSUME Errors PROVE GInv'
    BY <1>4, <1>6, <1>7, <1>11 DEF Errors
<1> QED BY <1>8, <1>9, <1>10, <1>11 DEF Next, Service

LEMMA NextGInv == TypeOK /\ GInv /\ [Next]_vars => GInv'
BY StepGInv, NextTypeOK

LEMMA DeclinedBound ==
    ASSUME TypeOK, GInv, NEW o \in Orders, Announced(PaymentFailed, o)
    PROVE  charged[o] <= Comebacks
<1>1. charged[o] \in Nat /\ Comebacks \in Nat
    BY ComebackCount DEF TypeOK, ChannelTypeOK
<1>2. charged[o] + One(Announced(PaymentFailed, o)) + One(Open(o))
         <= One(Announced(OrderCreated, o)) + Comebacks
    BY DEF GInv, AsksCounted
<1> QED BY <1>1, <1>2 DEF One

(* An order whose payment was declined is charged at most once for every   *)
(* time that its message may have come again: for every redelivery and     *)
(* every crash.  So it is not charged at all when there were none.         *)
THEOREM DeclinedNotCharged ==
    Spec => [](\A o \in Orders : Announced(PaymentFailed, o) => charged[o] <= Comebacks)
<1>1. TypeOK /\ GInv => \A o \in Orders : Announced(PaymentFailed, o) => charged[o] <= Comebacks
    BY DeclinedBound
<1> QED BY <1>1, InitTypeOK, NextTypeOK, InitGInv, NextGInv, PTL DEF Spec

===============================================================================
