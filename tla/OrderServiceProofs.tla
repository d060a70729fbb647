-------------------------- MODULE OrderServiceProofs --------------------------
(***************************************************************************)
(* The order service's invariants, for every set of orders and of requests *)
(* and every bound on events and faults.                                   *)
(***************************************************************************)
EXTENDS OrderService, ChannelProofs

(* The table of handlers, row by row. *)
LEMMA HandlerRows ==
    /\ Topics = {PaymentCompleted, PaymentFailed, StockReserved,
                 StockReservationFailed, DeliveryStarted, DeliveryFailed}
    /\ Handler[PaymentCompleted] = HandlePaymentCompleted
    /\ Handler[PaymentFailed] = HandlePaymentFailed
    /\ Handler[StockReserved] = HandleStockReserved
    /\ Handler[StockReservationFailed] = HandleStockReservationFailed
    /\ Handler[DeliveryStarted] = HandleDeliveryStarted
    /\ Handler[DeliveryFailed] = HandleDeliveryFailed
<1> USE DEF OrderTopics, Handler, PaymentCompleted, PaymentFailed, StockReserved,
            StockReservationFailed, DeliveryStarted, DeliveryFailed
<1>1. Topics = OrderTopics
    BY OrderTopicsAssumption
<1>2. Handler[PaymentCompleted] = HandlePaymentCompleted
    OBVIOUS
<1>3. Handler[PaymentFailed] = HandlePaymentFailed
    OBVIOUS
<1>4. Handler[StockReserved] = HandleStockReserved
    OBVIOUS
<1>5. Handler[StockReservationFailed] = HandleStockReservationFailed
    OBVIOUS
<1>6. Handler[DeliveryStarted] = HandleDeliveryStarted
    OBVIOUS
<1>7. Handler[DeliveryFailed] = HandleDeliveryFailed
    OBVIOUS
<1> QED BY <1>1, <1>2, <1>3, <1>4, <1>5, <1>6, <1>7

(* A handler acts in statuses, and writes one. *)
LEMMA HandlerTable ==
    ASSUME NEW t \in Topics
    PROVE  /\ Handler[t].from \subseteq Status
           /\ Handler[t].to \in Status
BY HandlerRows
DEF Status, HandlePaymentCompleted, HandlePaymentFailed, HandleStockReserved,
    HandleStockReservationFailed, HandleDeliveryStarted, HandleDeliveryFailed

(* A handler that acts on a failed order leaves it failed. *)
LEMMA HandlerKeepsFailed ==
    ASSUME NEW t \in Topics, Handler[t].from \cap {"CANCELED", "FAILED"} # {}
    PROVE  Handler[t].to \in {"CANCELED", "FAILED"}
BY HandlerRows
DEF HandlePaymentCompleted, HandlePaymentFailed, HandleStockReserved,
    HandleStockReservationFailed, HandleDeliveryStarted, HandleDeliveryFailed

-------------------------------------------------------------------------------
(* Type correctness. *)

LEMMA InitTypeOK == Init => TypeOK
BY OrdersAssumption
DEF Init, ChannelInit, TypeOK, ChannelTypeOK, ClaimsHeld, Idle, PCs, NoRow

LEMMA RequestTypeOK ==
    ASSUME TypeOK, NEW c \in Clients, NEW o \in Orders,
           FindExisting(c, o) \/ FindNothing(c, o) \/ CreateRow(c) \/ RequestFails(c)
    PROVE  TypeOK'
<1>1. faults' \in [FaultKind -> Nat]
    BY FaultCounts
    DEF TypeOK, ChannelTypeOK, FindExisting, FindNothing, CreateRow, RequestFails,
        channelVars
<1>2. ChannelTypeOK(PCs)'
    BY <1>1
    DEF TypeOK, ChannelTypeOK, ClaimsHeld, FindExisting, FindNothing, CreateRow,
        RequestFails, channelVars
<1>3. client' \in [Clients -> [pc : {"idle"}, order : {NoEvent}]
                              \cup [pc : {"create", "commit"}, order : Orders]]
    BY DEF TypeOK, FindExisting, FindNothing, CreateRow, RequestFails, ClientDone
<1>4. orders' \in [Orders -> [status : Status \cup {"NONE"}, version : Nat]]
    BY DEF TypeOK, FindExisting, FindNothing, CreateRow, RequestFails, Status
<1> QED
    BY <1>2, <1>3, <1>4
    DEF TypeOK, FindExisting, FindNothing, CreateRow, RequestFails, PCs

LEMMA CommitTypeOK ==
    ASSUME TypeOK, NEW c \in Clients, CommitOrder(c)
    PROVE  TypeOK'
<1>1. client[c].order \in Orders /\ OrderCreated \in EventType
    BY DEF TypeOK, CommitOrder, EventType
<1>2. outbox \subseteq outbox' /\ outbox' \subseteq Event
    BY <1>1, SendGrows DEF TypeOK, ChannelTypeOK, CommitOrder
<1>3. ChannelTypeOK(PCs)'
    BY <1>2 DEF TypeOK, ChannelTypeOK, ClaimsHeld, CommitOrder
<1> QED BY <1>1, <1>3 DEF TypeOK, CommitOrder, ClientDone, PCs

LEMMA ReadTypeOK ==
    ASSUME TypeOK, NEW t \in Topics, NEW e \in Delivered(t),
           ReadOrder(t, e) \/ ReadFails(t, e)
    PROVE  TypeOK'
<1>1. e.order \in Orders
    BY DEF TypeOK, ChannelTypeOK, Delivered, Event
<1>2. GrowingOutbox
    BY FaultCounts, NotProcessedCounts
    DEF TypeOK, ChannelTypeOK, ReadOrder, ReadFails, QueryFails, GrowingOutbox
<1>3. ChannelTypeOK(PCs)'
    BY <1>2, BeginType DEF TypeOK, ReadOrder, ReadFails, QueryFails, PCs
<1>4. snap' \in [Topics -> Nat]
    BY <1>1 DEF TypeOK, ReadOrder, ReadFails, QueryFails, orderVars
<1> QED BY <1>3, <1>4 DEF TypeOK, ReadOrder, ReadFails, QueryFails, orderVars, PCs

LEMMA WriteTypeOK ==
    ASSUME TypeOK, NEW t \in Topics, WriteOrder(t) \/ WriteFails(t)
    PROVE  TypeOK'
<1>1. CASE WriteOrder(t)
  <2>1. GrowingOutbox
    BY <1>1 DEF TypeOK, ChannelTypeOK, WriteOrder, GrowingOutbox
  <2>2. ChannelTypeOK(PCs)'
    BY <1>1, <2>1, GotoType DEF TypeOK, WriteOrder, PCs
  <2>3. orders' \in [Orders -> [status : Status \cup {"NONE"}, version : Nat]]
    <3>1. Handler[t].to \in Status /\ snap[t] \in Nat
        BY HandlerTable DEF TypeOK
    <3>2. [status |-> Handler[t].to, version |-> snap[t] + 1]
             \in [status : Status \cup {"NONE"}, version : Nat]
        BY <3>1
    <3> QED BY <1>1, <3>2 DEF TypeOK, WriteOrder, UpdateStatusWithVersion
  <2> QED BY <1>1, <2>2, <2>3 DEF TypeOK, WriteOrder, PCs
<1>2. CASE WriteFails(t)
    BY <1>2, FailType DEF TypeOK, WriteFails, PCs
<1> QED BY <1>1, <1>2

LEMMA NextTypeOK == TypeOK /\ [Next]_vars => TypeOK'
<1> SUFFICES ASSUME TypeOK, [Next]_vars PROVE TypeOK'
    OBVIOUS
<1>1. "idle" \in PCs
    BY DEF PCs
<1>2. ASSUME NEW c \in Clients, Answer(c) PROVE TypeOK'
  <2>1. CASE CreateRow(c)
    <3>1. client[c].order \in Orders
        BY <2>1 DEF TypeOK, CreateRow
    <3> QED BY <2>1, <3>1, RequestTypeOK
  <2> QED BY <1>2, <2>1, CommitTypeOK DEF Answer
<1>3. ASSUME NEW c \in Clients, RequestFails(c) PROVE TypeOK'
  <2>1. client[c].order \in Orders
    BY <1>3 DEF TypeOK, RequestFails
  <2> QED BY <1>3, <2>1, RequestTypeOK
<1>4. ASSUME NEW t \in Topics, Serve(t) PROVE TypeOK'
  <2>1. ASSUME NEW e \in Delivered(t), Skip(t, e), UNCHANGED orderVars PROVE TypeOK'
    BY <2>1, <1>1, SkipType DEF TypeOK, orderVars, PCs
  <2>2. CASE Finish(t) /\ UNCHANGED orderVars
    BY <2>2, <1>1, FinishType DEF TypeOK, orderVars, PCs
  <2>3. CASE Drop(t) /\ UNCHANGED orderVars
    BY <2>3, <1>1, DropType DEF TypeOK, orderVars, PCs
  <2> QED BY <1>4, <2>1, <2>2, <2>3, ReadTypeOK, WriteTypeOK DEF Serve
<1>5. ASSUME NEW e \in marked, Redeliver(e), UNCHANGED orderVars PROVE TypeOK'
    BY <1>5, RedeliverType DEF TypeOK, orderVars, PCs
<1>6. ASSUME Crash PROVE TypeOK'
    BY <1>6, <1>1, CrashType DEF TypeOK, Crash, PCs
<1>7. ASSUME Environment PROVE TypeOK'
    BY <1>7, ElsewhereType DEF Environment, Foreign, TypeOK, orderVars, PCs
<1>8. ASSUME UNCHANGED vars PROVE TypeOK'
    BY <1>8, StutterType DEF vars, orderVars, TypeOK, PCs
<1> QED
    BY <1>2, <1>3, <1>4, <1>5, <1>6, <1>7, <1>8, RequestTypeOK, ReadTypeOK, WriteTypeOK
    DEF Next, Service, Errors

(* The order service keeps its types, and every message in hand is an      *)
(* unmarked event of the claim's own topic.                                *)
THEOREM TypeCorrect == Spec => []TypeOK
BY InitTypeOK, NextTypeOK, PTL DEF Spec

-------------------------------------------------------------------------------
(* The optimistic lock.  A handler that is about to write has read its row *)
(* at a version that the row has not fallen behind, and if the row is      *)
(* still at that version then it still has a status the handler acts in.   *)
(* This is what makes the write safe.                                      *)
SnapOK ==
    \A t \in Topics :
        claim[t].pc = "write" =>
            LET row == orders[claim[t].event.order] IN
            /\ row.status # "NONE"
            /\ snap[t] <= row.version
            /\ snap[t] = row.version => row.status \in Handler[t].from

LEMMA InitSnapOK == Init => SnapOK
BY DEF Init, ChannelInit, SnapOK, Idle

(* A step that writes no row keeps it, if whoever is about to write was so *)
(* before.                                                                 *)
LEMMA SnapKept ==
    ASSUME SnapOK, UNCHANGED orders,
           \A t \in Topics : claim'[t].pc = "write" =>
                                claim'[t] = claim[t] /\ snap'[t] = snap[t]
    PROVE  SnapOK'
BY DEF SnapOK

LEMMA CreateSnapOK ==
    ASSUME TypeOK, SnapOK, NEW c \in Clients, CreateRow(c)
    PROVE  SnapOK'
<1> DEFINE o == client[c].order
<1>1. UNCHANGED <<claim, snap>>
    BY DEF CreateRow, channelVars
<1>2. CASE orders[o].status = "NONE"
  <2>1. \A p \in Orders \ {o} : orders'[p] = orders[p]
    BY <1>2 DEF TypeOK, CreateRow
  <2>2. ASSUME NEW t \in Topics, claim[t].pc = "write"
        PROVE  claim[t].event.order \in Orders \ {o}
    BY <1>2, <2>2 DEF TypeOK, ChannelTypeOK, ClaimsHeld, Event, SnapOK
  <2> QED BY <1>1, <2>1, <2>2 DEF SnapOK
<1>3. CASE orders[o].status # "NONE"
    BY <1>1, <1>3, SnapKept DEF CreateRow
<1> QED BY <1>2, <1>3

LEMMA ReadSnapOK ==
    ASSUME TypeOK, SnapOK, NEW t \in Topics, NEW e \in Delivered(t), ReadOrder(t, e)
    PROVE  SnapOK'
<1>1. "NONE" \notin Handler[t].from
    BY HandlerTable DEF Status
<1>2. e.order \in Orders /\ orders[e.order].version \in Nat
    BY DEF TypeOK, ChannelTypeOK, Delivered, Event
<1>3. ASSUME NEW u \in Topics, u # t, claim'[u].pc = "write"
      PROVE  claim'[u] = claim[u] /\ snap'[u] = snap[u]
    BY <1>3 DEF TypeOK, ChannelTypeOK, ReadOrder, Begin
<1>4. CASE claim'[t].pc = "write"
  <2>1. /\ claim'[t].event = e
        /\ snap'[t] = orders[e.order].version
        /\ orders[e.order].status \in Handler[t].from
    BY <1>4 DEF TypeOK, ChannelTypeOK, ReadOrder, Begin
  <2> QED BY <1>1, <1>2, <1>3, <2>1 DEF SnapOK, ReadOrder
<1>5. CASE claim'[t].pc # "write"
    BY <1>3, <1>5, SnapKept DEF ReadOrder
<1> QED BY <1>4, <1>5

LEMMA WriteSnapOK ==
    ASSUME TypeOK, SnapOK, NEW t \in Topics, WriteOrder(t)
    PROVE  SnapOK'
<1> DEFINE o == claim[t].event.order
<1>1. Handler[t].to # "NONE" /\ snap[t] \in Nat
    BY HandlerTable DEF TypeOK, Status
<1>2. ASSUME NEW u \in Topics, claim'[u].pc = "write"
      PROVE  u # t /\ claim'[u] = claim[u] /\ snap'[u] = snap[u]
    BY <1>2 DEF TypeOK, ChannelTypeOK, WriteOrder, Goto
<1>3. CASE orders[o].version # snap[t]
  <2>1. orders' = orders
    BY <1>3 DEF WriteOrder, UpdateStatusWithVersion
  <2> QED BY <1>2, <2>1, SnapKept
<1>4. CASE orders[o].version = snap[t]
  <2>1. orders' = [orders EXCEPT ![o] = [status |-> Handler[t].to,
                                         version |-> snap[t] + 1]]
    BY <1>4 DEF WriteOrder, UpdateStatusWithVersion
  <2>2. ASSUME NEW u \in Topics, claim[u].pc = "write"
        PROVE  claim[u].event.order \in Orders /\ snap[u] \in Nat
    BY <2>2 DEF TypeOK, ChannelTypeOK, ClaimsHeld, Event
  <2>3. ASSUME NEW u \in Topics, claim'[u].pc = "write"
        PROVE  LET row == orders'[claim'[u].event.order] IN
               /\ row.status # "NONE"
               /\ snap'[u] <= row.version
               /\ snap'[u] = row.version => row.status \in Handler[u].from
    <3>1. claim[u].pc = "write" /\ claim'[u] = claim[u] /\ snap'[u] = snap[u]
        BY <1>2, <2>3
    <3>2. CASE claim[u].event.order = o
        <4>1. orders'[o] = [status |-> Handler[t].to, version |-> snap[t] + 1]
            BY <2>1, <2>2, <3>1, <3>2 DEF TypeOK
        <4>2. snap[u] <= snap[t]
            BY <1>4, <3>1, <3>2 DEF SnapOK
        <4> QED BY <1>1, <2>2, <3>1, <3>2, <4>1, <4>2
    <3>3. CASE claim[u].event.order # o
        <4>1. orders'[claim[u].event.order] = orders[claim[u].event.order]
            BY <2>1, <2>2, <3>1, <3>3 DEF TypeOK
        <4> QED BY <3>1, <4>1 DEF SnapOK
    <3> QED BY <3>2, <3>3
  <2> QED BY <2>3 DEF SnapOK
<1> QED BY <1>3, <1>4

(* Every step adds to the outbox, and writes a row only as CreateRow or    *)
(* WriteOrder.                                                             *)
LEMMA StepKinds ==
    ASSUME TypeOK, [Next]_vars
    PROVE  /\ outbox \subseteq outbox'
           /\ \/ UNCHANGED orders
              \/ \E c \in Clients : CreateRow(c)
              \/ \E t \in Topics : WriteOrder(t)
<1>1. ASSUME NEW c \in Clients, CommitOrder(c) PROVE outbox \subseteq outbox'
  <2>1. client[c].order \in Orders /\ OrderCreated \in EventType
    BY <1>1 DEF TypeOK, CommitOrder, EventType
  <2> QED BY <1>1, <2>1, SendGrows DEF TypeOK, ChannelTypeOK, CommitOrder
<1>2. ASSUME Environment PROVE outbox \subseteq outbox'
    BY <1>2 DEF Environment, Elsewhere
<1> QED
    BY <1>1, <1>2
    DEF Next, Service, Errors, Environment, Answer, Serve, FindExisting, FindNothing,
        CreateRow, CommitOrder, RequestFails, ReadOrder, WriteOrder, ReadFails, QueryFails,
        WriteFails, Fail, Skip, Finish, Drop, Redeliver, Crash, CrashClaims,
        vars, channelVars, orderVars

LEMMA NextSnapOK == TypeOK /\ SnapOK /\ [Next]_vars => SnapOK'
<1> SUFFICES ASSUME TypeOK, SnapOK, [Next]_vars PROVE SnapOK'
    OBVIOUS
<1>1. ASSUME NEW c \in Clients, NEW o \in Orders, FindExisting(c, o) \/ FindNothing(c, o)
      PROVE  SnapOK'
    BY <1>1, SnapKept DEF FindExisting, FindNothing, channelVars
<1>2. ASSUME NEW c \in Clients, CommitOrder(c) \/ RequestFails(c) PROVE SnapOK'
    BY <1>2, SnapKept DEF CommitOrder, RequestFails
<1>3. ASSUME NEW t \in Topics, NEW e \in Delivered(t), ReadFails(t, e) PROVE SnapOK'
    BY <1>3, SnapKept DEF TypeOK, ChannelTypeOK, ReadFails, QueryFails, Begin, orderVars
<1>4. ASSUME NEW t \in Topics,
             \/ WriteFails(t)
             \/ Finish(t) /\ UNCHANGED orderVars
             \/ Drop(t) /\ UNCHANGED orderVars
      PROVE  SnapOK'
    BY <1>4, SnapKept
    DEF TypeOK, ChannelTypeOK, WriteFails, Fail, Goto, Finish, Drop, MarkMessage, Idle,
        orderVars
<1>5. ASSUME NEW e \in marked, Redeliver(e), UNCHANGED orderVars PROVE SnapOK'
    BY <1>5, SnapKept DEF Redeliver, orderVars
<1>6. ASSUME Crash PROVE SnapOK'
    BY <1>6, SnapKept DEF Crash, CrashClaims, Idle
<1>7. ASSUME Environment PROVE SnapOK'
    BY <1>7, SnapKept DEF Environment, Elsewhere, orderVars
<1>8. ASSUME UNCHANGED vars PROVE SnapOK'
    BY <1>8, SnapKept DEF vars, channelVars, orderVars
<1>9. ASSUME NEW t \in Topics, Serve(t) PROVE SnapOK'
  <2>1. ASSUME NEW e \in Delivered(t), Skip(t, e), UNCHANGED orderVars PROVE SnapOK'
    BY <2>1, SnapKept
    DEF TypeOK, ChannelTypeOK, Skip, MarkMessage, Idle, orderVars
  <2>2. CASE \/ Finish(t) /\ UNCHANGED orderVars
             \/ Drop(t) /\ UNCHANGED orderVars
    BY <1>4, <2>2
  <2> QED BY <1>9, <2>1, <2>2, ReadSnapOK, WriteSnapOK DEF Serve
<1>10. ASSUME Errors PROVE SnapOK'
  <2>1. ASSUME NEW c \in Clients, RequestFails(c) PROVE SnapOK'
    BY <1>2, <2>1
  <2>2. ASSUME NEW t \in Topics, WriteFails(t) PROVE SnapOK'
    BY <1>4, <2>2
  <2> QED BY <1>3, <1>5, <1>6, <1>10, <2>1, <2>2 DEF Errors
<1>11. ASSUME NEW c \in Clients, Answer(c) PROVE SnapOK'
    BY <1>2, <1>11, CreateSnapOK DEF Answer
<1>12. ASSUME Service PROVE SnapOK'
    BY <1>1, <1>9, <1>10, <1>11, <1>12 DEF Service
<1> QED BY <1>7, <1>8, <1>12 DEF Next

(* What WriteOrder does to a row, in view of the lock: nothing, or the     *)
(* handler's change of a status it acts in.                                *)
LEMMA WriteRow ==
    ASSUME TypeOK, SnapOK, NEW t \in Topics, WriteOrder(t), NEW o \in Orders,
           orders'[o] # orders[o]
    PROVE  /\ o = claim[t].event.order
           /\ orders[o].status \in Handler[t].from
           /\ orders'[o].status = Handler[t].to
BY DEF TypeOK, SnapOK, WriteOrder, UpdateStatusWithVersion

(* What CreateRow does to a row. *)
LEMMA NewRow ==
    ASSUME TypeOK, NEW c \in Clients, CreateRow(c), NEW o \in Orders,
           orders'[o] # orders[o]
    PROVE  orders[o].status = "NONE" /\ orders'[o].status = "PENDING"
BY DEF TypeOK, CreateRow

LEMMA FailedStays ==
    ASSUME TypeOK, SnapOK, [Next]_vars, NEW o \in Orders, Failed(o)
    PROVE  Failed(o)'
<1>1. CASE orders'[o] = orders[o]
    BY <1>1 DEF Failed
<1>2. ASSUME orders'[o] # orders[o], NEW c \in Clients, CreateRow(c) PROVE Failed(o)'
    BY <1>2, NewRow DEF Failed
<1>3. ASSUME orders'[o] # orders[o], NEW t \in Topics, WriteOrder(t) PROVE Failed(o)'
    BY <1>3, WriteRow, HandlerKeepsFailed DEF Failed
<1> QED BY <1>1, <1>2, <1>3, StepKinds

(* However the handlers of the six topics interleave, an order that ended  *)
(* CANCELED or FAILED stays so.                                            *)
THEOREM FailedForGood == Spec => FailedIsFinal
<1>1. Spec => [](TypeOK /\ SnapOK)
    BY InitTypeOK, NextTypeOK, InitSnapOK, NextSnapOK, PTL DEF Spec
<1>2. TypeOK /\ SnapOK /\ [Next]_vars => [\A o \in Orders : Failed(o) => Failed(o)']_vars
    BY FailedStays
<1> QED BY <1>1, <1>2, PTL DEF Spec, FailedIsFinal

-------------------------------------------------------------------------------
(* The status and the events behind it. *)

LEMMA InitStatusBacked == Init => StatusBacked
BY DEF Init, StatusBacked, NoRow

LEMMA AnnouncedForGood ==
    ASSUME NEW type, NEW o, outbox \subseteq outbox', Announced(type, o)
    PROVE  Announced(type, o)'
BY DEF Announced

(* The message in hand is an announcement of its topic about its order. *)
LEMMA InHandAnnounced ==
    ASSUME TypeOK, NEW t \in Topics, WriteOrder(t)
    PROVE  Announced(t, claim[t].event.order)
BY DEF TypeOK, ChannelTypeOK, ClaimsHeld, WriteOrder, Announced

(* The conjunct of StatusBacked about one row. *)
RowBacked(o) ==
    LET row == orders[o] IN
    /\ row.status = "STOCK_RESERVING" => Announced(PaymentCompleted, o)
    /\ row.status = "DELIVERY_PREPARING" =>
          Announced(PaymentCompleted, o) /\ Announced(StockReserved, o)
    /\ row.status = "COMPLETED" =>
          /\ Announced(PaymentCompleted, o)
          /\ Announced(StockReserved, o)
          /\ Announced(DeliveryStarted, o)

LEMMA WriteBacked ==
    ASSUME TypeOK, SnapOK, NEW t \in Topics, WriteOrder(t), outbox \subseteq outbox',
           NEW o \in Orders, orders'[o] # orders[o], RowBacked(o)
    PROVE  RowBacked(o)'
<1>1. /\ Announced(t, o)
      /\ orders[o].status \in Handler[t].from
      /\ orders'[o].status = Handler[t].to
    BY WriteRow, InHandAnnounced
<1>2. \A type : Announced(type, o) => Announced(type, o)'
    BY AnnouncedForGood
<1>3. CASE t = PaymentCompleted
    BY <1>1, <1>2, <1>3, HandlerRows DEF HandlePaymentCompleted, RowBacked
<1>4. CASE t = StockReserved
    BY <1>1, <1>2, <1>4, HandlerRows DEF HandleStockReserved, RowBacked
<1>5. CASE t = DeliveryStarted
    BY <1>1, <1>2, <1>5, HandlerRows DEF HandleDeliveryStarted, RowBacked
<1>6. CASE t \in {PaymentFailed, StockReservationFailed, DeliveryFailed}
    BY <1>1, <1>6, HandlerRows
    DEF HandlePaymentFailed, HandleStockReservationFailed, HandleDeliveryFailed, RowBacked
<1> QED BY <1>3, <1>4, <1>5, <1>6, HandlerRows

LEMMA NextStatusBacked ==
    ASSUME TypeOK, SnapOK, StatusBacked, [Next]_vars
    PROVE  StatusBacked'
<1>1. outbox \subseteq outbox'
    BY StepKinds
<1>2. ASSUME NEW o \in Orders PROVE RowBacked(o)'
  <2>1. RowBacked(o)
    BY DEF StatusBacked, RowBacked
  <2>2. CASE orders'[o] = orders[o]
    BY <1>1, <2>1, <2>2, AnnouncedForGood DEF RowBacked
  <2>3. ASSUME orders'[o] # orders[o], NEW c \in Clients, CreateRow(c)
        PROVE  RowBacked(o)'
    BY <2>3, NewRow DEF RowBacked
  <2>4. ASSUME orders'[o] # orders[o], NEW t \in Topics, WriteOrder(t)
        PROVE  RowBacked(o)'
    BY <1>1, <2>1, <2>4, WriteBacked
  <2> QED BY <2>2, <2>3, <2>4, StepKinds
<1> QED BY <1>2 DEF StatusBacked, RowBacked

(* The status of an order never runs ahead of the events of its saga.      *)
THEOREM StatusNeverAhead == Spec => []StatusBacked
<1>1. TypeOK /\ SnapOK /\ StatusBacked /\ [Next]_vars => StatusBacked'
    BY NextStatusBacked
<1> QED
    BY <1>1, InitTypeOK, NextTypeOK, InitSnapOK, NextSnapOK, InitStatusBacked, PTL
    DEF Spec

-------------------------------------------------------------------------------
(* One start per order.  Between the insertion of its row and the commit   *)
(* of OrderCreated an order is in the hands of the one request that        *)
(* inserted the row.                                                       *)
RowsInHand ==
    /\ \A o \in Orders : Announced(OrderCreated, o) => orders[o].status # "NONE"
    /\ \A c \in Clients : client[c].pc = "commit" =>
          /\ orders[client[c].order].status # "NONE"
          /\ ~ Announced(OrderCreated, client[c].order)
    /\ \A c, d \in Clients :
          client[c].pc = "commit" /\ client[d].pc = "commit"
              /\ client[c].order = client[d].order => c = d

StartInv == OneOrderCreated /\ RowsInHand

LEMMA InitStartInv == Init => StartInv
BY DEF Init, ChannelInit, StartInv, OneOrderCreated, RowsInHand, Announced

(* A step that starts nothing keeps it: no OrderCreated is added, no row   *)
(* goes away and no request comes to its commit.                           *)
LEMMA StartKept ==
    ASSUME TypeOK, StartInv,
           \A e : e.type = OrderCreated => (e \in outbox' <=> e \in outbox),
           \A o \in Orders : orders[o].status # "NONE" => orders'[o].status # "NONE",
           \A c \in Clients : client'[c].pc = "commit" => client'[c] = client[c]
    PROVE  StartInv'
<1>1. \A o : Announced(OrderCreated, o)' <=> Announced(OrderCreated, o)
    BY DEF Announced
<1>2. \A c \in Clients : client[c].pc = "commit" => client[c].order \in Orders
    BY DEF TypeOK
<1>3. OneOrderCreated'
    BY DEF StartInv, OneOrderCreated
<1>4. RowsInHand'
    BY <1>1, <1>2 DEF StartInv, RowsInHand
<1> QED BY <1>3, <1>4 DEF StartInv

LEMMA CreateStartInv ==
    ASSUME TypeOK, StartInv, NEW c \in Clients, CreateRow(c)
    PROVE  StartInv'
<1> DEFINE o == client[c].order
<1>1. o \in Orders /\ outbox' = outbox
    BY DEF TypeOK, CreateRow, channelVars
<1>2. CASE orders[o].status = "NONE"
  <2>1. /\ ~ Announced(OrderCreated, o)
        /\ \A p : Announced(OrderCreated, p)' <=> Announced(OrderCreated, p)
    BY <1>1, <1>2 DEF StartInv, RowsInHand, Announced
  <2>2. \A d \in Clients : client[d].pc = "commit" => client[d].order # o
    BY <1>2 DEF StartInv, RowsInHand
  <2>3. /\ orders'[o].status # "NONE"
        /\ \A p \in Orders \ {o} : orders'[p] = orders[p]
    BY <1>1, <1>2 DEF TypeOK, CreateRow
  <2>4. /\ client'[c].order = o
        /\ \A d \in Clients \ {c} : client'[d] = client[d]
    BY <1>2 DEF TypeOK, CreateRow
  <2>5. \A d \in Clients : client[d].pc = "commit" => client[d].order \in Orders
    BY DEF TypeOK
  <2>6. OneOrderCreated'
    BY <1>1 DEF StartInv, OneOrderCreated
  <2>7. RowsInHand'
    BY <1>1, <2>1, <2>2, <2>3, <2>4, <2>5 DEF StartInv, RowsInHand
  <2> QED BY <2>6, <2>7 DEF StartInv
<1>3. CASE orders[o].status # "NONE"
    BY <1>1, <1>3, StartKept DEF TypeOK, CreateRow, ClientDone
<1> QED BY <1>2, <1>3

LEMMA CommitStartInv ==
    ASSUME TypeOK, StartInv, NEW c \in Clients, CommitOrder(c)
    PROVE  StartInv'
<1> DEFINE o == client[c].order
<1>1. o \in Orders /\ outbox \subseteq Event /\ OrderCreated \in EventType
    BY DEF TypeOK, ChannelTypeOK, CommitOrder, EventType
<1>2. PICK n \in 1 .. MaxEvents :
         LET e == [type |-> OrderCreated, order |-> o, id |-> n] IN
         outbox' = outbox \cup {e}
    BY <1>1, SendAddsOne DEF CommitOrder
<1>3. /\ ~ Announced(OrderCreated, o)
      /\ orders[o].status # "NONE"
      /\ \A d \in Clients : client[d].pc = "commit" /\ d # c => client[d].order # o
    BY <1>1 DEF CommitOrder, StartInv, RowsInHand
<1>4. \A p : Announced(OrderCreated, p)' <=> (Announced(OrderCreated, p) \/ p = o)
  <2> DEFINE e == [type |-> OrderCreated, order |-> o, id |-> n]
  <2>1. e.type = OrderCreated /\ e.order = o /\ outbox' = outbox \cup {e}
    BY <1>2
  <2> HIDE DEF e
  <2> QED BY <2>1 DEF Announced
<1>5. /\ client'[c].pc = "idle"
      /\ \A d \in Clients \ {c} : client'[d] = client[d]
    BY DEF TypeOK, CommitOrder, ClientDone
<1>6. OneOrderCreated'
    BY <1>2, <1>3 DEF StartInv, OneOrderCreated, Announced
<1>7. RowsInHand'
    BY <1>3, <1>4, <1>5 DEF StartInv, RowsInHand, CommitOrder
<1> QED BY <1>6, <1>7 DEF StartInv

LEMMA NextStartInv ==
    ASSUME TypeOK, SnapOK, StartInv, [Next]_vars
    PROVE  StartInv'
<1>1. ASSUME NEW c \in Clients, NEW o \in Orders, FindExisting(c, o) \/ FindNothing(c, o)
      PROVE  StartInv'
    BY <1>1, StartKept DEF TypeOK, FindExisting, FindNothing, channelVars
<1>2. ASSUME NEW c \in Clients, RequestFails(c) PROVE StartInv'
    BY <1>2, StartKept DEF TypeOK, RequestFails, ClientDone
<1>3. ASSUME NEW t \in Topics, WriteOrder(t) PROVE StartInv'
  <2>1. \A o \in Orders : orders[o].status # "NONE" => orders'[o].status # "NONE"
    BY <1>3, WriteRow, HandlerTable DEF Status
  <2> QED BY <1>3, <2>1, StartKept DEF WriteOrder
<1>4. ASSUME UNCHANGED <<outbox, orders, client>> PROVE StartInv'
    BY <1>4, StartKept
<1>5. ASSUME Crash PROVE StartInv'
    BY <1>5, StartKept DEF Crash, CrashClaims
<1>6. ASSUME Environment PROVE StartInv'
  <2>1. OrderCreated \notin ForeignTypes
    BY ForeignTypesAssumption
    DEF OrderTopics, OrderCreated, PaymentCompleted, PaymentFailed, StockReserved,
        StockReservationFailed, DeliveryStarted, DeliveryFailed
  <2> QED BY <1>6, <2>1, StartKept DEF Environment, Elsewhere, Foreign, orderVars
<1>7. ASSUME NEW t \in Topics, Serve(t) PROVE StartInv'
    BY <1>3, <1>4, <1>7 DEF Serve, ReadOrder, Skip, Finish, Drop, orderVars
<1>8. ASSUME Errors PROVE StartInv'
    BY <1>2, <1>4, <1>5, <1>8
    DEF Errors, ReadFails, QueryFails, WriteFails, Fail, Redeliver, orderVars
<1>9. ASSUME NEW c \in Clients, Answer(c) PROVE StartInv'
    BY <1>9, CreateStartInv, CommitStartInv DEF Answer
<1>10. ASSUME UNCHANGED vars PROVE StartInv'
    BY <1>4, <1>10 DEF vars, channelVars, orderVars
<1> QED BY <1>1, <1>6, <1>7, <1>8, <1>9, <1>10 DEF Next, Service

(* However many requests carry the same key, and whatever fails, the saga  *)
(* of an order starts at most once.                                        *)
THEOREM StartsOnce == Spec => []OneOrderCreated
<1>1. TypeOK /\ SnapOK /\ StartInv /\ [Next]_vars => StartInv'
    BY NextStartInv
<1>2. StartInv => OneOrderCreated
    BY DEF StartInv
<1> QED
    BY <1>1, <1>2, InitTypeOK, NextTypeOK, InitSnapOK, NextSnapOK, InitStartInv, PTL
    DEF Spec

===============================================================================
