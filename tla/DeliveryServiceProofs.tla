------------------------- MODULE DeliveryServiceProofs ------------------------
(***************************************************************************)
(* The delivery service's invariants, for every set of orders and every    *)
(* bound on events and faults.                                             *)
(***************************************************************************)
EXTENDS DeliveryService, ChannelProofs

LEMMA TopicIsStockReserved ==
    SubscribedTopics => Topics = {StockReserved} /\ StockReserved \in EventType
BY DEF SubscribedTopics, DeliveryTopics, EventType

LEMMA InitTypeOK == Init => TypeOK
BY OrdersAssumption DEF Init, ChannelInit, TypeOK, ChannelTypeOK, ClaimsHeld, Idle, PCs

(* The one step that writes: a delivery and its event together. *)
LEMMA HandleTypeOK ==
    ASSUME SubscribedTopics, TypeOK,
           NEW e \in Delivered(StockReserved), HandleStockReserved(e)
    PROVE  TypeOK'
<1>1. e \in Event /\ e.order \in Orders
    BY DEF TypeOK, ChannelTypeOK, Delivered, Event
<1>2. GrowingOutbox
    BY <1>1, SendGrows, NotProcessedCounts
    DEF HandleStockReserved, GrowingOutbox, TypeOK, ChannelTypeOK, EventType
<1>3. ChannelTypeOK(PCs)'
    BY <1>2, BeginType, TopicIsStockReserved DEF TypeOK, HandleStockReserved, PCs
<1> QED BY <1>1, <1>3 DEF TypeOK, HandleStockReserved, PCs

LEMMA NextTypeOK == SubscribedTopics /\ TypeOK /\ [Next]_vars => TypeOK'
<1> SUFFICES ASSUME SubscribedTopics, TypeOK, [Next]_vars PROVE TypeOK'
    OBVIOUS
<1>1. "idle" \in PCs /\ "drop" \in PCs \ {"idle"}
    BY DEF PCs
<1>2. ASSUME Consume PROVE TypeOK'
  <2>1. ASSUME NEW e \in Delivered(StockReserved), HandleStockReserved(e) PROVE TypeOK'
    BY <2>1, HandleTypeOK
  <2>2. ASSUME NEW e \in Delivered(StockReserved),
               Skip(StockReserved, e), UNCHANGED deliveries
        PROVE  TypeOK'
    BY <2>2, <1>1, SkipType, TopicIsStockReserved DEF TypeOK, PCs
  <2>3. CASE Finish(StockReserved) /\ UNCHANGED deliveries
    BY <2>3, <1>1, FinishType, TopicIsStockReserved DEF TypeOK, PCs
  <2>4. CASE Drop(StockReserved) /\ UNCHANGED deliveries
    BY <2>4, <1>1, DropType, TopicIsStockReserved DEF TypeOK, PCs
  <2> QED BY <1>2, <2>1, <2>2, <2>3, <2>4 DEF Consume
<1>3. ASSUME Errors PROVE TypeOK'
  <2>1. ASSUME NEW e \in Delivered(StockReserved), TxFails(e) PROVE TypeOK'
    <3>1. GrowingOutbox
        BY <2>1, FaultCounts DEF TxFails, QueryFails, GrowingOutbox, TypeOK, ChannelTypeOK
    <3> QED BY <2>1, <3>1, <1>1, BeginType, TopicIsStockReserved
            DEF TypeOK, TxFails, QueryFails, PCs
  <2>2. ASSUME NEW e \in marked, Redeliver(e), UNCHANGED deliveries PROVE TypeOK'
    BY <2>2, RedeliverType DEF TypeOK, PCs
  <2>3. CASE CrashClaims /\ UNCHANGED deliveries
    BY <2>3, <1>1, CrashType DEF TypeOK, PCs
  <2> QED BY <1>3, <2>1, <2>2, <2>3 DEF Errors
<1>4. ASSUME Environment PROVE TypeOK'
    BY <1>4, ElsewhereType DEF Environment, Foreign, TypeOK, PCs
<1>5. ASSUME UNCHANGED vars PROVE TypeOK'
    BY <1>5, StutterType DEF vars, TypeOK, PCs
<1> QED BY <1>2, <1>3, <1>4, <1>5 DEF Next, Service

(* The delivery service keeps its types, and every message in hand is an   *)
(* unmarked event of the claim's own topic.                                *)
THEOREM TypeCorrect ==
    ASSUME SubscribedTopics PROVE Spec => []TypeOK
BY InitTypeOK, NextTypeOK, PTL DEF Spec

-------------------------------------------------------------------------------
(* DeliveryAnnounced is inductive together with TypeOK. *)

LEMMA InitAnnounced == Init => DeliveryAnnounced
BY DEF Init, ChannelInit, DeliveryAnnounced, Announced

(* A step that adds no DeliveryStarted event and no delivery keeps it. *)
LEMMA SilentStep ==
    ASSUME DeliveryAnnounced, UNCHANGED deliveries,
           \A e : e.type = DeliveryStarted => (e \in outbox' <=> e \in outbox)
    PROVE  DeliveryAnnounced'
BY DEF DeliveryAnnounced, Announced

(* The handler sends DeliveryStarted in the step that inserts the delivery, *)
(* and only when there was none.                                            *)
LEMMA HandleAnnounces ==
    ASSUME TypeOK, DeliveryAnnounced, NEW e \in Delivered(StockReserved),
           e.order \notin deliveries,
           deliveries' = deliveries \cup {e.order}, Send(DeliveryStarted, e.order)
    PROVE  DeliveryAnnounced'
<1>1. e.order \in Orders /\ outbox \subseteq Event /\ DeliveryStarted \in EventType
    BY DEF TypeOK, ChannelTypeOK, Delivered, Event, EventType
<1>2. PICK n \in 1 .. MaxEvents :
         LET f == [type |-> DeliveryStarted, order |-> e.order, id |-> n] IN
         f \notin outbox /\ outbox' = outbox \cup {f}
    BY <1>1, SendAddsOne
<1>3. \A f \in outbox : f.type = DeliveryStarted => f.order # e.order
    BY <1>1 DEF DeliveryAnnounced, Announced
<1>4. ASSUME NEW o \in Orders
      PROVE  Announced(DeliveryStarted, o)' <=> o \in deliveries'
    BY <1>2 DEF DeliveryAnnounced, Announced
<1>5. ASSUME NEW f \in outbox', NEW g \in outbox',
             f.type = DeliveryStarted, g.type = DeliveryStarted, g.order = f.order
      PROVE  f = g
    BY <1>2, <1>3, <1>5 DEF DeliveryAnnounced
<1> QED BY <1>4, <1>5 DEF DeliveryAnnounced

LEMMA NextAnnounced == TypeOK /\ DeliveryAnnounced /\ [Next]_vars => DeliveryAnnounced'
<1> SUFFICES ASSUME TypeOK, DeliveryAnnounced, [Next]_vars PROVE DeliveryAnnounced'
    OBVIOUS
<1>1. ASSUME NEW e \in Delivered(StockReserved), HandleStockReserved(e)
      PROVE  DeliveryAnnounced'
    BY <1>1, SilentStep, HandleAnnounces DEF HandleStockReserved
<1>2. ASSUME Errors, UNCHANGED deliveries, UNCHANGED outbox PROVE DeliveryAnnounced'
    BY <1>2, SilentStep
<1>3. ASSUME Environment PROVE DeliveryAnnounced'
  <2>1. \A e \in Foreign : e.type # DeliveryStarted
    BY DEF Foreign, StockReserved, DeliveryStarted
  <2> QED BY <1>3, <2>1, SilentStep DEF Environment, Elsewhere
<1>4. ASSUME UNCHANGED <<outbox, deliveries>> PROVE DeliveryAnnounced'
    BY <1>4, SilentStep
<1> QED
    BY <1>1, <1>2, <1>3, <1>4
    DEF Next, Service, Consume, Errors, Skip, Finish, Drop, TxFails, QueryFails, Redeliver,
        CrashClaims, vars, channelVars

(* Whatever is delivered twice, fails or crashes, a delivery is announced  *)
(* exactly when it is in the table, and only once.                         *)
THEOREM AnnouncedOnce ==
    ASSUME SubscribedTopics PROVE Spec => []DeliveryAnnounced
BY InitTypeOK, NextTypeOK, InitAnnounced, NextAnnounced, PTL DEF Spec

===============================================================================
