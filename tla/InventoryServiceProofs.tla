------------------------ MODULE InventoryServiceProofs ------------------------
(***************************************************************************)
(* The inventory service's invariants, for every set of orders, every      *)
(* stock, every schema and every bound on events and faults.               *)
(***************************************************************************)
EXTENDS InventoryService, ChannelProofs, FiniteSetTheorems

LEMMA TopicsAre ==
    /\ Topics = {PaymentCompleted, PaymentRefunded}
    /\ PaymentCompleted # PaymentRefunded
    /\ {PaymentCompleted, PaymentRefunded, StockReserved, StockReservationFailed,
        StockRestored} \subseteq EventType
BY InventoryTopicsAssumption
DEF InventoryTopics, PaymentCompleted, PaymentRefunded, EventType

(* The events of this service are three types, and not its topics. *)
LEMMA OwnTypes ==
    /\ StockReserved # StockRestored
    /\ StockReserved # StockReservationFailed
    /\ StockRestored # StockReservationFailed
    /\ {StockReserved, StockRestored, StockReservationFailed} \cap Topics = {}
BY TopicsAre
DEF PaymentCompleted, PaymentRefunded, StockReserved, StockReservationFailed, StockRestored

(* The row lock.  One transaction at a time holds the inventory row; while *)
(* it does, what it has read is what is there, and the reservation it is   *)
(* about is as it found it.                                                *)
LockOK ==
    /\ \A t, u \in Topics : claim[t].pc = "locked" /\ claim[u].pc = "locked" => t = u
    /\ \A t \in Topics : claim[t].pc = "locked" =>
          /\ snap[t] = inventory
          /\ reservations[claim[t].event.order] =
                IF t = PaymentCompleted THEN "NONE" ELSE "RESERVED"

IInv == TypeOK /\ LockOK /\ StockConserved /\ ReservationAnnounced

LEMMA ReservedFinite == IsFiniteSet(ReservedOrders) /\ Cardinality(ReservedOrders) \in Nat
<1>1. ReservedOrders \subseteq Orders
    BY DEF ReservedOrders
<1> QED BY <1>1, OrdersAssumption, FS_Subset, FS_CardinalityType

LEMMA InitIInv == Init => IInv
<1> SUFFICES ASSUME Init PROVE IInv
    OBVIOUS
<1>1. TypeOK
    BY StocksAssumption
    DEF Init, ChannelInit, TypeOK, ChannelTypeOK, ClaimsHeld, Idle, PCs, Row, NothingRead
<1>2. LockOK
    BY DEF Init, ChannelInit, LockOK, Idle
<1>3. StockConserved
  <2>1. ReservedOrders = {}
    BY DEF Init, ReservedOrders
  <2> QED BY <2>1, StocksAssumption, FS_EmptySet DEF Init, StockConserved, Quantity
<1>4. ReservationAnnounced
    BY DEF Init, ChannelInit, ReservationAnnounced, Announced
<1> QED BY <1>1, <1>2, <1>3, <1>4 DEF IInv

-------------------------------------------------------------------------------
(* The steps that do not touch the tables. *)

(* Nothing is written, no reservation or restoration is announced, and     *)
(* whoever holds the lock held it before.                                  *)
Quiet ==
    /\ UNCHANGED <<labels, inventory, reservations>>
    /\ \A e : e.type \in {StockReserved, StockRestored} =>
                 (e \in outbox' <=> e \in outbox)
    /\ \A t \in Topics : claim'[t].pc = "locked" =>
                            claim'[t] = claim[t] /\ snap'[t] = snap[t]
    /\ snap' \in [Topics -> Row]

LEMMA AnnouncedKept ==
    ASSUME ReservationAnnounced, UNCHANGED reservations,
           \A e : e.type \in {StockReserved, StockRestored} =>
                     (e \in outbox' <=> e \in outbox)
    PROVE  ReservationAnnounced'
<1>1. ASSUME NEW o
      PROVE  /\ Announced(StockReserved, o)' <=> Announced(StockReserved, o)
             /\ Announced(StockRestored, o)' <=> Announced(StockRestored, o)
    BY DEF Announced
<1> QED BY <1>1 DEF ReservationAnnounced

LEMMA QuietIInv ==
    ASSUME IInv, Quiet, ChannelTypeOK(PCs)'
    PROVE  IInv'
<1>1. TypeOK'
    BY DEF IInv, TypeOK, Quiet, PCs
<1>2. LockOK'
    BY DEF IInv, LockOK, Quiet
<1>3. StockConserved'
    BY DEF IInv, StockConserved, Quiet, ReservedOrders
<1>4. ReservationAnnounced'
    BY AnnouncedKept DEF IInv, Quiet
<1> QED BY <1>1, <1>2, <1>3, <1>4 DEF IInv

-------------------------------------------------------------------------------
(* Taking the lock. *)

LEMMA LockIInv ==
    ASSUME IInv, NEW t \in Topics, NEW e \in Delivered(t), NotProcessed(e), LockRow(t, e),
           reservations[e.order] = IF t = PaymentCompleted THEN "NONE" ELSE "RESERVED"
    PROVE  IInv'
<1>1. GrowingOutbox
    BY NotProcessedCounts DEF IInv, TypeOK, ChannelTypeOK, GrowingOutbox, LockRow
<1>2. ChannelTypeOK(PCs)'
    BY <1>1, BeginType DEF IInv, TypeOK, LockRow, PCs
<1>3. TypeOK'
    BY <1>2 DEF IInv, TypeOK, LockRow, PCs
<1>4. /\ claim'[t] = [pc |-> "locked", event |-> e] /\ snap'[t] = inventory
      /\ \A u \in Topics \ {t} : claim'[u] = claim[u] /\ claim[u].pc # "locked"
    BY DEF IInv, TypeOK, ChannelTypeOK, LockRow, Begin, RowLocked
<1>5. LockOK'
    BY <1>4 DEF LockOK, LockRow
<1>6. StockConserved'
    BY DEF IInv, StockConserved, LockRow, ReservedOrders
<1>7. ReservationAnnounced'
    BY AnnouncedKept DEF IInv, LockRow
<1> QED BY <1>3, <1>5, <1>6, <1>7 DEF IInv

-------------------------------------------------------------------------------
(* The two commits. *)

(* The claim of t ends its transaction, and no other claim holds the lock. *)
LEMMA EndTxUnlocks ==
    ASSUME IInv, NEW t \in Topics, claim[t].pc = "locked",
           NEW pc \in {"finish", "drop"}, EndTx(t, pc), outbox \subseteq outbox',
           outbox' \subseteq Event
    PROVE  /\ ChannelTypeOK(PCs)'
           /\ snap' \in [Topics -> Row]
           /\ \A u \in Topics : claim'[u].pc # "locked"
<1>1. GrowingOutbox
    BY DEF IInv, TypeOK, ChannelTypeOK, EndTx, GrowingOutbox
<1>2. ChannelTypeOK(PCs)'
    BY <1>1, GotoType DEF IInv, TypeOK, EndTx, PCs
<1>3. snap' \in [Topics -> Row]
    BY DEF IInv, TypeOK, EndTx, NothingRead, Row
<1>4. \A u \in Topics : claim'[u].pc # "locked"
    BY DEF IInv, TypeOK, ChannelTypeOK, LockOK, EndTx, Goto
<1> QED BY <1>2, <1>3, <1>4

(* Sending the one announcement that a change of the reservation calls for *)
(* keeps ReservationAnnounced.                                             *)
LEMMA AnnounceOnce ==
    ASSUME outbox \subseteq Event, ReservationAnnounced, NEW o \in Orders,
           reservations \in [Orders -> {"NONE", "RESERVED", "CANCELLED"}],
           NEW type \in {StockReserved, StockRestored}, Send(type, o),
           \/ type = StockReserved /\ reservations[o] = "NONE"
                 /\ reservations' = [reservations EXCEPT ![o] = "RESERVED"]
           \/ type = StockRestored /\ reservations[o] = "RESERVED"
                 /\ reservations' = [reservations EXCEPT ![o] = "CANCELLED"]
    PROVE  ReservationAnnounced'
<1>1. PICK n \in 1 .. MaxEvents :
         outbox' = outbox \cup {[type |-> type, order |-> o, id |-> n]}
    BY SendAddsOne, TopicsAre
<1> DEFINE e == [type |-> type, order |-> o, id |-> n]
<1>2. e.type = type /\ e.order = o /\ outbox' = outbox \cup {e}
    BY <1>1
<1> HIDE DEF e
<1>3. \A ty, p : Announced(ty, p)' <=> Announced(ty, p) \/ (ty = type /\ p = o)
    BY <1>2 DEF Announced
<1>4. ~ Announced(type, o)
    BY DEF ReservationAnnounced
<1>5. ASSUME NEW p \in Orders
      PROVE  /\ Announced(StockReserved, p)' <=> reservations'[p] # "NONE"
             /\ Announced(StockRestored, p)' <=> reservations'[p] = "CANCELLED"
    BY <1>3, OwnTypes DEF ReservationAnnounced
<1>6. ASSUME NEW f \in outbox', NEW g \in outbox',
             f.type \in {StockReserved, StockRestored},
             g.type = f.type, g.order = f.order
      PROVE  f = g
    BY <1>2, <1>4, <1>6 DEF ReservationAnnounced, Announced
<1> QED BY <1>5, <1>6 DEF ReservationAnnounced

LEMMA ReserveIInv ==
    ASSUME IInv, CommitReservation(claim[PaymentCompleted].event.order)
    PROVE  IInv'
<1> DEFINE t == PaymentCompleted
           o == claim[t].event.order
<1>1. t \in Topics /\ claim[t].pc = "locked"
    BY TopicsAre DEF CommitReservation
<1>2. o \in Orders
    BY <1>1 DEF IInv, TypeOK, ChannelTypeOK, ClaimsHeld, Event
<1>3. /\ snap[t] = inventory /\ reservations[o] = "NONE"
      /\ inventory \in Row /\ inventory.available >= 1
    BY <1>1 DEF IInv, TypeOK, LockOK, CommitReservation, CanReserve, Quantity
<1>4. outbox \subseteq outbox' /\ outbox' \subseteq Event
    BY <1>2, SendGrows, TopicsAre DEF IInv, TypeOK, ChannelTypeOK, CommitReservation
<1>5. /\ ChannelTypeOK(PCs)'
      /\ snap' \in [Topics -> Row]
      /\ \A u \in Topics : claim'[u].pc # "locked"
    BY <1>1, <1>4, EndTxUnlocks DEF CommitReservation
<1>6. inventory' = [available |-> inventory.available - 1,
                    reserved |-> inventory.reserved + 1,
                    version |-> inventory.version + 1]
    BY <1>3 DEF CommitReservation, Reserve, Quantity
<1>7. reservations' = [reservations EXCEPT ![o] = "RESERVED"]
    BY DEF CommitReservation
<1>8. TypeOK'
  <2>1. inventory' \in Row
    BY <1>3, <1>6 DEF Row
  <2>2. reservations' \in [Orders -> {"NONE", "RESERVED", "CANCELLED"}]
    BY <1>7 DEF IInv, TypeOK
  <2> QED BY <1>5, <2>1, <2>2 DEF IInv, TypeOK, PCs, CommitReservation, EndTx
<1>9. LockOK'
    BY <1>5 DEF LockOK
<1>10. StockConserved'
  <2>1. ReservedOrders' = ReservedOrders \cup {o} /\ o \notin ReservedOrders
    BY <1>2, <1>3, <1>7 DEF IInv, TypeOK, ReservedOrders
  <2>2. Cardinality(ReservedOrders') = Cardinality(ReservedOrders) + 1
    BY <2>1, ReservedFinite, FS_AddElement
  <2> QED BY <1>3, <1>6, <2>2, ReservedFinite DEF IInv, StockConserved, Quantity, Row
<1>11. ReservationAnnounced'
    BY <1>2, <1>3, <1>7, AnnounceOnce
    DEF IInv, TypeOK, ChannelTypeOK, CommitReservation
<1> QED BY <1>8, <1>9, <1>10, <1>11 DEF IInv

LEMMA RestoreIInv ==
    ASSUME IInv, CommitRestoration(claim[PaymentRefunded].event.order)
    PROVE  IInv'
<1> DEFINE t == PaymentRefunded
           o == claim[t].event.order
<1>1. t \in Topics /\ t # PaymentCompleted /\ claim[t].pc = "locked"
    BY TopicsAre DEF CommitRestoration
<1>2. o \in Orders
    BY <1>1 DEF IInv, TypeOK, ChannelTypeOK, ClaimsHeld, Event
<1>3. snap[t] = inventory /\ reservations[o] = "RESERVED" /\ inventory \in Row
    BY <1>1 DEF IInv, TypeOK, LockOK
<1>4. outbox \subseteq outbox' /\ outbox' \subseteq Event
    BY <1>2, SendGrows, TopicsAre DEF IInv, TypeOK, ChannelTypeOK, CommitRestoration
<1>5. /\ ChannelTypeOK(PCs)'
      /\ snap' \in [Topics -> Row]
      /\ \A u \in Topics : claim'[u].pc # "locked"
    BY <1>1, <1>4, EndTxUnlocks DEF CommitRestoration
<1>6. inventory' = [available |-> inventory.available + 1,
                    reserved |-> inventory.reserved - 1,
                    version |-> inventory.version + 1]
    BY <1>3 DEF CommitRestoration, Restore, Quantity
<1>7. reservations' = [reservations EXCEPT ![o] = "CANCELLED"]
    BY DEF CommitRestoration
<1>8. ReservedOrders' = ReservedOrders \ {o} /\ o \in ReservedOrders
    BY <1>2, <1>3, <1>7 DEF IInv, TypeOK, ReservedOrders
<1>9. Cardinality(ReservedOrders') = Cardinality(ReservedOrders) - 1
    BY <1>8, ReservedFinite, FS_RemoveElement
<1>10. Cardinality(ReservedOrders') \in Nat
  <2>1. IsFiniteSet(ReservedOrders')
    BY <1>8, ReservedFinite, FS_RemoveElement
  <2> QED BY <2>1, FS_CardinalityType
<1>11. inventory.reserved >= 1
    BY <1>9, <1>10, ReservedFinite DEF IInv, StockConserved, Quantity
<1>12. TypeOK'
  <2>1. inventory' \in Row
    BY <1>3, <1>6, <1>11 DEF Row
  <2>2. reservations' \in [Orders -> {"NONE", "RESERVED", "CANCELLED"}]
    BY <1>7 DEF IInv, TypeOK
  <2> QED BY <1>5, <2>1, <2>2 DEF IInv, TypeOK, PCs, CommitRestoration, EndTx
<1>13. LockOK'
    BY <1>5 DEF LockOK
<1>14. StockConserved'
    BY <1>3, <1>6, <1>9, ReservedFinite DEF IInv, StockConserved, Quantity, Row
<1>15. ReservationAnnounced'
    BY <1>2, <1>3, <1>7, AnnounceOnce
    DEF IInv, TypeOK, ChannelTypeOK, CommitRestoration
<1> QED BY <1>12, <1>13, <1>14, <1>15 DEF IInv

-------------------------------------------------------------------------------
(* The steps of the two handlers. *)

LEMMA FindIInv ==
    ASSUME IInv, NEW e,
           \/ e \in Delivered(PaymentCompleted) /\ FindReservation(e)
           \/ e \in Delivered(PaymentRefunded) /\ FindReserved(e)
    PROVE  IInv'
<1> SUFFICES ASSUME NEW t \in Topics, e \in Delivered(t), NotProcessed(e),
                    Begin(t, e, "finish"), UNCHANGED <<outbox, inventoryVars>>
             PROVE  IInv'
  <2>1. CASE e \in Delivered(PaymentCompleted) /\ FindReservation(e)
    BY <2>1, TopicsAre, LockIInv DEF FindReservation
  <2>2. CASE e \in Delivered(PaymentRefunded) /\ FindReserved(e)
    BY <2>2, TopicsAre, LockIInv DEF FindReserved
  <2> QED BY <2>1, <2>2
<1>1. GrowingOutbox
    BY NotProcessedCounts DEF IInv, TypeOK, ChannelTypeOK, GrowingOutbox
<1>2. ChannelTypeOK(PCs)'
    BY <1>1, BeginType DEF IInv, TypeOK, PCs
<1>3. Quiet
    BY DEF IInv, TypeOK, ChannelTypeOK, Begin, Quiet, inventoryVars
<1> QED BY <1>2, <1>3, QuietIInv

LEMMA RefuseIInv ==
    ASSUME IInv, RefuseReservation(claim[PaymentCompleted].event.order)
    PROVE  IInv'
<1> DEFINE t == PaymentCompleted
           o == claim[t].event.order
<1>1. t \in Topics /\ claim[t].pc = "locked"
    BY TopicsAre DEF RefuseReservation
<1>2. o \in Orders
    BY <1>1 DEF IInv, TypeOK, ChannelTypeOK, ClaimsHeld, Event
<1>3. PICK n \in 1 .. MaxEvents :
         LET e == [type |-> StockReservationFailed, order |-> o, id |-> n] IN
         e \in Event /\ outbox' = outbox \cup {e}
    BY <1>2, SendAddsOne, TopicsAre
    DEF IInv, TypeOK, ChannelTypeOK, RefuseReservation
<1>4. outbox \subseteq outbox' /\ outbox' \subseteq Event
    BY <1>3 DEF IInv, TypeOK, ChannelTypeOK
<1>5. /\ ChannelTypeOK(PCs)'
      /\ snap' \in [Topics -> Row]
      /\ \A u \in Topics : claim'[u].pc # "locked"
    BY <1>1, <1>4, EndTxUnlocks DEF RefuseReservation
<1>6. Quiet
    BY <1>3, <1>5, OwnTypes DEF Quiet, RefuseReservation
<1> QED BY <1>5, <1>6, QuietIInv

LEMMA RollbackIInv ==
    ASSUME IInv, RollbackRestoration
    PROVE  IInv'
<1>1. PaymentRefunded \in Topics /\ claim[PaymentRefunded].pc = "locked"
    BY TopicsAre DEF RollbackRestoration
<1>2. /\ ChannelTypeOK(PCs)'
      /\ snap' \in [Topics -> Row]
      /\ \A u \in Topics : claim'[u].pc # "locked"
    BY <1>1, EndTxUnlocks DEF IInv, TypeOK, ChannelTypeOK, RollbackRestoration
<1>3. Quiet
    BY <1>2 DEF Quiet, RollbackRestoration
<1> QED BY <1>2, <1>3, QuietIInv

LEMMA ServeIInv ==
    ASSUME IInv, NEW t \in Topics, Serve(t)
    PROVE  IInv'
<1>1. "idle" \in PCs
    BY DEF PCs
<1>2. CASE HandlePaymentCompleted
    BY <1>2, FindIInv, ReserveIInv, RefuseIInv DEF HandlePaymentCompleted
<1>3. CASE HandlePaymentRefunded
    BY <1>3, FindIInv, RestoreIInv, RollbackIInv DEF HandlePaymentRefunded
<1>4. ASSUME NEW e, Skip(t, e), UNCHANGED inventoryVars PROVE IInv'
  <2>1. Quiet
    BY <1>4 DEF IInv, TypeOK, ChannelTypeOK, Skip, MarkMessage, Idle, Quiet, inventoryVars
  <2> QED BY <1>1, <1>4, <2>1, SkipType, QuietIInv DEF IInv, TypeOK
<1>5. ASSUME Finish(t) \/ Drop(t), UNCHANGED inventoryVars PROVE IInv'
  <2>1. Quiet
    BY <1>5
    DEF IInv, TypeOK, ChannelTypeOK, Finish, Drop, MarkMessage, Idle, Quiet, inventoryVars
  <2> QED BY <1>1, <1>5, <2>1, FinishType, DropType, QuietIInv DEF IInv, TypeOK
<1> QED BY <1>2, <1>3, <1>4, <1>5 DEF Serve

LEMMA ErrorsIInv ==
    ASSUME IInv, Errors
    PROVE  IInv'
<1>1. "idle" \in PCs /\ "drop" \in PCs \ {"idle"}
    BY DEF PCs
<1>2. ASSUME NEW t \in Topics, NEW e \in Delivered(t), FindFails(t, e) PROVE IInv'
  <2>1. GrowingOutbox
    BY <1>2, FaultCounts DEF IInv, TypeOK, ChannelTypeOK, FindFails, QueryFails, GrowingOutbox
  <2>2. ChannelTypeOK(PCs)'
    BY <1>1, <1>2, <2>1, BeginType DEF IInv, TypeOK, FindFails, QueryFails
  <2>3. Quiet
    BY <1>2 DEF IInv, TypeOK, ChannelTypeOK, FindFails, QueryFails, Begin, Quiet, inventoryVars
  <2> QED BY <2>2, <2>3, QuietIInv
<1>3. ASSUME NEW t \in Topics, TxFails(t) PROVE IInv'
  <2>1. ChannelTypeOK(PCs)'
    BY <1>1, <1>3, FailType DEF IInv, TypeOK, TxFails
  <2>2. snap' \in [Topics -> Row]
    BY <1>3 DEF IInv, TypeOK, TxFails, NothingRead, Row
  <2>3. Quiet
    BY <1>3, <2>2 DEF IInv, TypeOK, ChannelTypeOK, TxFails, Fail, Goto, Quiet
  <2> QED BY <2>1, <2>3, QuietIInv
<1>4. ASSUME NEW e \in marked, Redeliver(e), UNCHANGED inventoryVars PROVE IInv'
  <2>1. Quiet
    BY <1>4 DEF IInv, TypeOK, Redeliver, Quiet, inventoryVars
  <2> QED BY <1>4, <2>1, RedeliverType, QuietIInv DEF IInv, TypeOK
<1>5. ASSUME Crash PROVE IInv'
  <2>1. Quiet
    BY <1>5 DEF Crash, CrashClaims, Idle, Quiet, NothingRead, Row
  <2> QED BY <1>1, <1>5, <2>1, CrashType, QuietIInv DEF IInv, TypeOK, Crash
<1> QED BY <1>2, <1>3, <1>4, <1>5 DEF Errors

LEMMA NextIInv == IInv /\ [Next]_vars => IInv'
<1> SUFFICES ASSUME IInv, [Next]_vars PROVE IInv'
    OBVIOUS
<1>1. ASSUME Environment PROVE IInv'
  <2>1. \A e \in Foreign : e.type \notin {StockReserved, StockRestored}
    BY TopicsAre, OwnTypes DEF Foreign
  <2>2. Quiet
    BY <1>1, <2>1 DEF IInv, TypeOK, Environment, Elsewhere, Quiet, inventoryVars
  <2> QED BY <1>1, <2>2, ElsewhereType, QuietIInv DEF IInv, TypeOK, Environment, Foreign
<1>2. ASSUME UNCHANGED vars PROVE IInv'
  <2>1. Quiet
    BY <1>2 DEF IInv, TypeOK, vars, channelVars, inventoryVars, Quiet
  <2> QED BY <1>2, <2>1, StutterType, QuietIInv DEF IInv, TypeOK, vars
<1> QED BY <1>1, <1>2, ServeIInv, ErrorsIInv DEF Next, Service

-------------------------------------------------------------------------------
LEMMA AlwaysIInv == Spec => []IInv
BY InitIInv, NextIInv, PTL DEF Spec

(* The inventory service keeps its types: no quantity ever goes below      *)
(* zero, and every message in hand is an unmarked event of its own topic.  *)
THEOREM TypeCorrect == Spec => []TypeOK
BY AlwaysIInv, PTL DEF IInv

(* Whatever comes twice, fails or crashes, the two quantities of the row   *)
(* add up to what was on hand, and the reserved quantity is the number of  *)
(* reservations.                                                           *)
THEOREM NoUnitLost == Spec => []StockConserved
BY AlwaysIInv, PTL DEF IInv

(* Reservations and their cancellations are announced once each, exactly   *)
(* when they are in the table.                                             *)
THEOREM AnnouncedAsReserved == Spec => []ReservationAnnounced
BY AlwaysIInv, PTL DEF IInv

-------------------------------------------------------------------------------
(* Refusals.  Only RefuseReservation announces one. *)
NoRefusalAdded ==
    \A e : e.type = StockReservationFailed /\ e \in outbox' => e \in outbox

LEMMA CommitRefusesNobody ==
    ASSUME IInv,
           \/ CommitReservation(claim[PaymentCompleted].event.order)
           \/ CommitRestoration(claim[PaymentRefunded].event.order)
    PROVE  NoRefusalAdded
<1>1. ASSUME NEW o \in Orders, NEW type \in {StockReserved, StockRestored}, Send(type, o)
      PROVE  NoRefusalAdded
  <2>1. PICK n \in 1 .. MaxEvents :
           outbox' = outbox \cup {[type |-> type, order |-> o, id |-> n]}
    BY <1>1, SendAddsOne, TopicsAre DEF IInv, TypeOK, ChannelTypeOK
  <2> QED BY <2>1, OwnTypes DEF NoRefusalAdded
<1>2. CASE CommitReservation(claim[PaymentCompleted].event.order)
  <2>1. claim[PaymentCompleted].event.order \in Orders
    BY <1>2, TopicsAre
    DEF CommitReservation, IInv, TypeOK, ChannelTypeOK, ClaimsHeld, Event
  <2> QED BY <1>1, <1>2, <2>1 DEF CommitReservation
<1>3. CASE CommitRestoration(claim[PaymentRefunded].event.order)
  <2>1. claim[PaymentRefunded].event.order \in Orders
    BY <1>3, TopicsAre
    DEF CommitRestoration, IInv, TypeOK, ChannelTypeOK, ClaimsHeld, Event
  <2> QED BY <1>1, <1>3, <2>1 DEF CommitRestoration
<1> QED BY <1>2, <1>3

LEMMA WhoRefuses ==
    ASSUME IInv, [Next]_vars
    PROVE  \/ NoRefusalAdded
           \/ RefuseReservation(claim[PaymentCompleted].event.order)
<1>1. ASSUME outbox' = outbox PROVE NoRefusalAdded
    BY <1>1 DEF NoRefusalAdded
<1>2. ASSUME Environment PROVE NoRefusalAdded
  <2>1. \A e \in Foreign : e.type # StockReservationFailed
    BY TopicsAre, OwnTypes DEF Foreign
  <2> QED BY <1>1, <1>2, <2>1 DEF Environment, Elsewhere, NoRefusalAdded
<1>3. ASSUME NEW e, FindReservation(e) \/ FindReserved(e) PROVE NoRefusalAdded
    BY <1>1, <1>3 DEF FindReservation, FindReserved, LockRow
<1>4. ASSUME RollbackRestoration PROVE NoRefusalAdded
    BY <1>1, <1>4 DEF RollbackRestoration
<1>5. ASSUME NEW t, Serve(t)
      PROVE  \/ NoRefusalAdded
             \/ RefuseReservation(claim[PaymentCompleted].event.order)
    BY <1>1, <1>3, <1>4, <1>5, CommitRefusesNobody
    DEF Serve, HandlePaymentCompleted, HandlePaymentRefunded, Skip, Finish, Drop
<1>6. ASSUME Errors PROVE NoRefusalAdded
    BY <1>1, <1>6 DEF Errors, FindFails, QueryFails, TxFails, Fail, Redeliver, Crash, CrashClaims
<1>7. ASSUME UNCHANGED vars PROVE NoRefusalAdded
    BY <1>1, <1>7 DEF vars, channelVars
<1> QED BY <1>2, <1>5, <1>6, <1>7 DEF Next, Service

LEMMA RefusalMeansSoldOut ==
    ASSUME IInv, [Next]_vars, NEW o \in Orders,
           ~ Announced(StockReservationFailed, o), Announced(StockReservationFailed, o)'
    PROVE  inventory.available < Quantity
<1>1. ~ NoRefusalAdded
    BY DEF NoRefusalAdded, Announced
<1>2. RefuseReservation(claim[PaymentCompleted].event.order)
    BY <1>1, WhoRefuses
<1>3. snap[PaymentCompleted] = inventory /\ inventory \in Row
    BY <1>2, TopicsAre DEF RefuseReservation, IInv, TypeOK, LockOK
<1> QED BY <1>2, <1>3 DEF RefuseReservation, CanReserve, SameVersion, Row, Quantity

(* Stock is refused only when there is none: the row lock makes the test   *)
(* of the version succeed always, so no refusal is due to another handler. *)
THEOREM RefusedForGoodReason == Spec => RefusedOnlyWhenSoldOut
<1>1. IInv /\ [Next]_vars
         => [\A o \in Orders :
                ~ Announced(StockReservationFailed, o)
                /\ Announced(StockReservationFailed, o)'
                    => inventory.available < Quantity]_vars
    BY RefusalMeansSoldOut
<1> QED BY <1>1, AlwaysIInv, PTL DEF Spec, RefusedOnlyWhenSoldOut

===============================================================================
