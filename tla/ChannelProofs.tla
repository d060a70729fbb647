----------------------------- MODULE ChannelProofs ----------------------------
(***************************************************************************)
(* How the steps of a channel keep its type invariant.  A service's action *)
(* combines one of these steps with its own change of outbox and faults,   *)
(* so the lemmas ask of these only that the outbox grows by events and     *)
(* that faults stay counts.                                                *)
(***************************************************************************)
EXTENDS Channel, TLAPS

(* The outbox and the faults change as every action may change them. *)
GrowingOutbox ==
    /\ outbox \subseteq outbox'
    /\ outbox' \subseteq Event
    /\ faults' \in [FaultKind -> Nat]

(* Send adds one event of the given type and order, and it is a new one. *)
LEMMA SendAddsOne ==
    ASSUME NEW type \in EventType, NEW o \in Orders, outbox \subseteq Event,
           Send(type, o)
    PROVE  \E n \in 1 .. MaxEvents :
              LET e == [type |-> type, order |-> o, id |-> n] IN
              e \in Event /\ e \notin outbox /\ outbox' = outbox \cup {e}
BY DEF Send, Event

(* Send leaves the outbox a set of events. *)
LEMMA SendGrows ==
    ASSUME NEW type \in EventType, NEW o \in Orders, outbox \subseteq Event,
           Send(type, o)
    PROVE  outbox \subseteq outbox' /\ outbox' \subseteq Event
BY SendAddsOne

(* A fault is counted. *)
LEMMA FaultCounts ==
    ASSUME NEW kind, faults \in [FaultKind -> Nat], Fault(kind)
    PROVE  faults' \in [FaultKind -> Nat]
BY FaultKindsAssumption DEF Fault

(* A test of the idempotency store may count a fault. *)
LEMMA NotProcessedCounts ==
    ASSUME NEW e, faults \in [FaultKind -> Nat], NotProcessed(e)
    PROVE  faults' \in [FaultKind -> Nat]
BY FaultCounts DEF NotProcessed

(* A message taken from the topic is in hand until its handler returns. *)
LEMMA BeginType ==
    ASSUME NEW pcs, ChannelTypeOK(pcs), GrowingOutbox,
           NEW t \in Topics, NEW e, NEW pc \in pcs \ {"idle"}, Begin(t, e, pc)
    PROVE  ChannelTypeOK(pcs)'
BY DEF ChannelTypeOK, ClaimsHeld, GrowingOutbox, Begin, Delivered

LEMMA GotoType ==
    ASSUME NEW pcs, ChannelTypeOK(pcs), GrowingOutbox,
           NEW t \in Topics, claim[t].pc # "idle",
           NEW pc \in pcs \ {"idle"}, Goto(t, pc)
    PROVE  ChannelTypeOK(pcs)'
BY DEF ChannelTypeOK, ClaimsHeld, GrowingOutbox, Goto

(* Marking a message does not touch what the other claims hold, because    *)
(* each claim holds a message of its own topic.                            *)
LEMMA MarkType ==
    ASSUME NEW pcs, "idle" \in pcs, ChannelTypeOK(pcs), GrowingOutbox,
           NEW t \in Topics, NEW e \in outbox, e.type = t, MarkMessage(t, e),
           idem' \subseteq outbox
    PROVE  ChannelTypeOK(pcs)'
BY DEF ChannelTypeOK, ClaimsHeld, GrowingOutbox, MarkMessage, Idle

LEMMA SkipType ==
    ASSUME NEW pcs, "idle" \in pcs, ChannelTypeOK(pcs),
           NEW t \in Topics, NEW e, Skip(t, e)
    PROVE  ChannelTypeOK(pcs)'
BY MarkType DEF Skip, Delivered, GrowingOutbox, ChannelTypeOK

LEMMA FinishType ==
    ASSUME NEW pcs, "idle" \in pcs, ChannelTypeOK(pcs), NEW t \in Topics, Finish(t)
    PROVE  ChannelTypeOK(pcs)'
<1>1. claim[t].event \in outbox /\ claim[t].event.type = t
    BY DEF Finish, ChannelTypeOK, ClaimsHeld
<1>2. GrowingOutbox /\ idem' \subseteq outbox
    BY <1>1, FaultCounts DEF Finish, GrowingOutbox, ChannelTypeOK
<1> QED BY <1>1, <1>2, MarkType DEF Finish

LEMMA DropType ==
    ASSUME NEW pcs, "idle" \in pcs, ChannelTypeOK(pcs), NEW t \in Topics, Drop(t)
    PROVE  ChannelTypeOK(pcs)'
<1>1. claim[t].event \in outbox /\ claim[t].event.type = t
    BY DEF Drop, ChannelTypeOK, ClaimsHeld
<1> QED BY <1>1, MarkType DEF Drop, GrowingOutbox, ChannelTypeOK

LEMMA FailType ==
    ASSUME NEW pcs, "drop" \in pcs, ChannelTypeOK(pcs),
           NEW t \in Topics, claim[t].pc # "idle", Fail(t)
    PROVE  ChannelTypeOK(pcs)'
BY GotoType, FaultCounts DEF Fail, GrowingOutbox, ChannelTypeOK

LEMMA RedeliverType ==
    ASSUME NEW pcs, ChannelTypeOK(pcs), NEW e, Redeliver(e)
    PROVE  ChannelTypeOK(pcs)'
BY FaultCounts DEF Redeliver, ChannelTypeOK, ClaimsHeld

LEMMA CrashType ==
    ASSUME NEW pcs, "idle" \in pcs, ChannelTypeOK(pcs), CrashClaims
    PROVE  ChannelTypeOK(pcs)'
BY FaultCounts DEF CrashClaims, ChannelTypeOK, ClaimsHeld, Idle

LEMMA ElsewhereType ==
    ASSUME NEW pcs, ChannelTypeOK(pcs), NEW foreign \in SUBSET Event,
           Elsewhere(foreign)
    PROVE  ChannelTypeOK(pcs)'
<1>1. faults' \in [FaultKind -> Nat]
    BY FaultCounts DEF Elsewhere, ChannelTypeOK
<1> QED BY <1>1 DEF Elsewhere, ChannelTypeOK, ClaimsHeld

LEMMA StutterType ==
    ASSUME NEW pcs, ChannelTypeOK(pcs), UNCHANGED channelVars
    PROVE  ChannelTypeOK(pcs)'
BY DEF channelVars, ChannelTypeOK, ClaimsHeld

===============================================================================
