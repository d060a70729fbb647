-------------------------------- MODULE Channel -------------------------------
(***************************************************************************)
(* What one service sees of messaging: the outbox it publishes through,    *)
(* and the consumer group that hands it the events of the topics it        *)
(* subscribes to, one goroutine (claim) per topic.                         *)
(*                                                                         *)
(* The relay that copies outbox rows to Kafka and Kafka itself are         *)
(* abstracted to what they guarantee: every committed row reaches every    *)
(* consumer group at least once, in no particular order.  The consumer is  *)
(* modelled step by step: a message is in hand while its handler runs, and *)
(* is marked when the handler returns, whether it returned an error or     *)
(* not.  The idempotency store in Redis is read before the handler and     *)
(* written after it; errors of Redis are ignored, as in the code.          *)
(***************************************************************************)
EXTENDS Events

CONSTANTS
    Topics,     \* the topics the service subscribes to
    FaultKinds, \* the faults of this instance, out of FaultKind
    MaxFaults   \* bound on the faults of one behaviour, of all kinds together

FaultKind == {"redis",      \* a call of the idempotency store fails
              "db",         \* a statement or a commit fails
              "redeliver",  \* Kafka or the outbox relay delivers twice
              "crash"}      \* the process dies and is restarted

ASSUME TopicsAssumption == Topics \subseteq EventType
ASSUME FaultKindsAssumption == FaultKinds \subseteq FaultKind
ASSUME MaxFaultsAssumption == MaxFaults \in Nat

VARIABLES
    outbox, \* the events committed to the outbox tables of all services
    marked, \* the events whose message this consumer group has marked
    idem,   \* the keys this service holds in the idempotency store
    claim,  \* for every topic: the message in hand and where its handler is
    faults  \* how many faults of each kind have happened, in all services

channelVars == <<outbox, marked, idem, claim, faults>>

Idle == [pc |-> "idle", event |-> NoEvent]

ChannelInit ==
    /\ outbox = {}
    /\ marked = {}
    /\ idem = {}
    /\ claim = [t \in Topics |-> Idle]
    /\ faults = [kind \in FaultKind |-> 0]

(* A busy claim holds a committed, unmarked event of its own topic. *)
ClaimsHeld ==
    \A t \in Topics :
        IF claim[t].pc = "idle"
        THEN claim[t].event = NoEvent
        ELSE /\ claim[t].event \in outbox \ marked
             /\ claim[t].event.type = t

(* pcs: the program locations of the service's handlers. *)
ChannelTypeOK(pcs) ==
    /\ outbox \subseteq Event
    /\ marked \subseteq outbox
    /\ idem \subseteq outbox
    /\ claim \in [Topics -> [pc : pcs, event : Event \cup {NoEvent}]]
    /\ faults \in [FaultKind -> Nat]
    /\ ClaimsHeld

Announced(type, o) == \E e \in outbox : e.type = type /\ e.order = o

Fault(kind) ==
    /\ kind \in FaultKinds
    /\ faults.redis + faults.db + faults.redeliver + faults.crash < MaxFaults
    /\ faults' = [faults EXCEPT ![kind] = @ + 1]

(* The faults that stop a handler in the middle. *)
Failures == faults.db + faults.crash

-------------------------------------------------------------------------------
(* The outbox. *)

(* An outbox row committed with a fresh event id. *)
Send(type, o) ==
    \E n \in 1 .. MaxEvents :
        LET ev(k) == [type |-> type, order |-> o, id |-> k] IN
        /\ ev(n) \notin outbox
        /\ \A k \in 1 .. n - 1 : ev(k) \in outbox
        /\ outbox' = outbox \cup {ev(n)}

-------------------------------------------------------------------------------
(* The consumer group. *)

Delivered(t) == {e \in outbox \ marked : e.type = t}

MutantBegin(t, e, pc) == \* the message is marked before it is handled
    /\ claim[t].pc = "idle"
    /\ e \in Delivered(t)
    /\ claim' = [claim EXCEPT ![t] = [pc |-> pc, event |-> e]]
    /\ marked' = marked \cup {e}
    /\ UNCHANGED idem

(* Claim t takes a message and its handler is to continue at pc. *)
Begin(t, e, pc) ==
    /\ claim[t].pc = "idle"
    /\ e \in Delivered(t)
    /\ claim' = [claim EXCEPT ![t] = [pc |-> pc, event |-> e]]
    /\ UNCHANGED <<marked, idem>>

(* IsProcessed answers no: the key is absent, or Redis fails and the error *)
(* is ignored.                                                             *)
NotProcessed(e) ==
    \/ e \notin idem /\ UNCHANGED faults
    \/ e \in idem /\ Fault("redis")

(* The query after it fails.  When the key is held Redis has failed too,   *)
(* and the two failures count as one.                                      *)
QueryFails(e) ==
    /\ e \notin idem \/ "redis" \in FaultKinds
    /\ Fault("db")

Goto(t, pc) ==
    /\ claim' = [claim EXCEPT ![t].pc = pc]
    /\ UNCHANGED <<marked, idem>>

MarkMessage(t, e) ==
    /\ marked' = marked \cup {e}
    /\ claim' = [claim EXCEPT ![t] = Idle]

(* IsProcessed answers yes: the message is marked without being handled. *)
Skip(t, e) ==
    /\ claim[t].pc = "idle"
    /\ e \in Delivered(t) \cap idem
    /\ MarkMessage(t, e)
    /\ UNCHANGED <<outbox, idem, faults>>

(* The handler succeeded: the key is reserved, unless Redis fails (the     *)
(* error is ignored), and the message is marked.                           *)
Finish(t) ==
    /\ claim[t].pc = "finish"
    /\ \/ idem' = idem \cup {claim[t].event} /\ UNCHANGED faults
       \/ Fault("redis") /\ UNCHANGED idem
    /\ MarkMessage(t, claim[t].event)
    /\ UNCHANGED outbox

MutantDrop(t) == \* the message is not marked, so that it is tried again
    /\ claim[t].pc = "drop"
    /\ claim' = [claim EXCEPT ![t] = Idle]
    /\ UNCHANGED <<outbox, marked, idem, faults>>

(* The handler returned an error: it is logged and the message is marked   *)
(* all the same; the key is not reserved.                                  *)
Drop(t) ==
    /\ claim[t].pc = "drop"
    /\ MarkMessage(t, claim[t].event)
    /\ UNCHANGED <<outbox, idem, faults>>

(* A database call fails and the handler returns its error. *)
Fail(t) ==
    /\ Fault("db")
    /\ Goto(t, "drop")
    /\ UNCHANGED outbox

(* A message that was marked comes again: the relay published its row      *)
(* twice, or its offset was not committed before a rebalance.              *)
Redeliver(e) ==
    /\ e \in marked
    /\ Fault("redeliver")
    /\ marked' = marked \ {e}
    /\ UNCHANGED <<outbox, idem, claim>>

(* The process restarts: what was in hand is delivered again, and so is    *)
(* any part of what was marked but not yet committed.                      *)
CrashClaims ==
    /\ Fault("crash")
    /\ \E lost \in SUBSET marked : marked' = marked \ lost
    /\ claim' = [t \in Topics |-> Idle]
    /\ UNCHANGED <<outbox, idem>>

-------------------------------------------------------------------------------
(* The other services, as this one sees them: they may commit one of the   *)
(* events of foreign, and may spend faults of the common budget.           *)
Elsewhere(foreign) ==
    /\ \/ \E e \in foreign :
             /\ \A k \in 1 .. e.id - 1 : [e EXCEPT !.id = k] \in outbox
             /\ outbox' = outbox \cup {e}
       \/ UNCHANGED outbox
    /\ \/ \E kind \in FaultKinds : Fault(kind)
       \/ UNCHANGED faults
    /\ UNCHANGED <<marked, idem, claim>>

===============================================================================
