------------------------------- MODULE Messaging ------------------------------
(***************************************************************************)
(* One event on its whole way: a row of the inventory service's outbox,    *)
(* the relay, the partition of the topic stock.reserved, the consumer      *)
(* group of the delivery service with its offsets and sessions, and the    *)
(* handler.  It shows what Channel takes for granted: seen through the     *)
(* offsets, this system is the DeliveryService of the other modules.       *)
(*                                                                         *)
(* An order has one StockReserved, so the order stands for the row.        *)
(***************************************************************************)
EXTENDS OutboxRelay, Events

CONSTANT Buffer \* the capacity of the channel behind claim.Messages()

ASSUME RowsAreOrders == Rows = Orders
ASSUME BufferAssumption == Buffer \in Nat \ {0}

VARIABLES
    offset,     \* how many messages the group has committed as consumed
    fetched,    \* how many messages have entered the channel
    taken,      \* how many of them the loop has taken out
    mark,       \* how many the loop has marked
    session,    \* "live", or "ending" once its context is canceled
    claim,      \* the message in hand and where its handler is
    idem,       \* the orders whose event is in the idempotency store
    deliveries, \* the orders that have a row in the deliveries table
    outbox,     \* the events committed to the delivery service's outbox
    again,      \* history: the orders whose message was taken again, not yet marked
    faults      \* history: the faults the delivery service has seen, by kind

tableVars == <<committed, sent, worker, log>> \* the relay's side
groupVars == <<offset, fetched, taken, mark, session>>
handlerVars == <<idem, deliveries, outbox>>
consumerVars == <<groupVars, claim, handlerVars, again, faults>>
vars == <<relayVars, consumerVars>>

(* The faults that DeliveryService knows. *)
FaultKind == {"redis", "db", "redeliver", "crash"}

EventOf(o) == [type |-> StockReserved, order |-> o, id |-> 1]

NothingInHand == [pc |-> "idle", order |-> NoEvent]

Init ==
    /\ RelayInit
    /\ offset = 0 /\ fetched = 0 /\ taken = 0 /\ mark = 0
    /\ session = "live"
    /\ claim = NothingInHand
    /\ idem = {} /\ deliveries = {} /\ outbox = {}
    /\ again = {}
    /\ faults = [kind \in FaultKind |-> 0]

Below(n) == {log[i] : i \in 1 .. n} \* the orders of the first n messages

Marked == Below(mark) \ again

(* The offsets are ordered, and a message in hand is the last one taken. *)
TypeOK ==
    /\ RelayTypeOK
    /\ {offset, fetched, taken, mark} \subseteq Nat
    /\ offset <= mark /\ mark <= taken /\ taken <= fetched
    /\ fetched <= Len(log) /\ fetched - taken <= Buffer
    /\ session \in {"live", "ending"}
    /\ IF taken = mark
       THEN claim = NothingInHand
       ELSE /\ claim \in [pc : {"received", "finish", "drop"}, order : Orders \ Marked]
            /\ taken = mark + 1
            /\ claim.order = log[taken]
    /\ idem \subseteq deliveries /\ deliveries \subseteq Orders
    /\ outbox \subseteq Event
    /\ again \subseteq Published
    /\ faults \in [FaultKind -> Nat]

Seen(kind) == faults' = [faults EXCEPT ![kind] = @ + 1]

(* A mishap of the consumer's side, or none. *)
Fault(kind) == Mishap(kind) /\ Seen(kind)
NoFault == UNCHANGED <<mishaps, faults>>

-------------------------------------------------------------------------------
(* The client of the consumer group. *)

(* A message enters the channel. *)
Fetch ==
    /\ session = "live"
    /\ fetched < Len(log) /\ fetched - taken < Buffer
    /\ fetched' = fetched + 1
    /\ UNCHANGED <<relayVars, offset, taken, mark, session, claim, handlerVars,
                   again, faults>>

MutantReceive == \* the message is marked before the handler is called
    /\ claim.pc = "idle"
    /\ taken < fetched
    /\ taken' = taken + 1
    /\ mark' = taken + 1
    /\ claim' = [pc |-> "received", order |-> log[taken + 1]]
    /\ UNCHANGED <<relayVars, offset, fetched, session, handlerVars, again, faults>>

(* The loop takes the next message, also after the context of the session  *)
(* was canceled: what is in the channel is still handed out.               *)
Receive ==
    /\ claim.pc = "idle"
    /\ taken < fetched
    /\ taken' = taken + 1
    /\ LET o == log[taken + 1] IN
          /\ claim' = [pc |-> "received", order |-> o]
          /\ \/ o \in Marked /\ again' = again \cup {o} /\ Seen("redeliver")
             \/ o \notin Marked /\ UNCHANGED <<again, faults>>
    /\ UNCHANGED <<relayVars, offset, fetched, mark, session, handlerVars>>

MarkMessage ==
    /\ mark' = taken
    /\ again' = again \ {claim.order}
    /\ claim' = NothingInHand
    /\ UNCHANGED <<offset, fetched, taken, session>>

(* The library commits the marked offset from time to time. *)
AutoCommit ==
    /\ offset < mark
    /\ offset' = mark
    /\ UNCHANGED <<relayVars, fetched, taken, mark, session, claim, handlerVars,
                   again, faults>>

(* A rebalance, an error of the broker or a shutdown ends the session: its *)
(* context is canceled at once.                                            *)
Rebalance ==
    /\ session = "live"
    /\ Mishap("rebalance")
    /\ session' = "ending"
    /\ UNCHANGED <<tableVars, offset, fetched, taken, mark, claim, handlerVars,
                   again, faults>>

MutantResumeAt(n) == \* Offsets.Initial = OffsetNewest, and no offset is found
    /\ offset' = Len(log)
    /\ fetched' = Len(log) /\ taken' = Len(log) /\ mark' = Len(log)
    /\ session' = "live"
    /\ claim' = NothingInHand

(* A session begins at the committed offset. *)
ResumeAt(n) ==
    /\ offset' = n
    /\ fetched' = n /\ taken' = n /\ mark' = n
    /\ session' = "live"
    /\ claim' = NothingInHand

(* When the channel is drained the marked offset is committed, which may   *)
(* fail, and the next session begins.                                      *)
EndSession ==
    /\ session = "ending"
    /\ claim.pc = "idle"
    /\ taken = fetched
    /\ \/ ResumeAt(mark) /\ NoFault
       \/ offset < mark /\ ResumeAt(offset) /\ Mishap("commit") /\ Seen("crash")
    /\ UNCHANGED <<tableVars, handlerVars, again>>

Crash ==
    /\ Fault("crash")
    /\ ResumeAt(offset)
    /\ UNCHANGED <<tableVars, handlerVars, again>>

-------------------------------------------------------------------------------
(* The handler of the delivery service, as in DeliveryService. *)

Received(o) == claim.pc = "received" /\ claim.order = o

Goto(pc) ==
    /\ claim' = [claim EXCEPT !.pc = pc]
    /\ UNCHANGED <<groupVars, again>>

Skip(o) ==
    /\ Received(o) /\ session = "live"
    /\ o \in idem
    /\ MarkMessage /\ NoFault
    /\ UNCHANGED <<tableVars, handlerVars>>

FindByIdempotencyKey(o) == o \in deliveries

CreateDelivery(o) == deliveries' = deliveries \cup {o}

(* The transaction that starts the delivery, unless there is one already. *)
MutantStartDelivery(o) == \* the delivery is not looked for
    /\ CreateDelivery(o)
    /\ \E n \in 1 .. MaxEvents :
          LET started == [type |-> DeliveryStarted, order |-> o, id |-> n] IN
          started \notin outbox /\ outbox' = outbox \cup {started}

StartDelivery(o) ==
    \/ /\ ~ FindByIdempotencyKey(o)
       /\ CreateDelivery(o)
       /\ outbox' = outbox \cup {[type |-> DeliveryStarted, order |-> o, id |-> 1]}
    \/ FindByIdempotencyKey(o) /\ UNCHANGED <<deliveries, outbox>>

Handle(o) ==
    /\ Received(o) /\ session = "live"
    /\ \/ o \notin idem /\ NoFault
       \/ o \in idem /\ Fault("redis")
    /\ StartDelivery(o)
    /\ Goto("finish")
    /\ UNCHANGED <<tableVars, idem>>

(* A statement fails; when the key is held Redis has failed too, and the   *)
(* two failures count as one.                                              *)
HandleFails(o) ==
    /\ Received(o) /\ session = "live"
    /\ o \notin idem \/ "redis" \in MishapKinds
    /\ Fault("db")
    /\ Goto("drop")
    /\ UNCHANGED <<tableVars, handlerVars>>

(* With a canceled context every call of Redis and of the database fails:  *)
(* no key is found, the handler returns an error, and the message is       *)
(* marked all the same.                                                    *)
HandleCanceled(o) ==
    /\ Received(o) /\ session = "ending"
    /\ Goto("drop") /\ Seen("db")
    /\ UNCHANGED <<relayVars, handlerVars>>

(* The key is reserved, unless Redis fails or the context is canceled. *)
Finish ==
    /\ claim.pc = "finish"
    /\ MarkMessage
    /\ \/ session = "live" /\ idem' = idem \cup {claim.order} /\ NoFault
       \/ session = "live" /\ Fault("redis") /\ UNCHANGED idem
       \/ session = "ending" /\ Seen("redis") /\ UNCHANGED <<idem, mishaps>>
    /\ UNCHANGED <<tableVars, deliveries, outbox>>

Drop ==
    /\ claim.pc = "drop"
    /\ MarkMessage /\ NoFault
    /\ UNCHANGED <<tableVars, handlerVars>>

-------------------------------------------------------------------------------
Consume ==
    \/ Receive
    \/ \E o \in Orders : Skip(o) \/ Handle(o) \/ HandleCanceled(o)
    \/ Finish \/ Drop
    \/ EndSession

ConsumerFails == (\E o \in Orders : HandleFails(o)) \/ Rebalance \/ Crash

Relay == RelayNext /\ UNCHANGED consumerVars

Next == Relay \/ Fetch \/ Consume \/ AutoCommit \/ ConsumerFails

Spec == Init /\ [][Next]_vars

(* The workers tick, the client fetches and the loop goes on as long as    *)
(* their processes are up.                                                 *)
Fairness ==
    /\ \A w \in Workers : WF_vars(Tick(w) /\ UNCHANGED consumerVars)
    /\ WF_vars(Fetch)
    /\ WF_vars(Consume)

FairSpec == Spec /\ Fairness

-------------------------------------------------------------------------------
(* Properties. *)

(* What is below the committed offset is never handed out again, so it has *)
(* to be delivered, whatever crashed or was rebalanced: at most one message *)
(* is lost for every handler that a database error or a canceled context    *)
(* stopped.                                                                 *)
SkippedOnlyOnFailure ==
    Cardinality(Below(offset) \ deliveries) <= faults.db

(* Every committed StockReserved is delivered in the end, through failing  *)
(* publications, failing updates and crashes on both sides, unless a        *)
(* handler was stopped.                                                     *)
ReservedIsDelivered ==
    \A o \in Orders : o \in committed ~> o \in deliveries \/ faults.db > 0

(* How long the partition may become: every worker publishes a row once,   *)
(* and once more per mishap.                                               *)
LongestLog == Cardinality(Workers) * Cardinality(Rows) + MaxMishaps

(* A number of faults that no behaviour reaches: a session sees at most    *)
(* two of every message, and every session after the first is a mishap.    *)
EnoughFaults == 2 * (1 + MaxMishaps) * (1 + LongestLog)

EventsOf(os) == {EventOf(o) : o \in os}

(* The claim, as Channel knows it: it takes the message when its handler   *)
(* is called.                                                              *)
ClaimOfHandler ==
    [t \in DeliveryTopics |->
        IF claim.pc \in {"finish", "drop"}
        THEN [pc |-> claim.pc, event |-> EventOf(claim.order)]
        ELSE [pc |-> "idle", event |-> NoEvent]]

(* Seen through the marked messages this is the DeliveryService over an    *)
(* abstract Channel: the relay and the group deliver every row at least     *)
(* once, and again only after a fault that Channel knows.                   *)
Service ==
    INSTANCE DeliveryService WITH
        Topics <- DeliveryTopics,
        FaultKinds <- FaultKind,
        MaxFaults <- EnoughFaults,
        outbox <- EventsOf(committed) \cup outbox,
        marked <- EventsOf(Marked),
        idem <- EventsOf(idem),
        claim <- ClaimOfHandler

ServiceImplemented == Service!Spec

(* However often the message comes, the delivery is announced once. *)
DeliveryAnnounced == Service!DeliveryAnnounced

-------------------------------------------------------------------------------
(* What the documentation promises and the code does not keep. *)

(* ARCHITECTURE, outbox pattern: delivery at least once. *)
AtLeastOnce == \A o \in Orders : o \in committed ~> o \in deliveries

===============================================================================
