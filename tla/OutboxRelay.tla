------------------------------ MODULE OutboxRelay -----------------------------
(***************************************************************************)
(* The outbox relay: a worker in every instance of a service polls the     *)
(* service's outbox table, publishes the pending rows to Kafka one after   *)
(* the other and marks each of them sent.  Nothing ties the three steps    *)
(* together, a row that fails is passed over until the next poll, and the  *)
(* workers of two instances do not exclude each other.                     *)
(*                                                                         *)
(* A row stands for its created_at, the order in which a poll returns the  *)
(* rows.  It is taken when the transaction begins, so rows may be          *)
(* committed in another order.  All rows go to one topic of one partition. *)
(***************************************************************************)
EXTENDS Integers, Sequences, FiniteSets

CONSTANTS
    Rows,        \* the rows of the outbox table
    Workers,     \* the workers that poll the table, one per instance
    Limit,       \* the LIMIT of a poll
    MishapKinds, \* the mishaps of this instance, out of MishapKind
    MaxMishaps   \* bound on the mishaps of one behaviour

MishapKind == {"publish",   \* SendMessage returns an error
               "markSent",  \* the update of the row fails
               "relayDies", \* the process of a worker dies
               "redis", "db", "commit", "rebalance", "crash"} \* see Messaging

ASSUME RowsAssumption == Rows \subseteq Nat /\ IsFiniteSet(Rows)
ASSUME WorkersAssumption == IsFiniteSet(Workers)
ASSUME LimitAssumption == Limit \in Nat \ {0}
ASSUME MishapKindsAssumption == MishapKinds \subseteq MishapKind
ASSUME MaxMishapsAssumption == MaxMishaps \in Nat

VARIABLES
    committed, \* the rows that are committed to the outbox table
    sent,      \* those of them with status SENT
    worker,    \* where every worker is, and the rest of the batch it polled
    log,       \* the messages of the partition, in the order of their offsets
    mishaps    \* how many mishaps there were

relayVars == <<committed, sent, worker, log, mishaps>>

NextTick == [pc |-> "poll", batch |-> {}]

RelayInit ==
    /\ committed = {}
    /\ sent = {}
    /\ worker = [w \in Workers |-> NextTick]
    /\ log = <<>>
    /\ mishaps = 0

RelayTypeOK ==
    /\ committed \subseteq Rows
    /\ sent \subseteq committed
    /\ worker \in [Workers -> [pc : {"poll", "publish", "mark"}, batch : SUBSET committed]]
    /\ \A w \in Workers : worker[w].pc = "poll" <=> worker[w].batch = {}
    /\ log \in Seq(Rows)
    /\ mishaps \in Nat

Mishap(kind) ==
    /\ kind \in MishapKinds
    /\ mishaps < MaxMishaps
    /\ mishaps' = mishaps + 1

Published == {log[i] : i \in DOMAIN log}

-------------------------------------------------------------------------------
(* A transaction of the service commits a row. *)
CommitRow(r) ==
    /\ r \in Rows \ committed
    /\ committed' = committed \cup {r}
    /\ UNCHANGED <<sent, worker, log, mishaps>>

(* The Limit oldest rows that are pending. *)
FindPending ==
    LET pending == committed \ sent
    IN  {r \in pending : Cardinality({p \in pending : p < r}) < Limit}

(* The query of a tick.  A query that fails or finds nothing changes       *)
(* nothing until the next tick.                                            *)
Poll(w) ==
    /\ worker[w].pc = "poll"
    /\ FindPending # {}
    /\ worker' = [worker EXCEPT ![w] = [pc |-> "publish", batch |-> FindPending]]
    /\ UNCHANGED <<committed, sent, log, mishaps>>

(* The row whose turn it is in the loop over the batch. *)
Oldest(batch) == CHOOSE r \in batch : \A p \in batch : r <= p

(* The loop goes on to the next row, or the tick ends. *)
Continue(w) ==
    LET rest == worker[w].batch \ {Oldest(worker[w].batch)}
    IN  worker' = [worker EXCEPT ![w] =
                     IF rest = {} THEN NextTick ELSE [pc |-> "publish", batch |-> rest]]

MutantPublish(w) == \* the message is sent asynchronously and never arrives
    /\ worker[w].pc = "publish"
    /\ worker' = [worker EXCEPT ![w].pc = "mark"]
    /\ UNCHANGED <<committed, sent, log, mishaps>>

Publish(w) ==
    /\ worker[w].pc = "publish"
    /\ log' = Append(log, Oldest(worker[w].batch))
    /\ worker' = [worker EXCEPT ![w].pc = "mark"]
    /\ UNCHANGED <<committed, sent, mishaps>>

(* The row is passed over.  The broker may have written the message before *)
(* the error.                                                              *)
PublishFails(w) ==
    /\ worker[w].pc = "publish"
    /\ Mishap("publish")
    /\ log' \in {log, Append(log, Oldest(worker[w].batch))}
    /\ Continue(w)
    /\ UNCHANGED <<committed, sent>>

MarkSent(w) ==
    /\ worker[w].pc = "mark"
    /\ sent' = sent \cup {Oldest(worker[w].batch)}
    /\ Continue(w)
    /\ UNCHANGED <<committed, log, mishaps>>

(* The error is logged: the row stays pending and is published again. *)
MarkSentFails(w) ==
    /\ worker[w].pc = "mark"
    /\ Mishap("markSent")
    /\ Continue(w)
    /\ UNCHANGED <<committed, sent, log>>

WorkerDies(w) ==
    /\ worker[w].pc # "poll"
    /\ Mishap("relayDies")
    /\ worker' = [worker EXCEPT ![w] = NextTick]
    /\ UNCHANGED <<committed, sent, log>>

(* One tick of the worker, step by step. *)
Tick(w) == Poll(w) \/ Publish(w) \/ MarkSent(w)

RelayFails(w) == PublishFails(w) \/ MarkSentFails(w) \/ WorkerDies(w)

RelayNext ==
    \/ \E r \in Rows : CommitRow(r)
    \/ \E w \in Workers : Tick(w) \/ RelayFails(w)

RelaySpec == RelayInit /\ [][RelayNext]_relayVars

-------------------------------------------------------------------------------
(* Properties. *)

(* A row is marked sent only when its message is in the partition, and     *)
(* nothing is in the partition that was not committed, whatever fails or   *)
(* dies between the publication and the update, in any worker.             *)
SentIsPublished == sent \subseteq Published /\ Published \subseteq committed

===============================================================================
