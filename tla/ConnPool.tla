-------------------------------- MODULE ConnPool ------------------------------
(***************************************************************************)
(* The connection pool of a service's database and those who share it.  A  *)
(* request for a new order holds the connection of its transaction while   *)
(* it asks the pool for a second one, because the order is inserted on the *)
(* pool and not in the transaction; the handlers of events, the relay and  *)
(* the queries use one connection at a time.  database/sql lets a caller   *)
(* wait without a deadline until another one returns a connection.         *)
(*                                                                         *)
(* The payment service has the same shape: its two event handlers, which   *)
(* write the payments table beside their transaction, are the Requests     *)
(* there.                                                                  *)
(***************************************************************************)
EXTENDS Integers, FiniteSets

CONSTANTS
    Conns,    \* the connections, as many as SetMaxOpenConns allows
    Requests, \* those who hold a connection and ask for a second one
    Handlers, \* those who use one connection at a time
    Nobody

Procs == Requests \cup Handlers

ASSUME ConnsAssumption == IsFiniteSet(Conns) /\ Conns # {}
ASSUME ProcsAssumption == IsFiniteSet(Requests) /\ Requests \cap Handlers = {}
ASSUME NobodyAssumption == Nobody \notin Procs

VARIABLES
    pc,   \* where every process is
    owner \* who has the connection

vars == <<pc, owner>>

Waits == {"find", "begin", "insert", "query"} \* asking the pool

Init ==
    /\ pc = [p \in Procs |-> "idle"]
    /\ owner = [c \in Conns |-> Nobody]

Owned(p) == {c \in Conns : owner[c] = p}

(* No connection leaks: who has one is at a place where it needs it, and   *)
(* only an insertion beside an open transaction has two.                   *)
TypeOK ==
    /\ pc \in [Procs -> Waits \cup {"idle", "finding", "inserting", "commit", "querying"}]
    /\ owner \in [Conns -> Procs \cup {Nobody}]
    /\ \A h \in Handlers : pc[h] \in {"idle", "query", "querying"}
    /\ \A c \in Conns :
          owner[c] # Nobody => pc[owner[c]] \notin {"idle", "find", "begin", "query"}
    /\ \A c, d \in Conns :
          owner[c] = owner[d] /\ owner[c] # Nobody /\ c # d =>
              /\ pc[owner[c]] = "inserting"
              /\ \A e \in Conns : owner[e] = owner[c] => e \in {c, d}

-------------------------------------------------------------------------------
Goto(p, place) == pc' = [pc EXCEPT ![p] = place]

(* A request, an event or a tick comes. *)
Arrive(p) ==
    /\ pc[p] = "idle"
    /\ Goto(p, IF p \in Requests THEN "find" ELSE "query")
    /\ UNCHANGED owner

(* What follows when the pool gives out a connection: FindByIdempotencyKey, *)
(* BeginTx, orderRepo.Create, and the statement of a handler.               *)
Granted == [find   |-> "finding",
          begin  |-> "insert",
          insert |-> "inserting",
          query  |-> "querying"]

(* The pool gives out a connection that is free. *)
Acquire(p) ==
    /\ pc[p] \in Waits
    /\ \E c \in Conns :
          /\ owner[c] = Nobody
          /\ owner' = [owner EXCEPT ![c] = p]
    /\ Goto(p, Granted[pc[p]])

Release(p) ==
    \E c \in Conns : owner[c] = p /\ owner' = [owner EXCEPT ![c] = Nobody]

MutantReturn(p) == \* a handler's rows stay open while it asks again
    \/ pc[p] = "finding"   /\ Goto(p, "begin") /\ Release(p)
    \/ pc[p] = "inserting" /\ Goto(p, "commit") /\ Release(p)
    \/ pc[p] = "querying"  /\ Goto(p, "idle") /\ Release(p)
    \/ pc[p] = "querying"  /\ Goto(p, "query") /\ UNCHANGED owner

(* A statement is done and its connection goes back: an order that was     *)
(* found, or an error, ends the request; a handler may have another one.   *)
Return(p) ==
    /\ \/ pc[p] = "finding"   /\ \E place \in {"begin", "idle"} : Goto(p, place)
       \/ pc[p] = "inserting" /\ Goto(p, "commit")
       \/ pc[p] = "querying"  /\ \E place \in {"query", "idle"} : Goto(p, place)
    /\ Release(p)

ReleaseAll(p) == owner' = [c \in Conns |-> IF owner[c] = p THEN Nobody ELSE owner[c]]

Commit(p) ==
    /\ pc[p] = "commit"
    /\ Goto(p, "idle")
    /\ ReleaseAll(p)

MutantGiveUp(p) == \* the deferred Rollback is missing
    /\ p \in Requests /\ pc[p] # "idle"
    /\ Goto(p, "idle")
    /\ UNCHANGED owner

(* The client goes away, which cancels the context of its request, or a    *)
(* statement fails: the request ends and its transaction is rolled back.   *)
GiveUp(p) ==
    /\ p \in Requests /\ pc[p] # "idle"
    /\ Goto(p, "idle")
    /\ ReleaseAll(p)

-------------------------------------------------------------------------------
Step(p) == Return(p) \/ Commit(p)

Next == \E p \in Procs : Arrive(p) \/ Acquire(p) \/ Step(p) \/ GiveUp(p)

Spec == Init /\ [][Next]_vars

(* A statement ends.  A returned connection is handed to a waiting caller  *)
(* chosen at random: nobody is passed over for ever.  Nobody has to arrive *)
(* or to give up.                                                          *)
Fairness == \A p \in Procs : WF_vars(Step(p)) /\ SF_vars(Acquire(p))

FairSpec == Spec /\ Fairness

-------------------------------------------------------------------------------
(* Properties. *)

(* Every connection is held by somebody who waits for another one: nothing *)
(* in the service can go on until a client goes away.                      *)
Wedged == \A c \in Conns : owner[c] # Nobody /\ pc[owner[c]] \in Waits

(* With fewer requests in CreateOrder than connections the pool never      *)
(* wedges, whatever the handlers and the relay do.                         *)
NoWedge ==
    Cardinality({r \in Requests : pc[r] # "idle"}) < Cardinality(Conns) => ~ Wedged

(* Who asks for a connection and never gets one is starved by a pool that  *)
(* wedges again and again: load alone starves nobody.                      *)
StarvedOnlyByWedge ==
    \A p \in Procs : <>[](pc[p] \in Waits) => []<>Wedged

===============================================================================
