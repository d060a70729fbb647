----------------------------- MODULE ConnPoolProofs ---------------------------
(***************************************************************************)
(* The pool's safety, for any number of connections, requests and          *)
(* handlers.                                                               *)
(***************************************************************************)
EXTENDS ConnPool, FiniteSetTheorems, TLAPS

LEMMA InitTypeOK == Init => TypeOK
BY NobodyAssumption, ProcsAssumption DEF Init, TypeOK, Procs, Waits

(* A process that has no connection yet, or only that of its transaction,  *)
(* gets one.                                                               *)
LEMMA AcquireTypeOK ==
    ASSUME TypeOK, NEW p \in Procs, Acquire(p) PROVE TypeOK'
<1>1. p # Nobody /\ pc[p] \in Waits
    BY NobodyAssumption DEF Acquire
<1>2. PICK c \in Conns : owner[c] = Nobody /\ owner' = [owner EXCEPT ![c] = p]
    BY DEF Acquire
<1>3. pc' = [pc EXCEPT ![p] = Granted[pc[p]]]
    BY DEF Acquire, Goto
<1>4. CASE pc[p] = "insert"
  <2>1. Granted[pc[p]] = "inserting" /\ p \notin Handlers
    BY <1>4 DEF Granted, TypeOK
  <2> QED BY <1>1, <1>2, <1>3, <1>4, <2>1 DEF TypeOK, Waits
<1>5. CASE pc[p] \in {"find", "begin", "query"}
  <2>1. \A d \in Conns : owner[d] # p
    BY <1>1, <1>5 DEF TypeOK
  <2>2. Granted[pc[p]] \in {"finding", "insert", "querying"}
    BY <1>5 DEF Granted
  <2>3. p \in Handlers => Granted[pc[p]] = "querying"
    BY <1>5 DEF Granted, TypeOK
  <2> QED BY <1>1, <1>2, <1>3, <2>1, <2>2, <2>3 DEF TypeOK, Waits
<1> QED BY <1>1, <1>4, <1>5 DEF Waits

(* A process that has one connection returns it; an insertion returns one  *)
(* of its two.                                                             *)
LEMMA ReturnTypeOK ==
    ASSUME TypeOK, NEW p \in Procs, Return(p) PROVE TypeOK'
<1>1. p # Nobody
    BY NobodyAssumption
<1>2. PICK c \in Conns : owner[c] = p /\ owner' = [owner EXCEPT ![c] = Nobody]
    BY DEF Return, Release
<1>3. CASE pc[p] = "inserting"
  <2>1. pc' = [pc EXCEPT ![p] = "commit"] /\ p \notin Handlers
    BY <1>3 DEF Return, Goto, TypeOK
  <2>2. \A d, e \in Conns : owner'[d] = p /\ owner'[e] = p => d = e
    BY <1>1, <1>2 DEF TypeOK
  <2> QED BY <1>1, <1>2, <2>1, <2>2 DEF TypeOK, Waits
<1>4. CASE pc[p] \in {"finding", "querying"}
  <2>1. PICK place \in {"idle", "begin", "query"} :
           /\ pc' = [pc EXCEPT ![p] = place]
           /\ p \in Handlers => place \in {"idle", "query"}
    BY <1>4 DEF Return, Goto, TypeOK
  <2>2. \A d \in Conns : owner'[d] # p
    BY <1>1, <1>2, <1>4 DEF TypeOK
  <2> QED BY <1>1, <1>2, <2>1, <2>2 DEF TypeOK, Waits
<1> QED BY <1>3, <1>4 DEF Return

(* A request that ends has no connection left. *)
LEMMA EndTypeOK ==
    ASSUME TypeOK, NEW p \in Procs, Goto(p, "idle"), ReleaseAll(p) PROVE TypeOK'
<1>1. p # Nobody
    BY NobodyAssumption
<1>2. \A d \in Conns : owner'[d] = IF owner[d] = p THEN Nobody ELSE owner[d]
    BY DEF ReleaseAll
<1>3. owner' \in [Conns -> Procs \cup {Nobody}]
    BY DEF ReleaseAll, TypeOK
<1> QED BY <1>1, <1>2, <1>3 DEF Goto, TypeOK, Waits

LEMMA NextTypeOK == TypeOK /\ [Next]_vars => TypeOK'
<1> SUFFICES ASSUME TypeOK, [Next]_vars PROVE TypeOK'
    OBVIOUS
<1>1. ASSUME NEW p \in Procs, Arrive(p) PROVE TypeOK'
  <2>1. \A c \in Conns : owner[c] # p
    BY <1>1, NobodyAssumption DEF TypeOK, Arrive
  <2> QED BY <1>1, <2>1, ProcsAssumption DEF Arrive, Goto, TypeOK, Waits, Procs
<1>2. ASSUME NEW p \in Procs, Commit(p) \/ GiveUp(p) PROVE TypeOK'
    BY <1>2, EndTypeOK DEF Commit, GiveUp
<1>3. CASE UNCHANGED vars
    BY <1>3 DEF vars, TypeOK
<1> QED BY <1>1, <1>2, <1>3, AcquireTypeOK, ReturnTypeOK DEF Next, Step

(* The pool keeps its types, and no connection leaks or is held twice over. *)
THEOREM TypeCorrect == Spec => []TypeOK
BY InitTypeOK, NextTypeOK, PTL DEF Spec

-------------------------------------------------------------------------------
(* A wedged pool gives every connection to a request of its own, so there  *)
(* are as many requests as connections.                                    *)
LEMMA TypesPreventWedge == TypeOK => NoWedge
<1> SUFFICES ASSUME TypeOK, Wedged
             PROVE  Cardinality(Conns)
                       <= Cardinality({r \in Requests : pc[r] # "idle"})
  <2>1. IsFiniteSet({r \in Requests : pc[r] # "idle"})
    BY ProcsAssumption, FS_Subset
  <2> QED BY <2>1, ConnsAssumption, FS_CardinalityType DEF NoWedge
<1> DEFINE Active == {r \in Requests : pc[r] # "idle"}
           f == [c \in Conns |-> owner[c]]
<1>1. \A c \in Conns : owner[c] \in Procs /\ pc[owner[c]] = "insert"
    BY DEF Wedged, TypeOK, Waits
<1>2. f \in [Conns -> Active]
    BY <1>1 DEF TypeOK, Procs
<1>3. \A c, d \in Conns : f[c] = f[d] => c = d
    BY <1>1 DEF Wedged, TypeOK
<1>4. f \in Injection(Conns, Active)
    BY <1>2, <1>3 DEF Injection, IsInjective
<1>5. IsFiniteSet(Active)
    BY ProcsAssumption, FS_Subset
<1> QED BY <1>4, <1>5, ConnsAssumption, FS_Injection DEF ExistsInjection

(* Fewer requests in CreateOrder than connections never wedge the pool,    *)
(* whatever the handlers, the relay and the clients that give up do.       *)
THEOREM FewRequestsNeverWedge == Spec => []NoWedge
BY TypeCorrect, TypesPreventWedge, PTL

===============================================================================
