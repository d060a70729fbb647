----------------------------- MODULE MessagingProofs ----------------------------
(***************************************************************************)
(* The relay's and the consumer group's safety, for every table, any       *)
(* number of workers, any LIMIT, any buffer and any number of mishaps; and *)
(* that the two together are the DeliveryService over an abstract Channel. *)
(***************************************************************************)
EXTENDS Messaging, FiniteSetTheorems, SequenceTheorems, WellFoundedInduction, TLAPS

-------------------------------------------------------------------------------
(* The relay. *)

(* The loop's next row is one of the batch. *)
LEMMA OldestInBatch ==
    ASSUME NEW batch \in SUBSET Rows, batch # {}
    PROVE  Oldest(batch) \in batch
<1> DEFINE R == OpToRel(<, Nat)
<1>1. batch \subseteq Nat
    BY RowsAssumption
<1>2. PICK r \in batch : \A p \in batch : ~ (<<p, r>> \in R)
    BY <1>1, NatLessThanWellFounded, WFMin
<1>3. ASSUME NEW p \in batch PROVE r <= p
  <2>1. p \in Nat /\ r \in Nat
    BY <1>1
  <2>2. p < r => <<p, r>> \in R
    BY <2>1 DEF OpToRel
  <2> HIDE DEF R
  <2> QED BY <1>2, <2>1, <2>2
<1> QED BY <1>3 DEF Oldest

(* A message is added at the end, and nothing else changes in the partition. *)
LEMMA AppendPublishes ==
    ASSUME log \in Seq(Rows), NEW r \in Rows, log' = Append(log, r)
    PROVE  log' \in Seq(Rows) /\ Published' = Published \cup {r}
<1>1. log' \in Seq(Rows) /\ Len(log') = Len(log) + 1 /\ Len(log) \in Nat
    BY AppendProperties, LenProperties
<1> QED BY <1>1 DEF Published

(* What a worker is about to mark is in the partition already. *)
MarkedIsPublished ==
    \A w \in Workers : worker[w].pc = "mark" => Oldest(worker[w].batch) \in Published

RelayIInv == RelayTypeOK /\ SentIsPublished /\ MarkedIsPublished

WorkerState == [pc : {"poll", "publish", "mark"}, batch : SUBSET committed]

LEMMA InitIInv == RelayInit => RelayIInv
BY MaxMishapsAssumption
DEF RelayInit, RelayIInv, RelayTypeOK, SentIsPublished, MarkedIsPublished, NextTick, Published

(* A worker in its loop has a row in hand that is committed. *)
LEMMA InHand ==
    ASSUME RelayTypeOK, NEW w \in Workers, worker[w].pc # "poll"
    PROVE  /\ Oldest(worker[w].batch) \in worker[w].batch
           /\ Oldest(worker[w].batch) \in committed
           /\ committed \subseteq Rows
BY OldestInBatch DEF RelayTypeOK

(* The next row, or the end of the tick. *)
LEMMA ContinueType ==
    ASSUME RelayTypeOK, NEW w \in Workers, Continue(w)
    PROVE  /\ worker' \in [Workers -> WorkerState]
           /\ \A v \in Workers : worker'[v].pc = "poll" <=> worker'[v].batch = {}
           /\ worker'[w].pc # "mark"
           /\ \A v \in Workers : v # w => worker'[v] = worker[v]
<1> DEFINE rest == worker[w].batch \ {Oldest(worker[w].batch)}
           next == IF rest = {} THEN NextTick ELSE [pc |-> "publish", batch |-> rest]
<1>1. worker' = [worker EXCEPT ![w] = next]
    BY DEF Continue
<1>2. next \in WorkerState /\ next.pc # "mark" /\ (next.pc = "poll" <=> next.batch = {})
    BY DEF WorkerState, NextTick, RelayTypeOK
<1> HIDE DEF next
<1> QED BY <1>1, <1>2 DEF RelayTypeOK, WorkerState

LEMMA MishapCounts ==
    ASSUME mishaps \in Nat, NEW kind, Mishap(kind) PROVE mishaps' \in Nat
BY DEF Mishap

-------------------------------------------------------------------------------
(* One lemma for each step. *)

LEMMA CommitRowStep ==
    ASSUME RelayIInv, NEW r \in Rows, CommitRow(r) PROVE RelayIInv'
BY DEF CommitRow, RelayIInv, RelayTypeOK, SentIsPublished, MarkedIsPublished, Published

LEMMA PollStep ==
    ASSUME RelayIInv, NEW w \in Workers, Poll(w) PROVE RelayIInv'
<1>1. FindPending \subseteq committed
    BY DEF FindPending
<1>2. worker' = [worker EXCEPT ![w] = [pc |-> "publish", batch |-> FindPending]]
      /\ FindPending # {}
    BY DEF Poll
<1> QED BY <1>1, <1>2 DEF Poll, RelayIInv, RelayTypeOK, SentIsPublished,
                          MarkedIsPublished, Published

LEMMA PublishStep ==
    ASSUME RelayIInv, NEW w \in Workers, Publish(w) PROVE RelayIInv'
<1> DEFINE r == Oldest(worker[w].batch)
<1>1. r \in committed /\ r \in Rows
    BY InHand DEF Publish, RelayIInv
<1>2. log' \in Seq(Rows) /\ Published' = Published \cup {r}
    BY <1>1, AppendPublishes DEF Publish, RelayIInv, RelayTypeOK
<1>3. worker' = [worker EXCEPT ![w].pc = "mark"] /\ worker[w].pc = "publish"
    BY DEF Publish
<1>4. worker'[w].batch = worker[w].batch
    BY <1>3 DEF RelayIInv, RelayTypeOK
<1>5. RelayTypeOK'
    BY <1>2, <1>3 DEF Publish, RelayIInv, RelayTypeOK
<1>6. SentIsPublished'
    BY <1>1, <1>2 DEF Publish, RelayIInv, SentIsPublished
<1>7. ASSUME NEW v \in Workers, worker'[v].pc = "mark"
      PROVE  Oldest(worker'[v].batch) \in Published'
  <2>1. CASE v = w
    BY <2>1, <1>2, <1>4
  <2>2. CASE v # w
    BY <2>2, <1>2, <1>3, <1>7 DEF RelayIInv, RelayTypeOK, MarkedIsPublished
  <2> QED BY <2>1, <2>2
<1> QED BY <1>5, <1>6, <1>7 DEF RelayIInv, MarkedIsPublished

(* The loop goes on: nothing is sent that was not, or it is published. *)
LEMMA ContinueStep ==
    ASSUME RelayIInv, NEW w \in Workers, Continue(w), worker[w].pc # "poll",
           UNCHANGED committed, mishaps' \in Nat, log' \in Seq(Rows),
           Published \subseteq Published', Published' \subseteq committed,
           sent' \subseteq committed, sent' \subseteq Published'
    PROVE  RelayIInv'
<1>1. RelayTypeOK'
    BY ContinueType DEF RelayIInv, RelayTypeOK, WorkerState
<1>2. SentIsPublished'
    BY DEF SentIsPublished
<1>3. MarkedIsPublished'
    BY ContinueType DEF RelayIInv, MarkedIsPublished
<1> QED BY <1>1, <1>2, <1>3 DEF RelayIInv

LEMMA PublishFailsStep ==
    ASSUME RelayIInv, NEW w \in Workers, PublishFails(w) PROVE RelayIInv'
<1> DEFINE r == Oldest(worker[w].batch)
<1>1. r \in committed /\ r \in Rows
    BY InHand DEF PublishFails, RelayIInv
<1>2. CASE log' = log
    BY <1>2, ContinueStep, MishapCounts
    DEF PublishFails, RelayIInv, RelayTypeOK, SentIsPublished, Published
<1>3. CASE log' = Append(log, r)
  <2>1. log' \in Seq(Rows) /\ Published' = Published \cup {r}
    BY <1>1, <1>3, AppendPublishes DEF RelayIInv, RelayTypeOK
  <2> QED BY <1>1, <2>1, ContinueStep, MishapCounts
          DEF PublishFails, RelayIInv, RelayTypeOK, SentIsPublished
<1> QED BY <1>2, <1>3 DEF PublishFails

LEMMA MarkStep ==
    ASSUME RelayIInv, NEW w \in Workers, MarkSent(w) \/ MarkSentFails(w) PROVE RelayIInv'
<1>1. Oldest(worker[w].batch) \in committed /\ Oldest(worker[w].batch) \in Published
    BY InHand DEF MarkSent, MarkSentFails, RelayIInv, MarkedIsPublished
<1>2. Published' = Published
    BY DEF MarkSent, MarkSentFails, Published
<1> QED BY <1>1, <1>2, ContinueStep, MishapCounts
        DEF MarkSent, MarkSentFails, RelayIInv, RelayTypeOK, SentIsPublished

LEMMA WorkerDiesStep ==
    ASSUME RelayIInv, NEW w \in Workers, WorkerDies(w) PROVE RelayIInv'
<1>1. worker' = [worker EXCEPT ![w] = [pc |-> "poll", batch |-> {}]]
    BY DEF WorkerDies, NextTick
<1>2. mishaps' \in Nat
    BY MishapCounts DEF WorkerDies, RelayIInv, RelayTypeOK
<1> QED BY <1>1, <1>2 DEF WorkerDies, RelayIInv, RelayTypeOK, SentIsPublished,
                          MarkedIsPublished, Published

LEMMA NextIInv == RelayIInv /\ [RelayNext]_relayVars => RelayIInv'
<1> SUFFICES ASSUME RelayIInv, [RelayNext]_relayVars PROVE RelayIInv'
    OBVIOUS
<1>1. CASE UNCHANGED relayVars
    BY <1>1 DEF relayVars, RelayIInv, RelayTypeOK, SentIsPublished, MarkedIsPublished,
                Published
<1> QED BY <1>1, CommitRowStep, PollStep, PublishStep, MarkStep, PublishFailsStep,
           WorkerDiesStep
        DEF RelayNext, Tick, RelayFails

(* Nothing is marked sent that is not in the partition, and nothing is in  *)
(* the partition that was not committed, whatever fails or dies.           *)
THEOREM NoRowIsLost == RelaySpec => []SentIsPublished
BY InitIInv, NextIInv, PTL DEF RelaySpec, RelayIInv
(* The partition only grows at its end. *)
LEMMA RelayGrows ==
    ASSUME RelayIInv, RelayNext
    PROVE  /\ log \in Seq(Rows) /\ log' \in Seq(Rows)
           /\ Len(log) \in Nat /\ Len(log) <= Len(log')
           /\ \A i \in 1 .. Len(log) : log'[i] = log[i]
<1>1. log \in Seq(Rows) /\ Len(log) \in Nat
    BY LenProperties DEF RelayIInv, RelayTypeOK
<1>2. CASE log' = log
    BY <1>1, <1>2
<1>3. ASSUME NEW w \in Workers, worker[w].pc # "poll", log' = Append(log, Oldest(worker[w].batch))
      PROVE  /\ log' \in Seq(Rows) /\ Len(log') = Len(log) + 1
             /\ \A i \in 1 .. Len(log) : log'[i] = log[i]
  <2>1. Oldest(worker[w].batch) \in Rows
    BY <1>3, InHand DEF RelayIInv
  <2> QED BY <1>1, <1>3, <2>1, AppendProperties
<1> QED BY <1>1, <1>2, <1>3
        DEF RelayNext, Tick, RelayFails, CommitRow, Poll, Publish, PublishFails, MarkSent,
            MarkSentFails, WorkerDies

(* A step of the consumer touches of the relay only the count of mishaps. *)
LEMMA ConsumerKeepsRelay ==
    ASSUME RelayIInv, UNCHANGED tableVars, mishaps' \in Nat PROVE RelayIInv'
BY DEF tableVars, RelayIInv, RelayTypeOK, SentIsPublished, MarkedIsPublished, Published

-------------------------------------------------------------------------------
(* The invariant of the whole. *)

(* A handler that succeeded has its delivery. *)
Handled == claim.pc = "finish" => claim.order \in deliveries

(* The outbox of the delivery service has the event of every delivery. *)
Started(o) == [type |-> DeliveryStarted, order |-> o, id |-> 1]

Recorded == outbox = {Started(o) : o \in deliveries}

(* What was marked, or will be although its handler failed, is delivered,  *)
(* except once per failure.                                                *)
Passed == IF claim.pc = "drop" THEN taken ELSE mark

SkipsCounted == Cardinality(Below(Passed) \ deliveries) <= faults.db

(* The consumer's part of it. *)
GroupInv ==
    /\ {offset, fetched, taken, mark} \subseteq Nat
    /\ offset <= mark /\ mark <= taken /\ taken <= fetched
    /\ fetched <= Len(log) /\ fetched - taken <= Buffer
    /\ session \in {"live", "ending"}
    /\ IF taken = mark
       THEN claim = NothingInHand
       ELSE /\ claim \in [pc : {"received", "finish", "drop"}, order : Orders \ Marked]
            /\ taken = mark + 1
            /\ claim.order = log[taken]
    /\ again \subseteq Published

HandlerInv ==
    /\ idem \subseteq deliveries /\ deliveries \subseteq Orders
    /\ outbox \subseteq Event
    /\ faults \in [FaultKind -> Nat]
    /\ Handled /\ Recorded

MInv == RelayIInv /\ GroupInv /\ HandlerInv /\ SkipsCounted

LEMMA MInvIsTyped == MInv => TypeOK
BY DEF MInv, RelayIInv, TypeOK, GroupInv, HandlerInv

LEMMA InitMInv == Init => MInv
<1> SUFFICES ASSUME Init PROVE MInv
    OBVIOUS
<1>1. RelayIInv
    BY InitIInv DEF Init
<1>2. log = <<>> /\ Len(log) = 0
    BY DEF Init, RelayInit
<1>3. Below(0) = {} /\ Marked = {}
    BY DEF Below, Marked, Init
<1>4. GroupInv
    BY <1>2, BufferAssumption DEF Init, GroupInv, NothingInHand
<1>5. HandlerInv
    BY DEF Init, HandlerInv, Handled, Recorded, NothingInHand, FaultKind
<1>6. SkipsCounted
  <2>1. Below(Passed) \ deliveries = {}
    BY <1>3 DEF Init, Passed, NothingInHand
  <2>2. faults.db = 0
    BY DEF Init, FaultKind
  <2> QED BY <2>1, <2>2, FS_EmptySet DEF SkipsCounted
<1> QED BY <1>1, <1>4, <1>5, <1>6 DEF MInv

(* A message in the partition is about an order. *)
LEMMA LogIsOfOrders ==
    ASSUME RelayIInv, GroupInv
    PROVE  /\ Len(log) \in Nat
           /\ \A i \in 1 .. Len(log) : log[i] \in Orders /\ log[i] \in Published
           /\ Below(mark) \subseteq Orders /\ Below(taken) \subseteq Orders
<1>1. log \in Seq(Orders)
    BY RowsAreOrders DEF RelayIInv, RelayTypeOK
<1>2. Len(log) \in Nat /\ DOMAIN log = 1 .. Len(log) /\ \A i \in 1 .. Len(log) : log[i] \in Orders
    BY <1>1, LenProperties, ElementOfSeq
<1> QED BY <1>2 DEF GroupInv, Below, Published

(* What is in hand when the loop waits. *)
LEMMA BusyHandler ==
    ASSUME GroupInv
    PROVE  /\ claim.pc = "idle" <=> taken = mark
           /\ claim.pc # "idle" =>
                 /\ claim \in [pc : {"received", "finish", "drop"}, order : Orders \ Marked]
                 /\ taken = mark + 1 /\ claim.order = log[taken]
                 /\ Below(taken) = Below(mark) \cup {claim.order}
<1>1. claim.pc = "idle" <=> taken = mark
    BY DEF GroupInv, NothingInHand
<1>2. ASSUME claim.pc # "idle" 
      PROVE  /\ claim \in [pc : {"received", "finish", "drop"}, order : Orders \ Marked]
             /\ taken = mark + 1 /\ claim.order = log[taken]
    BY <1>1, <1>2 DEF GroupInv
<1>3. ASSUME claim.pc # "idle" PROVE Below(taken) = Below(mark) \cup {claim.order}
  <2>1. mark \in Nat /\ taken = mark + 1 /\ claim.order = log[taken]
    BY <1>2, <1>3 DEF GroupInv
  <2>2. 1 .. taken = (1 .. mark) \cup {taken}
    BY <2>1
  <2> QED BY <2>1, <2>2 DEF Below
<1> QED BY <1>1, <1>2, <1>3

(* Marking the message in hand. *)
LEMMA MarkMessageMarks ==
    ASSUME RelayIInv, GroupInv, claim.pc # "idle", UNCHANGED log, MarkMessage
    PROVE  /\ Marked' = Marked \cup {claim.order}
           /\ GroupInv'
           /\ Below(mark)' = Below(taken) /\ Passed' = taken
<1>1. /\ claim.order \in Orders /\ Below(taken) = Below(mark) \cup {claim.order}
      /\ claim.order \notin Marked
    BY BusyHandler
<1>2. mark' = taken /\ again' = again \ {claim.order} /\ claim' = NothingInHand
      /\ UNCHANGED <<offset, fetched, taken, session>>
    BY DEF MarkMessage
<1>3. Below(mark)' = Below(taken)
    BY <1>2 DEF Below
<1>4. Marked' = Marked \cup {claim.order}
    BY <1>1, <1>2, <1>3 DEF Marked
<1>5. Published' = Published
    BY DEF Published
<1>6. GroupInv'
    BY <1>2, <1>5 DEF GroupInv
<1> QED BY <1>2, <1>3, <1>4, <1>6 DEF Passed, NothingInHand

(* A session that begins at or below the mark. *)
LEMMA ResumeMarks ==
    ASSUME RelayIInv, GroupInv, UNCHANGED <<log, again>>, NEW n \in {offset, mark}, ResumeAt(n)
    PROVE  /\ Marked' \subseteq Marked
           /\ n = mark => Marked' = Marked
           /\ GroupInv'
           /\ Below(Passed)' \subseteq Below(Passed)
<1>1. n \in Nat /\ n <= mark /\ mark <= taken
    BY DEF GroupInv
<1>2. mark' = n /\ claim' = NothingInHand /\ session' = "live" /\ Passed' = n
    BY DEF ResumeAt, Passed, NothingInHand
<1>3. Below(mark)' = Below(n) /\ Below(Passed)' = Below(n)
    BY <1>2 DEF Below
<1>4. Below(n) \subseteq Below(mark) /\ Below(mark) \subseteq Below(taken)
    BY <1>1 DEF Below, GroupInv
<1>5. GroupInv'
  <2>1. Published' = Published
    BY DEF Published
  <2>2. n <= Len(log) /\ 0 <= Buffer
    BY <1>1, BufferAssumption, LogIsOfOrders DEF GroupInv
  <2> QED BY <1>1, <1>2, <2>1, <2>2 DEF GroupInv, ResumeAt
<1>6. Below(Passed) \in {Below(mark), Below(taken)}
    BY DEF Passed
<1>7. Below(Passed)' \subseteq Below(Passed)
    BY <1>3, <1>4, <1>6
<1>8. Marked' = Below(n) \ again
    BY <1>3 DEF Marked
<1> QED BY <1>4, <1>5, <1>7, <1>8 DEF Marked

-------------------------------------------------------------------------------
(* What is counted. *)

LEMMA SeenCounts ==
    ASSUME faults \in [FaultKind -> Nat], NEW kind \in FaultKind, Seen(kind)
    PROVE  /\ faults' \in [FaultKind -> Nat]
           /\ faults'.db = IF kind = "db" THEN faults.db + 1 ELSE faults.db
BY DEF Seen, FaultKind

(* A step of the consumer commits a mishap at most. *)
Tolerates ==
    /\ UNCHANGED tableVars
    /\ UNCHANGED mishaps \/ \E kind \in MishapKinds : Mishap(kind)

LEMMA ToleratesRelay == ASSUME RelayIInv, Tolerates PROVE RelayIInv' /\ UNCHANGED log
<1>1. mishaps' \in Nat
    BY MishapCounts DEF RelayIInv, RelayTypeOK, Tolerates
<1> QED BY <1>1, ConsumerKeepsRelay DEF Tolerates, tableVars

LEMMA SkippedFinite ==
    ASSUME RelayIInv, GroupInv
    PROVE  IsFiniteSet(Below(Passed) \ deliveries)
           /\ Cardinality(Below(Passed) \ deliveries) \in Nat
<1>1. Below(Passed) \ deliveries \subseteq Orders
    BY LogIsOfOrders DEF Passed
<1> QED BY <1>1, OrdersAssumption, FS_Subset, FS_CardinalityType

(* No message is passed over that was not. *)
LEMMA NothingSkipped ==
    ASSUME MInv, faults'.db \in Nat, faults'.db >= faults.db,
           Below(Passed)' \ deliveries' \subseteq Below(Passed) \ deliveries
    PROVE  SkipsCounted'
<1>1. IsFiniteSet(Below(Passed) \ deliveries)
      /\ Cardinality(Below(Passed) \ deliveries) \in Nat
    BY SkippedFinite DEF MInv
<1>2. /\ Cardinality(Below(Passed)' \ deliveries') \in Nat
      /\ Cardinality(Below(Passed)' \ deliveries') <= Cardinality(Below(Passed) \ deliveries)
    BY <1>1, FS_Subset, FS_CardinalityType
<1>3. faults.db \in Nat /\ Cardinality(Below(Passed) \ deliveries) <= faults.db
    BY DEF MInv, HandlerInv, SkipsCounted, FaultKind
<1> QED BY <1>1, <1>2, <1>3 DEF SkipsCounted

(* One message is passed over, and one failure more is counted. *)
LEMMA OneSkipped ==
    ASSUME MInv, faults'.db = faults.db + 1, NEW o,
           Below(Passed)' \ deliveries' \subseteq (Below(Passed) \ deliveries) \cup {o}
    PROVE  SkipsCounted'
<1> DEFINE S == Below(Passed) \ deliveries
           T == Below(Passed)' \ deliveries'
<1>1. IsFiniteSet(S) /\ Cardinality(S) \in Nat
    BY SkippedFinite DEF MInv
<1>2. faults.db \in Nat /\ Cardinality(S) <= faults.db
    BY DEF MInv, HandlerInv, SkipsCounted, FaultKind
<1>3. T \subseteq S \cup {o}
    OBVIOUS
<1> HIDE DEF S, T
<1>4. /\ IsFiniteSet(S \cup {o})
      /\ Cardinality(S \cup {o}) \in Nat /\ Cardinality(S \cup {o}) <= Cardinality(S) + 1
  <2>1. /\ IsFiniteSet(S \cup {o})
        /\ Cardinality(S \cup {o}) = IF o \in S THEN Cardinality(S) ELSE Cardinality(S) + 1
    BY <1>1, FS_AddElement
  <2> QED BY <1>1, <2>1
<1>5. Cardinality(T) \in Nat /\ Cardinality(T) <= Cardinality(S \cup {o})
    BY <1>3, <1>4, FS_Subset, FS_CardinalityType
<1>6. Cardinality(T) <= faults'.db
    BY <1>1, <1>2, <1>4, <1>5
<1> QED BY <1>6 DEF SkipsCounted, T

-------------------------------------------------------------------------------
(* One lemma for each kind of step. *)

(* A step of the relay. *)
LEMMA RelayKeepsMInv == ASSUME MInv, Relay PROVE MInv'
<1>1. RelayIInv /\ GroupInv /\ HandlerInv /\ SkipsCounted
    BY DEF MInv
<1>2. RelayIInv'
    BY <1>1, NextIInv DEF Relay
<1>3. /\ Len(log) \in Nat /\ Len(log') \in Nat /\ Len(log) <= Len(log')
      /\ log \in Seq(Rows) /\ log' \in Seq(Rows)
      /\ \A i \in 1 .. Len(log) : log'[i] = log[i]
    BY <1>1, RelayGrows, LenProperties DEF Relay
<1>4. UNCHANGED <<offset, fetched, taken, mark, session, claim, again, idem, deliveries,
                  outbox, faults>>
    BY DEF Relay, consumerVars, groupVars, handlerVars
<1>5. /\ {offset, fetched, taken, mark} \subseteq Nat
      /\ mark <= taken /\ taken <= fetched /\ fetched <= Len(log)
    BY <1>1 DEF GroupInv
<1>6. Below(mark)' = Below(mark) /\ Below(taken)' = Below(taken)
  <2>1. ASSUME NEW n \in {mark, taken}
        PROVE  {log'[i] : i \in 1 .. n} = {log[i] : i \in 1 .. n}
    <3>1. \A i \in 1 .. n : log'[i] = log[i]
      BY <1>3, <1>5
    <3> QED BY <3>1
  <2> QED BY <1>4, <2>1 DEF Below
<1>7. Published \subseteq Published'
  <2>1. DOMAIN log = 1 .. Len(log) /\ DOMAIN log' = 1 .. Len(log')
    BY <1>3, LenProperties
  <2>2. DOMAIN log \subseteq DOMAIN log'
    BY <1>3, <2>1
  <2> QED BY <1>3, <2>1, <2>2 DEF Published
<1>8. UNCHANGED Marked
    BY <1>4, <1>6 DEF Marked
<1>9. GroupInv'
  <2>1. taken # mark => log'[taken] = log[taken]
    BY <1>1, <1>3, <1>5 DEF GroupInv
  <2> QED BY <1>1, <1>3, <1>4, <1>5, <1>7, <1>8, <2>1 DEF GroupInv, NothingInHand
<1>10. HandlerInv'
    BY <1>1, <1>4 DEF HandlerInv, Handled, Recorded, Started
<1>11. SkipsCounted'
  <2>1. UNCHANGED Passed /\ UNCHANGED Below(Passed)
    BY <1>4, <1>6 DEF Passed
  <2> QED BY <1>1, <1>4, <2>1 DEF SkipsCounted
<1> QED BY <1>2, <1>9, <1>10, <1>11 DEF MInv

(* The client and the session: the handler does nothing. *)
LEMMA ClientKeepsMInv ==
    ASSUME MInv, Fetch \/ AutoCommit \/ Rebalance PROVE MInv'
<1>1. RelayIInv /\ GroupInv /\ HandlerInv /\ SkipsCounted
    BY DEF MInv
<1>2. Tolerates /\ UNCHANGED <<taken, mark, claim, handlerVars, again, faults>>
    BY DEF Fetch, AutoCommit, Rebalance, Tolerates, relayVars, tableVars, Mishap
<1>3. RelayIInv' /\ UNCHANGED log
    BY <1>1, <1>2, ToleratesRelay
<1>4. UNCHANGED <<Published, Marked, Passed, Below(Passed)>>
    BY <1>2, <1>3 DEF Published, Marked, Below, Passed
<1>5. GroupInv'
  <2>1. Len(log) \in Nat
    BY <1>1, LogIsOfOrders
  <2>2. CASE Fetch
    <3>1. /\ {offset', fetched', taken', mark'} \subseteq Nat
          /\ offset' <= mark' /\ mark' <= taken' /\ taken' <= fetched'
          /\ fetched' <= Len(log') /\ fetched' - taken' <= Buffer
      BY <1>1, <1>2, <1>3, <2>1, <2>2, BufferAssumption DEF GroupInv, Fetch
    <3> QED BY <1>1, <1>2, <1>3, <1>4, <2>2, <3>1 DEF GroupInv, Fetch, NothingInHand
  <2>3. CASE AutoCommit
    BY <1>1, <1>2, <1>3, <1>4, <2>3 DEF GroupInv, AutoCommit, NothingInHand
  <2>4. CASE Rebalance
    BY <1>1, <1>2, <1>3, <1>4, <2>4 DEF GroupInv, Rebalance, NothingInHand
  <2> QED BY <2>2, <2>3, <2>4
<1>6. HandlerInv' /\ SkipsCounted'
    BY <1>1, <1>2, <1>4 DEF HandlerInv, handlerVars, Handled, Recorded, Started, SkipsCounted
<1> QED BY <1>3, <1>5, <1>6 DEF MInv

LEMMA ReceiveKeepsMInv == ASSUME MInv, Receive PROVE MInv'
<1> DEFINE o == log[taken + 1]
<1>1. RelayIInv /\ GroupInv /\ HandlerInv /\ SkipsCounted
    BY DEF MInv
<1>2. RelayIInv' /\ UNCHANGED log
    BY <1>1, ToleratesRelay DEF Receive, Tolerates, relayVars, tableVars
<1>3. /\ UNCHANGED <<offset, fetched, mark, session, handlerVars>>
      /\ taken' = taken + 1 /\ claim' = [pc |-> "received", order |-> o]
      /\ claim.pc = "idle" /\ taken < fetched
    BY DEF Receive
<1>4. \/ again' = again \cup {o} /\ Seen("redeliver")
      \/ o \notin Marked /\ UNCHANGED <<again, faults>>
    BY DEF Receive
<1>5. taken = mark /\ taken \in Nat /\ taken + 1 \in 1 .. Len(log)
    BY <1>1, <1>3, BusyHandler, LogIsOfOrders DEF GroupInv
<1>6. o \in Orders /\ o \in Published
    BY <1>1, <1>5, LogIsOfOrders
<1>7. Published' = Published /\ Below(mark)' = Below(mark) /\ Passed' = Passed
      /\ Below(Passed)' = Below(Passed)
    BY <1>2, <1>3 DEF Published, Below, Passed
<1>8. o \notin Marked'
    BY <1>4, <1>7 DEF Marked
<1>9. again' \subseteq Published'
    BY <1>1, <1>4, <1>6, <1>7 DEF GroupInv
<1>10. GroupInv'
  <2>1. log'[taken'] = o
    BY <1>2, <1>3
  <2> HIDE DEF o
  <2>2. claim' \in [pc : {"received", "finish", "drop"}, order : Orders \ Marked']
    BY <1>3, <1>6, <1>8
  <2>3. /\ {offset', fetched', taken', mark'} \subseteq Nat
        /\ offset' <= mark' /\ mark' <= taken' /\ taken' <= fetched'
        /\ fetched' <= Len(log') /\ fetched' - taken' <= Buffer
        /\ taken' = mark' + 1 /\ taken' # mark'
    BY <1>1, <1>2, <1>3, <1>5, BufferAssumption DEF GroupInv
  <2> QED BY <1>1, <1>3, <1>9, <2>1, <2>2, <2>3 DEF GroupInv
<1>11. faults' \in [FaultKind -> Nat] /\ faults'.db = faults.db
    BY <1>1, <1>4, SeenCounts DEF HandlerInv, FaultKind
<1>12. HandlerInv'
    BY <1>1, <1>3, <1>11 DEF HandlerInv, handlerVars, Handled, Recorded, Started
<1>13. SkipsCounted'
    BY <1>1, <1>3, <1>7, <1>11 DEF SkipsCounted, handlerVars
<1> QED BY <1>2, <1>10, <1>12, <1>13 DEF MInv

(* A session ends, or the process dies. *)
LEMMA ResumeKeepsMInv == ASSUME MInv, EndSession \/ Crash PROVE MInv'
<1>1. RelayIInv /\ GroupInv /\ HandlerInv /\ SkipsCounted
    BY DEF MInv
<1>2. /\ Tolerates /\ UNCHANGED <<handlerVars, again>>
      /\ UNCHANGED faults \/ Seen("crash")
      /\ \E n \in {offset, mark} : ResumeAt(n)
    BY DEF EndSession, Crash, Fault, NoFault, Tolerates, Mishap
<1>3. RelayIInv' /\ UNCHANGED log
    BY <1>1, <1>2, ToleratesRelay
<1>4. GroupInv' /\ Below(Passed)' \subseteq Below(Passed) /\ claim' = NothingInHand
    BY <1>1, <1>2, <1>3, ResumeMarks DEF ResumeAt
<1>5. faults' \in [FaultKind -> Nat] /\ faults'.db = faults.db /\ faults.db \in Nat
    BY <1>1, <1>2, SeenCounts DEF HandlerInv, FaultKind
<1>6. HandlerInv'
    BY <1>1, <1>2, <1>4, <1>5
    DEF HandlerInv, handlerVars, Handled, Recorded, Started, NothingInHand
<1>7. SkipsCounted'
    BY <1>2, <1>4, <1>5, NothingSkipped DEF handlerVars
<1> QED BY <1>3, <1>4, <1>6, <1>7 DEF MInv

(* The handler is at work. *)
LEMMA GotoKeeps ==
    ASSUME RelayIInv, GroupInv, claim.pc # "idle", UNCHANGED log,
           NEW pc \in {"finish", "drop"}, Goto(pc)
    PROVE  /\ GroupInv' /\ UNCHANGED Marked
           /\ claim'.pc = pc /\ claim'.order = claim.order
           /\ Passed' = IF pc = "drop" THEN taken ELSE mark
<1>1. /\ claim \in [pc : {"received", "finish", "drop"}, order : Orders \ Marked]
      /\ taken = mark + 1 /\ taken # mark
    BY BusyHandler DEF GroupInv
<1>2. UNCHANGED <<offset, fetched, taken, mark, session, again, Published, Marked>>
    BY DEF Goto, groupVars, Published, Marked, Below
<1>3. claim' = [pc |-> pc, order |-> claim.order]
    BY <1>1 DEF Goto
<1>4. GroupInv'
    BY <1>1, <1>2, <1>3 DEF GroupInv
<1> QED BY <1>2, <1>3, <1>4 DEF Passed

LEMMA StartsKeepMInv == ASSUME MInv, NEW o \in Orders, Handle(o) PROVE MInv'
<1>1. RelayIInv /\ GroupInv /\ HandlerInv /\ SkipsCounted
    BY DEF MInv
<1>2. /\ Tolerates /\ UNCHANGED idem /\ claim.pc = "received" /\ claim.order = o
      /\ UNCHANGED faults \/ Seen("redis")
      /\ StartDelivery(o) /\ Goto("finish")
    BY DEF Handle, Received, Fault, NoFault, Tolerates, Mishap
<1>3. RelayIInv' /\ UNCHANGED log
    BY <1>1, <1>2, ToleratesRelay
<1>4. /\ GroupInv' /\ claim'.order = o /\ Passed' = mark
    BY <1>1, <1>2, <1>3, GotoKeeps
<1>5. faults' \in [FaultKind -> Nat] /\ faults'.db = faults.db /\ faults.db \in Nat
    BY <1>1, <1>2, SeenCounts DEF HandlerInv, FaultKind
<1>6. deliveries' = deliveries \cup {o} /\ outbox' = outbox \cup {Started(o)}
    BY <1>1, <1>2
    DEF StartDelivery, FindByIdempotencyKey, CreateDelivery, HandlerInv, Recorded, Started
<1>7. Started(o) \in Event
    BY MaxEventsAssumption DEF Started, Event, EventType
<1>8. Recorded'
    BY <1>1, <1>6 DEF HandlerInv, Recorded, Started
<1>9. HandlerInv'
    BY <1>1, <1>2, <1>4, <1>5, <1>6, <1>7, <1>8 DEF HandlerInv, Handled
<1>10. SkipsCounted'
  <2>1. Below(Passed)' = Below(Passed)
    BY <1>2, <1>3, <1>4 DEF Passed, Below, Goto, groupVars
  <2> QED BY <1>5, <1>6, <2>1, NothingSkipped
<1> QED BY <1>3, <1>4, <1>9, <1>10 DEF MInv

(* A handler that fails: its message will be marked. *)
LEMMA FailureKeepsMInv ==
    ASSUME MInv, UNCHANGED handlerVars, Tolerates, claim.pc = "received", Seen("db"),
           Goto("drop")
    PROVE  MInv'
<1>1. RelayIInv /\ GroupInv /\ HandlerInv /\ SkipsCounted
    BY DEF MInv
<1>2. RelayIInv' /\ UNCHANGED log
    BY <1>1, ToleratesRelay
<1>3. GroupInv' /\ Passed' = taken /\ claim'.pc = "drop"
    BY <1>1, <1>2, GotoKeeps
<1>4. faults' \in [FaultKind -> Nat] /\ faults'.db = faults.db + 1
    BY <1>1, SeenCounts DEF HandlerInv, FaultKind
<1>5. HandlerInv'
    BY <1>1, <1>3, <1>4 DEF HandlerInv, handlerVars, Handled, Recorded, Started
<1>6. Below(Passed)' = Below(Passed) \cup {claim.order}
  <2>1. Below(Passed)' = Below(taken) /\ Passed = mark
    BY <1>2, <1>3 DEF Below, Passed
  <2> QED BY <1>1, <2>1, BusyHandler
<1>7. SkipsCounted'
    BY <1>4, <1>6, OneSkipped DEF handlerVars
<1> QED BY <1>2, <1>3, <1>5, <1>7 DEF MInv

(* The message in hand is marked: it was delivered, or has been counted. *)
LEMMA MarkKeepsMInv ==
    ASSUME MInv, Tolerates, claim.pc # "idle", MarkMessage,
           UNCHANGED <<deliveries, outbox>>,
           UNCHANGED faults \/ Seen("redis"),
           UNCHANGED idem \/ (idem' = idem \cup {claim.order} /\ claim.pc = "finish"),
           claim.pc = "drop" \/ claim.order \in deliveries
    PROVE  MInv'
<1>1. RelayIInv /\ GroupInv /\ HandlerInv /\ SkipsCounted
    BY DEF MInv
<1>2. RelayIInv' /\ UNCHANGED log
    BY <1>1, ToleratesRelay
<1>3. GroupInv' /\ Passed' = taken /\ claim' = NothingInHand
    BY <1>1, <1>2, MarkMessageMarks DEF MarkMessage
<1>4. faults' \in [FaultKind -> Nat] /\ faults'.db = faults.db /\ faults.db \in Nat
    BY <1>1, SeenCounts DEF HandlerInv, FaultKind
<1>5. HandlerInv'
    BY <1>1, <1>3, <1>4 DEF HandlerInv, Handled, Recorded, Started, NothingInHand
<1>6. Below(Passed)' \ deliveries' \subseteq Below(Passed) \ deliveries
  <2>1. Below(Passed)' = Below(taken)
    BY <1>2, <1>3 DEF Below, MarkMessage
  <2>2. Below(taken) = Below(mark) \cup {claim.order}
    BY <1>1, BusyHandler
  <2>3. Passed = IF claim.pc = "drop" THEN taken ELSE mark
    BY DEF Passed
  <2> QED BY <2>1, <2>2, <2>3
<1>7. SkipsCounted'
    BY <1>4, <1>6, NothingSkipped
<1> QED BY <1>2, <1>3, <1>5, <1>7 DEF MInv

LEMMA NextMInv == MInv /\ [Next]_vars => MInv'
<1> SUFFICES ASSUME MInv, [Next]_vars PROVE MInv'
    OBVIOUS
<1>1. HandlerInv
    BY DEF MInv
<1>2. ASSUME NEW o \in Orders, Skip(o) PROVE MInv'
  <2>1. claim.order \in deliveries
    BY <1>1, <1>2 DEF Skip, Received, HandlerInv
  <2> QED BY <1>2, <2>1, MarkKeepsMInv DEF Skip, Received, NoFault, Tolerates, handlerVars
<1>3. ASSUME NEW o \in Orders, HandleFails(o) \/ HandleCanceled(o) PROVE MInv'
  <2>1. claim.pc = "received" /\ claim.order = o /\ UNCHANGED handlerVars /\ Tolerates
    BY <1>3
    DEF HandleFails, HandleCanceled, Received, Fault, Tolerates, relayVars, tableVars, Mishap
  <2>2. Goto("drop") /\ Seen("db")
    BY <1>3 DEF HandleFails, HandleCanceled, Fault
  <2> QED BY <2>1, <2>2, FailureKeepsMInv
<1>4. CASE Finish
  <2>1. claim.order \in deliveries
    BY <1>1, <1>4 DEF Finish, HandlerInv, Handled
  <2> QED BY <1>4, <2>1, MarkKeepsMInv DEF Finish, Fault, NoFault, Tolerates, Mishap
<1>5. CASE Drop
    BY <1>5, MarkKeepsMInv DEF Drop, NoFault, Tolerates, handlerVars
<1>6. CASE UNCHANGED vars
  <2>1. RelayIInv' /\ GroupInv' /\ HandlerInv' /\ SkipsCounted'
    BY <1>6 DEF MInv, vars, relayVars, consumerVars, groupVars, handlerVars, RelayIInv, RelayTypeOK,
        SentIsPublished, MarkedIsPublished, Published, GroupInv, HandlerInv, Handled,
        Recorded, Started, SkipsCounted, Passed, Below, Marked, NothingInHand
  <2> QED BY <2>1 DEF MInv
<1> QED BY <1>2, <1>3, <1>4, <1>5, <1>6, RelayKeepsMInv, ClientKeepsMInv, ReceiveKeepsMInv,
           ResumeKeepsMInv, StartsKeepMInv
        DEF Next, Consume, ConsumerFails

LEMMA AlwaysMInv == Spec => []MInv
BY InitMInv, NextMInv, PTL DEF Spec

(* The offsets stay ordered within the partition, the message in hand is   *)
(* the last one that was taken, and no key is held of an order that has no *)
(* delivery.                                                               *)
THEOREM TypeCorrect == Spec => []TypeOK
BY AlwaysMInv, MInvIsTyped, PTL

(* Nothing is lost between the table and the partition, also when the      *)
(* mishaps of the consumer are among those of the relay.                   *)
THEOREM SentPublished == Spec => []SentIsPublished
<1>1. MInv => SentIsPublished
    BY DEF MInv, RelayIInv
<1> QED BY <1>1, AlwaysMInv, PTL

(* Below the committed offset, at most one message is lost for every       *)
(* handler that was stopped.                                               *)
THEOREM SkippedCounted == Spec => []SkippedOnlyOnFailure
<1>1. ASSUME MInv PROVE SkippedOnlyOnFailure
  <2>1. RelayIInv /\ GroupInv /\ offset <= mark /\ mark <= taken
        /\ {offset, mark, taken} \subseteq Nat
    BY <1>1 DEF MInv, GroupInv
  <2>2. Below(offset) \subseteq Below(Passed)
    BY <2>1 DEF Below, Passed
  <2>3. IsFiniteSet(Below(Passed) \ deliveries)
        /\ Cardinality(Below(Passed) \ deliveries) \in Nat
    BY <2>1, SkippedFinite
  <2>4. /\ Cardinality(Below(offset) \ deliveries) \in Nat
        /\ Cardinality(Below(offset) \ deliveries) <= Cardinality(Below(Passed) \ deliveries)
    BY <2>2, <2>3, FS_Subset, FS_CardinalityType
  <2>5. faults.db \in Nat /\ Cardinality(Below(Passed) \ deliveries) <= faults.db
    BY <1>1 DEF MInv, HandlerInv, SkipsCounted, FaultKind
  <2> QED BY <2>3, <2>4, <2>5 DEF SkippedOnlyOnFailure
<1> QED BY <1>1, AlwaysMInv, PTL

-------------------------------------------------------------------------------
(* The whole is the DeliveryService over an abstract Channel. *)

USE DEF StockReserved, DeliveryStarted, Service!StockReserved, Service!DeliveryStarted

Spent == faults.redis + faults.db + faults.redeliver + faults.crash

LEMMA EventsOfSets ==
    /\ \A os, o : EventOf(o) \in EventsOf(os) <=> o \in os
    /\ \A os, o : EventsOf(os \cup {o}) = EventsOf(os) \cup {EventOf(o)}
    /\ \A os, o : EventsOf(os \ {o}) = EventsOf(os) \ {EventOf(o)}
    /\ \A os, e : e \in EventsOf(os) => e.type = StockReserved /\ e.order \in os
    /\ \A os, less : less \subseteq os => EventsOf(less) \subseteq EventsOf(os)
<1>1. \A o, p : EventOf(o) = EventOf(p) => o = p
    BY DEF EventOf
<1>2. \A o : EventOf(o).type = StockReserved /\ EventOf(o).order = o
    BY DEF EventOf
<1> QED BY <1>1, <1>2 DEF EventsOf

LEMMA SameEvents ==
    /\ Service!EventType = EventType /\ Service!Event = Event
    /\ Service!FaultKind = FaultKind /\ Service!DeliveryTopics = DeliveryTopics
    /\ DeliveryTopics = {StockReserved}
    /\ \A o \in Orders : EventOf(o) \in Event /\ Started(o) \in Event
<1>1. Service!EventType = EventType
    BY DEF EventType, Service!EventType, Service!OrderCreated, OrderCreated,
           Service!PaymentCompleted, PaymentCompleted, Service!PaymentFailed, PaymentFailed,
           Service!PaymentRefunded, PaymentRefunded, Service!StockReservationFailed,
           StockReservationFailed, Service!StockRestored, StockRestored,
           Service!DeliveryFailed, DeliveryFailed
<1>2. \A o \in Orders : EventOf(o) \in Event /\ Started(o) \in Event
    BY MaxEventsAssumption DEF EventOf, Started, Event, EventType
<1> QED BY <1>1, <1>2 DEF Event, Service!Event, FaultKind, Service!FaultKind,
                          DeliveryTopics, Service!DeliveryTopics

LEMMA AnnouncedInView ==
    ASSUME Recorded
    PROVE  \A o : /\ Service!Announced(DeliveryStarted, o) <=> o \in deliveries
                  /\ Service!Announced(StockReserved, o) <=> o \in committed
<1>1. \A e \in outbox : e.type = DeliveryStarted /\ e.order \in deliveries
    BY DEF Recorded, Started
<1>2. \A o \in deliveries : Started(o) \in outbox /\ Started(o).type = DeliveryStarted
                            /\ Started(o).order = o
    BY DEF Recorded, Started
<1>3. \A o : EventOf(o).type = StockReserved /\ EventOf(o).order = o
    BY DEF EventOf
<1> QED BY <1>1, <1>2, <1>3, EventsOfSets DEF Service!Announced

(* A delivery is announced once, and exactly when it is in the table,      *)
(* however often the relay publishes and the group hands out its message.  *)
THEOREM AnnouncedOnce == Spec => []DeliveryAnnounced
<1>1. ASSUME Recorded, deliveries \subseteq Orders PROVE DeliveryAnnounced
  <2>1. ASSUME NEW e \in EventsOf(committed) \cup outbox, e.type = DeliveryStarted
        PROVE  e = Started(e.order)
    BY <1>1, <2>1, EventsOfSets DEF Recorded, Started
  <2> QED BY <1>1, <2>1, AnnouncedInView DEF DeliveryAnnounced, Service!DeliveryAnnounced
<1>2. MInv => Recorded /\ deliveries \subseteq Orders
    BY DEF MInv, HandlerInv
<1> QED BY <1>1, <1>2, AlwaysMInv, PTL

LEMMA InitInService == Init => Service!Init
<1> SUFFICES ASSUME Init PROVE Service!Init
    OBVIOUS
<1>1. EventsOf({}) = {} /\ Marked = {}
    BY DEF EventsOf, Marked, Below, Init
<1> QED BY <1>1, SameEvents
        DEF Init, RelayInit, Service!Init, Service!ChannelInit, Service!Idle,
            ClaimOfHandler, NothingInHand

(* A fault that is seen is one of the abstract Channel. *)
LEMMA SeenInService ==
    ASSUME Spent < EnoughFaults, NEW kind \in FaultKind, Seen(kind)
    PROVE  Service!Fault(kind)
BY DEF Spent, Seen, Service!Fault

(* The message in hand, in the view of the service. *)
LEMMA InHandInService ==
    ASSUME MInv, claim.pc # "idle"
    PROVE  /\ EventOf(claim.order) \in Event
           /\ EventOf(claim.order) \in EventsOf(committed)
           /\ EventOf(claim.order) \notin EventsOf(Marked)
           /\ EventOf(claim.order) \in Service!Delivered(StockReserved)
<1>1. claim.order \in Orders \ Marked /\ claim.order = log[taken] /\ taken \in 1 .. Len(log)
  <2>1. taken \in Nat /\ taken = mark + 1 /\ mark \in Nat /\ taken <= Len(log)
        /\ Len(log) \in Nat
    BY BusyHandler, LogIsOfOrders DEF MInv, GroupInv
  <2> QED BY <2>1, BusyHandler DEF MInv
<1>2. claim.order \in committed
    BY <1>1, LogIsOfOrders DEF MInv, RelayIInv, SentIsPublished
<1>3. EventOf(claim.order).type = StockReserved
    BY DEF EventOf
<1> QED BY <1>1, <1>2, <1>3, SameEvents, EventsOfSets DEF Service!Delivered

LEMMA StutterInService ==
    ASSUME UNCHANGED <<committed, outbox, idem, faults, deliveries>>, Marked' = Marked,
           ClaimOfHandler' = ClaimOfHandler
    PROVE  UNCHANGED Service!vars
BY DEF Service!vars, Service!channelVars

-------------------------------------------------------------------------------
(* How long the partition may become. *)

(* The publications of a row by a worker that are done: those that come    *)
(* again cost a mishap.                                                    *)
PublishedBy(w, r) ==
    \/ r \in sent /\ r \notin worker[w].batch
    \/ worker[w].pc = "mark" /\ r = Oldest(worker[w].batch)

Done == {p \in Workers \X Rows : PublishedBy(p[1], p[2])}

LogBounded == Len(log) <= Cardinality(Done) + mishaps /\ mishaps <= MaxMishaps

LEMMA DoneFinite ==
    /\ IsFiniteSet(Workers \X Rows)
    /\ Cardinality(Workers \X Rows) = Cardinality(Workers) * Cardinality(Rows)
    /\ Cardinality(Workers) * Cardinality(Rows) \in Nat
    /\ Done \subseteq Workers \X Rows /\ Done' \subseteq Workers \X Rows
<1>1. /\ IsFiniteSet(Workers \X Rows)
      /\ Cardinality(Workers \X Rows) = Cardinality(Workers) * Cardinality(Rows)
    BY WorkersAssumption, RowsAssumption, FS_Product
<1>2. Cardinality(Workers \X Rows) \in Nat
    BY <1>1, FS_CardinalityType
<1> QED BY <1>1, <1>2 DEF Done

LEMMA DoneChanges ==
    ASSUME NEW x
    PROVE  /\ Cardinality(Done) \in Nat /\ Cardinality(Done') \in Nat
           /\ Done \subseteq Done' => Cardinality(Done) <= Cardinality(Done')
           /\ Done \ {x} \subseteq Done' => Cardinality(Done) <= Cardinality(Done') + 1
           /\ x \notin Done /\ Done \cup {x} \subseteq Done' =>
                 Cardinality(Done) + 1 <= Cardinality(Done')
<1>1. /\ IsFiniteSet(Done) /\ IsFiniteSet(Done')
      /\ Cardinality(Done) \in Nat /\ Cardinality(Done') \in Nat
    BY DoneFinite, FS_Subset, FS_CardinalityType
<1>2. ASSUME Done \subseteq Done' PROVE Cardinality(Done) <= Cardinality(Done')
    BY <1>1, <1>2, FS_Subset
<1>3. ASSUME Done \ {x} \subseteq Done' PROVE Cardinality(Done) <= Cardinality(Done') + 1
  <2>1. Cardinality(Done \ {x}) = IF x \in Done THEN Cardinality(Done) - 1 ELSE Cardinality(Done)
    BY <1>1, FS_RemoveElement
  <2>2. Cardinality(Done \ {x}) <= Cardinality(Done')
    BY <1>1, <1>3, FS_Subset
  <2> QED BY <1>1, <2>1, <2>2
<1>4. ASSUME x \notin Done, Done \cup {x} \subseteq Done'
      PROVE  Cardinality(Done) + 1 <= Cardinality(Done')
  <2>1. Cardinality(Done \cup {x}) = Cardinality(Done) + 1
    BY <1>1, <1>4, FS_AddElement
  <2>2. Cardinality(Done \cup {x}) <= Cardinality(Done')
    BY <1>1, <1>4, FS_Subset
  <2> QED BY <2>1, <2>2
<1> QED BY <1>1, <1>2, <1>3, <1>4

(* What a step of worker w leaves of the other workers. *)
LEMMA OthersDone ==
    ASSUME NEW w \in Workers, sent \subseteq sent',
           \A v \in Workers : v # w => worker'[v] = worker[v],
           NEW r, \A q \in Rows : q # r /\ PublishedBy(w, q) => PublishedBy(w, q)'
    PROVE  Done \ {<<w, r>>} \subseteq Done'
<1>1. ASSUME NEW v \in Workers, v # w, NEW q \in Rows, PublishedBy(v, q)
      PROVE  PublishedBy(v, q)'
    BY <1>1 DEF PublishedBy
<1>2. \A v \in Workers : \A q \in Rows :
         <<v, q>> # <<w, r>> /\ PublishedBy(v, q) => PublishedBy(v, q)'
    BY <1>1
<1> QED BY <1>2 DEF Done

LEMMA RelayBoundsLog ==
    ASSUME RelayIInv, LogBounded, RelayNext PROVE LogBounded'
<1>1. Len(log) \in Nat /\ mishaps \in Nat /\ RelayTypeOK /\ log \in Seq(Rows)
    BY LenProperties DEF RelayIInv, RelayTypeOK
<1>2. ASSUME NEW r \in Rows, CommitRow(r) PROVE LogBounded'
  <2>1. UNCHANGED <<sent, worker, log, mishaps>>
    BY <1>2 DEF CommitRow
  <2>2. Done' = Done
    BY <2>1 DEF Done, PublishedBy
  <2> QED BY <2>1, <2>2 DEF LogBounded
<1>3. ASSUME NEW w \in Workers, Poll(w) PROVE LogBounded'
  <2>1. worker' = [worker EXCEPT ![w] = [pc |-> "publish", batch |-> FindPending]]
        /\ UNCHANGED <<sent, log, mishaps>>
    BY <1>3 DEF Poll
  <2>2. FindPending \cap sent = {}
    BY DEF FindPending
  <2>3. \A v \in Workers : v # w => worker'[v] = worker[v]
    BY <1>1, <2>1 DEF RelayTypeOK
  <2>4. worker'[w] = [pc |-> "publish", batch |-> FindPending] /\ worker[w].pc = "poll"
    BY <1>1, <1>3, <2>1 DEF RelayTypeOK, Poll
  <2>5. \A q \in Rows : PublishedBy(w, q) => PublishedBy(w, q)'
    BY <2>1, <2>2, <2>4 DEF PublishedBy
  <2>6. Done \subseteq Done'
  <3>1. \A v \in Workers : \A q \in Rows : PublishedBy(v, q) => PublishedBy(v, q)'
    BY <2>1, <2>3, <2>5 DEF PublishedBy
  <3> QED BY <3>1 DEF Done
  <2>7. Cardinality(Done) <= Cardinality(Done') /\ Cardinality(Done) \in Nat
        /\ Cardinality(Done') \in Nat
    BY <2>6, DoneChanges
  <2> QED BY <1>1, <2>1, <2>7 DEF LogBounded
<1>4. ASSUME NEW w \in Workers, worker[w].pc # "poll",
             Publish(w) \/ MarkSent(w) \/ RelayFails(w)
      PROVE  LogBounded'
  <2>1. PICK r \in Rows : r = Oldest(worker[w].batch) /\ r \in worker[w].batch
    BY <1>1, <1>4, InHand
  <2>2. /\ \A v \in Workers : v # w => worker'[v] = worker[v]
        /\ sent \subseteq sent'
        /\ \/ worker'[w].batch = worker[w].batch /\ worker'[w].pc = "mark" /\ Publish(w)
           \/ worker'[w].batch = worker[w].batch \ {r} /\ ~ Publish(w)
           \/ worker'[w].batch = {} /\ ~ Publish(w)
    BY <1>1, <1>4, <2>1
    DEF Publish, MarkSent, RelayFails, PublishFails, MarkSentFails, WorkerDies, Continue,
        NextTick, RelayTypeOK
  <2>3. \A q \in Rows : q # r /\ PublishedBy(w, q) => PublishedBy(w, q)'
    BY <2>1, <2>2 DEF PublishedBy
  <2>4. Done \ {<<w, r>>} \subseteq Done'
    BY <2>2, <2>3, OthersDone
  <2>5. log' = Append(log, r) => Len(log') = Len(log) + 1
    BY <1>1, <2>1, AppendProperties
  <2>6. CASE Publish(w)
    <3>1. ~ PublishedBy(w, r)
      BY <2>1, <2>6 DEF PublishedBy, Publish
    <3>2. PublishedBy(w, r)'
      BY <2>1, <2>2, <2>6 DEF PublishedBy, Publish
    <3>3. <<w, r>> \notin Done /\ <<w, r>> \in Done'
      BY <2>1, <3>1, <3>2 DEF Done
    <3>4. Cardinality(Done) + 1 <= Cardinality(Done') /\ Cardinality(Done) \in Nat
          /\ Cardinality(Done') \in Nat
      BY <2>4, <3>3, DoneChanges
    <3> QED BY <1>1, <2>1, <2>5, <2>6, <3>4 DEF Publish, LogBounded
  <2>7. CASE MarkSent(w)
    <3>1. PublishedBy(w, r)'
      BY <2>1, <2>2, <2>7 DEF PublishedBy, MarkSent, Publish
    <3>2. Done \subseteq Done'
      BY <2>1, <2>4, <3>1 DEF Done
    <3>3. Cardinality(Done) <= Cardinality(Done') /\ Cardinality(Done) \in Nat
          /\ Cardinality(Done') \in Nat
      BY <3>2, DoneChanges
    <3> QED BY <1>1, <2>7, <3>3 DEF MarkSent, LogBounded
  <2>8. CASE PublishFails(w)
    <3>1. PublishedBy(w, r) => PublishedBy(w, r)'
      BY <2>1, <2>8 DEF PublishedBy, PublishFails
    <3>2. Done \subseteq Done'
      BY <2>1, <2>4, <3>1 DEF Done
    <3>3. Len(log') <= Len(log) + 1 /\ Len(log') \in Nat
      BY <1>1, <2>1, <2>5, <2>8 DEF PublishFails
    <3>4. Cardinality(Done) <= Cardinality(Done') /\ Cardinality(Done) \in Nat
          /\ Cardinality(Done') \in Nat
      BY <3>2, DoneChanges
    <3> QED BY <1>1, <2>8, <3>3, <3>4, MaxMishapsAssumption
            DEF PublishFails, Mishap, LogBounded
  <2>9. CASE MarkSentFails(w) \/ WorkerDies(w)
    <3>1. /\ Cardinality(Done) <= Cardinality(Done') + 1
          /\ Cardinality(Done) \in Nat /\ Cardinality(Done') \in Nat
      BY <2>4, DoneChanges
    <3>2. UNCHANGED log /\ mishaps' = mishaps + 1 /\ mishaps < MaxMishaps
      BY <2>9 DEF MarkSentFails, WorkerDies, Mishap
    <3> QED BY <1>1, <3>1, <3>2, MaxMishapsAssumption DEF LogBounded
  <2> QED BY <1>4, <2>6, <2>7, <2>8, <2>9 DEF RelayFails
<1> QED BY <1>2, <1>3, <1>4
        DEF RelayNext, Tick, RelayFails, Publish, MarkSent, PublishFails, MarkSentFails,
            WorkerDies

LEMMA LogIsShort ==
    ASSUME RelayIInv, LogBounded
    PROVE  Len(log) <= LongestLog /\ LongestLog \in Nat /\ Len(log) \in Nat
<1>1. Cardinality(Done) \in Nat
      /\ Cardinality(Done) <= Cardinality(Workers) * Cardinality(Rows)
    BY DoneFinite, FS_Subset, FS_CardinalityType
<1>2. Len(log) \in Nat /\ mishaps \in Nat
    BY LenProperties DEF RelayIInv, RelayTypeOK
<1> HIDE DEF Done
<1> QED BY <1>1, <1>2, DoneFinite, MaxMishapsAssumption DEF LogBounded, LongestLog

-------------------------------------------------------------------------------
(* How many faults the service may see. *)

(* A message that was taken may still cost a fault; a session that has     *)
(* begun has cost a mishap, the first one excepted.                        *)
Pending == IF claim.pc \in {"received", "finish"} THEN 1 ELSE 0

Ended == mishaps - (IF session = "ending" THEN 1 ELSE 0)

(* What n new sessions may hand out again. *)
Repeats(n) == LongestLog * n

SpentBounded == Spent + Pending <= 2 * (taken + mishaps + Repeats(Ended))

LEMMA InitBounds == Init => LogBounded /\ SpentBounded
<1> SUFFICES ASSUME Init PROVE LogBounded /\ SpentBounded
    OBVIOUS
<1>1. Len(log) = 0 /\ mishaps = 0
    BY DEF Init, RelayInit
<1>2. LogBounded
    BY <1>1, DoneChanges, MaxMishapsAssumption DEF LogBounded
<1>3. Spent = 0 /\ Pending = 0 /\ taken = 0 /\ Ended = 0
    BY <1>1 DEF Init, Spent, Pending, Ended, NothingInHand, FaultKind
<1>4. LongestLog \in Nat
    BY DoneFinite, MaxMishapsAssumption DEF LongestLog
<1> QED BY <1>1, <1>2, <1>3, <1>4 DEF SpentBounded, Repeats

LEMMA Numbers ==
    ASSUME MInv, LogBounded
    PROVE  /\ Spent \in Nat /\ Pending \in {0, 1} /\ mishaps \in Nat /\ Ended \in Int
           /\ {offset, mark, taken} \subseteq Nat /\ offset <= mark /\ mark <= taken
           /\ taken <= LongestLog /\ LongestLog \in Nat
           /\ Repeats(0) = 0 /\ Repeats(1) = LongestLog /\ Repeats(2) = 2 * LongestLog
<1>1. mishaps \in Nat /\ Len(log) <= LongestLog /\ LongestLog \in Nat /\ Len(log) \in Nat
    BY LogIsShort DEF MInv, RelayIInv, RelayTypeOK
<1>2. Spent \in Nat
    BY DEF MInv, HandlerInv, Spent, FaultKind
<1>3. /\ {offset, mark, taken, fetched} \subseteq Nat /\ offset <= mark /\ mark <= taken
      /\ taken <= fetched /\ fetched <= Len(log)
    BY DEF MInv, GroupInv
<1>4. Repeats(0) = 0 /\ Repeats(1) = LongestLog /\ Repeats(2) = 2 * LongestLog
    BY <1>1 DEF Repeats
<1> QED BY <1>1, <1>2, <1>3, <1>4 DEF Pending, Ended

LEMMA NumbersNext ==
    ASSUME MInv'
    PROVE  Spent' \in Nat /\ Pending' \in {0, 1} /\ mishaps' \in Nat /\ taken' \in Nat
<1>1. mishaps' \in Nat /\ taken' \in Nat /\ faults' \in [FaultKind -> Nat]
    BY DEF MInv, RelayIInv, RelayTypeOK, GroupInv, HandlerInv
<1>2. Spent' \in Nat
    BY <1>1 DEF Spent, FaultKind
<1> QED BY <1>1, <1>2 DEF Pending

(* What a step spends it has taken, or a mishap has paid for it. *)
LEMMA SpentWisely ==
    ASSUME MInv, MInv', LogBounded, LogBounded', SpentBounded, NEW n \in {0, 1, 2},
           Ended' = Ended + n,
           Spent' + Pending'
              <= Spent + Pending + 2 * ((taken' - taken) + (mishaps' - mishaps) + Repeats(n))
    PROVE  SpentBounded'
<1>1. /\ Spent \in Nat /\ Pending \in {0, 1} /\ mishaps \in Nat /\ Ended \in Int
      /\ taken \in Nat /\ LongestLog \in Nat
    BY Numbers
<1>2. Spent' \in Nat /\ Pending' \in {0, 1} /\ mishaps' \in Nat /\ taken' \in Nat
    BY NumbersNext
<1>3. Repeats(Ended + n) = Repeats(Ended) + Repeats(n)
      /\ Repeats(Ended) \in Int /\ Repeats(n) \in Int
    BY <1>1 DEF Repeats
<1>4. Repeats(Ended)' = Repeats(Ended) + Repeats(n)
    BY <1>3 DEF Repeats, LongestLog
<1>5. Spent + Pending <= 2 * (taken + mishaps + Repeats(Ended))
    BY DEF SpentBounded
<1>6. Spent + Pending \in Int /\ Spent' + Pending' \in Int
    BY <1>1, <1>2
<1>7. Spent' + Pending' <= 2 * (taken' + mishaps' + (Repeats(Ended) + Repeats(n)))
    BY <1>1, <1>2, <1>3, <1>5, <1>6
<1> QED BY <1>4, <1>7 DEF SpentBounded

LEMMA SeenSpends ==
    ASSUME MInv
    PROVE  /\ UNCHANGED faults => Spent' = Spent
           /\ \A kind \in FaultKind : Seen(kind) => Spent' = Spent + 1
BY DEF MInv, HandlerInv, Seen, Spent, FaultKind

LEMMA NextBounds ==
    ASSUME MInv, MInv', LogBounded, SpentBounded, [Next]_vars
    PROVE  LogBounded' /\ SpentBounded'
<1>1. RelayIInv
    BY DEF MInv
<1>2. ASSUME Tolerates PROVE LogBounded'
  <2>1. Done' = Done /\ UNCHANGED log
    BY <1>2 DEF Tolerates, tableVars, Done, PublishedBy
  <2>2. mishaps \in Nat /\ Len(log) \in Nat /\ Cardinality(Done) \in Nat
    BY LogIsShort, DoneChanges DEF MInv, RelayIInv, RelayTypeOK
  <2>3. mishaps' = mishaps \/ (mishaps' = mishaps + 1 /\ mishaps < MaxMishaps)
    BY <1>2 DEF Tolerates, Mishap
  <2>4. Len(log') = Len(log) /\ Cardinality(Done') = Cardinality(Done)
    BY <2>1
  <2> QED BY <2>2, <2>3, <2>4, MaxMishapsAssumption DEF LogBounded
<1>3. CASE Relay
  <2>1. LogBounded'
    BY <1>1, <1>3, RelayBoundsLog DEF Relay
  <2>2. UNCHANGED <<taken, session, claim, faults>>
        /\ mishaps' \in {mishaps, mishaps + 1}
    BY <1>3 DEF Relay, consumerVars, groupVars, RelayNext, Tick, RelayFails, CommitRow, Poll,
                Publish, PublishFails, MarkSent, MarkSentFails, WorkerDies, Mishap
  <2>3. PICK n \in {0, 1} : mishaps' = mishaps + n
    BY <2>2, Numbers
  <2>4. Spent' = Spent /\ Pending' = Pending /\ Ended' = Ended + n
    BY <2>2, <2>3, Numbers DEF Spent, Pending, Ended
  <2> QED BY <2>1, <2>2, <2>3, <2>4, SpentWisely, Numbers
<1>4. CASE Fetch \/ AutoCommit \/ Rebalance
  <2>1. /\ Tolerates /\ UNCHANGED <<taken, claim, faults>>
        /\ \/ UNCHANGED <<mishaps, session>>
           \/ mishaps' = mishaps + 1 /\ session = "live" /\ session' = "ending"
    BY <1>4 DEF Fetch, AutoCommit, Rebalance, Tolerates, relayVars, tableVars, Mishap
  <2>2. Spent' = Spent /\ Pending' = Pending /\ Ended' = Ended + 0
        /\ mishaps' \in {mishaps, mishaps + 1}
    BY <2>1, Numbers DEF Spent, Pending, Ended
  <2> QED BY <1>2, <2>1, <2>2, SpentWisely, Numbers, NumbersNext
<1>5. CASE Receive
  <2>1. /\ Tolerates /\ UNCHANGED <<mishaps, session>> /\ taken' = taken + 1
        /\ Pending = 0 /\ Pending' = 1
    BY <1>5 DEF Receive, Tolerates, relayVars, tableVars, Pending
  <2>2. Spent' \in {Spent, Spent + 1}
    BY <1>5, SeenSpends DEF Receive, FaultKind
  <2>3. Ended' = Ended + 0
    BY <2>1, Numbers DEF Ended
  <2> QED BY <1>2, <2>1, <2>2, <2>3, SpentWisely, Numbers
<1>6. ASSUME UNCHANGED <<tableVars, taken, session>>, Pending' <= Pending,
             \/ /\ UNCHANGED mishaps
                /\ Spent' = Spent \/ (Spent' = Spent + 1 /\ Pending = 1 /\ Pending' = 0)
             \/ /\ \E kind \in MishapKinds : Mishap(kind)
                /\ Spent' = Spent + 1
      PROVE  LogBounded' /\ SpentBounded'
  <2>1. Tolerates
    BY <1>6 DEF Tolerates
  <2>2. PICK n \in {0, 1} : /\ mishaps' = mishaps + n
                            /\ Spent' + Pending' <= Spent + Pending + n
    BY <1>6, Numbers DEF Mishap, Pending
  <2>3. Ended' = Ended + n
    BY <1>6, <2>2, Numbers DEF Ended
  <2>4. Repeats(n) \in Nat
    BY Numbers
  <2>5. Spent' + Pending'
           <= Spent + Pending + 2 * ((taken' - taken) + (mishaps' - mishaps) + Repeats(n))
    <3>1. taken' - taken = 0 /\ mishaps' - mishaps = n
      BY <1>6, <2>2, Numbers, NumbersNext
    <3>2. Spent + Pending \in Int /\ Spent' + Pending' \in Int
      BY Numbers, NumbersNext
    <3> QED BY <2>2, <2>4, <3>1, <3>2
  <2> QED BY <1>2, <2>1, <2>3, <2>5, SpentWisely
<1>7. ASSUME NEW o \in Orders, Skip(o) \/ Handle(o) \/ HandleCanceled(o) \/ HandleFails(o)
      PROVE  LogBounded' /\ SpentBounded'
  <2>1. UNCHANGED <<tableVars, taken, session>> /\ Pending = 1 /\ Pending' \in {0, 1}
    BY <1>7 DEF Skip, Handle, HandleCanceled, HandleFails, Received, MarkMessage, Goto,
                groupVars, relayVars, tableVars, Pending
  <2>2. CASE Skip(o) \/ Handle(o) \/ HandleFails(o)
    BY <1>6, <2>1, <2>2, SeenSpends DEF Skip, Handle, HandleFails, Fault, NoFault, FaultKind, Mishap
  <2>3. CASE HandleCanceled(o)
    <3>1. UNCHANGED mishaps /\ Seen("db") /\ Goto("drop")
      BY <2>3 DEF HandleCanceled, relayVars
    <3>2. Spent' = Spent + 1 /\ Pending' = 0
      <4>1. claim.pc = "received"
        BY <2>3 DEF HandleCanceled, Received
      <4>2. claim'.pc = "drop"
        BY <1>1, <3>1, <4>1, GotoKeeps, <2>3 DEF MInv, HandleCanceled, relayVars
      <4> QED BY <3>1, <4>2, SeenSpends DEF Pending, FaultKind
    <3> QED BY <1>6, <2>1, <3>1, <3>2, SeenSpends
  <2> QED BY <1>7, <2>2, <2>3
<1>8. CASE Finish \/ Drop
  <2>1. UNCHANGED <<tableVars, taken, session>> /\ Pending' = 0
    BY <1>8 DEF Finish, Drop, MarkMessage, tableVars, Pending, NothingInHand
  <2>2. CASE Drop
    BY <1>6, <2>1, <2>2, SeenSpends DEF Drop, NoFault, Pending
  <2>3. CASE Finish
    <3>1. Pending = 1
      BY <2>3 DEF Finish, Pending
    <3> QED BY <1>6, <2>1, <2>3, <3>1, SeenSpends
            DEF Finish, Fault, NoFault, FaultKind, Mishap
  <2> QED BY <1>8, <2>2, <2>3
<1>9. CASE EndSession \/ Crash
  <2>1. Tolerates /\ Pending' = 0 /\ session' = "live" /\ taken' \in {offset, mark}
    BY <1>9 DEF EndSession, Crash, Fault, NoFault, ResumeAt, NothingInHand, Pending,
                Tolerates, Mishap
  <2>2. CASE session = "ending" /\ UNCHANGED <<mishaps, faults>> /\ taken' = taken
    <3>1. Spent' = Spent /\ Ended' = Ended + 1
      BY <2>1, <2>2, SeenSpends, Numbers DEF Ended
    <3> QED BY <1>2, <2>1, <2>2, <3>1, SpentWisely, Numbers
  <2>3. CASE mishaps' = mishaps + 1 /\ Seen("crash")
    <3>1. PICK n \in {1, 2} : Ended' = Ended + n
      BY <2>1, <2>3, Numbers DEF Ended
    <3>2. Spent' = Spent + 1
      BY <2>3, SeenSpends DEF FaultKind
    <3>3. taken' \in Nat /\ taken' - taken >= 0 - LongestLog
      BY <2>1, Numbers
    <3>4. Repeats(n) >= LongestLog /\ Repeats(n) \in Int
      BY Numbers
    <3>5. Spent' + Pending'
             <= Spent + Pending + 2 * ((taken' - taken) + (mishaps' - mishaps) + Repeats(n))
      BY <2>1, <2>3, <3>2, <3>3, <3>4, Numbers
    <3> QED BY <1>2, <2>1, <3>1, <3>5, SpentWisely
  <2>4. claim.pc = "idle" => taken = mark
    BY BusyHandler DEF MInv
  <2> QED BY <1>9, <2>2, <2>3, <2>4
          DEF EndSession, Crash, Fault, NoFault, Mishap, ResumeAt
<1>10. CASE UNCHANGED vars
  <2>1. UNCHANGED <<tableVars, taken, session, mishaps>> /\ Pending' = Pending /\ Spent' = Spent
    BY <1>10 DEF vars, relayVars, tableVars, consumerVars, groupVars, Pending, Spent
  <2> QED BY <1>6, <2>1, Numbers
<1> QED BY <1>3, <1>4, <1>5, <1>7, <1>8, <1>9, <1>10 DEF Next, Consume, ConsumerFails

LEMMA BudgetSuffices ==
    ASSUME MInv, LogBounded, SpentBounded PROVE Spent < EnoughFaults
<1>1. Ended <= MaxMishaps /\ MaxMishaps \in Nat /\ mishaps <= MaxMishaps
    BY Numbers, MaxMishapsAssumption DEF Ended, LogBounded
<1>2. /\ Repeats(Ended) <= Repeats(MaxMishaps)
      /\ Repeats(Ended) \in Int /\ Repeats(MaxMishaps) \in Int
  <2>1. \A k \in Nat, a, b \in Int : a <= b => k * a <= k * b
    OBVIOUS
  <2> QED BY <1>1, <2>1, Numbers DEF Repeats
<1>3. EnoughFaults = 2 * (1 + MaxMishaps + LongestLog + Repeats(MaxMishaps))
    BY <1>1, Numbers DEF EnoughFaults, Repeats
<1>4. Spent + Pending <= 2 * (taken + mishaps + Repeats(Ended))
    BY DEF SpentBounded
<1> QED BY <1>1, <1>2, <1>3, <1>4, Numbers

(* One lemma for each kind of step. *)

LEMMA RelayInService ==
    ASSUME MInv, MInv', Relay PROVE [Service!Next]_Service!vars
<1>1. UNCHANGED <<mark, again, claim, idem, deliveries, outbox, faults>>
    BY DEF Relay, consumerVars, groupVars, handlerVars
<1>2. UNCHANGED <<Marked, ClaimOfHandler>>
  <2>1. Len(log) \in Nat /\ mark \in Nat /\ mark <= Len(log)
    BY LogIsOfOrders DEF MInv, GroupInv
  <2>2. \A i \in 1 .. mark : log'[i] = log[i]
    BY <2>1, RelayGrows DEF MInv, Relay
  <2> QED BY <1>1, <2>2 DEF Marked, Below, ClaimOfHandler
<1>3. CASE \E r \in Rows : CommitRow(r)
  <2>1. PICK r \in Rows : CommitRow(r)
    BY <1>3
  <2>2. r \in Orders /\ r \notin committed /\ committed' = committed \cup {r}
    BY <2>1, RowsAreOrders DEF CommitRow
  <2>3. EventOf(r) \in Service!Foreign
    <3>1. ~ Service!Announced(StockReserved, r)
      BY <2>2, AnnouncedInView DEF MInv, HandlerInv
    <3>2. EventOf(r) \in Event /\ EventOf(r).type = StockReserved /\ EventOf(r).order = r
      BY <2>2, SameEvents DEF EventOf
    <3> QED BY <3>1, <3>2, SameEvents DEF Service!Foreign
  <2>4. EventOf(r).id = 1
    BY DEF EventOf
  <2>5. EventsOf(committed') \cup outbox' = EventsOf(committed) \cup outbox \cup {EventOf(r)}
    BY <1>1, <2>2, EventsOfSets
  <2>6. Service!Environment
    BY <1>1, <1>2, <2>3, <2>4, <2>5 DEF Service!Environment, Service!Elsewhere
  <2> QED BY <2>6 DEF Service!Next
<1>4. CASE UNCHANGED committed
    BY <1>1, <1>2, <1>4, StutterInService
<1> QED BY <1>3, <1>4
        DEF Relay, RelayNext, Tick, RelayFails, Poll, Publish, PublishFails, MarkSent,
            MarkSentFails, WorkerDies

LEMMA ClientInService ==
    ASSUME Fetch \/ AutoCommit \/ Rebalance PROVE UNCHANGED Service!vars
<1>1. UNCHANGED <<tableVars, mark, again, claim, handlerVars, faults>>
    BY DEF Fetch, AutoCommit, Rebalance, relayVars, tableVars
<1> QED BY <1>1, StutterInService DEF tableVars, handlerVars, Marked, Below, ClaimOfHandler

LEMMA ReceiveInService ==
    ASSUME MInv, Spent < EnoughFaults, Receive PROVE [Service!Next]_Service!vars
<1> DEFINE o == log[taken + 1]
<1>1. UNCHANGED <<committed, log, mark, idem, deliveries, outbox>>
      /\ claim.pc = "idle" /\ claim'.pc = "received"
    BY DEF Receive, relayVars, handlerVars
<1>2. UNCHANGED ClaimOfHandler
    BY <1>1 DEF ClaimOfHandler
<1>3. CASE o \in Marked /\ again' = again \cup {o} /\ Seen("redeliver")
  <2>1. Marked' = Marked \ {o}
    BY <1>1, <1>3 DEF Marked, Below
  <2>2. EventsOf(Marked') = EventsOf(Marked) \ {EventOf(o)} /\ EventOf(o) \in EventsOf(Marked)
    BY <1>3, <2>1, EventsOfSets
  <2>3. Service!Fault("redeliver")
    BY <1>3, SeenInService DEF FaultKind
  <2>4. Service!Redeliver(EventOf(o)) /\ UNCHANGED deliveries
    BY <1>1, <1>2, <2>2, <2>3 DEF Service!Redeliver
  <2> QED BY <2>2, <2>4 DEF Service!Next, Service!Service, Service!Errors
<1>4. CASE UNCHANGED <<again, faults>>
    BY <1>1, <1>2, <1>4, StutterInService DEF Marked, Below
<1> QED BY <1>3, <1>4 DEF Receive

LEMMA ResumeInService ==
    ASSUME MInv, Spent < EnoughFaults, EndSession \/ Crash
    PROVE  [Service!Next]_Service!vars
<1>1. UNCHANGED <<committed, log, again, idem, deliveries, outbox>>
    BY DEF EndSession, Crash, tableVars, handlerVars
<1>2. CASE ResumeAt(mark) /\ UNCHANGED faults /\ claim.pc = "idle"
  <2>1. Marked' = Marked
    <3>1. PICK n \in {offset, mark} : n = mark /\ ResumeAt(n)
      BY <1>2
    <3>2. RelayIInv /\ GroupInv /\ UNCHANGED <<log, again>>
      BY <1>1 DEF MInv
    <3> QED BY <3>1, <3>2, ResumeMarks
  <2>2. ClaimOfHandler' = ClaimOfHandler
    BY <1>2 DEF ClaimOfHandler, ResumeAt, NothingInHand
  <2> QED BY <1>1, <1>2, <2>1, <2>2, StutterInService
<1>3. CASE ResumeAt(offset) /\ Seen("crash")
  <2>1. Marked' \subseteq Marked
    <3>1. PICK n \in {offset, mark} : ResumeAt(n)
      BY <1>3
    <3>2. RelayIInv /\ GroupInv /\ UNCHANGED <<log, again>>
      BY <1>1 DEF MInv
    <3> QED BY <3>1, <3>2, ResumeMarks
  <2>2. EventsOf(Marked') \subseteq EventsOf(Marked)
    BY <2>1, EventsOfSets
  <2>3. \E lost \in SUBSET EventsOf(Marked) : EventsOf(Marked') = EventsOf(Marked) \ lost
    <3>1. EventsOf(Marked') = EventsOf(Marked) \ (EventsOf(Marked) \ EventsOf(Marked'))
      BY <2>2
    <3> QED BY <3>1
  <2>4. ClaimOfHandler' = [t \in DeliveryTopics |-> Service!Idle]
    BY <1>3 DEF ClaimOfHandler, ResumeAt, NothingInHand, Service!Idle
  <2>5. Service!Fault("crash")
    BY <1>3, SeenInService DEF FaultKind
  <2>6. Service!CrashClaims /\ UNCHANGED deliveries
    BY <1>1, <2>3, <2>4, <2>5 DEF Service!CrashClaims
  <2> QED BY <2>6 DEF Service!Next, Service!Service, Service!Errors
<1> QED BY <1>2, <1>3 DEF EndSession, Crash, Fault, NoFault

(* The handler: the claim takes the message and is at pc. *)
LEMMA BeginInService ==
    ASSUME MInv, claim.pc = "received", UNCHANGED <<log, idem>>,
           NEW pc \in {"finish", "drop"}, Goto(pc)
    PROVE  Service!Begin(StockReserved, EventOf(claim.order), pc)
<1>1. UNCHANGED Marked /\ claim'.pc = pc /\ claim'.order = claim.order
    BY GotoKeeps DEF MInv
<1>2. ClaimOfHandler = [t \in DeliveryTopics |-> [pc |-> "idle", event |-> NoEvent]]
    BY DEF ClaimOfHandler
<1>3. ClaimOfHandler' = [t \in DeliveryTopics |-> [pc |-> pc, event |-> EventOf(claim.order)]]
    BY <1>1 DEF ClaimOfHandler
<1> QED BY <1>1, <1>2, <1>3, SameEvents, InHandInService DEF Service!Begin

(* The message in hand is marked. *)
LEMMA MarkInService ==
    ASSUME MInv, claim.pc # "idle", UNCHANGED log, MarkMessage
    PROVE  Service!MarkMessage(StockReserved, EventOf(claim.order))
<1>1. Marked' = Marked \cup {claim.order} /\ claim' = NothingInHand
    BY MarkMessageMarks DEF MInv, MarkMessage
<1>2. EventsOf(Marked') = EventsOf(Marked) \cup {EventOf(claim.order)}
    BY <1>1, EventsOfSets
<1>3. ClaimOfHandler' = [ClaimOfHandler EXCEPT ![StockReserved] = Service!Idle]
    BY <1>1, SameEvents DEF ClaimOfHandler, NothingInHand, Service!Idle
<1> QED BY <1>2, <1>3 DEF Service!MarkMessage

LEMMA StartsInService ==
    ASSUME MInv, Spent < EnoughFaults, NEW o \in Orders, Handle(o)
    PROVE  Service!HandleStockReserved(EventOf(o))
<1>1. /\ UNCHANGED <<committed, log, idem>> /\ claim.pc = "received" /\ claim.order = o
      /\ StartDelivery(o) /\ Goto("finish")
      /\ (o \notin idem /\ UNCHANGED faults) \/ (o \in idem /\ Seen("redis"))
    BY DEF Handle, Received, Fault, NoFault, tableVars
<1>2. Service!Begin(StockReserved, EventOf(o), "finish")
    BY <1>1, BeginInService
<1>3. Service!NotProcessed(EventOf(o))
  <2>1. EventOf(o) \in EventsOf(idem) <=> o \in idem
    BY EventsOfSets
  <2> QED BY <1>1, <2>1, SeenInService DEF Service!NotProcessed, FaultKind
<1>4. EventOf(o).order = o
    BY DEF EventOf
<1>5. CASE FindByIdempotencyKey(o) /\ UNCHANGED <<deliveries, outbox>>
    BY <1>1, <1>2, <1>3, <1>4, <1>5 DEF Service!HandleStockReserved, FindByIdempotencyKey
<1>6. CASE /\ ~ FindByIdempotencyKey(o) /\ CreateDelivery(o)
           /\ outbox' = outbox \cup {[type |-> DeliveryStarted, order |-> o, id |-> 1]}
  <2>1. o \notin deliveries /\ deliveries' = deliveries \cup {o}
        /\ outbox' = outbox \cup {Started(o)}
    BY <1>6 DEF FindByIdempotencyKey, CreateDelivery, Started
  <2>2. Started(o) \notin EventsOf(committed) \cup outbox
    <3>1. Started(o).type = DeliveryStarted /\ Started(o).order = o
      BY DEF Started
    <3> QED BY <2>1, <3>1, AnnouncedInView DEF MInv, HandlerInv, Service!Announced
  <2>3. Service!Send(DeliveryStarted, o)
    <3>1. 1 \in 1 .. MaxEvents /\ 1 .. 1 - 1 = {}
      BY MaxEventsAssumption
    <3>2. EventsOf(committed') \cup outbox' = EventsOf(committed) \cup outbox \cup {Started(o)}
      BY <1>1, <2>1
    <3> QED BY <2>2, <3>1, <3>2 DEF Service!Send, Started
  <2> QED BY <1>2, <1>3, <1>4, <2>1, <2>3 DEF Service!HandleStockReserved
<1> QED BY <1>1, <1>5, <1>6 DEF StartDelivery

LEMMA SkipsInService ==
    ASSUME MInv, claim.pc = "received", claim.order \in idem, MarkMessage,
           UNCHANGED <<committed, log, idem, deliveries, outbox, faults>>
    PROVE  Service!Skip(StockReserved, EventOf(claim.order)) /\ UNCHANGED deliveries
<1>1. ClaimOfHandler[StockReserved].pc = "idle"
    BY SameEvents DEF ClaimOfHandler
<1>2. EventOf(claim.order) \in EventsOf(idem)
    BY EventsOfSets
<1> QED BY <1>1, <1>2, InHandInService, MarkInService DEF Service!Skip

LEMMA FailsInService ==
    ASSUME MInv, Spent < EnoughFaults, claim.pc = "received", Seen("db"), Goto("drop"),
           UNCHANGED <<committed, log, idem, deliveries, outbox>>
    PROVE  Service!TxFails(EventOf(claim.order))
<1>1. Service!QueryFails(EventOf(claim.order))
    BY SeenInService DEF FaultKind, Service!QueryFails
<1> QED BY <1>1, BeginInService DEF Service!TxFails

(* The message in hand when its handler has returned. *)
LEMMA ReturnsInService ==
    ASSUME MInv, Spent < EnoughFaults, Finish \/ Drop
    PROVE  (Service!Finish(StockReserved) \/ Service!Drop(StockReserved))
           /\ UNCHANGED deliveries
<1>1. UNCHANGED <<committed, log, deliveries, outbox>> /\ MarkMessage
      /\ claim.pc \in {"finish", "drop"}
    BY DEF Finish, Drop, tableVars, handlerVars
<1>2. ClaimOfHandler[StockReserved] = [pc |-> claim.pc, event |-> EventOf(claim.order)]
    BY <1>1, SameEvents DEF ClaimOfHandler
<1>3. Service!MarkMessage(StockReserved, EventOf(claim.order))
    BY <1>1, MarkInService
<1>4. CASE Finish
  <2>1. \/ idem' = idem \cup {claim.order} /\ UNCHANGED faults
        \/ Seen("redis") /\ UNCHANGED idem
    BY <1>4 DEF Finish, Fault, NoFault
  <2>2. \/ EventsOf(idem') = EventsOf(idem) \cup {EventOf(claim.order)} /\ UNCHANGED faults
        \/ Service!Fault("redis") /\ UNCHANGED idem
    BY <2>1, EventsOfSets, SeenInService DEF FaultKind
  <2>3. claim.pc = "finish"
    BY <1>4 DEF Finish
  <2> QED BY <1>1, <1>2, <1>3, <2>2, <2>3 DEF Service!Finish
<1>5. CASE Drop
  <2>1. claim.pc = "drop" /\ UNCHANGED <<idem, faults>>
    BY <1>5 DEF Drop, NoFault, handlerVars
  <2> QED BY <1>1, <1>2, <1>3, <2>1 DEF Service!Drop
<1> QED BY <1>4, <1>5

LEMMA NextInService ==
    ASSUME MInv, MInv', Spent < EnoughFaults, [Next]_vars
    PROVE  [Service!Next]_Service!vars
<1>1. ASSUME NEW o \in Orders, Handle(o) PROVE Service!Next
  <2>1. EventOf(o) \in Service!Delivered(StockReserved)
    BY <1>1, InHandInService DEF Handle, Received
  <2> QED BY <1>1, <2>1, StartsInService DEF Service!Next, Service!Service, Service!Consume
<1>2. ASSUME NEW o \in Orders, Skip(o) \/ HandleFails(o) \/ HandleCanceled(o)
      PROVE  Service!Next
  <2>1. /\ claim.pc = "received" /\ claim.order = o
        /\ UNCHANGED <<committed, log, idem, deliveries, outbox>>
    BY <1>2 DEF Skip, HandleFails, HandleCanceled, Received, relayVars, tableVars, handlerVars
  <2>2. EventOf(o) \in Service!Delivered(StockReserved)
    BY <2>1, InHandInService
  <2>3. CASE o \in idem /\ MarkMessage /\ UNCHANGED faults
    BY <2>1, <2>2, <2>3, SkipsInService DEF Service!Next, Service!Service, Service!Consume
  <2>4. CASE Goto("drop") /\ Seen("db")
    BY <2>1, <2>2, <2>4, FailsInService DEF Service!Next, Service!Service, Service!Errors
  <2> QED BY <1>2, <2>3, <2>4 DEF Skip, HandleFails, HandleCanceled, Fault, NoFault
<1>3. CASE Finish \/ Drop
    BY <1>3, ReturnsInService DEF Service!Next, Service!Service, Service!Consume
<1>4. CASE UNCHANGED vars
    BY <1>4, StutterInService
    DEF vars, relayVars, consumerVars, groupVars, handlerVars, Marked, Below, ClaimOfHandler
<1> QED BY <1>1, <1>2, <1>3, <1>4, RelayInService, ClientInService, ReceiveInService,
           ResumeInService
        DEF Next, Consume, ConsumerFails

Bounded == MInv /\ LogBounded /\ SpentBounded

LEMMA AlwaysBounded == Spec => []Bounded
<1>1. Init => Bounded
    BY InitMInv, InitBounds DEF Bounded
<1>2. Bounded /\ [Next]_vars => Bounded'
    BY NextMInv, NextBounds DEF Bounded
<1> QED BY <1>1, <1>2, PTL DEF Spec

(* The relay's duplicates are bounded: a worker publishes a row once, and  *)
(* again only after a mishap (OutboxWorker.process of outbox_worker.go).   *)
THEOREM DuplicatesBounded == Spec => [](Len(log) <= LongestLog)
<1>1. Bounded => Len(log) <= LongestLog
    BY LogIsShort DEF Bounded, MInv
<1> QED BY <1>1, AlwaysBounded, PTL

(* The relay and the consumer group deliver every row at least once, and   *)
(* again only after a fault that Channel knows (outbox_worker.go,          *)
(* ConsumeClaim of common/messaging/kafka.go): the system implements the   *)
(* DeliveryService over the abstract Channel, whose budget of faults it    *)
(* never exhausts.                                                         *)
THEOREM DeliversToService == Spec => ServiceImplemented
<1>1. Init => Service!Init
    BY InitInService
<1>2. Bounded /\ Bounded' /\ [Next]_vars => [Service!Next]_Service!vars
    BY BudgetSuffices, NextInService DEF Bounded
<1> QED BY <1>1, <1>2, AlwaysBounded, PTL DEF Spec, ServiceImplemented, Service!Spec

===============================================================================
