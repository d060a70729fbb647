# A verification of the order saga

The repository is a choreographed saga in Go: four services (order, payment,
inventory, delivery), each with its own PostgreSQL database, publish events
through an outbox table and a relay to Kafka and react to the events of the
others. This directory holds TLA+ models of it, TLC configurations that check
them on small instances, and TLAPS proofs for every value of the constants.

Run in this directory, for example

    tlc -workers 2 -config Saga_faults.cfg Saga.tla
    tlapm OrderServiceProofs.tla

`PROJECT.json` lists the components, the runs with their properties, for every
property a mutation of the model that violates it, for every definition the
source lines it models, the hazards, the findings and the theorems.

## The system

| component | state | operations | what makes it correct |
|---|---|---|---|
| order service | `orders` (status, version), outbox | `POST /orders`; handlers of six topics | a key starts one saga; the status is true and final when failed |
| payment service | `payments`, outbox; the simulated gateway | handlers of `order.created`, `stock.reservation_failed` | charged and refunded once; what is announced happened |
| inventory service | `inventory` row, `stock_reservations`, outbox | handlers of `payment.completed`, `payment.refunded` | no unit lost or sold twice; one verdict per order |
| delivery service | `deliveries`, outbox | handler of `stock.reserved` | one delivery per reservation |
| messaging (`common/messaging`) | the client's buffer, the message in hand, marked and committed offsets, the session | publish, consume, mark, end and begin a session | nothing below the committed offset is unhandled |
| idempotency store (Redis) | processed keys | `IsProcessed`, `Reserve` | optimisation only: nothing may depend on it |
| outbox relay (one worker per instance of a service) | status of the rows, the polled batch | poll, publish, mark sent | every committed row reaches Kafka, none is marked sent that did not |
| connection pool (`database/sql`, 25 per service) | who has which connection, who waits | acquire, release | nobody waits for ever |

The flow: `order.created` → payment → `payment.completed` or `payment.failed`;
`payment.completed` → inventory → `stock.reserved` or
`stock.reservation_failed`; `stock.reserved` → delivery → `delivery.started`;
`stock.reservation_failed` → payment → `payment.refunded` → inventory. The
order service listens to the verdicts on payment, stock and delivery to move the
order's status, but not to `payment.refunded`. There is no call between services;
all interaction is events.

What is hard in this code:

* a consumer group has a goroutine per topic, so the events of one order are
  handled concurrently and in any order by one service;
* the handlers read a row, then write it under an optimistic lock whose result
  they discard;
* some writes are in the transaction of the outbox row, some are not
  (`orderRepo.Create`, `paymentRepo.Create`, `paymentRepo.UpdateStatus` run on
  the pool), and the gateway is not in any;
* a message is marked also when its handler failed; Redis errors are ignored;
  the relay may publish a row twice; a crash loses what is in hand;
* a session of the consumer group ends while messages are buffered, and the
  loop goes on with a canceled context;
* `CreateOrder` holds a connection of the pool while it asks for a second one.

The hazards, each at its source line, are in `PROJECT.json`.

## Modules

| module | what it is |
|---|---|
| `Events` | event types, topics, subscriptions, events |
| `Channel` | the outbox, the consumer group and the idempotency store as one service sees them, and the faults |
| `OrderService`, `PaymentService`, `InventoryService`, `DeliveryService` | one service each; each extends `Channel` and adds its tables, its handlers and an environment that stands for the other services |
| `Saga` | the four services composed (`INSTANCE`), and the statement that each service, next to the others, is what its own module says |
| `Choreography` | the abstract specification of one order's life: which verdicts are announced and which may follow which; `Saga` implements it |
| `OutboxRelay` | the outbox table, the relays and the partition they write to |
| `Messaging` | extends `OutboxRelay` by the consumer group and the delivery service's handler: one event on its whole way; implements `DeliveryService`, and with it `Channel` |
| `ConnPool` | the connection pool of a service and those who share it |
| `MCOrderService` | symmetry set for TLC |
| `ChannelProofs` | lemmas: how each step of a channel keeps its type invariant |
| `OrderServiceProofs`, `PaymentServiceProofs`, `InventoryServiceProofs`, `DeliveryServiceProofs`, `ConnPoolProofs`, `SagaProofs` | theorems about the specification of each module |
| `MessagingProofs` | theorems about `OutboxRelay` and `Messaging` |

Definitions named `Mutant...` are not part of the models: each one is the
definition below it with a plausible mistake, and shows that a property can
fail.

### Channel

`outbox` is the set of events committed to outbox tables. `Delivered(t)` is the
set of events of a topic that the group has not marked: the relay and Kafka are
abstracted to *at least once, in any order*. The order is not assumed because
the relay passes over rows that fail to publish (`continue`) and the services
poll independently; a model that delivers in any order covers the runs in which
Kafka does keep an order. That the relay and the group really behave like this
channel, faults included, is what `Messaging` shows for one topic
(`ServiceImplemented`).

`claim[t]` is the goroutine of topic `t` (one partition per topic, one process
per service, as `docker-compose.yml` has it): idle, or at a program location
with a message in hand. `Begin` takes a message and does the handler's first
read; `Finish` reserves the idempotency key and marks; `Drop` marks after an
error; `Skip` marks a message whose key is held. `IsProcessed` and the handler's first
query are one step: only this goroutine changes the key in question and the rows that
the query looks for are changed by no step in between that the handler could
notice. Keys hold the topic and the event id, so the set `idem` of events stands
for them.

Faults (`Fault(kind)`, counted per kind, `MaxFaults` in all):

* `redis`: a call of the store fails. `IsProcessed` then counts as "no", a failed
  `Reserve` is ignored. A key that expires (24 h) behaves the same way.
* `db`: a statement or a commit fails and the handler returns its error. When
  the first query fails (`QueryFails`) although the key of the message is held,
  Redis has failed too; the two count as one fault, so that a handled message can
  be handled as a new one whose row is not found. The cancellation of the
  handlers' context in a rebalance behaves the same way, the key held or not
  (`HandleCanceled` of `Messaging` maps to it).
* `redeliver`: a marked message comes again (relay published it twice, offset
  not yet committed at a rebalance).
* `crash`: everything in memory is lost; what was in hand, and any part of what
  was marked, comes again.

### OrderService

`CreateOrder` is `FindExisting` / `FindNothing` (any error of the lookup counts
as "no such order"), `CreateRow` (`orderRepo.Create` commits on the pool; the
unique key refuses the second row) and `CommitOrder` (outbox row, 201). An order
stands for its idempotency key. Each event handler is `ReadOrder` (`FindByID`
and the test of the status) and `WriteOrder` (`UPDATE ... WHERE version = ...`,
result discarded). The six handlers are rows of the table `Handler`: statuses
they act in, status they write. `acked` is a history variable: orders for which a
client got a 201. `GetOrder` only reads and is left out, as is the validation of
requests.

### PaymentService

`FindPayment`, `Charge` or `Decline`, `CreatePayment`, `CommitPayment`; and
`FindRefundable`, `Refund`, `UpdatePayment`, `CommitRefund`. The gateway call,
the row and the outbox row are separate steps because nothing ties them
together in the code. `charged` and `refunded` are the gateway's own books. The
idempotency key of a row is built from the order and the id of its
`OrderCreated` event; rows are indexed by the order because there is one such
event per order (theorem `StartsOnce`).

### InventoryService

Each handler is the lock of the row (`SELECT ... FOR UPDATE`, `LockRow`) and the
commit of what it computed from the values it read, guarded by the version test
of `UpdateWithOptimisticLock`. The reservation is looked up on the pool before
the transaction; the two are one step because only the same goroutine inserts a
reservation, and one that exists is only ever canceled. A refusal commits its
event and returns an error (`finish` is not reached, the key is not reserved).
The code takes any error of the locking query for a missing row and refuses; but
PostgreSQL has aborted the transaction by then, the insertion of the refusal
fails, and the message is dropped (`FindFails`).
`Stocks` are the quantities a database may start with, `Schemas` the sets of
labels its enum `reservation_status` may have: the shipped script knows
`CANCELED`, the code writes `CANCELLED`, so under the shipped schema the
restoration is rolled back. The quantity is 1 whatever the order asks for, as in
the code.

### OutboxRelay

A tick is `Poll` (the `Limit` oldest pending rows), then for each row `Publish`
and `MarkSent`; either may fail (`continue` passes the row over until the next
tick, and a publication that fails may have been written by the broker all the
same), and a worker may die between any two steps. The query locks nothing, so
`Workers` of two instances of a service publish the same rows. A row stands for
its `created_at`, which is taken when its transaction begins: rows become
visible in any order. `log` is the partition. The payment service's relay does
the same in `cmd/main.go` without a repository.

### Messaging

The partition of `stock.reserved` and its consumer group, with the offsets that
Kafka and the client keep: fetched into the buffer of `claim.Messages()`, taken
by the loop, marked, committed. `AutoCommit` commits the marked offset from time
to time. `Rebalance` (also an error of the broker or a shutdown) cancels the
session's context; the loop is not told and drains the buffer
(`HandleCanceled`: every call fails with the canceled context, the message is
marked nevertheless), then `EndSession` commits the marked offset and
`Subscribe`'s loop begins the next session at it. A crash begins at the
committed offset. The handler is that of the delivery service, in the steps
that the outside can interrupt.

`marked` of `Channel` is mapped to the messages below the marked offset, less
those that a crash or a failed commit has sent back and that were taken again
(`again`, a history variable). `faults` counts what the delivery service saw,
so the bound on faults there is the constant `EnoughFaults`, which no behaviour
reaches (a part of the theorem `DeliversToService`).

### ConnPool

`CreateOrder` is `find` (one connection, returned), `begin` (one connection,
kept by the transaction), `insert` (a second one: `orderRepo.Create` runs on the
pool) and `commit`. Everybody else (`Handlers`: the event handlers, the relay,
`GetOrder`) takes one connection at a time and may come back for another. A
caller waits without a deadline; only the client who goes away cancels its
request (`GiveUp`, which also stands for a statement that fails), and the
deferred `Rollback` returns the connection.

The payment service shares this shape with a smaller number: its two handlers
write `payments` on the pool beside a transaction, and its relay keeps its query
open while it updates the rows. They are three against 25 connections, so the
theorem `FewRequestsNeverWedge` covers them. In the order service every HTTP
request is one of `Requests`, and nothing limits their number: 25 at a time
between `BeginTx` and the insertion stop the service, its relay and its event
handlers included, until clients go away.

### DeliveryService

One handler, one transaction, one step: nothing else reads or writes the table.

### Saga

Each service keeps its own variables; `outbox` and `faults` are common. The
service modules' environments (`Foreign`) state what each assumes of the others
(for instance inventory assumes one `PaymentCompleted` per order). `Saga`
discharges these assumptions: `OrderImplemented`, `PaymentImplemented`,
`InventoryImplemented`, `DeliveryImplemented` say that the saga, seen through
the topics of one service, is a behaviour of that service's own specification.
So what is proved of a service alone holds in the saga (theorems `PromisesKept`,
`StatusNeverAhead`, `StepsKept`); the properties across services are proved of the
saga itself.

`ChoreographyImplemented` says the same of the promise to the customer: map
every order to the set of types announced about it, and the saga is a behaviour
of `Choreography`. A duplicate of an announcement is a stutter there, a verdict
without its grounds or a second ending is not a step.

## Runs

All runs are exhaustive. `CHECK_DEADLOCK FALSE` everywhere: when every message is
marked and the bounds are reached the system rests, which is no error.

| run | what it shows |
|---|---|
| `Order_faults` | two racing requests, four topics of handlers, two faults of any kind: `OneOrderCreated`, `StatusBacked`, `FailedIsFinal` |
| `Payment_faults` | three faults of any kind: `OneVerdict`, `VerdictBacked`, `GatewayOnce`, and the liveness of verdict and refund |
| `Inventory_faults` | two orders, one unit, both schemas, one fault: `StockConserved`, `ReservationAnnounced`, `RefusedOnlyWhenSoldOut`, `PaidGetsAnswer`, `RefundRestoresIfKnown` |
| `Messaging_faults` | two events, two relays, a batch and a buffer of one, two mishaps out of eight kinds: `SentIsPublished`, `SkippedOnlyOnFailure`, `DeliveryAnnounced`, `ReservedIsDelivered`, and the refinement `ServiceImplemented` |
| `Conn_pool` | three requests and a handler share two connections: `TypeOK` (no leak), `NoWedge`, `StarvedOnlyByWedge` |
| `Saga_faults` | one order, stock on hand, two faults of any kind: `DeliveredIsPaid`, `StatusIsTrue`, and the refinements of the four services (that of `Choreography` is a theorem) |
| `Saga_live` | one order, a unit of stock or none, one fault of any kind: `GoodsOrMoney`, `CanceledIsNotCharged`, `SagaEnds`, `VerdictIsNoticed`, and `ChoreographyImplemented`, along the delivery and along the refusal and the refund |

Five runs show where the code does not keep what the documentation says:

| run | what happens |
|---|---|
| `Order_atomicity` | `CreateOrder` commits the order outside the outbox transaction; after a crash in between a repeated request is answered 201, and the saga never starts |
| `Inventory_shipped_schema` | the restoration of stock always fails on the enum label |
| `Saga_success` | no fault needed: `stock.reserved` is handled by the order service before `payment.completed`, has no effect, and the delivered order never becomes `COMPLETED` |
| `Saga_refusal` | no fault needed: the handler of `stock.reservation_failed` loses the optimistic lock to the one of `payment.completed`, reports success, and the refused order stays `STOCK_RESERVING`. Its refund is published, but no topic of the order service brings it, though ARCHITECTURE.md has `PaymentRefunded` lead to `CANCELED` (line 99) and `README.md` (line 333) and `QUICKSTART.md` (line 135) expect `CANCELED` or `FAILED` |
| `Messaging_rebalance` | one rebalance while a message is in the buffer: it is handed out with a canceled context, its handler fails, it is marked and committed, and the order is never delivered |

Met while modelling, without a run of their own: one duplicate of `order.created`
after a declined payment charges an order that is already `CANCELED`, because the
handler reports the decline as an error and its key is not reserved (so
`CanceledIsNotCharged` allows one charge for every redelivery or crash, and no
more); `PaymentService` has the same
gaps between row and outbox as `CreateOrder`, for the payment and for the refund,
and never makes up for them (the `Failures > 0` in its liveness
properties, the `faults.crash` and `faults.db` in those of `Saga`), and calls the gateway again after a crash (the `Failures` in
`GatewayOnce`); a database error loses a message for good, since it is marked
all the same (`faults.db > 0` in the liveness properties); the handlers write
statuses that `CanTransitionTo` of the domain model forbids (`PENDING` to
`STOCK_RESERVING`); ten orders for 50 units each take 10 of the 100 seeded units,
so the out-of-stock scenario of `QUICKSTART.md` does not run out of stock.

### Bounds, and why they are enough

* Orders: rows of different orders meet only in the inventory row and in a
  claim that is busy with one message; two orders in `Inventory_faults` and
  `Messaging_faults` show both. The `Saga` runs have one order: between services
  nothing is shared by two orders that a service's own run does not have.
* `Messaging_faults`: with two rows, `Limit` and `Buffer` of one make a batch
  and a buffer that are full, a row that waits for the next poll, and a
  message in the buffer behind the one in hand. Two mishaps show
  each kind after each other one, for instance a commit that fails after a
  rebalance.
* `Conn_pool`: two connections are the least with which a request can hold one
  and get a second; three requests are more than connections.
* `Stocks`: `Saga_faults` starts with two units, so that a second reservation of
  the order would succeed and be seen, and a third be refused. `Saga_live` starts
  with none, so that the order is refused and refunded, or with one, so that a
  duplicate of its `PaymentCompleted` would find the shelf empty and refuse an
  order that has its goods.
* `MaxEvents` bounds the events of one type about one order. Where faults
  can repeat a publication it exceeds `MaxFaults` wherever a liveness property depends
  on the repeated event, so that no send is blocked by the bound; with no
  faults every type is published at most once and 1 is exact.
* `MaxFaults`: the windows in the handlers are single (one gateway call, one
  row, one outbox row), so one fault opens each and a second one tells whether the
  repair of the first can be disturbed.
* `Order_faults` gives the environment four of the six topics: the two others,
  `payment.failed` and `delivery.failed`, have handlers of the same shape as
  `stock.reservation_failed`. The proofs cover all six, and so do the `Saga` runs
  (where nobody publishes `delivery.failed`, as in the code).

### Fairness

Liveness is checked under weak fairness of each claim's own progress (`Serve(t)`,
`Consume`) and of a request in progress (`Answer(c)`): a goroutine that has a
message or a query at hand continues unless the process dies. Faults and new
requests are not fair. Nothing is assumed about which message a claim takes
first, nor that the gateway ever accepts.

In `Messaging` the workers tick (`Tick(w)`), the client fetches and the loop
continues; nobody has to commit offsets, and mishaps have no fairness. In
`ConnPool` a statement ends (`WF` of `Step`), and a waiting caller is not passed
over for ever (`SF` of `Acquire`: `database/sql` hands a returned connection to
a waiting caller, one chosen at random in current versions of Go, the first in
older ones). Nobody has to arrive or to give up.

## Proofs

TLAPS checks the theorems below with no bound on orders, requests, events or
faults. Assumptions are those of the modules: `Orders` is finite, `MaxEvents` is
positive, `NoEvent` is no event, `Stocks` are natural numbers, the topics are the
subscriptions of the service; the rows of the outbox are finitely many natural
numbers, their workers finitely many, `Limit` and `Buffer` are positive; the kinds of
faults are those of `Channel` and their maximum is a natural number; the connections
are finitely many and at least one, the requests finitely many and no handlers.

* Every service invariant rests on `ChannelTypeOK`, whose core is `ClaimsHeld`:
  a busy claim holds a committed, unmarked event of its own topic. Marking one
  message cannot disturb another claim because each holds a message of its own
  topic. `ChannelProofs` shows it step by step, and each service's `TypeCorrect`
  uses these lemmas.
* `OrderServiceProofs`. `FailedIsFinal` and `StatusBacked` are not inductive:
  a handler that is about to write must be known to write over what it has read.
  `SnapOK` says so: the version a handler has read is not ahead of the row's,
  and when it equals it the row still has a status the handler acts in. It
  holds because every write raises the version. Theorems `FailedForGood` and
  `StatusNeverAhead` follow, the first with a lemma about the handler table:
  a handler that acts on failed orders writes a failed status. `StartsOnce`
  proves `OneOrderCreated` with `RowsInHand`: between the insertion of the row
  and the commit of the event the order is in the hands of one request, the
  one whose insertion succeeded.
* `InventoryServiceProofs`. The invariant is `IInv`: `TypeOK`, `LockOK` (one
  transaction holds the row, what it has read is what is there, and its
  reservation is as it found it), `StockConserved` and `ReservationAnnounced`,
  which need each other: that `reserved` does not drop below zero depends on the count
  of the reservations, the count on the reservation still being there at the
  commit. Theorems `TypeCorrect`, `NoUnitLost`, `AnnouncedAsReserved`; and
  `RefusedForGoodReason`, because under the lock the version test always succeeds.
* `PaymentServiceProofs`. The steps of a handler are apart, so the invariant
  `IInv` says what is known at each place in between (`InProgress`: at `commit`
  the row exists and `PaymentCompleted` is not announced; at `commitRefund` the
  row is `REFUNDED` and `PaymentRefunded` is not announced), that who is refused
  stock has paid (`RefusedWasPaid`, an assumption about the inventory service
  that `InventoryImplemented` and `PaymentImplemented` discharge), and that
  every call of the gateway beyond the one the row stands for was paid for by a
  failure (`CallsCounted`). Theorems `TypeCorrect`, `VerdictOnce`,
  `VerdictIsBacked`, `CallsBounded`. `DeclinedNotCharged` needs a second
  invariant, `GInv`: there is one `OrderCreated` per order (`OneStart`), only a
  refused order was refunded (`RefundsAsked`), and the times the gateway was asked
  are counted (`AsksCounted`): its charges, the `PaymentFailed` and the message that
  may still be handled (`Open`) are together no more than the `OrderCreated` and the
  times it may have come again.
* `DeliveryServiceProofs`. `AnnouncedOnce`: the delivery and its event are
  written in one step, guarded by the absence of the delivery. That the topics
  are the service's is a premise of the theorems (`SubscribedTopics`), because
  `Messaging` instantiates the module.
* `MessagingProofs`, the relay first. `NoRowIsLost` for any number of rows, workers and
  mishaps: what a worker is about to mark is in the partition already
  (`MarkedIsPublished`), which another worker cannot undo.
* `MessagingProofs`, the consumer group. `MInv` has a part for the offsets (`GroupInv`:
  committed, marked, taken, fetched and the end of the log are ordered, the handler is
  busy exactly when one message is taken and not marked), one for the handler
  (`HandlerInv`) and one that counts losses (`SkipsCounted`). `SkippedOnlyOnFailure`
  is not inductive, for it speaks of the committed offset only: what counts is
  every message below the mark without a delivery, plus the one in hand
  if its handler was stopped; the committed offset never passes the mark. Theorems
  `TypeCorrect`, `SentPublished`, `SkippedCounted`, `AnnouncedOnce`.
* `MessagingProofs`, the refinement of `DeliveryService` over `Channel`
  (`DeliversToService`). Each step maps to a step of the service or to a stutter: a
  published, fetched or committed message is invisible; a handler begins when it
  is called and not when the loop takes its message; a session that goes back
  returns marked messages, which is a crash of the abstract service. `Channel` bounds its
  faults, so a step that reports one needs the budget not to be exhausted. It is
  not, and that is the larger part of the proof. `LogBounded`: the partition holds one
  message per worker and row and one more per mishap, counted by the pairs of
  worker and row that are done (`Done`); a corollary is `DuplicatesBounded`.
  `SpentBounded`: every message taken costs at most two faults (a redelivery and
  what happens to its handler), and only a session after the first, which a
  mishap began, takes a message again.
* `ConnPoolProofs`. `TypeCorrect`: no connection leaks. `FewRequestsNeverWedge`: in
  a wedged pool every owner waits while it holds one connection, so it is a
  request, and no two connections have the same owner: an injection of the
  connections into the active requests.
* `SagaProofs`, the four services together. None of the properties is inductive in
  one service: that an order is not refunded after its delivery depends on
  inventory refusing nobody whom it reserved for, that inventory restores
  nothing on payment refunding only the refused. The invariant `SInv` has a part
  for each service, and what ties them together is in `StockTells`: once an order was
  refused the stock is gone for good, because what the lock's holder has read is
  what is there, and no refunded order holds a reservation, so nothing is ever
  put back. For each service one lemma says which event a step may announce and
  on what grounds (`OrderServes`, `PaymentServes`, `InventoryServes`,
  `DeliveryServes`), and one says that its part stays true while the others
  announce (`PaymentsQuiet`, `StockQuiet`, ...). Theorems `DeliveredPaid`,
  `StatusTrue`, and `TellsTheStory`, the refinement of
  `Choreography`: initial states and every step, by the grounds of its
  announcement.
* `SagaProofs`, the refinements of the services. A service's own module has an
  environment that publishes only what the neighbours would; that they do is
  `OrderInSaga`, `PaymentInSaga`, `InventoryInSaga` and `DeliveryInSaga`. A
  service's step is a step of its own specification, a neighbour's step
  either adds an event the service listens to, which must be one that
  `Foreign` allows, or is not seen. The invariant `RInv` gives the grounds: `SInv`,
  and of each service the invariant of its own proof module, instantiated with the
  service's view of the saga (`OrdProof`, `PayProof`, `InvProof`, ...). For
  instance inventory relies on one `PaymentCompleted` per order; that is
  `OneVerdict` of the payment service, whose own proof relies on refusals that
  come only after payments, which is inventory's. The circle is broken by time:
  in a step of the saga only one service moves, and the invariants of all the others
  already hold. `PromisesKept`, `StatusNeverAhead` and `StepsKept` collect what the
  services' theorems then say of the saga. `CanceledNotCharged` follows from
  `GInv` of the payment service and `StatusTells` of the order service: only
  `PaymentFailed` makes an order `CANCELED`. `NeverBoth`, that is `GoodsOrMoney`,
  follows from `GInv` too, which knows that only the refused are refunded, and
  from `StockTells`, which knows that who is refused holds no reservation.

Checked by TLC only: the liveness properties (`OrderGetsVerdict`, `RefusedIsRefunded`,
`PaidGetsAnswer`, `RefundRestoresIfKnown`, `SagaEnds`, `VerdictIsNoticed`,
`ReservedIsDelivered`, `StarvedOnlyByWedge`), which depend on fairness and are out of
the prover's reach. Every invariant and every refinement that a passing run
checks is also a theorem.

## Not modelled

* More than one partition of a topic and more than one instance of a consumer:
  the shipped topics have one partition, so a group has one active member per
  topic, and the other members only take over at a rebalance. The partition key
  `string(rune(orderId))` has no effect then.
* The window between a rebalance and the new owner's first message in which two
  instances handle the same message at once.
* The length of keys: a reservation's key outgrows its `VARCHAR(64)` when an order
  id has ten digits; the error is a `db` fault to the models.
* `common/retry`: no service uses it. `common/errors`, logging, configuration,
  health checks: stateless or pure I/O. A graceful shutdown is a crash.
* Prices, addresses, names and the wording of reasons: no property depends on
  them.
* Code nobody calls: the queries (`GetPayment`), `Refund`, `Confirm`, `TransitionTo`,
  reservation expiry, the tables `payment_history` and `saga_instances`.

## Plan

1. Two members of a consumer group that overlap at a rebalance, on top of
   `Messaging`, and what `DeliveryAnnounced` rests on then (the unique key of
   `deliveries` alone).
2. The composition of a `Messaging` per topic below `Saga`: with
   `DeliversToService` and `DeliveryInSaga` both halves of it are proved for the
   topic `stock.reserved`.
