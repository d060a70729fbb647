----------------------------- MODULE Choreography -----------------------------
(***************************************************************************)
(* What the saga promises about an order, without services, topics or      *)
(* faults: which verdicts are announced, and which may follow which.       *)
(***************************************************************************)
EXTENDS Events

VARIABLE story \* for every order: the types of the events announced about it

StoryInit == story = [o \in Orders |-> {}]

(* A verdict of this type is announced, for the first time. *)
Announce(o, type, needs, excludes) ==
    /\ needs \subseteq story[o]
    /\ story[o] \cap (excludes \cup {type}) = {}
    /\ story' = [story EXCEPT ![o] = @ \cup {type}]

Create(o) == Announce(o, OrderCreated, {}, {})

(* A payment may be made after one was declined, and a decline may come    *)
(* after a payment that a failing query hid.                               *)
Pay(o)     == Announce(o, PaymentCompleted, {OrderCreated}, {})
Decline(o) == Announce(o, PaymentFailed, {OrderCreated}, {})

(* A paid order gets its stock and is delivered, *)
Reserve(o) == Announce(o, StockReserved, {PaymentCompleted}, {StockReservationFailed})
Deliver(o) == Announce(o, DeliveryStarted, {StockReserved}, {})

(* or it is refused and refunded; then there is no stock to restore. *)
Refuse(o) == Announce(o, StockReservationFailed, {PaymentCompleted}, {StockReserved})
Refund(o) == Announce(o, PaymentRefunded, {StockReservationFailed}, {})

StoryNext ==
    \E o \in Orders :
        \/ Create(o) \/ Pay(o) \/ Decline(o)
        \/ Reserve(o) \/ Deliver(o)
        \/ Refuse(o) \/ Refund(o)

StorySpec == StoryInit /\ [][StoryNext]_story

===============================================================================
