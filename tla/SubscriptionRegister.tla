------------------------ MODULE SubscriptionRegister ------------------------
(***************************************************************************)
(* What the webhook processor promises of the table "subscriptions": each  *)
(* row is a register that only ever moves to a strictly newer event of its *)
(* subscription, in one atomic step, and takes that event's content.       *)
(***************************************************************************)
EXTENDS Naturals

CONSTANTS
    Subscriptions,      \* Paddle subscriptions
    SubscriptionEvents, \* the subscription events Paddle sends
    SubscriptionOf,     \* the subscription an event is about
    OccurredAt,         \* its occurred_at
    Content             \* the [status, planId] pairs an event may leave

VARIABLE register       \* register[b] = [at, status, planId]; at is 0 for no row

\* An event that is newer than the row, or the first of all, is applied.
Apply(e) ==
    /\ register[SubscriptionOf[e]].at < OccurredAt[e]
    /\ \E c \in Content[e] :
            register' = [register EXCEPT ![SubscriptionOf[e]] =
                            [at |-> OccurredAt[e], status |-> c.status, planId |-> c.planId]]

Init == register = [b \in Subscriptions |-> [at |-> 0, status |-> "none", planId |-> "free"]]

Next == \E e \in SubscriptionEvents : Apply(e)

Spec == Init /\ [][Next]_register
=============================================================================
