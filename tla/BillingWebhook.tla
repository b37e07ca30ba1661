--------------------------- MODULE BillingWebhook ---------------------------
(***************************************************************************)
(* The Paddle webhook receiver: idempotency by event, the compare-and-swap *)
(* on the subscription row, the grant of the plan, and the retries.        *)
(*                                                                         *)
(* Paddle sends events at least once and in any order, and sends an event  *)
(* again until it is answered 200.  Each delivery, and each retry by an    *)
(* admin, runs processPaddleWebhookEvent in a request of its own: a worker *)
(* here.  Each action is one SQL statement, or a few between which nothing *)
(* another request does can be told apart.                                 *)
(***************************************************************************)
EXTENDS Naturals, FiniteSets

CONSTANTS
    Events,             \* Paddle events about one customer
    Subscriptions,      \* that customer's Paddle subscriptions
    Workers,            \* requests that may overlap
    Plans,              \* local plan ids, "free" among them
    Data,               \* Data[e]: what event e carries, see EventData
    MaxAttempts         \* MAX_ATTEMPTS_BEFORE_GIVING_UP

CONSTANTS               \* bounds of the model, not of the code
    MaxRepeats,         \* needless deliveries by Paddle, and retries by an admin
    MaxFaults           \* database errors and killed requests

\* The price of an event that plan_prices does not list.
Unresolved == "unresolved"

LocalStatus == {"active", "trialing", "past_due", "paused", "cancelled"}

\* PADDLE_TO_LOCAL_STATUS of a subscription event's status, "unmapped" if it
\* has none; a transaction event's status, "draft" before it has a customer; an
\* adjustment event's action.
StatusOf ==
    [subscription |-> LocalStatus \cup {"unmapped"},
     transaction |-> {"draft", "paid", "completed"},
     adjustment |-> {"refund", "chargeback", "credit"},
     customer |-> {"created"}]

\* linked: custom_data carries the user id.
EventData ==
    [kind: DOMAIN StatusOf, occurredAt: Nat \ {0}, subscription: Subscriptions,
     status: UNION {StatusOf[k] : k \in DOMAIN StatusOf},
     plan: Plans \cup {Unresolved}, linked: BOOLEAN]

ASSUME EventsAssumption ==
    /\ Events # {} /\ Data \in [Events -> EventData]
    /\ \A e \in Events : Data[e].status \in StatusOf[Data[e].kind]
    /\ "free" \in Plans /\ Unresolved \notin Plans
    /\ MaxAttempts \in Nat \ {0}

VARIABLES
    row,                \* row[e]: the row of webhook_events, or its absence
    answered,           \* the events Paddle was answered 200 for
    customer,           \* billing_customers: none, linked to the user, or orphaned
    subscription,       \* subscription[b]: the row of "subscriptions", at 0 if none
    transaction,        \* the row of "transactions"
    account,            \* users.plan_id, or "deleted"
    worker,             \* worker[w]: a request
    applied,            \* history: subscription events that were written
    runs,               \* history: how often the handler of e was started
    repeats, faults

vars == <<row, answered, customer, subscription, transaction, account, worker,
          applied, runs, repeats, faults>>

tables == <<customer, subscription, transaction, account, applied>>
bounds == <<repeats, faults>>

-----------------------------------------------------------------------------
(* Rows and requests *)

Settled == {"processed", "ignored", "permanently_failed"}

EventRow == [status: {"none", "pending", "retrying", "failed"} \cup Settled, attempts: Nat]
NoEventRow == [status |-> "none", attempts |-> 0]

\* at: last_applied_occurred_at.
SubscriptionRow == [at: Nat, status: LocalStatus \cup {"none"}, planId: Plans]
NoSubscription == [at |-> 0, status |-> "none", planId |-> "free"]

TransactionRow == [status: {"none", "paid", "completed"},
                   adjustments: SUBSET {"refund", "chargeback"}]
NoTransaction == [status |-> "none", adjustments |-> {}]

\* seen: the attempts read, 0 without a row; exists and plan: what the handler
\* read or resolved; hasUser: the customer's user id was not NULL.
Request ==
    [pc: {"idle", "looked", "handling", "linked", "applying", "granting", "marking"},
     event: Events, fromPaddle: BOOLEAN, seen: Nat, exists: BOOLEAN,
     hasUser: BOOLEAN, plan: Plans, outcome: {"processed", "ignored", "failed"}]
IdleRequest ==
    [pc |-> "idle", event |-> CHOOSE e \in Events : TRUE, fromPaddle |-> TRUE, seen |-> 0,
     exists |-> FALSE, hasUser |-> FALSE, plan |-> "free", outcome |-> "failed"]

TypeOK ==
    /\ row \in [Events -> EventRow]
    /\ answered \subseteq Events
    /\ customer \in {"none", "linked", "orphaned"}
    /\ subscription \in [Subscriptions -> SubscriptionRow]
    /\ transaction \in TransactionRow
    /\ account \in Plans \cup {"deleted"}
    /\ worker \in [Workers -> Request]
    /\ applied \subseteq Events
    /\ runs \in [Events -> Nat]
    /\ repeats \in Nat /\ faults \in Nat

DataOf(w) == Data[worker[w].event]

At(w, pc) == worker[w].pc = pc

\* Request w goes on at pc.
GoesTo(w, pc) == worker' = [worker EXCEPT ![w].pc = pc]

\* Request w is over.
Leaves(w) == worker' = [worker EXCEPT ![w] = IdleRequest]

\* Request w has its outcome and goes on to write it.
EndsWith(w, outcome) ==
    worker' = [worker EXCEPT ![w].pc = "marking", ![w].outcome = outcome]

-----------------------------------------------------------------------------
(* processPaddleWebhookEvent: the idempotency check *)

IsDuplicate(e) == row[e].status \in Settled

\* The SELECT on webhook_events.  A duplicate is answered at once.
LookUp(w, e, fromPaddle) ==
    /\ At(w, "idle")
    /\ IF IsDuplicate(e)
       THEN /\ answered' = IF fromPaddle THEN answered \cup {e} ELSE answered
            /\ UNCHANGED worker
       ELSE /\ worker' = [worker EXCEPT ![w] =
                    [@ EXCEPT !.pc = "looked", !.event = e, !.fromPaddle = fromPaddle,
                              !.seen = row[e].attempts, !.exists = row[e].status # "none"]]
            /\ UNCHANGED answered

InFlight(e) ==
    \E w \in Workers : ~At(w, "idle") /\ worker[w].event = e /\ worker[w].fromPaddle

\* Paddle delivers an event, again if it was not answered.
Deliver(w, e) ==
    /\ e \notin answered /\ ~InFlight(e)
    /\ LookUp(w, e, TRUE)
    /\ UNCHANGED <<row, tables, runs, bounds>>

\* An answer came late or was lost.
DeliverAgain(w, e) ==
    /\ e \in answered \/ InFlight(e)
    /\ repeats < MaxRepeats
    /\ repeats' = repeats + 1
    /\ LookUp(w, e, TRUE)
    /\ UNCHANGED <<row, tables, runs, faults>>

\* retryWebhookEvent: an admin retries a failed or a retrying event.
RetryWebhookEvent(w, e) ==
    /\ row[e].status \in {"failed", "retrying"}
    /\ repeats < MaxRepeats
    /\ repeats' = repeats + 1
    /\ LookUp(w, e, FALSE)
    /\ UNCHANGED <<row, tables, runs, faults>>

\* The UPDATE, or the INSERT that another delivery of the event may beat:
\* that error is answered 500.
Register(w) ==
    LET e == worker[w].event
        status == IF worker[w].exists THEN "retrying" ELSE "pending"
        beaten == ~worker[w].exists /\ row[e].status # "none"
    IN  /\ At(w, "looked")
        /\ IF beaten
           THEN Leaves(w) /\ UNCHANGED <<row, runs>>
           ELSE /\ row' = [row EXCEPT ![e] = [status |-> status,
                                              attempts |-> worker[w].seen + 1]]
                /\ runs' = [runs EXCEPT ![e] = @ + 1]
                /\ GoesTo(w, "handling")
        /\ UNCHANGED <<answered, tables, bounds>>

\* A faulty variant: an attempt too few.
GivesUpEarly(w) == worker[w].seen + 2 >= MaxAttempts

\* attempts >= MAX_ATTEMPTS_BEFORE_GIVING_UP, from the attempts read at first.
GivesUp(w) == worker[w].seen + 1 >= MaxAttempts

\* The outcome is written over whatever the row says by now, and Paddle is
\* answered 200, also for a failure.
MarkOutcome(w) ==
    LET e == worker[w].event
        status == IF worker[w].outcome # "failed" THEN worker[w].outcome
                  ELSE IF GivesUp(w) THEN "permanently_failed" ELSE "failed"
    IN  /\ At(w, "marking")
        /\ row' = [row EXCEPT ![e].status = status]
        /\ answered' = IF worker[w].fromPaddle THEN answered \cup {e} ELSE answered
        /\ Leaves(w)
        /\ UNCHANGED <<tables, runs, bounds>>

-----------------------------------------------------------------------------
(* findOrCreateBillingCustomer and handleCustomerEvent                     *)

\* A retry has lost custom_data: payload_redacted does not keep it.
KnowsUser(w) == DataOf(w).linked /\ worker[w].fromPaddle

\* The handler of a customer event ends here, and any other that finds no
\* customer; creating one for a deleted user breaks the foreign key.
FindOrCreateBillingCustomer(w) ==
    LET creates == customer = "none" /\ KnowsUser(w) /\ account # "deleted"
        found == customer # "none" \/ creates
        kind == DataOf(w).kind
        early == kind = "customer" /\ ~KnowsUser(w)
    IN  /\ At(w, "handling")
        /\ kind # "adjustment" /\ DataOf(w).status # "draft"
        /\ customer' = IF creates THEN "linked" ELSE customer
        /\ \/ ~found /\ EndsWith(w, IF early THEN "ignored" ELSE "failed")
           \/ found /\ kind = "customer" /\ EndsWith(w, "processed")
           \/ /\ found /\ kind # "customer"
              /\ worker' = [worker EXCEPT ![w].pc = "linked",
                                          ![w].hasUser = customer # "orphaned"]
        /\ UNCHANGED <<row, answered, subscription, transaction, account, applied, runs, bounds>>

-----------------------------------------------------------------------------
(* handleSubscriptionEvent *)

\* A faulty variant: a price that is not listed is taken for a plan.
ResolvedPlanUnchecked(e) == Data[e].plan

\* resolvedPrice?.planId ?? existingSub?.planId ?? "free"; a row that is
\* missing reads "free".
ResolvedPlan(e) ==
    IF Data[e].plan # Unresolved THEN Data[e].plan
    ELSE subscription[Data[e].subscription].planId

\* The price is resolved and the row is read.
ReadSubscription(w) ==
    LET e == worker[w].event
    IN  /\ At(w, "linked")
        /\ Data[e].kind = "subscription"
        /\ IF Data[e].status = "unmapped"
           THEN EndsWith(w, "failed")
           ELSE worker' = [worker EXCEPT ![w] =
                    [@ EXCEPT !.pc = "applying", !.plan = ResolvedPlan(e),
                              !.exists = subscription[Data[e].subscription].at # 0]]
        /\ UNCHANGED <<row, answered, tables, runs, bounds>>

\* A faulty variant: the row is updated whatever it holds.
AlwaysNewer(w) == TRUE

\* last_applied_occurred_at < occurred_at, re-checked by the UPDATE itself.
IsNewer(w) == subscription[DataOf(w).subscription].at < DataOf(w).occurredAt

\* A faulty variant: an event that is out of order still grants its plan.
AfterRefusedGranting(w) == GoesTo(w, "granting")

AfterRefused(w) == EndsWith(w, "ignored")

\* A faulty variant: a beaten INSERT is taken for a duplicate.
AfterBeatenIgnored(w) == EndsWith(w, "ignored")

\* The handler is run again, from its top.
AfterBeaten(w) == GoesTo(w, "handling")

\* The UPDATE with its compare-and-swap, or the INSERT ... ON CONFLICT DO
\* NOTHING of a row that did not exist.
ApplySubscription(w) ==
    LET d == DataOf(w)
        b == d.subscription
        beaten == ~worker[w].exists /\ subscription[b].at # 0
        refused == worker[w].exists /\ ~IsNewer(w)
    IN  /\ At(w, "applying")
        /\ d.kind = "subscription"
        /\ IF beaten THEN AfterBeaten(w) /\ UNCHANGED <<subscription, applied>>
           ELSE IF refused THEN AfterRefused(w) /\ UNCHANGED <<subscription, applied>>
           ELSE /\ subscription' = [subscription EXCEPT ![b] =
                        [at |-> d.occurredAt, status |-> d.status, planId |-> worker[w].plan]]
                /\ applied' = applied \cup {worker[w].event}
                /\ IF worker[w].hasUser THEN GoesTo(w, "granting") ELSE EndsWith(w, "processed")
        /\ UNCHANGED <<row, answered, customer, transaction, account, runs, bounds>>

Entitled == {"active", "trialing"}

PlanFromStatus(status, plan) ==
    IF status \in Entitled THEN plan
    ELSE IF status = "past_due" THEN account ELSE "free"

\* applyPlanFromStatus, a statement of its own; a deleted account has no row.
ApplyPlanFromStatus(w) ==
    /\ At(w, "granting")
    /\ account' = IF account = "deleted" THEN account
                  ELSE PlanFromStatus(DataOf(w).status, worker[w].plan)
    /\ EndsWith(w, "processed")
    /\ UNCHANGED <<row, answered, customer, subscription, transaction, applied, runs, bounds>>

-----------------------------------------------------------------------------
(* handleTransactionEvent and handleAdjustmentEvent *)

\* A draft has no customer yet, and is not recorded.
IgnoreDraft(w) ==
    /\ At(w, "handling")
    /\ DataOf(w).status = "draft"
    /\ EndsWith(w, "ignored")
    /\ UNCHANGED <<row, answered, tables, runs, bounds>>

ReadTransaction(w) ==
    /\ At(w, "linked")
    /\ DataOf(w).kind = "transaction"
    /\ worker' = [worker EXCEPT ![w].pc = "applying",
                                ![w].exists = transaction.status # "none"]
    /\ UNCHANGED <<row, answered, tables, runs, bounds>>

\* A faulty variant: the row is written anew.
WithStatusAnew(status) == [status |-> status, adjustments |-> {}]

\* The row with the event's status; the last event to run wins, and the
\* adjustments stay.
WithStatus(status) == [transaction EXCEPT !.status = status]

ApplyTransaction(w) ==
    LET beaten == ~worker[w].exists /\ transaction.status # "none"
    IN  /\ At(w, "applying")
        /\ DataOf(w).kind = "transaction"
        /\ IF beaten THEN AfterBeaten(w) /\ UNCHANGED transaction
           ELSE transaction' = WithStatus(DataOf(w).status) /\ EndsWith(w, "processed")
        /\ UNCHANGED <<row, answered, customer, subscription, account, applied, runs, bounds>>

\* An adjustment of a transaction that is not there yet fails; a credit is
\* not understood.
ApplyAdjustment(w) ==
    LET action == DataOf(w).status
    IN  /\ At(w, "handling")
        /\ DataOf(w).kind = "adjustment"
        /\ IF transaction.status = "none" THEN EndsWith(w, "failed") /\ UNCHANGED transaction
           ELSE IF action = "credit" THEN EndsWith(w, "ignored") /\ UNCHANGED transaction
           ELSE /\ transaction' = [transaction EXCEPT !.adjustments = @ \cup {action}]
                /\ EndsWith(w, "processed")
        /\ UNCHANGED <<row, answered, customer, subscription, account, applied, runs, bounds>>

-----------------------------------------------------------------------------
(* Failures, and the end of an account *)

\* A statement of a handler fails: the catch block takes over.
HandlerThrows(w) ==
    /\ worker[w].pc \in {"handling", "linked", "applying", "granting"}
    /\ faults < MaxFaults
    /\ faults' = faults + 1
    /\ EndsWith(w, "failed")
    /\ UNCHANGED <<row, answered, tables, runs, repeats>>

\* The request is killed, or a statement outside the try block fails.
RequestDies(w) ==
    /\ ~At(w, "idle")
    /\ faults < MaxFaults
    /\ faults' = faults + 1
    /\ Leaves(w)
    /\ UNCHANGED <<row, answered, tables, runs, repeats>>

\* The account is deleted for good: ON DELETE SET NULL keeps the customer.
DeleteAccount ==
    /\ account # "deleted"
    /\ account' = "deleted"
    /\ customer' = IF customer = "linked" THEN "orphaned" ELSE customer
    /\ UNCHANGED <<row, answered, subscription, transaction, worker, applied, runs, bounds>>

-----------------------------------------------------------------------------
(* Specification *)

Init ==
    /\ row = [e \in Events |-> NoEventRow]
    /\ answered = {}
    /\ customer = "none"
    /\ subscription = [b \in Subscriptions |-> NoSubscription]
    /\ transaction = NoTransaction
    /\ account = "free"
    /\ worker = [w \in Workers |-> IdleRequest]
    /\ applied = {}
    /\ runs = [e \in Events |-> 0]
    /\ repeats = 0 /\ faults = 0

\* What a request does by itself once it has been accepted.
Handle(w) ==
    \/ Register(w) \/ FindOrCreateBillingCustomer(w)
    \/ ReadSubscription(w) \/ ApplySubscription(w) \/ ApplyPlanFromStatus(w)
    \/ IgnoreDraft(w) \/ ReadTransaction(w) \/ ApplyTransaction(w) \/ ApplyAdjustment(w)
    \/ MarkOutcome(w)

Next ==
    \/ \E w \in Workers, e \in Events :
            Deliver(w, e) \/ DeliverAgain(w, e) \/ RetryWebhookEvent(w, e)
    \/ \E w \in Workers : Handle(w) \/ HandlerThrows(w) \/ RequestDies(w)
    \/ DeleteAccount

Spec == Init /\ [][Next]_vars

\* A request that is not killed comes to its end, and Paddle goes on sending
\* an event until it is answered 200.
Fairness ==
    /\ \A w \in Workers : WF_vars(Handle(w))
    /\ \A e \in Events : WF_vars(\E w \in Workers : Deliver(w, e))

FairSpec == Spec /\ Fairness

-----------------------------------------------------------------------------
(* Properties *)

\* No settled subscription event is newer than the row: once an event is
\* marked processed or ignored, its content or a newer one's is in the row,
\* whatever overlapped, failed or was killed on the way.
SettledEventsAreInTheRow ==
    \A e \in Events :
        Data[e].kind = "subscription" /\ row[e].status \in {"processed", "ignored"} =>
            subscription[Data[e].subscription].at >= Data[e].occurredAt

\* Nobody holds a plan that no written event granted: an event refused by the
\* compare-and-swap never reaches users.plan_id.
NoUnearnedPlan ==
    account \notin {"free", "deleted"} =>
        /\ \E e \in applied : Data[e].status \in Entitled
        /\ \E e \in applied : Data[e].plan = account

\* An event is given up on only after MaxAttempts runs of its handler, however
\* its deliveries overlap and overwrite each other's count.
GivesUpOnlyAfterMaxAttempts ==
    \A e \in Events : row[e].status = "permanently_failed" => runs[e] >= MaxAttempts

\* A refund or a chargeback that is marked processed stays on its transaction,
\* although transaction events write the same row later and out of order.
ProcessedAdjustmentsStay ==
    \A e \in Events :
        Data[e].kind = "adjustment" /\ row[e].status = "processed" =>
            Data[e].status \in transaction.adjustments

\* The rows of "subscriptions" are registers of the newest event.
SubscriptionEvents == {e \in Events : Data[e].kind = "subscription"}
SubscriptionOf == [e \in Events |-> Data[e].subscription]
OccurredAt == [e \in Events |-> Data[e].occurredAt]
WrittenContent ==
    [e \in SubscriptionEvents |->
        {c \in [status: {Data[e].status}, planId: Plans] :
            Data[e].plan # Unresolved => c.planId = Data[e].plan}]
Rows == INSTANCE SubscriptionRegister WITH
    Content <- WrittenContent, register <- subscription
RowsAreRegisters == Rows!Spec

\* Between the handlers, an existing account has the plan its subscriptions
\* entitle it to: one that is active or trialing, "free" if all have ended.
PlanFollowsSubscription ==
    LET entitled == {b \in Subscriptions : subscription[b].status \in Entitled}
        ended == {b \in Subscriptions : subscription[b].status \in {"none", "paused", "cancelled"}}
    IN  (\A w \in Workers : ~At(w, "granting")) /\ account # "deleted" =>
            /\ entitled # {} => account \in {subscription[b].planId : b \in entitled}
            /\ ended = Subscriptions => account = "free"

\* An event whose handler was cut short is picked up again: Paddle was not
\* answered, and a pending row does not pass for a duplicate.
PendingEventsArePickedUp ==
    \A e \in Events : row[e].status = "pending" ~> row[e].status # "pending"
=============================================================================
