------------------------ MODULE BillingWebhook_proofs ------------------------
(* Theorems about BillingWebhook, for every value of its constants. *)
EXTENDS BillingWebhook, TLAPS

PCs == {"idle", "looked", "handling", "linked", "applying", "granting", "marking"}

-----------------------------------------------------------------------------
(* Typing *)

\* A request is typed again after its position changes.
LEMMA GoesToType ==
    ASSUME TypeOK, NEW w \in Workers, NEW pc \in PCs, GoesTo(w, pc)
    PROVE  worker' \in [Workers -> Request]
<1>1. [worker[w] EXCEPT !.pc = pc] \in Request
  BY DEF TypeOK, Request, PCs
<1> QED
  BY <1>1 DEF TypeOK, GoesTo

\* A request is typed again after its outcome is known.
LEMMA EndsWithType ==
    ASSUME TypeOK, NEW w \in Workers,
           NEW outcome \in {"processed", "ignored", "failed"}, EndsWith(w, outcome)
    PROVE  worker' \in [Workers -> Request]
<1>1. \A pc \in PCs : [worker[w] EXCEPT !.pc = pc, !.outcome = outcome] \in Request
  BY DEF TypeOK, Request, PCs
<1>2. [worker[w] EXCEPT !.pc = "marking", !.outcome = outcome] \in Request
  BY <1>1 DEF PCs
<1>3. worker' = [worker EXCEPT ![w] = [worker[w] EXCEPT !.pc = "marking", !.outcome = outcome]]
  BY DEF TypeOK, EndsWith
<1> QED
  BY <1>2, <1>3 DEF TypeOK

\* A request that is over is typed.
LEMMA LeavesType ==
    ASSUME TypeOK, NEW w \in Workers, Leaves(w)
    PROVE  worker' \in [Workers -> Request]
<1>1. (CHOOSE e \in Events : TRUE) \in Events
  BY EventsAssumption
<1>2. IdleRequest \in Request
  BY <1>1, EventsAssumption DEF IdleRequest, Request
<1> QED
  BY <1>2 DEF TypeOK, Leaves

LEMMA InitType == Init => TypeOK
<1>1. (CHOOSE e \in Events : TRUE) \in Events
  BY EventsAssumption
<1>2. IdleRequest \in Request
  BY <1>1, EventsAssumption DEF IdleRequest, Request
<1>3. NoEventRow \in EventRow /\ NoSubscription \in SubscriptionRow
      /\ NoTransaction \in TransactionRow
  BY EventsAssumption DEF NoEventRow, EventRow, Settled, NoSubscription, SubscriptionRow,
     NoTransaction, TransactionRow
<1> QED
  BY <1>2, <1>3, EventsAssumption DEF Init, TypeOK

\* What the events carry.
LEMMA DataType ==
    ASSUME TypeOK, NEW w \in Workers
    PROVE  /\ worker[w].event \in Events
           /\ DataOf(w) = Data[worker[w].event]
           /\ DataOf(w) \in EventData
           /\ DataOf(w).status \in StatusOf[DataOf(w).kind]
<1>1. worker[w].event \in Events
  BY DEF TypeOK, Request
<1> QED
  BY <1>1, EventsAssumption DEF DataOf

-----------------------------------------------------------------------------
(* The inductive invariant *)

\* The content of e, or of a newer event, is in its subscription's row.
Recorded(e) == subscription[Data[e].subscription].at >= Data[e].occurredAt

\* A plan that somebody may hold: the event that carries it was written.
Earned(plan) == plan = "free" \/ \E e \in applied : Data[e].plan = plan

\* What a request relies on at each of its positions.
RequestInv(r) ==
    /\ r.pc = "looked" => r.seen <= runs[r.event]
    /\ r.pc \notin {"idle", "looked"} => r.seen + 1 <= runs[r.event]
    /\ r.pc \in {"linked", "applying"} =>
            Data[r.event].kind \in {"subscription", "transaction"} /\ Data[r.event].status # "draft"
    /\ r.pc = "applying" /\ Data[r.event].kind = "subscription" =>
            /\ Data[r.event].status # "unmapped"
            /\ Earned(r.plan) \/ Data[r.event].plan = r.plan
            /\ Data[r.event].plan # Unresolved => r.plan = Data[r.event].plan
    /\ r.pc = "granting" =>
            /\ r.event \in applied /\ Data[r.event].kind = "subscription"
            /\ Recorded(r.event) /\ Earned(r.plan)
    /\ r.pc = "marking" /\ r.outcome # "failed" /\ Data[r.event].kind = "subscription" =>
            Recorded(r.event)

RequestsInv == \A w \in Workers : RequestInv(worker[w])

\* What the tables keep.
EventRowInv(e) ==
    /\ row[e].attempts <= runs[e]
    /\ row[e].status = "permanently_failed" => runs[e] >= MaxAttempts
    /\ Data[e].kind = "subscription" /\ row[e].status \in {"processed", "ignored"} => Recorded(e)

TablesInv ==
    /\ \A e \in Events : EventRowInv(e)
    /\ \A b \in Subscriptions : Earned(subscription[b].planId)
    /\ NoUnearnedPlan

IInv == TypeOK /\ RequestsInv /\ TablesInv

\* What no step undoes.
Grows ==
    /\ applied \subseteq applied'
    /\ \A b \in Subscriptions : subscription[b].at <= subscription'[b].at
    /\ \A e \in Events : runs[e] <= runs'[e]

\* A request that stays as it is keeps its invariant when the rest only grows.
LEMMA RequestKept ==
    ASSUME TypeOK, TypeOK', Grows, NEW r \in Request, RequestInv(r)
    PROVE  RequestInv(r)'
<1>1. r.event \in Events /\ Data[r.event].subscription \in Subscriptions
      /\ Data[r.event].occurredAt \in Nat
  BY EventsAssumption DEF Request, EventData
<1>2. runs[r.event] \in Nat /\ runs'[r.event] \in Nat /\ r.seen \in Nat
      /\ runs[r.event] <= runs'[r.event]
  BY <1>1 DEF TypeOK, Request, Grows
<1>3. Recorded(r.event) => Recorded(r.event)'
  BY <1>1 DEF Recorded, Grows, TypeOK, SubscriptionRow
<1>4. Earned(r.plan) => Earned(r.plan)'
  BY DEF Earned, Grows
<1>5. r.event \in applied => r.event \in applied'
  BY DEF Grows
<1> QED
  BY <1>2, <1>3, <1>4, <1>5 DEF RequestInv

-----------------------------------------------------------------------------
(* Type correctness *)

LEMMA LookUpType ==
    ASSUME TypeOK, NEW w \in Workers, NEW e \in Events, NEW fromPaddle \in BOOLEAN,
           LookUp(w, e, fromPaddle)
    PROVE  worker' \in [Workers -> Request] /\ answered' \subseteq Events
<1>1. row[e].attempts \in Nat
  BY DEF TypeOK, EventRow
<1>2. \A pc \in PCs, n \in Nat, x \in BOOLEAN :
        [worker[w] EXCEPT !.pc = pc, !.event = e, !.fromPaddle = fromPaddle,
                          !.seen = n, !.exists = x] \in Request
  BY DEF TypeOK, Request, PCs
<1>3. (row[e].status # "none") \in BOOLEAN
  OBVIOUS
<1>4. [worker[w] EXCEPT !.pc = "looked", !.event = e, !.fromPaddle = fromPaddle,
                        !.seen = row[e].attempts, !.exists = row[e].status # "none"] \in Request
  BY <1>1, <1>2, <1>3 DEF PCs
<1> QED
  BY <1>4 DEF TypeOK, LookUp

LEMMA TypeStep == TypeOK /\ RequestsInv /\ [Next]_vars => TypeOK'
<1> SUFFICES ASSUME TypeOK, RequestsInv, [Next]_vars PROVE TypeOK'
  OBVIOUS
<1>1. ASSUME NEW w \in Workers, NEW e \in Events,
             Deliver(w, e) \/ DeliverAgain(w, e) \/ RetryWebhookEvent(w, e)
      PROVE  TypeOK'
  <2>1. \E p \in BOOLEAN : LookUp(w, e, p)
    BY <1>1 DEF Deliver, DeliverAgain, RetryWebhookEvent
  <2>2. worker' \in [Workers -> Request] /\ answered' \subseteq Events
    BY <2>1, LookUpType
  <2>3. repeats' \in Nat /\ faults' \in Nat
    <3>1. repeats' \in {repeats, repeats + 1}
          /\ faults' = faults
      BY <1>1 DEF Deliver, DeliverAgain, RetryWebhookEvent, bounds
    <3> QED
      BY <3>1 DEF TypeOK
  <2>4. UNCHANGED <<row, tables, runs>>
    BY <1>1 DEF Deliver, DeliverAgain, RetryWebhookEvent
  <2> QED
    BY <2>2, <2>3, <2>4 DEF TypeOK, tables
<1>2. ASSUME NEW w \in Workers, Register(w) PROVE TypeOK'
  <2> DEFINE e == worker[w].event
             status == IF worker[w].exists THEN "retrying" ELSE "pending"
             new == [status |-> status, attempts |-> worker[w].seen + 1]
  <2>1. e \in Events /\ worker[w].seen \in Nat
    BY DEF TypeOK, Request
  <2>2. new \in EventRow
    BY <2>1 DEF EventRow
  <2>3. worker' \in [Workers -> Request]
    BY <1>2, GoesToType, LeavesType DEF Register, PCs
  <2>4. row' \in [Events -> EventRow] /\ runs' \in [Events -> Nat]
    BY <1>2, <2>1, <2>2 DEF Register, TypeOK
  <2> QED
    BY <1>2, <2>3, <2>4 DEF Register, TypeOK, tables, bounds
<1>3. ASSUME NEW w \in Workers, FindOrCreateBillingCustomer(w) PROVE TypeOK'
  <2>1. \A x \in BOOLEAN, pc \in PCs : [worker[w] EXCEPT !.pc = pc, !.hasUser = x] \in Request
    BY DEF TypeOK, Request, PCs
  <2>2. [worker[w] EXCEPT !.pc = "linked", !.hasUser = customer # "orphaned"] \in Request
    BY <2>1 DEF PCs
  <2>3. ASSUME worker' = [worker EXCEPT ![w].pc = "linked", ![w].hasUser = customer # "orphaned"]
        PROVE  worker' \in [Workers -> Request]
    BY <2>2, <2>3 DEF TypeOK
  <2>4. worker' \in [Workers -> Request]
    BY <1>3, <2>3, EndsWithType DEF FindOrCreateBillingCustomer
  <2>5. customer' \in {"none", "linked", "orphaned"}
    BY <1>3 DEF FindOrCreateBillingCustomer, TypeOK
  <2> QED
    BY <1>3, <2>4, <2>5 DEF FindOrCreateBillingCustomer, TypeOK, bounds
<1>4. ASSUME NEW w \in Workers, ReadSubscription(w) PROVE TypeOK'
  <2> DEFINE plan == ResolvedPlan(worker[w].event)
             exists == subscription[Data[worker[w].event].subscription].at # 0
  <2>1. plan \in Plans
    BY DataType, EventsAssumption DEF ResolvedPlan, TypeOK, SubscriptionRow, EventData
  <2>2. exists \in BOOLEAN
    OBVIOUS
  <2> HIDE DEF plan, exists
  <2>3. \A x \in BOOLEAN, pc \in PCs, p \in Plans :
            [worker[w] EXCEPT !.pc = pc, !.plan = p, !.exists = x] \in Request
    BY DEF TypeOK, Request, PCs
  <2>4. [worker[w] EXCEPT !.pc = "applying", !.plan = plan, !.exists = exists] \in Request
    BY <2>1, <2>2, <2>3 DEF PCs
  <2>5. worker' \in [Workers -> Request]
    BY <1>4, <2>4, EndsWithType DEF ReadSubscription, TypeOK, plan, exists
  <2> QED
    BY <1>4, <2>5 DEF ReadSubscription, TypeOK, tables, bounds
<1>5. ASSUME NEW w \in Workers, ApplySubscription(w) PROVE TypeOK'
  <2> DEFINE d == DataOf(w)
             new == [at |-> d.occurredAt, status |-> d.status, planId |-> worker[w].plan]
  <2>1. worker' \in [Workers -> Request]
    BY <1>5, GoesToType, EndsWithType DEF ApplySubscription, AfterBeaten, AfterRefused, PCs
  <2>2. d.occurredAt \in Nat /\ d.subscription \in Subscriptions /\ worker[w].plan \in Plans
    BY DataType DEF EventData, TypeOK, Request
  <2>3. d.status # "unmapped"
    BY <1>5, DataType DEF ApplySubscription, RequestsInv, RequestInv, At
  <2>4. d.status \in LocalStatus
    BY <1>5, <2>3, DataType DEF ApplySubscription, StatusOf
  <2>5. new \in SubscriptionRow
    BY <2>2, <2>4 DEF SubscriptionRow
  <2>6. subscription' \in [Subscriptions -> SubscriptionRow]
    BY <1>5, <2>2, <2>5 DEF ApplySubscription, TypeOK
  <2>7. applied' \subseteq Events
    BY <1>5, DataType DEF ApplySubscription, TypeOK
  <2> QED
    BY <1>5, <2>1, <2>6, <2>7 DEF ApplySubscription, TypeOK, bounds
<1>6. ASSUME NEW w \in Workers, ApplyPlanFromStatus(w) PROVE TypeOK'
  <2>1. worker' \in [Workers -> Request]
    BY <1>6, EndsWithType DEF ApplyPlanFromStatus
  <2>2. account' \in Plans \cup {"deleted"}
    BY <1>6, EventsAssumption DEF ApplyPlanFromStatus, PlanFromStatus, TypeOK, Request
  <2> QED
    BY <1>6, <2>1, <2>2 DEF ApplyPlanFromStatus, TypeOK, bounds
<1>7. ASSUME NEW w \in Workers, IgnoreDraft(w) PROVE TypeOK'
  BY <1>7, EndsWithType DEF IgnoreDraft, TypeOK, tables, bounds
<1>8. ASSUME NEW w \in Workers, ReadTransaction(w) PROVE TypeOK'
  <2>1. \A x \in BOOLEAN, pc \in PCs : [worker[w] EXCEPT !.pc = pc, !.exists = x] \in Request
    BY DEF TypeOK, Request, PCs
  <2>2. [worker[w] EXCEPT !.pc = "applying", !.exists = transaction.status # "none"] \in Request
    BY <2>1 DEF PCs
  <2>3. worker' \in [Workers -> Request]
    BY <1>8, <2>2 DEF ReadTransaction, TypeOK
  <2> QED
    BY <1>8, <2>3 DEF ReadTransaction, TypeOK, tables, bounds
<1>9. ASSUME NEW w \in Workers, ApplyTransaction(w) PROVE TypeOK'
  <2>1. worker' \in [Workers -> Request]
    BY <1>9, GoesToType, EndsWithType DEF ApplyTransaction, AfterBeaten, PCs
  <2>2. DataOf(w).status # "draft"
    BY <1>9, DataType DEF ApplyTransaction, RequestsInv, RequestInv, At
  <2>3. DataOf(w).status \in {"paid", "completed"}
    BY <1>9, <2>2, DataType DEF ApplyTransaction, StatusOf
  <2>4. \A x \in {"none", "paid", "completed"} : WithStatus(x) \in TransactionRow
    BY DEF TypeOK, WithStatus, TransactionRow
  <2>5. transaction' \in TransactionRow
    BY <1>9, <2>3, <2>4 DEF ApplyTransaction, TypeOK
  <2> QED
    BY <1>9, <2>1, <2>5 DEF ApplyTransaction, TypeOK, bounds
<1>10. ASSUME NEW w \in Workers, ApplyAdjustment(w) PROVE TypeOK'
  <2>1. worker' \in [Workers -> Request]
    BY <1>10, EndsWithType DEF ApplyAdjustment
  <2>2. DataOf(w).status \in {"refund", "chargeback", "credit"}
    BY <1>10, DataType DEF ApplyAdjustment, StatusOf
  <2>3. \A x \in {"refund", "chargeback"} :
            [transaction EXCEPT !.adjustments = @ \cup {x}] \in TransactionRow
    BY DEF TypeOK, TransactionRow
  <2>4. transaction' \in TransactionRow
    BY <1>10, <2>2, <2>3 DEF ApplyAdjustment, TypeOK
  <2> QED
    BY <1>10, <2>1, <2>4 DEF ApplyAdjustment, TypeOK, bounds
<1>11. ASSUME NEW w \in Workers, MarkOutcome(w) PROVE TypeOK'
  <2> DEFINE e == worker[w].event
  <2>1. worker' \in [Workers -> Request]
    BY <1>11, LeavesType DEF MarkOutcome
  <2>2. e \in Events /\ worker[w].outcome \in {"processed", "ignored", "failed"}
    BY DEF TypeOK, Request
  <2>3. \A x \in {"failed"} \cup Settled : [row[e] EXCEPT !.status = x] \in EventRow
    BY <2>2 DEF TypeOK, EventRow, Settled
  <2>4. row' \in [Events -> EventRow]
    BY <1>11, <2>2, <2>3 DEF MarkOutcome, TypeOK, Settled
  <2>5. answered' \subseteq Events
    BY <1>11, <2>2 DEF MarkOutcome, TypeOK
  <2> QED
    BY <1>11, <2>1, <2>4, <2>5 DEF MarkOutcome, TypeOK, tables, bounds
<1>12. ASSUME NEW w \in Workers, HandlerThrows(w) \/ RequestDies(w) PROVE TypeOK'
  <2>1. worker' \in [Workers -> Request]
    BY <1>12, LeavesType, EndsWithType DEF HandlerThrows, RequestDies
  <2> QED
    BY <1>12, <2>1 DEF HandlerThrows, RequestDies, TypeOK, tables
<1>13. CASE DeleteAccount
  BY <1>13 DEF DeleteAccount, TypeOK, bounds
<1>14. CASE UNCHANGED vars
  BY <1>14 DEF vars, TypeOK
<1> QED
  BY <1>1, <1>2, <1>3, <1>4, <1>5, <1>6, <1>7, <1>8, <1>9, <1>10, <1>11, <1>12, <1>13, <1>14
     DEF Next, Handle

-----------------------------------------------------------------------------
(* The invariant is inductive *)

\* What has been written is never lost, and runs are only counted up.
LEMMA GrowsStep ==
    ASSUME TypeOK, TypeOK', [Next]_vars
    PROVE  Grows
<1>1. ASSUME NEW w \in Workers, ApplySubscription(w) PROVE Grows
  <2> DEFINE d == DataOf(w)
             b == d.subscription
  <2>1. b \in Subscriptions /\ d.occurredAt \in Nat /\ d.occurredAt > 0
    BY DataType DEF EventData
  <2>2. \/ UNCHANGED <<subscription, applied>>
        \/ /\ subscription[b].at < d.occurredAt
           /\ subscription' = [subscription EXCEPT ![b] =
                    [at |-> d.occurredAt, status |-> d.status, planId |-> worker[w].plan]]
           /\ applied' = applied \cup {worker[w].event}
    BY <1>1, <2>1 DEF ApplySubscription, IsNewer, TypeOK, SubscriptionRow
  <2>3. \A c \in Subscriptions : subscription[c].at \in Nat
    BY DEF TypeOK, SubscriptionRow
  <2>4. \A e \in Events : runs[e] \in Nat
    BY DEF TypeOK
  <2>5. runs' = runs
    BY <1>1 DEF ApplySubscription
  <2>6. subscription \in [Subscriptions -> SubscriptionRow]
    BY DEF TypeOK
  <2> QED
    BY <2>1, <2>2, <2>3, <2>4, <2>5, <2>6 DEF Grows
<1>2. ASSUME NEW w \in Workers, Register(w) PROVE Grows
  <2>1. \A e \in Events : runs[e] \in Nat /\ runs[e] <= runs'[e]
    BY <1>2 DEF Register, TypeOK
  <2>2. \A c \in Subscriptions : subscription[c].at \in Nat
    BY DEF TypeOK, SubscriptionRow
  <2> QED
    BY <1>2, <2>1, <2>2 DEF Register, Grows, tables
<1>3. ASSUME UNCHANGED <<subscription, applied, runs>> PROVE Grows
  BY <1>3 DEF Grows, TypeOK, SubscriptionRow
<1>4. ASSUME NEW w \in Workers, Handle(w) PROVE Grows
  <2>1. CASE FindOrCreateBillingCustomer(w) BY <1>3, <2>1 DEF FindOrCreateBillingCustomer
  <2>2. CASE ReadSubscription(w) BY <1>3, <2>2 DEF ReadSubscription, tables
  <2>3. CASE ApplyPlanFromStatus(w) BY <1>3, <2>3 DEF ApplyPlanFromStatus
  <2>4. CASE IgnoreDraft(w) BY <1>3, <2>4 DEF IgnoreDraft, tables
  <2>5. CASE ReadTransaction(w) BY <1>3, <2>5 DEF ReadTransaction, tables
  <2>6. CASE ApplyTransaction(w) BY <1>3, <2>6 DEF ApplyTransaction
  <2>7. CASE ApplyAdjustment(w) BY <1>3, <2>7 DEF ApplyAdjustment
  <2>8. CASE MarkOutcome(w) BY <1>3, <2>8 DEF MarkOutcome, tables
  <2> QED
    BY <1>1, <1>2, <1>4, <2>1, <2>2, <2>3, <2>4, <2>5, <2>6, <2>7, <2>8 DEF Handle
<1>5. ASSUME NEW w \in Workers, NEW e \in Events,
             Deliver(w, e) \/ DeliverAgain(w, e) \/ RetryWebhookEvent(w, e)
      PROVE  Grows
  BY <1>3, <1>5 DEF Deliver, DeliverAgain, RetryWebhookEvent, tables
<1>6. ASSUME NEW w \in Workers, HandlerThrows(w) \/ RequestDies(w) PROVE Grows
  BY <1>3, <1>6 DEF HandlerThrows, RequestDies, tables
<1>7. CASE DeleteAccount
  BY <1>3, <1>7 DEF DeleteAccount
<1>8. CASE UNCHANGED vars
  BY <1>3, <1>8 DEF vars
<1> QED
  BY <1>4, <1>5, <1>6, <1>7, <1>8 DEF Next

\* The requests that a step does not move keep their invariant.
LEMMA OthersKept ==
    ASSUME TypeOK, TypeOK', Grows, RequestsInv, NEW w \in Workers,
           \A v \in Workers \ {w} : worker'[v] = worker[v],
           RequestInv(worker[w])'
    PROVE  RequestsInv'
<1>1. ASSUME NEW v \in Workers, worker'[v] = worker[v] PROVE RequestInv(worker[v])'
  <2>1. worker[v] \in Request /\ RequestInv(worker[v])
    BY DEF TypeOK, RequestsInv
  <2> DEFINE r == worker[v]
  <2> QED
    BY <1>1, <2>1, RequestKept
<1> QED
  BY <1>1 DEF RequestsInv

\* How a request's record changes, field by field.
LEMMA Moves ==
    ASSUME TypeOK, NEW w \in Workers
    PROVE  /\ \A pc \in PCs : GoesTo(w, pc) =>
                /\ worker'[w].pc = pc /\ worker'[w].event = worker[w].event
                /\ worker'[w].seen = worker[w].seen /\ worker'[w].plan = worker[w].plan
                /\ \A v \in Workers \ {w} : worker'[v] = worker[v]
           /\ \A o \in {"processed", "ignored", "failed"} : EndsWith(w, o) =>
                /\ worker'[w].pc = "marking" /\ worker'[w].event = worker[w].event
                /\ worker'[w].seen = worker[w].seen /\ worker'[w].outcome = o
                /\ \A v \in Workers \ {w} : worker'[v] = worker[v]
           /\ Leaves(w) =>
                /\ worker'[w].pc = "idle"
                /\ \A v \in Workers \ {w} : worker'[v] = worker[v]
BY DEF TypeOK, Request, GoesTo, EndsWith, Leaves, IdleRequest

LEMMA RequestFields ==
    ASSUME NEW r \in Request, NEW pc, NEW e, NEW p, NEW n, NEW x, NEW plan
    PROVE  LET looked == [r EXCEPT !.pc = pc, !.event = e, !.fromPaddle = p, !.seen = n,
                                   !.exists = x]
               read == [r EXCEPT !.pc = pc, !.plan = plan, !.exists = x]
           IN  /\ looked.pc = pc /\ looked.event = e /\ looked.seen = n
               /\ read.pc = pc /\ read.event = r.event /\ read.seen = r.seen
               /\ read.plan = plan
BY DEF Request

\* A request that ends without a claim about its subscription's row.
LEMMA EndsHarmlessly ==
    ASSUME TypeOK, TypeOK', Grows, RequestsInv, NEW w \in Workers,
           NEW o \in {"processed", "ignored", "failed"}, EndsWith(w, o),
           worker[w].pc \notin {"idle", "looked"},
           o = "failed" \/ Data[worker[w].event].kind # "subscription"
               \/ Recorded(worker[w].event)'
    PROVE  RequestsInv'
<1>1. worker[w].event \in Events /\ worker[w].seen \in Nat
  BY DEF TypeOK, Request
<1>2. worker[w].seen + 1 <= runs[worker[w].event]
  BY DEF RequestsInv, RequestInv
<1>3. worker[w].seen + 1 <= runs'[worker[w].event]
  BY <1>1, <1>2 DEF Grows, TypeOK
<1>4. RequestInv(worker[w])'
  BY <1>3, Moves DEF RequestInv, Recorded
<1> QED
  BY <1>4, Moves, OthersKept

\* A request that is over claims nothing.
LEMMA LeavesHarmlessly ==
    ASSUME TypeOK, TypeOK', Grows, RequestsInv, NEW w \in Workers, Leaves(w)
    PROVE  RequestsInv'
<1>1. RequestInv(worker[w])'
  BY Moves DEF RequestInv
<1> QED
  BY <1>1, Moves, OthersKept

LEMMA RequestsStep ==
    ASSUME IInv, TypeOK', Grows, [Next]_vars
    PROVE  RequestsInv'
<1> USE DEF IInv
<1>1. ASSUME NEW w \in Workers, NEW e \in Events, NEW p \in BOOLEAN, LookUp(w, e, p),
             UNCHANGED runs
      PROVE  RequestsInv'
  <2>1. CASE IsDuplicate(e)
    <3>1. \A v \in Workers : worker'[v] = worker[v]
      BY <1>1, <2>1 DEF LookUp
    <3>2. worker[w] \in Request /\ RequestInv(worker[w])
      BY DEF TypeOK, RequestsInv
    <3>3. RequestInv(worker[w])'
      BY <3>1, <3>2, RequestKept
    <3> QED
      BY <3>1, <3>3, OthersKept
  <2>2. CASE ~IsDuplicate(e)
    <3> DEFINE new == [worker[w] EXCEPT !.pc = "looked", !.event = e, !.fromPaddle = p,
                                        !.seen = row[e].attempts,
                                        !.exists = row[e].status # "none"]
    <3>a. new.pc = "looked" /\ new.event = e /\ new.seen = row[e].attempts
      BY RequestFields DEF TypeOK
    <3>b. worker' = [worker EXCEPT ![w] = new]
      BY <1>1, <2>2 DEF LookUp
    <3> HIDE DEF new
    <3>1. worker'[w].pc = "looked" /\ worker'[w].event = e /\ worker'[w].seen = row[e].attempts
          /\ \A v \in Workers \ {w} : worker'[v] = worker[v]
      BY <3>a, <3>b DEF TypeOK
    <3>2. row[e].attempts <= runs'[e]
      BY <1>1 DEF TablesInv, EventRowInv
    <3>3. RequestInv(worker[w])'
      BY <3>1, <3>2 DEF RequestInv
    <3> QED
      BY <3>1, <3>3, OthersKept
  <2> QED
    BY <2>1, <2>2
<1>2. ASSUME NEW w \in Workers, NEW e \in Events,
             Deliver(w, e) \/ DeliverAgain(w, e) \/ RetryWebhookEvent(w, e)
      PROVE  RequestsInv'
  <2>1. UNCHANGED runs /\ \E p \in BOOLEAN : LookUp(w, e, p)
    BY <1>2 DEF Deliver, DeliverAgain, RetryWebhookEvent
  <2> QED
    BY <1>1, <2>1
<1>3. ASSUME NEW w \in Workers, Register(w) PROVE RequestsInv'
  <2>1. CASE Leaves(w)
    BY <2>1, LeavesHarmlessly
  <2>2. CASE ~Leaves(w)
    <3>1. GoesTo(w, "handling") /\ worker[w].pc = "looked"
          /\ runs' = [runs EXCEPT ![worker[w].event] = @ + 1]
      BY <1>3, <2>2 DEF Register, At
    <3>2. worker[w].event \in Events /\ worker[w].seen \in Nat
          /\ worker[w].seen <= runs[worker[w].event]
      BY <3>1 DEF TypeOK, Request, RequestsInv, RequestInv
    <3>3. worker[w].seen + 1 <= runs'[worker[w].event]
      BY <3>1, <3>2 DEF TypeOK
    <3>4. RequestInv(worker[w])'
      BY <3>1, <3>3, Moves DEF RequestInv, PCs
    <3> QED
      BY <3>1, <3>4, Moves, OthersKept DEF PCs
  <2> QED
    BY <2>1, <2>2
<1>4. ASSUME NEW w \in Workers, FindOrCreateBillingCustomer(w) PROVE RequestsInv'
  <2> DEFINE e == worker[w].event
  <2>1. e \in Events /\ DataOf(w) = Data[e] /\ worker[w].pc = "handling"
        /\ Data[e].kind # "adjustment" /\ Data[e].status # "draft"
    BY <1>4, DataType DEF FindOrCreateBillingCustomer, At
  <2>2. CASE \E o \in {"ignored", "failed"} : EndsWith(w, o) /\ (o = "failed" \/ Data[e].kind = "customer")
    BY <2>1, <2>2, EndsHarmlessly
  <2>3. CASE EndsWith(w, "processed") /\ Data[e].kind = "customer"
    BY <2>1, <2>3, EndsHarmlessly
  <2>4. CASE /\ Data[e].kind # "customer"
             /\ worker' = [worker EXCEPT ![w].pc = "linked", ![w].hasUser = customer # "orphaned"]
    <3>1. worker'[w].pc = "linked" /\ worker'[w].event = e /\ worker'[w].seen = worker[w].seen
          /\ \A v \in Workers \ {w} : worker'[v] = worker[v]
      BY <2>4 DEF TypeOK, Request
    <3>2. Data[e].kind \in {"subscription", "transaction"}
      BY <2>1, <2>4, EventsAssumption DEF EventData, StatusOf
    <3>3. worker[w].seen + 1 <= runs'[e]
      BY <1>4, <2>1 DEF RequestsInv, RequestInv, FindOrCreateBillingCustomer
    <3>4. RequestInv(worker[w])'
      BY <2>1, <3>1, <3>2, <3>3 DEF RequestInv
    <3> QED
      BY <3>1, <3>4, OthersKept
  <2> QED
    BY <1>4, <2>1, <2>2, <2>3, <2>4 DEF FindOrCreateBillingCustomer
<1>5. ASSUME NEW w \in Workers, ReadSubscription(w) PROVE RequestsInv'
  <2>0. PICK e \in Events : e = worker[w].event
    BY DEF TypeOK, Request
  <2>1. e \in Events /\ DataOf(w) = Data[e] /\ worker[w].pc = "linked" /\ Data[e].kind = "subscription"
        /\ Data[e].subscription \in Subscriptions
    BY <2>0, <1>5, DataType DEF ReadSubscription, At, EventData
  <2>2. CASE Data[e].status = "unmapped"
    BY <2>0, <1>5, <2>1, <2>2, EndsHarmlessly DEF ReadSubscription
  <2>3. CASE Data[e].status # "unmapped"
    <3> DEFINE new == [worker[w] EXCEPT !.pc = "applying", !.plan = ResolvedPlan(e),
                            !.exists = subscription[Data[e].subscription].at # 0]
    <3>a. new.pc = "applying" /\ new.event = e /\ new.seen = worker[w].seen
          /\ new.plan = ResolvedPlan(e)
      BY <2>0, RequestFields DEF TypeOK
    <3>b. worker' = [worker EXCEPT ![w] = new]
      BY <2>0, <1>5, <2>1, <2>3 DEF ReadSubscription
    <3> HIDE DEF new
    <3>1. worker'[w].pc = "applying" /\ worker'[w].event = e /\ worker'[w].seen = worker[w].seen
          /\ worker'[w].plan = ResolvedPlan(e) /\ \A v \in Workers \ {w} : worker'[v] = worker[v]
      BY <2>0, <3>a, <3>b DEF TypeOK
    <3>2. Earned(ResolvedPlan(e)) \/ Data[e].plan = ResolvedPlan(e)
      BY <2>0, <2>1 DEF ResolvedPlan, TablesInv
    <3>4. worker[w].seen + 1 <= runs'[e] /\ Data[e].status # "draft"
      BY <2>0, <1>5, <2>1 DEF RequestsInv, RequestInv, ReadSubscription
    <3>5. Earned(worker[w].plan)' \/ Data[e].plan = worker'[w].plan
      BY <2>0, <1>5, <3>1, <3>2 DEF Earned, ReadSubscription, tables
    <3>6. Data[e].plan # Unresolved => worker'[w].plan = Data[e].plan
      BY <3>1 DEF ResolvedPlan
    <3>7. RequestInv(worker[w])'
      BY <2>0, <2>1, <2>3, <3>1, <3>4, <3>5, <3>6 DEF RequestInv
    <3> QED
      BY <2>0, <3>1, <3>7, OthersKept
  <2> QED
    BY <2>0, <2>2, <2>3
<1>6. ASSUME NEW w \in Workers, ApplySubscription(w) PROVE RequestsInv'
  <2>0. PICK e \in Events : e = worker[w].event
    BY DEF TypeOK, Request
  <2> DEFINE b == Data[e].subscription
  <2>1. e \in Events /\ DataOf(w) = Data[e] /\ worker[w].pc = "applying" /\ Data[e].kind = "subscription"
        /\ b \in Subscriptions /\ Data[e].occurredAt \in Nat /\ subscription[b].at \in Nat
    BY <2>0, <1>6, DataType DEF ApplySubscription, At, EventData, TypeOK, SubscriptionRow
  <2>2. worker[w].seen + 1 <= runs'[e]
    BY <2>0, <1>6, <2>1 DEF RequestsInv, RequestInv, ApplySubscription
  <2>3. CASE AfterBeaten(w)
    <3>1. RequestInv(worker[w])'
      BY <2>0, <2>2, <2>3, Moves DEF RequestInv, AfterBeaten, PCs
    <3> QED
      BY <2>0, <2>3, <3>1, Moves, OthersKept DEF AfterBeaten, PCs
  <2>4. CASE AfterRefused(w) /\ UNCHANGED subscription /\ ~IsNewer(w)
    <3>1. Recorded(e)'
      BY <2>0, <2>1, <2>4 DEF Recorded, IsNewer
    <3>2. worker'[w].event = e
      BY <2>0, <2>4, Moves DEF AfterRefused
    <3>3. Recorded(worker[w].event)'
      BY <3>1, <3>2 DEF Recorded
    <3> QED
      BY <2>1, <2>4, <3>3, EndsHarmlessly DEF AfterRefused
  <2>5. CASE /\ subscription' = [subscription EXCEPT ![b] =
                    [at |-> Data[e].occurredAt, status |-> Data[e].status, planId |-> worker[w].plan]]
             /\ applied' = applied \cup {e}
             /\ IF worker[w].hasUser THEN GoesTo(w, "granting") ELSE EndsWith(w, "processed")
    <3>1. Recorded(e)'
      BY <2>0, <2>1, <2>5 DEF Recorded, TypeOK
    <3>2. CASE ~worker[w].hasUser
      <4>1. worker'[w].event = e
        BY <2>0, <2>5, <3>2, Moves
      <4>2. Recorded(worker[w].event)'
        BY <3>1, <4>1 DEF Recorded
      <4> QED
        BY <2>1, <2>5, <3>2, <4>2, EndsHarmlessly
    <3>3. CASE worker[w].hasUser
      <4>1. worker'[w].pc = "granting" /\ worker'[w].event = e /\ worker'[w].seen = worker[w].seen
            /\ worker'[w].plan = worker[w].plan /\ \A v \in Workers \ {w} : worker'[v] = worker[v]
        BY <2>0, <2>5, <3>3, Moves DEF PCs
      <4>2. Earned(worker[w].plan) \/ Data[e].plan = worker[w].plan
        BY <2>0, <2>1 DEF RequestsInv, RequestInv
      <4>3. Earned(worker[w].plan)'
        BY <2>0, <2>5, <4>1, <4>2 DEF Earned
      <4>4. RequestInv(worker[w])'
        BY <2>0, <2>1, <2>2, <2>5, <3>1, <4>1, <4>3 DEF RequestInv, Recorded
      <4> QED
        BY <2>0, <4>1, <4>4, OthersKept
    <3> QED
      BY <2>0, <3>2, <3>3
  <2> QED
    BY <2>0, <1>6, <2>1, <2>3, <2>4, <2>5 DEF ApplySubscription
<1>7. ASSUME NEW w \in Workers, ApplyPlanFromStatus(w) PROVE RequestsInv'
  <2>1. Recorded(worker[w].event) /\ worker[w].pc = "granting" /\ subscription' = subscription
        /\ EndsWith(w, "processed")
    BY <1>7 DEF RequestsInv, RequestInv, ApplyPlanFromStatus, At
  <2>2. worker'[w].event = worker[w].event
    BY <2>1, Moves
  <2> QED
    BY <2>1, <2>2, EndsHarmlessly DEF Recorded
<1>8. ASSUME NEW w \in Workers, IgnoreDraft(w) PROVE RequestsInv'
  <2>1. Data[worker[w].event].kind # "subscription"
    BY <1>8, DataType DEF IgnoreDraft, StatusOf, LocalStatus
  <2> QED
    BY <1>8, <2>1, EndsHarmlessly DEF IgnoreDraft, At
<1>9. ASSUME NEW w \in Workers, ReadTransaction(w) PROVE RequestsInv'
  <2> DEFINE e == worker[w].event
  <2>1. Data[e].kind = "transaction" /\ worker[w].pc = "linked" /\ runs' = runs
    BY <1>9, DataType DEF ReadTransaction, At, tables
  <2>2. worker'[w].pc = "applying" /\ worker'[w].event = e /\ worker'[w].seen = worker[w].seen
        /\ \A v \in Workers \ {w} : worker'[v] = worker[v]
    BY <1>9 DEF ReadTransaction, TypeOK, Request
  <2>3. worker[w].seen + 1 <= runs'[e] /\ Data[e].status # "draft"
    BY <2>1 DEF RequestsInv, RequestInv
  <2>4. RequestInv(worker[w])'
    BY <2>1, <2>2, <2>3 DEF RequestInv
  <2> QED
    BY <2>2, <2>4, OthersKept
<1>10. ASSUME NEW w \in Workers, ApplyTransaction(w) PROVE RequestsInv'
  <2>1. Data[worker[w].event].kind = "transaction" /\ worker[w].pc = "applying" /\ runs' = runs
    BY <1>10, DataType DEF ApplyTransaction, At
  <2>2. CASE AfterBeaten(w)
    <3>1. worker[w].seen + 1 <= runs'[worker[w].event]
      BY <2>1 DEF RequestsInv, RequestInv
    <3>2. RequestInv(worker[w])'
      BY <2>2, <3>1, Moves DEF RequestInv, AfterBeaten, PCs
    <3> QED
      BY <2>2, <3>2, Moves, OthersKept DEF AfterBeaten, PCs
  <2>3. CASE EndsWith(w, "processed")
    BY <2>1, <2>3, EndsHarmlessly
  <2> QED
    BY <1>10, <2>2, <2>3 DEF ApplyTransaction
<1>11. ASSUME NEW w \in Workers, ApplyAdjustment(w) PROVE RequestsInv'
  <2>1. Data[worker[w].event].kind = "adjustment" /\ worker[w].pc = "handling"
        /\ \E o \in {"processed", "ignored", "failed"} : EndsWith(w, o)
    BY <1>11, DataType DEF ApplyAdjustment, At
  <2> QED
    BY <2>1, EndsHarmlessly
<1>12. ASSUME NEW w \in Workers, MarkOutcome(w) PROVE RequestsInv'
  BY <1>12, LeavesHarmlessly DEF MarkOutcome
<1>13. ASSUME NEW w \in Workers, HandlerThrows(w) PROVE RequestsInv'
  BY <1>13, EndsHarmlessly DEF HandlerThrows
<1>14. ASSUME NEW w \in Workers, RequestDies(w) PROVE RequestsInv'
  BY <1>14, LeavesHarmlessly DEF RequestDies
<1>15. ASSUME UNCHANGED worker PROVE RequestsInv'
  <2>1. ASSUME NEW v \in Workers PROVE RequestInv(worker[v])'
    <3>1. worker[v] \in Request /\ RequestInv(worker[v]) /\ worker'[v] = worker[v]
      BY <1>15 DEF TypeOK, RequestsInv
    <3> QED
      BY <3>1, RequestKept
  <2> QED
    BY <2>1 DEF RequestsInv
<1>16. CASE DeleteAccount
  BY <1>15, <1>16 DEF DeleteAccount
<1>17. CASE UNCHANGED vars
  BY <1>15, <1>17 DEF vars
<1> QED
  BY <1>2, <1>3, <1>4, <1>5, <1>6, <1>7, <1>8, <1>9, <1>10, <1>11, <1>12, <1>13, <1>14, <1>16, <1>17
     DEF Next, Handle

LEMMA TablesStep ==
    ASSUME IInv, TypeOK', Grows, [Next]_vars
    PROVE  TablesInv'
<1> USE DEF IInv
<1>1. ASSUME NEW e \in Events, row'[e] = row[e] PROVE EventRowInv(e)'
  <2>1. EventRowInv(e) /\ runs[e] \in Nat /\ runs'[e] \in Nat /\ runs[e] <= runs'[e]
        /\ row[e].attempts \in Nat
    BY DEF TablesInv, Grows, TypeOK, EventRow
  <2>2. Recorded(e) => Recorded(e)'
    <3>1. Data[e].subscription \in Subscriptions /\ Data[e].occurredAt \in Nat
      BY EventsAssumption DEF EventData
    <3> QED
      BY <3>1 DEF Recorded, Grows, TypeOK, SubscriptionRow
  <2> QED
    BY <1>1, <2>1, <2>2, EventsAssumption DEF EventRowInv
<1>2. ASSUME UNCHANGED <<row, subscription, account>> PROVE TablesInv'
  <2>1. \A b \in Subscriptions : Earned(subscription[b].planId)'
    BY <1>2 DEF TablesInv, Earned, Grows
  <2>2. NoUnearnedPlan'
    BY <1>2 DEF TablesInv, NoUnearnedPlan, Grows
  <2> QED
    BY <1>1, <1>2, <2>1, <2>2 DEF TablesInv
<1>3. ASSUME NEW w \in Workers, Register(w) PROVE TablesInv'
  <2>0. PICK e \in Events : e = worker[w].event
    BY DEF TypeOK, Request
  <2>1. UNCHANGED <<subscription, account, applied>>
    BY <1>3 DEF Register, tables
  <2>2. \A f \in Events \ {e} : row'[f] = row[f]
    BY <1>3, <2>0 DEF Register, TypeOK
  <2>3. \/ row' = row
        \/ row'[e].status \in {"pending", "retrying"} /\ row'[e].attempts <= runs'[e]
    <3>1. worker[w].pc = "looked" /\ worker[w].seen <= runs[e] /\ runs[e] \in Nat
          /\ worker[w].seen \in Nat
      BY <1>3, <2>0 DEF Register, At, RequestsInv, RequestInv, TypeOK, Request
    <3> QED
      BY <1>3, <2>0, <3>1 DEF Register, TypeOK
  <2>4. EventRowInv(e)'
    BY <1>1, <2>3 DEF EventRowInv
  <2>5. \A f \in Events : EventRowInv(f)'
    BY <1>1, <2>2, <2>4
  <2> QED
    BY <2>1, <2>5 DEF TablesInv, Earned, NoUnearnedPlan
<1>4. ASSUME NEW w \in Workers, MarkOutcome(w) PROVE TablesInv'
  <2>0. PICK e \in Events : e = worker[w].event
    BY DEF TypeOK, Request
  <2>1. UNCHANGED <<subscription, account, applied, runs>>
    BY <1>4 DEF MarkOutcome, tables
  <2>2. \A f \in Events \ {e} : row'[f] = row[f]
    BY <1>4, <2>0 DEF MarkOutcome, TypeOK
  <2>3. worker[w].pc = "marking" /\ worker[w].seen + 1 <= runs[e] /\ row[e].attempts <= runs[e]
        /\ worker[w].seen \in Nat /\ runs[e] \in Nat
        /\ worker[w].outcome \in {"processed", "ignored", "failed"}
    BY <1>4, <2>0 DEF MarkOutcome, At, RequestsInv, RequestInv, TablesInv, EventRowInv, TypeOK, Request
  <2>4. row'[e].attempts = row[e].attempts
        /\ row'[e].status = (IF worker[w].outcome # "failed" THEN worker[w].outcome
                             ELSE IF GivesUp(w) THEN "permanently_failed" ELSE "failed")
    BY <1>4, <2>0 DEF MarkOutcome, TypeOK, EventRow
  <2>5. row'[e].status = "permanently_failed" => runs'[e] >= MaxAttempts
    BY <2>1, <2>3, <2>4, EventsAssumption DEF GivesUp
  <2>6. Data[e].kind = "subscription" /\ row'[e].status \in {"processed", "ignored"} => Recorded(e)'
    BY <2>0, <2>1, <2>3, <2>4 DEF RequestsInv, RequestInv, Recorded
  <2>7. EventRowInv(e)'
    BY <2>1, <2>3, <2>4, <2>5, <2>6 DEF EventRowInv
  <2>8. \A f \in Events : EventRowInv(f)'
    BY <1>1, <2>2, <2>7
  <2> QED
    BY <2>1, <2>8 DEF TablesInv, Earned, NoUnearnedPlan
<1>5. ASSUME NEW w \in Workers, ApplySubscription(w) PROVE TablesInv'
  <2>0. PICK e \in Events : e = worker[w].event
    BY DEF TypeOK, Request
  <2> DEFINE b == Data[e].subscription
  <2>1. row' = row /\ account' = account
    BY <1>5 DEF ApplySubscription
  <2>2. CASE UNCHANGED <<subscription, applied>>
    BY <1>2, <2>1, <2>2
  <2>3. CASE /\ subscription' = [subscription EXCEPT ![b] =
                    [at |-> Data[e].occurredAt, status |-> Data[e].status, planId |-> worker[w].plan]]
             /\ applied' = applied \cup {e}
    <3>1. Earned(worker[w].plan) \/ Data[e].plan = worker[w].plan
      BY <1>5, <2>0, DataType DEF ApplySubscription, At, RequestsInv, RequestInv
    <3>2. worker[w].plan = "free" \/ \E f \in applied' : Data[f].plan = worker[w].plan
      BY <2>3, <3>1 DEF Earned
    <3>3. ASSUME NEW c \in Subscriptions PROVE Earned(subscription[c].planId)'
      <4>1. CASE c = b
        BY <2>3, <3>2, <4>1 DEF Earned, TypeOK
      <4>2. CASE c # b
        <5>1. subscription'[c].planId = subscription[c].planId
          BY <2>3, <4>2 DEF TypeOK
        <5> QED
          BY <5>1 DEF Earned, TablesInv, Grows
      <4> QED
        BY <4>1, <4>2
    <3>4. NoUnearnedPlan'
      BY <2>1 DEF TablesInv, NoUnearnedPlan, Grows
    <3> QED
      BY <1>1, <2>1, <3>3, <3>4 DEF TablesInv
  <2> QED
    BY <1>5, <2>0, <2>2, <2>3, DataType DEF ApplySubscription
<1>6. ASSUME NEW w \in Workers, ApplyPlanFromStatus(w) PROVE TablesInv'
  <2>0. PICK e \in Events : e = worker[w].event
    BY DEF TypeOK, Request
  <2>1. UNCHANGED <<row, subscription, applied>>
    BY <1>6 DEF ApplyPlanFromStatus
  <2>2. e \in applied /\ Earned(worker[w].plan)
    BY <1>6, <2>0 DEF ApplyPlanFromStatus, At, RequestsInv, RequestInv
  <2>3. \/ account' \in {account, "free"}
        \/ account' = worker[w].plan /\ Data[e].status \in Entitled
    BY <1>6, <2>0, DataType DEF ApplyPlanFromStatus, PlanFromStatus
  <2>4. NoUnearnedPlan'
    BY <2>1, <2>2, <2>3 DEF NoUnearnedPlan, TablesInv, Earned
  <2>5. \A f \in Events : EventRowInv(f)'
    BY <1>1, <2>1
  <2> QED
    BY <2>1, <2>4, <2>5 DEF TablesInv, Earned
<1>7. CASE DeleteAccount
  <2>1. UNCHANGED <<row, subscription, applied>> /\ account' = "deleted"
    BY <1>7 DEF DeleteAccount
  <2>2. NoUnearnedPlan'
    BY <2>1 DEF NoUnearnedPlan
  <2>3. \A f \in Events : EventRowInv(f)'
    BY <1>1, <2>1
  <2> QED
    BY <2>1, <2>2, <2>3 DEF TablesInv, Earned
<1>8. ASSUME NEW w \in Workers, Handle(w) PROVE TablesInv'
  <2>1. CASE FindOrCreateBillingCustomer(w) BY <1>2, <2>1 DEF FindOrCreateBillingCustomer
  <2>2. CASE ReadSubscription(w) BY <1>2, <2>2 DEF ReadSubscription, tables
  <2>3. CASE IgnoreDraft(w) BY <1>2, <2>3 DEF IgnoreDraft, tables
  <2>4. CASE ReadTransaction(w) BY <1>2, <2>4 DEF ReadTransaction, tables
  <2>5. CASE ApplyTransaction(w) BY <1>2, <2>5 DEF ApplyTransaction
  <2>6. CASE ApplyAdjustment(w) BY <1>2, <2>6 DEF ApplyAdjustment
  <2> QED
    BY <1>3, <1>4, <1>5, <1>6, <1>8, <2>1, <2>2, <2>3, <2>4, <2>5, <2>6 DEF Handle
<1>9. ASSUME NEW w \in Workers, NEW e \in Events,
             Deliver(w, e) \/ DeliverAgain(w, e) \/ RetryWebhookEvent(w, e)
      PROVE  TablesInv'
  BY <1>2, <1>9 DEF Deliver, DeliverAgain, RetryWebhookEvent, tables
<1>10. ASSUME NEW w \in Workers, HandlerThrows(w) \/ RequestDies(w) PROVE TablesInv'
  BY <1>2, <1>10 DEF HandlerThrows, RequestDies, tables
<1>11. CASE UNCHANGED vars
  BY <1>2, <1>11 DEF vars
<1> QED
  BY <1>7, <1>8, <1>9, <1>10, <1>11 DEF Next

LEMMA InitInvariant == Init => IInv
<1> SUFFICES ASSUME Init PROVE IInv
  OBVIOUS
<1>1. TypeOK
  BY InitType
<1>2. RequestsInv
  BY DEF Init, RequestsInv, RequestInv, IdleRequest
<1>3. ASSUME NEW e \in Events PROVE EventRowInv(e)
  BY DEF Init, EventRowInv, NoEventRow
<1>4. (\A b \in Subscriptions : Earned(subscription[b].planId)) /\ NoUnearnedPlan
  BY DEF Init, Earned, NoUnearnedPlan, NoSubscription
<1> QED
  BY <1>1, <1>2, <1>3, <1>4 DEF IInv, TablesInv

LEMMA InductiveStep == IInv /\ [Next]_vars => IInv'
<1> SUFFICES ASSUME IInv, [Next]_vars PROVE IInv'
  OBVIOUS
<1>1. TypeOK'
  BY TypeStep DEF IInv
<1>2. Grows
  BY <1>1, GrowsStep DEF IInv
<1> QED
  BY <1>1, <1>2, RequestsStep, TablesStep DEF IInv

LEMMA Invariant == Spec => []IInv
  BY InitInvariant, InductiveStep, PTL DEF Spec

-----------------------------------------------------------------------------
(* Adjustments *)

\* A request that is about to be marked processed has recorded its adjustment.
Adjusted(e) == Data[e].kind = "adjustment" => Data[e].status \in transaction.adjustments

AdjustmentsKept ==
    /\ \A w \in Workers : \A e \in Events :
            At(w, "marking") /\ worker[w].outcome = "processed" /\ worker[w].event = e
                => Adjusted(e)
    /\ ProcessedAdjustmentsStay

\* A step that takes nothing from the adjustments, settles no event, and has no
\* request but w come to its end.
LEMMA AdjustmentsStay ==
    ASSUME AdjustmentsKept, transaction.adjustments \subseteq transaction'.adjustments,
           \A e \in Events : row'[e].status = "processed" => row[e].status = "processed",
           NEW w \in Workers, \A v \in Workers \ {w} : worker'[v] = worker[v],
           \A e \in Events :
                worker'[w].pc = "marking" /\ worker'[w].outcome = "processed"
                    /\ worker'[w].event = e => Adjusted(e)'
    PROVE  AdjustmentsKept'
<1>1. \A e \in Events : Adjusted(e) => Adjusted(e)'
  BY DEF Adjusted
<1>2. ProcessedAdjustmentsStay'
  BY DEF AdjustmentsKept, ProcessedAdjustmentsStay
<1>3. QED
  BY <1>1, <1>2 DEF AdjustmentsKept, At

\* What a step of request w leaves of the transaction and of the event rows.
LEMMA HandlingStays ==
    ASSUME AdjustmentsKept, TypeOK, transaction' = transaction, row' = row, NEW w \in Workers,
           \/ \E pc \in PCs \ {"marking"} : GoesTo(w, pc)
           \/ \E o \in {"ignored", "failed"} : EndsWith(w, o)
           \/ \E o \in {"processed", "ignored", "failed"} :
                    EndsWith(w, o) /\ Data[worker[w].event].kind # "adjustment"
           \/ Leaves(w)
    PROVE  AdjustmentsKept'
<1>1. \A v \in Workers \ {w} : worker'[v] = worker[v]
  BY Moves
<1>2. \A e \in Events :
          worker'[w].pc = "marking" /\ worker'[w].outcome = "processed" /\ worker'[w].event = e
              => Adjusted(e)'
  BY Moves DEF Adjusted
<1>3. QED
  BY <1>1, <1>2, AdjustmentsStay

\* A record of a request that goes on with what it has read is not at its end.
LEMMA ReadingOn ==
    ASSUME AdjustmentsKept, TypeOK, transaction' = transaction, row' = row, NEW w \in Workers,
           NEW r, worker' = [worker EXCEPT ![w] = r], r.pc # "marking"
    PROVE  AdjustmentsKept'
<1>1. worker'[w] = r /\ \A v \in Workers \ {w} : worker'[v] = worker[v]
  BY DEF TypeOK
<1>2. QED
  BY <1>1, AdjustmentsStay

LEMMA AdjustmentsStep ==
    ASSUME IInv, AdjustmentsKept, [Next]_vars
    PROVE  AdjustmentsKept'
<1> USE DEF IInv
<1>1. ASSUME NEW w \in Workers, NEW e \in Events, NEW p \in BOOLEAN, LookUp(w, e, p),
             UNCHANGED <<row, tables>>
      PROVE  AdjustmentsKept'
  <2>0. transaction' = transaction /\ row' = row
    BY <1>1 DEF tables
  <2>1. CASE worker' = worker
    BY <2>0, <2>1 DEF AdjustmentsKept, ProcessedAdjustmentsStay, Adjusted, At
  <2>2. CASE ~IsDuplicate(e)
    <3>1. PICK r : r = [worker[w] EXCEPT !.pc = "looked", !.event = e, !.fromPaddle = p,
                                         !.seen = row[e].attempts,
                                         !.exists = row[e].status # "none"]
      OBVIOUS
    <3>2. worker[w] \in Request
      BY DEF TypeOK
    <3>3. r.pc = "looked"
      BY <3>1, <3>2, RequestFields
    <3>4. worker' = [worker EXCEPT ![w] = r]
      BY <1>1, <2>2, <3>1 DEF LookUp
    <3>5. QED
      BY <2>0, <3>3, <3>4, ReadingOn
  <2>3. QED
    BY <1>1, <2>1, <2>2 DEF LookUp
<1>2. ASSUME NEW w \in Workers, NEW e \in Events,
             Deliver(w, e) \/ DeliverAgain(w, e) \/ RetryWebhookEvent(w, e)
      PROVE  AdjustmentsKept'
  BY <1>1, <1>2 DEF Deliver, DeliverAgain, RetryWebhookEvent
<1>3. ASSUME NEW w \in Workers, Register(w) PROVE AdjustmentsKept'
  <2>1. \A e \in Events : row'[e].status = "processed" => row[e].status = "processed"
    <3>1. PICK f \in Events : f = worker[w].event
      BY DEF TypeOK, Request
    <3>2. \/ row' = row
          \/ \E s \in {"pending", "retrying"}, n \in Nat :
                row' = [row EXCEPT ![f] = [status |-> s, attempts |-> n]]
      BY <1>3, <3>1 DEF Register, TypeOK, Request
    <3>3. QED
      BY <3>2 DEF TypeOK
  <2>2. transaction' = transaction
    BY <1>3 DEF Register, tables
  <2>3. Leaves(w) \/ GoesTo(w, "handling")
    BY <1>3 DEF Register
  <2>4. worker'[w].pc # "marking" /\ \A v \in Workers \ {w} : worker'[v] = worker[v]
    BY <2>3, Moves DEF PCs
  <2>5. QED
    BY <2>1, <2>2, <2>4, AdjustmentsStay
<1>4. ASSUME NEW w \in Workers, FindOrCreateBillingCustomer(w) PROVE AdjustmentsKept'
  <2>1. transaction' = transaction /\ row' = row /\ Data[worker[w].event].kind # "adjustment"
    BY <1>4, DataType DEF FindOrCreateBillingCustomer
  <2>2. CASE \E o \in {"processed", "ignored", "failed"} : EndsWith(w, o)
    BY <2>1, <2>2, HandlingStays
  <2>3. CASE worker' = [worker EXCEPT ![w].pc = "linked", ![w].hasUser = customer # "orphaned"]
    <3>1. PICK r : r = [worker[w] EXCEPT !.pc = "linked", !.hasUser = customer # "orphaned"]
      OBVIOUS
    <3>2. r.pc = "linked" /\ worker' = [worker EXCEPT ![w] = r]
      BY <2>3, <3>1 DEF TypeOK, Request
    <3>3. QED
      BY <2>1, <3>2, ReadingOn
  <2>4. QED
    BY <1>4, <2>2, <2>3 DEF FindOrCreateBillingCustomer
<1>5. ASSUME NEW w \in Workers, ReadSubscription(w) PROVE AdjustmentsKept'
  <2>1. transaction' = transaction /\ row' = row
    BY <1>5 DEF ReadSubscription, tables
  <2>2. CASE EndsWith(w, "failed")
    BY <2>1, <2>2, HandlingStays
  <2>3. CASE ~EndsWith(w, "failed")
    <3>1. PICK plan, exists :
              worker' = [worker EXCEPT ![w] =
                            [@ EXCEPT !.pc = "applying", !.plan = plan, !.exists = exists]]
      BY <1>5, <2>3 DEF ReadSubscription
    <3>2. PICK r : r = [worker[w] EXCEPT !.pc = "applying", !.plan = plan, !.exists = exists]
      OBVIOUS
    <3>3. r.pc = "applying" /\ worker' = [worker EXCEPT ![w] = r]
      BY <3>1, <3>2 DEF TypeOK, Request
    <3>4. QED
      BY <2>1, <3>3, ReadingOn
  <2>4. QED
    BY <2>2, <2>3
<1>6. ASSUME NEW w \in Workers, ApplySubscription(w) PROVE AdjustmentsKept'
  <2>1. transaction' = transaction /\ row' = row /\ Data[worker[w].event].kind # "adjustment"
    BY <1>6, DataType DEF ApplySubscription
  <2>2. GoesTo(w, "handling") \/ GoesTo(w, "granting")
        \/ \E o \in {"processed", "ignored", "failed"} : EndsWith(w, o)
    BY <1>6 DEF ApplySubscription, AfterBeaten, AfterRefused
  <2>3. QED
    BY <2>1, <2>2, HandlingStays DEF PCs
<1>7. ASSUME NEW w \in Workers, ApplyPlanFromStatus(w) PROVE AdjustmentsKept'
  <2>1. transaction' = transaction /\ row' = row /\ EndsWith(w, "processed")
    BY <1>7 DEF ApplyPlanFromStatus
  <2>2. Data[worker[w].event].kind # "adjustment"
    BY <1>7 DEF ApplyPlanFromStatus, At, RequestsInv, RequestInv
  <2>3. QED
    BY <2>1, <2>2, HandlingStays
<1>8. ASSUME NEW w \in Workers, IgnoreDraft(w) PROVE AdjustmentsKept'
  BY <1>8, HandlingStays DEF IgnoreDraft, tables
<1>9. ASSUME NEW w \in Workers, ReadTransaction(w) PROVE AdjustmentsKept'
  <2>1. PICK r : r = [worker[w] EXCEPT !.pc = "applying", !.exists = transaction.status # "none"]
    OBVIOUS
  <2>2. r.pc = "applying" /\ worker' = [worker EXCEPT ![w] = r]
    BY <1>9, <2>1 DEF ReadTransaction, TypeOK, Request
  <2>3. QED
    BY <1>9, <2>2, ReadingOn DEF ReadTransaction, tables
<1>10. ASSUME NEW w \in Workers, ApplyTransaction(w) PROVE AdjustmentsKept'
  <2>1. row' = row /\ Data[worker[w].event].kind # "adjustment"
    BY <1>10, DataType DEF ApplyTransaction
  <2>2. transaction'.adjustments = transaction.adjustments
    BY <1>10 DEF ApplyTransaction, WithStatus, TypeOK, TransactionRow
  <2>3. GoesTo(w, "handling") \/ EndsWith(w, "processed")
    BY <1>10 DEF ApplyTransaction, AfterBeaten
  <2>4. /\ \A v \in Workers \ {w} : worker'[v] = worker[v]
        /\ worker'[w].event = worker[w].event
    BY <2>3, Moves DEF PCs
  <2>5. QED
    BY <2>1, <2>2, <2>4, AdjustmentsStay DEF Adjusted
<1>11. ASSUME NEW w \in Workers, ApplyAdjustment(w) PROVE AdjustmentsKept'
  <2>1. row' = row /\ DataOf(w) = Data[worker[w].event]
    BY <1>11, DataType DEF ApplyAdjustment
  <2>2. CASE transaction' = transaction /\ (EndsWith(w, "failed") \/ EndsWith(w, "ignored"))
    BY <2>1, <2>2, HandlingStays
  <2>3. CASE /\ transaction' = [transaction EXCEPT !.adjustments = @ \cup {DataOf(w).status}]
             /\ EndsWith(w, "processed")
    <3>1. transaction'.adjustments = transaction.adjustments \cup {DataOf(w).status}
      BY <2>3 DEF TypeOK, TransactionRow
    <3>2. /\ \A v \in Workers \ {w} : worker'[v] = worker[v]
          /\ worker'[w].event = worker[w].event
      BY <2>3, Moves
    <3>3. QED
      BY <2>1, <3>1, <3>2, AdjustmentsStay DEF Adjusted
  <2>4. QED
    BY <1>11, <2>2, <2>3 DEF ApplyAdjustment
<1>12. ASSUME NEW w \in Workers, MarkOutcome(w) PROVE AdjustmentsKept'
  <2>1. PICK f \in Events : f = worker[w].event
    BY DEF TypeOK, Request
  <2>2. transaction' = transaction /\ Leaves(w) /\ At(w, "marking")
    BY <1>12 DEF MarkOutcome, tables
  <2>3. worker'[w].pc = "idle" /\ \A v \in Workers \ {w} : worker'[v] = worker[v]
    BY <2>2, Moves
  <2>4. /\ \A e \in Events \ {f} : row'[e] = row[e]
        /\ row'[f].status = "processed" => worker[w].outcome = "processed"
    BY <1>12, <2>1 DEF MarkOutcome, TypeOK, EventRow
  <2>5. \A e \in Events : Adjusted(e)' = Adjusted(e)
    BY <2>2 DEF Adjusted
  <2>6. row'[f].status = "processed" => Adjusted(f)'
    BY <2>1, <2>2, <2>4, <2>5 DEF AdjustmentsKept
  <2>7. ProcessedAdjustmentsStay'
    BY <2>2, <2>4, <2>6 DEF AdjustmentsKept, ProcessedAdjustmentsStay, Adjusted
  <2>8. QED
    BY <2>3, <2>5, <2>7 DEF AdjustmentsKept, At
<1>13. ASSUME NEW w \in Workers, HandlerThrows(w) \/ RequestDies(w) PROVE AdjustmentsKept'
  BY <1>13, HandlingStays DEF HandlerThrows, RequestDies, tables
<1>14. CASE DeleteAccount \/ UNCHANGED vars
  BY <1>14 DEF DeleteAccount, vars, AdjustmentsKept, ProcessedAdjustmentsStay, Adjusted, At
<1>15. QED
  BY <1>2, <1>3, <1>4, <1>5, <1>6, <1>7, <1>8, <1>9, <1>10, <1>11, <1>12, <1>13, <1>14
     DEF Next, Handle

-----------------------------------------------------------------------------
(* Theorems *)

\* The variables of the webhook processor keep their types.
THEOREM WebhookTypeCorrect == Spec => []TypeOK
<1>1. IInv => TypeOK
  BY DEF IInv
<1> QED
  BY Invariant, <1>1, PTL

\* A subscription event that is marked processed or ignored is in the row, or
\* a newer one is: no overlap, failure or crash loses the newest event.
THEOREM SettledEventsKept == Spec => []SettledEventsAreInTheRow
<1>1. IInv => SettledEventsAreInTheRow
  BY DEF IInv, TablesInv, EventRowInv, Recorded, SettledEventsAreInTheRow
<1> QED
  BY Invariant, <1>1, PTL

\* A user holds a paid plan only because of events that were written.
THEOREM PlansAreEarned == Spec => []NoUnearnedPlan
<1>1. IInv => NoUnearnedPlan
  BY DEF IInv, TablesInv
<1> QED
  BY Invariant, <1>1, PTL

\* Overlapping deliveries never make an event be given up on too early.
THEOREM PatientRetries == Spec => []GivesUpOnlyAfterMaxAttempts
<1>1. IInv => GivesUpOnlyAfterMaxAttempts
  BY DEF IInv, TablesInv, EventRowInv, GivesUpOnlyAfterMaxAttempts
<1> QED
  BY Invariant, <1>1, PTL

\* A refund that is marked processed stays on its transaction, whichever
\* transaction events write the row after it.
THEOREM AdjustmentsStayRecorded == Spec => []ProcessedAdjustmentsStay
<1>1. Init => AdjustmentsKept
  BY DEF Init, AdjustmentsKept, ProcessedAdjustmentsStay, At, IdleRequest, NoEventRow
<1>2. AdjustmentsKept => ProcessedAdjustmentsStay
  BY DEF AdjustmentsKept
<1>3. IInv /\ AdjustmentsKept /\ [Next]_vars => AdjustmentsKept'
  BY AdjustmentsStep
<1>4. QED
  BY <1>1, <1>2, <1>3, Invariant, PTL DEF Spec

\* The compare-and-swap makes every row of "subscriptions" a register of its
\* newest event: the detailed specification implements SubscriptionRegister.
THEOREM WebhookImplementsRegisters == Spec => RowsAreRegisters
<1>1. Init => Rows!Init
  BY DEF Init, Rows!Init, NoSubscription
<1>2. IInv /\ IInv' /\ [Next]_vars => [Rows!Next]_subscription
  <2> SUFFICES ASSUME IInv, [Next]_vars, subscription' # subscription
               PROVE  Rows!Next
    OBVIOUS
  <2> USE DEF IInv
  <2>1. PICK w \in Workers : ApplySubscription(w)
    BY DEF Next, Handle, Deliver, DeliverAgain, RetryWebhookEvent, Register,
       FindOrCreateBillingCustomer, ReadSubscription, ApplyPlanFromStatus, IgnoreDraft,
       ReadTransaction, ApplyTransaction, ApplyAdjustment, MarkOutcome, HandlerThrows,
       RequestDies, DeleteAccount, vars, tables
  <2>2. PICK e \in Events : e = worker[w].event
    BY DEF TypeOK, Request
  <2> DEFINE b == Data[e].subscription
             plan == worker[w].plan
             status == Data[e].status
  <2>3. Data[e].kind = "subscription" /\ worker[w].pc = "applying" /\ DataOf(w) = Data[e]
        /\ b \in Subscriptions /\ Data[e].occurredAt \in Nat \ {0} /\ plan \in Plans
    BY <2>1, <2>2, DataType DEF ApplySubscription, At, EventData, TypeOK, Request
  <2>4. /\ subscription[b].at < Data[e].occurredAt
        /\ subscription' = [subscription EXCEPT ![b] =
                [at |-> Data[e].occurredAt, status |-> status, planId |-> plan]]
    BY <2>1, <2>2, <2>3 DEF ApplySubscription, IsNewer, TypeOK, SubscriptionRow
  <2>5. Data[e].plan # Unresolved => plan = Data[e].plan
    BY <2>2, <2>3 DEF RequestsInv, RequestInv
  <2> DEFINE c == [status |-> status, planId |-> plan]
  <2>6. c \in WrittenContent[e] /\ c.status = status /\ c.planId = plan
    BY <2>3, <2>5 DEF WrittenContent, SubscriptionEvents
  <2>7. Rows!Apply(e)
    BY <2>4, <2>6 DEF Rows!Apply, SubscriptionOf, OccurredAt
  <2> QED
    BY <2>3, <2>7 DEF Rows!Next, SubscriptionEvents
<1> QED
  BY <1>1, <1>2, Invariant, PTL DEF Spec, RowsAreRegisters, Rows!Spec
=============================================================================
