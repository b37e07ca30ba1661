----------------------------- MODULE PlanChanges -----------------------------
(***************************************************************************)
(* Who writes the plan of a customer and the price of a subscription, and  *)
(* in which order: plan changes by the customer, the daily sweep of        *)
(* scheduled downgrades, the webhook, an admin's resync, and temporary     *)
(* entitlements with their expiry.                                         *)
(*                                                                         *)
(* One customer with one subscription.  Paddle is modelled by what the     *)
(* code asks of it and hears from it: it keeps the subscription, takes new *)
(* prices while it is not cancelled, renews or cancels it, and sends an    *)
(* event with its state after every change, at any later time and in any   *)
(* order.  The idempotency of the webhook is the business of               *)
(* BillingWebhook; here an event is applied when it is newer than the row. *)
(* "trialing" is treated like "active" everywhere and is left out.         *)
(*                                                                         *)
(* Every request runs without a transaction; each action is one SQL        *)
(* statement or one call of Paddle's API.                                  *)
(***************************************************************************)
EXTENDS Naturals, FiniteSets

CONSTANTS
    Prices,             \* prices on offer, records [planId, interval]
    FirstPrice,         \* the price the subscription was bought at
    GrantedPlan,        \* the plan an admin grants for a while
    Grants,             \* ids of temporary_entitlements rows
    None,               \* no price, no grant
    Requests            \* requests and jobs that may overlap

CONSTANTS               \* bounds of the model, not of the code
    MaxVersion,         \* changes at Paddle
    MaxPeriod           \* billing periods

PlanRank == [solo |-> 1, pro |-> 2, agency |-> 3]
IntervalWeight == [month |-> 0, year |-> 1]
PaidPlans == DOMAIN PlanRank
Plans == PaidPlans \cup {"free"}

ASSUME PlanChangesAssumption ==
    /\ Prices \subseteq [planId: PaidPlans, interval: DOMAIN IntervalWeight]
    /\ FirstPrice \in Prices /\ GrantedPlan \in PaidPlans
    /\ None \notin Prices \cup Grants
    /\ MaxVersion \in Nat /\ MaxPeriod \in Nat

VARIABLES
    paddle,             \* the subscription at Paddle
    mail,               \* events not delivered yet
    row,                \* the row of "subscriptions"
    planId,             \* users.plan_id
    grant,              \* grant[g]: the row of temporary_entitlements
    request,            \* request[r]: a request or a job
    wish,               \* history: what the customer last asked for
    excused             \* history: what overlapping or killed requests have broken

vars == <<paddle, mail, row, planId, grant, request, wish, excused>>

-----------------------------------------------------------------------------
(* Prices and rows *)

Statuses == {"active", "past_due", "cancelled"}

Rank(price) == 10 * PlanRank[price.planId] + IntervalWeight[price.interval]

\* planChangeDirection.
IsImmediate(current, target) == Rank(target) > Rank(current)

\* What an event or a GET tells: version is occurred_at.
Snapshot == [version: Nat, price: Prices, status: Statuses, period: Nat]

\* at: last_applied_occurred_at; period: current_period_end; price and
\* effectiveAt, of the scheduled change: None and 0 without one.
Row == [at: Nat, price: Prices, status: Statuses, period: Nat,
        scheduled: Prices \cup {None}, effectiveAt: Nat]

\* asked: the period at Paddle when the customer asked; informed: whether the
\* row the request read told what Paddle had.
Wish == [price: Prices, asked: Nat, informed: BOOLEAN]

Request ==
    [pc: {"idle", "scheduling", "upgrading", "clearing", "submitting", "granting",
          "resyncing", "overriding", "resolving", "reverting"},
     price: Prices, period: Nat, status: Statuses, plan: Plans,
     grant: Grants \cup {None}, asked: Nat, informed: BOOLEAN, overtaken: BOOLEAN]

TypeOK ==
    /\ paddle \in Snapshot
    /\ mail \subseteq Snapshot
    /\ row \in Row
    /\ planId \in Plans
    /\ grant \in [Grants -> {"none", "live", "expired", "revoked"}]
    /\ request \in [Requests -> Request]
    /\ wish \in Wish
    /\ excused \subseteq {"plan", "wish"}

IdleRequest ==
    [pc |-> "idle", price |-> FirstPrice, period |-> 0, status |-> "active",
     plan |-> "free", grant |-> None, asked |-> 0, informed |-> TRUE, overtaken |-> FALSE]

At(r, pc) == request[r].pc = pc
Leaves(r) == request' = [request EXCEPT ![r] = IdleRequest]

\* The requests at one of pcs have read what changes now.
Overtaking(pcs) ==
    [q \in Requests |-> IF request[q].pc \in pcs
                        THEN [request[q] EXCEPT !.overtaken = TRUE] ELSE request[q]]

Excusing(r, what) == IF request[r].overtaken THEN excused \cup {what} ELSE excused

\* Requests that act on the wish they have read.
WishReaders == {"scheduling", "upgrading", "clearing", "submitting"}

-----------------------------------------------------------------------------
(* Paddle *)

\* The subscription changes at Paddle, and an event tells so.
Changes(new) ==
    /\ paddle.version < MaxVersion
    /\ paddle' = [new EXCEPT !.version = paddle.version + 1]
    /\ mail' = mail \cup {paddle'}

\* The next period begins, paid or not; a late payment comes; the customer
\* cancels in Paddle's portal.
PaddleChanges ==
    /\ paddle.status # "cancelled"
    /\ \/ \E s \in {"active", "past_due"} :
              /\ paddle.period < MaxPeriod
              /\ Changes([paddle EXCEPT !.period = @ + 1, !.status = s])
       \/ paddle.status = "past_due" /\ Changes([paddle EXCEPT !.status = "active"])
       \/ Changes([paddle EXCEPT !.status = "cancelled"])
    /\ UNCHANGED <<row, planId, grant, request, wish, excused>>

\* updateSubscriptionItem: Paddle takes the new price at once.
TakesPrice(price) ==
    /\ paddle.status # "cancelled"
    /\ IF paddle.price = price THEN UNCHANGED <<paddle, mail>>
       ELSE Changes([paddle EXCEPT !.price = price])

-----------------------------------------------------------------------------
(* Plan changes by the customer *)

\* A faulty variant: the scheduled change outlives a change made at once.
RowWithMarkers == row

ClearedRow == [row EXCEPT !.scheduled = None, !.effectiveAt = 0]

Entitled(status) == status \in {"active", "past_due"}

RowIsCurrent == row.price = paddle.price /\ row.period = paddle.period

\* getActiveSubscriptionContext and the direction of the change.
ConfirmPlanChange(r, target) ==
    /\ At(r, "idle") /\ Entitled(row.status) /\ target # row.price
    /\ request' = [request EXCEPT ![r] = [IdleRequest EXCEPT
           !.pc = IF IsImmediate(row.price, target) THEN "upgrading" ELSE "scheduling",
           !.price = target, !.period = row.period,
           !.asked = paddle.period, !.informed = RowIsCurrent]]
    /\ UNCHANGED <<paddle, mail, row, planId, grant, wish, excused>>

\* What request r asks for becomes the wish, over what other requests go by.
Wishes(r, pcs) ==
    /\ wish' = [price |-> request[r].price, asked |-> request[r].asked,
                informed |-> request[r].informed]
    /\ request' = [Overtaking(WishReaders) EXCEPT ![r] = pcs]

\* confirmPlanChange, scheduled: only the markers are written.
ScheduleChange(r) ==
    /\ At(r, "scheduling")
    /\ row' = [row EXCEPT !.scheduled = request[r].price, !.effectiveAt = request[r].period]
    /\ Wishes(r, IdleRequest)
    /\ UNCHANGED <<paddle, mail, planId, grant, excused>>

\* confirmPlanChange, immediate: Paddle is asked now.  If it refuses, the
\* request is over.
SubmitUpgrade(r) ==
    /\ At(r, "upgrading")
    /\ \/ /\ TakesPrice(request[r].price)
          /\ Wishes(r, [request[r] EXCEPT !.pc = "clearing"])
          /\ excused' = Excusing(r, "wish")
       \/ Leaves(r) /\ UNCHANGED <<paddle, mail, wish, excused>>
    /\ UNCHANGED <<row, planId, grant>>

\* confirmPlanChange and applyDueScheduledDowngrades: the markers are cleared,
\* whatever they say by now.
ClearMarkers(r) ==
    /\ At(r, "clearing")
    /\ row' = ClearedRow
    /\ excused' = Excusing(r, "wish")
    /\ Leaves(r)
    /\ UNCHANGED <<paddle, mail, planId, grant, wish>>

\* cancelScheduledPlanChange: the customer stays with what Paddle has.
CancelScheduledPlanChange ==
    /\ Entitled(row.status) /\ row.scheduled # None
    /\ row' = ClearedRow
    /\ wish' = [price |-> paddle.price, asked |-> paddle.period, informed |-> TRUE]
    /\ request' = Overtaking(WishReaders)
    /\ UNCHANGED <<paddle, mail, planId, grant, excused>>

-----------------------------------------------------------------------------
(* The daily sweep of scheduled changes *)

\* A faulty variant: due as soon as the last period begins.
IsDueEarly == row.scheduled # None /\ row.effectiveAt <= paddle.period

\* scheduled_change_effective_at <= now.
IsDue == row.scheduled # None /\ row.effectiveAt < paddle.period

\* applyDueScheduledDowngrades: the SELECT.  Markers that another request is
\* about to clear are overtaken already.
SelectDue(r) ==
    /\ At(r, "idle") /\ IsDue
    /\ request' = [request EXCEPT ![r] = [IdleRequest EXCEPT
                       !.pc = "submitting", !.price = row.scheduled,
                       !.overtaken = \E q \in Requests : At(q, "clearing")]]
    /\ UNCHANGED <<paddle, mail, row, planId, grant, wish, excused>>

\* applyDueScheduledDowngrades: Paddle takes the scheduled price, and a change
\* that goes by another one is overtaken.
SubmitDue(r) ==
    /\ At(r, "submitting") /\ TakesPrice(request[r].price)
    /\ request' = [Overtaking({"upgrading"}) EXCEPT ![r].pc = "clearing"]
    /\ excused' = Excusing(r, "wish")
    /\ UNCHANGED <<row, planId, grant, wish>>

\* applyDueScheduledDowngrades: Paddle refuses, the markers stay for tomorrow.
SubmitDueFails(r) ==
    /\ At(r, "submitting")
    /\ Leaves(r)
    /\ UNCHANGED <<paddle, mail, row, planId, grant, wish, excused>>

-----------------------------------------------------------------------------
(* The webhook and the resync *)

IsNewer(e) == e.version > row.at

\* handleSubscriptionEvent: the compare-and-swap.  Whoever has read the row, or
\* is about to grant the plan of an older event, is overtaken.
ApplyEvent(r, e) ==
    /\ At(r, "idle")
    /\ mail' = mail \ {e}
    /\ IF IsNewer(e)
       THEN /\ row' = [row EXCEPT !.at = e.version, !.price = e.price,
                                  !.status = e.status, !.period = e.period]
            /\ request' = [Overtaking({"granting", "resyncing", "reverting"}) EXCEPT ![r] =
                   [IdleRequest EXCEPT !.pc = "granting", !.price = e.price,
                                       !.status = e.status]]
       ELSE UNCHANGED <<row, request>>
    /\ UNCHANGED <<paddle, planId, grant, wish, excused>>

\* A faulty variant: the plan outlives the subscription.
PlanKept(status, price) == IF status = "active" THEN price.planId ELSE planId

PlanFromStatus(status, price) ==
    CASE status = "active" -> price.planId
      [] status = "past_due" -> planId
      [] OTHER -> "free"

\* applyPlanFromStatus.
GrantPlan(r) ==
    /\ At(r, "granting")
    /\ planId' = PlanFromStatus(request[r].status, request[r].price)
    /\ excused' = Excusing(r, "plan")
    /\ Leaves(r)
    /\ UNCHANGED <<paddle, mail, row, grant, wish>>

\* resyncSubscription: Paddle's answer.
FetchSubscription(r) ==
    /\ At(r, "idle")
    /\ request' = [request EXCEPT ![r] = [IdleRequest EXCEPT
           !.pc = "resyncing", !.price = paddle.price, !.status = paddle.status,
           !.period = paddle.period]]
    /\ UNCHANGED <<paddle, mail, row, planId, grant, wish, excused>>

\* resyncSubscription: the UPDATE, which moves neither last_applied_occurred_at
\* nor users.plan_id.
ResyncSubscription(r) ==
    /\ At(r, "resyncing")
    /\ row' = [row EXCEPT !.price = request[r].price, !.status = request[r].status,
                          !.period = request[r].period]
    /\ excused' = Excusing(r, "plan")
    /\ Leaves(r)
    /\ UNCHANGED <<paddle, mail, planId, grant, wish>>

-----------------------------------------------------------------------------
(* Temporary entitlements *)

\* grantTemporaryEntitlement: the INSERT.
InsertEntitlement(r, g) ==
    /\ At(r, "idle") /\ grant[g] = "none"
    /\ grant' = [grant EXCEPT ![g] = "live"]
    /\ request' = [request EXCEPT ![r] = [IdleRequest EXCEPT !.pc = "overriding", !.grant = g]]
    /\ UNCHANGED <<paddle, mail, row, planId, wish, excused>>

\* grantTemporaryEntitlement: users.plan_id.
OverridePlan(r) ==
    /\ At(r, "overriding")
    /\ planId' = GrantedPlan
    /\ excused' = Excusing(r, "plan")
    /\ Leaves(r)
    /\ UNCHANGED <<paddle, mail, row, grant, wish>>

\* expires_at passes.
EntitlementExpires(g) ==
    /\ grant[g] = "live"
    /\ grant' = [grant EXCEPT ![g] = "expired"]
    /\ UNCHANGED <<paddle, mail, row, planId, request, wish, excused>>

\* revoked_at is set; a grant whose plan is not written yet is overtaken.
RevokesGrant(r, g) ==
    /\ At(r, "idle")
    /\ grant' = [grant EXCEPT ![g] = "revoked"]
    /\ request' = [[q \in Requests |->
                       IF At(q, "overriding") /\ request[q].grant = g
                       THEN [request[q] EXCEPT !.overtaken = TRUE] ELSE request[q]]
                   EXCEPT ![r] = [IdleRequest EXCEPT !.pc = "resolving"]]
    /\ UNCHANGED <<paddle, mail, row, planId, wish, excused>>

\* revokeTemporaryEntitlement, which goes on even if it was revoked before.
RevokeTemporaryEntitlement(r, g) == grant[g] # "none" /\ RevokesGrant(r, g)

\* revertExpiredEntitlements, for one expired row.
RevertExpiredEntitlement(r, g) == grant[g] = "expired" /\ RevokesGrant(r, g)

\* resolveRealEntitledPlan.
RealEntitledPlan == IF Entitled(row.status) THEN row.price.planId ELSE "free"

ResolvePlan(r) ==
    /\ At(r, "resolving")
    /\ request' = [request EXCEPT ![r].pc = "reverting", ![r].plan = RealEntitledPlan]
    /\ UNCHANGED <<paddle, mail, row, planId, grant, wish, excused>>

RevertPlan(r) ==
    /\ At(r, "reverting")
    /\ planId' = request[r].plan
    /\ excused' = Excusing(r, "plan")
    /\ Leaves(r)
    /\ UNCHANGED <<paddle, mail, row, grant, wish>>

\* The invocation is killed: what comes after is not made up for.
RequestDies(r) ==
    /\ ~At(r, "idle")
    /\ excused' = CASE request[r].pc \in {"granting", "resolving", "reverting"} ->
                           excused \cup {"plan"}
                    [] At(r, "clearing") -> excused \cup {"wish"}
                    [] OTHER -> excused
    /\ Leaves(r)
    /\ UNCHANGED <<paddle, mail, row, planId, grant, wish>>

-----------------------------------------------------------------------------
(* The specification *)

Init ==
    /\ paddle = [version |-> 1, price |-> FirstPrice, status |-> "active", period |-> 1]
    /\ mail = {}
    /\ row = [at |-> 1, price |-> FirstPrice, status |-> "active", period |-> 1,
              scheduled |-> None, effectiveAt |-> 0]
    /\ planId = FirstPrice.planId
    /\ grant = [g \in Grants |-> "none"]
    /\ request = [r \in Requests |-> IdleRequest]
    /\ wish = [price |-> FirstPrice, asked |-> 1, informed |-> TRUE]
    /\ excused = {}

Sweep(r) == SelectDue(r) \/ SubmitDue(r)

ChangeStep(r) ==
    \/ \E target \in Prices : ConfirmPlanChange(r, target)
    \/ ScheduleChange(r) \/ SubmitUpgrade(r) \/ ClearMarkers(r)
    \/ Sweep(r) \/ SubmitDueFails(r)

PlanStep(r) ==
    \/ \E e \in mail : ApplyEvent(r, e)
    \/ GrantPlan(r) \/ FetchSubscription(r) \/ ResyncSubscription(r)

EntitlementStep(r) ==
    \/ \E g \in Grants : \/ InsertEntitlement(r, g)
                         \/ RevokeTemporaryEntitlement(r, g) \/ RevertExpiredEntitlement(r, g)
    \/ OverridePlan(r) \/ ResolvePlan(r) \/ RevertPlan(r)

Next ==
    \/ \E r \in Requests : ChangeStep(r) \/ PlanStep(r) \/ EntitlementStep(r) \/ RequestDies(r)
    \/ \E g \in Grants : EntitlementExpires(g)
    \/ CancelScheduledPlanChange
    \/ PaddleChanges

Spec == Init /\ [][Next]_vars

-----------------------------------------------------------------------------
(* Properties *)

Quiet == mail = {} /\ \A r \in Requests : At(r, "idle")

\* When every event has arrived, nothing runs and no temporary entitlement is
\* left, the user has the plan Paddle is paid for: the webhook, the resync, the
\* grants and their end undo each other's writes only if one of them was
\* overtaken between its read and its write, or killed there.
PlanSettles ==
    /\ Quiet /\ "plan" \notin excused
    /\ \A g \in Grants : grant[g] \in {"none", "revoked"}
    => CASE paddle.status = "active" -> planId = paddle.price.planId
         [] paddle.status = "cancelled" -> planId = "free"
         [] OTHER -> planId # "free"

\* What the customer last asked for is what Paddle has, or what is scheduled,
\* unless two changes, or a change and the sweep, overlapped, or one of them was
\* killed between Paddle's answer and the markers.
WishIsKept ==
    Quiet /\ "wish" \notin excused =>
        wish.price = IF row.scheduled = None THEN paddle.price ELSE row.scheduled

\* A period that is paid for is not cut short: the price goes down in a later
\* period than the one the customer asked in, unless the row was behind Paddle
\* when the direction of the change and its date were taken from it.
PaidPeriodIsKept ==
    [][/\ Rank(paddle'.price) < Rank(paddle.price)
       /\ "wish" \notin excused' /\ wish'.informed
       => paddle.period > wish'.asked]_vars

=============================================================================
