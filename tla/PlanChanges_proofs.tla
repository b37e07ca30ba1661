-------------------------- MODULE PlanChanges_proofs --------------------------
(***************************************************************************)
(* Proofs about PlanChanges, for any prices, grants, overlapping requests  *)
(* and changes at Paddle: the plan settles on what Paddle is paid for, the *)
(* last wish of the customer is kept, and a paid period is not cut short.  *)
(*                                                                         *)
(* What Paddle has reaches the row by its newest event (Versions, RowFits) *)
(* and the plan by whoever writes it next: a request that is not overtaken *)
(* carries what Paddle has (Writers), and a plan that is wrong will be     *)
(* written again (PlanFollows).  The markers of a scheduled change tell    *)
(* the wish until a request is about to clear them (WishInv, PeriodInv).   *)
(***************************************************************************)
EXTENDS PlanChanges, TLAPS

-----------------------------------------------------------------------------
(* The inductive invariant *)

\* What has not arrived yet is on its way, and the newest event tells of Paddle
\* as it is.
Versions ==
    /\ row.at <= paddle.version
    /\ \A e \in mail : e.version <= paddle.version /\ (e.version = paddle.version => e = paddle)
    /\ row.at = paddle.version \/ paddle \in mail

\* A subscription is cancelled for good, and nobody has heard of it before.
Paying ==
    paddle.status # "cancelled" =>
        /\ \A e \in mail : e.status # "cancelled"
        /\ row.status # "cancelled"
        /\ planId # "free"
        /\ \A r \in Requests : /\ At(r, "granting") \/ At(r, "resyncing") =>
                                      request[r].status # "cancelled"
                               /\ At(r, "reverting") => request[r].plan # "free"

\* The plan that Paddle is paid for; without a payment it is left as it is.
PlanFits(plan) ==
    /\ paddle.status = "active" => plan = paddle.price.planId
    /\ paddle.status = "cancelled" => plan = "free"

UpToDate == "plan" \notin excused /\ row.at = paddle.version

RowFits == UpToDate => row.price = paddle.price /\ row.status = paddle.status

\* Once the newest event is applied, a request that is not overtaken writes what
\* Paddle has.
WritesFit(r) ==
    UpToDate /\ ~request[r].overtaken =>
        /\ At(r, "granting") \/ At(r, "resyncing") =>
               request[r].price = paddle.price /\ request[r].status = paddle.status
        /\ At(r, "reverting") => PlanFits(request[r].plan)

\* A granted plan that is written late is a grant that is still to be ended.
OverrideIsGranted(r) ==
    At(r, "overriding") /\ ~request[r].overtaken =>
        \E g \in Grants : request[r].grant = g /\ grant[g] \in {"live", "expired"}

Writers ==
    \A r \in Requests : /\ WritesFit(r) /\ OverrideIsGranted(r)
                        /\ At(r, "resolving") => ~request[r].overtaken

Granted == \E g \in Grants : grant[g] \in {"live", "expired"}

\* The plan is right or will be written again.
PlanFollows ==
    UpToDate => \/ PlanFits(planId)
                \/ Granted
                \/ \E r \in Requests :
                       \/ At(r, "resolving")
                       \/ (At(r, "granting") \/ At(r, "reverting")) /\ ~request[r].overtaken

PlanInv == Versions /\ Paying /\ RowFits /\ Writers /\ PlanFollows

Clearing == \E r \in Requests : At(r, "clearing")

WishFits == wish.price = IF row.scheduled = None THEN paddle.price ELSE row.scheduled

\* The markers of the row tell the wish until a request is to clear them, and a
\* request that is not overtaken acts on the wish.
WishInv ==
    "wish" \notin excused =>
        /\ WishFits \/ Clearing
        /\ \A r \in Requests : ~request[r].overtaken =>
              /\ At(r, "submitting") => request[r].price = wish.price
              /\ At(r, "clearing") => wish.price = paddle.price

\* A scheduled change waits for the end of the period it was asked for in, and
\* a change made at once raises the price.
PeriodInv ==
    /\ "wish" \notin excused /\ wish.informed =>
        /\ row.scheduled # None => row.effectiveAt = wish.asked \/ Clearing
        /\ \A r \in Requests :
              At(r, "submitting") /\ ~request[r].overtaken => wish.asked < paddle.period
    /\ \A r \in Requests : request[r].informed =>
        /\ At(r, "scheduling") => request[r].period = request[r].asked
        /\ At(r, "upgrading") /\ ~request[r].overtaken =>
               Rank(paddle.price) < Rank(request[r].price)

-----------------------------------------------------------------------------
(* Prices and requests *)

Pcs == {"idle", "scheduling", "upgrading", "clearing", "submitting", "granting",
        "resyncing", "overriding", "resolving", "reverting"}

LEMMA PriceFacts ==
    ASSUME NEW p \in Prices
    PROVE  p.planId \in PaidPlans /\ p.planId # "free" /\ Rank(p) \in Nat
<1>1. p.planId \in {"solo", "pro", "agency"} /\ p.interval \in {"month", "year"}
  BY PlanChangesAssumption DEF PaidPlans, PlanRank, IntervalWeight
<1>2. PlanRank[p.planId] \in Nat /\ IntervalWeight[p.interval] \in Nat
  BY <1>1 DEF PlanRank, IntervalWeight
<1>3. QED
  BY <1>1, <1>2 DEF Rank, PaidPlans, PlanRank

LEMMA PaidPlanFacts == PaidPlans \subseteq Plans /\ "free" \in Plans /\ "free" \notin PaidPlans
                       /\ GrantedPlan \in PaidPlans
  BY PlanChangesAssumption DEF Plans, PaidPlans, PlanRank

LEMMA IdleFacts ==
    /\ IdleRequest \in Request
    /\ IdleRequest.pc = "idle" /\ ~IdleRequest.overtaken /\ IdleRequest.informed
  BY PlanChangesAssumption DEF IdleRequest, Request, Statuses, Plans

\* Request p goes on as it was, overtaken if it is at one of pcs, and perhaps if
\* it is to override the plan.
Kept(p, pcs) ==
    /\ request'[p].pc = request[p].pc /\ request'[p].price = request[p].price
    /\ request'[p].status = request[p].status /\ request'[p].period = request[p].period
    /\ request'[p].plan = request[p].plan /\ request'[p].grant = request[p].grant
    /\ request'[p].asked = request[p].asked /\ request'[p].informed = request[p].informed
    /\ request[p].overtaken => request'[p].overtaken
    /\ request[p].pc \in pcs => request'[p].overtaken
    /\ request'[p].overtaken => request[p].overtaken \/ request[p].pc \in pcs \cup {"overriding"}

\* Request r goes on as q.
Becomes(r, q, pcs) ==
    /\ request'[r] = q
    /\ \A p \in Requests \ {r} : Kept(p, pcs)

LEMMA AloneFacts ==
    ASSUME TypeOK, NEW r \in Requests, NEW q \in Request, request' = [request EXCEPT ![r] = q]
    PROVE  request' \in [Requests -> Request] /\ Becomes(r, q, {})
  BY DEF TypeOK, Becomes, Kept

LEMMA OvertakingFacts ==
    ASSUME TypeOK, NEW pcs
    PROVE  /\ Overtaking(pcs) \in [Requests -> Request]
           /\ request' = Overtaking(pcs) => \A p \in Requests : Kept(p, pcs)
           /\ \A r \in Requests, q \in Request :
                  request' = [Overtaking(pcs) EXCEPT ![r] = q] =>
                      request' \in [Requests -> Request] /\ Becomes(r, q, pcs)
<1>1. \A p \in Requests : [request[p] EXCEPT !.overtaken = TRUE] \in Request
  BY DEF TypeOK, Request
<1>2. Overtaking(pcs) \in [Requests -> Request]
  BY <1>1 DEF Overtaking, TypeOK
<1>3. \A p \in Requests : request'[p] = Overtaking(pcs)[p] => Kept(p, pcs)
  BY DEF Overtaking, Kept, TypeOK, Request
<1>4. QED
  BY <1>2, <1>3 DEF Becomes

LEMMA LeavesFacts ==
    ASSUME TypeOK, NEW r \in Requests, Leaves(r)
    PROVE  request' \in [Requests -> Request] /\ Becomes(r, IdleRequest, {})
  BY IdleFacts, AloneFacts DEF Leaves

LEMMA ExcusingFacts ==
    ASSUME NEW r, NEW what, excused' = Excusing(r, what)
    PROVE  /\ excused \subseteq excused'
           /\ what \notin excused' => ~request[r].overtaken
           /\ \A x : x \in excused' => x \in excused \/ x = what
  BY DEF Excusing

-----------------------------------------------------------------------------
(* What each action makes of its request and of the others *)

LEMMA ConfirmFacts ==
    ASSUME TypeOK, NEW r \in Requests, NEW target \in Prices, ConfirmPlanChange(r, target)
    PROVE  \E q \in Request :
               /\ request' \in [Requests -> Request] /\ Becomes(r, q, {})
               /\ q.pc \in {"scheduling", "upgrading"} /\ q.price = target
               /\ q.pc = "upgrading" => Rank(row.price) < Rank(target)
               /\ q.period = row.period /\ q.asked = paddle.period
               /\ q.informed => row.price = paddle.price /\ row.period = paddle.period
<1>1. PICK pc \in Pcs : pc = IF IsImmediate(row.price, target) THEN "upgrading" ELSE "scheduling"
  BY DEF Pcs
<1>2. PICK b \in BOOLEAN : b = RowIsCurrent
  BY DEF RowIsCurrent
<1>3. row.price \in Prices /\ row.period \in Nat /\ paddle.period \in Nat
  BY DEF TypeOK, Row, Snapshot
<1>4. PICK q : q = [IdleRequest EXCEPT !.pc = pc, !.price = target, !.period = row.period,
                                        !.asked = paddle.period, !.informed = b]
  OBVIOUS
<1>5. /\ q \in Request /\ q.pc = pc /\ q.price = target /\ q.period = row.period
      /\ q.asked = paddle.period /\ q.informed = b
  BY <1>3, <1>4, IdleFacts DEF Request, TypeOK, Pcs
<1>6. request' = [request EXCEPT ![r] = q]
  BY <1>1, <1>2, <1>4 DEF ConfirmPlanChange
<1>7. request' \in [Requests -> Request] /\ Becomes(r, q, {})
  BY <1>5, <1>6, AloneFacts
<1>8. pc \in {"scheduling", "upgrading"} /\ (pc = "upgrading" => Rank(row.price) < Rank(target))
  BY <1>1, <1>3, PriceFacts DEF IsImmediate
<1>9. b => row.price = paddle.price /\ row.period = paddle.period
  BY <1>2 DEF RowIsCurrent
<1>10. QED
  BY <1>5, <1>7, <1>8, <1>9

LEMMA ScheduleFacts ==
    ASSUME TypeOK, NEW r \in Requests, ScheduleChange(r)
    PROVE  request' \in [Requests -> Request] /\ Becomes(r, IdleRequest, WishReaders)
  BY OvertakingFacts, IdleFacts DEF ScheduleChange, Wishes

LEMMA UpgradeFacts ==
    ASSUME TypeOK, NEW r \in Requests, SubmitUpgrade(r)
    PROVE  /\ request' \in [Requests -> Request]
           /\ \/ /\ Becomes(r, IdleRequest, {})
                 /\ UNCHANGED <<paddle, mail, wish, excused>>
              \/ \E q \in Request :
                    /\ Becomes(r, q, WishReaders) /\ q.pc = "clearing"
                    /\ TakesPrice(request[r].price) /\ excused' = Excusing(r, "wish")
                    /\ wish' = [price |-> request[r].price, asked |-> request[r].asked,
                                informed |-> request[r].informed]
<1>1. CASE Leaves(r) /\ UNCHANGED <<paddle, mail, wish, excused>>
  BY <1>1, LeavesFacts
<1>2. CASE /\ TakesPrice(request[r].price)
           /\ Wishes(r, [request[r] EXCEPT !.pc = "clearing"])
           /\ excused' = Excusing(r, "wish")
  <2>1. PICK q : q = [request[r] EXCEPT !.pc = "clearing"]
    OBVIOUS
  <2>2. q \in Request /\ q.pc = "clearing"
    BY <2>1, IdleFacts DEF Request, TypeOK
  <2>3. request' \in [Requests -> Request] /\ Becomes(r, q, WishReaders)
    BY <1>2, <2>1, <2>2, OvertakingFacts DEF Wishes
  <2>4. QED
    BY <1>2, <2>2, <2>3 DEF Wishes
<1>3. QED
  BY <1>1, <1>2 DEF SubmitUpgrade

LEMMA SelectFacts ==
    ASSUME TypeOK, NEW r \in Requests, SelectDue(r)
    PROVE  \E q \in Request :
               /\ request' \in [Requests -> Request] /\ Becomes(r, q, {})
               /\ q.pc = "submitting" /\ q.price = row.scheduled
               /\ q.overtaken <=> Clearing
<1>1. PICK b \in BOOLEAN : b = (\E p \in Requests : At(p, "clearing"))
  OBVIOUS
<1>2. row.scheduled \in Prices
  BY DEF SelectDue, IsDue, TypeOK, Row
<1>3. PICK q : q = [IdleRequest EXCEPT !.pc = "submitting", !.price = row.scheduled,
                                        !.overtaken = b]
  OBVIOUS
<1>4. q \in Request /\ q.pc = "submitting" /\ q.price = row.scheduled /\ q.overtaken = b
  BY <1>2, <1>3, IdleFacts DEF Request, TypeOK
<1>5. request' = [request EXCEPT ![r] = q]
  BY <1>1, <1>3 DEF SelectDue
<1>6. QED
  BY <1>1, <1>4, <1>5, AloneFacts DEF Clearing

LEMMA SubmitDueFacts ==
    ASSUME TypeOK, NEW r \in Requests, SubmitDue(r)
    PROVE  \E q \in Request :
               /\ request' \in [Requests -> Request] /\ Becomes(r, q, {"upgrading"})
               /\ q.pc = "clearing" /\ (request[r].overtaken => q.overtaken)
<1>1. PICK q : q = [request[r] EXCEPT !.pc = "clearing"]
  OBVIOUS
<1>2. q \in Request /\ q.pc = "clearing" /\ q.overtaken = request[r].overtaken
  BY <1>1, IdleFacts DEF Request, TypeOK
<1>3. Overtaking({"upgrading"})[r] = request[r]
  BY DEF SubmitDue, At, Overtaking
<1>4. Overtaking({"upgrading"}) \in [Requests -> Request]
  BY OvertakingFacts
<1>5. request' = [Overtaking({"upgrading"}) EXCEPT ![r] = q]
  BY <1>1, <1>3, <1>4 DEF SubmitDue
<1>6. QED
  BY <1>2, <1>5, OvertakingFacts

LEMMA ApplyFacts ==
    ASSUME TypeOK, NEW r \in Requests, NEW e \in mail, ApplyEvent(r, e), IsNewer(e)
    PROVE  \E q \in Request :
               /\ request' \in [Requests -> Request]
               /\ Becomes(r, q, {"granting", "resyncing", "reverting"})
               /\ q.pc = "granting" /\ q.price = e.price /\ q.status = e.status /\ ~q.overtaken
<1>1. PICK q : q = [IdleRequest EXCEPT !.pc = "granting", !.price = e.price, !.status = e.status]
  OBVIOUS
<1>2. e.price \in Prices /\ e.status \in Statuses
  BY DEF TypeOK, Snapshot
<1>3. q \in Request /\ q.pc = "granting" /\ q.price = e.price /\ q.status = e.status /\ ~q.overtaken
  BY <1>1, <1>2, IdleFacts DEF Request, TypeOK
<1>4. request' = [Overtaking({"granting", "resyncing", "reverting"}) EXCEPT ![r] = q]
  BY <1>1 DEF ApplyEvent
<1>5. QED
  BY <1>3, <1>4, OvertakingFacts

LEMMA FetchFacts ==
    ASSUME TypeOK, NEW r \in Requests, FetchSubscription(r)
    PROVE  \E q \in Request :
               /\ request' \in [Requests -> Request] /\ Becomes(r, q, {})
               /\ q.pc = "resyncing" /\ q.price = paddle.price /\ q.status = paddle.status
<1>1. PICK q : q = [IdleRequest EXCEPT !.pc = "resyncing", !.price = paddle.price,
                                       !.status = paddle.status, !.period = paddle.period]
  OBVIOUS
<1>2. paddle.price \in Prices /\ paddle.status \in Statuses /\ paddle.period \in Nat
  BY DEF TypeOK, Snapshot
<1>3. q \in Request /\ q.pc = "resyncing" /\ q.price = paddle.price /\ q.status = paddle.status
  BY <1>1, <1>2, IdleFacts DEF Request, TypeOK
<1>4. QED
  BY <1>1, <1>3, AloneFacts DEF FetchSubscription

LEMMA InsertFacts ==
    ASSUME TypeOK, NEW r \in Requests, NEW g \in Grants, InsertEntitlement(r, g)
    PROVE  \E q \in Request :
               /\ request' \in [Requests -> Request] /\ Becomes(r, q, {})
               /\ q.pc = "overriding" /\ q.grant = g
<1>1. PICK q : q = [IdleRequest EXCEPT !.pc = "overriding", !.grant = g]
  OBVIOUS
<1>2. q \in Request /\ q.pc = "overriding" /\ q.grant = g
  BY <1>1, IdleFacts DEF Request, TypeOK
<1>3. QED
  BY <1>1, <1>2, AloneFacts DEF InsertEntitlement

LEMMA RevokeFacts ==
    ASSUME TypeOK, NEW r \in Requests, NEW g \in Grants, RevokesGrant(r, g)
    PROVE  \E q \in Request :
               /\ request' \in [Requests -> Request] /\ Becomes(r, q, {})
               /\ q.pc = "resolving" /\ ~q.overtaken
               /\ \A p \in Requests \ {r} :
                      At(p, "overriding") /\ request[p].grant = g => request'[p].overtaken
<1>1. PICK q : q = [IdleRequest EXCEPT !.pc = "resolving"]
  OBVIOUS
<1>2. q \in Request /\ q.pc = "resolving" /\ ~q.overtaken
  BY <1>1, IdleFacts DEF Request, TypeOK
<1>3. PICK f : f = [p \in Requests |-> IF At(p, "overriding") /\ request[p].grant = g
                                       THEN [request[p] EXCEPT !.overtaken = TRUE] ELSE request[p]]
  OBVIOUS
<1>4. \A p \in Requests : [request[p] EXCEPT !.overtaken = TRUE] \in Request
  BY DEF TypeOK, Request
<1>5. f \in [Requests -> Request]
  BY <1>3, <1>4 DEF TypeOK
<1>6. request' = [f EXCEPT ![r] = q]
  BY <1>1, <1>3 DEF RevokesGrant
<1>7. request' \in [Requests -> Request] /\ request'[r] = q
  BY <1>2, <1>5, <1>6
<1>8. \A p \in Requests \ {r} :
          Kept(p, {}) /\ (At(p, "overriding") /\ request[p].grant = g => request'[p].overtaken)
  <2> SUFFICES ASSUME NEW p \in Requests \ {r}
               PROVE  /\ Kept(p, {})
                      /\ At(p, "overriding") /\ request[p].grant = g => request'[p].overtaken
    OBVIOUS
  <2>1. request'[p] = f[p]
    BY <1>5, <1>6
  <2>2. CASE At(p, "overriding") /\ request[p].grant = g
    <3>1. request'[p] = [request[p] EXCEPT !.overtaken = TRUE]
      BY <1>3, <2>1, <2>2
    <3>2. QED
      BY <2>2, <3>1 DEF Kept, At, TypeOK, Request
  <2>3. CASE ~(At(p, "overriding") /\ request[p].grant = g)
    BY <1>3, <2>1, <2>3 DEF Kept
  <2>4. QED
    BY <2>2, <2>3
<1>9. QED
  BY <1>2, <1>7, <1>8 DEF Becomes

LEMMA ResolveFacts ==
    ASSUME TypeOK, NEW r \in Requests, ResolvePlan(r)
    PROVE  \E q \in Request :
               /\ request' \in [Requests -> Request] /\ Becomes(r, q, {})
               /\ q.pc = "reverting" /\ q.plan = RealEntitledPlan
               /\ q.overtaken = request[r].overtaken
<1>1. RealEntitledPlan \in Plans
  BY PriceFacts, PaidPlanFacts DEF RealEntitledPlan, TypeOK, Row
<1>2. PICK q : q = [request[r] EXCEPT !.pc = "reverting", !.plan = RealEntitledPlan]
  OBVIOUS
<1>3. /\ q \in Request /\ q.pc = "reverting" /\ q.plan = RealEntitledPlan
      /\ q.overtaken = request[r].overtaken
  BY <1>1, <1>2, IdleFacts DEF Request, TypeOK
<1>4. request' = [request EXCEPT ![r] = q]
  BY <1>2 DEF ResolvePlan, TypeOK
<1>5. QED
  BY <1>3, <1>4, AloneFacts

-----------------------------------------------------------------------------
(* What Paddle does *)

LEMMA TakesFacts ==
    ASSUME TypeOK, NEW p \in Prices, TakesPrice(p)
    PROVE  /\ paddle' \in Snapshot /\ mail' \subseteq Snapshot
           /\ paddle'.price = p /\ paddle'.status = paddle.status /\ paddle.status # "cancelled"
           /\ paddle'.period = paddle.period
           /\ \/ paddle' = paddle /\ mail' = mail
              \/ paddle'.version = paddle.version + 1 /\ mail' = mail \cup {paddle'}
<1>1. paddle \in Snapshot /\ paddle.version \in Nat
  BY DEF TypeOK, Snapshot
<1>2. CASE UNCHANGED <<paddle, mail>> /\ paddle.price = p
  BY <1>1, <1>2 DEF TypeOK, TakesPrice
<1>3. CASE Changes([paddle EXCEPT !.price = p])
  <2>1. PICK new : new = [paddle EXCEPT !.price = p]
    OBVIOUS
  <2>2. /\ new \in Snapshot /\ new.price = p /\ new.status = paddle.status
        /\ new.period = paddle.period
    BY <1>1, <2>1 DEF Snapshot
  <2>3. paddle' = [new EXCEPT !.version = paddle.version + 1] /\ mail' = mail \cup {paddle'}
    BY <1>3, <2>1 DEF Changes
  <2>4. /\ paddle' \in Snapshot /\ paddle'.price = p /\ paddle'.status = paddle.status
        /\ paddle'.period = paddle.period /\ paddle'.version = paddle.version + 1
    BY <1>1, <2>2, <2>3 DEF Snapshot
  <2>5. QED
    BY <2>3, <2>4 DEF TypeOK, TakesPrice
<1>4. QED
  BY <1>2, <1>3 DEF TakesPrice

LEMMA RenewsFacts ==
    ASSUME TypeOK, PaddleChanges
    PROVE  /\ paddle' \in Snapshot /\ mail' \subseteq Snapshot
           /\ paddle'.price = paddle.price /\ paddle.status # "cancelled"
           /\ paddle.period <= paddle'.period
           /\ paddle'.version = paddle.version + 1 /\ mail' = mail \cup {paddle'}
<1>1. /\ paddle \in Snapshot /\ paddle.version \in Nat /\ paddle.period \in Nat
  BY DEF TypeOK, Snapshot
<1>2. PICK new : /\ new \in Snapshot /\ new.price = paddle.price /\ paddle.period <= new.period
                 /\ Changes(new)
  <2>1. CASE \E s \in {"active", "past_due"} :
                 Changes([paddle EXCEPT !.period = @ + 1, !.status = s])
    <3>1. PICK s \in {"active", "past_due"} :
                 Changes([paddle EXCEPT !.period = @ + 1, !.status = s])
      BY <2>1
    <3>2. PICK n \in Nat : n = paddle.period + 1
      BY <1>1
    <3>3. PICK new : new = [paddle EXCEPT !.period = n, !.status = s]
      OBVIOUS
    <3>4. new \in Snapshot /\ new.price = paddle.price /\ new.period = n
      BY <1>1, <3>3 DEF Snapshot, Statuses
    <3>5. Changes(new)
      BY <3>1, <3>2, <3>3 DEF Changes
    <3>6. QED
      BY <1>1, <3>2, <3>4, <3>5
  <2>2. CASE \E s \in {"active", "cancelled"} : Changes([paddle EXCEPT !.status = s])
    <3>1. PICK s \in {"active", "cancelled"} : Changes([paddle EXCEPT !.status = s])
      BY <2>2
    <3>2. PICK new : new = [paddle EXCEPT !.status = s]
      OBVIOUS
    <3>3. new \in Snapshot /\ new.price = paddle.price /\ new.period = paddle.period
      BY <1>1, <3>2 DEF Snapshot, Statuses
    <3>4. Changes(new)
      BY <3>1, <3>2 DEF Changes
    <3>5. QED
      BY <1>1, <3>3, <3>4
  <2>3. QED
    BY <2>1, <2>2 DEF PaddleChanges
<1>3. paddle' = [new EXCEPT !.version = paddle.version + 1] /\ mail' = mail \cup {paddle'}
  BY <1>2 DEF Changes
<1>4. /\ paddle' \in Snapshot /\ paddle'.price = new.price /\ paddle'.period = new.period
      /\ paddle'.version = paddle.version + 1
  BY <1>1, <1>2, <1>3 DEF Snapshot
<1>5. QED
  BY <1>2, <1>3, <1>4 DEF TypeOK, PaddleChanges

-----------------------------------------------------------------------------
(* Types *)

LEMMA WishType ==
    ASSUME NEW p \in Prices, NEW n \in Nat, NEW b \in BOOLEAN
    PROVE  [price |-> p, asked |-> n, informed |-> b] \in Wish
  BY DEF Wish

LEMMA RequestFields ==
    ASSUME TypeOK, NEW r \in Requests
    PROVE  /\ request[r].price \in Prices /\ request[r].period \in Nat /\ request[r].asked \in Nat
           /\ request[r].status \in Statuses /\ request[r].plan \in Plans
           /\ request[r].informed \in BOOLEAN /\ request[r].overtaken \in BOOLEAN
           /\ request[r].pc \in Pcs
  BY DEF TypeOK, Request, Pcs

LEMMA ExcusedType == ASSUME TypeOK, NEW r, excused' = Excusing(r, "plan") \/ excused' = Excusing(r, "wish")
                     PROVE  excused' \subseteq {"plan", "wish"}
  BY DEF TypeOK, Excusing

LEMMA RowTypes ==
    ASSUME TypeOK
    PROVE  /\ ClearedRow \in Row
           /\ \A p \in Prices, n \in Nat : [row EXCEPT !.scheduled = p, !.effectiveAt = n] \in Row
           /\ \A p \in Prices, s \in Statuses, n \in Nat :
                  [row EXCEPT !.price = p, !.status = s, !.period = n] \in Row
  BY DEF TypeOK, Row, ClearedRow

LEMMA EventRowType ==
    ASSUME TypeOK, NEW e \in Snapshot
    PROVE  [row EXCEPT !.at = e.version, !.price = e.price, !.status = e.status,
                       !.period = e.period] \in Row
  BY DEF TypeOK, Row, Snapshot

LEMMA TypeStep == TypeOK /\ [Next]_vars => TypeOK'
<1> SUFFICES ASSUME TypeOK, [Next]_vars
             PROVE  TypeOK'
  OBVIOUS

<1>1. ASSUME NEW r \in Requests, NEW target \in Prices, ConfirmPlanChange(r, target)
      PROVE  TypeOK'
  <2>1. request' \in [Requests -> Request]
    BY <1>1, ConfirmFacts
  <2>2. QED
    BY <1>1, <2>1 DEF ConfirmPlanChange, TypeOK
<1>2. ASSUME NEW r \in Requests, ScheduleChange(r)
      PROVE  TypeOK'
  <2>1. request' \in [Requests -> Request]
    BY <1>2, ScheduleFacts
  <2>2. row' \in Row /\ wish' \in Wish
    BY <1>2, RequestFields, RowTypes, WishType DEF ScheduleChange, Wishes
  <2>3. QED
    BY <1>2, <2>1, <2>2 DEF ScheduleChange, TypeOK
<1>3. ASSUME NEW r \in Requests, SubmitUpgrade(r)
      PROVE  TypeOK'
  <2>1. /\ request' \in [Requests -> Request]
        /\ \/ UNCHANGED <<paddle, mail, wish, excused>>
           \/ /\ TakesPrice(request[r].price) /\ excused' = Excusing(r, "wish")
              /\ wish' = [price |-> request[r].price, asked |-> request[r].asked,
                          informed |-> request[r].informed]
    BY <1>3, UpgradeFacts
  <2>2. paddle' \in Snapshot /\ mail' \subseteq Snapshot /\ wish' \in Wish
    BY <2>1, RequestFields, TakesFacts, WishType DEF TypeOK
  <2>3. excused' \subseteq {"plan", "wish"}
    BY <2>1, ExcusedType DEF TypeOK
  <2>4. QED
    BY <1>3, <2>1, <2>2, <2>3 DEF SubmitUpgrade, TypeOK
<1>4. ASSUME NEW r \in Requests, ClearMarkers(r)
      PROVE  TypeOK'
  <2>1. request' \in [Requests -> Request] /\ excused' \subseteq {"plan", "wish"} /\ row' \in Row
    BY <1>4, LeavesFacts, ExcusedType, RowTypes DEF ClearMarkers
  <2>2. QED
    BY <1>4, <2>1 DEF ClearMarkers, TypeOK
<1>5. ASSUME NEW r \in Requests, SelectDue(r)
      PROVE  TypeOK'
  <2>1. request' \in [Requests -> Request]
    BY <1>5, SelectFacts
  <2>2. QED
    BY <1>5, <2>1 DEF SelectDue, TypeOK
<1>6. ASSUME NEW r \in Requests, SubmitDue(r)
      PROVE  TypeOK'
  <2>1. request' \in [Requests -> Request] /\ excused' \subseteq {"plan", "wish"}
    BY <1>6, SubmitDueFacts, ExcusedType DEF SubmitDue
  <2>2. paddle' \in Snapshot /\ mail' \subseteq Snapshot
    BY <1>6, RequestFields, TakesFacts DEF SubmitDue
  <2>3. QED
    BY <1>6, <2>1, <2>2 DEF SubmitDue, TypeOK
<1>7. ASSUME NEW r \in Requests, SubmitDueFails(r)
      PROVE  TypeOK'
  <2>1. request' \in [Requests -> Request]
    BY <1>7, LeavesFacts DEF SubmitDueFails
  <2>2. QED
    BY <1>7, <2>1 DEF SubmitDueFails, TypeOK
<1>8. ASSUME NEW r \in Requests, NEW e \in mail, ApplyEvent(r, e)
      PROVE  TypeOK'
  <2>1. CASE IsNewer(e)
    <3>1. request' \in [Requests -> Request]
      BY <1>8, <2>1, ApplyFacts
    <3>2. e \in Snapshot
      BY DEF TypeOK
    <3>3. row' \in Row
      BY <1>8, <2>1, <3>2, EventRowType DEF ApplyEvent
    <3>4. QED
      BY <1>8, <3>1, <3>3 DEF ApplyEvent, TypeOK
  <2>2. CASE ~IsNewer(e)
    BY <1>8, <2>2 DEF ApplyEvent, TypeOK
  <2>3. QED
    BY <2>1, <2>2
<1>9. ASSUME NEW r \in Requests, GrantPlan(r)
      PROVE  TypeOK'
  <2>1. request' \in [Requests -> Request] /\ excused' \subseteq {"plan", "wish"}
    BY <1>9, LeavesFacts, ExcusedType DEF GrantPlan
  <2>2. planId' \in Plans
    BY <1>9, RequestFields, PriceFacts, PaidPlanFacts DEF GrantPlan, PlanFromStatus, TypeOK
  <2>3. QED
    BY <1>9, <2>1, <2>2 DEF GrantPlan, TypeOK
<1>10. ASSUME NEW r \in Requests, FetchSubscription(r)
      PROVE  TypeOK'
  <2>1. request' \in [Requests -> Request]
    BY <1>10, FetchFacts
  <2>2. QED
    BY <1>10, <2>1 DEF FetchSubscription, TypeOK
<1>11. ASSUME NEW r \in Requests, ResyncSubscription(r)
      PROVE  TypeOK'
  <2>1. request' \in [Requests -> Request] /\ excused' \subseteq {"plan", "wish"}
    BY <1>11, LeavesFacts, ExcusedType DEF ResyncSubscription
  <2>2. row' \in Row
    BY <1>11, RequestFields, RowTypes DEF ResyncSubscription
  <2>3. QED
    BY <1>11, <2>1, <2>2 DEF ResyncSubscription, TypeOK
<1>12. ASSUME NEW r \in Requests, NEW g \in Grants, InsertEntitlement(r, g)
      PROVE  TypeOK'
  <2>1. request' \in [Requests -> Request]
    BY <1>12, InsertFacts
  <2>2. QED
    BY <1>12, <2>1 DEF InsertEntitlement, TypeOK
<1>13. ASSUME NEW r \in Requests, NEW g \in Grants, RevokesGrant(r, g)
      PROVE  TypeOK'
  <2>1. request' \in [Requests -> Request]
    BY <1>13, RevokeFacts
  <2>2. QED
    BY <1>13, <2>1 DEF RevokesGrant, TypeOK
<1>14. ASSUME NEW r \in Requests, OverridePlan(r)
      PROVE  TypeOK'
  <2>1. request' \in [Requests -> Request] /\ excused' \subseteq {"plan", "wish"}
    BY <1>14, LeavesFacts, ExcusedType DEF OverridePlan
  <2>2. planId' \in Plans
    BY <1>14, RequestFields, PaidPlanFacts DEF OverridePlan
  <2>3. QED
    BY <1>14, <2>1, <2>2 DEF OverridePlan, TypeOK
<1>15. ASSUME NEW r \in Requests, ResolvePlan(r)
      PROVE  TypeOK'
  <2>1. request' \in [Requests -> Request]
    BY <1>15, ResolveFacts
  <2>2. QED
    BY <1>15, <2>1 DEF ResolvePlan, TypeOK
<1>16. ASSUME NEW r \in Requests, RevertPlan(r)
      PROVE  TypeOK'
  <2>1. request' \in [Requests -> Request] /\ excused' \subseteq {"plan", "wish"}
    BY <1>16, LeavesFacts, ExcusedType DEF RevertPlan
  <2>2. planId' \in Plans
    BY <1>16, RequestFields, PaidPlanFacts DEF RevertPlan
  <2>3. QED
    BY <1>16, <2>1, <2>2 DEF RevertPlan, TypeOK
<1>17. ASSUME NEW r \in Requests, RequestDies(r)
      PROVE  TypeOK'
  <2>1. request' \in [Requests -> Request]
    BY <1>17, LeavesFacts DEF RequestDies
  <2>2. excused' \subseteq {"plan", "wish"}
    BY <1>17 DEF RequestDies, TypeOK
  <2>3. QED
    BY <1>17, <2>1, <2>2 DEF RequestDies, TypeOK
<1>18. ASSUME NEW g \in Grants, EntitlementExpires(g)
      PROVE  TypeOK'
  BY <1>18 DEF EntitlementExpires, TypeOK
<1>19. CASE CancelScheduledPlanChange
  <2>1. request' \in [Requests -> Request] /\ row' \in Row
    BY <1>19, OvertakingFacts, RowTypes DEF CancelScheduledPlanChange
  <2>2. wish' \in Wish
    BY <1>19, WishType DEF CancelScheduledPlanChange, TypeOK, Snapshot
  <2>3. QED
    BY <1>19, <2>1, <2>2 DEF CancelScheduledPlanChange, TypeOK
<1>20. CASE PaddleChanges
  BY <1>20, RenewsFacts DEF PaddleChanges, TypeOK
<1>21. CASE UNCHANGED vars
  BY <1>21 DEF vars, TypeOK
<1>22. QED
  BY <1>1, <1>2, <1>3, <1>4, <1>5, <1>6, <1>7, <1>8, <1>9, <1>10,
     <1>11, <1>12, <1>13, <1>14, <1>15, <1>16, <1>17, <1>18, <1>19, <1>20, <1>21
  DEF Next, ChangeStep, Sweep, PlanStep, EntitlementStep, RevokeTemporaryEntitlement,
      RevertExpiredEntitlement

-----------------------------------------------------------------------------
(* Events and the row *)

LEMMA RowFacts ==
    ASSUME TypeOK
    PROVE  /\ row.at \in Nat /\ row.price \in Prices /\ row.status \in Statuses
           /\ row.effectiveAt \in Nat
           /\ ClearedRow.at = row.at /\ ClearedRow.price = row.price
           /\ ClearedRow.status = row.status /\ ClearedRow.scheduled = None
           /\ paddle.version \in Nat /\ paddle.price \in Prices /\ paddle.status \in Statuses
           /\ paddle.period \in Nat
           /\ \A e \in mail : /\ e.version \in Nat /\ e.price \in Prices /\ e.status \in Statuses
  BY DEF TypeOK, Row, Snapshot, ClearedRow

LEMMA ScheduledRow ==
    ASSUME TypeOK, NEW p, NEW n, row' = [row EXCEPT !.scheduled = p, !.effectiveAt = n]
    PROVE  /\ row'.at = row.at /\ row'.price = row.price /\ row'.status = row.status
           /\ row'.scheduled = p /\ row'.effectiveAt = n
  BY DEF TypeOK, Row

LEMMA EventRow ==
    ASSUME TypeOK, NEW r \in Requests, NEW e \in mail, ApplyEvent(r, e), IsNewer(e)
    PROVE  /\ row'.at = e.version /\ row'.price = e.price /\ row'.status = e.status
           /\ row'.scheduled = row.scheduled /\ row'.effectiveAt = row.effectiveAt
  BY DEF TypeOK, Row, ApplyEvent

LEMMA ResyncedRow ==
    ASSUME TypeOK, NEW r \in Requests, ResyncSubscription(r)
    PROVE  /\ row'.at = row.at /\ row'.price = request[r].price /\ row'.status = request[r].status
           /\ row'.scheduled = row.scheduled /\ row'.effectiveAt = row.effectiveAt
  BY DEF TypeOK, Row, ResyncSubscription

LEMMA VersionsStay ==
    ASSUME TypeOK, TypeOK', Versions, row'.at = row.at,
           \/ paddle' = paddle /\ mail' = mail
           \/ paddle'.version = paddle.version + 1 /\ mail' = mail \cup {paddle'}
    PROVE  Versions'
  BY RowFacts DEF Versions

LEMMA VersionsStep == TypeOK /\ TypeOK' /\ Versions /\ [Next]_vars => Versions'
<1> SUFFICES ASSUME TypeOK, TypeOK', Versions, [Next]_vars
             PROVE  Versions'
  OBVIOUS

<1>1. ASSUME NEW r \in Requests, NEW target \in Prices, ConfirmPlanChange(r, target)
      PROVE  Versions'
  BY <1>1, VersionsStay DEF ConfirmPlanChange
<1>2. ASSUME NEW r \in Requests, ScheduleChange(r)
      PROVE  Versions'
  BY <1>2, ScheduledRow, VersionsStay DEF ScheduleChange
<1>3. ASSUME NEW r \in Requests, SubmitUpgrade(r)
      PROVE  Versions'
  <2>1. \/ UNCHANGED <<paddle, mail>>
        \/ TakesPrice(request[r].price)
    BY <1>3 DEF SubmitUpgrade
  <2>2. row' = row
    BY <1>3 DEF SubmitUpgrade
  <2>3. QED
    BY <2>1, <2>2, RequestFields, TakesFacts, VersionsStay
<1>4. ASSUME NEW r \in Requests, ClearMarkers(r)
      PROVE  Versions'
  BY <1>4, RowFacts, VersionsStay DEF ClearMarkers
<1>5. ASSUME NEW r \in Requests, SelectDue(r)
      PROVE  Versions'
  BY <1>5, VersionsStay DEF SelectDue
<1>6. ASSUME NEW r \in Requests, SubmitDue(r)
      PROVE  Versions'
  BY <1>6, RequestFields, TakesFacts, VersionsStay DEF SubmitDue
<1>7. ASSUME NEW r \in Requests, SubmitDueFails(r)
      PROVE  Versions'
  BY <1>7, VersionsStay DEF SubmitDueFails
<1>8. ASSUME NEW r \in Requests, NEW e \in mail, ApplyEvent(r, e)
      PROVE  Versions'
  <2>1. /\ paddle' = paddle /\ mail' = mail \ {e}
        /\ e.version <= paddle.version /\ (e.version = paddle.version => e = paddle)
    BY <1>8 DEF ApplyEvent, Versions
  <2>2. row'.at = IF IsNewer(e) THEN e.version ELSE row.at
    BY <1>8, EventRow DEF ApplyEvent
  <2>3. row'.at <= paddle.version
    BY <2>1, <2>2 DEF Versions
  <2>4. paddle \in mail \ {e} \/ row'.at = paddle.version
    BY <2>1, <2>2, RowFacts DEF Versions, IsNewer
  <2>5. QED
    BY <2>1, <2>3, <2>4 DEF Versions
<1>9. ASSUME NEW r \in Requests, GrantPlan(r)
      PROVE  Versions'
  BY <1>9, VersionsStay DEF GrantPlan
<1>10. ASSUME NEW r \in Requests, FetchSubscription(r)
      PROVE  Versions'
  BY <1>10, VersionsStay DEF FetchSubscription
<1>11. ASSUME NEW r \in Requests, ResyncSubscription(r)
      PROVE  Versions'
  BY <1>11, ResyncedRow, VersionsStay DEF ResyncSubscription
<1>12. ASSUME NEW r \in Requests, NEW g \in Grants, InsertEntitlement(r, g)
      PROVE  Versions'
  BY <1>12, VersionsStay DEF InsertEntitlement
<1>13. ASSUME NEW r \in Requests, NEW g \in Grants, RevokesGrant(r, g)
      PROVE  Versions'
  BY <1>13, VersionsStay DEF RevokesGrant
<1>14. ASSUME NEW r \in Requests, OverridePlan(r)
      PROVE  Versions'
  BY <1>14, VersionsStay DEF OverridePlan
<1>15. ASSUME NEW r \in Requests, ResolvePlan(r)
      PROVE  Versions'
  BY <1>15, VersionsStay DEF ResolvePlan
<1>16. ASSUME NEW r \in Requests, RevertPlan(r)
      PROVE  Versions'
  BY <1>16, VersionsStay DEF RevertPlan
<1>17. ASSUME NEW r \in Requests, RequestDies(r)
      PROVE  Versions'
  BY <1>17, VersionsStay DEF RequestDies
<1>18. ASSUME NEW g \in Grants, EntitlementExpires(g)
      PROVE  Versions'
  BY <1>18, VersionsStay DEF EntitlementExpires
<1>19. CASE CancelScheduledPlanChange
  BY <1>19, RowFacts, VersionsStay DEF CancelScheduledPlanChange
<1>20. CASE PaddleChanges
  BY <1>20, RenewsFacts, VersionsStay DEF PaddleChanges
<1>21. CASE UNCHANGED vars
  BY <1>21, VersionsStay DEF vars
<1>22. QED
  BY <1>1, <1>2, <1>3, <1>4, <1>5, <1>6, <1>7, <1>8, <1>9, <1>10,
     <1>11, <1>12, <1>13, <1>14, <1>15, <1>16, <1>17, <1>18, <1>19, <1>20, <1>21
  DEF Next, ChangeStep, Sweep, PlanStep, EntitlementStep, RevokeTemporaryEntitlement,
      RevertExpiredEntitlement

-----------------------------------------------------------------------------
(* A subscription that is not cancelled *)

\* A step that writes nothing of Paddle's but what is known, and has no request
\* but r go on to another write.
LEMMA PayingStays ==
    ASSUME TypeOK, TypeOK', Paying, paddle.status # "cancelled" \/ paddle' = paddle,
           \/ mail' \subseteq mail
           \/ mail' = mail \cup {paddle'},
           row'.status = row.status \/ (row'.status = "cancelled" => paddle.status = "cancelled"),
           planId' = planId \/ (planId' = "free" => paddle.status = "cancelled"),
           NEW r \in Requests, NEW q, NEW pcs, Becomes(r, q, pcs),
           paddle'.status # "cancelled" =>
               /\ q.pc \in {"granting", "resyncing"} => q.status # "cancelled"
               /\ q.pc = "reverting" => q.plan # "free"
    PROVE  Paying'
<1>1. \A p \in Requests \ {r} :
          /\ At(p, "granting")' = At(p, "granting") /\ At(p, "resyncing")' = At(p, "resyncing")
          /\ At(p, "reverting")' = At(p, "reverting")
          /\ request'[p].status = request[p].status /\ request'[p].plan = request[p].plan
  BY DEF Becomes, Kept, At
<1>2. request'[r] = q
  BY DEF Becomes
<1>3. SUFFICES ASSUME paddle'.status # "cancelled"
               PROVE  /\ \A e \in mail' : e.status # "cancelled"
                      /\ row'.status # "cancelled" /\ planId' # "free"
                      /\ \A p \in Requests :
                            /\ At(p, "granting")' \/ At(p, "resyncing")' =>
                                   request'[p].status # "cancelled"
                            /\ At(p, "reverting")' => request'[p].plan # "free"
  BY DEF Paying
<1>4. paddle.status # "cancelled"
  BY <1>3
<1>5. /\ \A e \in mail' : e.status # "cancelled"
      /\ row'.status # "cancelled" /\ planId' # "free"
  BY <1>3, <1>4 DEF Paying
<1>6. \A p \in Requests \ {r} :
          /\ At(p, "granting")' \/ At(p, "resyncing")' => request'[p].status # "cancelled"
          /\ At(p, "reverting")' => request'[p].plan # "free"
  BY <1>1, <1>4 DEF Paying
<1>7. /\ At(r, "granting")' \/ At(r, "resyncing")' => request'[r].status # "cancelled"
      /\ At(r, "reverting")' => request'[r].plan # "free"
  BY <1>2, <1>3 DEF At
<1>8. QED
  BY <1>5, <1>6, <1>7

\* Every request may be overtaken, and Paddle may do what it will.
LEMMA PayingAll ==
    ASSUME TypeOK, TypeOK', Paying, paddle.status # "cancelled" \/ paddle' = paddle,
           mail' = mail \/ mail' = mail \cup {paddle'},
           row'.status = row.status, planId' = planId, NEW pcs, \A p \in Requests : Kept(p, pcs)
    PROVE  Paying'
<1>1. \A p \in Requests :
          /\ At(p, "granting")' = At(p, "granting") /\ At(p, "resyncing")' = At(p, "resyncing")
          /\ At(p, "reverting")' = At(p, "reverting")
          /\ request'[p].status = request[p].status /\ request'[p].plan = request[p].plan
  BY DEF Kept, At
<1>2. QED
  BY <1>1 DEF Paying

LEMMA UnchangedRequests == ASSUME request' = request PROVE \A p \in Requests : Kept(p, {})
  BY DEF Kept

LEMMA PayingStep == TypeOK /\ TypeOK' /\ Paying /\ [Next]_vars => Paying'
<1> SUFFICES ASSUME TypeOK, TypeOK', Paying, [Next]_vars
             PROVE  Paying'
  OBVIOUS

<1>1. ASSUME NEW r \in Requests, NEW target \in Prices, ConfirmPlanChange(r, target)
      PROVE  Paying'
  <2>1. PICK q : /\ Becomes(r, q, {}) /\ q.pc \notin {"granting", "resyncing", "reverting"}
    BY <1>1, ConfirmFacts
  <2>2. QED
    BY <1>1, <2>1, PayingStays DEF ConfirmPlanChange
<1>2. ASSUME NEW r \in Requests, ScheduleChange(r)
      PROVE  Paying'
  BY <1>2, ScheduleFacts, ScheduledRow, IdleFacts, PayingStays DEF ScheduleChange
<1>3. ASSUME NEW r \in Requests, SubmitUpgrade(r)
      PROVE  Paying'
  <2>1. CASE Becomes(r, IdleRequest, {}) /\ UNCHANGED <<paddle, mail>>
    BY <1>3, <2>1, IdleFacts, PayingStays DEF SubmitUpgrade
  <2>2. CASE TakesPrice(request[r].price)
             /\ \E q \in Request : Becomes(r, q, WishReaders) /\ q.pc = "clearing"
    <3>1. PICK q \in Request : Becomes(r, q, WishReaders) /\ q.pc = "clearing"
      BY <2>2
    <3>2. /\ paddle.status # "cancelled" /\ (mail' = mail \/ mail' = mail \cup {paddle'})
      BY <2>2, RequestFields, TakesFacts
    <3>3. QED
      BY <1>3, <3>1, <3>2, PayingStays DEF SubmitUpgrade
  <2>3. QED
    BY <1>3, <2>1, <2>2, UpgradeFacts
<1>4. ASSUME NEW r \in Requests, ClearMarkers(r)
      PROVE  Paying'
  BY <1>4, LeavesFacts, RowFacts, IdleFacts, PayingStays DEF ClearMarkers
<1>5. ASSUME NEW r \in Requests, SelectDue(r)
      PROVE  Paying'
  <2>1. PICK q : /\ Becomes(r, q, {}) /\ q.pc \notin {"granting", "resyncing", "reverting"}
    BY <1>5, SelectFacts
  <2>2. QED
    BY <1>5, <2>1, PayingStays DEF SelectDue
<1>6. ASSUME NEW r \in Requests, SubmitDue(r)
      PROVE  Paying'
  <2>1. PICK q \in Request : Becomes(r, q, {"upgrading"}) /\ q.pc = "clearing"
    BY <1>6, SubmitDueFacts
  <2>2. /\ paddle.status # "cancelled" /\ (mail' = mail \/ mail' = mail \cup {paddle'})
    BY <1>6, RequestFields, TakesFacts DEF SubmitDue
  <2>3. QED
    BY <1>6, <2>1, <2>2, PayingStays DEF SubmitDue
<1>7. ASSUME NEW r \in Requests, SubmitDueFails(r)
      PROVE  Paying'
  BY <1>7, LeavesFacts, IdleFacts, PayingStays DEF SubmitDueFails
<1>8. ASSUME NEW r \in Requests, NEW e \in mail, ApplyEvent(r, e)
      PROVE  Paying'
  <2>1. CASE IsNewer(e)
    <3>1. PICK q \in Request :
              /\ Becomes(r, q, {"granting", "resyncing", "reverting"})
              /\ q.pc = "granting" /\ q.status = e.status
      BY <1>8, <2>1, ApplyFacts
    <3>2. row'.status = e.status
      BY <1>8, <2>1, EventRow
    <3>3. e.status = "cancelled" => paddle.status = "cancelled"
      BY DEF Paying
    <3>4. paddle' = paddle /\ mail' \subseteq mail /\ planId' = planId
      BY <1>8 DEF ApplyEvent
    <3>5. QED
      BY <3>1, <3>2, <3>3, <3>4, PayingStays
  <2>2. CASE ~IsNewer(e)
    BY <1>8, <2>2 DEF ApplyEvent, Paying, At
  <2>3. QED
    BY <2>1, <2>2
<1>9. ASSUME NEW r \in Requests, GrantPlan(r)
      PROVE  Paying'
  <2>1. Becomes(r, IdleRequest, {})
    BY <1>9, LeavesFacts DEF GrantPlan
  <2>2. planId' = planId \/ (planId' = "free" => paddle.status = "cancelled")
    BY <1>9, RequestFields, PriceFacts DEF GrantPlan, PlanFromStatus, Paying, Statuses
  <2>3. QED
    BY <1>9, <2>1, <2>2, IdleFacts, PayingStays DEF GrantPlan
<1>10. ASSUME NEW r \in Requests, FetchSubscription(r)
      PROVE  Paying'
  <2>1. PICK q \in Request :
            Becomes(r, q, {}) /\ q.pc = "resyncing" /\ q.status = paddle.status
    BY <1>10, FetchFacts
  <2>2. QED
    BY <1>10, <2>1, PayingStays DEF FetchSubscription
<1>11. ASSUME NEW r \in Requests, ResyncSubscription(r)
      PROVE  Paying'
  <2>1. Becomes(r, IdleRequest, {})
    BY <1>11, LeavesFacts DEF ResyncSubscription
  <2>2. row'.status = "cancelled" => paddle.status = "cancelled"
    BY <1>11, ResyncedRow DEF ResyncSubscription, Paying
  <2>3. QED
    BY <1>11, <2>1, <2>2, IdleFacts, PayingStays DEF ResyncSubscription
<1>12. ASSUME NEW r \in Requests, NEW g \in Grants, InsertEntitlement(r, g)
      PROVE  Paying'
  <2>1. PICK q : /\ Becomes(r, q, {}) /\ q.pc \notin {"granting", "resyncing", "reverting"}
    BY <1>12, InsertFacts
  <2>2. QED
    BY <1>12, <2>1, PayingStays DEF InsertEntitlement
<1>13. ASSUME NEW r \in Requests, NEW g \in Grants, RevokesGrant(r, g)
      PROVE  Paying'
  <2>1. PICK q : /\ Becomes(r, q, {}) /\ q.pc \notin {"granting", "resyncing", "reverting"}
    BY <1>13, RevokeFacts
  <2>2. QED
    BY <1>13, <2>1, PayingStays DEF RevokesGrant
<1>14. ASSUME NEW r \in Requests, OverridePlan(r)
      PROVE  Paying'
  BY <1>14, LeavesFacts, IdleFacts, PaidPlanFacts, PayingStays DEF OverridePlan
<1>15. ASSUME NEW r \in Requests, ResolvePlan(r)
      PROVE  Paying'
  <2>1. PICK q \in Request :
            Becomes(r, q, {}) /\ q.pc = "reverting" /\ q.plan = RealEntitledPlan
    BY <1>15, ResolveFacts
  <2>2. RealEntitledPlan = "free" => paddle.status = "cancelled"
    BY RowFacts, PriceFacts DEF RealEntitledPlan, Entitled, Statuses, Paying
  <2>3. QED
    BY <1>15, <2>1, <2>2, PayingStays DEF ResolvePlan
<1>16. ASSUME NEW r \in Requests, RevertPlan(r)
      PROVE  Paying'
  <2>1. planId' = "free" => paddle.status = "cancelled"
    BY <1>16 DEF RevertPlan, Paying
  <2>2. QED
    BY <1>16, <2>1, LeavesFacts, IdleFacts, PayingStays DEF RevertPlan
<1>17. ASSUME NEW r \in Requests, RequestDies(r)
      PROVE  Paying'
  BY <1>17, LeavesFacts, IdleFacts, PayingStays DEF RequestDies
<1>18. ASSUME NEW g \in Grants, EntitlementExpires(g)
      PROVE  Paying'
  BY <1>18, UnchangedRequests, PayingAll DEF EntitlementExpires
<1>19. CASE CancelScheduledPlanChange
  BY <1>19, OvertakingFacts, RowFacts, PayingAll DEF CancelScheduledPlanChange
<1>20. CASE PaddleChanges
  BY <1>20, RenewsFacts, UnchangedRequests, PayingAll DEF PaddleChanges
<1>21. CASE UNCHANGED vars
  BY <1>21, UnchangedRequests, PayingAll DEF vars
<1>22. QED
  BY <1>1, <1>2, <1>3, <1>4, <1>5, <1>6, <1>7, <1>8, <1>9, <1>10,
     <1>11, <1>12, <1>13, <1>14, <1>15, <1>16, <1>17, <1>18, <1>19, <1>20, <1>21
  DEF Next, ChangeStep, Sweep, PlanStep, EntitlementStep, RevokeTemporaryEntitlement,
      RevertExpiredEntitlement

-----------------------------------------------------------------------------
(* The plan *)

LEMMA ExcusedGrows == TypeOK /\ [Next]_vars => excused \subseteq excused'
  BY DEF Next, ChangeStep, Sweep, PlanStep, EntitlementStep, RevokeTemporaryEntitlement,
     RevertExpiredEntitlement, ConfirmPlanChange, ScheduleChange, SubmitUpgrade, ClearMarkers,
     SelectDue, SubmitDue, SubmitDueFails, ApplyEvent, GrantPlan, FetchSubscription,
     ResyncSubscription, InsertEntitlement, RevokesGrant, OverridePlan, ResolvePlan, RevertPlan,
     RequestDies, EntitlementExpires, CancelScheduledPlanChange, PaddleChanges, vars, Excusing

\* A change at Paddle is not in the row before its event is.
LEMMA StillUpToDate ==
    ASSUME TypeOK, TypeOK', Versions, row'.at = row.at, excused \subseteq excused',
           \/ paddle' = paddle
           \/ paddle'.version = paddle.version + 1,
           UpToDate'
    PROVE  UpToDate /\ paddle' = paddle
  BY RowFacts DEF Versions, UpToDate

\* The writers that a step leaves alone.
LEMMA OthersWrite ==
    ASSUME Writers, NEW p \in Requests, NEW pcs, Kept(p, pcs), "resolving" \notin pcs,
           UpToDate' => UpToDate /\ paddle' = paddle
    PROVE  /\ WritesFit(p)'
           /\ At(p, "resolving")' => ~request'[p].overtaken
<1>1. \A x : PlanFits(x)' = PlanFits(x) \/ ~(paddle' = paddle)
  BY DEF PlanFits
<1>2. \A x : At(p, x)' = At(p, x)
  BY DEF At, Kept
<1>3. WritesFit(p)'
  <2> SUFFICES ASSUME UpToDate', ~request'[p].overtaken
               PROVE  /\ At(p, "granting")' \/ At(p, "resyncing")' =>
                             request'[p].price = paddle'.price /\ request'[p].status = paddle'.status
                      /\ At(p, "reverting")' => PlanFits(request[p].plan)'
    BY DEF WritesFit, Kept
  <2>1. UpToDate /\ ~request[p].overtaken /\ paddle' = paddle /\ WritesFit(p)
    BY DEF Writers, Kept
  <2>2. QED
    BY <1>2, <2>1 DEF WritesFit, Kept, PlanFits
<1>4. At(p, "resolving")' => ~request'[p].overtaken
  BY <1>2 DEF Writers, Kept, At
<1>5. QED
  BY <1>3, <1>4

LEMMA OthersOverride ==
    ASSUME Writers, NEW p \in Requests, NEW pcs, Kept(p, pcs),
           \A g \in Grants : grant[g] \in {"live", "expired"} => grant'[g] \in {"live", "expired"}
    PROVE  OverrideIsGranted(p)'
  BY DEF Writers, OverrideIsGranted, Kept, At

\* A step that has its request do something else than write the plan.
LEMMA WritersStay ==
    ASSUME Writers, NEW r \in Requests, NEW q, NEW pcs, Becomes(r, q, pcs), "resolving" \notin pcs,
           UpToDate' => UpToDate /\ paddle' = paddle,
           grant' = grant,
           q.pc \notin {"granting", "resyncing", "reverting", "overriding", "resolving"}
    PROVE  Writers'
<1>1. \A p \in Requests \ {r} : /\ WritesFit(p)' /\ OverrideIsGranted(p)'
                                /\ At(p, "resolving")' => ~request'[p].overtaken
  BY OthersWrite, OthersOverride DEF Becomes
<1>2. /\ WritesFit(r)' /\ OverrideIsGranted(r)' /\ ~At(r, "resolving")'
  BY DEF WritesFit, OverrideIsGranted, Becomes, At
<1>3. QED
  BY <1>1, <1>2 DEF Writers

LEMMA WritersAll ==
    ASSUME Writers, NEW pcs, \A p \in Requests : Kept(p, pcs), "resolving" \notin pcs,
           UpToDate' => UpToDate /\ paddle' = paddle,
           \A g \in Grants : grant[g] \in {"live", "expired"} => grant'[g] \in {"live", "expired"}
    PROVE  Writers'
  BY OthersWrite, OthersOverride DEF Writers

LEMMA ReadersNotResolving == "resolving" \notin WishReaders
  BY DEF WishReaders

LEMMA WritersStep ==
    TypeOK /\ TypeOK' /\ Versions /\ RowFits /\ Writers /\ [Next]_vars => Writers'
<1> SUFFICES ASSUME TypeOK, TypeOK', Versions, RowFits, Writers, [Next]_vars
             PROVE  Writers'
  OBVIOUS
<1>a. excused \subseteq excused'
  BY ExcusedGrows
<1>b. row'.at = row.at /\ (paddle' = paddle \/ paddle'.version = paddle.version + 1) =>
          (UpToDate' => UpToDate /\ paddle' = paddle)
  BY <1>a, StillUpToDate

<1>1. ASSUME NEW r \in Requests, NEW target \in Prices, ConfirmPlanChange(r, target)
      PROVE  Writers'
  <2>1. PICK q \in Request :
            /\ Becomes(r, q, {})
            /\ q.pc \notin {"granting", "resyncing", "reverting", "overriding", "resolving"}
    BY <1>1, ConfirmFacts
  <2>2. UpToDate' => UpToDate /\ paddle' = paddle
    BY <1>1, <1>b DEF ConfirmPlanChange
  <2>3. grant' = grant
    BY <1>1 DEF ConfirmPlanChange
  <2>4. QED
    BY <2>1, <2>2, <2>3, WritersStay
<1>2. ASSUME NEW r \in Requests, ScheduleChange(r)
      PROVE  Writers'
  <2>1. Becomes(r, IdleRequest, WishReaders)
    BY <1>2, ScheduleFacts
  <2>2. UpToDate' => UpToDate /\ paddle' = paddle
    BY <1>2, <1>b, ScheduledRow DEF ScheduleChange
  <2>3. grant' = grant
    BY <1>2 DEF ScheduleChange
  <2>4. QED
    BY <2>1, <2>2, <2>3, IdleFacts, ReadersNotResolving, WritersStay
<1>3. ASSUME NEW r \in Requests, SubmitUpgrade(r)
      PROVE  Writers'
  <2>1. PICK q, pcs : /\ Becomes(r, q, pcs) /\ q.pc \in {"idle", "clearing"}
                      /\ "resolving" \notin pcs
    BY <1>3, UpgradeFacts, IdleFacts, ReadersNotResolving
  <2>2. paddle' = paddle \/ paddle'.version = paddle.version + 1
    BY <1>3, RequestFields, TakesFacts DEF SubmitUpgrade
  <2>3. UpToDate' => UpToDate /\ paddle' = paddle
    BY <1>3, <1>b, <2>2 DEF SubmitUpgrade
  <2>4. grant' = grant
    BY <1>3 DEF SubmitUpgrade
  <2>5. QED
    BY <2>1, <2>3, <2>4, WritersStay
<1>4. ASSUME NEW r \in Requests, ClearMarkers(r)
      PROVE  Writers'
  <2>1. Becomes(r, IdleRequest, {})
    BY <1>4, LeavesFacts DEF ClearMarkers
  <2>2. UpToDate' => UpToDate /\ paddle' = paddle
    BY <1>4, <1>b, RowFacts DEF ClearMarkers
  <2>3. grant' = grant
    BY <1>4 DEF ClearMarkers
  <2>4. QED
    BY <2>1, <2>2, <2>3, IdleFacts, WritersStay
<1>5. ASSUME NEW r \in Requests, SelectDue(r)
      PROVE  Writers'
  <2>1. PICK q \in Request :
            /\ Becomes(r, q, {})
            /\ q.pc \notin {"granting", "resyncing", "reverting", "overriding", "resolving"}
    BY <1>5, SelectFacts
  <2>2. UpToDate' => UpToDate /\ paddle' = paddle
    BY <1>5, <1>b DEF SelectDue
  <2>3. grant' = grant
    BY <1>5 DEF SelectDue
  <2>4. QED
    BY <2>1, <2>2, <2>3, WritersStay
<1>6. ASSUME NEW r \in Requests, SubmitDue(r)
      PROVE  Writers'
  <2>1. PICK q \in Request : Becomes(r, q, {"upgrading"}) /\ q.pc = "clearing"
    BY <1>6, SubmitDueFacts
  <2>2. paddle' = paddle \/ paddle'.version = paddle.version + 1
    BY <1>6, RequestFields, TakesFacts DEF SubmitDue
  <2>3. UpToDate' => UpToDate /\ paddle' = paddle
    BY <1>6, <1>b, <2>2 DEF SubmitDue
  <2>4. grant' = grant
    BY <1>6 DEF SubmitDue
  <2>5. QED
    BY <2>1, <2>3, <2>4, WritersStay
<1>7. ASSUME NEW r \in Requests, SubmitDueFails(r)
      PROVE  Writers'
  <2>1. Becomes(r, IdleRequest, {})
    BY <1>7, LeavesFacts DEF SubmitDueFails
  <2>2. UpToDate' => UpToDate /\ paddle' = paddle
    BY <1>7, <1>b DEF SubmitDueFails
  <2>3. grant' = grant
    BY <1>7 DEF SubmitDueFails
  <2>4. QED
    BY <2>1, <2>2, <2>3, IdleFacts, WritersStay
<1>8. ASSUME NEW r \in Requests, NEW e \in mail, ApplyEvent(r, e)
      PROVE  Writers'
  <2>1. CASE IsNewer(e)
    <3> DEFINE pcs == {"granting", "resyncing", "reverting"}
    <3>1. PICK q \in Request :
              /\ Becomes(r, q, pcs)
              /\ q.pc = "granting" /\ q.price = e.price /\ q.status = e.status /\ ~q.overtaken
      BY <1>8, <2>1, ApplyFacts
    <3>2. row'.at = e.version /\ paddle' = paddle /\ grant' = grant
      BY <1>8, <2>1, EventRow DEF ApplyEvent
    <3>3. UpToDate' => e = paddle
      BY <3>2 DEF UpToDate, Versions
    <3>4. WritesFit(r)' /\ OverrideIsGranted(r)' /\ ~At(r, "resolving")'
      BY <3>1, <3>2, <3>3 DEF WritesFit, OverrideIsGranted, At, Becomes
    <3>5. \A p \in Requests \ {r} : WritesFit(p)'
      BY <3>1 DEF WritesFit, At, Becomes, Kept
    <3>6. \A p \in Requests \ {r} : At(p, "resolving")' => ~request'[p].overtaken
      BY <3>1 DEF Writers, At, Becomes, Kept
    <3>7. \A p \in Requests \ {r} : OverrideIsGranted(p)'
      BY <3>1, <3>2, OthersOverride DEF Becomes
    <3>8. QED
      BY <3>4, <3>5, <3>6, <3>7 DEF Writers
  <2>2. CASE ~IsNewer(e)
    <3>1. /\ \A p \in Requests : Kept(p, {})
          /\ paddle' = paddle /\ grant' = grant /\ row' = row
      BY <1>8, <2>2, UnchangedRequests DEF ApplyEvent
    <3>2. QED
      BY <1>b, <3>1, WritersAll
  <2>3. QED
    BY <2>1, <2>2
<1>9. ASSUME NEW r \in Requests, GrantPlan(r)
      PROVE  Writers'
  <2>1. Becomes(r, IdleRequest, {})
    BY <1>9, LeavesFacts DEF GrantPlan
  <2>2. UpToDate' => UpToDate /\ paddle' = paddle
    BY <1>9, <1>b DEF GrantPlan
  <2>3. grant' = grant
    BY <1>9 DEF GrantPlan
  <2>4. QED
    BY <2>1, <2>2, <2>3, IdleFacts, WritersStay
<1>10. ASSUME NEW r \in Requests, FetchSubscription(r)
      PROVE  Writers'
  <2>1. PICK q \in Request : Becomes(r, q, {}) /\ q.pc = "resyncing"
                           /\ q.price = paddle.price /\ q.status = paddle.status
    BY <1>10, FetchFacts
  <2>2. UpToDate' => UpToDate /\ paddle' = paddle
    BY <1>10, <1>b DEF FetchSubscription
  <2>3. \A h \in Grants : grant[h] \in {"live", "expired"} => grant'[h] \in {"live", "expired"}
    BY <1>10 DEF FetchSubscription, TypeOK
  <2>4. \A p \in Requests \ {r} : /\ WritesFit(p)' /\ OverrideIsGranted(p)'
                                  /\ At(p, "resolving")' => ~request'[p].overtaken
    BY <2>1, <2>2, <2>3, OthersWrite, OthersOverride DEF Becomes
  <2>5. WritesFit(r)' /\ OverrideIsGranted(r)' /\ ~At(r, "resolving")'
    BY <2>1, <2>2 DEF WritesFit, OverrideIsGranted, At, Becomes
  <2>6. QED
    BY <2>4, <2>5 DEF Writers
<1>11. ASSUME NEW r \in Requests, ResyncSubscription(r)
      PROVE  Writers'
  <2>1. Becomes(r, IdleRequest, {})
    BY <1>11, LeavesFacts DEF ResyncSubscription
  <2>2. UpToDate' => UpToDate /\ paddle' = paddle
    BY <1>11, <1>b, ResyncedRow DEF ResyncSubscription
  <2>3. grant' = grant
    BY <1>11 DEF ResyncSubscription
  <2>4. QED
    BY <2>1, <2>2, <2>3, IdleFacts, WritersStay
<1>12. ASSUME NEW r \in Requests, NEW g \in Grants, InsertEntitlement(r, g)
      PROVE  Writers'
  <2>1. PICK q \in Request : Becomes(r, q, {}) /\ q.pc = "overriding" /\ q.grant = g
    BY <1>12, InsertFacts
  <2>2. UpToDate' => UpToDate /\ paddle' = paddle
    BY <1>12, <1>b DEF InsertEntitlement
  <2>3. \A h \in Grants : grant[h] \in {"live", "expired"} => grant'[h] \in {"live", "expired"}
    BY <1>12 DEF InsertEntitlement, TypeOK
  <2>4. \A p \in Requests \ {r} : /\ WritesFit(p)' /\ OverrideIsGranted(p)'
                                  /\ At(p, "resolving")' => ~request'[p].overtaken
    BY <2>1, <2>2, <2>3, OthersWrite, OthersOverride DEF Becomes
  <2>5. grant'[g] = "live"
    BY <1>12 DEF InsertEntitlement, TypeOK
  <2>6. WritesFit(r)' /\ OverrideIsGranted(r)' /\ ~At(r, "resolving")'
    BY <2>1, <2>5 DEF WritesFit, OverrideIsGranted, At, Becomes
  <2>7. QED
    BY <2>4, <2>6 DEF Writers
<1>13. ASSUME NEW r \in Requests, NEW g \in Grants, RevokesGrant(r, g)
      PROVE  Writers'
  <2>1. PICK q \in Request :
            /\ Becomes(r, q, {}) /\ q.pc = "resolving" /\ ~q.overtaken
            /\ \A p \in Requests \ {r} :
                   At(p, "overriding") /\ request[p].grant = g => request'[p].overtaken
    BY <1>13, RevokeFacts
  <2>2. UpToDate' => UpToDate /\ paddle' = paddle
    BY <1>13, <1>b DEF RevokesGrant
  <2>3. \A h \in Grants \ {g} : grant'[h] = grant[h]
    BY <1>13 DEF RevokesGrant, TypeOK
  <2>4. \A p \in Requests \ {r} : WritesFit(p)' /\ (At(p, "resolving")' => ~request'[p].overtaken)
    BY <2>1, <2>2, OthersWrite DEF Becomes
  <2>5. \A p \in Requests \ {r} : OverrideIsGranted(p)'
    BY <2>1, <2>3 DEF Writers, OverrideIsGranted, Becomes, Kept, At
  <2>6. WritesFit(r)' /\ OverrideIsGranted(r)' /\ ~request'[r].overtaken
    BY <2>1 DEF WritesFit, OverrideIsGranted, At, Becomes
  <2>7. QED
    BY <2>4, <2>5, <2>6 DEF Writers
<1>14. ASSUME NEW r \in Requests, OverridePlan(r)
      PROVE  Writers'
  <2>1. Becomes(r, IdleRequest, {})
    BY <1>14, LeavesFacts DEF OverridePlan
  <2>2. UpToDate' => UpToDate /\ paddle' = paddle
    BY <1>14, <1>b DEF OverridePlan
  <2>3. grant' = grant
    BY <1>14 DEF OverridePlan
  <2>4. QED
    BY <2>1, <2>2, <2>3, IdleFacts, WritersStay
<1>15. ASSUME NEW r \in Requests, ResolvePlan(r)
      PROVE  Writers'
  <2>1. PICK q \in Request : Becomes(r, q, {}) /\ q.pc = "reverting" /\ q.plan = RealEntitledPlan
    BY <1>15, ResolveFacts
  <2>2. UpToDate' => UpToDate /\ paddle' = paddle
    BY <1>15, <1>b DEF ResolvePlan
  <2>3. \A h \in Grants : grant[h] \in {"live", "expired"} => grant'[h] \in {"live", "expired"}
    BY <1>15 DEF ResolvePlan, TypeOK
  <2>4. \A p \in Requests \ {r} : /\ WritesFit(p)' /\ OverrideIsGranted(p)'
                                  /\ At(p, "resolving")' => ~request'[p].overtaken
    BY <2>1, <2>2, <2>3, OthersWrite, OthersOverride DEF Becomes
  <2>5. UpToDate' => PlanFits(q.plan)'
    BY <2>1, <2>2, RowFacts DEF RowFits, PlanFits, RealEntitledPlan, Entitled, Statuses
  <2>6. WritesFit(r)' /\ OverrideIsGranted(r)' /\ ~At(r, "resolving")'
    BY <2>1, <2>5 DEF WritesFit, OverrideIsGranted, At, Becomes, PlanFits
  <2>7. QED
    BY <2>4, <2>6 DEF Writers
<1>16. ASSUME NEW r \in Requests, RevertPlan(r)
      PROVE  Writers'
  <2>1. Becomes(r, IdleRequest, {})
    BY <1>16, LeavesFacts DEF RevertPlan
  <2>2. UpToDate' => UpToDate /\ paddle' = paddle
    BY <1>16, <1>b DEF RevertPlan
  <2>3. grant' = grant
    BY <1>16 DEF RevertPlan
  <2>4. QED
    BY <2>1, <2>2, <2>3, IdleFacts, WritersStay
<1>17. ASSUME NEW r \in Requests, RequestDies(r)
      PROVE  Writers'
  <2>1. Becomes(r, IdleRequest, {})
    BY <1>17, LeavesFacts DEF RequestDies
  <2>2. UpToDate' => UpToDate /\ paddle' = paddle
    BY <1>17, <1>b DEF RequestDies
  <2>3. grant' = grant
    BY <1>17 DEF RequestDies
  <2>4. QED
    BY <2>1, <2>2, <2>3, IdleFacts, WritersStay
<1>18. ASSUME NEW g \in Grants, EntitlementExpires(g)
      PROVE  Writers'
  <2>1. \E pcs : /\ \A p \in Requests : Kept(p, pcs)
                  /\ "resolving" \notin pcs
    BY <1>18, UnchangedRequests DEF EntitlementExpires
  <2>2. \A h \in Grants : grant[h] \in {"live", "expired"} => grant'[h] \in {"live", "expired"}
    BY <1>18 DEF EntitlementExpires, TypeOK
  <2>3. UpToDate' => UpToDate /\ paddle' = paddle
    BY <1>18, <1>b, RowFacts, RenewsFacts DEF EntitlementExpires
  <2>4. QED
    BY <2>1, <2>2, <2>3, WritersAll
<1>19. CASE CancelScheduledPlanChange
  <2>1. \E pcs : /\ \A p \in Requests : Kept(p, pcs)
                  /\ "resolving" \notin pcs
    BY <1>19, OvertakingFacts, ReadersNotResolving DEF CancelScheduledPlanChange
  <2>2. \A g \in Grants : grant[g] \in {"live", "expired"} => grant'[g] \in {"live", "expired"}
    BY <1>19 DEF CancelScheduledPlanChange, TypeOK
  <2>3. UpToDate' => UpToDate /\ paddle' = paddle
    BY <1>19, <1>b, RowFacts, RenewsFacts DEF CancelScheduledPlanChange
  <2>4. QED
    BY <2>1, <2>2, <2>3, WritersAll
<1>20. CASE PaddleChanges
  <2>1. \E pcs : /\ \A p \in Requests : Kept(p, pcs)
                  /\ "resolving" \notin pcs
    BY <1>20, UnchangedRequests DEF PaddleChanges
  <2>2. \A g \in Grants : grant[g] \in {"live", "expired"} => grant'[g] \in {"live", "expired"}
    BY <1>20 DEF PaddleChanges, TypeOK
  <2>3. UpToDate' => UpToDate /\ paddle' = paddle
    BY <1>20, <1>b, RowFacts, RenewsFacts DEF PaddleChanges
  <2>4. QED
    BY <2>1, <2>2, <2>3, WritersAll
<1>21. CASE UNCHANGED vars
  <2>1. \E pcs : /\ \A p \in Requests : Kept(p, pcs)
                  /\ "resolving" \notin pcs
    BY <1>21, UnchangedRequests DEF vars
  <2>2. \A g \in Grants : grant[g] \in {"live", "expired"} => grant'[g] \in {"live", "expired"}
    BY <1>21 DEF vars, TypeOK
  <2>3. UpToDate' => UpToDate /\ paddle' = paddle
    BY <1>21, <1>b, RowFacts, RenewsFacts DEF vars
  <2>4. QED
    BY <2>1, <2>2, <2>3, WritersAll
<1>22. QED
  BY <1>1, <1>2, <1>3, <1>4, <1>5, <1>6, <1>7, <1>8, <1>9, <1>10,
     <1>11, <1>12, <1>13, <1>14, <1>15, <1>16, <1>17, <1>18, <1>19, <1>20, <1>21
  DEF Next, ChangeStep, Sweep, PlanStep, EntitlementStep, RevokeTemporaryEntitlement,
      RevertExpiredEntitlement

LEMMA RowFitsStays ==
    ASSUME TypeOK, TypeOK', Versions, RowFits, excused \subseteq excused',
           row'.at = row.at, row'.price = row.price, row'.status = row.status,
           paddle' = paddle \/ paddle'.version = paddle.version + 1
    PROVE  RowFits'
  BY StillUpToDate DEF RowFits

LEMMA RowFitsStep ==
    TypeOK /\ TypeOK' /\ Versions /\ RowFits /\ Writers /\ [Next]_vars => RowFits'
<1> SUFFICES ASSUME TypeOK, TypeOK', Versions, RowFits, Writers, [Next]_vars
             PROVE  RowFits'
  OBVIOUS
<1>a. excused \subseteq excused'
  BY ExcusedGrows

<1>1. ASSUME NEW r \in Requests, NEW target \in Prices, ConfirmPlanChange(r, target)
      PROVE  RowFits'
  BY <1>1, <1>a, RowFitsStays DEF ConfirmPlanChange
<1>2. ASSUME NEW r \in Requests, ScheduleChange(r)
      PROVE  RowFits'
  BY <1>2, <1>a, ScheduledRow, RowFitsStays DEF ScheduleChange
<1>3. ASSUME NEW r \in Requests, SubmitUpgrade(r)
      PROVE  RowFits'
  <2>1. paddle' = paddle \/ paddle'.version = paddle.version + 1
    BY <1>3, RequestFields, TakesFacts DEF SubmitUpgrade
  <2>2. QED
    BY <1>3, <1>a, <2>1, RowFitsStays DEF SubmitUpgrade
<1>4. ASSUME NEW r \in Requests, ClearMarkers(r)
      PROVE  RowFits'
  BY <1>4, <1>a, RowFacts, RowFitsStays DEF ClearMarkers
<1>5. ASSUME NEW r \in Requests, SelectDue(r)
      PROVE  RowFits'
  BY <1>5, <1>a, RowFitsStays DEF SelectDue
<1>6. ASSUME NEW r \in Requests, SubmitDue(r)
      PROVE  RowFits'
  BY <1>6, <1>a, RequestFields, TakesFacts, RowFitsStays DEF SubmitDue
<1>7. ASSUME NEW r \in Requests, SubmitDueFails(r)
      PROVE  RowFits'
  BY <1>7, <1>a, RowFitsStays DEF SubmitDueFails
<1>8. ASSUME NEW r \in Requests, NEW e \in mail, ApplyEvent(r, e)
      PROVE  RowFits'
  <2>1. CASE IsNewer(e)
    <3>1. /\ row'.at = e.version /\ row'.price = e.price /\ row'.status = e.status
          /\ paddle' = paddle
      BY <1>8, <2>1, EventRow DEF ApplyEvent
    <3>2. QED
      BY <3>1 DEF RowFits, UpToDate, Versions
  <2>2. CASE ~IsNewer(e)
    BY <1>8, <1>a, <2>2, RowFitsStays DEF ApplyEvent
  <2>3. QED
    BY <2>1, <2>2
<1>9. ASSUME NEW r \in Requests, GrantPlan(r)
      PROVE  RowFits'
  BY <1>9, <1>a, RowFitsStays DEF GrantPlan
<1>10. ASSUME NEW r \in Requests, FetchSubscription(r)
      PROVE  RowFits'
  BY <1>10, <1>a, RowFitsStays DEF FetchSubscription
<1>11. ASSUME NEW r \in Requests, ResyncSubscription(r)
      PROVE  RowFits'
  <2>1. /\ row'.at = row.at /\ row'.price = request[r].price /\ row'.status = request[r].status
        /\ paddle' = paddle /\ At(r, "resyncing")
    BY <1>11, ResyncedRow DEF ResyncSubscription
  <2>2. UpToDate' => UpToDate /\ ~request[r].overtaken
    BY <1>11, <1>a, <2>1, ExcusingFacts DEF ResyncSubscription, UpToDate
  <2>3. QED
    BY <2>1, <2>2 DEF RowFits, Writers, WritesFit
<1>12. ASSUME NEW r \in Requests, NEW g \in Grants, InsertEntitlement(r, g)
      PROVE  RowFits'
  BY <1>12, <1>a, RowFitsStays DEF InsertEntitlement
<1>13. ASSUME NEW r \in Requests, NEW g \in Grants, RevokesGrant(r, g)
      PROVE  RowFits'
  BY <1>13, <1>a, RowFitsStays DEF RevokesGrant
<1>14. ASSUME NEW r \in Requests, OverridePlan(r)
      PROVE  RowFits'
  BY <1>14, <1>a, RowFitsStays DEF OverridePlan
<1>15. ASSUME NEW r \in Requests, ResolvePlan(r)
      PROVE  RowFits'
  BY <1>15, <1>a, RowFitsStays DEF ResolvePlan
<1>16. ASSUME NEW r \in Requests, RevertPlan(r)
      PROVE  RowFits'
  BY <1>16, <1>a, RowFitsStays DEF RevertPlan
<1>17. ASSUME NEW r \in Requests, RequestDies(r)
      PROVE  RowFits'
  BY <1>17, <1>a, RowFitsStays DEF RequestDies
<1>18. ASSUME NEW g \in Grants, EntitlementExpires(g)
      PROVE  RowFits'
  BY <1>18, <1>a, RowFitsStays DEF EntitlementExpires
<1>19. CASE CancelScheduledPlanChange
  BY <1>19, <1>a, RowFacts, RowFitsStays DEF CancelScheduledPlanChange
<1>20. CASE PaddleChanges
  BY <1>20, <1>a, RenewsFacts, RowFitsStays DEF PaddleChanges
<1>21. CASE UNCHANGED vars
  BY <1>21, <1>a, RowFitsStays DEF vars
<1>22. QED
  BY <1>1, <1>2, <1>3, <1>4, <1>5, <1>6, <1>7, <1>8, <1>9, <1>10,
     <1>11, <1>12, <1>13, <1>14, <1>15, <1>16, <1>17, <1>18, <1>19, <1>20, <1>21
  DEF Next, ChangeStep, Sweep, PlanStep, EntitlementStep, RevokeTemporaryEntitlement,
      RevertExpiredEntitlement

\* A step that writes no plan and has no request but r go on.
LEMMA FollowsStays ==
    ASSUME PlanFollows, UpToDate' => UpToDate /\ paddle' = paddle, planId' = planId,
           \A g \in Grants : grant[g] \in {"live", "expired"} => grant'[g] \in {"live", "expired"},
           NEW r \in Requests, NEW q, NEW pcs, Becomes(r, q, pcs),
           "granting" \notin pcs, "reverting" \notin pcs,
           UpToDate' => ~At(r, "resolving") /\ ~At(r, "granting") /\ ~At(r, "reverting")
    PROVE  PlanFollows'
<1> SUFFICES ASSUME UpToDate'
             PROVE  \/ PlanFits(planId)'
                    \/ Granted'
                    \/ \E p \in Requests :
                           \/ At(p, "resolving")'
                           \/ (At(p, "granting")' \/ At(p, "reverting")') /\ ~request'[p].overtaken
  BY DEF PlanFollows
<1>1. CASE PlanFits(planId)
  BY <1>1 DEF PlanFits
<1>2. CASE Granted
  BY <1>2 DEF Granted
<1>3. CASE \E p \in Requests :
               \/ At(p, "resolving")
               \/ (At(p, "granting") \/ At(p, "reverting")) /\ ~request[p].overtaken
  <2>1. PICK p \in Requests :
            \/ At(p, "resolving")
            \/ (At(p, "granting") \/ At(p, "reverting")) /\ ~request[p].overtaken
    BY <1>3
  <2>2. p # r
    BY <2>1
  <2>3. \/ At(p, "resolving")'
        \/ (At(p, "granting")' \/ At(p, "reverting")') /\ ~request'[p].overtaken
    BY <2>1, <2>2 DEF Becomes, Kept, At
  <2>4. QED
    BY <2>3
<1>4. QED
  BY <1>1, <1>2, <1>3 DEF PlanFollows

\* A step that writes the plan writes what fits, or is overtaken, or is a grant's.
LEMMA FollowsWritten ==
    ASSUME UpToDate' => PlanFits(planId)' \/ Granted'
    PROVE  PlanFollows'
  BY DEF PlanFollows

LEMMA FollowsAll ==
    ASSUME PlanFollows, UpToDate' => UpToDate /\ paddle' = paddle, planId' = planId,
           \A g \in Grants : grant[g] \in {"live", "expired"} => grant'[g] \in {"live", "expired"},
           NEW pcs, \A p \in Requests : Kept(p, pcs),
           "granting" \notin pcs, "reverting" \notin pcs
    PROVE  PlanFollows'
<1>1. PlanFits(planId)' = PlanFits(planId) \/ ~(paddle' = paddle)
  BY DEF PlanFits
<1>2. \A p \in Requests :
          /\ At(p, "resolving")' = At(p, "resolving") /\ At(p, "granting")' = At(p, "granting")
          /\ At(p, "reverting")' = At(p, "reverting")
          /\ At(p, "granting") \/ At(p, "reverting") =>
                 (request'[p].overtaken => request[p].overtaken)
  BY DEF At, Kept
<1>3. Granted => Granted'
  BY DEF Granted
<1>4. QED
  BY <1>1, <1>2, <1>3 DEF PlanFollows

LEMMA ReadersNotWriting == "granting" \notin WishReaders /\ "reverting" \notin WishReaders
  BY DEF WishReaders

LEMMA PlanFollowsStep ==
    TypeOK /\ TypeOK' /\ Versions /\ Writers /\ PlanFollows /\ [Next]_vars => PlanFollows'
<1> SUFFICES ASSUME TypeOK, TypeOK', Versions, Writers, PlanFollows, [Next]_vars
             PROVE  PlanFollows'
  OBVIOUS
<1>a. excused \subseteq excused'
  BY ExcusedGrows
<1>b. row'.at = row.at /\ (paddle' = paddle \/ paddle'.version = paddle.version + 1) =>
          (UpToDate' => UpToDate /\ paddle' = paddle)
  BY <1>a, StillUpToDate

<1>1. ASSUME NEW r \in Requests, NEW target \in Prices, ConfirmPlanChange(r, target)
      PROVE  PlanFollows'
  <2>1. PICK q \in Request : Becomes(r, q, {})
    BY <1>1, ConfirmFacts
  <2>2. (UpToDate' => UpToDate /\ paddle' = paddle) /\ planId' = planId
    BY <1>1, <1>b DEF ConfirmPlanChange
  <2>3. \A h \in Grants : grant[h] \in {"live", "expired"} => grant'[h] \in {"live", "expired"}
    BY <1>1 DEF ConfirmPlanChange, TypeOK
  <2>4. UpToDate' => ~At(r, "resolving") /\ ~At(r, "granting") /\ ~At(r, "reverting")
    BY <1>1 DEF ConfirmPlanChange, At
  <2>5. QED
    BY <2>1, <2>2, <2>3, <2>4, FollowsStays
<1>2. ASSUME NEW r \in Requests, ScheduleChange(r)
      PROVE  PlanFollows'
  <2>1. PICK q, pcs : /\ Becomes(r, q, pcs)
                      /\ "granting" \notin pcs /\ "reverting" \notin pcs
    BY <1>2, ScheduleFacts, ReadersNotWriting
  <2>2. (UpToDate' => UpToDate /\ paddle' = paddle) /\ planId' = planId
    BY <1>2, <1>b, ScheduledRow DEF ScheduleChange
  <2>3. \A h \in Grants : grant[h] \in {"live", "expired"} => grant'[h] \in {"live", "expired"}
    BY <1>2 DEF ScheduleChange, TypeOK
  <2>4. UpToDate' => ~At(r, "resolving") /\ ~At(r, "granting") /\ ~At(r, "reverting")
    BY <1>2 DEF ScheduleChange, At
  <2>5. QED
    BY <2>1, <2>2, <2>3, <2>4, FollowsStays
<1>3. ASSUME NEW r \in Requests, SubmitUpgrade(r)
      PROVE  PlanFollows'
  <2>0. paddle' = paddle \/ paddle'.version = paddle.version + 1
    BY <1>3, RequestFields, TakesFacts DEF SubmitUpgrade
  <2>1. PICK q, pcs : /\ Becomes(r, q, pcs)
                      /\ "granting" \notin pcs /\ "reverting" \notin pcs
    BY <1>3, UpgradeFacts, ReadersNotWriting
  <2>2. (UpToDate' => UpToDate /\ paddle' = paddle) /\ planId' = planId
    BY <1>3, <1>b, <2>0 DEF SubmitUpgrade
  <2>3. \A h \in Grants : grant[h] \in {"live", "expired"} => grant'[h] \in {"live", "expired"}
    BY <1>3 DEF SubmitUpgrade, TypeOK
  <2>4. UpToDate' => ~At(r, "resolving") /\ ~At(r, "granting") /\ ~At(r, "reverting")
    BY <1>3 DEF SubmitUpgrade, At
  <2>5. QED
    BY <2>1, <2>2, <2>3, <2>4, FollowsStays
<1>4. ASSUME NEW r \in Requests, ClearMarkers(r)
      PROVE  PlanFollows'
  <2>1. PICK q : Becomes(r, q, {})
    BY <1>4, LeavesFacts DEF ClearMarkers
  <2>2. (UpToDate' => UpToDate /\ paddle' = paddle) /\ planId' = planId
    BY <1>4, <1>b, RowFacts DEF ClearMarkers
  <2>3. \A h \in Grants : grant[h] \in {"live", "expired"} => grant'[h] \in {"live", "expired"}
    BY <1>4 DEF ClearMarkers, TypeOK
  <2>4. UpToDate' => ~At(r, "resolving") /\ ~At(r, "granting") /\ ~At(r, "reverting")
    BY <1>4 DEF ClearMarkers, At
  <2>5. QED
    BY <2>1, <2>2, <2>3, <2>4, FollowsStays
<1>5. ASSUME NEW r \in Requests, SelectDue(r)
      PROVE  PlanFollows'
  <2>1. PICK q \in Request : Becomes(r, q, {})
    BY <1>5, SelectFacts
  <2>2. (UpToDate' => UpToDate /\ paddle' = paddle) /\ planId' = planId
    BY <1>5, <1>b DEF SelectDue
  <2>3. \A h \in Grants : grant[h] \in {"live", "expired"} => grant'[h] \in {"live", "expired"}
    BY <1>5 DEF SelectDue, TypeOK
  <2>4. UpToDate' => ~At(r, "resolving") /\ ~At(r, "granting") /\ ~At(r, "reverting")
    BY <1>5 DEF SelectDue, At
  <2>5. QED
    BY <2>1, <2>2, <2>3, <2>4, FollowsStays
<1>6. ASSUME NEW r \in Requests, SubmitDue(r)
      PROVE  PlanFollows'
  <2>0. paddle' = paddle \/ paddle'.version = paddle.version + 1
    BY <1>6, RequestFields, TakesFacts DEF SubmitDue
  <2>1. PICK q \in Request : Becomes(r, q, {"upgrading"})
    BY <1>6, SubmitDueFacts
  <2>2. (UpToDate' => UpToDate /\ paddle' = paddle) /\ planId' = planId
    BY <1>6, <1>b, <2>0 DEF SubmitDue
  <2>3. \A h \in Grants : grant[h] \in {"live", "expired"} => grant'[h] \in {"live", "expired"}
    BY <1>6 DEF SubmitDue, TypeOK
  <2>4. UpToDate' => ~At(r, "resolving") /\ ~At(r, "granting") /\ ~At(r, "reverting")
    BY <1>6 DEF SubmitDue, At
  <2>5. QED
    BY <2>1, <2>2, <2>3, <2>4, FollowsStays
<1>7. ASSUME NEW r \in Requests, SubmitDueFails(r)
      PROVE  PlanFollows'
  <2>1. PICK q : Becomes(r, q, {})
    BY <1>7, LeavesFacts DEF SubmitDueFails
  <2>2. (UpToDate' => UpToDate /\ paddle' = paddle) /\ planId' = planId
    BY <1>7, <1>b DEF SubmitDueFails
  <2>3. \A h \in Grants : grant[h] \in {"live", "expired"} => grant'[h] \in {"live", "expired"}
    BY <1>7 DEF SubmitDueFails, TypeOK
  <2>4. UpToDate' => ~At(r, "resolving") /\ ~At(r, "granting") /\ ~At(r, "reverting")
    BY <1>7 DEF SubmitDueFails, At
  <2>5. QED
    BY <2>1, <2>2, <2>3, <2>4, FollowsStays
<1>8. ASSUME NEW r \in Requests, NEW e \in mail, ApplyEvent(r, e)
      PROVE  PlanFollows'
  <2>1. CASE IsNewer(e)
    <3>1. PICK q \in Request :
              /\ request'[r] = q /\ q.pc = "granting" /\ ~q.overtaken
      BY <1>8, <2>1, ApplyFacts DEF Becomes
    <3>2. At(r, "granting")' /\ ~request'[r].overtaken
      BY <3>1 DEF At
    <3>3. QED
      BY <3>2 DEF PlanFollows
  <2>2. CASE ~IsNewer(e)
    <3>1. /\ \A p \in Requests : Kept(p, {})
          /\ paddle' = paddle /\ grant' = grant /\ row' = row /\ planId' = planId
      BY <1>8, <2>2, UnchangedRequests DEF ApplyEvent
    <3>2. QED
      BY <1>b, <3>1, FollowsAll
  <2>3. QED
    BY <2>1, <2>2
<1>9. ASSUME NEW r \in Requests, GrantPlan(r)
      PROVE  PlanFollows'
  <2>1. (UpToDate' => UpToDate /\ paddle' = paddle /\ ~request[r].overtaken) /\ At(r, "granting")
    BY <1>9, <1>b, ExcusingFacts DEF GrantPlan, UpToDate
  <2>2. UpToDate' => PlanFits(planId)'
    BY <1>9, <2>1 DEF GrantPlan, PlanFromStatus, PlanFits, Writers, WritesFit
  <2>3. QED
    BY <2>2, FollowsWritten
<1>10. ASSUME NEW r \in Requests, FetchSubscription(r)
      PROVE  PlanFollows'
  <2>1. PICK q \in Request : Becomes(r, q, {})
    BY <1>10, FetchFacts
  <2>2. (UpToDate' => UpToDate /\ paddle' = paddle) /\ planId' = planId
    BY <1>10, <1>b DEF FetchSubscription
  <2>3. \A h \in Grants : grant[h] \in {"live", "expired"} => grant'[h] \in {"live", "expired"}
    BY <1>10 DEF FetchSubscription, TypeOK
  <2>4. UpToDate' => ~At(r, "resolving") /\ ~At(r, "granting") /\ ~At(r, "reverting")
    BY <1>10 DEF FetchSubscription, At
  <2>5. QED
    BY <2>1, <2>2, <2>3, <2>4, FollowsStays
<1>11. ASSUME NEW r \in Requests, ResyncSubscription(r)
      PROVE  PlanFollows'
  <2>1. PICK q : Becomes(r, q, {})
    BY <1>11, LeavesFacts DEF ResyncSubscription
  <2>2. (UpToDate' => UpToDate /\ paddle' = paddle) /\ planId' = planId
    BY <1>11, <1>b, ResyncedRow DEF ResyncSubscription
  <2>3. \A h \in Grants : grant[h] \in {"live", "expired"} => grant'[h] \in {"live", "expired"}
    BY <1>11 DEF ResyncSubscription, TypeOK
  <2>4. UpToDate' => ~At(r, "resolving") /\ ~At(r, "granting") /\ ~At(r, "reverting")
    BY <1>11 DEF ResyncSubscription, At
  <2>5. QED
    BY <2>1, <2>2, <2>3, <2>4, FollowsStays
<1>12. ASSUME NEW r \in Requests, NEW g \in Grants, InsertEntitlement(r, g)
      PROVE  PlanFollows'
  <2>1. PICK q \in Request : Becomes(r, q, {})
    BY <1>12, InsertFacts
  <2>2. (UpToDate' => UpToDate /\ paddle' = paddle) /\ planId' = planId
    BY <1>12, <1>b DEF InsertEntitlement
  <2>3. \A h \in Grants : grant[h] \in {"live", "expired"} => grant'[h] \in {"live", "expired"}
    BY <1>12 DEF InsertEntitlement, TypeOK
  <2>4. UpToDate' => ~At(r, "resolving") /\ ~At(r, "granting") /\ ~At(r, "reverting")
    BY <1>12 DEF InsertEntitlement, At
  <2>5. QED
    BY <2>1, <2>2, <2>3, <2>4, FollowsStays
<1>13. ASSUME NEW r \in Requests, NEW g \in Grants, RevokesGrant(r, g)
      PROVE  PlanFollows'
  <2>1. PICK q \in Request : request'[r] = q /\ q.pc = "resolving"
    BY <1>13, RevokeFacts DEF Becomes
  <2>2. At(r, "resolving")'
    BY <2>1 DEF At
  <2>3. QED
    BY <2>2 DEF PlanFollows
<1>14. ASSUME NEW r \in Requests, OverridePlan(r)
      PROVE  PlanFollows'
  <2>1. (UpToDate' => ~request[r].overtaken) /\ At(r, "overriding") /\ grant' = grant
    BY <1>14, ExcusingFacts DEF OverridePlan, UpToDate
  <2>2. UpToDate' => Granted'
    BY <2>1 DEF Granted, Writers, OverrideIsGranted
  <2>3. QED
    BY <2>2, FollowsWritten
<1>15. ASSUME NEW r \in Requests, ResolvePlan(r)
      PROVE  PlanFollows'
  <2>1. PICK q \in Request :
            /\ request'[r] = q /\ q.pc = "reverting" /\ q.overtaken = request[r].overtaken
    BY <1>15, ResolveFacts DEF Becomes
  <2>2. ~request[r].overtaken
    BY <1>15 DEF ResolvePlan, Writers
  <2>3. At(r, "reverting")' /\ ~request'[r].overtaken
    BY <2>1, <2>2 DEF At
  <2>4. QED
    BY <2>3 DEF PlanFollows
<1>16. ASSUME NEW r \in Requests, RevertPlan(r)
      PROVE  PlanFollows'
  <2>1. (UpToDate' => UpToDate /\ paddle' = paddle /\ ~request[r].overtaken) /\ At(r, "reverting")
    BY <1>16, <1>b, ExcusingFacts DEF RevertPlan, UpToDate
  <2>2. UpToDate' => PlanFits(planId)'
    BY <1>16, <2>1 DEF RevertPlan, PlanFits, Writers, WritesFit
  <2>3. QED
    BY <2>2, FollowsWritten
<1>17. ASSUME NEW r \in Requests, RequestDies(r)
      PROVE  PlanFollows'
  <2>1. PICK q : Becomes(r, q, {})
    BY <1>17, LeavesFacts DEF RequestDies
  <2>2. (UpToDate' => UpToDate /\ paddle' = paddle) /\ planId' = planId
    BY <1>17, <1>b DEF RequestDies
  <2>3. \A h \in Grants : grant[h] \in {"live", "expired"} => grant'[h] \in {"live", "expired"}
    BY <1>17 DEF RequestDies, TypeOK
  <2>4. UpToDate' => ~At(r, "resolving") /\ ~At(r, "granting") /\ ~At(r, "reverting")
    BY <1>17 DEF RequestDies, At, UpToDate
  <2>5. QED
    BY <2>1, <2>2, <2>3, <2>4, FollowsStays
<1>18. ASSUME NEW g \in Grants, EntitlementExpires(g)
      PROVE  PlanFollows'
  <2>1. PICK pcs : /\ \A p \in Requests : Kept(p, pcs)
                  /\ "granting" \notin pcs /\ "reverting" \notin pcs
    BY <1>18, UnchangedRequests DEF EntitlementExpires
  <2>2. \A h \in Grants : grant[h] \in {"live", "expired"} => grant'[h] \in {"live", "expired"}
    BY <1>18 DEF EntitlementExpires, TypeOK
  <2>3. (UpToDate' => UpToDate /\ paddle' = paddle) /\ planId' = planId
    BY <1>18, <1>b, RowFacts, RenewsFacts DEF EntitlementExpires
  <2>4. QED
    BY <2>1, <2>2, <2>3, FollowsAll
<1>19. CASE CancelScheduledPlanChange
  <2>1. PICK pcs : /\ \A p \in Requests : Kept(p, pcs)
                  /\ "granting" \notin pcs /\ "reverting" \notin pcs
    BY <1>19, OvertakingFacts, ReadersNotWriting DEF CancelScheduledPlanChange
  <2>2. \A h \in Grants : grant[h] \in {"live", "expired"} => grant'[h] \in {"live", "expired"}
    BY <1>19 DEF CancelScheduledPlanChange, TypeOK
  <2>3. (UpToDate' => UpToDate /\ paddle' = paddle) /\ planId' = planId
    BY <1>19, <1>b, RowFacts, RenewsFacts DEF CancelScheduledPlanChange
  <2>4. QED
    BY <2>1, <2>2, <2>3, FollowsAll
<1>20. CASE PaddleChanges
  <2>1. PICK pcs : /\ \A p \in Requests : Kept(p, pcs)
                  /\ "granting" \notin pcs /\ "reverting" \notin pcs
    BY <1>20, UnchangedRequests DEF PaddleChanges
  <2>2. \A h \in Grants : grant[h] \in {"live", "expired"} => grant'[h] \in {"live", "expired"}
    BY <1>20 DEF PaddleChanges, TypeOK
  <2>3. (UpToDate' => UpToDate /\ paddle' = paddle) /\ planId' = planId
    BY <1>20, <1>b, RowFacts, RenewsFacts DEF PaddleChanges
  <2>4. QED
    BY <2>1, <2>2, <2>3, FollowsAll
<1>21. CASE UNCHANGED vars
  <2>1. PICK pcs : /\ \A p \in Requests : Kept(p, pcs)
                  /\ "granting" \notin pcs /\ "reverting" \notin pcs
    BY <1>21, UnchangedRequests DEF vars
  <2>2. \A h \in Grants : grant[h] \in {"live", "expired"} => grant'[h] \in {"live", "expired"}
    BY <1>21 DEF vars, TypeOK
  <2>3. (UpToDate' => UpToDate /\ paddle' = paddle) /\ planId' = planId
    BY <1>21, <1>b, RowFacts, RenewsFacts DEF vars
  <2>4. QED
    BY <2>1, <2>2, <2>3, FollowsAll
<1>22. QED
  BY <1>1, <1>2, <1>3, <1>4, <1>5, <1>6, <1>7, <1>8, <1>9, <1>10,
     <1>11, <1>12, <1>13, <1>14, <1>15, <1>16, <1>17, <1>18, <1>19, <1>20, <1>21
  DEF Next, ChangeStep, Sweep, PlanStep, EntitlementStep, RevokeTemporaryEntitlement,
      RevertExpiredEntitlement

-----------------------------------------------------------------------------
(* The wish *)

\* The requests that a step leaves alone act on the wish as before.
LEMMA OthersWish ==
    ASSUME TypeOK, TypeOK', WishInv, PeriodInv, excused \subseteq excused',
           paddle'.price = paddle.price, paddle.period <= paddle'.period,
           wish' = wish, NEW p \in Requests, NEW pcs, Kept(p, pcs)
    PROVE  /\ "wish" \notin excused' /\ ~request'[p].overtaken =>
                  /\ At(p, "submitting")' => request'[p].price = wish'.price
                  /\ At(p, "clearing")' => wish'.price = paddle'.price
           /\ "wish" \notin excused' /\ wish'.informed /\ At(p, "submitting")'
                  /\ ~request'[p].overtaken => wish'.asked < paddle'.period
           /\ request'[p].informed =>
                  /\ At(p, "scheduling")' => request'[p].period = request'[p].asked
                  /\ At(p, "upgrading")' /\ ~request'[p].overtaken =>
                         Rank(paddle'.price) < Rank(request'[p].price)
<1>1. \A x : At(p, x)' = At(p, x)
  BY DEF At, Kept
<1>2. wish.asked \in Nat /\ paddle.period \in Nat /\ paddle'.period \in Nat
  BY DEF TypeOK, Wish, Snapshot
<1>3. "wish" \notin excused' /\ ~request'[p].overtaken =>
          /\ At(p, "submitting")' => request'[p].price = wish'.price
          /\ At(p, "clearing")' => wish'.price = paddle'.price
  BY <1>1 DEF WishInv, Kept
<1>4. "wish" \notin excused' /\ wish'.informed /\ At(p, "submitting")'
          /\ ~request'[p].overtaken => wish'.asked < paddle'.period
  <2> SUFFICES ASSUME "wish" \notin excused', wish'.informed, At(p, "submitting")',
                      ~request'[p].overtaken
               PROVE  wish'.asked < paddle'.period
    OBVIOUS
  <2>1. wish.asked < paddle.period
    BY <1>1 DEF PeriodInv, Kept
  <2>2. QED
    BY <1>2, <2>1
<1>5. request'[p].informed =>
          /\ At(p, "scheduling")' => request'[p].period = request'[p].asked
          /\ At(p, "upgrading")' /\ ~request'[p].overtaken =>
                 Rank(paddle'.price) < Rank(request'[p].price)
  BY <1>1 DEF PeriodInv, Kept
<1>6. QED
  BY <1>3, <1>4, <1>5

LEMMA ClearingStays ==
    ASSUME Clearing, NEW pcs, NEW r, \A p \in Requests \ {r} : Kept(p, pcs), ~At(r, "clearing")
    PROVE  Clearing'
  BY DEF Clearing, At, Kept

\* What the markers say, with the row and the wish as they were.
LEMMA MarkersStay ==
    ASSUME WishInv, PeriodInv, excused \subseteq excused',
           paddle'.price = paddle.price, wish' = wish,
           row'.scheduled = row.scheduled, row'.effectiveAt = row.effectiveAt,
           NEW pcs, NEW r, \A p \in Requests \ {r} : Kept(p, pcs),
           "wish" \in excused' \/ ~At(r, "clearing")
    PROVE  /\ "wish" \notin excused' => WishFits' \/ Clearing'
           /\ "wish" \notin excused' /\ wish'.informed /\ row'.scheduled # None =>
                  row'.effectiveAt = wish'.asked \/ Clearing'
<1> SUFFICES ASSUME "wish" \notin excused'
             PROVE  /\ WishFits' \/ Clearing'
                    /\ wish'.informed /\ row'.scheduled # None =>
                           row'.effectiveAt = wish'.asked \/ Clearing'
  OBVIOUS
<1>1. Clearing => Clearing'
  BY ClearingStays
<1>2. WishFits => WishFits'
  BY DEF WishFits
<1>3. "wish" \notin excused
  OBVIOUS
<1>4. QED
  BY <1>1, <1>2, <1>3 DEF WishInv, PeriodInv

LEMMA WishStays ==
    ASSUME TypeOK, TypeOK', WishInv, PeriodInv, excused \subseteq excused',
           paddle'.price = paddle.price, paddle.period <= paddle'.period, wish' = wish,
           row'.scheduled = row.scheduled, row'.effectiveAt = row.effectiveAt,
           NEW r \in Requests, NEW q, NEW pcs, Becomes(r, q, pcs),
           "wish" \in excused' \/ ~At(r, "clearing"),
           q.pc \notin {"scheduling", "upgrading", "clearing", "submitting"}
    PROVE  WishInv' /\ PeriodInv'
<1>1. \A p \in Requests \ {r} : Kept(p, pcs)
  BY DEF Becomes
<1>2. ~At(r, "scheduling")' /\ ~At(r, "upgrading")' /\ ~At(r, "clearing")' /\ ~At(r, "submitting")'
  BY DEF Becomes, At
<1>3. WishInv'
  BY <1>1, <1>2, OthersWish, MarkersStay DEF WishInv
<1>4. PeriodInv'
  BY <1>1, <1>2, OthersWish, MarkersStay DEF PeriodInv
<1>5. QED
  BY <1>3, <1>4

LEMMA WishAll ==
    ASSUME TypeOK, TypeOK', WishInv, PeriodInv, excused \subseteq excused',
           paddle'.price = paddle.price, paddle.period <= paddle'.period, wish' = wish,
           row'.scheduled = row.scheduled, row'.effectiveAt = row.effectiveAt,
           NEW pcs, \A p \in Requests : Kept(p, pcs)
    PROVE  WishInv' /\ PeriodInv'
<1>1. /\ "wish" \notin excused' => WishFits' \/ Clearing'
      /\ "wish" \notin excused' /\ wish'.informed /\ row'.scheduled # None =>
             row'.effectiveAt = wish'.asked \/ Clearing'
  <2>1. Clearing => Clearing'
    BY DEF Clearing, At, Kept
  <2>2. WishFits => WishFits'
    BY DEF WishFits
  <2>3. "wish" \notin excused' => "wish" \notin excused
    OBVIOUS
  <2>4. QED
    BY <2>1, <2>2, <2>3 DEF WishInv, PeriodInv
<1>2. WishInv'
  BY <1>1, OthersWish DEF WishInv
<1>3. PeriodInv'
  BY <1>1, OthersWish DEF PeriodInv
<1>4. QED
  BY <1>2, <1>3

\* A new wish, over what the other requests go by.
LEMMA NewWish ==
    ASSUME TypeOK, TypeOK', PeriodInv, NEW r, \A p \in Requests \ {r} : Kept(p, WishReaders),
           r \in Requests => /\ ~At(r, "scheduling")' /\ ~At(r, "upgrading")'
                             /\ ~At(r, "submitting")'
                             /\ At(r, "clearing")' => wish'.price = paddle'.price,
           \/ Clearing'
           \/ WishFits' /\ (wish'.informed /\ row'.scheduled # None =>
                                row'.effectiveAt = wish'.asked)
    PROVE  WishInv' /\ PeriodInv'
<1>1. \A p \in Requests \ {r} :
          /\ At(p, "submitting")' \/ At(p, "clearing")' \/ At(p, "upgrading")' =>
                 request'[p].overtaken
          /\ At(p, "scheduling")' => At(p, "scheduling")
          /\ request'[p].informed = request[p].informed /\ request'[p].asked = request[p].asked
          /\ request'[p].period = request[p].period
  BY DEF Kept, At, WishReaders
<1>2. WishInv'
  BY <1>1 DEF WishInv
<1>3. PeriodInv'
  BY <1>1 DEF PeriodInv
<1>4. QED
  BY <1>2, <1>3

LEMMA WishStep ==
    TypeOK /\ TypeOK' /\ WishInv /\ PeriodInv /\ [Next]_vars => WishInv' /\ PeriodInv'
<1> SUFFICES ASSUME TypeOK, TypeOK', WishInv, PeriodInv, [Next]_vars
             PROVE  WishInv' /\ PeriodInv'
  OBVIOUS
<1>a. excused \subseteq excused'
  BY ExcusedGrows
<1>b. paddle.period <= paddle.period
  BY RowFacts

<1>1. ASSUME NEW r \in Requests, NEW target \in Prices, ConfirmPlanChange(r, target)
      PROVE  WishInv' /\ PeriodInv'
  <2>1. PICK q \in Request :
            /\ Becomes(r, q, {}) /\ q.pc \in {"scheduling", "upgrading"} /\ q.price = target
            /\ q.pc = "upgrading" => Rank(row.price) < Rank(target)
            /\ q.period = row.period /\ q.asked = paddle.period
            /\ q.informed => row.price = paddle.price /\ row.period = paddle.period
    BY <1>1, ConfirmFacts
  <2>2. paddle' = paddle /\ wish' = wish /\ row' = row /\ ~At(r, "clearing")
    BY <1>1 DEF ConfirmPlanChange, At
  <2>3. \A p \in Requests \ {r} : Kept(p, {})
    BY <2>1 DEF Becomes
  <2>4. ~At(r, "clearing")' /\ ~At(r, "submitting")'
    BY <2>1 DEF Becomes, At
  <2>5. request'[r].informed =>
            /\ At(r, "scheduling")' => request'[r].period = request'[r].asked
            /\ At(r, "upgrading")' => Rank(paddle'.price) < Rank(request'[r].price)
    BY <2>1, <2>2 DEF Becomes, At
  <2>6. WishInv'
    BY <1>a, <1>b, <2>2, <2>3, <2>4, OthersWish, MarkersStay DEF WishInv
  <2>7. PeriodInv'
    BY <1>a, <1>b, <2>2, <2>3, <2>4, <2>5, OthersWish, MarkersStay DEF PeriodInv
  <2>8. QED
    BY <2>6, <2>7
<1>2. ASSUME NEW r \in Requests, ScheduleChange(r)
      PROVE  WishInv' /\ PeriodInv'
  <2>1. Becomes(r, IdleRequest, WishReaders)
    BY <1>2, ScheduleFacts
  <2>2. /\ wish'.price = request[r].price /\ wish'.asked = request[r].asked
        /\ wish'.informed = request[r].informed
        /\ row'.scheduled = request[r].price /\ row'.effectiveAt = request[r].period
    BY <1>2, ScheduledRow DEF ScheduleChange, Wishes
  <2>3. request[r].price # None /\ At(r, "scheduling")
    BY <1>2, RequestFields, PlanChangesAssumption DEF ScheduleChange
  <2>4. WishFits'
    BY <2>2, <2>3 DEF WishFits
  <2>5. wish'.informed => row'.effectiveAt = wish'.asked
    BY <2>2, <2>3 DEF PeriodInv
  <2>6. /\ \A p \in Requests \ {r} : Kept(p, WishReaders)
        /\ ~At(r, "scheduling")' /\ ~At(r, "upgrading")' /\ ~At(r, "submitting")'
        /\ ~At(r, "clearing")'
    BY <2>1, IdleFacts DEF Becomes, At
  <2>7. QED
    BY <2>4, <2>5, <2>6, NewWish
<1>3. ASSUME NEW r \in Requests, SubmitUpgrade(r)
      PROVE  WishInv' /\ PeriodInv'
  <2>1. CASE Becomes(r, IdleRequest, {}) /\ UNCHANGED <<paddle, mail, wish, excused>>
    <3>1. row' = row /\ ~At(r, "clearing")
      BY <1>3 DEF SubmitUpgrade, At
    <3>2. QED
      BY <1>a, <1>b, <2>1, <3>1, IdleFacts, WishStays
  <2>2. CASE \E q \in Request :
                /\ Becomes(r, q, WishReaders) /\ q.pc = "clearing"
                /\ TakesPrice(request[r].price) /\ excused' = Excusing(r, "wish")
                /\ wish' = [price |-> request[r].price, asked |-> request[r].asked,
                            informed |-> request[r].informed]
    <3>1. PICK q \in Request : Becomes(r, q, WishReaders) /\ q.pc = "clearing"
      BY <2>2
    <3>2. wish'.price = paddle'.price
      BY <2>2, RequestFields, TakesFacts
    <3>3. /\ \A p \in Requests \ {r} : Kept(p, WishReaders)
          /\ ~At(r, "scheduling")' /\ ~At(r, "upgrading")' /\ ~At(r, "submitting")'
          /\ At(r, "clearing")'
      BY <3>1 DEF Becomes, At
    <3>4. Clearing'
      BY <3>3 DEF Clearing
    <3>5. QED
      BY <3>2, <3>3, <3>4, NewWish
  <2>3. QED
    BY <1>3, <2>1, <2>2, UpgradeFacts
<1>4. ASSUME NEW r \in Requests, ClearMarkers(r)
      PROVE  WishInv' /\ PeriodInv'
  <2>1. Becomes(r, IdleRequest, {})
    BY <1>4, LeavesFacts DEF ClearMarkers
  <2>2. paddle' = paddle /\ wish' = wish /\ row'.scheduled = None /\ At(r, "clearing")
    BY <1>4, RowFacts DEF ClearMarkers
  <2>3. "wish" \notin excused' => WishFits'
    <3> SUFFICES ASSUME "wish" \notin excused'
                 PROVE  WishFits'
      OBVIOUS
    <3>1. ~request[r].overtaken /\ "wish" \notin excused
      BY <1>4, <1>a, ExcusingFacts DEF ClearMarkers
    <3>2. wish.price = paddle.price
      BY <2>2, <3>1 DEF WishInv
    <3>3. QED
      BY <2>2, <3>2 DEF WishFits
  <2>4. /\ \A p \in Requests \ {r} : Kept(p, {})
        /\ ~At(r, "scheduling")' /\ ~At(r, "upgrading")' /\ ~At(r, "submitting")'
        /\ ~At(r, "clearing")'
    BY <2>1, IdleFacts DEF Becomes, At
  <2>5. WishInv'
    BY <1>a, <1>b, <2>2, <2>3, <2>4, OthersWish DEF WishInv
  <2>6. PeriodInv'
    BY <1>a, <1>b, <2>2, <2>4, OthersWish DEF PeriodInv
  <2>7. QED
    BY <2>5, <2>6
<1>5. ASSUME NEW r \in Requests, SelectDue(r)
      PROVE  WishInv' /\ PeriodInv'
  <2>1. PICK q \in Request :
            /\ Becomes(r, q, {}) /\ q.pc = "submitting" /\ q.price = row.scheduled
            /\ q.overtaken <=> Clearing
    BY <1>5, SelectFacts
  <2>2. /\ paddle' = paddle /\ wish' = wish /\ row' = row /\ ~At(r, "clearing")
        /\ row.scheduled # None /\ row.effectiveAt < paddle.period
    BY <1>5 DEF SelectDue, At, IsDue
  <2>3. \A p \in Requests \ {r} : Kept(p, {})
    BY <2>1 DEF Becomes
  <2>4. /\ ~At(r, "scheduling")' /\ ~At(r, "upgrading")' /\ ~At(r, "clearing")'
        /\ request'[r] = q
    BY <2>1 DEF Becomes, At
  <2>5. ~q.overtaken /\ "wish" \notin excused' => q.price = wish'.price
    BY <1>a, <2>1, <2>2 DEF WishInv, WishFits
  <2>6. ~q.overtaken /\ "wish" \notin excused' /\ wish'.informed => wish'.asked < paddle'.period
    BY <1>a, <2>1, <2>2 DEF PeriodInv
  <2>7. WishInv'
    BY <1>a, <1>b, <2>2, <2>3, <2>4, <2>5, OthersWish, MarkersStay DEF WishInv
  <2>8. PeriodInv'
    BY <1>a, <1>b, <2>2, <2>3, <2>4, <2>6, OthersWish, MarkersStay DEF PeriodInv
  <2>9. QED
    BY <2>7, <2>8
<1>6. ASSUME NEW r \in Requests, SubmitDue(r)
      PROVE  WishInv' /\ PeriodInv'
  <2>1. PICK q \in Request :
            /\ Becomes(r, q, {"upgrading"}) /\ q.pc = "clearing"
            /\ request[r].overtaken => q.overtaken
    BY <1>6, SubmitDueFacts
  <2>2. /\ wish' = wish /\ row' = row /\ At(r, "submitting")
        /\ paddle'.price = request[r].price /\ paddle'.period = paddle.period
    BY <1>6, RequestFields, TakesFacts DEF SubmitDue
  <2>3. /\ \A p \in Requests \ {r} : Kept(p, {"upgrading"})
        /\ ~At(r, "scheduling")' /\ ~At(r, "upgrading")' /\ ~At(r, "submitting")'
        /\ At(r, "clearing")'
    BY <2>1 DEF Becomes, At
  <2>4. Clearing'
    BY <2>3 DEF Clearing
  <2>5. "wish" \notin excused' => wish'.price = paddle'.price
    <3> SUFFICES ASSUME "wish" \notin excused'
                 PROVE  wish'.price = paddle'.price
      OBVIOUS
    <3>1. ~request[r].overtaken /\ "wish" \notin excused
      BY <1>6, <1>a, ExcusingFacts DEF SubmitDue
    <3>2. QED
      BY <2>2, <3>1 DEF WishInv
  <2>6. \A p \in Requests \ {r} :
            /\ At(p, "submitting")' = At(p, "submitting") /\ At(p, "scheduling")' = At(p, "scheduling")
            /\ At(p, "upgrading")' => request'[p].overtaken
            /\ ~request'[p].overtaken => ~request[p].overtaken
            /\ request'[p].price = request[p].price /\ request'[p].informed = request[p].informed
            /\ request'[p].period = request[p].period /\ request'[p].asked = request[p].asked
    BY <2>3 DEF Kept, At
  <2>7. WishInv'
    BY <1>a, <2>2, <2>3, <2>4, <2>5, <2>6 DEF WishInv
  <2>8. PeriodInv'
    BY <1>a, <2>2, <2>3, <2>4, <2>6 DEF PeriodInv
  <2>9. QED
    BY <2>7, <2>8
<1>7. ASSUME NEW r \in Requests, SubmitDueFails(r)
      PROVE  WishInv' /\ PeriodInv'
  <2>1. PICK q : /\ Becomes(r, q, {})
               /\ q.pc \notin {"scheduling", "upgrading", "clearing", "submitting"}
    BY <1>7, LeavesFacts, IdleFacts DEF SubmitDueFails
  <2>2. /\ paddle'.price = paddle.price /\ paddle'.period = paddle.period /\ wish' = wish
        /\ row'.scheduled = row.scheduled /\ row'.effectiveAt = row.effectiveAt
    BY <1>7 DEF SubmitDueFails
  <2>3. "wish" \in excused' \/ ~At(r, "clearing")
    BY <1>7 DEF SubmitDueFails, At
  <2>4. QED
    BY <1>a, <1>b, <2>1, <2>2, <2>3, WishStays
<1>8. ASSUME NEW r \in Requests, NEW e \in mail, ApplyEvent(r, e)
      PROVE  WishInv' /\ PeriodInv'
  <2>1. CASE IsNewer(e)
    <3>1. PICK q, pcs : Becomes(r, q, pcs) /\ q.pc = "granting"
      BY <1>8, <2>1, ApplyFacts
    <3>2. /\ paddle' = paddle /\ wish' = wish
          /\ row'.scheduled = row.scheduled /\ row'.effectiveAt = row.effectiveAt
      BY <1>8, <2>1, EventRow DEF ApplyEvent
    <3>3. ~At(r, "clearing")
      BY <1>8 DEF ApplyEvent, At
    <3>4. QED
      BY <1>a, <1>b, <3>1, <3>2, <3>3, WishStays
  <2>2. CASE ~IsNewer(e)
    <3>1. /\ \A p \in Requests : Kept(p, {})
          /\ paddle' = paddle /\ wish' = wish /\ row' = row
      BY <1>8, <2>2, UnchangedRequests DEF ApplyEvent
    <3>2. QED
      BY <1>a, <1>b, <3>1, WishAll
  <2>3. QED
    BY <2>1, <2>2
<1>9. ASSUME NEW r \in Requests, GrantPlan(r)
      PROVE  WishInv' /\ PeriodInv'
  <2>1. PICK q : /\ Becomes(r, q, {})
               /\ q.pc \notin {"scheduling", "upgrading", "clearing", "submitting"}
    BY <1>9, LeavesFacts, IdleFacts DEF GrantPlan
  <2>2. /\ paddle'.price = paddle.price /\ paddle'.period = paddle.period /\ wish' = wish
        /\ row'.scheduled = row.scheduled /\ row'.effectiveAt = row.effectiveAt
    BY <1>9 DEF GrantPlan
  <2>3. "wish" \in excused' \/ ~At(r, "clearing")
    BY <1>9 DEF GrantPlan, At
  <2>4. QED
    BY <1>a, <1>b, <2>1, <2>2, <2>3, WishStays
<1>10. ASSUME NEW r \in Requests, FetchSubscription(r)
      PROVE  WishInv' /\ PeriodInv'
  <2>1. PICK q : /\ Becomes(r, q, {})
               /\ q.pc \notin {"scheduling", "upgrading", "clearing", "submitting"}
    BY <1>10, FetchFacts
  <2>2. /\ paddle'.price = paddle.price /\ paddle'.period = paddle.period /\ wish' = wish
        /\ row'.scheduled = row.scheduled /\ row'.effectiveAt = row.effectiveAt
    BY <1>10 DEF FetchSubscription
  <2>3. "wish" \in excused' \/ ~At(r, "clearing")
    BY <1>10 DEF FetchSubscription, At
  <2>4. QED
    BY <1>a, <1>b, <2>1, <2>2, <2>3, WishStays
<1>11. ASSUME NEW r \in Requests, ResyncSubscription(r)
      PROVE  WishInv' /\ PeriodInv'
  <2>1. PICK q : /\ Becomes(r, q, {})
               /\ q.pc \notin {"scheduling", "upgrading", "clearing", "submitting"}
    BY <1>11, LeavesFacts, IdleFacts DEF ResyncSubscription
  <2>2. /\ paddle'.price = paddle.price /\ paddle'.period = paddle.period /\ wish' = wish
        /\ row'.scheduled = row.scheduled /\ row'.effectiveAt = row.effectiveAt
    BY <1>11, ResyncedRow DEF ResyncSubscription
  <2>3. "wish" \in excused' \/ ~At(r, "clearing")
    BY <1>11 DEF ResyncSubscription, At
  <2>4. QED
    BY <1>a, <1>b, <2>1, <2>2, <2>3, WishStays
<1>12. ASSUME NEW r \in Requests, NEW g \in Grants, InsertEntitlement(r, g)
      PROVE  WishInv' /\ PeriodInv'
  <2>1. PICK q : /\ Becomes(r, q, {})
               /\ q.pc \notin {"scheduling", "upgrading", "clearing", "submitting"}
    BY <1>12, InsertFacts
  <2>2. /\ paddle'.price = paddle.price /\ paddle'.period = paddle.period /\ wish' = wish
        /\ row'.scheduled = row.scheduled /\ row'.effectiveAt = row.effectiveAt
    BY <1>12 DEF InsertEntitlement
  <2>3. "wish" \in excused' \/ ~At(r, "clearing")
    BY <1>12 DEF InsertEntitlement, At
  <2>4. QED
    BY <1>a, <1>b, <2>1, <2>2, <2>3, WishStays
<1>13. ASSUME NEW r \in Requests, NEW g \in Grants, RevokesGrant(r, g)
      PROVE  WishInv' /\ PeriodInv'
  <2>1. PICK q : /\ Becomes(r, q, {})
               /\ q.pc \notin {"scheduling", "upgrading", "clearing", "submitting"}
    BY <1>13, RevokeFacts
  <2>2. /\ paddle'.price = paddle.price /\ paddle'.period = paddle.period /\ wish' = wish
        /\ row'.scheduled = row.scheduled /\ row'.effectiveAt = row.effectiveAt
    BY <1>13 DEF RevokesGrant
  <2>3. "wish" \in excused' \/ ~At(r, "clearing")
    BY <1>13 DEF RevokesGrant, At
  <2>4. QED
    BY <1>a, <1>b, <2>1, <2>2, <2>3, WishStays
<1>14. ASSUME NEW r \in Requests, OverridePlan(r)
      PROVE  WishInv' /\ PeriodInv'
  <2>1. PICK q : /\ Becomes(r, q, {})
               /\ q.pc \notin {"scheduling", "upgrading", "clearing", "submitting"}
    BY <1>14, LeavesFacts, IdleFacts DEF OverridePlan
  <2>2. /\ paddle'.price = paddle.price /\ paddle'.period = paddle.period /\ wish' = wish
        /\ row'.scheduled = row.scheduled /\ row'.effectiveAt = row.effectiveAt
    BY <1>14 DEF OverridePlan
  <2>3. "wish" \in excused' \/ ~At(r, "clearing")
    BY <1>14 DEF OverridePlan, At
  <2>4. QED
    BY <1>a, <1>b, <2>1, <2>2, <2>3, WishStays
<1>15. ASSUME NEW r \in Requests, ResolvePlan(r)
      PROVE  WishInv' /\ PeriodInv'
  <2>1. PICK q : /\ Becomes(r, q, {})
               /\ q.pc \notin {"scheduling", "upgrading", "clearing", "submitting"}
    BY <1>15, ResolveFacts
  <2>2. /\ paddle'.price = paddle.price /\ paddle'.period = paddle.period /\ wish' = wish
        /\ row'.scheduled = row.scheduled /\ row'.effectiveAt = row.effectiveAt
    BY <1>15 DEF ResolvePlan
  <2>3. "wish" \in excused' \/ ~At(r, "clearing")
    BY <1>15 DEF ResolvePlan, At
  <2>4. QED
    BY <1>a, <1>b, <2>1, <2>2, <2>3, WishStays
<1>16. ASSUME NEW r \in Requests, RevertPlan(r)
      PROVE  WishInv' /\ PeriodInv'
  <2>1. PICK q : /\ Becomes(r, q, {})
               /\ q.pc \notin {"scheduling", "upgrading", "clearing", "submitting"}
    BY <1>16, LeavesFacts, IdleFacts DEF RevertPlan
  <2>2. /\ paddle'.price = paddle.price /\ paddle'.period = paddle.period /\ wish' = wish
        /\ row'.scheduled = row.scheduled /\ row'.effectiveAt = row.effectiveAt
    BY <1>16 DEF RevertPlan
  <2>3. "wish" \in excused' \/ ~At(r, "clearing")
    BY <1>16 DEF RevertPlan, At
  <2>4. QED
    BY <1>a, <1>b, <2>1, <2>2, <2>3, WishStays
<1>17. ASSUME NEW r \in Requests, RequestDies(r)
      PROVE  WishInv' /\ PeriodInv'
  <2>1. PICK q : /\ Becomes(r, q, {})
               /\ q.pc \notin {"scheduling", "upgrading", "clearing", "submitting"}
    BY <1>17, LeavesFacts, IdleFacts DEF RequestDies
  <2>2. /\ paddle'.price = paddle.price /\ paddle'.period = paddle.period /\ wish' = wish
        /\ row'.scheduled = row.scheduled /\ row'.effectiveAt = row.effectiveAt
    BY <1>17 DEF RequestDies
  <2>3. "wish" \in excused' \/ ~At(r, "clearing")
    BY <1>17 DEF RequestDies, At
  <2>4. QED
    BY <1>a, <1>b, <2>1, <2>2, <2>3, WishStays
<1>18. ASSUME NEW g \in Grants, EntitlementExpires(g)
      PROVE  WishInv' /\ PeriodInv'
  <2>1. /\ \A p \in Requests : Kept(p, {})
        /\ wish' = wish /\ row' = row
    BY <1>18, UnchangedRequests DEF EntitlementExpires
  <2>2. paddle'.price = paddle.price /\ paddle.period <= paddle'.period
    BY <1>18, <1>b DEF EntitlementExpires
  <2>3. QED
    BY <1>a, <2>1, <2>2, WishAll
<1>19. CASE CancelScheduledPlanChange
  <2>1. \A p \in Requests : Kept(p, WishReaders)
    BY <1>19, OvertakingFacts DEF CancelScheduledPlanChange
  <2>2. row'.scheduled = None /\ wish'.price = paddle'.price
    BY <1>19, RowFacts DEF CancelScheduledPlanChange
  <2>3. WishFits'
    BY <2>2 DEF WishFits
  <2>4. PICK r : r \notin Requests
    BY NoSetContainsEverything
  <2>5. QED
    BY <2>1, <2>2, <2>3, <2>4, NewWish
<1>20. CASE PaddleChanges
  <2>1. /\ \A p \in Requests : Kept(p, {})
        /\ wish' = wish /\ row' = row
    BY <1>20, UnchangedRequests DEF PaddleChanges
  <2>2. paddle'.price = paddle.price /\ paddle.period <= paddle'.period
    BY <1>20, <1>b, RenewsFacts DEF PaddleChanges
  <2>3. QED
    BY <1>a, <2>1, <2>2, WishAll
<1>21. CASE UNCHANGED vars
  <2>1. /\ \A p \in Requests : Kept(p, {})
        /\ wish' = wish /\ row' = row
    BY <1>21, UnchangedRequests DEF vars
  <2>2. paddle'.price = paddle.price /\ paddle.period <= paddle'.period
    BY <1>21, <1>b DEF vars
  <2>3. QED
    BY <1>a, <2>1, <2>2, WishAll
<1>22. QED
  BY <1>1, <1>2, <1>3, <1>4, <1>5, <1>6, <1>7, <1>8, <1>9, <1>10,
     <1>11, <1>12, <1>13, <1>14, <1>15, <1>16, <1>17, <1>18, <1>19, <1>20, <1>21
  DEF Next, ChangeStep, Sweep, PlanStep, EntitlementStep, RevokeTemporaryEntitlement,
      RevertExpiredEntitlement

-----------------------------------------------------------------------------
(* The theorems *)

LEMMA TypeInit == Init => TypeOK
<1> SUFFICES ASSUME Init PROVE TypeOK
  OBVIOUS
<1>1. FirstPrice \in Prices /\ FirstPrice.planId \in Plans
  BY PlanChangesAssumption, PriceFacts, PaidPlanFacts
<1>2. QED
  BY <1>1, IdleFacts DEF Init, TypeOK, Snapshot, Row, Wish, Statuses

\* The variables keep their types: the rows, Paddle's answers and what the
\* requests carry between two statements.
THEOREM TypeCorrectness == Spec => []TypeOK
<1>1. Init => TypeOK
  BY TypeInit
<1>2. TypeOK /\ [Next]_vars => TypeOK'
  BY TypeStep
<1>3. QED
  BY <1>1, <1>2, PTL DEF Spec

LEMMA InitFacts ==
    ASSUME Init
    PROVE  /\ row.at = 1 /\ paddle.version = 1 /\ mail = {} /\ planId = FirstPrice.planId
           /\ row.price = FirstPrice /\ paddle.price = FirstPrice /\ wish.price = FirstPrice
           /\ row.status = "active" /\ paddle.status = "active" /\ row.scheduled = None
           /\ \A r \in Requests : request[r] = IdleRequest /\ request[r].pc = "idle"
  BY IdleFacts DEF Init

LEMMA PlanInit == Init => PlanInv
<1> SUFFICES ASSUME Init PROVE PlanInv
  OBVIOUS
<1>1. Versions
  BY InitFacts DEF Versions
<1>2. planId # "free"
  BY InitFacts, PriceFacts, PlanChangesAssumption
<1>3. Paying
  BY <1>2, InitFacts DEF Paying, At
<1>4. RowFits /\ PlanFollows
  BY InitFacts DEF RowFits, PlanFollows, PlanFits
<1>5. Writers
  BY InitFacts DEF Writers, WritesFit, OverrideIsGranted, At
<1>6. QED
  BY <1>1, <1>3, <1>4, <1>5 DEF PlanInv

\* Who will still write the plan, and what: the row has Paddle's newest event or
\* the event is on its way, a request that is not overtaken writes what Paddle
\* has, and a plan that is wrong will be written again.
THEOREM PlanInvariant == Spec => []PlanInv
<1>1. Init => PlanInv
  BY PlanInit
<1>2. TypeOK /\ TypeOK' /\ PlanInv /\ [Next]_vars => PlanInv'
  BY VersionsStep, PayingStep, RowFitsStep, WritersStep, PlanFollowsStep DEF PlanInv
<1>3. QED
  BY <1>1, <1>2, TypeCorrectness, PTL DEF Spec

\* When every event has arrived, nothing runs and no grant is left, the user has
\* the plan Paddle is paid for: handleSubscriptionEvent, resyncSubscription,
\* grantTemporaryEntitlement and revertExpiredEntitlements undo each other's
\* writes only when one of them was overtaken or killed.
THEOREM PlanSettlesHolds == Spec => []PlanSettles
<1>1. TypeOK /\ PlanInv => PlanSettles
  <2> SUFFICES ASSUME TypeOK, PlanInv, Quiet, "plan" \notin excused,
                      \A g \in Grants : grant[g] \in {"none", "revoked"}
               PROVE  CASE paddle.status = "active" -> planId = paddle.price.planId
                        [] paddle.status = "cancelled" -> planId = "free"
                        [] OTHER -> planId # "free"
    BY DEF PlanSettles
  <2>1. UpToDate
    BY DEF PlanInv, Versions, UpToDate, Quiet
  <2>2. ~Granted
    BY DEF Granted
  <2>3. PlanFits(planId)
    BY <2>1, <2>2 DEF PlanInv, PlanFollows, Quiet, At
  <2>4. paddle.status = "past_due" => planId # "free"
    BY DEF PlanInv, Paying
  <2>5. QED
    BY <2>3, <2>4, RowFacts DEF PlanFits, Statuses
<1>2. QED
  BY <1>1, TypeCorrectness, PlanInvariant, PTL

LEMMA WishInit == Init => WishInv /\ PeriodInv
<1> SUFFICES ASSUME Init PROVE WishInv /\ PeriodInv
  OBVIOUS
<1>1. WishFits
  BY InitFacts DEF WishFits
<1>2. QED
  BY <1>1, InitFacts DEF WishInv, PeriodInv, At

\* The markers of the row and the requests that go by them: a request that is not
\* overtaken acts on the last wish, a scheduled change waits for the end of the
\* period it was asked for in, and a change made at once raises the price.
THEOREM WishInvariant == Spec => [](WishInv /\ PeriodInv)
<1>1. Init => WishInv /\ PeriodInv
  BY WishInit
<1>2. TypeOK /\ TypeOK' /\ WishInv /\ PeriodInv /\ [Next]_vars => WishInv' /\ PeriodInv'
  BY WishStep
<1>3. QED
  BY <1>1, <1>2, TypeCorrectness, PTL DEF Spec

\* What the customer last asked for is what Paddle has or what is scheduled,
\* unless confirmPlanChange and applyDueScheduledDowngrades overlapped or one of
\* them was killed before it cleared the markers.
THEOREM WishIsKeptHolds == Spec => []WishIsKept
<1>1. WishInv => WishIsKept
  BY DEF WishInv, WishIsKept, WishFits, Clearing, Quiet, At
<1>2. QED
  BY <1>1, WishInvariant, PTL

LEMMA PriceKept ==
    ASSUME TypeOK, paddle'.price = paddle.price
    PROVE  ~(Rank(paddle'.price) < Rank(paddle.price))
<1>1. Rank(paddle.price) \in Nat
  BY RowFacts, PriceFacts
<1>2. QED
  BY <1>1

LEMMA PeriodStep ==
    ASSUME TypeOK, WishInv, PeriodInv, [Next]_vars,
           Rank(paddle'.price) < Rank(paddle.price), "wish" \notin excused', wish'.informed
    PROVE  paddle.period > wish'.asked
<1>a. excused \subseteq excused'
  BY ExcusedGrows
<1>b. Rank(paddle'.price) # Rank(paddle.price) /\ Rank(paddle.price) \in Nat
  BY PriceKept, RowFacts, PriceFacts

<1>1. ASSUME NEW r \in Requests, NEW target \in Prices, ConfirmPlanChange(r, target)
      PROVE  paddle.period > wish'.asked
  BY <1>1, PriceKept DEF ConfirmPlanChange
<1>2. ASSUME NEW r \in Requests, ScheduleChange(r)
      PROVE  paddle.period > wish'.asked
  BY <1>2, PriceKept DEF ScheduleChange
<1>3. ASSUME NEW r \in Requests, SubmitUpgrade(r)
      PROVE  paddle.period > wish'.asked
  <2>1. CASE UNCHANGED <<paddle, mail, wish, excused>>
    BY <2>1, PriceKept
  <2>2. CASE /\ TakesPrice(request[r].price) /\ excused' = Excusing(r, "wish")
             /\ wish' = [price |-> request[r].price, asked |-> request[r].asked,
                         informed |-> request[r].informed]
    <3>0. wish'.informed = request[r].informed
      BY <2>2
    <3>1. ~request[r].overtaken /\ request[r].informed /\ At(r, "upgrading")
      BY <1>3, <2>2, <3>0, ExcusingFacts DEF SubmitUpgrade
    <3>2. Rank(paddle.price) < Rank(request[r].price)
      BY <3>1 DEF PeriodInv
    <3>3. paddle'.price = request[r].price /\ Rank(request[r].price) \in Nat
      BY <2>2, RequestFields, TakesFacts, PriceFacts
    <3>4. QED
      BY <1>b, <3>2, <3>3
  <2>3. QED
    BY <1>3, <2>1, <2>2, UpgradeFacts
<1>4. ASSUME NEW r \in Requests, ClearMarkers(r)
      PROVE  paddle.period > wish'.asked
  BY <1>4, PriceKept DEF ClearMarkers
<1>5. ASSUME NEW r \in Requests, SelectDue(r)
      PROVE  paddle.period > wish'.asked
  BY <1>5, PriceKept DEF SelectDue
<1>6. ASSUME NEW r \in Requests, SubmitDue(r)
      PROVE  paddle.period > wish'.asked
  <2>1. ~request[r].overtaken /\ "wish" \notin excused /\ wish' = wish /\ At(r, "submitting")
    BY <1>6, <1>a, ExcusingFacts DEF SubmitDue
  <2>2. wish.asked < paddle.period /\ wish.asked \in Nat /\ paddle.period \in Nat
    BY <2>1 DEF PeriodInv, TypeOK, Wish, Snapshot
  <2>3. QED
    BY <2>1, <2>2
<1>7. ASSUME NEW r \in Requests, SubmitDueFails(r)
      PROVE  paddle.period > wish'.asked
  BY <1>7, PriceKept DEF SubmitDueFails
<1>8. ASSUME NEW r \in Requests, NEW e \in mail, ApplyEvent(r, e)
      PROVE  paddle.period > wish'.asked
  BY <1>8, PriceKept DEF ApplyEvent
<1>9. ASSUME NEW r \in Requests, GrantPlan(r)
      PROVE  paddle.period > wish'.asked
  BY <1>9, PriceKept DEF GrantPlan
<1>10. ASSUME NEW r \in Requests, FetchSubscription(r)
      PROVE  paddle.period > wish'.asked
  BY <1>10, PriceKept DEF FetchSubscription
<1>11. ASSUME NEW r \in Requests, ResyncSubscription(r)
      PROVE  paddle.period > wish'.asked
  BY <1>11, PriceKept DEF ResyncSubscription
<1>12. ASSUME NEW r \in Requests, NEW g \in Grants, InsertEntitlement(r, g)
      PROVE  paddle.period > wish'.asked
  BY <1>12, PriceKept DEF InsertEntitlement
<1>13. ASSUME NEW r \in Requests, NEW g \in Grants, RevokesGrant(r, g)
      PROVE  paddle.period > wish'.asked
  BY <1>13, PriceKept DEF RevokesGrant
<1>14. ASSUME NEW r \in Requests, OverridePlan(r)
      PROVE  paddle.period > wish'.asked
  BY <1>14, PriceKept DEF OverridePlan
<1>15. ASSUME NEW r \in Requests, ResolvePlan(r)
      PROVE  paddle.period > wish'.asked
  BY <1>15, PriceKept DEF ResolvePlan
<1>16. ASSUME NEW r \in Requests, RevertPlan(r)
      PROVE  paddle.period > wish'.asked
  BY <1>16, PriceKept DEF RevertPlan
<1>17. ASSUME NEW r \in Requests, RequestDies(r)
      PROVE  paddle.period > wish'.asked
  BY <1>17, PriceKept DEF RequestDies
<1>18. ASSUME NEW g \in Grants, EntitlementExpires(g)
      PROVE  paddle.period > wish'.asked
  BY <1>18, PriceKept DEF EntitlementExpires
<1>19. CASE CancelScheduledPlanChange
  BY <1>19, PriceKept DEF CancelScheduledPlanChange
<1>20. CASE PaddleChanges
  BY <1>20, RenewsFacts, PriceKept
<1>21. CASE UNCHANGED vars
  BY <1>21, PriceKept DEF vars
<1>22. QED
  BY <1>1, <1>2, <1>3, <1>4, <1>5, <1>6, <1>7, <1>8, <1>9, <1>10,
     <1>11, <1>12, <1>13, <1>14, <1>15, <1>16, <1>17, <1>18, <1>19, <1>20, <1>21
  DEF Next, ChangeStep, Sweep, PlanStep, EntitlementStep, RevokeTemporaryEntitlement,
      RevertExpiredEntitlement

\* A paid period is not cut short: confirmPlanChange never asks Paddle for a lower
\* price, and applyDueScheduledDowngrades only after the end of the period, unless
\* the row they read was behind Paddle or they overlapped.
THEOREM PaidPeriodIsKeptHolds == Spec => PaidPeriodIsKept
<1>1. /\ TypeOK /\ WishInv /\ PeriodInv /\ [Next]_vars
      => [/\ Rank(paddle'.price) < Rank(paddle.price)
          /\ "wish" \notin excused' /\ wish'.informed
          => paddle.period > wish'.asked]_vars
  BY PeriodStep
<1>2. QED
  BY <1>1, TypeCorrectness, WishInvariant, PTL DEF Spec, PaidPeriodIsKept

=============================================================================
