-------------------------- MODULE DomainMonitoring --------------------------
(***************************************************************************)
(* Scheduled monitoring, manual rescans and admin scans of saved domains.  *)
(*                                                                         *)
(* Everything these actors share is one row of the D1 table "domains" per  *)
(* domain.  Each SQL statement is atomic; between two statements of one    *)
(* actor any other actor may run, which is what the actions below are cut  *)
(* along.  A sweep keeps the rows it read when it selected them, and uses  *)
(* those snapshots long after the rows have changed.                       *)
(*                                                                         *)
(* Timestamps are kept relative to the clock: 0 is now, a positive number  *)
(* lies that many ticks ahead, a negative one is overdue, and Tick ages    *)
(* them.  The code only compares timestamps with a clock reading and sets  *)
(* them to a reading plus a duration, so nothing is lost, and the model    *)
(* needs no unbounded clock.                                               *)
(***************************************************************************)
EXTENDS Integers, Sequences, FiniteSets

CONSTANTS
    Domains,                \* saved domains
    Sweeps,                 \* sweep invocations that may overlap
    Rescans,                \* manual-rescan requests that may overlap
    AdminScans,             \* the admin scans that happen, each of them once
    ReEvaluated,            \* domains a registry publication may reschedule
    Null                    \* SQL NULL for a timestamp

CONSTANTS
    Frequency,              \* monitoring_frequency of each domain
    BatchSize,              \* MAX_DOMAINS_PER_SWEEP
    FailurePauseThreshold,
    ManualQuota,            \* manualRescansPerDomainPerMonth
    Day, Weekly, Monthly,   \* durations, in ticks
    ClaimLock, ScanLock,    \* CLAIM_LOCK_MINUTES, SCAN_LOCK_MINUTES, in ticks
    MaxSweepAge,            \* a sweep is over within this many ticks
    MaxRescanAge            \* a rescan is over within this many ticks of its lock

CONSTANTS                   \* bounds of the model, not of the code
    MaxLate,                \* dates further in the past are not told apart
    MaxDeliveries,          \* deliveries of one cron tick (at least once)
    MaxCrashes,             \* invocations killed half-way
    MaxEpisodes,            \* failure streaks after which targets stay up
    MaxFailures             \* failures after which nobody resumes a domain

ASSUME NullAssumption == Null \notin Int

ASSUME DomainsAssumption ==
    /\ IsFiniteSet(Domains)
    /\ Frequency \in [Domains -> {"none", "weekly", "monthly"}]

\* The requests a Worker serves at one time are finitely many.
ASSUME RescansAssumption == IsFiniteSet(Rescans)

ASSUME CountAssumption ==
    /\ BatchSize \in Nat \ {0} /\ FailurePauseThreshold \in Nat \ {0}
    /\ ManualQuota \in Nat /\ MaxDeliveries \in Nat \ {0}
    /\ MaxLate \in Nat /\ MaxCrashes \in Nat
    /\ MaxEpisodes \in Nat /\ MaxFailures \in Nat

\* What the code counts on: a rescan is one audit of 30 s under a lock of five
\* minutes, and a sweep at most 20 of them under a claim of 15 minutes.  A site
\* can stretch an audit to (5 + 1) * (5 + 30) s and a body (ScanTimeBounded of
\* AuditFetch), still under the lock; not so at the largest time-out, 120 s, nor
\* for a sweep of nothing but such sites.  The assumption leaves these out.
ASSUME DurationAssumption ==
    /\ {Day, Weekly, Monthly, ClaimLock, ScanLock} \subseteq Nat \ {0}
    /\ Day <= Weekly /\ Day <= Monthly
    /\ MaxSweepAge \in Nat /\ MaxSweepAge < ClaimLock /\ MaxSweepAge < Day
    /\ MaxRescanAge \in Nat /\ MaxRescanAge < ScanLock

VARIABLES
    domain,         \* domain[d]: the row of d
    sweep,          \* sweep[s]: a sweep invocation
    rescan,         \* rescan[r]: a manual-rescan request
    adminScan,      \* adminScan[a]: an admin scan
    manualScans,    \* manualScans[d]: rows of "scans" this month, by hand
    occurrences,    \* occurrences[e]: count of e's resource_failure notice, 0 if none
    pausedNotices,  \* the episodes with a monitoring_paused notice
    nextEpisode,    \* the next fresh failure episode id
    cron,           \* [until |-> ticks to the daily cron, deliveries |-> of this tick]
    crashes         \* invocations killed so far

vars == <<domain, sweep, rescan, adminScan, manualScans, occurrences,
          pausedNotices, nextEpisode, cron, crashes>>

notices == <<occurrences, pausedNotices>>

-----------------------------------------------------------------------------
(* Rows, snapshots and process records *)

\* failureEpisodeId is NULL as 0; scanLockUntil is 0 when NULL or in the past.
Row == [monitoringState: {"active", "paused"}, deleted: BOOLEAN,
        nextScanAt: Int \cup {Null}, scanLockUntil: Nat,
        consecutiveFailureCount: Nat, failureEpisodeId: 0..MaxEpisodes]

\* What a sweep keeps of a selected row.
Snapshot == [id: Domains, failures: Nat, episode: 0..MaxEpisodes, eligible: BOOLEAN]

\* What handleScanFailure computes from the snapshot of a failed domain.
NoFailure == [count |-> 0, pause |-> FALSE, episode |-> 0]
Failure == {NoFailure} \cup
           [count: Nat \ {0}, pause: BOOLEAN, episode: 1..MaxEpisodes]

SweepRecord ==
    [pc: {"idle", "claiming", "auditing", "succeeded", "failed", "threw", "recorded"},
     age: Nat, queue: Seq(Snapshot), claimed: Seq(Snapshot), failure: Failure]
IdleSweep == [pc |-> "idle", age |-> 0, queue |-> << >>, claimed |-> << >>,
              failure |-> NoFailure]

RescanRecord == [pc: {"idle", "admitted", "scanning", "persisted", "releasing"},
                 id: Domains, age: Nat]

AdminRecord == [pc: {"idle", "scanning", "done"}, id: Domains, nextScanAt: Int \cup {Null}]

TypeOK ==
    /\ domain \in [Domains -> Row]
    /\ sweep \in [Sweeps -> SweepRecord]
    /\ rescan \in [Rescans -> RescanRecord]
    /\ adminScan \in [AdminScans -> AdminRecord]
    /\ manualScans \in [Domains -> Nat]
    /\ occurrences \in [1..MaxEpisodes -> Nat]
    /\ pausedNotices \subseteq 1..MaxEpisodes
    /\ nextEpisode \in 1..(MaxEpisodes + 1)
    /\ cron \in [until: Nat, deliveries: Nat]
    /\ crashes \in Nat

-----------------------------------------------------------------------------
(* Dates *)

\* computeNextScanAt(frequency), from the present moment.
ComputeNextScanAt(d) ==
    [none |-> Null, weekly |-> Weekly, monthly |-> Monthly][Frequency[d]]

\* min(2 ^ max(n - 1, 0), 14) days, after n >= 1 failures.
BackoffDays(n) == <<1, 2, 4, 8, 14>>[IF n < 5 THEN n ELSE 5]

\* A failed domain backs off from the sweep's own clock reading, age ticks ago.
BackoffNextScanAt(n, age) == Day * BackoffDays(n) - age

\* next_scan_at IS NULL OR next_scan_at <= the clock read age ticks ago.
DueAt(d, age) ==
    \/ domain[d].nextScanAt = Null
    \/ domain[d].nextScanAt <= -age

Earlier(t) == IF t = Null \/ t <= -MaxLate THEN t ELSE t - 1

Remaining(t) == IF t > 0 THEN t - 1 ELSE 0

-----------------------------------------------------------------------------
(* The monitoring sweep: claimDueDomains and runMonitoringSweep *)

Candidates ==
    {d \in Domains : /\ domain[d].monitoringState = "active"
                     /\ ~domain[d].deleted
                     /\ DueAt(d, 0)}

\* A faulty variant: no ORDER BY.
Unordered(c, d) == FALSE

\* ORDER BY next_scan_at ASC: NULL sorts before every date.
SortsBefore(c, d) ==
    /\ domain[d].nextScanAt # Null
    /\ domain[c].nextScanAt = Null \/ domain[c].nextScanAt < domain[d].nextScanAt

\* The results the SELECT may return: the first BatchSize candidates in that
\* order, equal dates in any order.
Selections ==
    LET n == Cardinality(Candidates)
        size == IF n < BatchSize THEN n ELSE BatchSize
    IN  {q \in [1..size -> Candidates] :
            \A i \in 1..size :
                /\ \A j \in 1..(i - 1) : q[j] # q[i]
                /\ \A c \in Candidates :
                        SortsBefore(c, q[i]) => \E j \in 1..(i - 1) : q[j] = c}

\* The filter after the LIMIT: a candidate that is not monitored, or that a
\* manual rescan has locked, is passed over, and still took a place.
SnapshotOf(d) ==
    [id |-> d,
     failures |-> domain[d].consecutiveFailureCount,
     episode |-> domain[d].failureEpisodeId,
     eligible |-> Frequency[d] # "none" /\ domain[d].scanLockUntil = 0]

Current(s) == Head(sweep[s].claimed)

\* The sweep reads its clock and selects.
SelectDueDomains(s) ==
    /\ sweep[s].pc = "idle"
    /\ cron.until = 0
    /\ cron.deliveries < MaxDeliveries
    /\ cron' = [cron EXCEPT !.deliveries = @ + 1]
    /\ \E q \in Selections :
        sweep' = [sweep EXCEPT ![s] =
            [IdleSweep EXCEPT !.pc = IF q = << >> THEN "idle" ELSE "claiming",
                              !.queue = [i \in DOMAIN q |-> SnapshotOf(q[i])]]]
    /\ UNCHANGED <<domain, rescan, adminScan, manualScans, notices, nextEpisode, crashes>>

\* A faulty variant: the UPDATE's WHERE names the row alone.
ClaimWinsUnchecked(s, row) == row.eligible

\* The claim's UPDATE re-checks the date alone.
ClaimWins(s, row) == row.eligible /\ DueAt(row.id, sweep[s].age)

\* One turn of the claim loop; after the last, the audits start.
ClaimNext(s) ==
    LET row == Head(sweep[s].queue)
        rest == Tail(sweep[s].queue)
        wins == ClaimWins(s, row)
        claimed == IF wins THEN Append(sweep[s].claimed, row) ELSE sweep[s].claimed
        pc == IF rest # << >> THEN "claiming"
              ELSE IF claimed # << >> THEN "auditing" ELSE "idle"
    IN  /\ sweep[s].pc = "claiming"
        /\ sweep' = [sweep EXCEPT ![s].pc = pc, ![s].queue = rest, ![s].claimed = claimed]
        /\ domain' = IF wins
                     THEN [domain EXCEPT ![row.id].nextScanAt = ClaimLock - sweep[s].age]
                     ELSE domain
        /\ UNCHANGED <<rescan, adminScan, manualScans, notices, nextEpisode, cron, crashes>>

\* runAudit and persistScan: the audit succeeds, or throws.
AuditSucceeds(s) ==
    /\ sweep[s].pc = "auditing"
    /\ sweep' = [sweep EXCEPT ![s].pc = "succeeded"]
    /\ UNCHANGED <<domain, rescan, adminScan, manualScans, notices, nextEpisode, cron, crashes>>

\* Faulty variants: a threshold off by one, and no id for a first failure.
FailureOfLatePause(row, fresh) ==
    [count |-> row.failures + 1,
     pause |-> row.failures + 1 > FailurePauseThreshold,
     episode |-> IF row.episode = 0 THEN fresh ELSE row.episode]
FailureWithoutEpisode(row, fresh) ==
    [count |-> row.failures + 1,
     pause |-> row.failures + 1 >= FailurePauseThreshold,
     episode |-> row.episode]

\* The count, the pause and the episode all come from the snapshot; the id is
\* drawn afresh only when the snapshot has none.
FailureOf(row, fresh) ==
    [count |-> row.failures + 1,
     pause |-> row.failures + 1 >= FailurePauseThreshold,
     episode |-> IF row.episode = 0 THEN fresh ELSE row.episode]

\* The audit completes without reaching its target: a "target" failure.
AuditFails(s) ==
    /\ sweep[s].pc = "auditing"
    /\ Current(s).episode = 0 => nextEpisode <= MaxEpisodes
    /\ sweep' = [sweep EXCEPT ![s].pc = "failed",
                              ![s].failure = FailureOf(Current(s), nextEpisode)]
    /\ nextEpisode' = IF Current(s).episode = 0 THEN nextEpisode + 1 ELSE nextEpisode
    /\ UNCHANGED <<domain, rescan, adminScan, manualScans, notices, cron, crashes>>

\* Anything the try block awaits may throw, up to and including the write of
\* the outcome: the scan becomes a "platform" failure.
AuditThrows(s) ==
    /\ sweep[s].pc \in {"auditing", "succeeded", "failed"}
    /\ sweep' = [sweep EXCEPT ![s].pc = "threw"]
    /\ UNCHANGED <<domain, rescan, adminScan, manualScans, notices, nextEpisode, cron, crashes>>

\* A faulty variant: the episode outlives the streak.
RecoveredInEpisode(row, next) ==
    [row EXCEPT !.nextScanAt = next, !.consecutiveFailureCount = 0]

\* The row after a success.
Recovered(row, next) ==
    [row EXCEPT !.nextScanAt = next, !.consecutiveFailureCount = 0, !.failureEpisodeId = 0]

\* recordScheduledScanOutcome, success.
RecordSuccess(s) ==
    /\ sweep[s].pc = "succeeded"
    /\ domain' = [domain EXCEPT ![Current(s).id] =
                    Recovered(@, ComputeNextScanAt(Current(s).id))]
    /\ sweep' = [sweep EXCEPT ![s].pc = "recorded"]
    /\ UNCHANGED <<rescan, adminScan, manualScans, notices, nextEpisode, cron, crashes>>

\* recordScheduledScanOutcome, target failure: the count is incremented in
\* SQL, the rest is written from the snapshot.
RecordTargetFailure(s) ==
    LET d == Current(s).id
        f == sweep[s].failure
        next == IF f.pause THEN Null ELSE BackoffNextScanAt(f.count, sweep[s].age)
        count == domain[d].consecutiveFailureCount + 1
        state == IF f.pause THEN "paused" ELSE domain[d].monitoringState
    IN  /\ sweep[s].pc = "failed"
        /\ domain' = [domain EXCEPT ![d] =
                        [@ EXCEPT !.nextScanAt = next, !.consecutiveFailureCount = count,
                                  !.failureEpisodeId = f.episode, !.monitoringState = state]]
        /\ sweep' = [sweep EXCEPT ![s].pc = "recorded"]
        /\ UNCHANGED <<rescan, adminScan, manualScans, notices, nextEpisode, cron, crashes>>

\* recordScheduledScanOutcome, platform failure: only last_scan_id moves.
RecordPlatformFailure(s) ==
    /\ sweep[s].pc = "threw"
    /\ sweep' = [sweep EXCEPT ![s].pc = "recorded", ![s].failure = NoFailure]
    /\ UNCHANGED <<domain, rescan, adminScan, manualScans, notices, nextEpisode, cron, crashes>>

\* upsertGroupedNotification never lowers an occurrence count.
OccurrenceAfter(f) == IF f.count > occurrences[f.episode] THEN f.count ELSE occurrences[f.episode]

\* safeNotifyTargetFailure; the notice may also fail, which is swallowed.
NotifyTargetFailure(f) ==
    \/ /\ f.pause
       /\ pausedNotices' = pausedNotices \cup {f.episode}
       /\ UNCHANGED occurrences
    \/ /\ ~f.pause /\ f.count >= 2
       /\ occurrences' = [occurrences EXCEPT ![f.episode] = OccurrenceAfter(f)]
       /\ UNCHANGED pausedNotices
    \/ UNCHANGED notices

\* The notice of the domain just recorded, then the next domain of the loop.
FinishDomain(s) ==
    LET rest == Tail(sweep[s].claimed)
    IN  /\ sweep[s].pc = "recorded"
        /\ IF sweep[s].failure = NoFailure THEN UNCHANGED notices
                                           ELSE NotifyTargetFailure(sweep[s].failure)
        /\ sweep' = [sweep EXCEPT ![s] =
                        IF rest = << >> THEN IdleSweep
                        ELSE [@ EXCEPT !.pc = "auditing", !.claimed = rest,
                                       !.failure = NoFailure]]
        /\ UNCHANGED <<domain, rescan, adminScan, manualScans, nextEpisode, cron, crashes>>

SweepStep(s) ==
    \/ SelectDueDomains(s) \/ ClaimNext(s)
    \/ AuditSucceeds(s) \/ AuditFails(s) \/ AuditThrows(s)
    \/ RecordSuccess(s) \/ RecordTargetFailure(s) \/ RecordPlatformFailure(s)
    \/ FinishDomain(s)

\* The invocation is killed, or an error escapes the catch block: whatever it
\* had claimed stays claimed.
SweepDies(s) ==
    /\ sweep[s].pc # "idle"
    /\ crashes < MaxCrashes
    /\ crashes' = crashes + 1
    /\ sweep' = [sweep EXCEPT ![s] = IdleSweep]
    /\ UNCHANGED <<domain, rescan, adminScan, manualScans, notices, nextEpisode, cron>>

-----------------------------------------------------------------------------
(* Manual rescans: POST /api/domains/:id/scan *)

\* A faulty variant: one scan more than the quota passes.
QuotaLeftOffByOne(d) == manualScans[d] <= ManualQuota

QuotaLeft(d) == manualScans[d] < ManualQuota

\* The handler finds the domain and the plan's monthly quota not used up.
AdmitRescan(r) ==
    \E d \in Domains :
        /\ rescan[r].pc = "idle"
        /\ ~domain[d].deleted
        /\ QuotaLeft(d)
        /\ rescan' = [rescan EXCEPT ![r] = [pc |-> "admitted", id |-> d, age |-> 0]]
        /\ UNCHANGED <<domain, sweep, adminScan, manualScans, notices, nextEpisode, cron, crashes>>

\* A faulty variant: the UPDATE's WHERE names the row alone.
LockAlwaysFree(d) == TRUE

LockFree(d) == domain[d].scanLockUntil = 0

\* tryClaimScanLock; a request that finds the lock taken is answered
\* SCAN_ALREADY_RUNNING.
TryClaimScanLock(r) ==
    LET d == rescan[r].id
    IN  /\ rescan[r].pc = "admitted"
        /\ IF LockFree(d)
           THEN /\ domain' = [domain EXCEPT ![d].scanLockUntil = ScanLock]
                /\ rescan' = [rescan EXCEPT ![r].pc = "scanning"]
           ELSE /\ UNCHANGED domain
                /\ rescan' = [rescan EXCEPT ![r].pc = "idle"]
        /\ UNCHANGED <<sweep, adminScan, manualScans, notices, nextEpisode, cron, crashes>>

\* runAudit and persistScan.
PersistRescan(r) ==
    /\ rescan[r].pc = "scanning"
    /\ manualScans' = [manualScans EXCEPT ![rescan[r].id] = @ + 1]
    /\ rescan' = [rescan EXCEPT ![r].pc = "persisted"]
    /\ UNCHANGED <<domain, sweep, adminScan, notices, nextEpisode, cron, crashes>>

\* recordScanOnDomain: the failure streak is left alone.
RecordRescan(r) ==
    LET d == rescan[r].id
    IN  /\ rescan[r].pc = "persisted"
        /\ domain' = [domain EXCEPT ![d].nextScanAt = ComputeNextScanAt(d)]
        /\ rescan' = [rescan EXCEPT ![r].pc = "releasing"]
        /\ UNCHANGED <<sweep, adminScan, manualScans, notices, nextEpisode, cron, crashes>>

\* An error on the way leads to the finally block.
RescanThrows(r) ==
    /\ rescan[r].pc \in {"scanning", "persisted"}
    /\ rescan' = [rescan EXCEPT ![r].pc = "releasing"]
    /\ UNCHANGED <<domain, sweep, adminScan, manualScans, notices, nextEpisode, cron, crashes>>

\* releaseScanLock clears the lock whoever set it.
ReleaseScanLock(r) ==
    /\ rescan[r].pc = "releasing"
    /\ domain' = [domain EXCEPT ![rescan[r].id].scanLockUntil = 0]
    /\ rescan' = [rescan EXCEPT ![r].pc = "idle", ![r].age = 0]
    /\ UNCHANGED <<sweep, adminScan, manualScans, notices, nextEpisode, cron, crashes>>

RescanStep(r) ==
    \/ AdmitRescan(r) \/ TryClaimScanLock(r) \/ PersistRescan(r)
    \/ RecordRescan(r) \/ RescanThrows(r) \/ ReleaseScanLock(r)

\* The request is killed and its finally block never runs.
RescanDies(r) ==
    /\ rescan[r].pc # "idle"
    /\ crashes < MaxCrashes
    /\ crashes' = crashes + 1
    /\ rescan' = [rescan EXCEPT ![r].pc = "idle", ![r].age = 0]
    /\ UNCHANGED <<domain, sweep, adminScan, manualScans, notices, nextEpisode, cron>>

-----------------------------------------------------------------------------
(* Admin scans, registry publications and what users do to a row *)

\* triggerAdminScan reads the row ...
ReadForAdminScan(a) ==
    \E d \in Domains :
        /\ adminScan[a].pc = "idle"
        /\ adminScan' = [adminScan EXCEPT ![a] =
                [pc |-> "scanning", id |-> d, nextScanAt |-> domain[d].nextScanAt]]
        /\ UNCHANGED <<domain, sweep, rescan, manualScans, notices, nextEpisode, cron, crashes>>

\* ... and after the audit writes the date it read back.
RecordAdminScan(a) ==
    /\ adminScan[a].pc = "scanning"
    /\ domain' = [domain EXCEPT ![adminScan[a].id].nextScanAt = adminScan[a].nextScanAt]
    /\ adminScan' = [adminScan EXCEPT ![a].pc = "done", ![a].nextScanAt = Null]
    /\ UNCHANGED <<sweep, rescan, manualScans, notices, nextEpisode, cron, crashes>>

\* scheduleReEvaluation after a registry publication.
ScheduleReEvaluation(d) ==
    /\ d \in ReEvaluated
    /\ domain' = [domain EXCEPT ![d].nextScanAt = 0]
    /\ UNCHANGED <<sweep, rescan, adminScan, manualScans, notices, nextEpisode, cron, crashes>>

\* updateDomain and setDomainMonitoringState: only the state changes, so a
\* resumed domain keeps its count and its episode.  (The latter may change the
\* row of a deleted domain too, whose state nobody reads again.)
SetMonitoringState(d, state) ==
    /\ ~domain[d].deleted
    /\ state = "active" => domain[d].consecutiveFailureCount < MaxFailures
    /\ domain' = [domain EXCEPT ![d].monitoringState = state]
    /\ UNCHANGED <<sweep, rescan, adminScan, manualScans, notices, nextEpisode, cron, crashes>>

SoftDeleteDomain(d) ==
    /\ ~domain[d].deleted
    /\ domain' = [domain EXCEPT ![d].deleted = TRUE]
    /\ UNCHANGED <<sweep, rescan, adminScan, manualScans, notices, nextEpisode, cron, crashes>>

\* The quota counts the scans started since the first of the month.
NewMonth ==
    /\ manualScans' = [d \in Domains |-> 0]
    /\ UNCHANGED <<domain, sweep, rescan, adminScan, notices, nextEpisode, cron, crashes>>

OwnerStep(d) ==
    \/ \E state \in {"active", "paused"} : SetMonitoringState(d, state)
    \/ SoftDeleteDomain(d)
    \/ ScheduleReEvaluation(d)

-----------------------------------------------------------------------------
(* Time *)

InLock(r) == rescan[r].pc \in {"scanning", "persisted", "releasing"}

\* One tick passes.  Invocations do not outlive their budgets, and the daily
\* cron is delivered at least once in its tick.
Tick ==
    /\ \A s \in Sweeps : sweep[s].pc # "idle" => sweep[s].age < MaxSweepAge
    /\ \A r \in Rescans : InLock(r) => rescan[r].age < MaxRescanAge
    /\ cron.until = 0 => cron.deliveries > 0
    /\ domain' = [d \in Domains |->
                    [domain[d] EXCEPT !.nextScanAt = Earlier(@), !.scanLockUntil = Remaining(@)]]
    /\ sweep' = [s \in Sweeps |->
                    [sweep[s] EXCEPT !.age = IF sweep[s].pc = "idle" THEN 0 ELSE @ + 1]]
    /\ rescan' = [r \in Rescans |->
                    [rescan[r] EXCEPT !.age = IF InLock(r) THEN @ + 1 ELSE 0]]
    /\ adminScan' = [a \in AdminScans |-> [adminScan[a] EXCEPT !.nextScanAt = Earlier(@)]]
    /\ cron' = [until |-> IF cron.until = 0 THEN Day - 1 ELSE cron.until - 1,
                deliveries |-> 0]
    /\ UNCHANGED <<manualScans, notices, nextEpisode, crashes>>

-----------------------------------------------------------------------------
(* Specification *)

\* createDomain: active, never scanned, no failures.
NewRow == [monitoringState |-> "active", deleted |-> FALSE, nextScanAt |-> Null,
           scanLockUntil |-> 0, consecutiveFailureCount |-> 0, failureEpisodeId |-> 0]

Init ==
    /\ domain = [d \in Domains |-> NewRow]
    /\ sweep = [s \in Sweeps |-> IdleSweep]
    /\ rescan \in [Rescans -> {[pc |-> "idle", id |-> d, age |-> 0] : d \in Domains}]
    /\ adminScan \in [AdminScans ->
                        {[pc |-> "idle", id |-> d, nextScanAt |-> Null] : d \in Domains}]
    /\ manualScans = [d \in Domains |-> 0]
    /\ occurrences = [e \in 1..MaxEpisodes |-> 0]
    /\ pausedNotices = {}
    /\ nextEpisode = 1
    /\ cron = [until |-> 0, deliveries |-> 0]
    /\ crashes = 0

Next ==
    \/ \E s \in Sweeps : SweepStep(s) \/ SweepDies(s)
    \/ \E r \in Rescans : RescanStep(r) \/ RescanDies(r)
    \/ \E a \in AdminScans : ReadForAdminScan(a) \/ RecordAdminScan(a)
    \/ \E d \in Domains : OwnerStep(d)
    \/ NewMonth
    \/ Tick

Spec == Init /\ [][Next]_vars

\* Time passes, and a running sweep goes on to its end unless it is killed.
\* Nothing is assumed of users, admins, audits' outcomes or crashes.
Fairness == WF_vars(Tick) /\ \A s \in Sweeps : WF_vars(SweepStep(s))

FairSpec == Spec /\ Fairness

-----------------------------------------------------------------------------
(* Properties *)

\* No two manual rescans of one domain run at once: the scan lock of
\* scan-lock.ts excludes them, although releasing it does not check who holds
\* it and a killed request never releases it.
ManualRescansExclusive ==
    \A r1, r2 \in Rescans :
        InLock(r1) /\ InLock(r2) /\ rescan[r1].id = rescan[r2].id => r1 = r2

\* Two requests may both pass the quota check before either scan is written,
\* so the monthly quota of scan.ts can be overrun, but never by more than the
\* requests that were past the check at the time.
QuotaOverrunBounded ==
    \A d \in Domains :
        manualScans[d] > 0 => manualScans[d] < ManualQuota + Cardinality(Rescans)

\* The domains a sweep has claimed and not yet recorded.
Holds(s) == {sweep[s].claimed[i].id :
                i \in {k \in DOMAIN sweep[s].claimed : k > 1 \/ sweep[s].pc # "recorded"}}

\* Overlapping sweeps never hold the same domain: moving next_scan_at ahead is
\* the whole claim (claimDueDomains), and it survives pauses, deletions, manual
\* rescans, and the claimant's death.
ScheduledScansExclusive ==
    \A s1, s2 \in Sweeps : s1 # s2 => Holds(s1) \cap Holds(s2) = {}

\* Each recorded failure pauses the domain exactly when it brings the count in
\* the row to the threshold, although the pause is decided on a snapshot and
\* the count is incremented in SQL (handleScanFailure).
PausesExactlyAtThreshold ==
    [][\A d \in Domains :
        domain'[d].consecutiveFailureCount > domain[d].consecutiveFailureCount =>
            ( domain'[d].consecutiveFailureCount >= FailurePauseThreshold
              <=> domain'[d].nextScanAt = Null /\ domain'[d].monitoringState = "paused" )]_vars

\* A streak of failures keeps one episode id from its first failure to the
\* success that ends it: that id is what the failure notices are grouped by.
EpisodeIdentifiesStreak ==
    [][\A d \in Domains :
        /\ (domain'[d].failureEpisodeId = 0) = (domain'[d].consecutiveFailureCount = 0)
        /\ domain[d].failureEpisodeId # 0 =>
                domain'[d].failureEpisodeId \in {0, domain[d].failureEpisodeId}]_vars

\* The grouped resource_failure notice never claims more failures than the
\* domain's row counts in that episode.
NoticeWithinEpisode ==
    \A d \in Domains :
        domain[d].failureEpisodeId # 0 =>
            occurrences[domain[d].failureEpisodeId] <= domain[d].consecutiveFailureCount

Monitored(d) ==
    /\ Frequency[d] # "none"
    /\ domain[d].monitoringState = "active"
    /\ ~domain[d].deleted

Scanned(d) ==
    \E s \in Sweeps : sweep[s].pc = "recorded" /\ Current(s).id = d

\* Every monitored domain is scanned again and again, whatever the backlog and
\* whichever sweeps die holding it: the batch takes the most overdue first, and
\* a dead sweep's claim runs out.  The exception is a domain that publications
\* never stop rescheduling: each one makes an overdue domain due only now.
MonitoredDomainsKeepBeingScanned ==
    \A d \in Domains :
        <>[][~ScheduleReEvaluation(d)]_vars => []<>(Scanned(d) \/ ~Monitored(d))

\* A domain is never being scanned by the sweep and by a manual rescan at once,
\* which is what the comment on the rescan's claim says of scan_lock_until.
NeverScannedTwiceAtOnce ==
    \A s \in Sweeps, r \in Rescans :
        sweep[s].pc = "auditing" /\ InLock(r) => Current(s).id # rescan[r].id
=============================================================================
