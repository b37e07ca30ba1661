------------------------- MODULE PolicyChangeNotice -------------------------
(***************************************************************************)
(* From a changed crawler policy to the notice of it, for one domain: the  *)
(* scans that observe the site, the timeline event a scan leaves, the      *)
(* sweep's notice, the daily reconciliation of missing notices, and the    *)
(* retention job that purges the read ones.                                *)
(*                                                                         *)
(* One sweep and one manual rescan may scan the domain at a time (module   *)
(* DomainMonitoring), an admin scan at any time.  Each of them compares    *)
(* its scan with the last_scan_id of the row it read before the audit.     *)
(* Ages are in ticks and stop at MaxAge, past every limit of the code.     *)
(***************************************************************************)
EXTENDS Naturals, FiniteSets

CONSTANTS
    Contents,           \* what a complete scan can find: resources and registry release
    HighAttention,      \* the pairs of contents whose change scores high_attention
    Reconciliations,    \* reconciliation jobs that may overlap
    Day, Lookback,      \* the cron's period and lookbackMinutes, in ticks
    Retention           \* NOTIFICATION_READ_RETENTION_DAYS, in ticks

CONSTANTS               \* bounds of the model, not of the code
    MaxScans,           \* scans of the domain
    MaxFaults,          \* failed statements and killed invocations
    MaxAge              \* older scans are not told apart

ASSUME DurationsAssumption ==
    /\ Day \in Nat \ {0} /\ Lookback \in Nat /\ Retention \in Nat /\ MaxAge \in Nat
    /\ Lookback < Retention /\ Retention <= MaxAge /\ Day <= MaxAge

ASSUME ContentsAssumption == Contents # {} /\ HighAttention \subseteq Contents \X Contents

ASSUME BoundsAssumption == MaxScans \in Nat /\ MaxFaults \in Nat

VARIABLES
    scans,          \* scans[i]: the row of scan i, once it is written
    lastScan,       \* last_scan_id, 0 when NULL
    deleted,        \* deleted_at is set
    timeline,       \* the rows of domain_change_events
    notices,        \* the events that have a policy-change notice
    sent,           \* history: the events that ever had one
    resent,         \* history: the events that were given one anew
    sweep, rescan, adminScan,   \* the scan each has under way
    reconciliation, \* reconciliation[j]: the candidates job j has left
    cron,           \* ticks to the next daily cron
    cronJobs,       \* jobs of the last cron that have not come to this domain yet
    faults

vars == <<scans, lastScan, deleted, timeline, notices, sent, resent,
          sweep, rescan, adminScan, reconciliation, cron, cronJobs, faults>>

noticeTables == <<notices, sent, resent>>
actors == <<sweep, rescan, adminScan>>

-----------------------------------------------------------------------------
(* Scans and events *)

ScanIds == 1..MaxScans

\* age counts from started_at.
ScanRow == [by: {"sweep", "rescan", "admin"}, ok: BOOLEAN, content: Contents, age: 0..MaxAge]
NoScan == [by |-> "nobody"]
Written(i) == scans[i] # NoScan

\* An event is its fingerprint: the domain, the type and the two scans.
Event == [type: {"baseline", "policy_change", "operational_change"},
          previous: {0} \cup ScanIds, current: ScanIds]
NoEvent == [type |-> "none"]

\* previous: the last_scan_id of the row read; scan: the id drawn, 0 before.
Scanning == [pc: {"idle", "auditing", "written", "compared", "recorded", "threw", "recompared"},
             previous: {0} \cup ScanIds, scan: {0} \cup ScanIds, event: Event \cup {NoEvent}]
Idle == [pc |-> "idle", previous |-> 0, scan |-> 0, event |-> NoEvent]

TypeOK ==
    /\ deleted \in BOOLEAN
    /\ scans \in [ScanIds -> ScanRow \cup {NoScan}]
    /\ (lastScan = 0 \/ (lastScan \in ScanIds /\ Written(lastScan)))
    /\ timeline \subseteq Event
    /\ notices \subseteq timeline /\ sent \subseteq timeline /\ resent \subseteq timeline
    /\ {sweep, rescan, adminScan} \subseteq Scanning
    /\ reconciliation \in [Reconciliations -> SUBSET timeline]
    /\ cron \in 0..(Day - 1) /\ cronJobs \subseteq {"sweep", "reconciliation"} /\ faults \in Nat

\* crypto.randomUUID: an id nobody has drawn yet; ids are interchangeable.
Undrawn == {i \in ScanIds : ~Written(i) /\ i \notin {sweep.scan, rescan.scan, adminScan.scan}}
Fresh == CHOOSE i \in Undrawn : TRUE

\* A faulty variant: the contents are compared whether or not the scans ended well.
ComparisonOfAll(previous, current) ==
    IF scans[previous].content # scans[current].content THEN "policy_change" ELSE "none"

\* computeChangeOrigin: website, registry and mixed changes are one here.
Comparison(previous, current) ==
    IF ~scans[previous].ok \/ ~scans[current].ok THEN "operational_change"
    ELSE IF scans[previous].content # scans[current].content THEN "policy_change"
    ELSE "none"

\* generateTimelineEvent, NoEvent when it writes none.
EventOf(previous, current) ==
    LET type == IF ~Written(current) THEN "none"
                ELSE IF previous # 0 THEN Comparison(previous, current)
                ELSE IF scans[current].ok THEN "baseline" ELSE "none"
    IN  IF type = "none" THEN NoEvent
        ELSE [type |-> type, previous |-> previous, current |-> current]

WithEvent(e) == IF e = NoEvent THEN timeline ELSE timeline \cup {e}

\* buildPolicyChangeNotificationIntent: the events that merit a notice.
MeritsNotice(e) ==
    /\ e # NoEvent
    /\ e.type = "policy_change"
    /\ <<scans[e.previous].content, scans[e.current].content>> \in HighAttention

\* createNotificationOnce: nothing happens when the event has its notice.
CreateNotificationOnce(e) ==
    /\ notices' = notices \cup {e}
    /\ sent' = sent \cup {e}
    /\ resent' = IF e \in sent \ notices THEN resent \cup {e} ELSE resent

-----------------------------------------------------------------------------
(* The scheduled scan: runMonitoringSweep for this domain *)

\* The cron fires and the sweep claims the domain, if it is due.
ClaimDomain ==
    /\ sweep.pc = "idle" /\ "sweep" \in cronJobs /\ ~deleted /\ Undrawn # {}
    /\ cronJobs' = cronJobs \ {"sweep"}
    /\ sweep' = [Idle EXCEPT !.pc = "auditing", !.previous = lastScan, !.scan = Fresh]
    /\ UNCHANGED <<scans, lastScan, deleted, timeline, noticeTables, rescan, adminScan,
                   reconciliation, cron, faults>>

\* runAudit and persistScan.  The site may have changed in any way since the
\* last scan, and the audit may not reach its target.
WriteScan(who, by) ==
    \E ok \in BOOLEAN, found \in Contents :
        scans' = [scans EXCEPT ![who.scan] =
                    [by |-> by, ok |-> ok, content |-> found, age |-> 0]]

SweepWritesScan ==
    /\ sweep.pc = "auditing"
    /\ WriteScan(sweep, "sweep")
    /\ sweep' = [sweep EXCEPT !.pc = "written"]
    /\ UNCHANGED <<lastScan, deleted, timeline, noticeTables, rescan, adminScan,
                   reconciliation, cron, cronJobs, faults>>

\* safeGenerateTimelineEvent; a failure is swallowed and leaves no event.
SweepCompares ==
    /\ sweep.pc = "written"
    /\ \/ LET e == EventOf(sweep.previous, sweep.scan)
          IN  /\ timeline' = WithEvent(e)
              /\ sweep' = [sweep EXCEPT !.pc = "compared", !.event = e]
              /\ UNCHANGED faults
       \/ /\ faults < MaxFaults /\ faults' = faults + 1
          /\ sweep' = [sweep EXCEPT !.pc = "compared"]
          /\ UNCHANGED timeline
    /\ UNCHANGED <<scans, lastScan, deleted, noticeTables, rescan, adminScan,
                   reconciliation, cron, cronJobs>>

\* recordScheduledScanOutcome.
SweepRecords ==
    /\ sweep.pc = "compared"
    /\ lastScan' = sweep.scan
    /\ sweep' = [sweep EXCEPT !.pc = "recorded"]
    /\ UNCHANGED <<scans, deleted, timeline, noticeTables, rescan, adminScan,
                   reconciliation, cron, cronJobs, faults>>

\* A faulty variant: the change is looked up after the scan was recorded.
EventToNoticeLookedUp == EventOf(lastScan, sweep.scan)

EventToNotice == sweep.event

\* safeNotifyPolicyChange, after the outcome; a failure is swallowed.
SweepNotifies ==
    /\ sweep.pc = "recorded"
    /\ \/ /\ MeritsNotice(EventToNotice)
          /\ CreateNotificationOnce(EventToNotice)
          /\ UNCHANGED faults
       \/ ~MeritsNotice(EventToNotice) /\ UNCHANGED <<noticeTables, faults>>
       \/ faults < MaxFaults /\ faults' = faults + 1 /\ UNCHANGED noticeTables
    /\ sweep' = Idle
    /\ UNCHANGED <<scans, lastScan, deleted, timeline, rescan, adminScan,
                   reconciliation, cron, cronJobs>>

\* runAudit, persistScan or the write of the outcome throws.
SweepThrows ==
    /\ sweep.pc \in {"auditing", "written", "compared"}
    /\ faults < MaxFaults /\ faults' = faults + 1
    /\ sweep' = [sweep EXCEPT !.pc = "threw"]
    /\ UNCHANGED <<scans, lastScan, deleted, timeline, noticeTables, rescan, adminScan,
                   reconciliation, cron, cronJobs>>

\* persistFailedScanRecord: a scan that was written before the error stays, and
\* the row written otherwise has no resources to compare.
FailedRecord(i) ==
    IF Written(i) THEN scans
    ELSE [scans EXCEPT ![i] = [by |-> "sweep", ok |-> FALSE, age |-> 0,
                               content |-> CHOOSE c \in Contents : TRUE]]

WriteFailedRecord ==
    /\ sweep.pc = "threw" /\ scans # FailedRecord(sweep.scan)
    /\ scans' = FailedRecord(sweep.scan)
    /\ UNCHANGED <<lastScan, deleted, timeline, noticeTables, actors,
                   reconciliation, cron, cronJobs, faults>>

\* A faulty variant: the row is read again for the comparison.
PreviousRead == lastScan

PreviousOfFailure == sweep.previous

\* handleScanFailure, "platform": the scan is compared again, ...
SweepComparesAgain ==
    /\ sweep.pc = "threw" /\ scans = FailedRecord(sweep.scan)
    /\ \/ timeline' = WithEvent(EventOf(PreviousOfFailure, sweep.scan)) /\ UNCHANGED faults
       \/ faults < MaxFaults /\ faults' = faults + 1 /\ UNCHANGED timeline
    /\ sweep' = [sweep EXCEPT !.pc = "recompared"]
    /\ UNCHANGED <<scans, lastScan, deleted, noticeTables, rescan, adminScan,
                   reconciliation, cron, cronJobs>>

\* ... and recorded without a notice, whether or not there is an event.
RecordPlatformFailure ==
    /\ sweep.pc = "recompared"
    /\ lastScan' = sweep.scan
    /\ sweep' = Idle
    /\ UNCHANGED <<scans, deleted, timeline, noticeTables, rescan, adminScan,
                   reconciliation, cron, cronJobs, faults>>

SweepDies ==
    /\ sweep.pc # "idle"
    /\ faults < MaxFaults /\ faults' = faults + 1
    /\ sweep' = Idle
    /\ UNCHANGED <<scans, lastScan, deleted, timeline, noticeTables, rescan, adminScan,
                   reconciliation, cron, cronJobs>>

-----------------------------------------------------------------------------
(* Manual rescans and admin scans *)

StartRescan ==
    /\ rescan.pc = "idle" /\ ~deleted /\ Undrawn # {}
    /\ rescan' = [Idle EXCEPT !.pc = "auditing", !.previous = lastScan, !.scan = Fresh]
    /\ UNCHANGED <<scans, lastScan, deleted, timeline, noticeTables, sweep, adminScan,
                   reconciliation, cron, cronJobs, faults>>

RescanWritesScan ==
    /\ rescan.pc = "auditing"
    /\ WriteScan(rescan, "rescan")
    /\ rescan' = [rescan EXCEPT !.pc = "written"]
    /\ UNCHANGED <<lastScan, deleted, timeline, noticeTables, sweep, adminScan,
                   reconciliation, cron, cronJobs, faults>>

\* The event is generated, or its failure swallowed; a rescan sends no notice.
RescanCompares ==
    /\ rescan.pc = "written"
    /\ \/ /\ timeline' = WithEvent(EventOf(rescan.previous, rescan.scan))
          /\ UNCHANGED faults
       \/ faults < MaxFaults /\ faults' = faults + 1 /\ UNCHANGED timeline
    /\ rescan' = [rescan EXCEPT !.pc = "compared"]
    /\ UNCHANGED <<scans, lastScan, deleted, noticeTables, sweep, adminScan,
                   reconciliation, cron, cronJobs>>

\* recordScanOnDomain.
RescanRecords ==
    /\ rescan.pc = "compared"
    /\ lastScan' = rescan.scan
    /\ rescan' = Idle
    /\ UNCHANGED <<scans, deleted, timeline, noticeTables, sweep, adminScan,
                   reconciliation, cron, cronJobs, faults>>

\* triggerAdminScan generates no event.
StartAdminScan ==
    /\ adminScan.pc = "idle" /\ Undrawn # {}
    /\ adminScan' = [Idle EXCEPT !.pc = "auditing", !.scan = Fresh]
    /\ UNCHANGED <<scans, lastScan, deleted, timeline, noticeTables, sweep, rescan,
                   reconciliation, cron, cronJobs, faults>>

AdminWritesScan ==
    /\ adminScan.pc = "auditing"
    /\ WriteScan(adminScan, "admin")
    /\ adminScan' = [adminScan EXCEPT !.pc = "compared"]
    /\ UNCHANGED <<lastScan, deleted, timeline, noticeTables, sweep, rescan,
                   reconciliation, cron, cronJobs, faults>>

AdminRecords ==
    /\ adminScan.pc = "compared"
    /\ lastScan' = adminScan.scan
    /\ adminScan' = Idle
    /\ UNCHANGED <<scans, deleted, timeline, noticeTables, sweep, rescan,
                   reconciliation, cron, cronJobs, faults>>

-----------------------------------------------------------------------------
(* Reconciliation, retention, and the world *)

\* A faulty variant: every event is a candidate.
CandidatesOfAllTime == {e \in timeline : MeritsNotice(e)}

\* The SELECT: observed_at >= now - lookbackMinutes.
Candidates == {e \in timeline : MeritsNotice(e) /\ scans[e.current].age <= Lookback}

\* reconcileMissingPolicyChangeNotifications: the cron starts it beside the sweep,
\* and an administrator at any time.
StartReconciliation(j) ==
    /\ reconciliation[j] = {}
    /\ \/ "reconciliation" \in cronJobs /\ cronJobs' = cronJobs \ {"reconciliation"}
       \/ Candidates # {} /\ UNCHANGED cronJobs
    /\ reconciliation' = [reconciliation EXCEPT ![j] = Candidates]
    /\ UNCHANGED <<scans, lastScan, deleted, timeline, noticeTables, actors, cron, faults>>

\* One turn of its loop: a deleted domain is passed over.
ReconcileNext(j) ==
    \E e \in reconciliation[j] :
        /\ reconciliation' = [reconciliation EXCEPT ![j] = @ \ {e}]
        /\ IF deleted THEN UNCHANGED noticeTables ELSE CreateNotificationOnce(e)
        /\ UNCHANGED <<scans, lastScan, deleted, timeline, actors, cron, cronJobs, faults>>

\* An error or a kill ends the job with what it had left.
ReconciliationDies(j) ==
    /\ reconciliation[j] # {}
    /\ faults < MaxFaults /\ faults' = faults + 1
    /\ reconciliation' = [reconciliation EXCEPT ![j] = {}]
    /\ UNCHANGED <<scans, lastScan, deleted, timeline, noticeTables, actors, cron, cronJobs>>

\* purgeExpiredReadNotifications: the notice was read, at the earliest when its
\* event was observed, and the reading is older than Retention.
PurgeReadNotice(e) ==
    /\ e \in notices
    /\ scans[e.current].age >= Retention
    /\ notices' = notices \ {e}
    /\ UNCHANGED <<scans, lastScan, deleted, timeline, sent, resent, actors,
                   reconciliation, cron, cronJobs, faults>>

SoftDeleteDomain ==
    /\ ~deleted /\ deleted' = TRUE
    /\ UNCHANGED <<scans, lastScan, timeline, noticeTables, actors,
                   reconciliation, cron, cronJobs, faults>>

\* One tick passes; what the cron started is over within a tick, and so are the
\* requests.  A paused scheduler skips the sweep, never the reconciliation.
Tick ==
    /\ {sweep, rescan, adminScan} = {Idle}
    /\ "reconciliation" \notin cronJobs
    /\ \A j \in Reconciliations : reconciliation[j] = {}
    /\ scans' = [i \in ScanIds |->
                    IF Written(i) /\ scans[i].age < MaxAge THEN [scans[i] EXCEPT !.age = @ + 1]
                                                           ELSE scans[i]]
    /\ cron' = IF cron = 0 THEN Day - 1 ELSE cron - 1
    /\ cronJobs' = IF cron' = 0 THEN {"sweep", "reconciliation"} ELSE {}
    /\ UNCHANGED <<lastScan, deleted, timeline, noticeTables, actors, reconciliation, faults>>

-----------------------------------------------------------------------------
(* Specification *)

Init ==
    /\ scans = [i \in ScanIds |-> NoScan]
    /\ lastScan = 0 /\ deleted = FALSE
    /\ timeline = {} /\ notices = {} /\ sent = {} /\ resent = {}
    /\ sweep = Idle /\ rescan = Idle /\ adminScan = Idle
    /\ reconciliation = [j \in Reconciliations |-> {}]
    /\ cron = 0 /\ cronJobs = {"sweep", "reconciliation"} /\ faults = 0

SweepStep ==
    \/ ClaimDomain \/ SweepWritesScan \/ SweepCompares \/ SweepRecords \/ SweepNotifies
    \/ SweepThrows \/ WriteFailedRecord \/ SweepComparesAgain
    \/ RecordPlatformFailure \/ SweepDies

Next ==
    \/ SweepStep
    \/ StartRescan \/ RescanWritesScan \/ RescanCompares \/ RescanRecords
    \/ StartAdminScan \/ AdminWritesScan \/ AdminRecords
    \/ \E j \in Reconciliations :
            StartReconciliation(j) \/ ReconcileNext(j) \/ ReconciliationDies(j)
    \/ \E e \in timeline : PurgeReadNotice(e)
    \/ SoftDeleteDomain \/ Tick

Spec == Init /\ [][Next]_vars

-----------------------------------------------------------------------------
(* Properties *)

\* One change is noticed once: the sweep, overlapping reconciliations and the
\* purge of read notices never lead to a second notice of the same event.
NeverNoticedTwice == resent = {}

\* A notice tells of a difference between two scans that both ended well; a
\* failed scan never passes for a change of policy.
NoticesTellRealChanges ==
    \A e \in sent :
        /\ scans[e.previous].ok /\ scans[e.current].ok
        /\ scans[e.previous].content # scans[e.current].content

\* A scan leaves one timeline event at most, although a scheduled scan whose
\* outcome could not be written is compared a second time in the catch block
\* while other scans move last_scan_id.
OneEventPerScan ==
    \A e, f \in timeline : e.current = f.current => e = f

\* A change worth a notice that a sweep has found is noticed by the time the
\* sweep is done with it: only a fault leaves it to reconciliation.
OnlyFaultsLeaveNoticesMissing ==
    \A e \in timeline :
        MeritsNotice(e) /\ scans[e.current].by = "sweep" /\ sweep.scan # e.current =>
            e \in sent \/ faults > 0

\* A missed notice heals within a day, since reconciliation runs daily: what
\* the reconciliation policy says, for a change found by a sweep.
MissedNoticesHealWithinADay ==
    \A e \in timeline :
        MeritsNotice(e) /\ scans[e.current].by = "sweep" /\ scans[e.current].age > Day =>
            e \in sent \/ deleted
=============================================================================
