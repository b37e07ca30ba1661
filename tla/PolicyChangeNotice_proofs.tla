---------------------- MODULE PolicyChangeNotice_proofs ----------------------
(***************************************************************************)
(* Proofs about PolicyChangeNotice, for any contents, number of scans,     *)
(* faults and overlapping reconciliations: a notice tells of a real        *)
(* change, a scan leaves one event, an event is noticed once, and only a   *)
(* fault keeps a notice back.                                              *)
(*                                                                         *)
(* The invariant follows an event from the scan under way that will leave  *)
(* it (ActorsOK, EventsOfScans) to its notice and the purge of the notice  *)
(* (AgesOK); that rows once written never change but for their age         *)
(* (RowsPersist) is what every part of it rests on.                        *)
(***************************************************************************)
EXTENDS PolicyChangeNotice, TLAPS

-----------------------------------------------------------------------------
(* The inductive invariant *)

\* The two scans of event e ended well and differ.
RealChange(e) ==
    /\ e.previous # 0
    /\ scans[e.previous].ok /\ scans[e.current].ok
    /\ scans[e.previous].content # scans[e.current].content

Real == {e \in timeline : e.type = "policy_change"}

\* The scans of an event are written, and a policy change is a real one.
TimelineOK ==
    \A e \in timeline :
        /\ Written(e.current) /\ (e.previous # 0 => Written(e.previous))
        /\ e.type = "policy_change" => RealChange(e)

NoticesOK ==
    /\ notices \subseteq sent /\ sent \subseteq Real /\ resent \subseteq sent
    /\ \A j \in Reconciliations : reconciliation[j] \subseteq Real

\* Where a scan under way stands, and that its row is there when it needs it.
ScanningOK(a) ==
    /\ a \in Scanning
    /\ a.pc = "idle" <=> a = Idle
    /\ a.pc # "idle" => a.scan \in ScanIds
    /\ a.pc = "auditing" => ~Written(a.scan)
    /\ a.pc \in {"written", "compared", "recorded", "recompared"} => Written(a.scan)
    /\ a.previous # 0 => Written(a.previous)

\* No two scans under way have drawn one id, and each row is its writer's.
ActorsOK ==
    /\ ScanningOK(sweep) /\ ScanningOK(rescan) /\ ScanningOK(adminScan)
    /\ sweep.pc # "idle" => sweep.scan \notin {rescan.scan, adminScan.scan}
    /\ rescan.pc # "idle" => rescan.scan # adminScan.scan
    /\ rescan.pc \in {"idle", "auditing", "written", "compared"}
    /\ adminScan.pc \in {"idle", "auditing", "compared"}
    /\ sweep.event # NoEvent => sweep.event \in timeline /\ sweep.event.current = sweep.scan
    /\ rescan.pc = "written" => scans[rescan.scan].by = "rescan"

TablesOK ==
    /\ deleted \in BOOLEAN
    /\ scans \in [ScanIds -> ScanRow \cup {NoScan}]
    /\ lastScan = 0 \/ (lastScan \in ScanIds /\ Written(lastScan))
    /\ timeline \subseteq Event
    /\ reconciliation \in [Reconciliations -> SUBSET timeline]
    /\ cron \in 0..(Day - 1) /\ cronJobs \subseteq {"sweep", "reconciliation"} /\ faults \in Nat

TInv == TablesOK /\ TimelineOK /\ NoticesOK /\ ActorsOK

\* Until a scan under way is compared it has no event, and what a comparison
\* made again would find is the event that the first one left.
EventsOfScans ==
    /\ \A e \in timeline :
          /\ e.current = sweep.scan =>
               /\ sweep.pc # "written"
               /\ e = EventOf(sweep.previous, sweep.scan)
          /\ e.current = rescan.scan => rescan.pc # "written"
    /\ OneEventPerScan

\* A notice that is gone was purged, and its event is too old for reconciliation;
\* the event of the sweep under way is new.
AgesOK ==
    /\ resent = {}
    /\ \A e \in sent \ notices : scans[e.current].age >= Retention
    /\ \A j \in Reconciliations : \A e \in reconciliation[j] : scans[e.current].age <= Lookback
    /\ sweep.pc # "idle" /\ Written(sweep.scan) => scans[sweep.scan].age = 0

\* Without a fault the sweep still holds the event it has left.
SweepHoldsEvent ==
    /\ sweep.pc \in {"threw", "recompared"} => faults > 0
    /\ faults = 0 =>
          \A e \in timeline : e.current = sweep.scan => sweep.event = e

HInv == SweepHoldsEvent /\ OnlyFaultsLeaveNoticesMissing

PInv == TInv /\ EventsOfScans /\ AgesOK /\ HInv

-----------------------------------------------------------------------------
(* Rows and ids *)

\* An id that has a row keeps it.
RowsKept ==
    \A i \in ScanIds : Written(i) =>
        /\ Written(i)'
        /\ scans'[i].by = scans[i].by /\ scans'[i].ok = scans[i].ok
        /\ scans'[i].content = scans[i].content /\ scans'[i].age >= scans[i].age

LEMMA IdleFacts ==
    /\ Idle \in Scanning /\ Idle.pc = "idle" /\ Idle.previous = 0 /\ Idle.scan = 0
    /\ Idle.event = NoEvent /\ 0 \notin ScanIds
  BY BoundsAssumption DEF Idle, Scanning, ScanIds

LEMMA ScanningFacts ==
    ASSUME NEW a \in Scanning
    PROVE  /\ a.previous \in {0} \cup ScanIds /\ a.scan \in {0} \cup ScanIds
           /\ a.event \in Event \cup {NoEvent}
  BY DEF Scanning

LEMMA TypeFromTInv == TInv => TypeOK
  BY DEF TInv, TablesOK, NoticesOK, ActorsOK, ScanningOK, Real, TypeOK

LEMMA FreshIsUndrawn == Undrawn # {} => Fresh \in Undrawn
  BY DEF Fresh

LEMMA EventIsOK ==
    ASSUME TablesOK, NEW p \in {0} \cup ScanIds, NEW c \in ScanIds, NEW e, e = EventOf(p, c),
           e # NoEvent, p # 0 => Written(p)
    PROVE  /\ e \in Event /\ e.previous = p /\ e.current = c /\ Written(c)
           /\ e.type = "policy_change" => RealChange(e)
  BY DEF EventOf, Comparison, NoEvent, Event, RealChange, TablesOK, ScanRow

LEMMA RowsFixed == TInv /\ [Next]_vars => Tick \/ \A i \in ScanIds : Written(i) => scans'[i] = scans[i]
<1> SUFFICES ASSUME TInv, [Next]_vars, ~Tick, NEW i \in ScanIds, Written(i)
             PROVE  scans'[i] = scans[i]
  OBVIOUS
<1>1. CASE SweepWritesScan
  BY <1>1 DEF SweepWritesScan, WriteScan, TInv, TablesOK, ActorsOK, ScanningOK
<1>2. CASE RescanWritesScan
  BY <1>2 DEF RescanWritesScan, WriteScan, TInv, TablesOK, ActorsOK, ScanningOK
<1>3. CASE AdminWritesScan
  BY <1>3 DEF AdminWritesScan, WriteScan, TInv, TablesOK, ActorsOK, ScanningOK
<1>4. CASE WriteFailedRecord
  BY <1>4 DEF WriteFailedRecord, FailedRecord, TInv, TablesOK
<1>5. CASE UNCHANGED scans
  BY <1>5
<1>6. QED
  BY <1>1, <1>2, <1>3, <1>4, <1>5
  DEF Next, SweepStep, ClaimDomain, SweepCompares, SweepRecords, SweepNotifies, SweepThrows, SweepComparesAgain, RecordPlatformFailure, SweepDies, StartRescan, RescanCompares, RescanRecords, StartAdminScan, AdminRecords, StartReconciliation, ReconcileNext, ReconciliationDies, PurgeReadNotice, SoftDeleteDomain, vars

LEMMA RowsPersist == TInv /\ [Next]_vars => RowsKept
<1> SUFFICES ASSUME TInv, [Next]_vars, NEW i \in ScanIds, Written(i)
             PROVE  /\ Written(i)'
                    /\ scans'[i].by = scans[i].by /\ scans'[i].ok = scans[i].ok
                    /\ scans'[i].content = scans[i].content /\ scans'[i].age >= scans[i].age
  BY DEF RowsKept
<1>1. scans[i] \in ScanRow
  BY DEF TInv, TablesOK, Written
<1>2. CASE Tick
  <2>1. scans'[i] = IF scans[i].age < MaxAge THEN [scans[i] EXCEPT !.age = @ + 1] ELSE scans[i]
    BY <1>2 DEF Tick
  <2>2. QED
    BY <1>1, <2>1, DurationsAssumption DEF ScanRow, Written, NoScan
<1>3. CASE scans'[i] = scans[i]
  BY <1>1, <1>3, DurationsAssumption DEF Written, ScanRow
<1>4. QED
  BY <1>2, <1>3, RowsFixed

\* New events that are right leave the timeline right.
LEMMA TimelineGrows ==
    ASSUME TablesOK, TimelineOK, RowsKept,
           \A e \in timeline' \ timeline :
               /\ e \in Event /\ Written(e.current) /\ (e.previous # 0 => Written(e.previous))
               /\ e.type = "policy_change" => RealChange(e)
    PROVE  TimelineOK'
<1>1. ASSUME NEW e \in timeline'
      PROVE  /\ e \in Event /\ Written(e.current) /\ (e.previous # 0 => Written(e.previous))
             /\ e.type = "policy_change" => RealChange(e)
  BY DEF TablesOK, TimelineOK
<1>2. ASSUME NEW e \in timeline'
      PROVE  /\ Written(e.current)' /\ (e.previous # 0 => Written(e.previous)')
             /\ e.type = "policy_change" => RealChange(e)'
  BY <1>1 DEF RowsKept, Event, RealChange, Written
<1>3. QED
  BY <1>2 DEF TimelineOK

LEMMA TInvStep == TInv /\ [Next]_vars => TInv'
<1> SUFFICES ASSUME TInv, [Next]_vars
             PROVE  TInv'
  OBVIOUS
<1>1. CASE ClaimDomain
  <2>1. timeline \subseteq timeline' /\ RowsKept
    BY <1>1, RowsPersist DEF ClaimDomain, WithEvent, Next, SweepStep
  <2>2. timeline' = timeline
    BY <1>1 DEF ClaimDomain
  <2>3. \A e \in timeline' \ timeline :
            /\ e \in Event /\ Written(e.current) /\ (e.previous # 0 => Written(e.previous))
            /\ e.type = "policy_change" => RealChange(e)
    BY <2>2
  <2>4. TimelineOK'
    BY <2>1, <2>3, TimelineGrows DEF TInv
  <2>5. NoticesOK'
    BY <1>1, <2>1 DEF ClaimDomain, TInv, NoticesOK, Real, noticeTables
  <2>6. /\ UNCHANGED <<rescan, adminScan>>
        /\ sweep' \in Scanning /\ sweep'.pc = "auditing" /\ sweep'.previous = lastScan
        /\ sweep'.scan = Fresh /\ sweep'.event = NoEvent
    BY <1>1, FreshIsUndrawn DEF ClaimDomain, TInv, TablesOK, ActorsOK, ScanningOK, Scanning,
       Idle, Undrawn
  <2>7. scans' = scans
    BY <1>1 DEF ClaimDomain
  <2>8. ActorsOK'
    BY <1>1, <2>1, IdleFacts, ScanningFacts, <2>6, <2>7, FreshIsUndrawn, EventIsOK
    DEF ClaimDomain, TInv, TablesOK, ActorsOK, ScanningOK, RowsKept, Written, Undrawn
  <2>9. TablesOK'
    BY <1>1, <2>1, IdleFacts, ScanningFacts, <2>6, <2>7, <2>2, <2>3, DurationsAssumption
    DEF ClaimDomain, TInv, TablesOK, NoticesOK, Real, ActorsOK, ScanningOK, RowsKept, Written,
       noticeTables
  <2>10. QED
    BY <2>4, <2>5, <2>8, <2>9 DEF TInv
<1>2. CASE SweepWritesScan
  <2>1. timeline \subseteq timeline' /\ RowsKept
    BY <1>2, RowsPersist DEF SweepWritesScan, WithEvent, Next, SweepStep
  <2>2. timeline' = timeline
    BY <1>2 DEF SweepWritesScan
  <2>3. \A e \in timeline' \ timeline :
            /\ e \in Event /\ Written(e.current) /\ (e.previous # 0 => Written(e.previous))
            /\ e.type = "policy_change" => RealChange(e)
    BY <2>2
  <2>4. TimelineOK'
    BY <2>1, <2>3, TimelineGrows DEF TInv
  <2>5. NoticesOK'
    BY <1>2, <2>1 DEF SweepWritesScan, TInv, NoticesOK, Real, noticeTables
  <2>6. /\ UNCHANGED <<rescan, adminScan>>
        /\ sweep' \in Scanning /\ sweep'.pc = "written" /\ sweep'.previous = sweep.previous
        /\ sweep'.scan = sweep.scan /\ sweep'.event = sweep.event
    BY <1>2 DEF SweepWritesScan, TInv, TablesOK, ActorsOK, ScanningOK, Scanning, Idle
  <2>7. /\ scans'[sweep.scan] # NoScan /\ scans' \in [ScanIds -> ScanRow \cup {NoScan}]
        /\ \A i \in ScanIds \ {sweep.scan} : scans'[i] = scans[i]
        /\ scans'[sweep.scan].by = "sweep"
    BY <1>2, DurationsAssumption DEF SweepWritesScan, WriteScan, NoScan, ScanRow, TInv,
       TablesOK, ActorsOK, ScanningOK
  <2>8. ActorsOK'
    <3>1. ScanningOK(sweep)'
      <4>1. /\ sweep \in Scanning /\ sweep.pc = "auditing" /\ sweep.scan \in ScanIds
            /\ sweep.previous # 0 => Written(sweep.previous)
        BY <1>2, IdleFacts DEF SweepWritesScan, TInv, ActorsOK, ScanningOK
      <4>2. scans'[sweep.scan] # NoScan /\ (sweep.previous # 0 => scans'[sweep.previous] # NoScan)
        BY <2>1, <2>6, <2>7, <4>1, ScanningFacts DEF RowsKept, Written
      <4>3. QED
        BY <2>6, <4>1, <4>2, IdleFacts DEF ScanningOK, Written
    <3>2. ScanningOK(rescan)'
      BY <1>2, <2>1, ScanningFacts, <2>6, <2>7, IdleFacts DEF SweepWritesScan, TInv, TablesOK,
         ActorsOK, ScanningOK, RowsKept, Written
    <3>3. ScanningOK(adminScan)'
      BY <1>2, <2>1, ScanningFacts, <2>6, <2>7, IdleFacts DEF SweepWritesScan, TInv, TablesOK,
         ActorsOK, ScanningOK, RowsKept, Written
    <3>4. QED
      BY <1>2, <2>1, ScanningFacts, <2>6, <2>7, <2>2, <3>1, <3>2, <3>3
      DEF SweepWritesScan, TInv, ActorsOK, ScanningOK, RowsKept, Written
  <2>9. TablesOK'
    BY <1>2, <2>1, IdleFacts, ScanningFacts, <2>6, <2>7, <2>2, <2>3, DurationsAssumption
    DEF SweepWritesScan, TInv, TablesOK, NoticesOK, Real, ActorsOK, ScanningOK, RowsKept,
       Written, noticeTables
  <2>10. QED
    BY <2>4, <2>5, <2>8, <2>9 DEF TInv
<1>3. CASE SweepCompares
  <2>1. timeline \subseteq timeline' /\ RowsKept
    BY <1>3, RowsPersist DEF SweepCompares, WithEvent, Next, SweepStep
  <2>2. \/ timeline' = timeline
        \/ /\ EventOf(sweep.previous, sweep.scan) # NoEvent
           /\ timeline' = timeline \cup {EventOf(sweep.previous, sweep.scan)}
    BY <1>3 DEF SweepCompares, WithEvent
  <2>3. \A e \in timeline' \ timeline :
            /\ e \in Event /\ Written(e.current) /\ (e.previous # 0 => Written(e.previous))
            /\ e.type = "policy_change" => RealChange(e)
    BY <1>3, <2>2, EventIsOK DEF SweepCompares, TInv, ActorsOK, ScanningOK, Scanning
  <2>4. TimelineOK'
    BY <2>1, <2>3, TimelineGrows DEF TInv
  <2>5. NoticesOK'
    BY <1>3, <2>1 DEF SweepCompares, TInv, NoticesOK, Real, noticeTables
  <2>6. /\ UNCHANGED <<rescan, adminScan>>
        /\ sweep' \in Scanning /\ sweep'.pc = "compared" /\ sweep'.previous = sweep.previous
        /\ sweep'.scan = sweep.scan /\ sweep'.event \in {sweep.event, EventOf(sweep.previous, sweep.scan)}
    <3>1. \/ timeline' = WithEvent(EventOf(sweep.previous, sweep.scan))
             /\ sweep' = [sweep EXCEPT !.pc = "compared", !.event = EventOf(sweep.previous, sweep.scan)]
          \/ timeline' = timeline /\ sweep' = [sweep EXCEPT !.pc = "compared"]
      BY <1>3 DEF SweepCompares
    <3>2. EventOf(sweep.previous, sweep.scan) \in Event \cup {NoEvent} /\ sweep \in Scanning
      BY <1>3, EventIsOK DEF SweepCompares, TInv, ActorsOK, ScanningOK, Scanning
    <3>3. UNCHANGED <<rescan, adminScan>>
      BY <1>3 DEF SweepCompares
    <3>4. QED
      BY <3>1, <3>2, <3>3 DEF Scanning
  <2>7. scans' = scans
    BY <1>3 DEF SweepCompares
  <2>8. ActorsOK'
    <3>1. ScanningOK(sweep)'
      BY <1>3, <2>6, <2>7, IdleFacts DEF SweepCompares, TInv, ActorsOK, ScanningOK, Written
    <3>2. sweep'.event # NoEvent => sweep'.event \in timeline' /\ sweep'.event.current = sweep'.scan
      <4>1. \/ sweep'.event = sweep.event /\ timeline \subseteq timeline'
            \/ /\ sweep'.event = EventOf(sweep.previous, sweep.scan)
               /\ timeline' = WithEvent(EventOf(sweep.previous, sweep.scan))
        BY <1>3, <2>1 DEF SweepCompares, TInv, ActorsOK, ScanningOK, Scanning
      <4>2. EventOf(sweep.previous, sweep.scan) # NoEvent =>
                EventOf(sweep.previous, sweep.scan).current = sweep.scan
        BY <1>3, EventIsOK DEF SweepCompares, TInv, ActorsOK, ScanningOK, Scanning
      <4>3. QED
        BY <2>6, <4>1, <4>2 DEF WithEvent, TInv, ActorsOK
    <3>3. ScanningOK(rescan)' /\ ScanningOK(adminScan)'
      BY <2>6, <2>7 DEF TInv, ActorsOK, ScanningOK, Written
    <3>4. QED
      BY <1>3, <2>6, <2>7, <3>1, <3>2, <3>3 DEF SweepCompares, TInv, ActorsOK
  <2>9. TablesOK'
    BY <1>3, <2>1, IdleFacts, ScanningFacts, <2>6, <2>7, <2>2, <2>3, DurationsAssumption
    DEF SweepCompares, TInv, TablesOK, NoticesOK, Real, ActorsOK, ScanningOK, RowsKept, Written,
       noticeTables
  <2>10. QED
    BY <2>4, <2>5, <2>8, <2>9 DEF TInv
<1>4. CASE SweepRecords
  <2>1. timeline \subseteq timeline' /\ RowsKept
    BY <1>4, RowsPersist DEF SweepRecords, WithEvent, Next, SweepStep
  <2>2. timeline' = timeline
    BY <1>4 DEF SweepRecords
  <2>3. \A e \in timeline' \ timeline :
            /\ e \in Event /\ Written(e.current) /\ (e.previous # 0 => Written(e.previous))
            /\ e.type = "policy_change" => RealChange(e)
    BY <2>2
  <2>4. TimelineOK'
    BY <2>1, <2>3, TimelineGrows DEF TInv
  <2>5. NoticesOK'
    BY <1>4, <2>1 DEF SweepRecords, TInv, NoticesOK, Real, noticeTables
  <2>6. /\ UNCHANGED <<rescan, adminScan>>
        /\ sweep' \in Scanning /\ sweep'.pc = "recorded" /\ sweep'.previous = sweep.previous
        /\ sweep'.scan = sweep.scan /\ sweep'.event = sweep.event
    BY <1>4 DEF SweepRecords, TInv, TablesOK, ActorsOK, ScanningOK, Scanning, Idle
  <2>7. scans' = scans
    BY <1>4 DEF SweepRecords
  <2>8. ActorsOK'
    BY <1>4, <2>1, IdleFacts, ScanningFacts, <2>6, <2>7 DEF SweepRecords, TInv, TablesOK,
       ActorsOK, ScanningOK, RowsKept, Written
  <2>9. TablesOK'
    BY <1>4, <2>1, IdleFacts, ScanningFacts, <2>6, <2>7, <2>2, <2>3, DurationsAssumption
    DEF SweepRecords, TInv, TablesOK, NoticesOK, Real, ActorsOK, ScanningOK, RowsKept, Written,
       noticeTables
  <2>10. QED
    BY <2>4, <2>5, <2>8, <2>9 DEF TInv
<1>5. CASE SweepNotifies
  <2>1. timeline \subseteq timeline' /\ RowsKept
    BY <1>5, RowsPersist DEF SweepNotifies, WithEvent, Next, SweepStep
  <2>2. timeline' = timeline
    BY <1>5 DEF SweepNotifies
  <2>3. \A e \in timeline' \ timeline :
            /\ e \in Event /\ Written(e.current) /\ (e.previous # 0 => Written(e.previous))
            /\ e.type = "policy_change" => RealChange(e)
    BY <2>2
  <2>4. TimelineOK'
    BY <2>1, <2>3, TimelineGrows DEF TInv
  <2>5. NoticesOK'
    BY <1>5, <2>2 DEF SweepNotifies, TInv, NoticesOK, Real, CreateNotificationOnce,
       EventToNotice, MeritsNotice, ActorsOK, noticeTables
  <2>6. /\ UNCHANGED <<rescan, adminScan>>
        /\ sweep' = Idle
    BY <1>5 DEF SweepNotifies, TInv, TablesOK, ActorsOK, ScanningOK, Scanning, Idle
  <2>7. scans' = scans
    BY <1>5 DEF SweepNotifies
  <2>8. ActorsOK'
    BY <1>5, <2>1, IdleFacts, ScanningFacts, <2>6, <2>7 DEF SweepNotifies, TInv, TablesOK,
       ActorsOK, ScanningOK, RowsKept, Written
  <2>9. TablesOK'
    BY <1>5, <2>1, IdleFacts, ScanningFacts, <2>6, <2>7, <2>2, <2>3, DurationsAssumption
    DEF SweepNotifies, TInv, TablesOK, NoticesOK, Real, ActorsOK, ScanningOK, RowsKept, Written,
       noticeTables
  <2>10. QED
    BY <2>4, <2>5, <2>8, <2>9 DEF TInv
<1>6. CASE SweepThrows
  <2>1. timeline \subseteq timeline' /\ RowsKept
    BY <1>6, RowsPersist DEF SweepThrows, WithEvent, Next, SweepStep
  <2>2. timeline' = timeline
    BY <1>6 DEF SweepThrows
  <2>3. \A e \in timeline' \ timeline :
            /\ e \in Event /\ Written(e.current) /\ (e.previous # 0 => Written(e.previous))
            /\ e.type = "policy_change" => RealChange(e)
    BY <2>2
  <2>4. TimelineOK'
    BY <2>1, <2>3, TimelineGrows DEF TInv
  <2>5. NoticesOK'
    BY <1>6, <2>1 DEF SweepThrows, TInv, NoticesOK, Real, noticeTables
  <2>6. /\ UNCHANGED <<rescan, adminScan>>
        /\ sweep' \in Scanning /\ sweep'.pc = "threw" /\ sweep'.previous = sweep.previous
        /\ sweep'.scan = sweep.scan /\ sweep'.event = sweep.event
    BY <1>6 DEF SweepThrows, TInv, TablesOK, ActorsOK, ScanningOK, Scanning, Idle
  <2>7. scans' = scans
    BY <1>6 DEF SweepThrows
  <2>8. ActorsOK'
    BY <1>6, <2>1, IdleFacts, ScanningFacts, <2>6, <2>7 DEF SweepThrows, TInv, TablesOK,
       ActorsOK, ScanningOK, RowsKept, Written
  <2>9. TablesOK'
    BY <1>6, <2>1, IdleFacts, ScanningFacts, <2>6, <2>7, <2>2, <2>3, DurationsAssumption
    DEF SweepThrows, TInv, TablesOK, NoticesOK, Real, ActorsOK, ScanningOK, RowsKept, Written,
       noticeTables
  <2>10. QED
    BY <2>4, <2>5, <2>8, <2>9 DEF TInv
<1>7. CASE WriteFailedRecord
  <2>1. timeline \subseteq timeline' /\ RowsKept
    BY <1>7, RowsPersist DEF WriteFailedRecord, WithEvent, Next, SweepStep
  <2>2. timeline' = timeline
    BY <1>7 DEF WriteFailedRecord
  <2>3. \A e \in timeline' \ timeline :
            /\ e \in Event /\ Written(e.current) /\ (e.previous # 0 => Written(e.previous))
            /\ e.type = "policy_change" => RealChange(e)
    BY <2>2
  <2>4. TimelineOK'
    BY <2>1, <2>3, TimelineGrows DEF TInv
  <2>5. NoticesOK'
    BY <1>7, <2>1 DEF WriteFailedRecord, TInv, NoticesOK, Real, noticeTables
  <2>6. UNCHANGED <<sweep, rescan, adminScan>>
    BY <1>7 DEF WriteFailedRecord, actors
  <2>7. /\ scans'[sweep.scan] # NoScan /\ scans' \in [ScanIds -> ScanRow \cup {NoScan}]
        /\ \A i \in ScanIds \ {sweep.scan} : scans'[i] = scans[i]
    <3>1. /\ sweep.scan \in ScanIds /\ ~Written(sweep.scan)
          /\ scans' = [scans EXCEPT ![sweep.scan] = [by |-> "sweep", ok |-> FALSE, age |-> 0,
                                        content |-> CHOOSE c \in Contents : TRUE]]
      BY <1>7 DEF WriteFailedRecord, FailedRecord, TInv, ActorsOK, ScanningOK
    <3>2. [by |-> "sweep", ok |-> FALSE, age |-> 0, content |-> CHOOSE c \in Contents : TRUE]
             \in ScanRow
      BY ContentsAssumption, DurationsAssumption DEF ScanRow
    <3>3. \A row \in ScanRow : row # NoScan
      BY DEF ScanRow, NoScan
    <3>4. QED
      BY <3>1, <3>2, <3>3 DEF TInv, TablesOK
  <2>8. ActorsOK'
    <3>1. ScanningOK(sweep)'
      BY <1>7, <2>1, ScanningFacts, <2>6, <2>7, IdleFacts DEF WriteFailedRecord, TInv, TablesOK,
         ActorsOK, ScanningOK, RowsKept, Written
    <3>2. ScanningOK(rescan)'
      BY <1>7, <2>1, ScanningFacts, <2>6, <2>7, IdleFacts DEF WriteFailedRecord, TInv, TablesOK,
         ActorsOK, ScanningOK, RowsKept, Written
    <3>3. ScanningOK(adminScan)'
      BY <1>7, <2>1, ScanningFacts, <2>6, <2>7, IdleFacts DEF WriteFailedRecord, TInv, TablesOK,
         ActorsOK, ScanningOK, RowsKept, Written
    <3>4. QED
      BY <1>7, <2>1, ScanningFacts, <2>6, <2>7, <2>2, <3>1, <3>2, <3>3
      DEF WriteFailedRecord, TInv, ActorsOK, ScanningOK, RowsKept, Written
  <2>9. TablesOK'
    BY <1>7, <2>1, IdleFacts, ScanningFacts, <2>6, <2>7, <2>2, <2>3, DurationsAssumption
    DEF WriteFailedRecord, TInv, TablesOK, NoticesOK, Real, ActorsOK, ScanningOK, RowsKept,
       Written, actors, noticeTables
  <2>10. QED
    BY <2>4, <2>5, <2>8, <2>9 DEF TInv
<1>8. CASE SweepComparesAgain
  <2>1. timeline \subseteq timeline' /\ RowsKept
    BY <1>8, RowsPersist DEF SweepComparesAgain, WithEvent, Next, SweepStep
  <2>2. \/ timeline' = timeline
        \/ /\ EventOf(sweep.previous, sweep.scan) # NoEvent
           /\ timeline' = timeline \cup {EventOf(sweep.previous, sweep.scan)}
    BY <1>8 DEF SweepComparesAgain, WithEvent, PreviousOfFailure
  <2>3. \A e \in timeline' \ timeline :
            /\ e \in Event /\ Written(e.current) /\ (e.previous # 0 => Written(e.previous))
            /\ e.type = "policy_change" => RealChange(e)
    BY <1>8, <2>2, EventIsOK DEF SweepComparesAgain, TInv, ActorsOK, ScanningOK, Scanning
  <2>4. TimelineOK'
    BY <2>1, <2>3, TimelineGrows DEF TInv
  <2>5. NoticesOK'
    BY <1>8, <2>1 DEF SweepComparesAgain, TInv, NoticesOK, Real, noticeTables
  <2>6. /\ UNCHANGED <<rescan, adminScan>>
        /\ sweep' \in Scanning /\ sweep'.pc = "recompared" /\ sweep'.previous = sweep.previous
        /\ sweep'.scan = sweep.scan /\ sweep'.event = sweep.event
    BY <1>8 DEF SweepComparesAgain, TInv, TablesOK, ActorsOK, ScanningOK, Scanning, Idle
  <2>7. scans' = scans
    BY <1>8 DEF SweepComparesAgain
  <2>8. Written(sweep.scan)
    BY <1>8 DEF SweepComparesAgain, FailedRecord, Written, NoScan, TInv, TablesOK, ActorsOK,
       ScanningOK
  <2>9. ActorsOK'
    BY <1>8, <2>1, IdleFacts, ScanningFacts, <2>6, <2>7, <2>8
    DEF SweepComparesAgain, TInv, ActorsOK, ScanningOK, RowsKept, Written
  <2>10. TablesOK'
    BY <1>8, <2>1, IdleFacts, ScanningFacts, <2>6, <2>7, <2>2, <2>3, DurationsAssumption
    DEF SweepComparesAgain, TInv, TablesOK, NoticesOK, Real, ActorsOK, ScanningOK, RowsKept,
       Written, noticeTables
  <2>11. QED
    BY <2>4, <2>5, <2>9, <2>10 DEF TInv
<1>9. CASE RecordPlatformFailure
  <2>1. timeline \subseteq timeline' /\ RowsKept
    BY <1>9, RowsPersist DEF RecordPlatformFailure, WithEvent, Next, SweepStep
  <2>2. timeline' = timeline
    BY <1>9 DEF RecordPlatformFailure
  <2>3. \A e \in timeline' \ timeline :
            /\ e \in Event /\ Written(e.current) /\ (e.previous # 0 => Written(e.previous))
            /\ e.type = "policy_change" => RealChange(e)
    BY <2>2
  <2>4. TimelineOK'
    BY <2>1, <2>3, TimelineGrows DEF TInv
  <2>5. NoticesOK'
    BY <1>9, <2>1 DEF RecordPlatformFailure, TInv, NoticesOK, Real, noticeTables
  <2>6. /\ UNCHANGED <<rescan, adminScan>>
        /\ sweep' = Idle
    BY <1>9 DEF RecordPlatformFailure, TInv, TablesOK, ActorsOK, ScanningOK, Scanning, Idle
  <2>7. scans' = scans
    BY <1>9 DEF RecordPlatformFailure
  <2>8. ActorsOK'
    BY <1>9, <2>1, IdleFacts, ScanningFacts, <2>6, <2>7 DEF RecordPlatformFailure, TInv,
       TablesOK, ActorsOK, ScanningOK, RowsKept, Written
  <2>9. TablesOK'
    BY <1>9, <2>1, IdleFacts, ScanningFacts, <2>6, <2>7, <2>2, <2>3, DurationsAssumption
    DEF RecordPlatformFailure, TInv, TablesOK, NoticesOK, Real, ActorsOK, ScanningOK, RowsKept,
       Written, noticeTables
  <2>10. QED
    BY <2>4, <2>5, <2>8, <2>9 DEF TInv
<1>10. CASE SweepDies
  <2>1. timeline \subseteq timeline' /\ RowsKept
    BY <1>10, RowsPersist DEF SweepDies, WithEvent, Next, SweepStep
  <2>2. timeline' = timeline
    BY <1>10 DEF SweepDies
  <2>3. \A e \in timeline' \ timeline :
            /\ e \in Event /\ Written(e.current) /\ (e.previous # 0 => Written(e.previous))
            /\ e.type = "policy_change" => RealChange(e)
    BY <2>2
  <2>4. TimelineOK'
    BY <2>1, <2>3, TimelineGrows DEF TInv
  <2>5. NoticesOK'
    BY <1>10, <2>1 DEF SweepDies, TInv, NoticesOK, Real, noticeTables
  <2>6. /\ UNCHANGED <<rescan, adminScan>>
        /\ sweep' = Idle
    BY <1>10 DEF SweepDies, TInv, TablesOK, ActorsOK, ScanningOK, Scanning, Idle
  <2>7. scans' = scans
    BY <1>10 DEF SweepDies
  <2>8. ActorsOK'
    BY <1>10, <2>1, IdleFacts, ScanningFacts, <2>6, <2>7 DEF SweepDies, TInv, TablesOK,
       ActorsOK, ScanningOK, RowsKept, Written
  <2>9. TablesOK'
    BY <1>10, <2>1, IdleFacts, ScanningFacts, <2>6, <2>7, <2>2, <2>3, DurationsAssumption
    DEF SweepDies, TInv, TablesOK, NoticesOK, Real, ActorsOK, ScanningOK, RowsKept, Written,
       noticeTables
  <2>10. QED
    BY <2>4, <2>5, <2>8, <2>9 DEF TInv
<1>11. CASE StartRescan
  <2>1. timeline \subseteq timeline' /\ RowsKept
    BY <1>11, RowsPersist DEF StartRescan, WithEvent, Next, SweepStep
  <2>2. timeline' = timeline
    BY <1>11 DEF StartRescan
  <2>3. \A e \in timeline' \ timeline :
            /\ e \in Event /\ Written(e.current) /\ (e.previous # 0 => Written(e.previous))
            /\ e.type = "policy_change" => RealChange(e)
    BY <2>2
  <2>4. TimelineOK'
    BY <2>1, <2>3, TimelineGrows DEF TInv
  <2>5. NoticesOK'
    BY <1>11, <2>1 DEF StartRescan, TInv, NoticesOK, Real, noticeTables
  <2>6. /\ UNCHANGED <<sweep, adminScan>>
        /\ rescan' \in Scanning /\ rescan'.pc = "auditing" /\ rescan'.previous = lastScan
        /\ rescan'.scan = Fresh /\ rescan'.event = NoEvent
    BY <1>11, FreshIsUndrawn DEF StartRescan, TInv, TablesOK, ActorsOK, ScanningOK, Scanning,
       Idle, Undrawn
  <2>7. scans' = scans
    BY <1>11 DEF StartRescan
  <2>8. ActorsOK'
    BY <1>11, <2>1, IdleFacts, ScanningFacts, <2>6, <2>7, FreshIsUndrawn, EventIsOK
    DEF StartRescan, TInv, TablesOK, ActorsOK, ScanningOK, RowsKept, Written, Undrawn
  <2>9. TablesOK'
    BY <1>11, <2>1, IdleFacts, ScanningFacts, <2>6, <2>7, <2>2, <2>3, DurationsAssumption
    DEF StartRescan, TInv, TablesOK, NoticesOK, Real, ActorsOK, ScanningOK, RowsKept, Written,
       noticeTables
  <2>10. QED
    BY <2>4, <2>5, <2>8, <2>9 DEF TInv
<1>12. CASE RescanWritesScan
  <2>1. timeline \subseteq timeline' /\ RowsKept
    BY <1>12, RowsPersist DEF RescanWritesScan, WithEvent, Next, SweepStep
  <2>2. timeline' = timeline
    BY <1>12 DEF RescanWritesScan
  <2>3. \A e \in timeline' \ timeline :
            /\ e \in Event /\ Written(e.current) /\ (e.previous # 0 => Written(e.previous))
            /\ e.type = "policy_change" => RealChange(e)
    BY <2>2
  <2>4. TimelineOK'
    BY <2>1, <2>3, TimelineGrows DEF TInv
  <2>5. NoticesOK'
    BY <1>12, <2>1 DEF RescanWritesScan, TInv, NoticesOK, Real, noticeTables
  <2>6. /\ UNCHANGED <<sweep, adminScan>>
        /\ rescan' \in Scanning /\ rescan'.pc = "written" /\ rescan'.previous = rescan.previous
        /\ rescan'.scan = rescan.scan /\ rescan'.event = rescan.event
    BY <1>12 DEF RescanWritesScan, TInv, TablesOK, ActorsOK, ScanningOK, Scanning, Idle
  <2>7. /\ scans'[rescan.scan] # NoScan /\ scans' \in [ScanIds -> ScanRow \cup {NoScan}]
        /\ \A i \in ScanIds \ {rescan.scan} : scans'[i] = scans[i]
        /\ scans'[rescan.scan].by = "rescan"
    BY <1>12, DurationsAssumption DEF RescanWritesScan, WriteScan, NoScan, ScanRow, TInv,
       TablesOK, ActorsOK, ScanningOK
  <2>8. ActorsOK'
    <3>1. ScanningOK(sweep)'
      BY <1>12, <2>1, ScanningFacts, <2>6, <2>7, IdleFacts DEF RescanWritesScan, TInv, TablesOK,
         ActorsOK, ScanningOK, RowsKept, Written
    <3>2. ScanningOK(rescan)'
      <4>1. /\ rescan \in Scanning /\ rescan.pc = "auditing" /\ rescan.scan \in ScanIds
            /\ rescan.previous # 0 => Written(rescan.previous)
        BY <1>12, IdleFacts DEF RescanWritesScan, TInv, ActorsOK, ScanningOK
      <4>2. scans'[rescan.scan] # NoScan /\ (rescan.previous # 0 => scans'[rescan.previous] # NoScan)
        BY <2>1, <2>6, <2>7, <4>1, ScanningFacts DEF RowsKept, Written
      <4>3. QED
        BY <2>6, <4>1, <4>2, IdleFacts DEF ScanningOK, Written
    <3>3. ScanningOK(adminScan)'
      BY <1>12, <2>1, ScanningFacts, <2>6, <2>7, IdleFacts DEF RescanWritesScan, TInv, TablesOK,
         ActorsOK, ScanningOK, RowsKept, Written
    <3>4. QED
      BY <1>12, <2>1, ScanningFacts, <2>6, <2>7, <2>2, <3>1, <3>2, <3>3
      DEF RescanWritesScan, TInv, ActorsOK, ScanningOK, RowsKept, Written
  <2>9. TablesOK'
    BY <1>12, <2>1, IdleFacts, ScanningFacts, <2>6, <2>7, <2>2, <2>3, DurationsAssumption
    DEF RescanWritesScan, TInv, TablesOK, NoticesOK, Real, ActorsOK, ScanningOK, RowsKept,
       Written, noticeTables
  <2>10. QED
    BY <2>4, <2>5, <2>8, <2>9 DEF TInv
<1>13. CASE RescanCompares
  <2>1. timeline \subseteq timeline' /\ RowsKept
    BY <1>13, RowsPersist DEF RescanCompares, WithEvent, Next, SweepStep
  <2>2. \/ timeline' = timeline
        \/ /\ EventOf(rescan.previous, rescan.scan) # NoEvent
           /\ timeline' = timeline \cup {EventOf(rescan.previous, rescan.scan)}
    BY <1>13 DEF RescanCompares, WithEvent
  <2>3. \A e \in timeline' \ timeline :
            /\ e \in Event /\ Written(e.current) /\ (e.previous # 0 => Written(e.previous))
            /\ e.type = "policy_change" => RealChange(e)
    BY <1>13, <2>2, EventIsOK DEF RescanCompares, TInv, ActorsOK, ScanningOK, Scanning
  <2>4. TimelineOK'
    BY <2>1, <2>3, TimelineGrows DEF TInv
  <2>5. NoticesOK'
    BY <1>13, <2>1 DEF RescanCompares, TInv, NoticesOK, Real, noticeTables
  <2>6. /\ UNCHANGED <<sweep, adminScan>>
        /\ rescan' \in Scanning /\ rescan'.pc = "compared" /\ rescan'.previous = rescan.previous
        /\ rescan'.scan = rescan.scan /\ rescan'.event = rescan.event
    BY <1>13 DEF RescanCompares, TInv, TablesOK, ActorsOK, ScanningOK, Scanning, Idle
  <2>7. scans' = scans
    BY <1>13 DEF RescanCompares
  <2>8. ActorsOK'
    BY <1>13, <2>1, IdleFacts, ScanningFacts, <2>6, <2>7 DEF RescanCompares, TInv, TablesOK,
       ActorsOK, ScanningOK, RowsKept, Written
  <2>9. TablesOK'
    BY <1>13, <2>1, IdleFacts, ScanningFacts, <2>6, <2>7, <2>2, <2>3, DurationsAssumption
    DEF RescanCompares, TInv, TablesOK, NoticesOK, Real, ActorsOK, ScanningOK, RowsKept,
       Written, noticeTables
  <2>10. QED
    BY <2>4, <2>5, <2>8, <2>9 DEF TInv
<1>14. CASE RescanRecords
  <2>1. timeline \subseteq timeline' /\ RowsKept
    BY <1>14, RowsPersist DEF RescanRecords, WithEvent, Next, SweepStep
  <2>2. timeline' = timeline
    BY <1>14 DEF RescanRecords
  <2>3. \A e \in timeline' \ timeline :
            /\ e \in Event /\ Written(e.current) /\ (e.previous # 0 => Written(e.previous))
            /\ e.type = "policy_change" => RealChange(e)
    BY <2>2
  <2>4. TimelineOK'
    BY <2>1, <2>3, TimelineGrows DEF TInv
  <2>5. NoticesOK'
    BY <1>14, <2>1 DEF RescanRecords, TInv, NoticesOK, Real, noticeTables
  <2>6. /\ UNCHANGED <<sweep, adminScan>>
        /\ rescan' = Idle
    BY <1>14 DEF RescanRecords, TInv, TablesOK, ActorsOK, ScanningOK, Scanning, Idle
  <2>7. scans' = scans
    BY <1>14 DEF RescanRecords
  <2>8. ActorsOK'
    BY <1>14, <2>1, IdleFacts, ScanningFacts, <2>6, <2>7 DEF RescanRecords, TInv, TablesOK,
       ActorsOK, ScanningOK, RowsKept, Written
  <2>9. TablesOK'
    BY <1>14, <2>1, IdleFacts, ScanningFacts, <2>6, <2>7, <2>2, <2>3, DurationsAssumption
    DEF RescanRecords, TInv, TablesOK, NoticesOK, Real, ActorsOK, ScanningOK, RowsKept, Written,
       noticeTables
  <2>10. QED
    BY <2>4, <2>5, <2>8, <2>9 DEF TInv
<1>15. CASE StartAdminScan
  <2>1. timeline \subseteq timeline' /\ RowsKept
    BY <1>15, RowsPersist DEF StartAdminScan, WithEvent, Next, SweepStep
  <2>2. timeline' = timeline
    BY <1>15 DEF StartAdminScan
  <2>3. \A e \in timeline' \ timeline :
            /\ e \in Event /\ Written(e.current) /\ (e.previous # 0 => Written(e.previous))
            /\ e.type = "policy_change" => RealChange(e)
    BY <2>2
  <2>4. TimelineOK'
    BY <2>1, <2>3, TimelineGrows DEF TInv
  <2>5. NoticesOK'
    BY <1>15, <2>1 DEF StartAdminScan, TInv, NoticesOK, Real, noticeTables
  <2>6. /\ UNCHANGED <<sweep, rescan>>
        /\ adminScan' \in Scanning /\ adminScan'.pc = "auditing" /\ adminScan'.previous = 0
        /\ adminScan'.scan = Fresh /\ adminScan'.event = NoEvent
    BY <1>15, FreshIsUndrawn DEF StartAdminScan, TInv, TablesOK, ActorsOK, ScanningOK, Scanning,
       Idle, Undrawn
  <2>7. scans' = scans
    BY <1>15 DEF StartAdminScan
  <2>8. ActorsOK'
    BY <1>15, <2>1, IdleFacts, ScanningFacts, <2>6, <2>7, FreshIsUndrawn, EventIsOK
    DEF StartAdminScan, TInv, TablesOK, ActorsOK, ScanningOK, RowsKept, Written, Undrawn
  <2>9. TablesOK'
    BY <1>15, <2>1, IdleFacts, ScanningFacts, <2>6, <2>7, <2>2, <2>3, DurationsAssumption
    DEF StartAdminScan, TInv, TablesOK, NoticesOK, Real, ActorsOK, ScanningOK, RowsKept,
       Written, noticeTables
  <2>10. QED
    BY <2>4, <2>5, <2>8, <2>9 DEF TInv
<1>16. CASE AdminWritesScan
  <2>1. timeline \subseteq timeline' /\ RowsKept
    BY <1>16, RowsPersist DEF AdminWritesScan, WithEvent, Next, SweepStep
  <2>2. timeline' = timeline
    BY <1>16 DEF AdminWritesScan
  <2>3. \A e \in timeline' \ timeline :
            /\ e \in Event /\ Written(e.current) /\ (e.previous # 0 => Written(e.previous))
            /\ e.type = "policy_change" => RealChange(e)
    BY <2>2
  <2>4. TimelineOK'
    BY <2>1, <2>3, TimelineGrows DEF TInv
  <2>5. NoticesOK'
    BY <1>16, <2>1 DEF AdminWritesScan, TInv, NoticesOK, Real, noticeTables
  <2>6. /\ UNCHANGED <<sweep, rescan>>
        /\ adminScan' \in Scanning /\ adminScan'.pc = "compared" /\ adminScan'.previous = adminScan.previous
        /\ adminScan'.scan = adminScan.scan /\ adminScan'.event = adminScan.event
    BY <1>16 DEF AdminWritesScan, TInv, TablesOK, ActorsOK, ScanningOK, Scanning, Idle
  <2>7. /\ scans'[adminScan.scan] # NoScan /\ scans' \in [ScanIds -> ScanRow \cup {NoScan}]
        /\ \A i \in ScanIds \ {adminScan.scan} : scans'[i] = scans[i]
        /\ scans'[adminScan.scan].by = "admin"
    BY <1>16, DurationsAssumption DEF AdminWritesScan, WriteScan, NoScan, ScanRow, TInv,
       TablesOK, ActorsOK, ScanningOK
  <2>8. ActorsOK'
    <3>1. ScanningOK(sweep)'
      BY <1>16, <2>1, ScanningFacts, <2>6, <2>7, IdleFacts DEF AdminWritesScan, TInv, TablesOK,
         ActorsOK, ScanningOK, RowsKept, Written
    <3>2. ScanningOK(rescan)'
      BY <1>16, <2>1, ScanningFacts, <2>6, <2>7, IdleFacts DEF AdminWritesScan, TInv, TablesOK,
         ActorsOK, ScanningOK, RowsKept, Written
    <3>3. ScanningOK(adminScan)'
      <4>1. /\ adminScan \in Scanning /\ adminScan.pc = "auditing" /\ adminScan.scan \in ScanIds
            /\ adminScan.previous # 0 => Written(adminScan.previous)
        BY <1>16, IdleFacts DEF AdminWritesScan, TInv, ActorsOK, ScanningOK
      <4>2. scans'[adminScan.scan] # NoScan /\ (adminScan.previous # 0 => scans'[adminScan.previous] # NoScan)
        BY <2>1, <2>6, <2>7, <4>1, ScanningFacts DEF RowsKept, Written
      <4>3. QED
        BY <2>6, <4>1, <4>2, IdleFacts DEF ScanningOK, Written
    <3>4. QED
      BY <1>16, <2>1, ScanningFacts, <2>6, <2>7, <2>2, <3>1, <3>2, <3>3
      DEF AdminWritesScan, TInv, ActorsOK, ScanningOK, RowsKept, Written
  <2>9. TablesOK'
    BY <1>16, <2>1, IdleFacts, ScanningFacts, <2>6, <2>7, <2>2, <2>3, DurationsAssumption
    DEF AdminWritesScan, TInv, TablesOK, NoticesOK, Real, ActorsOK, ScanningOK, RowsKept,
       Written, noticeTables
  <2>10. QED
    BY <2>4, <2>5, <2>8, <2>9 DEF TInv
<1>17. CASE AdminRecords
  <2>1. timeline \subseteq timeline' /\ RowsKept
    BY <1>17, RowsPersist DEF AdminRecords, WithEvent, Next, SweepStep
  <2>2. timeline' = timeline
    BY <1>17 DEF AdminRecords
  <2>3. \A e \in timeline' \ timeline :
            /\ e \in Event /\ Written(e.current) /\ (e.previous # 0 => Written(e.previous))
            /\ e.type = "policy_change" => RealChange(e)
    BY <2>2
  <2>4. TimelineOK'
    BY <2>1, <2>3, TimelineGrows DEF TInv
  <2>5. NoticesOK'
    BY <1>17, <2>1 DEF AdminRecords, TInv, NoticesOK, Real, noticeTables
  <2>6. /\ UNCHANGED <<sweep, rescan>>
        /\ adminScan' = Idle
    BY <1>17 DEF AdminRecords, TInv, TablesOK, ActorsOK, ScanningOK, Scanning, Idle
  <2>7. scans' = scans
    BY <1>17 DEF AdminRecords
  <2>8. ActorsOK'
    BY <1>17, <2>1, IdleFacts, ScanningFacts, <2>6, <2>7 DEF AdminRecords, TInv, TablesOK,
       ActorsOK, ScanningOK, RowsKept, Written
  <2>9. TablesOK'
    BY <1>17, <2>1, IdleFacts, ScanningFacts, <2>6, <2>7, <2>2, <2>3, DurationsAssumption
    DEF AdminRecords, TInv, TablesOK, NoticesOK, Real, ActorsOK, ScanningOK, RowsKept, Written,
       noticeTables
  <2>10. QED
    BY <2>4, <2>5, <2>8, <2>9 DEF TInv
<1>18. ASSUME NEW j \in Reconciliations, StartReconciliation(j)
      PROVE  TInv'
  <2>1. timeline \subseteq timeline' /\ RowsKept
    BY <1>18, RowsPersist DEF StartReconciliation, WithEvent, Next, SweepStep
  <2>2. timeline' = timeline
    BY <1>18 DEF StartReconciliation
  <2>3. \A e \in timeline' \ timeline :
            /\ e \in Event /\ Written(e.current) /\ (e.previous # 0 => Written(e.previous))
            /\ e.type = "policy_change" => RealChange(e)
    BY <2>2
  <2>4. TimelineOK'
    BY <2>1, <2>3, TimelineGrows DEF TInv
  <2>5. NoticesOK'
    BY <1>18, <2>2 DEF StartReconciliation, TInv, NoticesOK, Real, Candidates, MeritsNotice,
       TablesOK, noticeTables
  <2>6. UNCHANGED <<sweep, rescan, adminScan>>
    BY <1>18 DEF StartReconciliation, actors
  <2>7. scans' = scans
    BY <1>18 DEF StartReconciliation
  <2>8. ActorsOK'
    BY <1>18, <2>1, IdleFacts, ScanningFacts, <2>6, <2>7 DEF StartReconciliation, TInv,
       TablesOK, ActorsOK, ScanningOK, RowsKept, Written
  <2>9. TablesOK'
    BY <1>18, <2>1, IdleFacts, ScanningFacts, <2>6, <2>7, <2>2, <2>3, DurationsAssumption
    DEF StartReconciliation, TInv, TablesOK, NoticesOK, Real, ActorsOK, ScanningOK, RowsKept,
       Written, actors, noticeTables, Candidates
  <2>10. QED
    BY <2>4, <2>5, <2>8, <2>9 DEF TInv
<1>19. ASSUME NEW j \in Reconciliations, ReconcileNext(j)
      PROVE  TInv'
  <2>1. timeline \subseteq timeline' /\ RowsKept
    BY <1>19, RowsPersist DEF ReconcileNext, WithEvent, Next, SweepStep
  <2>2. timeline' = timeline
    BY <1>19 DEF ReconcileNext
  <2>3. \A e \in timeline' \ timeline :
            /\ e \in Event /\ Written(e.current) /\ (e.previous # 0 => Written(e.previous))
            /\ e.type = "policy_change" => RealChange(e)
    BY <2>2
  <2>4. TimelineOK'
    BY <2>1, <2>3, TimelineGrows DEF TInv
  <2>5. NoticesOK'
    BY <1>19, <2>2 DEF ReconcileNext, TInv, NoticesOK, Real, CreateNotificationOnce, TablesOK,
       noticeTables
  <2>6. UNCHANGED <<sweep, rescan, adminScan>>
    BY <1>19 DEF ReconcileNext, actors
  <2>7. scans' = scans
    BY <1>19 DEF ReconcileNext
  <2>8. ActorsOK'
    BY <1>19, <2>1, IdleFacts, ScanningFacts, <2>6, <2>7 DEF ReconcileNext, TInv, TablesOK,
       ActorsOK, ScanningOK, RowsKept, Written
  <2>9. TablesOK'
    BY <1>19, <2>1, IdleFacts, ScanningFacts, <2>6, <2>7, <2>2, <2>3, DurationsAssumption
    DEF ReconcileNext, TInv, TablesOK, NoticesOK, Real, ActorsOK, ScanningOK, RowsKept, Written,
       actors, noticeTables
  <2>10. QED
    BY <2>4, <2>5, <2>8, <2>9 DEF TInv
<1>20. ASSUME NEW j \in Reconciliations, ReconciliationDies(j)
      PROVE  TInv'
  <2>1. timeline \subseteq timeline' /\ RowsKept
    BY <1>20, RowsPersist DEF ReconciliationDies, WithEvent, Next, SweepStep
  <2>2. timeline' = timeline
    BY <1>20 DEF ReconciliationDies
  <2>3. \A e \in timeline' \ timeline :
            /\ e \in Event /\ Written(e.current) /\ (e.previous # 0 => Written(e.previous))
            /\ e.type = "policy_change" => RealChange(e)
    BY <2>2
  <2>4. TimelineOK'
    BY <2>1, <2>3, TimelineGrows DEF TInv
  <2>5. NoticesOK'
    BY <1>20, <2>2 DEF ReconciliationDies, TInv, NoticesOK, Real, TablesOK, noticeTables
  <2>6. UNCHANGED <<sweep, rescan, adminScan>>
    BY <1>20 DEF ReconciliationDies, actors
  <2>7. scans' = scans
    BY <1>20 DEF ReconciliationDies
  <2>8. ActorsOK'
    BY <1>20, <2>1, IdleFacts, ScanningFacts, <2>6, <2>7 DEF ReconciliationDies, TInv, TablesOK,
       ActorsOK, ScanningOK, RowsKept, Written
  <2>9. TablesOK'
    BY <1>20, <2>1, IdleFacts, ScanningFacts, <2>6, <2>7, <2>2, <2>3, DurationsAssumption
    DEF ReconciliationDies, TInv, TablesOK, NoticesOK, Real, ActorsOK, ScanningOK, RowsKept,
       Written, actors, noticeTables
  <2>10. QED
    BY <2>4, <2>5, <2>8, <2>9 DEF TInv
<1>21. ASSUME NEW gone \in timeline, PurgeReadNotice(gone)
      PROVE  TInv'
  <2>1. timeline \subseteq timeline' /\ RowsKept
    BY <1>21, RowsPersist DEF PurgeReadNotice, WithEvent, Next, SweepStep
  <2>2. timeline' = timeline
    BY <1>21 DEF PurgeReadNotice
  <2>3. \A e \in timeline' \ timeline :
            /\ e \in Event /\ Written(e.current) /\ (e.previous # 0 => Written(e.previous))
            /\ e.type = "policy_change" => RealChange(e)
    BY <2>2
  <2>4. TimelineOK'
    BY <2>1, <2>3, TimelineGrows DEF TInv
  <2>5. NoticesOK'
    BY <1>21, <2>2 DEF PurgeReadNotice, TInv, NoticesOK, Real
  <2>6. UNCHANGED <<sweep, rescan, adminScan>>
    BY <1>21 DEF PurgeReadNotice, actors
  <2>7. scans' = scans
    BY <1>21 DEF PurgeReadNotice
  <2>8. ActorsOK'
    BY <1>21, <2>1, IdleFacts, ScanningFacts, <2>6, <2>7 DEF PurgeReadNotice, TInv, TablesOK,
       ActorsOK, ScanningOK, RowsKept, Written
  <2>9. TablesOK'
    BY <1>21, <2>1, IdleFacts, ScanningFacts, <2>6, <2>7, <2>2, <2>3, DurationsAssumption
    DEF PurgeReadNotice, TInv, TablesOK, NoticesOK, Real, ActorsOK, ScanningOK, RowsKept,
       Written, actors
  <2>10. QED
    BY <2>4, <2>5, <2>8, <2>9 DEF TInv
<1>22. CASE SoftDeleteDomain
  <2>1. timeline \subseteq timeline' /\ RowsKept
    BY <1>22, RowsPersist DEF SoftDeleteDomain, WithEvent, Next, SweepStep
  <2>2. timeline' = timeline
    BY <1>22 DEF SoftDeleteDomain
  <2>3. \A e \in timeline' \ timeline :
            /\ e \in Event /\ Written(e.current) /\ (e.previous # 0 => Written(e.previous))
            /\ e.type = "policy_change" => RealChange(e)
    BY <2>2
  <2>4. TimelineOK'
    BY <2>1, <2>3, TimelineGrows DEF TInv
  <2>5. NoticesOK'
    BY <1>22, <2>1 DEF SoftDeleteDomain, TInv, NoticesOK, Real, noticeTables
  <2>6. UNCHANGED <<sweep, rescan, adminScan>>
    BY <1>22 DEF SoftDeleteDomain, actors
  <2>7. scans' = scans
    BY <1>22 DEF SoftDeleteDomain
  <2>8. ActorsOK'
    BY <1>22, <2>1, IdleFacts, ScanningFacts, <2>6, <2>7 DEF SoftDeleteDomain, TInv, TablesOK,
       ActorsOK, ScanningOK, RowsKept, Written
  <2>9. TablesOK'
    BY <1>22, <2>1, IdleFacts, ScanningFacts, <2>6, <2>7, <2>2, <2>3, DurationsAssumption
    DEF SoftDeleteDomain, TInv, TablesOK, NoticesOK, Real, ActorsOK, ScanningOK, RowsKept,
       Written, actors, noticeTables
  <2>10. QED
    BY <2>4, <2>5, <2>8, <2>9 DEF TInv
<1>23. CASE Tick
  <2>1. timeline \subseteq timeline' /\ RowsKept
    BY <1>23, RowsPersist DEF Tick, WithEvent, Next, SweepStep
  <2>2. timeline' = timeline
    BY <1>23 DEF Tick
  <2>3. \A e \in timeline' \ timeline :
            /\ e \in Event /\ Written(e.current) /\ (e.previous # 0 => Written(e.previous))
            /\ e.type = "policy_change" => RealChange(e)
    BY <2>2
  <2>4. TimelineOK'
    BY <2>1, <2>3, TimelineGrows DEF TInv
  <2>5. NoticesOK'
    BY <1>23, <2>1 DEF Tick, TInv, NoticesOK, Real, noticeTables
  <2>6. UNCHANGED <<sweep, rescan, adminScan>>
    BY <1>23 DEF Tick, actors
  <2>7. sweep = Idle /\ rescan = Idle /\ adminScan = Idle
    BY <1>23 DEF Tick
  <2>8. ActorsOK'
    BY <1>23, <2>1, IdleFacts, ScanningFacts, <2>6, <2>7 DEF Tick, TInv, TablesOK, ActorsOK,
       ScanningOK, RowsKept, Written
  <2>9. TablesOK'
    <3>1. ASSUME NEW i \in ScanIds
          PROVE  scans'[i] \in ScanRow \cup {NoScan}
      <4>1. scans'[i] = IF Written(i) /\ scans[i].age < MaxAge
                        THEN [scans[i] EXCEPT !.age = @ + 1] ELSE scans[i]
        BY <1>23 DEF Tick
      <4>2. CASE Written(i) /\ scans[i].age < MaxAge
        <5>1. scans[i] \in ScanRow /\ scans[i].age + 1 \in 0..MaxAge
          BY <4>2, DurationsAssumption DEF TInv, TablesOK, Written, ScanRow
        <5>2. QED
          BY <4>1, <4>2, <5>1 DEF ScanRow
      <4>3. CASE ~(Written(i) /\ scans[i].age < MaxAge)
        BY <4>1, <4>3 DEF TInv, TablesOK
      <4>4. QED
        BY <4>2, <4>3
    <3>2. scans' \in [ScanIds -> ScanRow \cup {NoScan}]
      BY <1>23, <3>1 DEF Tick
    <3>3. cron' \in 0..(Day - 1)
      BY <1>23, DurationsAssumption DEF Tick, TInv, TablesOK
    <3>4. lastScan' = 0 \/ (lastScan' \in ScanIds /\ Written(lastScan)')
      BY <1>23, <2>1 DEF Tick, TInv, TablesOK, RowsKept
    <3>5. QED
      BY <1>23, <3>2, <3>3, <3>4 DEF Tick, TInv, TablesOK
  <2>10. QED
    BY <2>4, <2>5, <2>8, <2>9 DEF TInv
<1>24. CASE UNCHANGED vars
  <2>1. RowsKept
    BY RowsPersist
  <2>2. QED
    BY <1>24 DEF vars, TInv, TablesOK, TimelineOK, NoticesOK, Real, ActorsOK, ScanningOK,
       Written, RealChange
<1>25. QED
  BY <1>1, <1>2, <1>3, <1>4, <1>5, <1>6, <1>7, <1>8, <1>9, <1>10, <1>11, <1>12, <1>13, <1>14,
     <1>15, <1>16, <1>17, <1>18, <1>19, <1>20, <1>21, <1>22, <1>23, <1>24
  DEF Next, SweepStep

-----------------------------------------------------------------------------
(* One event for a scan *)

\* A comparison gives the same event whenever it is made.
LEMMA EventStable ==
    ASSUME TInv, RowsKept, NEW p \in {0} \cup ScanIds, NEW c \in ScanIds,
           Written(c), p # 0 => Written(p)
    PROVE  EventOf(p, c)' = EventOf(p, c)
<1>1. /\ Written(c)' /\ scans'[c].ok = scans[c].ok /\ scans'[c].content = scans[c].content
      /\ p # 0 => scans'[p].ok = scans[p].ok /\ scans'[p].content = scans[p].content
  BY DEF RowsKept
<1>2. QED
  BY <1>1 DEF EventOf, Comparison

\* A step that adds no event, and brings no scan to its comparison that has one.
LEMMA EventsStay ==
    ASSUME TInv, EventsOfScans, RowsKept, timeline' = timeline,
           \/ \A e \in timeline : e.current # sweep'.scan
           \/ /\ sweep'.scan = sweep.scan /\ sweep'.previous = sweep.previous
              /\ sweep'.pc = "written" => sweep.pc = "written",
           \/ \A e \in timeline : e.current # rescan'.scan
           \/ /\ rescan'.scan = rescan.scan
              /\ rescan'.pc = "written" => rescan.pc = "written"
    PROVE  EventsOfScans'
<1>1. ASSUME NEW e \in timeline, e.current = sweep'.scan
      PROVE  sweep'.pc # "written" /\ e = EventOf(sweep.previous, sweep.scan)'
  <2>1. /\ sweep'.scan = sweep.scan /\ sweep'.previous = sweep.previous
        /\ sweep'.pc = "written" => sweep.pc = "written"
    BY <1>1
  <2>2. sweep'.pc # "written" /\ e = EventOf(sweep.previous, sweep.scan)
    BY <1>1, <2>1 DEF EventsOfScans
  <2>3. PICK p \in {0} \cup ScanIds, c \in ScanIds : p = sweep.previous /\ c = sweep.scan
    BY <1>1, <2>1, ScanningFacts DEF TInv, ActorsOK, ScanningOK, TablesOK, Event
  <2>4. EventOf(p, c)' = EventOf(p, c)
    BY <1>1, <2>1, <2>3, EventStable DEF TInv, ActorsOK, ScanningOK, TimelineOK
  <2>5. QED
    BY <2>1, <2>2, <2>3, <2>4 DEF EventOf, Comparison, Written
<1>2. ASSUME NEW e \in timeline, e.current = rescan'.scan
      PROVE  rescan'.pc # "written"
  BY <1>2 DEF EventsOfScans
<1>3. QED
  BY <1>1, <1>2 DEF EventsOfScans, OneEventPerScan

LEMMA EventsStep == TInv /\ EventsOfScans /\ [Next]_vars => EventsOfScans'
<1> SUFFICES ASSUME TInv, EventsOfScans, [Next]_vars
             PROVE  EventsOfScans'
  OBVIOUS
<1>a. RowsKept
  BY RowsPersist
<1>1. CASE ClaimDomain
  <2>1. \/ \A e \in timeline : e.current # sweep'.scan
            \/ /\ sweep'.scan = sweep.scan /\ sweep'.previous = sweep.previous
               /\ sweep'.pc = "written" => sweep.pc = "written"
    BY <1>1, IdleFacts, FreshIsUndrawn DEF ClaimDomain, TInv, TablesOK, TimelineOK, ActorsOK,
       ScanningOK, Undrawn, Idle, Scanning, Event
  <2>2. \/ \A e \in timeline : e.current # rescan'.scan
            \/ /\ rescan'.scan = rescan.scan
               /\ rescan'.pc = "written" => rescan.pc = "written"
    BY <1>1, IdleFacts, FreshIsUndrawn DEF ClaimDomain, TInv, TablesOK, TimelineOK, ActorsOK,
       ScanningOK, Undrawn, Idle, Scanning, Event
  <2>3. timeline' = timeline
    BY <1>1 DEF ClaimDomain
  <2>4. QED
    BY <1>a, <2>1, <2>2, <2>3, EventsStay
<1>2. CASE SweepWritesScan
  <2>1. \/ \A e \in timeline : e.current # sweep'.scan
            \/ /\ sweep'.scan = sweep.scan /\ sweep'.previous = sweep.previous
               /\ sweep'.pc = "written" => sweep.pc = "written"
    BY <1>2, IdleFacts DEF SweepWritesScan, TInv, TablesOK, TimelineOK, ActorsOK, ScanningOK,
       Idle, Scanning, Event
  <2>2. \/ \A e \in timeline : e.current # rescan'.scan
            \/ /\ rescan'.scan = rescan.scan
               /\ rescan'.pc = "written" => rescan.pc = "written"
    BY <1>2, IdleFacts DEF SweepWritesScan, TInv, TablesOK, TimelineOK, ActorsOK, ScanningOK,
       Idle, Scanning, Event
  <2>3. timeline' = timeline
    BY <1>2 DEF SweepWritesScan
  <2>4. QED
    BY <1>a, <2>1, <2>2, <2>3, EventsStay
<1>3. CASE SweepCompares
  <2>1. PICK p \in {0} \cup ScanIds, c \in ScanIds :
            p = sweep.previous /\ c = sweep.scan /\ Written(c) /\ (p # 0 => Written(p))
    BY <1>3, ScanningFacts DEF SweepCompares, TInv, ActorsOK, ScanningOK
  <2>2. UNCHANGED <<rescan, adminScan, scans>> /\ sweep'.pc = "compared" /\ sweep'.previous = p /\ sweep'.scan = c
    BY <1>3, <2>1 DEF SweepCompares, TInv, ActorsOK, ScanningOK, Scanning
  <2>3. \A e \in timeline : e.current # c
    BY <1>3, <2>1 DEF SweepCompares, EventsOfScans
  <2>4. \/ timeline' = timeline
        \/ /\ EventOf(p, c) # NoEvent /\ EventOf(p, c).current = c
           /\ timeline' = timeline \cup {EventOf(p, c)}
    BY <1>3, <2>1, EventIsOK DEF SweepCompares, WithEvent, TInv
  <2>5. EventOf(p, c)' = EventOf(p, c)
    BY <1>a, <2>1, EventStable
  <2>6. c # rescan.scan
    BY <1>3, <2>1 DEF SweepCompares, TInv, ActorsOK
  <2>7. \A e \in timeline' : e.current = sweep'.scan => e = EventOf(sweep.previous, sweep.scan)'
    BY <2>1, <2>2, <2>3, <2>4, <2>5 DEF EventOf, Comparison, Written
  <2>8. QED
    BY <2>2, <2>3, <2>4, <2>6, <2>7 DEF EventsOfScans, OneEventPerScan
<1>4. CASE SweepRecords
  <2>1. \/ \A e \in timeline : e.current # sweep'.scan
            \/ /\ sweep'.scan = sweep.scan /\ sweep'.previous = sweep.previous
               /\ sweep'.pc = "written" => sweep.pc = "written"
    BY <1>4, IdleFacts DEF SweepRecords, TInv, TablesOK, TimelineOK, ActorsOK, ScanningOK, Idle,
       Scanning, Event
  <2>2. \/ \A e \in timeline : e.current # rescan'.scan
            \/ /\ rescan'.scan = rescan.scan
               /\ rescan'.pc = "written" => rescan.pc = "written"
    BY <1>4, IdleFacts DEF SweepRecords, TInv, TablesOK, TimelineOK, ActorsOK, ScanningOK, Idle,
       Scanning, Event
  <2>3. timeline' = timeline
    BY <1>4 DEF SweepRecords
  <2>4. QED
    BY <1>a, <2>1, <2>2, <2>3, EventsStay
<1>5. CASE SweepNotifies
  <2>1. \/ \A e \in timeline : e.current # sweep'.scan
            \/ /\ sweep'.scan = sweep.scan /\ sweep'.previous = sweep.previous
               /\ sweep'.pc = "written" => sweep.pc = "written"
    BY <1>5, IdleFacts DEF SweepNotifies, TInv, TablesOK, TimelineOK, ActorsOK, ScanningOK,
       Idle, Scanning, Event
  <2>2. \/ \A e \in timeline : e.current # rescan'.scan
            \/ /\ rescan'.scan = rescan.scan
               /\ rescan'.pc = "written" => rescan.pc = "written"
    BY <1>5, IdleFacts DEF SweepNotifies, TInv, TablesOK, TimelineOK, ActorsOK, ScanningOK,
       Idle, Scanning, Event
  <2>3. timeline' = timeline
    BY <1>5 DEF SweepNotifies
  <2>4. QED
    BY <1>a, <2>1, <2>2, <2>3, EventsStay
<1>6. CASE SweepThrows
  <2>1. \/ \A e \in timeline : e.current # sweep'.scan
            \/ /\ sweep'.scan = sweep.scan /\ sweep'.previous = sweep.previous
               /\ sweep'.pc = "written" => sweep.pc = "written"
    BY <1>6, IdleFacts DEF SweepThrows, TInv, TablesOK, TimelineOK, ActorsOK, ScanningOK, Idle,
       Scanning, Event
  <2>2. \/ \A e \in timeline : e.current # rescan'.scan
            \/ /\ rescan'.scan = rescan.scan
               /\ rescan'.pc = "written" => rescan.pc = "written"
    BY <1>6, IdleFacts DEF SweepThrows, TInv, TablesOK, TimelineOK, ActorsOK, ScanningOK, Idle,
       Scanning, Event
  <2>3. timeline' = timeline
    BY <1>6 DEF SweepThrows
  <2>4. QED
    BY <1>a, <2>1, <2>2, <2>3, EventsStay
<1>7. CASE WriteFailedRecord
  <2>1. \/ \A e \in timeline : e.current # sweep'.scan
            \/ /\ sweep'.scan = sweep.scan /\ sweep'.previous = sweep.previous
               /\ sweep'.pc = "written" => sweep.pc = "written"
    BY <1>7, IdleFacts DEF WriteFailedRecord, actors, TInv, TablesOK, TimelineOK, ActorsOK,
       ScanningOK, Idle, Scanning, Event
  <2>2. \/ \A e \in timeline : e.current # rescan'.scan
            \/ /\ rescan'.scan = rescan.scan
               /\ rescan'.pc = "written" => rescan.pc = "written"
    BY <1>7, IdleFacts DEF WriteFailedRecord, actors, TInv, TablesOK, TimelineOK, ActorsOK,
       ScanningOK, Idle, Scanning, Event
  <2>3. timeline' = timeline
    BY <1>7 DEF WriteFailedRecord
  <2>4. QED
    BY <1>a, <2>1, <2>2, <2>3, EventsStay
<1>8. CASE SweepComparesAgain
  <2>1. /\ sweep'.pc = "recompared" /\ sweep'.scan = sweep.scan /\ sweep'.previous = sweep.previous
        /\ UNCHANGED <<rescan, scans>>
    BY <1>8 DEF SweepComparesAgain, TInv, ActorsOK, ScanningOK, Scanning
  <2>2. PICK p \in {0} \cup ScanIds, c \in ScanIds : p = sweep.previous /\ c = sweep.scan
    BY <1>8, ScanningFacts DEF SweepComparesAgain, TInv, ActorsOK, ScanningOK
  <2>3. \/ timeline' = timeline
        \/ /\ EventOf(p, c) # NoEvent /\ EventOf(p, c).current = c
           /\ timeline' = timeline \cup {EventOf(p, c)}
    BY <1>8, <2>2, EventIsOK DEF SweepComparesAgain, PreviousOfFailure, WithEvent, TInv,
       ActorsOK, ScanningOK
  <2>4. EventOf(sweep.previous, sweep.scan)' = EventOf(p, c)
    BY <2>1, <2>2 DEF EventOf, Comparison, Written
  <2>5. c # rescan.scan
    BY <1>8, <2>2 DEF SweepComparesAgain, TInv, ActorsOK
  <2>6. QED
    BY <2>1, <2>2, <2>3, <2>4, <2>5 DEF EventsOfScans, OneEventPerScan
<1>9. CASE RecordPlatformFailure
  <2>1. \/ \A e \in timeline : e.current # sweep'.scan
            \/ /\ sweep'.scan = sweep.scan /\ sweep'.previous = sweep.previous
               /\ sweep'.pc = "written" => sweep.pc = "written"
    BY <1>9, IdleFacts DEF RecordPlatformFailure, TInv, TablesOK, TimelineOK, ActorsOK,
       ScanningOK, Idle, Scanning, Event
  <2>2. \/ \A e \in timeline : e.current # rescan'.scan
            \/ /\ rescan'.scan = rescan.scan
               /\ rescan'.pc = "written" => rescan.pc = "written"
    BY <1>9, IdleFacts DEF RecordPlatformFailure, TInv, TablesOK, TimelineOK, ActorsOK,
       ScanningOK, Idle, Scanning, Event
  <2>3. timeline' = timeline
    BY <1>9 DEF RecordPlatformFailure
  <2>4. QED
    BY <1>a, <2>1, <2>2, <2>3, EventsStay
<1>10. CASE SweepDies
  <2>1. \/ \A e \in timeline : e.current # sweep'.scan
            \/ /\ sweep'.scan = sweep.scan /\ sweep'.previous = sweep.previous
               /\ sweep'.pc = "written" => sweep.pc = "written"
    BY <1>10, IdleFacts DEF SweepDies, TInv, TablesOK, TimelineOK, ActorsOK, ScanningOK, Idle,
       Scanning, Event
  <2>2. \/ \A e \in timeline : e.current # rescan'.scan
            \/ /\ rescan'.scan = rescan.scan
               /\ rescan'.pc = "written" => rescan.pc = "written"
    BY <1>10, IdleFacts DEF SweepDies, TInv, TablesOK, TimelineOK, ActorsOK, ScanningOK, Idle,
       Scanning, Event
  <2>3. timeline' = timeline
    BY <1>10 DEF SweepDies
  <2>4. QED
    BY <1>a, <2>1, <2>2, <2>3, EventsStay
<1>11. CASE StartRescan
  <2>1. \/ \A e \in timeline : e.current # sweep'.scan
            \/ /\ sweep'.scan = sweep.scan /\ sweep'.previous = sweep.previous
               /\ sweep'.pc = "written" => sweep.pc = "written"
    BY <1>11, IdleFacts, FreshIsUndrawn DEF StartRescan, TInv, TablesOK, TimelineOK, ActorsOK,
       ScanningOK, Undrawn, Idle, Scanning, Event
  <2>2. \/ \A e \in timeline : e.current # rescan'.scan
            \/ /\ rescan'.scan = rescan.scan
               /\ rescan'.pc = "written" => rescan.pc = "written"
    BY <1>11, IdleFacts, FreshIsUndrawn DEF StartRescan, TInv, TablesOK, TimelineOK, ActorsOK,
       ScanningOK, Undrawn, Idle, Scanning, Event
  <2>3. timeline' = timeline
    BY <1>11 DEF StartRescan
  <2>4. QED
    BY <1>a, <2>1, <2>2, <2>3, EventsStay
<1>12. CASE RescanWritesScan
  <2>1. \/ \A e \in timeline : e.current # sweep'.scan
            \/ /\ sweep'.scan = sweep.scan /\ sweep'.previous = sweep.previous
               /\ sweep'.pc = "written" => sweep.pc = "written"
    BY <1>12, IdleFacts DEF RescanWritesScan, TInv, TablesOK, TimelineOK, ActorsOK, ScanningOK,
       Idle, Scanning, Event
  <2>2. \/ \A e \in timeline : e.current # rescan'.scan
            \/ /\ rescan'.scan = rescan.scan
               /\ rescan'.pc = "written" => rescan.pc = "written"
    BY <1>12, IdleFacts DEF RescanWritesScan, TInv, TablesOK, TimelineOK, ActorsOK, ScanningOK,
       Idle, Scanning, Event
  <2>3. timeline' = timeline
    BY <1>12 DEF RescanWritesScan
  <2>4. QED
    BY <1>a, <2>1, <2>2, <2>3, EventsStay
<1>13. CASE RescanCompares
  <2>1. PICK p \in {0} \cup ScanIds, c \in ScanIds :
            p = rescan.previous /\ c = rescan.scan /\ Written(c) /\ (p # 0 => Written(p))
    BY <1>13, ScanningFacts DEF RescanCompares, TInv, ActorsOK, ScanningOK
  <2>2. UNCHANGED <<sweep, adminScan, scans>> /\ rescan'.pc = "compared" /\ rescan'.previous = p /\ rescan'.scan = c
    BY <1>13, <2>1 DEF RescanCompares, TInv, ActorsOK, ScanningOK, Scanning
  <2>3. \A e \in timeline : e.current # c
    BY <1>13, <2>1 DEF RescanCompares, EventsOfScans
  <2>4. \/ timeline' = timeline
        \/ /\ EventOf(p, c) # NoEvent /\ EventOf(p, c).current = c
           /\ timeline' = timeline \cup {EventOf(p, c)}
    BY <1>13, <2>1, EventIsOK DEF RescanCompares, WithEvent, TInv
  <2>5. EventOf(p, c)' = EventOf(p, c)
    BY <1>a, <2>1, EventStable
  <2>6. c # sweep.scan
    BY <1>13, <2>1, IdleFacts DEF RescanCompares, TInv, ActorsOK, ScanningOK
  <2>7. EventOf(sweep.previous, sweep.scan)' = EventOf(sweep.previous, sweep.scan)
    BY <2>2 DEF EventOf, Comparison, Written
  <2>8. QED
    BY <2>2, <2>3, <2>4, <2>6, <2>7 DEF EventsOfScans, OneEventPerScan
<1>14. CASE RescanRecords
  <2>1. \/ \A e \in timeline : e.current # sweep'.scan
            \/ /\ sweep'.scan = sweep.scan /\ sweep'.previous = sweep.previous
               /\ sweep'.pc = "written" => sweep.pc = "written"
    BY <1>14, IdleFacts DEF RescanRecords, TInv, TablesOK, TimelineOK, ActorsOK, ScanningOK,
       Idle, Scanning, Event
  <2>2. \/ \A e \in timeline : e.current # rescan'.scan
            \/ /\ rescan'.scan = rescan.scan
               /\ rescan'.pc = "written" => rescan.pc = "written"
    BY <1>14, IdleFacts DEF RescanRecords, TInv, TablesOK, TimelineOK, ActorsOK, ScanningOK,
       Idle, Scanning, Event
  <2>3. timeline' = timeline
    BY <1>14 DEF RescanRecords
  <2>4. QED
    BY <1>a, <2>1, <2>2, <2>3, EventsStay
<1>15. CASE StartAdminScan
  <2>1. \/ \A e \in timeline : e.current # sweep'.scan
            \/ /\ sweep'.scan = sweep.scan /\ sweep'.previous = sweep.previous
               /\ sweep'.pc = "written" => sweep.pc = "written"
    BY <1>15, IdleFacts DEF StartAdminScan, TInv, TablesOK, TimelineOK, ActorsOK, ScanningOK,
       Undrawn, Idle, Scanning, Event
  <2>2. \/ \A e \in timeline : e.current # rescan'.scan
            \/ /\ rescan'.scan = rescan.scan
               /\ rescan'.pc = "written" => rescan.pc = "written"
    BY <1>15, IdleFacts DEF StartAdminScan, TInv, TablesOK, TimelineOK, ActorsOK, ScanningOK,
       Undrawn, Idle, Scanning, Event
  <2>3. timeline' = timeline
    BY <1>15 DEF StartAdminScan
  <2>4. QED
    BY <1>a, <2>1, <2>2, <2>3, EventsStay
<1>16. CASE AdminWritesScan
  <2>1. \/ \A e \in timeline : e.current # sweep'.scan
            \/ /\ sweep'.scan = sweep.scan /\ sweep'.previous = sweep.previous
               /\ sweep'.pc = "written" => sweep.pc = "written"
    BY <1>16, IdleFacts DEF AdminWritesScan, TInv, TablesOK, TimelineOK, ActorsOK, ScanningOK,
       Idle, Scanning, Event
  <2>2. \/ \A e \in timeline : e.current # rescan'.scan
            \/ /\ rescan'.scan = rescan.scan
               /\ rescan'.pc = "written" => rescan.pc = "written"
    BY <1>16, IdleFacts DEF AdminWritesScan, TInv, TablesOK, TimelineOK, ActorsOK, ScanningOK,
       Idle, Scanning, Event
  <2>3. timeline' = timeline
    BY <1>16 DEF AdminWritesScan
  <2>4. QED
    BY <1>a, <2>1, <2>2, <2>3, EventsStay
<1>17. CASE AdminRecords
  <2>1. \/ \A e \in timeline : e.current # sweep'.scan
            \/ /\ sweep'.scan = sweep.scan /\ sweep'.previous = sweep.previous
               /\ sweep'.pc = "written" => sweep.pc = "written"
    BY <1>17, IdleFacts DEF AdminRecords, TInv, TablesOK, TimelineOK, ActorsOK, ScanningOK,
       Idle, Scanning, Event
  <2>2. \/ \A e \in timeline : e.current # rescan'.scan
            \/ /\ rescan'.scan = rescan.scan
               /\ rescan'.pc = "written" => rescan.pc = "written"
    BY <1>17, IdleFacts DEF AdminRecords, TInv, TablesOK, TimelineOK, ActorsOK, ScanningOK,
       Idle, Scanning, Event
  <2>3. timeline' = timeline
    BY <1>17 DEF AdminRecords
  <2>4. QED
    BY <1>a, <2>1, <2>2, <2>3, EventsStay
<1>18. ASSUME NEW j \in Reconciliations, StartReconciliation(j)
      PROVE  EventsOfScans'
  <2>1. \/ \A e \in timeline : e.current # sweep'.scan
            \/ /\ sweep'.scan = sweep.scan /\ sweep'.previous = sweep.previous
               /\ sweep'.pc = "written" => sweep.pc = "written"
    BY <1>18, IdleFacts DEF StartReconciliation, actors, TInv, TablesOK, TimelineOK, ActorsOK,
       ScanningOK, Idle, Scanning, Event
  <2>2. \/ \A e \in timeline : e.current # rescan'.scan
            \/ /\ rescan'.scan = rescan.scan
               /\ rescan'.pc = "written" => rescan.pc = "written"
    BY <1>18, IdleFacts DEF StartReconciliation, actors, TInv, TablesOK, TimelineOK, ActorsOK,
       ScanningOK, Idle, Scanning, Event
  <2>3. timeline' = timeline
    BY <1>18 DEF StartReconciliation
  <2>4. QED
    BY <1>a, <2>1, <2>2, <2>3, EventsStay
<1>19. ASSUME NEW j \in Reconciliations, ReconcileNext(j)
      PROVE  EventsOfScans'
  <2>1. \/ \A e \in timeline : e.current # sweep'.scan
            \/ /\ sweep'.scan = sweep.scan /\ sweep'.previous = sweep.previous
               /\ sweep'.pc = "written" => sweep.pc = "written"
    BY <1>19, IdleFacts DEF ReconcileNext, actors, TInv, TablesOK, TimelineOK, ActorsOK,
       ScanningOK, Idle, Scanning, Event
  <2>2. \/ \A e \in timeline : e.current # rescan'.scan
            \/ /\ rescan'.scan = rescan.scan
               /\ rescan'.pc = "written" => rescan.pc = "written"
    BY <1>19, IdleFacts DEF ReconcileNext, actors, TInv, TablesOK, TimelineOK, ActorsOK,
       ScanningOK, Idle, Scanning, Event
  <2>3. timeline' = timeline
    BY <1>19 DEF ReconcileNext
  <2>4. QED
    BY <1>a, <2>1, <2>2, <2>3, EventsStay
<1>20. ASSUME NEW j \in Reconciliations, ReconciliationDies(j)
      PROVE  EventsOfScans'
  <2>1. \/ \A e \in timeline : e.current # sweep'.scan
            \/ /\ sweep'.scan = sweep.scan /\ sweep'.previous = sweep.previous
               /\ sweep'.pc = "written" => sweep.pc = "written"
    BY <1>20, IdleFacts DEF ReconciliationDies, actors, TInv, TablesOK, TimelineOK, ActorsOK,
       ScanningOK, Idle, Scanning, Event
  <2>2. \/ \A e \in timeline : e.current # rescan'.scan
            \/ /\ rescan'.scan = rescan.scan
               /\ rescan'.pc = "written" => rescan.pc = "written"
    BY <1>20, IdleFacts DEF ReconciliationDies, actors, TInv, TablesOK, TimelineOK, ActorsOK,
       ScanningOK, Idle, Scanning, Event
  <2>3. timeline' = timeline
    BY <1>20 DEF ReconciliationDies
  <2>4. QED
    BY <1>a, <2>1, <2>2, <2>3, EventsStay
<1>21. ASSUME NEW gone \in timeline, PurgeReadNotice(gone)
      PROVE  EventsOfScans'
  <2>1. \/ \A e \in timeline : e.current # sweep'.scan
            \/ /\ sweep'.scan = sweep.scan /\ sweep'.previous = sweep.previous
               /\ sweep'.pc = "written" => sweep.pc = "written"
    BY <1>21, IdleFacts DEF PurgeReadNotice, actors, TInv, TablesOK, TimelineOK, ActorsOK,
       ScanningOK, Idle, Scanning, Event
  <2>2. \/ \A e \in timeline : e.current # rescan'.scan
            \/ /\ rescan'.scan = rescan.scan
               /\ rescan'.pc = "written" => rescan.pc = "written"
    BY <1>21, IdleFacts DEF PurgeReadNotice, actors, TInv, TablesOK, TimelineOK, ActorsOK,
       ScanningOK, Idle, Scanning, Event
  <2>3. timeline' = timeline
    BY <1>21 DEF PurgeReadNotice
  <2>4. QED
    BY <1>a, <2>1, <2>2, <2>3, EventsStay
<1>22. CASE SoftDeleteDomain
  <2>1. \/ \A e \in timeline : e.current # sweep'.scan
            \/ /\ sweep'.scan = sweep.scan /\ sweep'.previous = sweep.previous
               /\ sweep'.pc = "written" => sweep.pc = "written"
    BY <1>22, IdleFacts DEF SoftDeleteDomain, actors, TInv, TablesOK, TimelineOK, ActorsOK,
       ScanningOK, Idle, Scanning, Event
  <2>2. \/ \A e \in timeline : e.current # rescan'.scan
            \/ /\ rescan'.scan = rescan.scan
               /\ rescan'.pc = "written" => rescan.pc = "written"
    BY <1>22, IdleFacts DEF SoftDeleteDomain, actors, TInv, TablesOK, TimelineOK, ActorsOK,
       ScanningOK, Idle, Scanning, Event
  <2>3. timeline' = timeline
    BY <1>22 DEF SoftDeleteDomain
  <2>4. QED
    BY <1>a, <2>1, <2>2, <2>3, EventsStay
<1>23. CASE Tick
  <2>1. \/ \A e \in timeline : e.current # sweep'.scan
            \/ /\ sweep'.scan = sweep.scan /\ sweep'.previous = sweep.previous
               /\ sweep'.pc = "written" => sweep.pc = "written"
    BY <1>23, IdleFacts DEF Tick, actors, TInv, TablesOK, TimelineOK, ActorsOK, ScanningOK,
       Idle, Scanning, Event
  <2>2. \/ \A e \in timeline : e.current # rescan'.scan
            \/ /\ rescan'.scan = rescan.scan
               /\ rescan'.pc = "written" => rescan.pc = "written"
    BY <1>23, IdleFacts DEF Tick, actors, TInv, TablesOK, TimelineOK, ActorsOK, ScanningOK,
       Idle, Scanning, Event
  <2>3. timeline' = timeline
    BY <1>23 DEF Tick
  <2>4. QED
    BY <1>a, <2>1, <2>2, <2>3, EventsStay
<1>24. CASE UNCHANGED vars
  BY <1>a, <1>24, EventsStay DEF vars
<1>25. QED
  BY <1>1, <1>2, <1>3, <1>4, <1>5, <1>6, <1>7, <1>8, <1>9, <1>10, <1>11, <1>12, <1>13, <1>14,
     <1>15, <1>16, <1>17, <1>18, <1>19, <1>20, <1>21, <1>22, <1>23, <1>24
  DEF Next, SweepStep

-----------------------------------------------------------------------------
(* No event is noticed twice *)

\* A step that leaves the rows and the notices alone.
LEMMA AgesStay ==
    ASSUME TInv, AgesOK, \A i \in ScanIds : Written(i) => scans'[i] = scans[i],
           UNCHANGED <<notices, sent, resent, reconciliation>>,
           sweep'.pc # "idle" =>
               \/ scans'[sweep'.scan] = NoScan \/ scans'[sweep'.scan].age = 0
               \/ sweep.pc # "idle" /\ sweep'.scan = sweep.scan /\ Written(sweep.scan)
    PROVE  AgesOK'
<1>1. ASSUME NEW e \in timeline
      PROVE  scans'[e.current].age = scans[e.current].age
  BY DEF TInv, TablesOK, TimelineOK, Event
<1>2. \A e \in sent' \ notices' : scans'[e.current].age >= Retention
  BY <1>1 DEF AgesOK, TInv, NoticesOK, Real
<1>3. ASSUME NEW j \in Reconciliations, NEW e \in reconciliation'[j]
      PROVE  scans'[e.current].age <= Lookback
  BY <1>1 DEF AgesOK, TInv, NoticesOK, Real
<1>4. sweep'.pc # "idle" /\ scans'[sweep'.scan] # NoScan => scans'[sweep'.scan].age = 0
  BY DEF AgesOK, TInv, ActorsOK, ScanningOK
<1>5. QED
  BY <1>2, <1>3, <1>4 DEF AgesOK, Written

\* A notice of an event that is new, or young enough to be reconciled, is not
\* one that was purged.
LEMMA NoticeIsFirst ==
    ASSUME TInv, AgesOK, NEW e \in timeline, scans[e.current].age < Retention,
           CreateNotificationOnce(e), UNCHANGED scans
    PROVE  /\ resent' = {}
           /\ \A f \in sent' \ notices' : scans'[f.current].age >= Retention
<1>1. scans[e.current].age \in Nat
  BY DurationsAssumption DEF TInv, TablesOK, TimelineOK, Event, ScanRow, Written
<1>2. e \notin sent \ notices
  BY <1>1, DurationsAssumption DEF AgesOK
<1>3. QED
  BY <1>2 DEF CreateNotificationOnce, AgesOK

LEMMA AgesStep == TInv /\ AgesOK /\ [Next]_vars => AgesOK'
<1> SUFFICES ASSUME TInv, AgesOK, [Next]_vars
             PROVE  AgesOK'
  OBVIOUS
<1>1. CASE ClaimDomain
  <2>1. UNCHANGED <<notices, sent, resent, reconciliation, scans>> /\ sweep'.scan = Fresh
    BY <1>1 DEF ClaimDomain, noticeTables, Idle
  <2>2. scans'[sweep'.scan] = NoScan
    BY <1>1, <2>1, FreshIsUndrawn DEF ClaimDomain, Undrawn, Written
  <2>3. QED
    BY <2>1, <2>2, AgesStay
<1>2. CASE SweepWritesScan
  <2>1. /\ UNCHANGED <<notices, sent, resent, reconciliation>> /\ sweep'.scan = sweep.scan
        /\ \A i \in ScanIds \ {sweep.scan} : scans'[i] = scans[i]
        /\ ~Written(sweep.scan) /\ scans'[sweep.scan].age = 0
    BY <1>2 DEF SweepWritesScan, WriteScan, noticeTables, TInv, TablesOK, ActorsOK, ScanningOK,
       Scanning
  <2>2. QED
    BY <2>1, AgesStay DEF Written
<1>3. CASE SweepCompares
  <2>1. /\ UNCHANGED <<scans, notices, sent, resent, reconciliation>>
        /\ sweep.pc # "idle" /\ (sweep'.pc = "idle" \/ sweep'.scan = sweep.scan)
    BY <1>3, IdleFacts DEF SweepCompares, noticeTables, TInv, ActorsOK, ScanningOK, Scanning
  <2>2. QED
    BY <2>1, AgesStay DEF Written
<1>4. CASE SweepRecords
  <2>1. /\ UNCHANGED <<scans, notices, sent, resent, reconciliation>>
        /\ sweep.pc # "idle" /\ (sweep'.pc = "idle" \/ sweep'.scan = sweep.scan)
    BY <1>4, IdleFacts DEF SweepRecords, noticeTables, TInv, ActorsOK, ScanningOK, Scanning
  <2>2. QED
    BY <2>1, AgesStay DEF Written
<1>5. CASE SweepNotifies
  <2>1. UNCHANGED <<scans, reconciliation>> /\ sweep'.pc = "idle"
    BY <1>5, IdleFacts DEF SweepNotifies
  <2>2. CASE UNCHANGED noticeTables
    <3>1. UNCHANGED <<notices, sent, resent>>
      BY <2>2 DEF noticeTables
    <3>2. QED
      BY <2>1, <3>1, AgesStay
  <2>3. CASE MeritsNotice(sweep.event) /\ CreateNotificationOnce(sweep.event)
    <3>1. sweep.event \in timeline /\ sweep.event.current = sweep.scan
      BY <2>3 DEF MeritsNotice, TInv, ActorsOK
    <3>2. scans[sweep.event.current].age < Retention
      BY <1>5, <3>1, DurationsAssumption DEF SweepNotifies, AgesOK, TInv, ActorsOK, ScanningOK
    <3>3. /\ resent' = {}
          /\ \A f \in sent' \ notices' : scans'[f.current].age >= Retention
      BY <2>1, <2>3, <3>1, <3>2, NoticeIsFirst
    <3>4. QED
      BY <2>1, <3>3 DEF AgesOK
  <2>4. QED
    BY <1>5, <2>2, <2>3 DEF SweepNotifies, EventToNotice
<1>6. CASE SweepThrows
  <2>1. /\ UNCHANGED <<scans, notices, sent, resent, reconciliation>>
        /\ sweep.pc # "idle" /\ (sweep'.pc = "idle" \/ sweep'.scan = sweep.scan)
    BY <1>6, IdleFacts DEF SweepThrows, noticeTables, TInv, ActorsOK, ScanningOK, Scanning
  <2>2. QED
    BY <2>1, AgesStay DEF Written
<1>7. CASE WriteFailedRecord
  <2>1. /\ UNCHANGED <<notices, sent, resent, reconciliation>> /\ sweep'.scan = sweep.scan
        /\ \A i \in ScanIds \ {sweep.scan} : scans'[i] = scans[i]
        /\ ~Written(sweep.scan) /\ scans'[sweep.scan].age = 0
    BY <1>7 DEF WriteFailedRecord, FailedRecord, noticeTables, actors, TInv, TablesOK, ActorsOK,
       ScanningOK, Scanning
  <2>2. QED
    BY <2>1, AgesStay DEF Written
<1>8. CASE SweepComparesAgain
  <2>1. /\ UNCHANGED <<scans, notices, sent, resent, reconciliation>>
        /\ sweep.pc # "idle" /\ (sweep'.pc = "idle" \/ sweep'.scan = sweep.scan)
    BY <1>8, IdleFacts DEF SweepComparesAgain, noticeTables, TInv, ActorsOK, ScanningOK,
       Scanning
  <2>2. QED
    BY <2>1, AgesStay DEF Written
<1>9. CASE RecordPlatformFailure
  <2>1. /\ UNCHANGED <<scans, notices, sent, resent, reconciliation>>
        /\ sweep.pc # "idle" /\ (sweep'.pc = "idle" \/ sweep'.scan = sweep.scan)
    BY <1>9, IdleFacts DEF RecordPlatformFailure, noticeTables, TInv, ActorsOK, ScanningOK,
       Scanning
  <2>2. QED
    BY <2>1, AgesStay DEF Written
<1>10. CASE SweepDies
  <2>1. /\ UNCHANGED <<scans, notices, sent, resent, reconciliation>>
        /\ sweep.pc # "idle" /\ (sweep'.pc = "idle" \/ sweep'.scan = sweep.scan)
    BY <1>10, IdleFacts DEF SweepDies, noticeTables, TInv, ActorsOK, ScanningOK, Scanning
  <2>2. QED
    BY <2>1, AgesStay DEF Written
<1>11. CASE StartRescan
  <2>1. UNCHANGED <<scans, sweep, notices, sent, resent, reconciliation>>
    BY <1>11 DEF StartRescan, noticeTables
  <2>2. QED
    BY <2>1, AgesStay DEF Written
<1>12. CASE RescanWritesScan
  <2>1. /\ UNCHANGED <<sweep, notices, sent, resent, reconciliation>>
        /\ \A i \in ScanIds \ {rescan.scan} : scans'[i] = scans[i]
    BY <1>12 DEF RescanWritesScan, WriteScan, noticeTables, TInv, TablesOK, ActorsOK, ScanningOK
  <2>2. ~Written(rescan.scan) /\ (sweep.pc # "idle" => sweep.scan # rescan.scan /\ sweep.scan \in ScanIds)
    BY <1>12, IdleFacts DEF RescanWritesScan, TInv, ActorsOK, ScanningOK
  <2>3. QED
    BY <2>1, <2>2, AgesStay DEF Written
<1>13. CASE RescanCompares
  <2>1. UNCHANGED <<scans, sweep, notices, sent, resent, reconciliation>>
    BY <1>13 DEF RescanCompares, noticeTables
  <2>2. QED
    BY <2>1, AgesStay DEF Written
<1>14. CASE RescanRecords
  <2>1. UNCHANGED <<scans, sweep, notices, sent, resent, reconciliation>>
    BY <1>14 DEF RescanRecords, noticeTables
  <2>2. QED
    BY <2>1, AgesStay DEF Written
<1>15. CASE StartAdminScan
  <2>1. UNCHANGED <<scans, sweep, notices, sent, resent, reconciliation>>
    BY <1>15 DEF StartAdminScan, noticeTables
  <2>2. QED
    BY <2>1, AgesStay DEF Written
<1>16. CASE AdminWritesScan
  <2>1. /\ UNCHANGED <<sweep, notices, sent, resent, reconciliation>>
        /\ \A i \in ScanIds \ {adminScan.scan} : scans'[i] = scans[i]
    BY <1>16 DEF AdminWritesScan, WriteScan, noticeTables, TInv, TablesOK, ActorsOK, ScanningOK
  <2>2. ~Written(adminScan.scan) /\ (sweep.pc # "idle" => sweep.scan # adminScan.scan /\ sweep.scan \in ScanIds)
    BY <1>16, IdleFacts DEF AdminWritesScan, TInv, ActorsOK, ScanningOK
  <2>3. QED
    BY <2>1, <2>2, AgesStay DEF Written
<1>17. CASE AdminRecords
  <2>1. UNCHANGED <<scans, sweep, notices, sent, resent, reconciliation>>
    BY <1>17 DEF AdminRecords, noticeTables
  <2>2. QED
    BY <2>1, AgesStay DEF Written
<1>18. ASSUME NEW j \in Reconciliations, StartReconciliation(j)
      PROVE  AgesOK'
  <2>1. UNCHANGED <<scans, sweep, notices, sent, resent>>
    BY <1>18 DEF StartReconciliation, noticeTables, actors
  <2>2. \A i \in Reconciliations : reconciliation'[i] \in {reconciliation[i], Candidates}
    BY <1>18 DEF StartReconciliation, TInv, TablesOK
  <2>3. QED
    BY <2>1, <2>2 DEF AgesOK, Candidates, Written
<1>19. ASSUME NEW j \in Reconciliations, ReconcileNext(j)
      PROVE  AgesOK'
  <2>1. UNCHANGED <<scans, sweep>>
    BY <1>19 DEF ReconcileNext, actors
  <2>2. \A i \in Reconciliations : reconciliation'[i] \subseteq reconciliation[i]
    BY <1>19 DEF ReconcileNext, TInv, TablesOK
  <2>3. CASE UNCHANGED noticeTables
    BY <2>1, <2>2, <2>3 DEF noticeTables, AgesOK, Written
  <2>4. ASSUME NEW e \in reconciliation[j], CreateNotificationOnce(e)
        PROVE  AgesOK'
    <3>1. e \in timeline
      BY DEF TInv, NoticesOK, Real
    <3>2. scans[e.current].age < Retention
      <4>1. scans[e.current].age <= Lookback
        BY DEF AgesOK
      <4>2. scans[e.current].age \in Nat
        BY <3>1, DurationsAssumption DEF TInv, TablesOK, TimelineOK, Event, ScanRow, Written
      <4>3. QED
        BY <4>1, <4>2, DurationsAssumption
    <3>3. /\ resent' = {}
          /\ \A f \in sent' \ notices' : scans'[f.current].age >= Retention
      BY <2>1, <2>4, <3>1, <3>2, NoticeIsFirst
    <3>4. QED
      BY <2>1, <2>2, <3>3 DEF AgesOK, Written
  <2>5. QED
    BY <1>19, <2>3, <2>4 DEF ReconcileNext
<1>20. ASSUME NEW j \in Reconciliations, ReconciliationDies(j)
      PROVE  AgesOK'
  <2>1. UNCHANGED <<scans, sweep, notices, sent, resent>>
    BY <1>20 DEF ReconciliationDies, noticeTables, actors
  <2>2. \A i \in Reconciliations : reconciliation'[i] \subseteq reconciliation[i]
    BY <1>20 DEF ReconciliationDies, TInv, TablesOK
  <2>3. QED
    BY <2>1, <2>2 DEF AgesOK, Written
<1>21. ASSUME NEW gone \in timeline, PurgeReadNotice(gone)
      PROVE  AgesOK'
  <2>1. UNCHANGED <<scans, sweep, sent, resent, reconciliation>>
    BY <1>21 DEF PurgeReadNotice, actors
  <2>2. \A f \in sent' \ notices' : f = gone \/ f \in sent \ notices
    BY <1>21, <2>1 DEF PurgeReadNotice
  <2>3. QED
    BY <1>21, <2>1, <2>2 DEF PurgeReadNotice, AgesOK, Written
<1>22. CASE SoftDeleteDomain
  <2>1. UNCHANGED <<scans, sweep, notices, sent, resent, reconciliation>>
    BY <1>22 DEF SoftDeleteDomain, noticeTables, actors
  <2>2. QED
    BY <2>1, AgesStay DEF Written
<1>23. CASE Tick
  <2>1. sweep' = Idle /\ UNCHANGED <<notices, sent, resent, reconciliation>>
    BY <1>23 DEF Tick, noticeTables, actors
  <2>2. \A i \in Reconciliations : reconciliation[i] = {}
    BY <1>23 DEF Tick
  <2>3. ASSUME NEW e \in sent' \ notices'
        PROVE  scans'[e.current].age >= Retention
    <3>1. e \in timeline /\ scans[e.current].age >= Retention
      BY <2>1 DEF AgesOK, TInv, NoticesOK, Real
    <3>2. e.current \in ScanIds /\ Written(e.current)
      BY <3>1 DEF TInv, TablesOK, TimelineOK, Event
    <3>3. scans[e.current].age \in Nat /\ scans'[e.current].age \in Nat
      BY <1>23, <3>2, DurationsAssumption DEF Tick, TInv, TablesOK, ScanRow, Written
    <3>4. scans'[e.current].age >= scans[e.current].age
      BY <3>2, RowsPersist DEF RowsKept
    <3>5. QED
      BY <3>1, <3>3, <3>4, DurationsAssumption
  <2>4. QED
    BY <2>1, <2>2, <2>3, IdleFacts DEF AgesOK
<1>24. CASE UNCHANGED vars
  <2>1. UNCHANGED <<scans, sweep, notices, sent, resent, reconciliation>>
    BY <1>24 DEF vars, noticeTables
  <2>2. QED
    BY <2>1, AgesStay DEF Written
<1>25. QED
  BY <1>1, <1>2, <1>3, <1>4, <1>5, <1>6, <1>7, <1>8, <1>9, <1>10, <1>11, <1>12, <1>13, <1>14,
     <1>15, <1>16, <1>17, <1>18, <1>19, <1>20, <1>21, <1>22, <1>23, <1>24
  DEF Next, SweepStep

-----------------------------------------------------------------------------
(* Only faults leave a notice missing *)

\* What an event merits does not change.
LEMMA MeritIsFixed ==
    ASSUME TInv, RowsKept, NEW e \in timeline
    PROVE  /\ MeritsNotice(e)' <=> MeritsNotice(e)
           /\ scans'[e.current].by = scans[e.current].by
<1>1. e.current \in ScanIds /\ Written(e.current) /\ e.previous \in {0} \cup ScanIds
  BY DEF TInv, TablesOK, TimelineOK, Event
<1>2. scans'[e.current].by = scans[e.current].by /\ scans'[e.current].content = scans[e.current].content
  BY <1>1 DEF RowsKept
<1>3. e.type = "policy_change" => scans'[e.previous].content = scans[e.previous].content
  BY <1>1 DEF RowsKept, TInv, TimelineOK, RealChange
<1>4. QED
  BY <1>2, <1>3 DEF MeritsNotice

\* A step that adds no event, and lets the sweep leave none.
LEMMA HoldsStay ==
    ASSUME TInv, HInv, RowsKept, timeline' = timeline, sent \subseteq sent',
           faults' \in {faults, faults + 1},
           \/ faults' = faults + 1
           \/ /\ sweep'.scan = sweep.scan /\ sweep'.event = sweep.event
              /\ sweep'.pc \in {"threw", "recompared"} => sweep.pc \in {"threw", "recompared"}
    PROVE  HInv'
<1>1. faults \in Nat
  BY DEF TInv, TablesOK
<1>2. CASE faults' > 0
  BY <1>2 DEF HInv, SweepHoldsEvent, OnlyFaultsLeaveNoticesMissing
<1>3. CASE faults' = 0 /\ faults = 0
  <2>1. SweepHoldsEvent'
    BY <1>3 DEF HInv, SweepHoldsEvent
  <2>2. OnlyFaultsLeaveNoticesMissing'
    BY <1>3, MeritIsFixed DEF HInv, OnlyFaultsLeaveNoticesMissing
  <2>3. QED
    BY <2>1, <2>2 DEF HInv
<1>4. QED
  BY <1>1, <1>2, <1>3

LEMMA HoldsStep == TInv /\ EventsOfScans /\ HInv /\ [Next]_vars => HInv'
<1> SUFFICES ASSUME TInv, EventsOfScans, HInv, [Next]_vars
             PROVE  HInv'
  OBVIOUS
<1>a. RowsKept /\ faults \in Nat
  BY RowsPersist DEF TInv, TablesOK
<1>1. CASE ClaimDomain
  <2>1. UNCHANGED <<timeline, sent, faults, scans>> /\ sweep'.scan = Fresh /\ sweep'.pc = "auditing"
    BY <1>1 DEF ClaimDomain, noticeTables, Idle
  <2>2. \A e \in timeline : e.current # Fresh /\ e.current # sweep.scan
    BY <1>1, FreshIsUndrawn, IdleFacts
    DEF ClaimDomain, Undrawn, TInv, TablesOK, TimelineOK, ActorsOK, ScanningOK, Event
  <2>3. QED
    BY <1>a, <2>1, <2>2, MeritIsFixed DEF HInv, SweepHoldsEvent, OnlyFaultsLeaveNoticesMissing
<1>2. CASE SweepWritesScan
  <2>1. /\ timeline' = timeline /\ sent \subseteq sent' /\ faults' \in {faults, faults + 1}
        /\ \/ faults' = faults + 1
           \/ /\ sweep'.scan = sweep.scan /\ sweep'.event = sweep.event
              /\ sweep'.pc \in {"threw", "recompared"} => sweep.pc \in {"threw", "recompared"}
    BY <1>2 DEF SweepWritesScan, noticeTables, TInv, ActorsOK, ScanningOK, Scanning
  <2>2. QED
    BY <1>a, <2>1, HoldsStay
<1>3. CASE SweepCompares
  <2>1. CASE faults' = faults + 1
    BY <1>a, <2>1 DEF HInv, SweepHoldsEvent, OnlyFaultsLeaveNoticesMissing
  <2>2. CASE /\ UNCHANGED faults
             /\ timeline' = WithEvent(EventOf(sweep.previous, sweep.scan))
             /\ sweep' = [sweep EXCEPT !.pc = "compared", !.event = EventOf(sweep.previous, sweep.scan)]
    <3>1. /\ sweep'.pc = "compared" /\ sweep'.scan = sweep.scan /\ UNCHANGED <<sent, scans>>
          /\ sweep'.event = EventOf(sweep.previous, sweep.scan)
      BY <1>3, <2>2 DEF SweepCompares, noticeTables, TInv, ActorsOK, ScanningOK, Scanning
    <3>2. \A e \in timeline : e.current # sweep.scan
      BY <1>3 DEF SweepCompares, EventsOfScans
    <3>3. \A e \in timeline' :
              \/ e \in timeline
              \/ e = sweep'.event /\ e.current = sweep.scan
      BY <1>3, <2>2, <3>1, EventIsOK, ScanningFacts
      DEF SweepCompares, WithEvent, TInv, ActorsOK, ScanningOK
    <3>4. SweepHoldsEvent'
      BY <3>1, <3>2, <3>3 DEF SweepHoldsEvent
    <3>5. OnlyFaultsLeaveNoticesMissing'
      BY <1>a, <2>2, <3>1, <3>3, MeritIsFixed DEF HInv, OnlyFaultsLeaveNoticesMissing
    <3>6. QED
      BY <3>4, <3>5 DEF HInv
  <2>3. QED
    BY <1>3, <2>1, <2>2 DEF SweepCompares
<1>4. CASE SweepRecords
  <2>1. /\ timeline' = timeline /\ sent \subseteq sent' /\ faults' \in {faults, faults + 1}
        /\ \/ faults' = faults + 1
           \/ /\ sweep'.scan = sweep.scan /\ sweep'.event = sweep.event
              /\ sweep'.pc \in {"threw", "recompared"} => sweep.pc \in {"threw", "recompared"}
    BY <1>4 DEF SweepRecords, noticeTables, TInv, ActorsOK, ScanningOK, Scanning
  <2>2. QED
    BY <1>a, <2>1, HoldsStay
<1>5. CASE SweepNotifies
  <2>1. CASE faults' = faults + 1
    BY <1>a, <1>5, <2>1, IdleFacts DEF SweepNotifies, HInv, SweepHoldsEvent,
       OnlyFaultsLeaveNoticesMissing
  <2>2. CASE UNCHANGED faults
    <3>1. sweep' = Idle /\ UNCHANGED <<timeline, scans>> /\ sent \subseteq sent'
      BY <1>5 DEF SweepNotifies, CreateNotificationOnce, noticeTables
    <3>2. faults = 0 /\ MeritsNotice(sweep.event) => sweep.event \in sent'
      BY <1>a, <1>5, <2>2 DEF SweepNotifies, EventToNotice, CreateNotificationOnce
    <3>3. SweepHoldsEvent'
      BY <3>1, IdleFacts DEF SweepHoldsEvent, TInv, TablesOK, Event
    <3>4. ASSUME NEW e \in timeline, MeritsNotice(e)', scans'[e.current].by = "sweep", faults = 0
          PROVE  e \in sent'
      <4>1. MeritsNotice(e) /\ scans[e.current].by = "sweep"
        BY <1>a, <3>4, MeritIsFixed
      <4>2. CASE e.current = sweep.scan
        BY <3>2, <3>4, <4>1, <4>2 DEF HInv, SweepHoldsEvent
      <4>3. CASE e.current # sweep.scan
        BY <3>1, <3>4, <4>1, <4>3 DEF HInv, OnlyFaultsLeaveNoticesMissing
      <4>4. QED
        BY <4>2, <4>3
    <3>5. OnlyFaultsLeaveNoticesMissing'
      BY <1>a, <2>2, <3>1, <3>4 DEF OnlyFaultsLeaveNoticesMissing
    <3>6. QED
      BY <3>3, <3>5 DEF HInv
  <2>3. QED
    BY <1>5, <2>1, <2>2 DEF SweepNotifies
<1>6. CASE SweepThrows
  <2>1. /\ timeline' = timeline /\ sent \subseteq sent' /\ faults' \in {faults, faults + 1}
        /\ \/ faults' = faults + 1
           \/ /\ sweep'.scan = sweep.scan /\ sweep'.event = sweep.event
              /\ sweep'.pc \in {"threw", "recompared"} => sweep.pc \in {"threw", "recompared"}
    BY <1>6 DEF SweepThrows, noticeTables, TInv, ActorsOK, ScanningOK, Scanning
  <2>2. QED
    BY <1>a, <2>1, HoldsStay
<1>7. CASE WriteFailedRecord
  <2>1. /\ timeline' = timeline /\ sent \subseteq sent' /\ faults' \in {faults, faults + 1}
        /\ \/ faults' = faults + 1
           \/ /\ sweep'.scan = sweep.scan /\ sweep'.event = sweep.event
              /\ sweep'.pc \in {"threw", "recompared"} => sweep.pc \in {"threw", "recompared"}
    BY <1>7 DEF WriteFailedRecord, noticeTables, actors, TInv, ActorsOK, ScanningOK, Scanning
  <2>2. QED
    BY <1>a, <2>1, HoldsStay
<1>8. CASE SweepComparesAgain
  <2>1. faults > 0 /\ faults' \in {faults, faults + 1}
    BY <1>8 DEF SweepComparesAgain, HInv, SweepHoldsEvent
  <2>2. faults' > 0
    BY <1>a, <2>1
  <2>3. QED
    BY <2>2 DEF HInv, SweepHoldsEvent, OnlyFaultsLeaveNoticesMissing
<1>9. CASE RecordPlatformFailure
  <2>1. faults' > 0
    BY <1>9 DEF RecordPlatformFailure, HInv, SweepHoldsEvent
  <2>2. QED
    BY <2>1 DEF HInv, SweepHoldsEvent, OnlyFaultsLeaveNoticesMissing
<1>10. CASE SweepDies
  <2>1. /\ timeline' = timeline /\ sent \subseteq sent' /\ faults' \in {faults, faults + 1}
        /\ \/ faults' = faults + 1
           \/ /\ sweep'.scan = sweep.scan /\ sweep'.event = sweep.event
              /\ sweep'.pc \in {"threw", "recompared"} => sweep.pc \in {"threw", "recompared"}
    BY <1>10 DEF SweepDies, noticeTables, TInv, ActorsOK, ScanningOK, Scanning
  <2>2. QED
    BY <1>a, <2>1, HoldsStay
<1>11. CASE StartRescan
  <2>1. /\ timeline' = timeline /\ sent \subseteq sent' /\ faults' \in {faults, faults + 1}
        /\ \/ faults' = faults + 1
           \/ /\ sweep'.scan = sweep.scan /\ sweep'.event = sweep.event
              /\ sweep'.pc \in {"threw", "recompared"} => sweep.pc \in {"threw", "recompared"}
    BY <1>11 DEF StartRescan, noticeTables, TInv, ActorsOK, ScanningOK, Scanning
  <2>2. QED
    BY <1>a, <2>1, HoldsStay
<1>12. CASE RescanWritesScan
  <2>1. /\ timeline' = timeline /\ sent \subseteq sent' /\ faults' \in {faults, faults + 1}
        /\ \/ faults' = faults + 1
           \/ /\ sweep'.scan = sweep.scan /\ sweep'.event = sweep.event
              /\ sweep'.pc \in {"threw", "recompared"} => sweep.pc \in {"threw", "recompared"}
    BY <1>12 DEF RescanWritesScan, noticeTables, TInv, ActorsOK, ScanningOK, Scanning
  <2>2. QED
    BY <1>a, <2>1, HoldsStay
<1>13. CASE RescanCompares
  <2>1. CASE faults' = faults + 1
    BY <1>a, <2>1 DEF HInv, SweepHoldsEvent, OnlyFaultsLeaveNoticesMissing
  <2>2. CASE /\ UNCHANGED faults
             /\ timeline' = WithEvent(EventOf(rescan.previous, rescan.scan))
    <3>1. UNCHANGED <<sent, scans, sweep>> /\ scans[rescan.scan].by = "rescan"
      BY <1>13 DEF RescanCompares, noticeTables, TInv, ActorsOK
    <3>2. rescan.scan # sweep.scan
      BY <1>13, IdleFacts DEF RescanCompares, TInv, ActorsOK, ScanningOK
    <3>3. \A e \in timeline' : e \in timeline \/ e.current = rescan.scan
      BY <1>13, <2>2, EventIsOK, ScanningFacts DEF RescanCompares, WithEvent, TInv, ActorsOK,
         ScanningOK
    <3>4. SweepHoldsEvent'
      BY <2>2, <3>1, <3>2, <3>3 DEF HInv, SweepHoldsEvent
    <3>5. OnlyFaultsLeaveNoticesMissing'
      BY <1>a, <2>2, <3>1, <3>3, MeritIsFixed DEF HInv, OnlyFaultsLeaveNoticesMissing
    <3>6. QED
      BY <3>4, <3>5 DEF HInv
  <2>3. QED
    BY <1>13, <2>1, <2>2 DEF RescanCompares
<1>14. CASE RescanRecords
  <2>1. /\ timeline' = timeline /\ sent \subseteq sent' /\ faults' \in {faults, faults + 1}
        /\ \/ faults' = faults + 1
           \/ /\ sweep'.scan = sweep.scan /\ sweep'.event = sweep.event
              /\ sweep'.pc \in {"threw", "recompared"} => sweep.pc \in {"threw", "recompared"}
    BY <1>14 DEF RescanRecords, noticeTables, TInv, ActorsOK, ScanningOK, Scanning
  <2>2. QED
    BY <1>a, <2>1, HoldsStay
<1>15. CASE StartAdminScan
  <2>1. /\ timeline' = timeline /\ sent \subseteq sent' /\ faults' \in {faults, faults + 1}
        /\ \/ faults' = faults + 1
           \/ /\ sweep'.scan = sweep.scan /\ sweep'.event = sweep.event
              /\ sweep'.pc \in {"threw", "recompared"} => sweep.pc \in {"threw", "recompared"}
    BY <1>15 DEF StartAdminScan, noticeTables, TInv, ActorsOK, ScanningOK, Scanning
  <2>2. QED
    BY <1>a, <2>1, HoldsStay
<1>16. CASE AdminWritesScan
  <2>1. /\ timeline' = timeline /\ sent \subseteq sent' /\ faults' \in {faults, faults + 1}
        /\ \/ faults' = faults + 1
           \/ /\ sweep'.scan = sweep.scan /\ sweep'.event = sweep.event
              /\ sweep'.pc \in {"threw", "recompared"} => sweep.pc \in {"threw", "recompared"}
    BY <1>16 DEF AdminWritesScan, noticeTables, TInv, ActorsOK, ScanningOK, Scanning
  <2>2. QED
    BY <1>a, <2>1, HoldsStay
<1>17. CASE AdminRecords
  <2>1. /\ timeline' = timeline /\ sent \subseteq sent' /\ faults' \in {faults, faults + 1}
        /\ \/ faults' = faults + 1
           \/ /\ sweep'.scan = sweep.scan /\ sweep'.event = sweep.event
              /\ sweep'.pc \in {"threw", "recompared"} => sweep.pc \in {"threw", "recompared"}
    BY <1>17 DEF AdminRecords, noticeTables, TInv, ActorsOK, ScanningOK, Scanning
  <2>2. QED
    BY <1>a, <2>1, HoldsStay
<1>18. ASSUME NEW j \in Reconciliations, StartReconciliation(j)
      PROVE  HInv'
  <2>1. /\ timeline' = timeline /\ sent \subseteq sent' /\ faults' \in {faults, faults + 1}
        /\ \/ faults' = faults + 1
           \/ /\ sweep'.scan = sweep.scan /\ sweep'.event = sweep.event
              /\ sweep'.pc \in {"threw", "recompared"} => sweep.pc \in {"threw", "recompared"}
    BY <1>18 DEF StartReconciliation, noticeTables, actors, TInv, ActorsOK, ScanningOK, Scanning
  <2>2. QED
    BY <1>a, <2>1, HoldsStay
<1>19. ASSUME NEW j \in Reconciliations, ReconcileNext(j)
      PROVE  HInv'
  <2>1. /\ timeline' = timeline /\ sent \subseteq sent' /\ faults' \in {faults, faults + 1}
        /\ \/ faults' = faults + 1
           \/ /\ sweep'.scan = sweep.scan /\ sweep'.event = sweep.event
              /\ sweep'.pc \in {"threw", "recompared"} => sweep.pc \in {"threw", "recompared"}
    BY <1>19 DEF ReconcileNext, noticeTables, actors, TInv, ActorsOK, ScanningOK, Scanning,
       CreateNotificationOnce
  <2>2. QED
    BY <1>a, <2>1, HoldsStay
<1>20. ASSUME NEW j \in Reconciliations, ReconciliationDies(j)
      PROVE  HInv'
  <2>1. /\ timeline' = timeline /\ sent \subseteq sent' /\ faults' \in {faults, faults + 1}
        /\ \/ faults' = faults + 1
           \/ /\ sweep'.scan = sweep.scan /\ sweep'.event = sweep.event
              /\ sweep'.pc \in {"threw", "recompared"} => sweep.pc \in {"threw", "recompared"}
    BY <1>20 DEF ReconciliationDies, noticeTables, actors, TInv, ActorsOK, ScanningOK, Scanning
  <2>2. QED
    BY <1>a, <2>1, HoldsStay
<1>21. ASSUME NEW gone \in timeline, PurgeReadNotice(gone)
      PROVE  HInv'
  <2>1. /\ timeline' = timeline /\ sent \subseteq sent' /\ faults' \in {faults, faults + 1}
        /\ \/ faults' = faults + 1
           \/ /\ sweep'.scan = sweep.scan /\ sweep'.event = sweep.event
              /\ sweep'.pc \in {"threw", "recompared"} => sweep.pc \in {"threw", "recompared"}
    BY <1>21 DEF PurgeReadNotice, actors, TInv, ActorsOK, ScanningOK, Scanning
  <2>2. QED
    BY <1>a, <2>1, HoldsStay
<1>22. CASE SoftDeleteDomain
  <2>1. /\ timeline' = timeline /\ sent \subseteq sent' /\ faults' \in {faults, faults + 1}
        /\ \/ faults' = faults + 1
           \/ /\ sweep'.scan = sweep.scan /\ sweep'.event = sweep.event
              /\ sweep'.pc \in {"threw", "recompared"} => sweep.pc \in {"threw", "recompared"}
    BY <1>22 DEF SoftDeleteDomain, noticeTables, actors, TInv, ActorsOK, ScanningOK, Scanning
  <2>2. QED
    BY <1>a, <2>1, HoldsStay
<1>23. CASE Tick
  <2>1. /\ timeline' = timeline /\ sent \subseteq sent' /\ faults' \in {faults, faults + 1}
        /\ \/ faults' = faults + 1
           \/ /\ sweep'.scan = sweep.scan /\ sweep'.event = sweep.event
              /\ sweep'.pc \in {"threw", "recompared"} => sweep.pc \in {"threw", "recompared"}
    BY <1>23 DEF Tick, noticeTables, actors, TInv, ActorsOK, ScanningOK, Scanning
  <2>2. QED
    BY <1>a, <2>1, HoldsStay
<1>24. CASE UNCHANGED vars
  <2>1. UNCHANGED <<timeline, sent, faults, sweep>>
    BY <1>24 DEF vars
  <2>2. QED
    BY <1>a, <2>1, HoldsStay
<1>25. QED
  BY <1>1, <1>2, <1>3, <1>4, <1>5, <1>6, <1>7, <1>8, <1>9, <1>10, <1>11, <1>12, <1>13, <1>14,
     <1>15, <1>16, <1>17, <1>18, <1>19, <1>20, <1>21, <1>22, <1>23, <1>24
  DEF Next, SweepStep

-----------------------------------------------------------------------------
(* The theorems *)

\* The rows, the timeline and the scans under way keep their types, every event
\* is about written scans, and every policy change is a real one.
THEOREM TypeCorrect == Spec => []TInv
<1>1. ASSUME Init
      PROVE  TInv
  <2>a. scans \in [ScanIds -> ScanRow \cup {NoScan}]
    BY <1>1 DEF Init
  <2>b. reconciliation \in [Reconciliations -> SUBSET timeline]
    BY <1>1 DEF Init
  <2>c. /\ cron \in 0..(Day - 1) /\ faults \in Nat
        /\ cronJobs \subseteq {"sweep", "reconciliation"}
    BY <1>1, DurationsAssumption DEF Init
  <2>d. deleted \in BOOLEAN /\ lastScan = 0 /\ timeline \subseteq Event
    BY <1>1 DEF Init
  <2>1. TablesOK
    BY <2>a, <2>b, <2>c, <2>d DEF TablesOK
  <2>2. TimelineOK /\ NoticesOK
    BY <1>1 DEF Init, TimelineOK, NoticesOK
  <2>3. ActorsOK
    BY <1>1, IdleFacts DEF Init, ActorsOK, ScanningOK
  <2>4. QED
    BY <2>1, <2>2, <2>3 DEF TInv
<1>2. QED
  BY <1>1, TInvStep, PTL DEF Spec

THEOREM TypeCorrectness == Spec => []TypeOK
  BY TypeCorrect, TypeFromTInv, PTL

\* No notice is of a failed scan, or of two scans that found the same.
THEOREM NoticesTellRealChangesHolds == Spec => []NoticesTellRealChanges
<1>1. TInv => NoticesTellRealChanges
  BY DEF TInv, TimelineOK, NoticesOK, Real, RealChange, NoticesTellRealChanges
<1>2. QED
  BY <1>1, TypeCorrect, PTL

\* A scan compared twice leaves one event, however many scans move last_scan_id
\* between the two comparisons.
THEOREM OneEventPerScanHolds == Spec => []OneEventPerScan
<1>1. Init => EventsOfScans
  BY DEF Init, EventsOfScans, OneEventPerScan
<1>2. EventsOfScans => OneEventPerScan
  BY DEF EventsOfScans
<1>3. QED
  BY <1>1, <1>2, TypeCorrect, EventsStep, PTL DEF Spec

\* An event is noticed once, for any number of overlapping reconciliations: what
\* the purge has removed is out of their sight, as Lookback < Retention.
THEOREM NeverNoticedTwiceHolds == Spec => []NeverNoticedTwice
<1>1. Init => AgesOK
  BY IdleFacts DEF Init, AgesOK
<1>2. AgesOK => NeverNoticedTwice
  BY DEF AgesOK, NeverNoticedTwice
<1>3. QED
  BY <1>1, <1>2, TypeCorrect, AgesStep, PTL DEF Spec

\* Without a fault every change worth a notice that a sweep has found is noticed
\* when the sweep is done with it.
THEOREM OnlyFaultsLeaveNoticesMissingHolds == Spec => []OnlyFaultsLeaveNoticesMissing
<1>1. Init => EventsOfScans /\ HInv
  BY IdleFacts
  DEF Init, EventsOfScans, OneEventPerScan, HInv, SweepHoldsEvent, OnlyFaultsLeaveNoticesMissing
<1>2. HInv => OnlyFaultsLeaveNoticesMissing
  BY DEF HInv
<1>3. QED
  BY <1>1, <1>2, TypeCorrect, EventsStep, HoldsStep, PTL DEF Spec
=============================================================================
