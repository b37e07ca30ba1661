----------------------- MODULE DomainMonitoring_proofs -----------------------
(* Theorems about DomainMonitoring, for every value of its constants. *)
EXTENDS DomainMonitoring, FiniteSetTheorems, SequenceTheorems, TLAPS

\* A sweep that claims has rows left to claim, one that audits holds a domain.
SweepShape ==
    \A s \in Sweeps :
        /\ sweep[s].pc = "claiming" => sweep[s].queue # << >>
        /\ sweep[s].pc \in {"auditing", "succeeded", "failed", "threw", "recorded"}
                => sweep[s].claimed # << >>
        /\ sweep[s].pc = "failed" => sweep[s].failure # NoFailure

TInv == TypeOK /\ SweepShape

-----------------------------------------------------------------------------
(* What the operators return *)

LEMMA SnapshotType ==
    ASSUME TypeOK, NEW d \in Domains
    PROVE  SnapshotOf(d) \in Snapshot
BY DEF TypeOK, SnapshotOf, Snapshot, Row

LEMMA SelectionType ==
    ASSUME TypeOK, NEW q \in Selections
    PROVE  [i \in DOMAIN q |-> SnapshotOf(q[i])] \in Seq(Snapshot)
<1> DEFINE n == Cardinality(Candidates)
           size == IF n < BatchSize THEN n ELSE BatchSize
<1>1. Candidates \subseteq Domains
  BY DEF Candidates
<1>2. n \in Nat
  BY <1>1, DomainsAssumption, FS_Subset, FS_CardinalityType
<1>3. size \in Nat
  BY <1>2, CountAssumption
<1>4. q \in [1..size -> Candidates]
  BY DEF Selections
<1>5. \A i \in 1..size : SnapshotOf(q[i]) \in Snapshot
  BY <1>1, <1>4, SnapshotType
<1>6. [i \in 1..size |-> SnapshotOf(q[i])] \in [1..size -> Snapshot]
  BY <1>5
<1> HIDE DEF size
<1>7. [i \in 1..size |-> SnapshotOf(q[i])] \in Seq(Snapshot)
  BY <1>3, <1>6, SMT
<1> QED
  BY <1>4, <1>7

LEMMA DateTypes ==
    /\ \A d \in Domains : ComputeNextScanAt(d) \in Int \cup {Null}
    /\ \A n \in Nat \ {0}, a \in Nat : BackoffNextScanAt(n, a) \in Int
    /\ \A t \in Int \cup {Null} : Earlier(t) \in Int \cup {Null}
    /\ \A t \in Nat : Remaining(t) \in Nat
<1>1. \A d \in Domains : ComputeNextScanAt(d) \in Int \cup {Null}
  BY DomainsAssumption, DurationAssumption DEF ComputeNextScanAt
<1>2. \A n \in Nat \ {0}, a \in Nat : BackoffNextScanAt(n, a) \in Int
  BY DurationAssumption DEF BackoffNextScanAt, BackoffDays
<1>3. \A t \in Int \cup {Null} : Earlier(t) \in Int \cup {Null}
  BY CountAssumption DEF Earlier
<1>4. \A t \in Nat : Remaining(t) \in Nat
  BY DEF Remaining
<1> QED
  BY <1>1, <1>2, <1>3, <1>4

LEMMA RowUpdate ==
    ASSUME NEW row \in Row, NEW next \in Int \cup {Null}, NEW count \in Nat,
           NEW episode \in 0..MaxEpisodes, NEW state \in {"active", "paused"}
    PROVE  /\ [row EXCEPT !.nextScanAt = next, !.consecutiveFailureCount = count,
                           !.failureEpisodeId = episode] \in Row
           /\ [row EXCEPT !.nextScanAt = next, !.consecutiveFailureCount = count,
                           !.failureEpisodeId = episode, !.monitoringState = state] \in Row
BY DEF Row

LEMMA RowFieldUpdates ==
    ASSUME NEW row \in Row
    PROVE  /\ \A next \in Int \cup {Null} : [row EXCEPT !.nextScanAt = next] \in Row
           /\ \A lock \in Nat : [row EXCEPT !.scanLockUntil = lock] \in Row
           /\ \A state \in {"active", "paused"} :
                    [row EXCEPT !.monitoringState = state] \in Row
           /\ [row EXCEPT !.deleted = TRUE] \in Row
           /\ \A next \in Int \cup {Null}, lock \in Nat :
                    [row EXCEPT !.nextScanAt = next, !.scanLockUntil = lock] \in Row
BY DEF Row

LEMMA RescanUpdates ==
    ASSUME NEW record \in RescanRecord
    PROVE  /\ \A pc \in {"idle", "admitted", "scanning", "persisted", "releasing"} :
                    [record EXCEPT !.pc = pc] \in RescanRecord
           /\ \A age \in Nat : [record EXCEPT !.age = age] \in RescanRecord
BY DEF RescanRecord

LEMMA CurrentType ==
    ASSUME TypeOK, NEW s \in Sweeps, sweep[s].claimed # << >>
    PROVE  Current(s) \in Snapshot /\ Tail(sweep[s].claimed) \in Seq(Snapshot)
<1>1. sweep[s].claimed \in Seq(Snapshot)
  BY DEF TypeOK, SweepRecord
<1> QED
  BY <1>1, HeadTailProperties DEF Current

-----------------------------------------------------------------------------
(* Type correctness *)

LEMMA InitType == Init => TInv
<1> SUFFICES ASSUME Init PROVE TInv
  OBVIOUS
<1>1. domain \in [Domains -> Row]
  BY CountAssumption DEF Init, NewRow, Row
<1>2. IdleSweep \in SweepRecord
  BY EmptySeq DEF IdleSweep, SweepRecord, Failure, NoFailure
<1>3. sweep \in [Sweeps -> SweepRecord] /\ SweepShape
  BY <1>2 DEF Init, SweepShape, IdleSweep
<1>4. rescan \in [Rescans -> RescanRecord]
  BY DEF Init, RescanRecord
<1>5. adminScan \in [AdminScans -> AdminRecord]
  BY DEF Init, AdminRecord
<1>6. nextEpisode \in 1..(MaxEpisodes + 1)
  BY CountAssumption DEF Init
<1> QED
  BY <1>1, <1>3, <1>4, <1>5, <1>6 DEF Init, TInv, TypeOK

LEMMA SweepStepType ==
    ASSUME TInv, NEW s \in Sweeps, SweepStep(s) \/ SweepDies(s)
    PROVE  TInv'
<1> USE DEF TInv
<1>0. sweep[s] \in SweepRecord
  BY DEF TypeOK
<1>a. IdleSweep \in SweepRecord
  BY EmptySeq DEF IdleSweep, SweepRecord, Failure, NoFailure
<1>1. CASE SelectDueDomains(s)
  <2>1. PICK q \in Selections :
            sweep' = [sweep EXCEPT ![s] =
                [IdleSweep EXCEPT !.pc = IF q = << >> THEN "idle" ELSE "claiming",
                                  !.queue = [i \in DOMAIN q |-> SnapshotOf(q[i])]]]
    BY <1>1 DEF SelectDueDomains
  <2> DEFINE rows == [i \in DOMAIN q |-> SnapshotOf(q[i])]
  <2>2. rows \in Seq(Snapshot)
    BY SelectionType
  <2>3. rows = << >> => q = << >>
    BY DEF Selections
  <2> HIDE DEF rows
  <2>4. sweep' = [sweep EXCEPT ![s] =
                [IdleSweep EXCEPT !.pc = IF q = << >> THEN "idle" ELSE "claiming",
                                  !.queue = rows]]
    BY <2>1 DEF rows
  <2>5. sweep' \in [Sweeps -> SweepRecord]
    BY <2>2, <2>4, <1>a DEF TypeOK, SweepRecord, IdleSweep
  <2>6. SweepShape'
    BY <2>3, <2>4 DEF SweepShape, TypeOK, IdleSweep
  <2>7. cron' \in [until: Nat, deliveries: Nat]
    BY <1>1 DEF SelectDueDomains, TypeOK
  <2> QED
    BY <1>1, <2>5, <2>6, <2>7 DEF SelectDueDomains, TypeOK, notices
<1>2. CASE ClaimNext(s)
  <2> DEFINE row == Head(sweep[s].queue)
             rest == Tail(sweep[s].queue)
             wins == ClaimWins(s, row)
             claimed == IF wins THEN Append(sweep[s].claimed, row) ELSE sweep[s].claimed
             pc == IF rest # << >> THEN "claiming"
                   ELSE IF claimed # << >> THEN "auditing" ELSE "idle"
  <2>1. sweep[s].queue # << >>
    BY <1>2 DEF ClaimNext, SweepShape
  <2>2. row \in Snapshot /\ rest \in Seq(Snapshot)
    BY <1>0, <2>1, HeadTailProperties DEF SweepRecord
  <2>3. claimed \in Seq(Snapshot)
    BY <1>0, <2>2, AppendProperties DEF SweepRecord
  <2>4. /\ sweep' = [sweep EXCEPT ![s].pc = pc, ![s].queue = rest, ![s].claimed = claimed]
        /\ domain' = IF wins
                     THEN [domain EXCEPT ![row.id].nextScanAt = ClaimLock - sweep[s].age]
                     ELSE domain
    BY <1>2 DEF ClaimNext
  <2> HIDE DEF row, rest, claimed, wins
  <2>5. sweep' \in [Sweeps -> SweepRecord]
    BY <1>0, <2>2, <2>3, <2>4 DEF TypeOK, SweepRecord
  <2>6. SweepShape'
    <3> SUFFICES ASSUME NEW t \in Sweeps
                 PROVE  /\ sweep'[t].pc = "claiming" => sweep'[t].queue # << >>
                        /\ sweep'[t].pc \in {"auditing", "succeeded", "failed", "threw", "recorded"}
                                => sweep'[t].claimed # << >>
                        /\ sweep'[t].pc = "failed" => sweep'[t].failure # NoFailure
      BY DEF SweepShape
    <3>1. CASE t = s
      <4>1. sweep'[s].pc = pc /\ sweep'[s].queue = rest /\ sweep'[s].claimed = claimed
        BY <1>0, <2>4 DEF TypeOK, SweepRecord
      <4>2. pc \in {"claiming", "auditing", "idle"}
        OBVIOUS
      <4> QED
        BY <3>1, <4>1, <4>2
    <3>2. CASE t # s
      BY <3>2, <2>4 DEF SweepShape, TypeOK
    <3> QED
      BY <3>1, <3>2
  <2>7. ClaimLock - sweep[s].age \in Int
    BY <1>0, DurationAssumption DEF SweepRecord
  <2>8. domain' \in [Domains -> Row]
    <3>1. row.id \in Domains
      BY <2>2 DEF Snapshot
    <3>2. [domain[row.id] EXCEPT !.nextScanAt = ClaimLock - sweep[s].age] \in Row
      BY <2>7, <3>1, RowFieldUpdates DEF TypeOK
    <3> QED
      BY <2>4, <3>1, <3>2 DEF TypeOK
  <2> QED
    BY <1>2, <2>5, <2>6, <2>8 DEF ClaimNext, TypeOK, notices
<1>3. CASE AuditSucceeds(s)
  <2>1. sweep' \in [Sweeps -> SweepRecord] /\ SweepShape'
    BY <1>3, <1>0 DEF AuditSucceeds, TypeOK, SweepRecord, SweepShape
  <2> QED
    BY <1>3, <2>1 DEF AuditSucceeds, TypeOK, notices
<1>4. CASE AuditFails(s)
  <2>1. Current(s) \in Snapshot
    BY <1>4, CurrentType DEF AuditFails, SweepShape
  <2>2. FailureOf(Current(s), nextEpisode) \in Failure
    <3>1. Current(s).episode = 0 => nextEpisode \in 1..MaxEpisodes
      BY <1>4, CountAssumption DEF AuditFails, TypeOK
    <3> QED
      BY <2>1, <3>1, CountAssumption DEF FailureOf, Failure, Snapshot
  <2> DEFINE f == FailureOf(Current(s), nextEpisode)
  <2>a. f # NoFailure
    BY <2>1 DEF FailureOf, NoFailure, Snapshot
  <2>b. sweep' = [sweep EXCEPT ![s].pc = "failed", ![s].failure = f]
    BY <1>4 DEF AuditFails
  <2> HIDE DEF f
  <2>3. sweep' \in [Sweeps -> SweepRecord] /\ SweepShape'
    <3>1. sweep' \in [Sweeps -> SweepRecord]
      BY <1>0, <2>2, <2>b DEF TypeOK, SweepRecord, f
    <3>2. SweepShape'
      BY <1>4, <1>0, <2>a, <2>b DEF AuditFails, TypeOK, SweepRecord, SweepShape
    <3> QED
      BY <3>1, <3>2
  <2>4. nextEpisode' \in 1..(MaxEpisodes + 1)
    BY <1>4, CountAssumption DEF AuditFails, TypeOK
  <2> QED
    BY <1>4, <2>3, <2>4 DEF AuditFails, TypeOK, notices
<1>5. CASE AuditThrows(s)
  <2>1. sweep' \in [Sweeps -> SweepRecord] /\ SweepShape'
    BY <1>5, <1>0 DEF AuditThrows, TypeOK, SweepRecord, SweepShape
  <2> QED
    BY <1>5, <2>1 DEF AuditThrows, TypeOK, notices
<1>6. CASE RecordSuccess(s)
  <2>1. Current(s) \in Snapshot
    BY <1>6, CurrentType DEF RecordSuccess, Recovered, SweepShape
  <2>2. sweep' \in [Sweeps -> SweepRecord] /\ SweepShape'
    BY <1>6, <1>0 DEF RecordSuccess, Recovered, TypeOK, SweepRecord, SweepShape
  <2>3. ComputeNextScanAt(Current(s).id) \in Int \cup {Null}
    BY <2>1, DateTypes DEF Snapshot
  <2>4. domain' \in [Domains -> Row]
    <3>1. Current(s).id \in Domains /\ 0 \in Nat /\ 0 \in 0..MaxEpisodes
      BY <2>1, CountAssumption DEF Snapshot
    <3>2. [domain[Current(s).id] EXCEPT
                !.nextScanAt = ComputeNextScanAt(Current(s).id),
                !.consecutiveFailureCount = 0, !.failureEpisodeId = 0] \in Row
      BY <2>3, <3>1, RowUpdate DEF TypeOK
    <3> QED
      BY <1>6, <3>1, <3>2 DEF RecordSuccess, Recovered, TypeOK
  <2> QED
    BY <1>6, <2>2, <2>4 DEF RecordSuccess, Recovered, TypeOK, notices
<1>7. CASE RecordTargetFailure(s)
  <2> DEFINE d == Current(s).id
             f == sweep[s].failure
             next == IF f.pause THEN Null ELSE BackoffNextScanAt(f.count, sweep[s].age)
             count == domain[d].consecutiveFailureCount + 1
             state == IF f.pause THEN "paused" ELSE domain[d].monitoringState
  <2>1. d \in Domains
    BY <1>7, CurrentType DEF RecordTargetFailure, SweepShape, Snapshot
  <2>2. sweep' \in [Sweeps -> SweepRecord] /\ SweepShape'
    BY <1>7, <1>0 DEF RecordTargetFailure, TypeOK, SweepRecord, SweepShape
  <2>3. /\ f.count \in Nat \ {0}
        /\ f.pause \in BOOLEAN
        /\ f.episode \in 0..MaxEpisodes
    <3>1. f \in Failure /\ f # NoFailure
      BY <1>0, <1>7 DEF SweepRecord, RecordTargetFailure, SweepShape
    <3> QED
      BY <3>1, CountAssumption DEF Failure
  <2>4. next \in Int \cup {Null}
    BY <1>0, <2>3, DateTypes DEF SweepRecord
  <2>5. domain' \in [Domains -> Row]
    <3>1. domain[d] \in Row /\ count \in Nat /\ state \in {"active", "paused"}
      BY <2>1 DEF TypeOK, Row
    <3>2. domain' = [domain EXCEPT ![d] =
                        [@ EXCEPT !.nextScanAt = next, !.consecutiveFailureCount = count,
                                  !.failureEpisodeId = f.episode, !.monitoringState = state]]
      BY <1>7 DEF RecordTargetFailure
    <3> HIDE DEF next, count, state
    <3>3. [domain[d] EXCEPT !.nextScanAt = next, !.consecutiveFailureCount = count,
                            !.failureEpisodeId = f.episode, !.monitoringState = state] \in Row
      BY <2>3, <2>4, <3>1, RowUpdate
    <3> QED
      BY <2>1, <3>2, <3>3 DEF TypeOK
  <2> QED
    BY <1>7, <2>2, <2>5 DEF RecordTargetFailure, TypeOK, notices
<1>8. CASE RecordPlatformFailure(s)
  <2>1. sweep' \in [Sweeps -> SweepRecord] /\ SweepShape'
    BY <1>8, <1>0 DEF RecordPlatformFailure, TypeOK, SweepRecord, SweepShape, Failure
  <2> QED
    BY <1>8, <2>1 DEF RecordPlatformFailure, TypeOK, notices
<1>9. CASE FinishDomain(s)
  <2> DEFINE rest == Tail(sweep[s].claimed)
             f == sweep[s].failure
  <2>1. rest \in Seq(Snapshot)
    BY <1>9, CurrentType DEF FinishDomain, SweepShape
  <2>2. /\ occurrences' \in [1..MaxEpisodes -> Nat]
        /\ pausedNotices' \subseteq 1..MaxEpisodes
    <3>1. CASE f = NoFailure
      BY <1>9, <3>1 DEF FinishDomain, notices, TypeOK
    <3>2. CASE f # NoFailure
      <4>1. f.count \in Nat /\ f.episode \in 1..MaxEpisodes
        BY <1>0, <3>2 DEF SweepRecord, Failure
      <4>2. OccurrenceAfter(f) \in Nat
        BY <4>1 DEF OccurrenceAfter, TypeOK
      <4> QED
        BY <1>9, <3>2, <4>1, <4>2 DEF FinishDomain, NotifyTargetFailure, notices, TypeOK
    <3> QED
      BY <3>1, <3>2
  <2> HIDE DEF rest
  <2>3. sweep' = [sweep EXCEPT ![s] =
                        IF rest = << >> THEN IdleSweep
                        ELSE [sweep[s] EXCEPT !.pc = "auditing", !.claimed = rest,
                                              !.failure = NoFailure]]
    BY <1>9 DEF FinishDomain, TypeOK, rest
  <2>4. [sweep[s] EXCEPT !.pc = "auditing", !.claimed = rest, !.failure = NoFailure]
            \in SweepRecord
    BY <1>0, <2>1 DEF SweepRecord, Failure
  <2>5. sweep' \in [Sweeps -> SweepRecord]
    BY <2>3, <2>4, <1>a DEF TypeOK
  <2>6. SweepShape'
    BY <2>3, <1>0 DEF SweepShape, TypeOK, IdleSweep, SweepRecord
  <2> QED
    BY <1>9, <2>2, <2>5, <2>6 DEF FinishDomain, TypeOK
<1>10. CASE SweepDies(s)
  <2>1. sweep' \in [Sweeps -> SweepRecord] /\ SweepShape'
    BY <1>10, <1>a DEF SweepDies, TypeOK, IdleSweep, SweepShape
  <2> QED
    BY <1>10, <2>1 DEF SweepDies, TypeOK, notices
<1> QED
  BY <1>1, <1>2, <1>3, <1>4, <1>5, <1>6, <1>7, <1>8, <1>9, <1>10 DEF SweepStep

LEMMA RescanStepType ==
    ASSUME TInv, NEW r \in Rescans, RescanStep(r) \/ RescanDies(r)
    PROVE  TInv'
<1> USE DEF TInv
<1>0. rescan[r] \in RescanRecord /\ rescan[r].id \in Domains
  BY DEF TypeOK, RescanRecord
<1>1. CASE AdmitRescan(r)
  <2>1. rescan' \in [Rescans -> RescanRecord]
    BY <1>1 DEF AdmitRescan, TypeOK, RescanRecord
  <2> QED
    BY <1>1, <2>1 DEF AdmitRescan, TypeOK, SweepShape, notices
<1>2. CASE TryClaimScanLock(r)
  <2>1. rescan' \in [Rescans -> RescanRecord]
    <3>1. rescan' \in {[rescan EXCEPT ![r].pc = "scanning"], [rescan EXCEPT ![r].pc = "idle"]}
      BY <1>2 DEF TryClaimScanLock
    <3> QED
      BY <1>0, <3>1, RescanUpdates DEF TypeOK
  <2>2. domain' \in [Domains -> Row]
    <3>1. [domain[rescan[r].id] EXCEPT !.scanLockUntil = ScanLock] \in Row
      BY <1>0, RowFieldUpdates, DurationAssumption DEF TypeOK
    <3> QED
      BY <1>0, <1>2, <3>1 DEF TryClaimScanLock, TypeOK
  <2> QED
    BY <1>2, <2>1, <2>2 DEF TryClaimScanLock, TypeOK, SweepShape, notices
<1>3. CASE PersistRescan(r)
  <2>1. rescan' \in [Rescans -> RescanRecord]
    BY <1>0, <1>3 DEF PersistRescan, TypeOK, RescanRecord
  <2>2. manualScans' \in [Domains -> Nat]
    BY <1>0, <1>3 DEF PersistRescan, TypeOK
  <2> QED
    BY <1>3, <2>1, <2>2 DEF PersistRescan, TypeOK, SweepShape, notices
<1>4. CASE RecordRescan(r)
  <2>1. rescan' \in [Rescans -> RescanRecord]
    BY <1>0, <1>4 DEF RecordRescan, TypeOK, RescanRecord
  <2>2. domain' \in [Domains -> Row]
    <3>1. [domain[rescan[r].id] EXCEPT !.nextScanAt = ComputeNextScanAt(rescan[r].id)] \in Row
      BY <1>0, RowFieldUpdates, DateTypes DEF TypeOK
    <3> QED
      BY <1>0, <1>4, <3>1 DEF RecordRescan, TypeOK
  <2> QED
    BY <1>4, <2>1, <2>2 DEF RecordRescan, TypeOK, SweepShape, notices
<1>5. CASE RescanThrows(r)
  <2>1. rescan' \in [Rescans -> RescanRecord]
    BY <1>0, <1>5 DEF RescanThrows, TypeOK, RescanRecord
  <2> QED
    BY <1>5, <2>1 DEF RescanThrows, TypeOK, SweepShape, notices
<1>6. CASE ReleaseScanLock(r)
  <2>1. rescan' \in [Rescans -> RescanRecord]
    BY <1>0, <1>6 DEF ReleaseScanLock, TypeOK, RescanRecord
  <2>2. domain' \in [Domains -> Row]
    <3>1. [domain[rescan[r].id] EXCEPT !.scanLockUntil = 0] \in Row
      BY <1>0, RowFieldUpdates DEF TypeOK
    <3> QED
      BY <1>0, <1>6, <3>1 DEF ReleaseScanLock, TypeOK
  <2> QED
    BY <1>6, <2>1, <2>2 DEF ReleaseScanLock, TypeOK, SweepShape, notices
<1>7. CASE RescanDies(r)
  <2>1. rescan' \in [Rescans -> RescanRecord]
    BY <1>0, <1>7 DEF RescanDies, TypeOK, RescanRecord
  <2> QED
    BY <1>7, <2>1 DEF RescanDies, TypeOK, SweepShape, notices
<1> QED
  BY <1>1, <1>2, <1>3, <1>4, <1>5, <1>6, <1>7 DEF RescanStep

LEMMA AdminScanType ==
    ASSUME TInv, NEW a \in AdminScans, ReadForAdminScan(a) \/ RecordAdminScan(a)
    PROVE  TInv'
<1> USE DEF TInv
<1>0. adminScan[a] \in AdminRecord
  BY DEF TypeOK
<1>1. CASE ReadForAdminScan(a)
  <2>1. adminScan' \in [AdminScans -> AdminRecord]
    BY <1>0, <1>1 DEF ReadForAdminScan, TypeOK, AdminRecord, Row
  <2> QED
    BY <1>1, <2>1 DEF ReadForAdminScan, TypeOK, SweepShape, notices
<1>2. CASE RecordAdminScan(a)
  <2>1. adminScan' \in [AdminScans -> AdminRecord]
    BY <1>0, <1>2 DEF RecordAdminScan, TypeOK, AdminRecord
  <2>2. domain' \in [Domains -> Row]
    <3>1. adminScan[a].id \in Domains /\ adminScan[a].nextScanAt \in Int \cup {Null}
      BY <1>0 DEF AdminRecord
    <3>2. [domain[adminScan[a].id] EXCEPT !.nextScanAt = adminScan[a].nextScanAt] \in Row
      BY <3>1, RowFieldUpdates DEF TypeOK
    <3> QED
      BY <1>2, <3>1, <3>2 DEF RecordAdminScan, TypeOK
  <2> QED
    BY <1>2, <2>1, <2>2 DEF RecordAdminScan, TypeOK, SweepShape, notices
<1> QED
  BY <1>1, <1>2

LEMMA OwnerStepType ==
    ASSUME TInv, NEW d \in Domains, OwnerStep(d)
    PROVE  TInv'
<1> USE DEF TInv
<1>0. domain[d] \in Row
  BY DEF TypeOK
<1>1. ASSUME NEW state \in {"active", "paused"}, SetMonitoringState(d, state)
      PROVE  TInv'
  <2>1. [domain[d] EXCEPT !.monitoringState = state] \in Row
    BY <1>0, RowFieldUpdates
  <2> QED
    BY <1>1, <2>1 DEF SetMonitoringState, TypeOK, SweepShape, notices
<1>2. CASE SoftDeleteDomain(d)
  <2>1. [domain[d] EXCEPT !.deleted = TRUE] \in Row
    BY <1>0, RowFieldUpdates
  <2> QED
    BY <1>2, <2>1 DEF SoftDeleteDomain, TypeOK, SweepShape, notices
<1>3. CASE ScheduleReEvaluation(d)
  <2>1. [domain[d] EXCEPT !.nextScanAt = 0] \in Row
    <3> 0 \in Int \cup {Null}
      OBVIOUS
    <3> QED
      BY <1>0, RowFieldUpdates
  <2> QED
    BY <1>3, <2>1 DEF ScheduleReEvaluation, TypeOK, SweepShape, notices
<1> QED
  BY <1>1, <1>2, <1>3 DEF OwnerStep

LEMMA TickType ==
    ASSUME TInv, Tick
    PROVE  TInv'
<1> USE DEF TInv
<1>1. domain' \in [Domains -> Row]
  <2> SUFFICES ASSUME NEW d \in Domains
               PROVE  [domain[d] EXCEPT !.nextScanAt = Earlier(domain[d].nextScanAt),
                                        !.scanLockUntil = Remaining(domain[d].scanLockUntil)] \in Row
    BY DEF Tick, TypeOK, Row
  <2>1. /\ domain[d] \in Row
        /\ Earlier(domain[d].nextScanAt) \in Int \cup {Null}
        /\ Remaining(domain[d].scanLockUntil) \in Nat
    BY DateTypes DEF TypeOK, Row
  <2> QED
    BY <2>1, RowFieldUpdates
<1>2. sweep' \in [Sweeps -> SweepRecord] /\ SweepShape'
  <2>1. ASSUME NEW s \in Sweeps
        PROVE  LET age == IF sweep[s].pc = "idle" THEN 0 ELSE sweep[s].age + 1
               IN  [sweep[s] EXCEPT !.age = age] \in SweepRecord
    <3> DEFINE age == IF sweep[s].pc = "idle" THEN 0 ELSE sweep[s].age + 1
    <3>1. sweep[s] \in SweepRecord /\ age \in Nat
      BY DEF TypeOK, SweepRecord
    <3> HIDE DEF age
    <3>2. [sweep[s] EXCEPT !.age = age] \in SweepRecord
      BY <3>1 DEF SweepRecord
    <3> QED
      BY <3>2 DEF age
  <2>2. sweep' = [s \in Sweeps |->
            [sweep[s] EXCEPT !.age = IF sweep[s].pc = "idle" THEN 0 ELSE sweep[s].age + 1]]
    BY DEF Tick, TypeOK, SweepRecord
  <2>3. sweep' \in [Sweeps -> SweepRecord]
    BY <2>1, <2>2
  <2>4. SweepShape'
    BY <2>2 DEF TypeOK, SweepRecord, SweepShape
  <2> QED
    BY <2>3, <2>4
<1>3. rescan' \in [Rescans -> RescanRecord]
  <2> SUFFICES ASSUME NEW r \in Rescans
               PROVE  rescan'[r] \in RescanRecord
    BY DEF Tick
  <2>1. CASE InLock(r)
    <3>1. rescan'[r] = [rescan[r] EXCEPT !.age = rescan[r].age + 1]
      BY <2>1 DEF Tick, TypeOK, RescanRecord
    <3>2. rescan[r] \in RescanRecord /\ rescan[r].age + 1 \in Nat
      BY DEF TypeOK, RescanRecord
    <3> QED
      BY <3>1, <3>2, RescanUpdates
  <2>2. CASE ~InLock(r)
    <3>1. rescan'[r] = [rescan[r] EXCEPT !.age = 0]
      BY <2>2 DEF Tick
    <3>2. rescan[r] \in RescanRecord /\ 0 \in Nat
      BY DEF TypeOK
    <3> QED
      BY <3>1, <3>2, RescanUpdates
  <2> QED
    BY <2>1, <2>2
<1>4. adminScan' \in [AdminScans -> AdminRecord]
  BY DateTypes DEF Tick, TypeOK, AdminRecord
<1>5. cron' \in [until: Nat, deliveries: Nat]
  <2>1. (IF cron.until = 0 THEN Day - 1 ELSE cron.until - 1) \in Nat
    BY DurationAssumption DEF TypeOK
  <2> QED
    BY <2>1 DEF Tick
<1> QED
  BY <1>1, <1>2, <1>3, <1>4, <1>5 DEF Tick, TypeOK, notices

LEMMA NextType == TInv /\ [Next]_vars => TInv'
<1> SUFFICES ASSUME TInv, [Next]_vars PROVE TInv'
  OBVIOUS
<1>1. CASE NewMonth
  BY <1>1 DEF NewMonth, TInv, TypeOK, SweepShape, notices
<1>2. CASE UNCHANGED vars
  BY <1>2 DEF vars, TInv, TypeOK, SweepShape
<1> QED
  BY <1>1, <1>2, SweepStepType, RescanStepType, AdminScanType, OwnerStepType, TickType
     DEF Next

\* Every variable keeps to its type, and a sweep that reads the domain it is
\* working on always has one: the loops of claimDueDomains and
\* runMonitoringSweep never run past the end of their lists.
THEOREM TypeCorrect == Spec => []TypeOK
<1>1. TInv => TypeOK
  BY DEF TInv
<1> QED
  BY <1>1, InitType, NextType, PTL DEF Spec

-----------------------------------------------------------------------------
(* Mutual exclusion of manual rescans *)

\* While a rescan is past its claim, the lock it set is still running: it has
\* lost exactly the rescan's age, which the rescan's budget keeps below
\* ScanLock.  Without this a second claim could not be ruled out, since the
\* lock does not name its holder.
LockInv ==
    \A r \in Rescans :
        /\ InLock(r) => /\ rescan[r].age <= MaxRescanAge
                        /\ domain[rescan[r].id].scanLockUntil = ScanLock - rescan[r].age
        /\ ~InLock(r) => rescan[r].age = 0

RInv == TInv /\ LockInv /\ ManualRescansExclusive

LocksKept ==
    \A d \in Domains : domain'[d].scanLockUntil = domain[d].scanLockUntil

LEMMA KeptLocks ==
    ASSUME RInv, TInv', LocksKept, UNCHANGED rescan
    PROVE  RInv'
<1>1. \A r \in Rescans : rescan[r].id \in Domains /\ InLock(r)' = InLock(r)
  BY DEF RInv, TInv, TypeOK, RescanRecord, InLock
<1>2. LockInv'
  BY <1>1 DEF RInv, LockInv, LocksKept
<1>3. ManualRescansExclusive'
  BY <1>1 DEF RInv, ManualRescansExclusive
<1> QED
  BY <1>2, <1>3 DEF RInv

LEMMA SweepKeepsLocks ==
    ASSUME TInv, NEW s \in Sweeps, SweepStep(s) \/ SweepDies(s)
    PROVE  LocksKept /\ UNCHANGED rescan
<1> USE DEF TInv, TypeOK, Row, LocksKept
<1>1. CASE UNCHANGED <<domain, rescan>>
  BY <1>1
<1>2. CASE ClaimNext(s)
  BY <1>2 DEF ClaimNext
<1>3. CASE RecordSuccess(s)
  BY <1>3 DEF RecordSuccess, Recovered
<1>4. CASE RecordTargetFailure(s)
  BY <1>4 DEF RecordTargetFailure
<1> QED
  BY <1>1, <1>2, <1>3, <1>4
     DEF SweepStep, SweepDies, SelectDueDomains, AuditSucceeds, AuditFails,
         AuditThrows, RecordPlatformFailure, FinishDomain

LEMMA RescanStepExcludes ==
    ASSUME RInv, TInv', NEW r \in Rescans, RescanStep(r) \/ RescanDies(r)
    PROVE  RInv'
<1> USE DEF RInv
<1>0. /\ \A q \in Rescans : rescan[q] \in RescanRecord /\ rescan[q].id \in Domains
      /\ domain \in [Domains -> Row] /\ rescan \in [Rescans -> RescanRecord]
  BY DEF TInv, TypeOK, RescanRecord
\* A rescan that enters no lock and leaves none keeps the invariant.
<1>1. ASSUME LocksKept,
             \A q \in Rescans : /\ InLock(q)' => /\ InLock(q)
                                               /\ rescan'[q].id = rescan[q].id
                                /\ InLock(q)' => rescan'[q].age = rescan[q].age
                                /\ ~InLock(q)' => rescan'[q].age = 0
      PROVE  LockInv' /\ ManualRescansExclusive'
  BY <1>0, <1>1 DEF LockInv, ManualRescansExclusive, LocksKept
<1>2. CASE AdmitRescan(r)
  <2>1. LocksKept
    BY <1>2 DEF AdmitRescan, LocksKept
  <2>2. \A q \in Rescans : q # r => rescan'[q] = rescan[q]
    BY <1>0, <1>2 DEF AdmitRescan
  <2>3. ~InLock(r)' /\ rescan'[r].age = 0
    BY <1>0, <1>2 DEF AdmitRescan, InLock
  <2> QED
    BY <1>1, <2>1, <2>2, <2>3 DEF InLock, LockInv
<1>3. CASE TryClaimScanLock(r)
  <2> DEFINE d == rescan[r].id
  <2>1. ~InLock(r) /\ rescan[r].age = 0
    BY <1>3 DEF TryClaimScanLock, InLock, LockInv
  <2>2. \A q \in Rescans : q # r => rescan'[q] = rescan[q]
    BY <1>0, <1>3 DEF TryClaimScanLock
  <2>3. rescan'[r].age = 0 /\ rescan'[r].id = d
    BY <1>0, <1>3, <2>1 DEF TryClaimScanLock, RescanRecord
  <2>4. CASE LockFree(d)
    <3>1. domain' = [domain EXCEPT ![d].scanLockUntil = ScanLock]
      BY <1>3, <2>4 DEF TryClaimScanLock
    <3>2. \A q \in Rescans : InLock(q) => rescan[q].id # d
      BY <1>0, <2>4, DurationAssumption DEF LockInv, LockFree, RescanRecord
    <3>3. domain'[d].scanLockUntil = ScanLock
      BY <1>0, <3>1 DEF Row
    <3>4. \A c \in Domains : c # d => domain'[c] = domain[c]
      BY <1>0, <3>1
    <3>5. LockInv'
      BY <1>0, <2>2, <2>3, <3>2, <3>3, <3>4, DurationAssumption DEF LockInv, InLock
    <3>6. ManualRescansExclusive'
      BY <2>2, <2>3, <3>2 DEF ManualRescansExclusive, InLock
    <3> QED
      BY <3>5, <3>6
  <2>5. CASE ~LockFree(d)
    <3>1. UNCHANGED domain /\ rescan' = [rescan EXCEPT ![r].pc = "idle"]
      BY <1>3, <2>5 DEF TryClaimScanLock
    <3>2. ~InLock(r)' /\ LocksKept
      BY <1>0, <3>1 DEF InLock, RescanRecord, LocksKept
    <3> QED
      BY <1>1, <2>2, <2>3, <3>2 DEF InLock, LockInv
  <2> QED
    BY <2>4, <2>5
<1>4. CASE PersistRescan(r) \/ RecordRescan(r) \/ RescanThrows(r)
  <2>1. LocksKept
    BY <1>0, <1>4 DEF PersistRescan, RecordRescan, RescanThrows, LocksKept, Row
  <2>2. \A q \in Rescans : q # r => rescan'[q] = rescan[q]
    BY <1>0, <1>4 DEF PersistRescan, RecordRescan, RescanThrows
  <2>3. /\ InLock(r) /\ InLock(r)'
        /\ rescan'[r].id = rescan[r].id /\ rescan'[r].age = rescan[r].age
    BY <1>0, <1>4 DEF PersistRescan, RecordRescan, RescanThrows, InLock, RescanRecord
  <2> QED
    BY <1>1, <2>1, <2>2, <2>3 DEF InLock, LockInv
<1>5. CASE ReleaseScanLock(r)
  <2> DEFINE d == rescan[r].id
  <2>1. InLock(r)
    BY <1>5 DEF ReleaseScanLock, InLock
  <2>2. \A q \in Rescans : q # r => rescan'[q] = rescan[q]
    BY <1>0, <1>5 DEF ReleaseScanLock
  <2>3. ~InLock(r)' /\ rescan'[r].age = 0
    BY <1>0, <1>5 DEF ReleaseScanLock, InLock, RescanRecord
  <2>4. \A q \in Rescans : InLock(q) /\ q # r => rescan[q].id # d
    BY <2>1 DEF ManualRescansExclusive
  <2>5. \A c \in Domains : c # d => domain'[c] = domain[c]
    BY <1>0, <1>5 DEF ReleaseScanLock
  <2>6. LockInv'
    BY <1>0, <2>2, <2>3, <2>4, <2>5 DEF LockInv, InLock
  <2>7. ManualRescansExclusive'
    BY <2>2, <2>3 DEF ManualRescansExclusive, InLock
  <2> QED
    BY <2>6, <2>7
<1>6. CASE RescanDies(r)
  <2>1. LocksKept
    BY <1>6 DEF RescanDies, LocksKept
  <2>2. \A q \in Rescans : q # r => rescan'[q] = rescan[q]
    BY <1>0, <1>6 DEF RescanDies
  <2>3. ~InLock(r)' /\ rescan'[r].age = 0
    BY <1>0, <1>6 DEF RescanDies, InLock, RescanRecord
  <2> QED
    BY <1>1, <2>1, <2>2, <2>3 DEF InLock, LockInv
<1> QED
  BY <1>2, <1>3, <1>4, <1>5, <1>6 DEF RescanStep

LEMMA TickExcludes ==
    ASSUME RInv, TInv', Tick
    PROVE  RInv'
<1> USE DEF RInv
<1>1. \A r \in Rescans : /\ rescan[r] \in RescanRecord /\ rescan[r].id \in Domains
                         /\ rescan'[r].pc = rescan[r].pc /\ rescan'[r].id = rescan[r].id
                         /\ rescan'[r].age = IF InLock(r) THEN rescan[r].age + 1 ELSE 0
  <2> TAKE r \in Rescans
  <2>1. rescan[r] \in RescanRecord
    BY DEF TInv, TypeOK
  <2>2. rescan'[r] = [rescan[r] EXCEPT !.age = IF InLock(r) THEN @ + 1 ELSE 0]
    BY DEF Tick
  <2> QED
    BY <2>1, <2>2 DEF RescanRecord
<1>2. \A d \in Domains : domain'[d].scanLockUntil = Remaining(domain[d].scanLockUntil)
  <2> TAKE d \in Domains
  <2>1. domain[d] \in Row
    BY DEF TInv, TypeOK
  <2>2. domain'[d] = [domain[d] EXCEPT !.nextScanAt = Earlier(@), !.scanLockUntil = Remaining(@)]
    BY DEF Tick
  <2> QED
    BY <2>1, <2>2 DEF Row
<1>3. \A r \in Rescans : InLock(r)' = InLock(r)
  BY <1>1 DEF InLock
<1>4. ASSUME NEW r \in Rescans, InLock(r)
      PROVE  /\ rescan'[r].age <= MaxRescanAge
             /\ domain'[rescan[r].id].scanLockUntil = ScanLock - rescan'[r].age
  <2>1. rescan[r].age < MaxRescanAge
    BY <1>4 DEF Tick
  <2>2. domain[rescan[r].id].scanLockUntil = ScanLock - rescan[r].age
    BY <1>4 DEF LockInv
  <2> QED
    BY <1>1, <1>2, <1>4, <2>1, <2>2, DurationAssumption DEF RescanRecord, Remaining
<1>5. LockInv'
  BY <1>1, <1>3, <1>4 DEF LockInv
<1>6. ManualRescansExclusive'
  BY <1>1, <1>3 DEF ManualRescansExclusive
<1> QED
  BY <1>5, <1>6

LEMMA NextExcludes == RInv /\ [Next]_vars => RInv'
<1> SUFFICES ASSUME RInv, [Next]_vars PROVE RInv'
  OBVIOUS
<1>0. TInv /\ TInv'
  BY NextType DEF RInv
<1>1. ASSUME NEW s \in Sweeps, SweepStep(s) \/ SweepDies(s) PROVE RInv'
  BY <1>0, <1>1, SweepKeepsLocks, KeptLocks
<1>2. ASSUME NEW r \in Rescans, RescanStep(r) \/ RescanDies(r) PROVE RInv'
  BY <1>0, <1>2, RescanStepExcludes
<1>3. ASSUME NEW a \in AdminScans, ReadForAdminScan(a) \/ RecordAdminScan(a) PROVE RInv'
  <2>1. LocksKept /\ UNCHANGED rescan
    <3> USE DEF LocksKept, TInv, TypeOK, Row
    <3>1. CASE ReadForAdminScan(a)
      BY <3>1 DEF ReadForAdminScan
    <3>2. CASE RecordAdminScan(a)
      BY <1>0, <3>2 DEF RecordAdminScan
    <3> QED
      BY <1>3, <3>1, <3>2
  <2> QED
    BY <1>0, <2>1, KeptLocks
<1>4. ASSUME NEW d \in Domains, OwnerStep(d) PROVE RInv'
  <2>1. LocksKept /\ UNCHANGED rescan
    <3> USE DEF LocksKept, TInv, TypeOK, Row
    <3>1. ASSUME NEW state, SetMonitoringState(d, state)
          PROVE  LocksKept /\ UNCHANGED rescan
      BY <1>0, <3>1 DEF SetMonitoringState
    <3>2. CASE SoftDeleteDomain(d)
      BY <1>0, <3>2 DEF SoftDeleteDomain
    <3>3. CASE ScheduleReEvaluation(d)
      BY <1>0, <3>3 DEF ScheduleReEvaluation
    <3> QED
      BY <1>4, <3>1, <3>2, <3>3 DEF OwnerStep
  <2> QED
    BY <1>0, <2>1, KeptLocks
<1>5. CASE NewMonth \/ UNCHANGED vars
  <2>1. LocksKept /\ UNCHANGED rescan
    BY <1>5 DEF NewMonth, vars, LocksKept
  <2> QED
    BY <1>0, <2>1, KeptLocks
<1>6. CASE Tick
  BY <1>0, <1>6, TickExcludes
<1> QED
  BY <1>1, <1>2, <1>3, <1>4, <1>5, <1>6 DEF Next

\* At most one manual rescan of a domain is past tryClaimScanLock and not yet
\* past releaseScanLock, however many requests race, whichever of them are
\* killed, and although releaseScanLock clears a lock without asking whose it
\* is: a rescan's budget ends before its lock does.
THEOREM RescansExclusive == Spec => []ManualRescansExclusive
<1>1. Init => RInv
  <2> SUFFICES ASSUME Init PROVE LockInv /\ ManualRescansExclusive
    BY InitType DEF RInv
  <2>1. \A r \in Rescans : rescan[r].pc = "idle" /\ rescan[r].age = 0
    BY DEF Init
  <2> QED
    BY <2>1 DEF LockInv, ManualRescansExclusive, InLock
<1>2. RInv => ManualRescansExclusive
  BY DEF RInv
<1> QED
  BY <1>1, <1>2, NextExcludes, PTL DEF Spec

-----------------------------------------------------------------------------
(* Mutual exclusion of scheduled scans *)

\* Nobody puts a date back or brings one forward: admin scans and registry
\* publications do, and can undo a claim (MonitoringClaimUndone.cfg).
NoOverrides == AdminScans = {} /\ ReEvaluated = {}

\* The sweeps that run were all started by the last cron, so they have one age.
Age == IF cron.until = 0 THEN 0 ELSE Day - cron.until

SweepClock ==
    /\ cron.until < Day
    /\ \A s \in Sweeps :
            sweep[s].pc # "idle" => sweep[s].age <= MaxSweepAge /\ sweep[s].age = Age

\* What a sweep has written or claimed is due to no sweep of the same cron.
Quiet == IF ClaimLock < Day THEN ClaimLock ELSE Day

Protected(d) ==
    /\ domain[d].nextScanAt # Null
    /\ domain[d].nextScanAt + Age >= Quiet

HeldAt(s, i) == i \in 1..Len(sweep[s].claimed) /\ (i > 1 \/ sweep[s].pc # "recorded")

HeldId(s, i) == sweep[s].claimed[i].id

\* The lists of sweep s.
RowsOf(s) ==
    /\ sweep[s].pc \in {"idle", "claiming"} => sweep[s].failure = NoFailure
    /\ sweep[s].pc = "idle" => sweep[s].queue = << >> /\ sweep[s].claimed = << >>
    /\ \A i \in 1..Len(sweep[s].queue) :
            sweep[s].queue[i].eligible => Frequency[sweep[s].queue[i].id] # "none"
    /\ \A i \in 1..Len(sweep[s].claimed) : Frequency[HeldId(s, i)] # "none"

SweepRows == \A s \in Sweeps : RowsOf(s)

HeldProtected ==
    \A s \in Sweeps : \A i \in 1..Len(sweep[s].claimed) :
        HeldAt(s, i) => Protected(HeldId(s, i))

HeldOnce ==
    \A s, t \in Sweeps : \A i \in 1..Len(sweep[s].claimed), j \in 1..Len(sweep[t].claimed) :
        HeldAt(s, i) /\ HeldAt(t, j) /\ HeldId(s, i) = HeldId(t, j) => s = t /\ i = j

CInv == TInv /\ SweepClock /\ SweepRows /\ HeldProtected /\ HeldOnce

\* A protected date stays so, whatever else happens to the domain.
DatesKept ==
    \A d \in Domains : Frequency[d] # "none" /\ Protected(d) => Protected(d)'

\* Where sweep s holds row i after the step, it held row i + k of before.
Shifts(s, k) ==
    \A i \in 1..Len(sweep'[s].claimed) :
        /\ sweep'[s].claimed[i] = sweep[s].claimed[i + k]
        /\ i + k \in 1..Len(sweep[s].claimed)
        /\ HeldAt(s, i)' => HeldAt(s, i + k)

LEMMA HeldTypes ==
    ASSUME TInv, NEW s \in Sweeps
    PROVE  /\ sweep[s] \in SweepRecord
           /\ Len(sweep[s].claimed) \in Nat /\ Len(sweep[s].queue) \in Nat
           /\ \A i \in 1..Len(sweep[s].claimed) :
                sweep[s].claimed[i] \in Snapshot /\ HeldId(s, i) \in Domains
           /\ \A i \in 1..Len(sweep[s].queue) :
                sweep[s].queue[i] \in Snapshot /\ sweep[s].queue[i].id \in Domains
<1>1. sweep[s] \in SweepRecord
  BY DEF TInv, TypeOK
<1>2. sweep[s].claimed \in Seq(Snapshot) /\ sweep[s].queue \in Seq(Snapshot)
  BY <1>1 DEF SweepRecord
<1>3. Len(sweep[s].claimed) \in Nat /\ Len(sweep[s].queue) \in Nat
  BY <1>2, LenProperties
<1>4. /\ \A i \in 1..Len(sweep[s].claimed) : sweep[s].claimed[i] \in Snapshot
      /\ \A i \in 1..Len(sweep[s].queue) : sweep[s].queue[i] \in Snapshot
  BY <1>2, ElementOfSeq
<1> QED
  BY <1>1, <1>3, <1>4 DEF Snapshot, HeldId

LEMMA QuietBounds ==
    /\ Quiet \in Int /\ Quiet <= ClaimLock /\ Quiet <= Day /\ MaxSweepAge < Quiet
    /\ \A d \in Domains : Frequency[d] # "none" =>
            ComputeNextScanAt(d) \in Int /\ ComputeNextScanAt(d) >= Quiet
    /\ \A n \in Nat \ {0}, a \in Nat : BackoffNextScanAt(n, a) >= Quiet - a
<1>1. Quiet \in Int /\ Quiet <= ClaimLock /\ Quiet <= Day /\ MaxSweepAge < Quiet
  BY DurationAssumption DEF Quiet
<1>2. ASSUME NEW d \in Domains, Frequency[d] # "none"
      PROVE  ComputeNextScanAt(d) \in Int /\ ComputeNextScanAt(d) >= Day
  <2>1. Frequency[d] \in {"weekly", "monthly"}
    BY <1>2, DomainsAssumption
  <2> QED
    BY <2>1, DurationAssumption DEF ComputeNextScanAt
<1>3. ASSUME NEW n \in Nat \ {0}, NEW a \in Nat
      PROVE  BackoffNextScanAt(n, a) \in Int /\ BackoffNextScanAt(n, a) >= Day - a
  <2>1. BackoffDays(n) \in Nat /\ BackoffDays(n) >= 1
    BY DEF BackoffDays
  <2>2. Day * BackoffDays(n) >= Day
    BY <2>1, DurationAssumption
  <2> QED
    BY <2>1, <2>2, DurationAssumption DEF BackoffNextScanAt
<1>4. \A n \in Nat \ {0}, a \in Nat : BackoffNextScanAt(n, a) >= Quiet - a
  BY <1>1, <1>3, DurationAssumption
<1>5. \A d \in Domains : Frequency[d] # "none" =>
            ComputeNextScanAt(d) \in Int /\ ComputeNextScanAt(d) >= Quiet
  BY <1>1, <1>2, DurationAssumption
<1> QED
  BY <1>1, <1>4, <1>5

LEMMA RowsOfOthers ==
    ASSUME SweepRows, NEW s \in Sweeps, RowsOf(s)',
           \A t \in Sweeps : t # s => sweep'[t] = sweep[t]
    PROVE  SweepRows'
<1>1. \A t \in Sweeps : t # s => RowsOf(t)'
  BY DEF SweepRows, RowsOf, HeldId
<1> QED
  BY <1>1 DEF SweepRows

\* Where the clock stands, the claims of the others are left alone and those of
\* s shrink at most, nothing of the invariant is lost.
LEMMA ShiftKeepsClaims ==
    ASSUME CInv, TInv', SweepClock', SweepRows', NEW s \in Sweeps, NEW k \in {0, 1},
           Shifts(s, k), \A t \in Sweeps : t # s => sweep'[t] = sweep[t],
           \A t \in Sweeps : \A i \in 1..Len(sweep'[t].claimed), d \in Domains :
                HeldAt(t, i)' /\ sweep'[t].claimed[i].id = d /\ Protected(d) => Protected(d)'
    PROVE  CInv'
<1> USE DEF CInv
<1>1. \A t \in Sweeps : \A i \in 1..Len(sweep'[t].claimed) :
            /\ i \in Nat
            /\ HeldAt(t, i)' => HeldAt(t, IF t = s THEN i + k ELSE i)
            /\ HeldId(t, i)' = HeldId(t, IF t = s THEN i + k ELSE i)
            /\ (IF t = s THEN i + k ELSE i) \in 1..Len(sweep[t].claimed)
  BY HeldTypes DEF Shifts, HeldAt, HeldId
<1>2. HeldProtected'
  <2> SUFFICES ASSUME NEW t \in Sweeps, NEW i \in 1..Len(sweep'[t].claimed), HeldAt(t, i)',
                      NEW d \in Domains, d = sweep'[t].claimed[i].id
               PROVE  Protected(d)'
    <3>1. \A t \in Sweeps : \A i \in 1..Len(sweep'[t].claimed) :
                sweep'[t].claimed[i].id \in Domains
      BY HeldTypes, <1>1 DEF HeldId
    <3> QED
      BY <3>1 DEF HeldProtected, HeldId
  <2> DEFINE j == IF t = s THEN i + k ELSE i
  <2>1. HeldAt(t, j) /\ HeldId(t, i)' = HeldId(t, j) /\ j \in 1..Len(sweep[t].claimed)
    BY <1>1
  <2> HIDE DEF j
  <2>2. Protected(d)
    BY <2>1 DEF HeldProtected, HeldId
  <2> QED
    BY <2>1, <2>2
<1>3. HeldOnce'
  <2> SUFFICES ASSUME NEW t \in Sweeps, NEW u \in Sweeps,
                      NEW i \in 1..Len(sweep'[t].claimed), NEW j \in 1..Len(sweep'[u].claimed),
                      HeldAt(t, i)', HeldAt(u, j)', HeldId(t, i)' = HeldId(u, j)'
               PROVE  t = u /\ i = j
    BY DEF HeldOnce
  <2> DEFINE x == IF t = s THEN i + k ELSE i
             y == IF u = s THEN j + k ELSE j
  <2>1. /\ i \in Nat /\ HeldAt(t, x) /\ HeldId(t, i)' = HeldId(t, x)
        /\ x \in 1..Len(sweep[t].claimed)
    BY <1>1
  <2>2. /\ j \in Nat /\ HeldAt(u, y) /\ HeldId(u, j)' = HeldId(u, y)
        /\ y \in 1..Len(sweep[u].claimed)
    BY <1>1
  <2> HIDE DEF x, y
  <2>3. t = u /\ x = y
    BY <2>1, <2>2 DEF HeldOnce
  <2> QED
    BY <2>1, <2>2, <2>3 DEF x, y
<1> QED
  BY <1>2, <1>3

LEMMA KeptSweepsKeepClaims ==
    ASSUME CInv, TInv', UNCHANGED <<sweep, cron>>, DatesKept
    PROVE  CInv'
<1> USE DEF CInv
<1>1. SweepClock' /\ SweepRows'
  BY DEF SweepClock, SweepRows, RowsOf, Age, HeldId
<1>2. HeldOnce'
  BY DEF HeldOnce, HeldAt, HeldId
<1>3. HeldProtected'
  <2> SUFFICES ASSUME NEW t \in Sweeps, NEW i \in 1..Len(sweep[t].claimed), HeldAt(t, i),
                      NEW d \in Domains, d = HeldId(t, i)
               PROVE  Protected(d)'
    <3>1. \A t \in Sweeps : \A i \in 1..Len(sweep[t].claimed) : HeldId(t, i) \in Domains
      BY HeldTypes
    <3> QED
      BY <3>1 DEF HeldProtected, HeldAt, HeldId
  <2>1. Protected(d) /\ Frequency[d] # "none"
    BY DEF HeldProtected, SweepRows, RowsOf
  <2> QED
    BY <2>1 DEF DatesKept
<1> QED
  BY <1>1, <1>2, <1>3

\* The dates of all domains that are not d stand.
OtherDatesStand(d) ==
    \A c \in Domains : c # d => domain'[c].nextScanAt = domain[c].nextScanAt

LEMMA ClaimNextExcludes ==
    ASSUME CInv, TInv', NEW s \in Sweeps, ClaimNext(s)
    PROVE  /\ CInv'
           /\ \A d \in Domains : Protected(d) => Protected(d)'
           /\ ClaimWins(s, Head(sweep[s].queue)) => ~Protected(Head(sweep[s].queue).id)
<1> USE DEF CInv
<1> DEFINE row == Head(sweep[s].queue)
           rest == Tail(sweep[s].queue)
           wins == ClaimWins(s, row)
           n == Len(sweep[s].claimed)
           claimed == IF wins THEN Append(sweep[s].claimed, row) ELSE sweep[s].claimed
           pc == IF rest # << >> THEN "claiming"
                 ELSE IF claimed # << >> THEN "auditing" ELSE "idle"
<1>0. /\ sweep[s] \in SweepRecord /\ sweep[s].claimed \in Seq(Snapshot)
      /\ sweep[s].queue \in Seq(Snapshot) /\ sweep[s].queue # << >>
      /\ sweep[s].pc = "claiming" /\ n \in Nat
  BY HeldTypes DEF ClaimNext, TInv, SweepShape, SweepRecord
<1>1. /\ row \in Snapshot /\ row = sweep[s].queue[1]
      /\ rest \in Seq(Snapshot) /\ Len(rest) = Len(sweep[s].queue) - 1
      /\ \A i \in 1..Len(rest) : rest[i] = sweep[s].queue[i + 1]
      /\ Len(sweep[s].queue) \in Nat \ {0}
  <2>1. row \in Snapshot
    BY <1>0, HeadTailProperties
  <2>2. row = sweep[s].queue[1]
    BY <1>0
  <2>3. /\ rest \in Seq(Snapshot) /\ Len(rest) = Len(sweep[s].queue) - 1
        /\ \A i \in 1..Len(rest) : rest[i] = sweep[s].queue[i + 1]
    BY <1>0, HeadTailProperties
  <2>4. Len(sweep[s].queue) \in Nat \ {0}
    BY <1>0, EmptySeq
  <2> QED
    BY <2>1, <2>2, <2>3, <2>4
<1>d. PICK d \in Domains : d = row.id
  BY <1>1 DEF Snapshot
<1>2. /\ sweep' = [sweep EXCEPT ![s].pc = pc, ![s].queue = rest, ![s].claimed = claimed]
      /\ domain' = IF wins THEN [domain EXCEPT ![d].nextScanAt = ClaimLock - sweep[s].age]
                   ELSE domain
      /\ cron' = cron
  BY <1>d DEF ClaimNext
<1> HIDE DEF row, rest, wins, n, claimed, pc
<1>3. /\ sweep'[s].pc = pc /\ sweep'[s].queue = rest /\ sweep'[s].claimed = claimed
      /\ sweep'[s].age = sweep[s].age /\ sweep'[s].failure = sweep[s].failure
      /\ \A t \in Sweeps : t # s => sweep'[t] = sweep[t]
  BY <1>0, <1>2 DEF TInv, TypeOK, SweepRecord
<1>4. pc \in {"claiming", "auditing", "idle"} /\ (pc = "idle" => rest = << >> /\ claimed = << >>)
  BY DEF pc
<1>5. Age' = Age
  BY <1>2 DEF Age
<1>6. SweepClock'
  BY <1>0, <1>2, <1>3, <1>5 DEF SweepClock
<1>7. wins => row.eligible /\ DueAt(d, sweep[s].age)
  BY <1>d DEF wins, ClaimWins
<1>8. row.eligible => Frequency[d] # "none"
  BY <1>0, <1>1, <1>d DEF SweepRows, RowsOf
<1>9. CASE ~wins
  <2>1. claimed = sweep[s].claimed
    BY <1>9 DEF claimed
  <2>2. SweepRows'
    <3>1. ASSUME NEW i \in 1..Len(rest), rest[i].eligible PROVE Frequency[rest[i].id] # "none"
      <4>1. i + 1 \in 1..Len(sweep[s].queue)
        BY <1>1
      <4> QED
        BY <1>1, <3>1, <4>1 DEF SweepRows, RowsOf
    <3> QED
      BY <1>0, <1>3, <1>4, <2>1, <3>1 DEF SweepRows, RowsOf, HeldId
  <2>3. Shifts(s, 0)
    BY <1>0, <1>3, <1>4, <2>1 DEF Shifts, HeldAt, n
  <2>4. \A c \in Domains : Protected(c) => Protected(c)'
    BY <1>2, <1>5, <1>9 DEF Protected
  <2> QED
    BY <1>3, <1>6, <1>9, <2>2, <2>3, <2>4, ShiftKeepsClaims DEF wins, row
<1>10. CASE wins
  <2>1. /\ claimed \in Seq(Snapshot) /\ Len(claimed) = n + 1
        /\ \A i \in 1..n : claimed[i] = sweep[s].claimed[i]
        /\ claimed[n + 1] = row
    BY <1>0, <1>1, <1>10, AppendProperties DEF claimed, n
  <2>2. Frequency[d] # "none"
    BY <1>7, <1>8, <1>10
  <2>3. SweepRows'
    <3>1. ASSUME NEW i \in 1..Len(rest), rest[i].eligible PROVE Frequency[rest[i].id] # "none"
      <4>1. i + 1 \in 1..Len(sweep[s].queue)
        BY <1>1
      <4> QED
        BY <1>1, <3>1, <4>1 DEF SweepRows, RowsOf
    <3>2. ASSUME NEW i \in 1..Len(claimed) PROVE Frequency[claimed[i].id] # "none"
      <4>1. CASE i = n + 1
        BY <1>d, <2>1, <2>2, <4>1
      <4>2. CASE i # n + 1
        <5>1. i \in 1..n
          BY <1>0, <2>1, <4>2
        <5> QED
          BY <2>1, <5>1 DEF SweepRows, RowsOf, HeldId, n
      <4> QED
        BY <4>1, <4>2
    <3> QED
      BY <1>0, <1>3, <1>4, <3>1, <3>2 DEF SweepRows, RowsOf, HeldId
  <2>4. ~Protected(d)
    <3>1. sweep[s].age = Age /\ sweep[s].age \in Nat
      BY <1>0 DEF SweepClock, SweepRecord
    <3>2. domain[d].nextScanAt \in Int \cup {Null}
      BY <1>1 DEF TInv, TypeOK, Row
    <3>3. MaxSweepAge < Quiet /\ Quiet \in Int /\ 0 < Quiet
      BY QuietBounds, DurationAssumption
    <3> QED
      BY <1>7, <1>10, <3>1, <3>2, <3>3 DEF DueAt, Protected
  <2>5. Protected(d)' /\ \A c \in Domains : Protected(c) => Protected(c)'
    <3>1. domain'[d].nextScanAt = ClaimLock - sweep[s].age
      BY <1>1, <1>2, <1>10 DEF TInv, TypeOK, Row
    <3>2. \A c \in Domains : c # d => domain'[c] = domain[c]
      BY <1>1, <1>2, <1>10 DEF TInv, TypeOK
    <3>3. sweep[s].age = Age /\ sweep[s].age \in Nat
      BY <1>0 DEF SweepClock, SweepRecord
    <3>4. ClaimLock - sweep[s].age \in Int /\ ClaimLock - sweep[s].age + Age >= Quiet
      BY <3>3, QuietBounds, DurationAssumption
    <3>5. ClaimLock - sweep[s].age # Null
      BY <3>4, NullAssumption
    <3>6. Protected(d)'
      BY <1>5, <3>1, <3>4, <3>5 DEF Protected
    <3>7. \A c \in Domains : c # d /\ Protected(c) => Protected(c)'
      BY <1>5, <3>2 DEF Protected
    <3> QED
      BY <3>6, <3>7
  \* Each claim of after is one of before, or the new one.
  <2>6. \A t \in Sweeps : \A i \in 1..Len(sweep'[t].claimed) :
            \/ t = s /\ i = n + 1 /\ HeldId(t, i)' = d
            \/ /\ i \in 1..Len(sweep[t].claimed) /\ (HeldAt(t, i)' => HeldAt(t, i))
               /\ HeldId(t, i)' = HeldId(t, i)
    <3> TAKE t \in Sweeps
    <3> TAKE i \in 1..Len(sweep'[t].claimed)
    <3>1. CASE t = s
      <4>1. i \in 1..(n + 1)
        BY <1>3, <2>1, <3>1
      <4>2. CASE i = n + 1
        BY <1>d, <1>3, <2>1, <3>1, <4>2 DEF HeldId
      <4>3. CASE i # n + 1
        <5>1. i \in 1..n
          BY <1>0, <4>1, <4>3
        <5>2. claimed[i] = sweep[s].claimed[i]
          BY <2>1, <5>1
        <5> QED
          BY <1>0, <1>3, <3>1, <5>1, <5>2 DEF HeldAt, HeldId, n
      <4> QED
        BY <4>2, <4>3
    <3>2. CASE t # s
      BY <1>3, <3>2 DEF HeldAt, HeldId
    <3> QED
      BY <3>1, <3>2
  <2>7. \A t \in Sweeps : \A i \in 1..Len(sweep[t].claimed) : HeldAt(t, i) => HeldId(t, i) # d
    BY <2>4 DEF HeldProtected
  <2>8. HeldProtected'
    <3> SUFFICES ASSUME NEW t \in Sweeps, NEW i \in 1..Len(sweep'[t].claimed), HeldAt(t, i)',
                        NEW c \in Domains, c = HeldId(t, i)'
                 PROVE  Protected(c)'
      <4>1. \A t \in Sweeps : \A i \in 1..Len(sweep'[t].claimed) : HeldId(t, i)' \in Domains
        BY <1>1, <2>6, HeldTypes
      <4> QED
        BY <4>1 DEF HeldProtected, HeldId
    <3>1. CASE c = d
      BY <2>5, <3>1
    <3>2. CASE c # d
      <4>1. i \in 1..Len(sweep[t].claimed) /\ HeldAt(t, i) /\ HeldId(t, i) = c
        BY <2>6, <3>2
      <4>2. Protected(c)
        BY <4>1 DEF HeldProtected
      <4> QED
        BY <2>5, <4>2
    <3> QED
      BY <3>1, <3>2
  <2>9. HeldOnce'
    BY <2>6, <2>7 DEF HeldOnce
  <2> QED
    BY <1>6, <1>d, <2>3, <2>4, <2>5, <2>8, <2>9 DEF row
<1> QED
  BY <1>9, <1>10

\* An audit recorded: the domain is no longer held, ...
LEMMA RecordReleases ==
    ASSUME CInv, NEW s \in Sweeps,
           sweep[s].pc \in {"succeeded", "failed", "threw"},
           NEW f \in Failure, sweep' = [sweep EXCEPT ![s].pc = "recorded", ![s].failure = f]
    PROVE  /\ sweep'[s].pc = "recorded" /\ sweep'[s].queue = sweep[s].queue
           /\ sweep'[s].claimed = sweep[s].claimed /\ sweep'[s].age = sweep[s].age
           /\ sweep'[s].failure = f
           /\ \A t \in Sweeps : t # s => sweep'[t] = sweep[t]
           /\ HeldAt(s, 1) /\ HeldId(s, 1) = Current(s).id /\ 1 \in 1..Len(sweep[s].claimed)
           /\ \A t \in Sweeps : \A i \in 1..Len(sweep'[t].claimed) : HeldAt(t, i)' =>
                /\ i \in 1..Len(sweep[t].claimed) /\ HeldAt(t, i)
                /\ HeldId(t, i)' = HeldId(t, i) /\ HeldId(t, i) # Current(s).id
<1> USE DEF CInv
<1>1. /\ sweep[s] \in SweepRecord /\ sweep[s].claimed \in Seq(Snapshot)
      /\ sweep[s].claimed # << >> /\ Len(sweep[s].claimed) \in Nat \ {0}
  BY HeldTypes, EmptySeq DEF TInv, SweepShape, SweepRecord
<1>2. /\ sweep'[s].pc = "recorded" /\ sweep'[s].queue = sweep[s].queue
      /\ sweep'[s].claimed = sweep[s].claimed /\ sweep'[s].age = sweep[s].age
      /\ sweep'[s].failure = f
      /\ \A t \in Sweeps : t # s => sweep'[t] = sweep[t]
  BY <1>1 DEF TInv, TypeOK, SweepRecord
<1>3. HeldAt(s, 1) /\ HeldId(s, 1) = Current(s).id /\ 1 \in 1..Len(sweep[s].claimed)
  BY <1>1 DEF HeldAt, HeldId, Current
<1>4. ASSUME NEW t \in Sweeps, NEW i \in 1..Len(sweep'[t].claimed), HeldAt(t, i)'
      PROVE  /\ i \in 1..Len(sweep[t].claimed) /\ HeldAt(t, i)
             /\ HeldId(t, i)' = HeldId(t, i) /\ HeldId(t, i) # Current(s).id
  <2>1. i \in 1..Len(sweep[t].claimed) /\ HeldAt(t, i) /\ HeldId(t, i)' = HeldId(t, i)
    <3>1. sweep'[t].claimed = sweep[t].claimed
      <4>1. CASE t = s
        BY <1>2, <4>1
      <4>2. CASE t # s
        BY <1>2, <4>2
      <4> QED
        BY <4>1, <4>2
    <3>2. t # s => sweep'[t].pc = sweep[t].pc
      BY <1>2
    <3>3. t = s => sweep[t].pc # "recorded"
      OBVIOUS
    <3> QED
      BY <1>4, <3>1, <3>2, <3>3 DEF HeldAt, HeldId
  <2>2. t # s \/ i # 1
    <3>1. i > 1 \/ sweep'[t].pc # "recorded"
      BY <1>4 DEF HeldAt
    <3>2. t = s => sweep'[t].pc = "recorded"
      BY <1>2
    <3> QED
      BY <3>1, <3>2
  <2> QED
    BY <1>3, <2>1, <2>2 DEF HeldOnce
<1> QED
  BY <1>2, <1>3, <1>4

\* ... so its date is free to move.
LEMMA RecordExcludes ==
    ASSUME CInv, TInv', NEW s \in Sweeps,
           sweep[s].pc \in {"succeeded", "failed", "threw"},
           NEW f \in Failure, sweep' = [sweep EXCEPT ![s].pc = "recorded", ![s].failure = f],
           OtherDatesStand(Current(s).id), UNCHANGED cron
    PROVE  CInv'
<1> USE DEF CInv
<1>1. sweep[s] \in SweepRecord /\ Len(sweep[s].claimed) \in Nat
  BY HeldTypes
<1>2. /\ sweep'[s].pc = "recorded" /\ sweep'[s].queue = sweep[s].queue
      /\ sweep'[s].claimed = sweep[s].claimed /\ sweep'[s].age = sweep[s].age
      /\ \A t \in Sweeps : t # s => sweep'[t] = sweep[t]
  BY RecordReleases
<1>a. \A t \in Sweeps : \A i \in 1..Len(sweep'[t].claimed) : HeldAt(t, i)' =>
            /\ i \in 1..Len(sweep[t].claimed) /\ HeldAt(t, i)
            /\ HeldId(t, i)' = HeldId(t, i) /\ HeldId(t, i) # Current(s).id
  BY RecordReleases
<1>3. SweepClock'
  BY <1>2 DEF SweepClock, Age
<1>4. SweepRows'
  <2>1. RowsOf(s)
    BY DEF SweepRows
  <2>2. RowsOf(s)'
    BY <1>2, <2>1, Zenon DEF RowsOf, HeldId
  <2> QED
    BY <1>2, <2>2, RowsOfOthers
<1>5. Shifts(s, 0)
  BY <1>1, <1>2 DEF Shifts, HeldAt
<1>6. ASSUME NEW t \in Sweeps, NEW i \in 1..Len(sweep'[t].claimed), NEW c \in Domains,
             HeldAt(t, i)', sweep'[t].claimed[i].id = c, Protected(c)
      PROVE  Protected(c)'
  <2>1. c # Current(s).id
    <3>1. HeldId(t, i)' = HeldId(t, i) /\ HeldId(t, i) # Current(s).id
      BY <1>6, <1>a
    <3> QED
      BY <1>6, <3>1 DEF HeldId
  <2>2. domain'[c].nextScanAt = domain[c].nextScanAt
    BY <2>1 DEF OtherDatesStand
  <2> QED
    BY <1>6, <2>2 DEF Protected, Age
<1> QED
  BY <1>2, <1>3, <1>4, <1>5, <1>6, ShiftKeepsClaims

LEMMA SweepStepExcludes ==
    ASSUME CInv, TInv', NEW s \in Sweeps, SweepStep(s) \/ SweepDies(s)
    PROVE  CInv'
<1> USE DEF CInv
<1>0. /\ sweep[s] \in SweepRecord /\ sweep \in [Sweeps -> SweepRecord]
      /\ Len(sweep[s].claimed) \in Nat /\ Len(sweep[s].queue) \in Nat
      /\ domain \in [Domains -> Row]
  BY HeldTypes DEF TInv, TypeOK
<1>a. IdleSweep.claimed = << >> /\ IdleSweep.queue = << >> /\ Len(<< >>) = 0
  BY DEF IdleSweep
\* Steps that leave the claims of s empty.
<1>b. ASSUME sweep'[s].claimed = << >>, \A t \in Sweeps : t # s => sweep'[t] = sweep[t],
             UNCHANGED domain, Age' = Age, SweepClock', SweepRows'
      PROVE  CInv'
  <2>1. Shifts(s, 0)
    BY <1>a, <1>b DEF Shifts
  <2>2. \A d \in Domains : Protected(d) => Protected(d)'
    BY <1>b DEF Protected
  <2> QED
    BY <1>b, <2>1, <2>2, ShiftKeepsClaims
<1>1. CASE SelectDueDomains(s)
  <2>1. PICK q \in Selections :
            sweep' = [sweep EXCEPT ![s] =
                [IdleSweep EXCEPT !.pc = IF q = << >> THEN "idle" ELSE "claiming",
                                  !.queue = [i \in DOMAIN q |-> SnapshotOf(q[i])]]]
    BY <1>1 DEF SelectDueDomains
  <2> DEFINE rows == [i \in DOMAIN q |-> SnapshotOf(q[i])]
  <2>2. rows \in Seq(Snapshot)
    BY SelectionType DEF TInv
  <2>3. \A i \in 1..Len(rows) : rows[i].eligible => Frequency[rows[i].id] # "none"
    <3>1. DOMAIN rows = 1..Len(rows)
      BY <2>2, LenProperties
    <3> QED
      BY <3>1 DEF SnapshotOf
  <2>4. q = << >> => rows = << >>
    OBVIOUS
  <2> HIDE DEF rows
  <2>5. /\ sweep'[s].pc \in {"idle", "claiming"} /\ sweep'[s].queue = rows
        /\ sweep'[s].claimed = << >> /\ sweep'[s].age = 0 /\ sweep'[s].failure = NoFailure
        /\ (sweep'[s].pc = "idle" => rows = << >>)
        /\ \A t \in Sweeps : t # s => sweep'[t] = sweep[t]
    BY <1>0, <2>1, <2>4 DEF IdleSweep, rows
  <2>6. /\ cron.until = 0 /\ cron'.until = cron.until /\ UNCHANGED domain
    BY <1>1 DEF SelectDueDomains, TInv, TypeOK
  <2>7. Age' = Age /\ SweepClock'
    BY <2>5, <2>6, DurationAssumption DEF Age, SweepClock
  <2>8. SweepRows'
    BY <2>3, <2>5, <1>a DEF SweepRows, RowsOf, HeldId
  <2> QED
    BY <1>b, <2>5, <2>6, <2>7, <2>8
<1>2. CASE ClaimNext(s)
  BY <1>2, ClaimNextExcludes
<1>3. ASSUME NEW pc \in {"succeeded", "failed", "threw"}, NEW f \in Failure,
             sweep[s].pc \in {"auditing", "succeeded", "failed"},
             sweep' = [sweep EXCEPT ![s].pc = pc, ![s].failure = f],
             UNCHANGED <<domain, cron>>
      PROVE  CInv'
  <2>1. /\ sweep'[s].pc = pc /\ sweep'[s].queue = sweep[s].queue
        /\ sweep'[s].claimed = sweep[s].claimed /\ sweep'[s].age = sweep[s].age
        /\ \A t \in Sweeps : t # s => sweep'[t] = sweep[t]
    BY <1>0, <1>3 DEF SweepRecord
  <2>a. SweepClock'
    BY <1>3, <2>1 DEF SweepClock, Age
  <2>b. SweepRows'
    <3>1. RowsOf(s)
      BY DEF SweepRows
    <3>2. RowsOf(s)'
      BY <2>1, <3>1 DEF RowsOf, HeldId
    <3> QED
      BY <2>1, <3>2, RowsOfOthers
  <2>2. SweepClock' /\ SweepRows'
    BY <2>a, <2>b
  <2>3. Shifts(s, 0)
    BY <1>0, <1>3, <2>1 DEF Shifts, HeldAt
  <2>4. \A d \in Domains : Protected(d) => Protected(d)'
    BY <1>3 DEF Protected, Age
  <2> QED
    BY <2>1, <2>2, <2>3, <2>4, ShiftKeepsClaims
<1>f. sweep[s].failure \in Failure /\ NoFailure \in Failure
  BY <1>0 DEF SweepRecord, Failure
<1>4. CASE AuditSucceeds(s)
  <2>1. sweep' = [sweep EXCEPT ![s].pc = "succeeded", ![s].failure = sweep[s].failure]
    BY <1>0, <1>4 DEF AuditSucceeds, SweepRecord
  <2> QED
    BY <1>3, <1>4, <1>f, <2>1 DEF AuditSucceeds
<1>5. CASE AuditFails(s)
  <2>1. sweep' = [sweep EXCEPT ![s].pc = "failed", ![s].failure = FailureOf(Current(s), nextEpisode)]
    BY <1>5 DEF AuditFails
  <2>2. sweep'[s].failure \in Failure /\ sweep'[s].failure = FailureOf(Current(s), nextEpisode)
    BY <1>0, <2>1 DEF TInv, TypeOK, SweepRecord
  <2> QED
    BY <1>3, <1>5, <2>1, <2>2 DEF AuditFails
<1>6. CASE AuditThrows(s)
  <2>1. sweep' = [sweep EXCEPT ![s].pc = "threw", ![s].failure = sweep[s].failure]
    BY <1>0, <1>6 DEF AuditThrows, SweepRecord
  <2> QED
    BY <1>3, <1>6, <1>f, <2>1 DEF AuditThrows
<1>7. CASE RecordSuccess(s) \/ RecordTargetFailure(s)
  <2>1. sweep' = [sweep EXCEPT ![s].pc = "recorded", ![s].failure = sweep[s].failure]
    BY <1>0, <1>7 DEF RecordSuccess, Recovered, RecordTargetFailure, SweepRecord
  <2>2. OtherDatesStand(Current(s).id) /\ UNCHANGED cron
    BY <1>0, <1>7 DEF RecordSuccess, Recovered, RecordTargetFailure, OtherDatesStand
  <2> QED
    BY <1>7, <1>f, <2>1, <2>2, RecordExcludes DEF RecordSuccess, Recovered, RecordTargetFailure
<1>8. CASE RecordPlatformFailure(s)
  <2>1. OtherDatesStand(Current(s).id) /\ UNCHANGED cron
    BY <1>8 DEF RecordPlatformFailure, OtherDatesStand
  <2> QED
    BY <1>8, <1>f, <2>1, RecordExcludes DEF RecordPlatformFailure
<1>9. CASE FinishDomain(s)
  <2> DEFINE rest == Tail(sweep[s].claimed)
  <2>1. /\ sweep[s].claimed \in Seq(Snapshot) /\ sweep[s].claimed # << >>
        /\ sweep[s].pc = "recorded" /\ UNCHANGED <<domain, cron>>
    BY <1>0, <1>9 DEF FinishDomain, SweepRecord, TInv, SweepShape
  <2>2. /\ rest \in Seq(Snapshot) /\ Len(rest) = Len(sweep[s].claimed) - 1
        /\ \A i \in 1..Len(rest) : rest[i] = sweep[s].claimed[i + 1]
    BY <2>1, HeadTailProperties
  <2>3. Age' = Age
    BY <2>1 DEF Age
  <2>4. CASE rest = << >>
    <3>1. sweep' = [sweep EXCEPT ![s] = IdleSweep]
      BY <1>9, <2>4 DEF FinishDomain
    <3>2. sweep'[s] = IdleSweep /\ \A t \in Sweeps : t # s => sweep'[t] = sweep[t]
      BY <1>0, <3>1
    <3>3. SweepClock' /\ SweepRows'
      BY <2>1, <2>3, <3>2, <1>a DEF SweepClock, SweepRows, RowsOf, HeldId, IdleSweep
    <3> QED
      BY <1>a, <1>b, <2>1, <2>3, <3>2, <3>3
  <2>5. CASE rest # << >>
    <3>1. sweep' = [sweep EXCEPT ![s] =
                [@ EXCEPT !.pc = "auditing", !.claimed = rest, !.failure = NoFailure]]
      BY <1>9, <2>5 DEF FinishDomain
    <3> HIDE DEF rest
    <3>2. /\ sweep'[s].pc = "auditing" /\ sweep'[s].queue = sweep[s].queue
          /\ sweep'[s].claimed = rest /\ sweep'[s].age = sweep[s].age
          /\ \A t \in Sweeps : t # s => sweep'[t] = sweep[t]
      BY <1>0, <3>1 DEF SweepRecord
    <3>3. SweepClock'
      BY <2>1, <2>3, <3>2 DEF SweepClock
    <3>4. \A i \in 1..Len(rest) : i + 1 \in 1..Len(sweep[s].claimed) /\ i + 1 > 1
      BY <1>0, <2>2
    <3>5. SweepRows'
      <4>1. \A i \in 1..Len(rest) : Frequency[rest[i].id] # "none"
        BY <2>2, <3>4 DEF SweepRows, RowsOf, HeldId
      <4> QED
        BY <3>2, <4>1 DEF SweepRows, RowsOf, HeldId
    <3>6. Shifts(s, 1)
      BY <2>2, <3>2, <3>4 DEF Shifts, HeldAt
    <3>7. \A d \in Domains : Protected(d) => Protected(d)'
      BY <2>1, <2>3 DEF Protected
    <3> QED
      BY <3>2, <3>3, <3>5, <3>6, <3>7, ShiftKeepsClaims
  <2> QED
    BY <2>4, <2>5
<1>10. CASE SweepDies(s)
  <2>1. sweep'[s] = IdleSweep /\ (\A t \in Sweeps : t # s => sweep'[t] = sweep[t])
        /\ UNCHANGED <<domain, cron>>
    BY <1>0, <1>10 DEF SweepDies
  <2>2. Age' = Age
    BY <2>1 DEF Age
  <2>3. SweepClock' /\ SweepRows'
    BY <2>1, <2>2, <1>a DEF SweepClock, SweepRows, RowsOf, HeldId, IdleSweep
  <2> QED
    BY <1>a, <1>b, <2>1, <2>2, <2>3
<1> QED
  BY <1>1, <1>2, <1>4, <1>5, <1>6, <1>7, <1>8, <1>9, <1>10 DEF SweepStep

LEMMA RescanKeepsClaims ==
    ASSUME CInv, TInv', NEW r \in Rescans, RescanStep(r) \/ RescanDies(r)
    PROVE  CInv' /\ DatesKept
<1> USE DEF CInv
<1>0. domain \in [Domains -> Row] /\ rescan[r].id \in Domains
  BY DEF TInv, TypeOK, RescanRecord
<1>1. UNCHANGED <<sweep, cron>>
  BY DEF RescanStep, RescanDies, AdmitRescan, TryClaimScanLock, PersistRescan,
         RecordRescan, RescanThrows, ReleaseScanLock
<1>2. Age' = Age
  BY <1>1 DEF Age
<1>3. CASE RecordRescan(r)
  <2>1. PICK d \in Domains : d = rescan[r].id
    BY <1>0
  <2>2. domain' = [domain EXCEPT ![d].nextScanAt = ComputeNextScanAt(d)]
    BY <1>3, <2>1 DEF RecordRescan
  <2>3. /\ domain'[d].nextScanAt = ComputeNextScanAt(d)
        /\ \A c \in Domains : c # d => domain'[c] = domain[c]
    BY <1>0, <2>2 DEF Row
  <2>4. Age \in Nat
    BY DurationAssumption DEF Age, SweepClock, TInv, TypeOK
  <2>5. Frequency[d] # "none" => Protected(d)'
    BY <1>2, <2>3, <2>4, QuietBounds, NullAssumption DEF Protected
  <2>6. \A c \in Domains : c # d /\ Protected(c) => Protected(c)'
    BY <1>2, <2>3 DEF Protected
  <2>7. DatesKept
    BY <2>5, <2>6 DEF DatesKept
  <2> QED
    BY <1>1, <2>7, KeptSweepsKeepClaims
<1>4. CASE ~RecordRescan(r)
  <2>1. \A d \in Domains : domain'[d].nextScanAt = domain[d].nextScanAt
    BY <1>0, <1>4 DEF RescanStep, RescanDies, AdmitRescan, TryClaimScanLock, PersistRescan,
                      RescanThrows, ReleaseScanLock, Row
  <2>2. DatesKept
    BY <1>2, <2>1 DEF DatesKept, Protected
  <2> QED
    BY <1>1, <2>2, KeptSweepsKeepClaims
<1> QED
  BY <1>3, <1>4

LEMMA OwnerKeepsClaims ==
    ASSUME CInv, TInv', NoOverrides, NEW d \in Domains, OwnerStep(d)
    PROVE  CInv' /\ DatesKept
<1> USE DEF CInv
<1>0. (\E state \in {"active", "paused"} : SetMonitoringState(d, state)) \/ SoftDeleteDomain(d)
  BY DEF OwnerStep, NoOverrides, ScheduleReEvaluation
<1>1. domain \in [Domains -> Row]
  BY DEF TInv, TypeOK
<1>2. \A c \in Domains : domain'[c].nextScanAt = domain[c].nextScanAt
  BY <1>0, <1>1 DEF SetMonitoringState, SoftDeleteDomain, Row
<1>3. UNCHANGED <<sweep, cron>>
  BY <1>0 DEF SetMonitoringState, SoftDeleteDomain
<1>4. DatesKept
  BY <1>2, <1>3 DEF DatesKept, Protected, Age
<1> QED
  BY <1>3, <1>4, KeptSweepsKeepClaims

LEMMA TickKeepsSweeps ==
    ASSUME TInv, Tick, NEW s \in Sweeps
    PROVE  /\ sweep'[s].pc = sweep[s].pc /\ sweep'[s].queue = sweep[s].queue
           /\ sweep'[s].claimed = sweep[s].claimed /\ sweep'[s].failure = sweep[s].failure
           /\ sweep'[s].age = IF sweep[s].pc = "idle" THEN 0 ELSE sweep[s].age + 1
<1>1. sweep[s] \in SweepRecord
  BY DEF TInv, TypeOK
<1>2. sweep'[s] = [sweep[s] EXCEPT !.age = IF sweep[s].pc = "idle" THEN 0 ELSE @ + 1]
  BY DEF Tick
<1> QED
  BY <1>1, <1>2 DEF SweepRecord

\* A running sweep grows older with the clock, and a protected date comes
\* nearer by the same tick.
LEMMA TickKeepsDates ==
    ASSUME CInv, Tick, NEW s \in Sweeps, sweep[s].pc # "idle"
    PROVE  /\ sweep[s].age + 1 <= MaxSweepAge /\ sweep[s].age + 1 = Age'
           /\ \A d \in Domains : Protected(d) => Protected(d)'
<1> USE DEF CInv
<1>0. cron.until \in Nat /\ cron.until < Day /\ Day \in Nat \ {0}
  BY DurationAssumption DEF TInv, TypeOK, SweepClock
<1>1. cron'.until = IF cron.until = 0 THEN Day - 1 ELSE cron.until - 1
  BY DEF Tick
<1>2. /\ sweep[s].age \in Nat /\ sweep[s].age < MaxSweepAge /\ MaxSweepAge \in Nat
      /\ sweep[s].age = Age /\ Age' = Age + 1
  <2>1. sweep[s].age \in Nat /\ sweep[s].age < MaxSweepAge /\ sweep[s].age = Age
    BY HeldTypes DEF Tick, SweepClock, SweepRecord
  <2>2. MaxSweepAge < Day /\ MaxSweepAge \in Nat
    BY DurationAssumption
  <2> QED
    BY <1>0, <1>1, <2>1, <2>2 DEF Age
<1>3. ASSUME NEW d \in Domains, Protected(d) PROVE Protected(d)'
  <2>1. domain[d] \in Row
    BY DEF TInv, TypeOK
  <2>2. domain'[d] = [domain[d] EXCEPT !.nextScanAt = Earlier(@), !.scanLockUntil = Remaining(@)]
    BY DEF Tick
  <2>3. domain'[d].nextScanAt = Earlier(domain[d].nextScanAt)
    BY <2>1, <2>2 DEF Row
  <2>4. domain[d].nextScanAt \in Int
    BY <1>3, <2>1 DEF Protected, Row
  <2>5. Quiet \in Int /\ MaxSweepAge < Quiet
    BY QuietBounds
  <2>6. domain[d].nextScanAt > 0
    BY <1>2, <1>3, <2>4, <2>5 DEF Protected
  <2>7. Earlier(domain[d].nextScanAt) = domain[d].nextScanAt - 1
    BY <2>4, <2>6, CountAssumption, NullAssumption DEF Earlier
  <2>8. domain'[d].nextScanAt \in Int /\ domain'[d].nextScanAt + Age' >= Quiet
    BY <1>2, <1>3, <2>3, <2>4, <2>5, <2>7 DEF Protected
  <2> QED
    BY <2>8, NullAssumption DEF Protected
<1> QED
  BY <1>2, <1>3

LEMMA TickKeepsClaims ==
    ASSUME CInv, TInv', Tick
    PROVE  CInv'
<1> USE DEF CInv
<1>0. cron'.until < Day
  <2>1. cron.until \in Nat /\ cron.until < Day /\ Day \in Nat
    BY DurationAssumption DEF TInv, TypeOK, SweepClock
  <2>2. cron'.until = IF cron.until = 0 THEN Day - 1 ELSE cron.until - 1
    BY DEF Tick
  <2> QED
    BY <2>1, <2>2
<1>1. \A s \in Sweeps :
        /\ sweep'[s].pc = sweep[s].pc /\ sweep'[s].queue = sweep[s].queue
        /\ sweep'[s].claimed = sweep[s].claimed /\ sweep'[s].failure = sweep[s].failure
        /\ sweep'[s].age = IF sweep[s].pc = "idle" THEN 0 ELSE sweep[s].age + 1
  BY TickKeepsSweeps
<1>2. SweepRows'
  <2> SUFFICES ASSUME NEW s \in Sweeps PROVE RowsOf(s)'
    BY DEF SweepRows
  <2>1. RowsOf(s)
    BY DEF SweepRows
  <2> QED
    BY <1>1, <2>1 DEF RowsOf, HeldId
<1>3. SweepClock'
  BY <1>0, <1>1, TickKeepsDates DEF SweepClock
<1>4. \A s \in Sweeps : Len(sweep'[s].claimed) = Len(sweep[s].claimed)
  BY <1>1
<1>5. \A s \in Sweeps : \A i \in 1..Len(sweep[s].claimed) :
        (HeldAt(s, i)' <=> HeldAt(s, i)) /\ HeldId(s, i)' = HeldId(s, i)
  BY <1>1 DEF HeldAt, HeldId
<1>6. HeldOnce'
  BY <1>4, <1>5 DEF HeldOnce
<1>7. HeldProtected'
  <2> SUFFICES ASSUME NEW s \in Sweeps, NEW i \in 1..Len(sweep[s].claimed), HeldAt(s, i),
                      NEW d \in Domains, d = HeldId(s, i)
               PROVE  Protected(d)'
    <3>1. \A s \in Sweeps : \A i \in 1..Len(sweep[s].claimed) : HeldId(s, i) \in Domains
      BY HeldTypes
    <3> QED
      BY <1>4, <1>5, <3>1 DEF HeldProtected
  <2>1. sweep[s].pc # "idle"
    <3>1. sweep[s].pc = "idle" => sweep[s].claimed = << >>
      BY DEF SweepRows, RowsOf
    <3> QED
      BY <3>1
  <2>2. Protected(d)
    BY DEF HeldProtected
  <2> QED
    BY <2>1, <2>2, TickKeepsDates
<1> QED
  BY <1>2, <1>3, <1>6, <1>7

LEMMA InitClaims == Init => CInv
<1> SUFFICES ASSUME Init PROVE CInv
  OBVIOUS
<1>1. \A s \in Sweeps : sweep[s] = IdleSweep
  BY DEF Init
<1>2. SweepClock
  BY <1>1, DurationAssumption DEF SweepClock, IdleSweep, Init
<1>3. SweepRows
  BY <1>1 DEF SweepRows, RowsOf, IdleSweep
<1>4. HeldProtected /\ HeldOnce
  BY <1>1 DEF HeldProtected, HeldOnce, IdleSweep
<1> QED
  BY <1>2, <1>3, <1>4, InitType DEF CInv

LEMMA NextClaims == CInv /\ NoOverrides /\ [Next]_vars => CInv'
<1> SUFFICES ASSUME CInv, NoOverrides, [Next]_vars PROVE CInv'
  OBVIOUS
<1>0. TInv /\ TInv'
  BY NextType DEF CInv
<1>1. ASSUME NEW s \in Sweeps, SweepStep(s) \/ SweepDies(s) PROVE CInv'
  BY <1>0, <1>1, SweepStepExcludes
<1>2. ASSUME NEW r \in Rescans, RescanStep(r) \/ RescanDies(r) PROVE CInv'
  BY <1>0, <1>2, RescanKeepsClaims
<1>3. ASSUME NEW d \in Domains, OwnerStep(d) PROVE CInv'
  BY <1>0, <1>3, OwnerKeepsClaims
<1>4. CASE NewMonth \/ UNCHANGED vars
  <2>1. UNCHANGED <<sweep, cron>> /\ DatesKept
    BY <1>4 DEF NewMonth, vars, DatesKept, Protected, Age
  <2> QED
    BY <1>0, <2>1, KeptSweepsKeepClaims
<1>5. CASE Tick
  BY <1>0, <1>5, TickKeepsClaims
<1>6. ~\E a \in AdminScans : ReadForAdminScan(a) \/ RecordAdminScan(a)
  BY DEF NoOverrides
<1> QED
  BY <1>1, <1>2, <1>3, <1>4, <1>5, <1>6 DEF Next

LEMMA ClaimsExclude == CInv => ScheduledScansExclusive
<1> SUFFICES ASSUME CInv, NEW s \in Sweeps, NEW t \in Sweeps, s # t,
                    NEW d \in Holds(s) \cap Holds(t)
             PROVE  FALSE
  BY DEF ScheduledScansExclusive
<1>1. \A u \in Sweeps : DOMAIN sweep[u].claimed = 1..Len(sweep[u].claimed)
  BY LenProperties DEF CInv, TInv, TypeOK, SweepRecord
<1>2. PICK i \in 1..Len(sweep[s].claimed) : HeldAt(s, i) /\ HeldId(s, i) = d
  BY <1>1 DEF Holds, HeldAt, HeldId
<1>3. PICK j \in 1..Len(sweep[t].claimed) : HeldAt(t, j) /\ HeldId(t, j) = d
  BY <1>1 DEF Holds, HeldAt, HeldId
<1> QED
  BY <1>2, <1>3 DEF CInv, HeldOnce

\* Where nobody overrides a date, no two sweeps ever hold one domain, however
\* many deliveries of a cron overlap, whichever of them die and whatever users
\* and rescans do to the row meanwhile: the claim is nothing but a date, and that
\* date stays ahead of every sweep of the same cron until its holder has recorded.
THEOREM SweepsExclusive == Spec /\ NoOverrides => []ScheduledScansExclusive
<1>1. CInv /\ NoOverrides /\ [Next]_vars => CInv'
  BY NextClaims
<1>2. NoOverrides => NoOverrides'
  BY DEF NoOverrides
<1> QED
  BY <1>1, <1>2, InitClaims, ClaimsExclude, PTL DEF Spec

-----------------------------------------------------------------------------
(* The monthly quota *)

\* The requests that were admitted for d and have not written their scan.
Unwritten(d) == {r \in Rescans : rescan[r].id = d /\ rescan[r].pc \in {"admitted", "scanning"}}

\* Scans written and scans to come together stay under the bound.  (A killed
\* request, or one whose audit throws, leaves without having written.)
QuotaInv ==
    \A d \in Domains :
        manualScans[d] > 0 \/ Unwritten(d) # {} =>
            manualScans[d] + Cardinality(Unwritten(d)) < ManualQuota + Cardinality(Rescans)

LEMMA UnwrittenFinite ==
    ASSUME NEW S \in SUBSET Rescans
    PROVE  /\ IsFiniteSet(S) /\ Cardinality(S) \in Nat
           /\ Cardinality(Rescans) \in Nat /\ Cardinality(S) <= Cardinality(Rescans)
BY RescansAssumption, FS_Subset, FS_CardinalityType

\* Fewer requests under way and no scan more.
LEMMA QuotaShrinks ==
    ASSUME TInv, QuotaInv, NEW d \in Domains,
           manualScans'[d] \in Nat, manualScans'[d] <= manualScans[d],
           Unwritten(d)' \subseteq Unwritten(d),
           manualScans'[d] > 0 \/ Unwritten(d)' # {}
    PROVE  manualScans'[d] + Cardinality(Unwritten(d)') < ManualQuota + Cardinality(Rescans)
<1> DEFINE P == Unwritten(d)
           Q == Unwritten(d)'
<1>1. P \in SUBSET Rescans /\ Q \in SUBSET P
  BY DEF Unwritten
<1>2. manualScans[d] \in Nat /\ ManualQuota \in Nat
  BY CountAssumption DEF TInv, TypeOK
<1> HIDE DEF P, Q
<1>3. IsFiniteSet(P) /\ Cardinality(P) \in Nat /\ Cardinality(Rescans) \in Nat
  BY <1>1, UnwrittenFinite
<1>4. Cardinality(Q) \in Nat /\ Cardinality(Q) <= Cardinality(P)
  BY <1>1, <1>3, FS_Subset, FS_CardinalityType
<1>5. manualScans[d] > 0 \/ P # {}
  BY <1>1, <1>2 DEF P, Q
<1>6. manualScans[d] + Cardinality(P) < ManualQuota + Cardinality(Rescans)
  BY <1>5 DEF QuotaInv, P
<1> QED
  BY <1>2, <1>3, <1>4, <1>6 DEF Q

LEMMA NextQuota == TInv /\ TInv' /\ QuotaInv /\ [Next]_vars => QuotaInv'
<1> SUFFICES ASSUME TInv, TInv', QuotaInv, [Next]_vars,
                    NEW d \in Domains, manualScans'[d] > 0 \/ Unwritten(d)' # {}
             PROVE  manualScans'[d] + Cardinality(Unwritten(d)') <
                        ManualQuota + Cardinality(Rescans)
  BY DEF QuotaInv
<1>0. /\ rescan \in [Rescans -> RescanRecord] /\ manualScans \in [Domains -> Nat]
      /\ manualScans' \in [Domains -> Nat] /\ ManualQuota \in Nat
      /\ Unwritten(d) \in SUBSET Rescans /\ Unwritten(d)' \in SUBSET Rescans
  BY CountAssumption DEF TInv, TypeOK, Unwritten
<1>1. CASE UNCHANGED rescan /\ UNCHANGED manualScans
  BY <1>0, <1>1, QuotaShrinks DEF Unwritten
<1>2. CASE NewMonth
  <2>1. manualScans'[d] = 0 /\ Unwritten(d)' = Unwritten(d)
    BY <1>2 DEF NewMonth, Unwritten
  <2> QED
    BY <1>0, <2>1, QuotaShrinks
<1>3. CASE Tick
  <2>1. \A r \in Rescans : rescan'[r].pc = rescan[r].pc /\ rescan'[r].id = rescan[r].id
    <3> TAKE r \in Rescans
    <3>1. rescan[r] \in RescanRecord
      BY <1>0
    <3>2. rescan'[r] = [rescan[r] EXCEPT !.age = IF InLock(r) THEN @ + 1 ELSE 0]
      BY <1>3 DEF Tick
    <3> QED
      BY <3>1, <3>2 DEF RescanRecord
  <2>2. Unwritten(d)' = Unwritten(d) /\ UNCHANGED manualScans
    BY <1>3, <2>1 DEF Unwritten, Tick
  <2> QED
    BY <1>0, <2>2, QuotaShrinks
<1>4. ASSUME NEW r \in Rescans, RescanStep(r) \/ RescanDies(r)
      PROVE  manualScans'[d] + Cardinality(Unwritten(d)') <
                ManualQuota + Cardinality(Rescans)
  <2>0. \A q \in Rescans : q # r => rescan'[q] = rescan[q]
    BY <1>0, <1>4 DEF RescanStep, RescanDies, AdmitRescan, TryClaimScanLock, PersistRescan,
                      RecordRescan, RescanThrows, ReleaseScanLock
  <2>r. rescan[r] \in RescanRecord
    BY <1>0
  <2>1. CASE AdmitRescan(r)
    <3>1. PICK c \in Domains : QuotaLeft(c)
              /\ rescan' = [rescan EXCEPT ![r] = [pc |-> "admitted", id |-> c, age |-> 0]]
              /\ UNCHANGED manualScans /\ rescan[r].pc = "idle"
      BY <2>1 DEF AdmitRescan
    <3>2. rescan'[r].id = c /\ rescan'[r].pc = "admitted"
      BY <1>0, <3>1
    <3>3. CASE c = d
      <4>1. manualScans'[d] < ManualQuota /\ manualScans'[d] \in Nat
        BY <1>0, <3>1, <3>3 DEF QuotaLeft
      <4>2. Cardinality(Unwritten(d)') <= Cardinality(Rescans)
            /\ Cardinality(Unwritten(d)') \in Nat /\ Cardinality(Rescans) \in Nat
        BY <1>0, UnwrittenFinite
      <4> QED
        BY <1>0, <4>1, <4>2
    <3>4. CASE c # d
      <4>1. Unwritten(d)' = Unwritten(d)
        BY <2>0, <3>1, <3>2, <3>4 DEF Unwritten
      <4> QED
        BY <1>0, <3>1, <4>1, QuotaShrinks
    <3> QED
      BY <3>3, <3>4
  <2>2. CASE PersistRescan(r)
    <3>1. /\ rescan[r].pc = "scanning" /\ rescan'[r].pc = "persisted"
          /\ rescan'[r].id = rescan[r].id
          /\ manualScans' = [manualScans EXCEPT ![rescan[r].id] = @ + 1]
      BY <1>0, <2>2, <2>r DEF PersistRescan, RescanRecord
    <3>2. CASE rescan[r].id = d
      <4>1. manualScans'[d] = manualScans[d] + 1 /\ manualScans[d] \in Nat
        BY <1>0, <3>1, <3>2
      <4>2. r \in Unwritten(d) /\ Unwritten(d)' = Unwritten(d) \ {r}
        BY <2>0, <3>1, <3>2 DEF Unwritten
      <4>3. IsFiniteSet(Unwritten(d)) /\ Cardinality(Unwritten(d)) \in Nat
            /\ Cardinality(Rescans) \in Nat
        BY <1>0, UnwrittenFinite
      <4>4. Cardinality(Unwritten(d)') = Cardinality(Unwritten(d)) - 1
        BY <4>2, <4>3, FS_RemoveElement
      <4>5. manualScans[d] + Cardinality(Unwritten(d)) < ManualQuota + Cardinality(Rescans)
        BY <4>2 DEF QuotaInv
      <4> QED
        BY <1>0, <4>1, <4>3, <4>4, <4>5
    <3>3. CASE rescan[r].id # d
      <4>1. Unwritten(d)' = Unwritten(d) /\ manualScans'[d] = manualScans[d]
        BY <1>0, <2>0, <2>r, <3>1, <3>3 DEF Unwritten, RescanRecord
      <4> QED
        BY <1>0, <4>1, QuotaShrinks
    <3> QED
      BY <3>2, <3>3
  <2>3. CASE ~AdmitRescan(r) /\ ~PersistRescan(r)
    <3>1. UNCHANGED manualScans /\ rescan'[r].id = rescan[r].id
      BY <1>0, <1>4, <2>3, <2>r
         DEF RescanStep, RescanDies, TryClaimScanLock, RecordRescan, RescanThrows,
             ReleaseScanLock, RescanRecord
    <3>2. rescan'[r].pc \in {"admitted", "scanning"} => rescan[r].pc \in {"admitted", "scanning"}
      BY <1>0, <1>4, <2>3, <2>r
         DEF RescanStep, RescanDies, TryClaimScanLock, RecordRescan, RescanThrows,
             ReleaseScanLock, RescanRecord
    <3>3. Unwritten(d)' \subseteq Unwritten(d)
      BY <2>0, <3>1, <3>2 DEF Unwritten
    <3> QED
      BY <1>0, <3>1, <3>3, QuotaShrinks
  <2> QED
    BY <2>1, <2>2, <2>3
<1>5. CASE \/ UNCHANGED vars
           \/ \E s \in Sweeps : SweepStep(s) \/ SweepDies(s)
           \/ \E a \in AdminScans : ReadForAdminScan(a) \/ RecordAdminScan(a)
           \/ \E c \in Domains : OwnerStep(c)
  <2>1. UNCHANGED rescan /\ UNCHANGED manualScans
    BY <1>5 DEF vars, SweepStep, SweepDies, SelectDueDomains, ClaimNext, AuditSucceeds,
                AuditFails, AuditThrows, RecordSuccess, RecordTargetFailure,
                RecordPlatformFailure, FinishDomain, ReadForAdminScan, RecordAdminScan,
                OwnerStep, SetMonitoringState, SoftDeleteDomain, ScheduleReEvaluation
  <2> QED
    BY <1>1, <2>1
<1> QED
  BY <1>2, <1>3, <1>4, <1>5 DEF Next

\* However many requests overlap between the quota check and the scan they
\* write, a month never has more than ManualQuota - 1 scans and one for each
\* request that can be under way at once.
THEOREM QuotaOverrun == Spec => []QuotaOverrunBounded
<1>1. Init => QuotaInv
  BY DEF Init, QuotaInv, Unwritten
<1>2. TInv /\ QuotaInv => QuotaOverrunBounded
  <2> SUFFICES ASSUME TInv, QuotaInv, NEW d \in Domains, manualScans[d] > 0
               PROVE  manualScans[d] < ManualQuota + Cardinality(Rescans)
    BY DEF QuotaOverrunBounded
  <2>1. manualScans[d] + Cardinality(Unwritten(d)) < ManualQuota + Cardinality(Rescans)
    BY DEF QuotaInv
  <2>2. Cardinality(Unwritten(d)) \in Nat /\ Cardinality(Rescans) \in Nat
    BY UnwrittenFinite DEF Unwritten
  <2>3. manualScans[d] \in Nat /\ ManualQuota \in Nat
    BY CountAssumption DEF TInv, TypeOK
  <2> QED
    BY <2>1, <2>2, <2>3
<1> QED
  BY <1>1, <1>2, InitType, NextType, NextQuota, PTL DEF Spec

-----------------------------------------------------------------------------
(* Failure streaks *)

Count(d) == domain[d].consecutiveFailureCount
Episode(d) == domain[d].failureEpisodeId

\* The rows a sweep has selected and not decided on, and those it has claimed
\* and not recorded.
Queued(s) == {sweep[s].queue[i] : i \in 1..Len(sweep[s].queue)}
Claimed(s) ==
    {sweep[s].claimed[i] : i \in {k \in 1..Len(sweep[s].claimed) : HeldAt(s, k)}}
Held(d) == \E s \in Sweeps : \E row \in Claimed(s) : row.id = d

\* A snapshot tells the streak in the row of its domain; or it is outdated, and
\* both it and the row are at the threshold: a domain paused and resumed since.
Accurate(row) == row.failures = Count(row.id) /\ row.episode = Episode(row.id)
Doomed(row) ==
    /\ row.failures + 1 >= FailurePauseThreshold /\ Count(row.id) >= FailurePauseThreshold
    /\ row.failures <= Count(row.id) /\ row.episode = Episode(row.id)
Usable(row) == Accurate(row) \/ Doomed(row)

\* A row that another sweep has dealt with since: its date is no longer due.
Passed(row) == Protected(row.id) /\ ~Held(row.id)

Snapshots ==
    \A s \in Sweeps :
        /\ \A row \in Queued(s) : row.eligible => Usable(row) \/ Passed(row)
        /\ \A row \in Claimed(s) : Usable(row)

Known(row) == (row.episode = 0 <=> row.failures = 0) /\ row.episode < nextEpisode

Streaks ==
    /\ \A d \in Domains : (Episode(d) = 0 <=> Count(d) = 0) /\ Episode(d) < nextEpisode
    /\ \A c, d \in Domains : Episode(c) = Episode(d) => c = d \/ Episode(c) = 0
    /\ \A s \in Sweeps : \A row \in Queued(s) \cup Claimed(s) : Known(row)
    /\ \A s \in Sweeps : sweep[s].failure.episode < nextEpisode
    /\ \A e \in 1..MaxEpisodes : e >= nextEpisode => occurrences[e] = 0

\* What a sweep is about to record follows from its snapshot.
Failing ==
    \A s \in Sweeps :
        /\ sweep[s].failure = NoFailure \/ sweep[s].pc \in {"failed", "threw", "recorded"}
        /\ sweep[s].pc = "failed" =>
                /\ sweep[s].failure.count = Current(s).failures + 1
                /\ sweep[s].failure.pause <=> sweep[s].failure.count >= FailurePauseThreshold
                /\ Current(s).episode # 0 => sweep[s].failure.episode = Current(s).episode

\* A fresh episode is nobody else's until it is recorded.
Unused(s) ==
    LET e == sweep[s].failure.episode
    IN  /\ occurrences[e] = 0
        /\ \A d \in Domains : Episode(d) # e
        /\ \A t \in Sweeps :
                /\ t # s => sweep[t].failure.episode # e
                /\ \A row \in Queued(t) \cup Claimed(t) : row.episode # e
FreshEpisodes ==
    \A s \in Sweeps : sweep[s].pc = "failed" /\ Current(s).episode = 0 => Unused(s)

\* A notice still to be written does not count too far.
PendingNotices ==
    \A s \in Sweeps : \A d \in Domains :
        /\ sweep[s].pc = "recorded" /\ sweep[s].failure # NoFailure
        /\ Episode(d) = sweep[s].failure.episode
        => sweep[s].failure.count <= Count(d)

FInv ==
    /\ CInv
    /\ Snapshots /\ Streaks /\ Failing /\ FreshEpisodes /\ PendingNotices /\ NoticeWithinEpisode

\* The steps that record nothing: no streak moves, ...
StreaksStand ==
    /\ \A d \in Domains : Count(d)' = Count(d) /\ Episode(d)' = Episode(d)
    /\ nextEpisode' = nextEpisode

\* ... a row is selected afresh or claimed when due, if it was not so before, ...
RowsKept ==
    \A s \in Sweeps :
        /\ \A row \in Queued(s)' :
                /\ row \in Queued(s) \/ Accurate(row)
                /\ row.eligible /\ Protected(row.id) => Protected(row.id)'
        /\ \A row \in Claimed(s)' :
                \/ row \in Claimed(s)
                \/ row \in Queued(s) /\ row.eligible /\ ~Protected(row.id)

\* ... a failure is kept or forgotten, ...
FailuresKept ==
    \A s \in Sweeps :
        \/ sweep'[s].failure = NoFailure /\ sweep'[s].pc # "failed"
        \/ /\ sweep'[s].failure = sweep[s].failure
           /\ \/ sweep'[s].pc = sweep[s].pc /\ Current(s)' = Current(s)
              \/ sweep[s].pc = "failed" /\ sweep'[s].pc = "threw"

\* ... and a notice counts what a recorded failure counted.
NoticesFollow ==
    \A e \in 1..MaxEpisodes :
        \/ occurrences'[e] = occurrences[e]
        \/ \E s \in Sweeps : /\ sweep[s].pc = "recorded" /\ sweep[s].failure # NoFailure
                             /\ sweep[s].failure.episode = e
                             /\ occurrences'[e] = sweep[s].failure.count

RowsTyped ==
    \A s \in Sweeps : \A row \in Queued(s) \cup Claimed(s) :
        row \in Snapshot /\ row.id \in Domains /\ row.failures \in Nat /\ row.episode \in 0..MaxEpisodes

LEMMA RowTypes == TInv => RowsTyped
<1> SUFFICES ASSUME TInv, NEW s \in Sweeps, NEW row \in Queued(s) \cup Claimed(s)
             PROVE  row \in Snapshot
  BY DEF RowsTyped, Snapshot
<1> QED
  BY HeldTypes DEF Queued, Claimed

LEMMA FailureTypes ==
    ASSUME TInv, NEW s \in Sweeps
    PROVE  /\ sweep[s].failure \in Failure
           /\ sweep[s].failure.episode \in 0..MaxEpisodes /\ sweep[s].failure.count \in Nat
           /\ sweep[s].failure # NoFailure =>
                sweep[s].failure.episode \in 1..MaxEpisodes /\ sweep[s].failure.count > 0
           /\ sweep[s].pc = "failed" => sweep[s].failure # NoFailure
<1>1. sweep[s].failure \in Failure
  BY DEF TInv, TypeOK, SweepRecord
<1>2. sweep[s].pc = "failed" => sweep[s].failure # NoFailure
  BY DEF TInv, SweepShape
<1>3. \A f \in Failure :
        /\ f.episode \in 0..MaxEpisodes /\ f.count \in Nat
        /\ f # NoFailure => f.episode \in 1..MaxEpisodes /\ f.count > 0
  <2> TAKE f \in Failure
  <2>1. CASE f = NoFailure
    BY <2>1, CountAssumption DEF NoFailure
  <2>2. CASE f \in [count: Nat \ {0}, pause: BOOLEAN, episode: 1..MaxEpisodes]
    BY <2>2
  <2> QED
    BY <2>1, <2>2 DEF Failure
<1> QED
  BY <1>1, <1>2, <1>3

LEMMA StreakTypes ==
    ASSUME TInv
    PROVE  /\ \A d \in Domains : Count(d) \in Nat /\ Episode(d) \in 0..MaxEpisodes
           /\ nextEpisode \in 1..(MaxEpisodes + 1)
           /\ occurrences \in [1..MaxEpisodes -> Nat]
           /\ MaxEpisodes \in Nat /\ FailurePauseThreshold \in Nat \ {0}
BY CountAssumption DEF TInv, TypeOK, Row, Count, Episode

LEMMA KeptStep ==
    ASSUME FInv, CInv', StreaksStand, RowsKept, FailuresKept, NoticesFollow
    PROVE  FInv'
<1> USE DEF FInv
<1>1. TInv /\ TInv'
  BY DEF CInv
<1>2. \A s \in Sweeps : \A row \in Queued(s)' \cup Claimed(s)' :
        row \in Snapshot /\ row.id \in Domains
  <2>1. RowsTyped'
    BY <1>1, RowTypes, PTL
  <2> QED
    BY <2>1 DEF RowsTyped
<1>3. \A row : row.id \in Domains =>
        (Accurate(row)' <=> Accurate(row)) /\ (Usable(row)' <=> Usable(row))
  BY DEF StreaksStand, Usable, Accurate, Doomed
<1>4. \A s \in Sweeps : \A row \in Claimed(s)' : Usable(row)
  BY DEF RowsKept, Snapshots, Passed
<1>5. Snapshots'
  <2> SUFFICES ASSUME NEW s \in Sweeps, NEW row \in Queued(s)', row.eligible, ~Usable(row)'
               PROVE  Passed(row)'
    BY <1>2, <1>3, <1>4 DEF Snapshots
  <2>1. row \in Queued(s) /\ ~Usable(row)
    BY <1>2, <1>3 DEF RowsKept, Usable
  <2>2. Protected(row.id) /\ ~Held(row.id) /\ Protected(row.id)'
    BY <2>1 DEF Snapshots, Passed, RowsKept
  <2>3. ~Held(row.id)'
    <3> SUFFICES ASSUME NEW t \in Sweeps, NEW r \in Claimed(t)', r.id = row.id PROVE FALSE
      BY DEF Held
    <3>1. r \in Claimed(t) \/ ~Protected(r.id)
      BY DEF RowsKept
    <3> QED
      BY <2>2, <3>1 DEF Held
  <2> QED
    BY <2>2, <2>3 DEF Passed
<1>6. \A s \in Sweeps : \A row \in Queued(s)' \cup Claimed(s)' :
        \/ \E t \in Sweeps : row \in Queued(t) \cup Claimed(t)
        \/ Accurate(row) /\ row.id \in Domains
  BY <1>2 DEF RowsKept
<1>7. Streaks'
  <2>1. \A d \in Domains : (Episode(d)' = 0 <=> Count(d)' = 0) /\ Episode(d)' < nextEpisode'
    BY DEF Streaks, StreaksStand
  <2>2. \A c, d \in Domains : Episode(c)' = Episode(d)' => c = d \/ Episode(c)' = 0
    BY DEF Streaks, StreaksStand
  <2>3. \A s \in Sweeps : \A row \in Queued(s)' \cup Claimed(s)' : Known(row)'
    BY <1>6 DEF Streaks, StreaksStand, Known, Accurate
  <2>4. \A s \in Sweeps : sweep'[s].failure.episode < nextEpisode'
    BY <1>1, StreakTypes DEF Streaks, StreaksStand, FailuresKept, NoFailure
  <2>5. \A e \in 1..MaxEpisodes : e >= nextEpisode' => occurrences'[e] = 0
    <3> SUFFICES ASSUME NEW e \in 1..MaxEpisodes, e >= nextEpisode PROVE occurrences'[e] = 0
      BY DEF StreaksStand
    <3>1. \A s \in Sweeps : sweep[s].failure.episode # e
      BY <1>1, StreakTypes, FailureTypes DEF Streaks
    <3> QED
      BY <3>1 DEF Streaks, NoticesFollow
  <2> QED
    BY <2>1, <2>2, <2>3, <2>4, <2>5 DEF Streaks
<1>8. Failing'
  <2> SUFFICES ASSUME NEW s \in Sweeps
               PROVE  /\ \/ sweep'[s].failure = NoFailure
                         \/ sweep'[s].pc \in {"failed", "threw", "recorded"}
                      /\ sweep'[s].pc = "failed" =>
                            /\ sweep'[s].failure.count = Current(s)'.failures + 1
                            /\ sweep'[s].failure.pause <=>
                                    sweep'[s].failure.count >= FailurePauseThreshold
                            /\ Current(s)'.episode # 0 =>
                                    sweep'[s].failure.episode = Current(s)'.episode
    BY DEF Failing
  <2>1. CASE sweep'[s].failure = NoFailure /\ sweep'[s].pc # "failed"
    BY <2>1
  <2>2. CASE /\ sweep'[s].failure = sweep[s].failure
             /\ sweep'[s].pc = sweep[s].pc /\ Current(s)' = Current(s)
    BY <2>2 DEF Failing
  <2>3. CASE sweep[s].pc = "failed" /\ sweep'[s].pc = "threw"
    BY <2>3
  <2> QED
    BY <2>1, <2>2, <2>3 DEF FailuresKept
<1>9. FreshEpisodes'
  <2> SUFFICES ASSUME NEW s \in Sweeps, sweep'[s].pc = "failed", Current(s)'.episode = 0
               PROVE  Unused(s)'
    BY DEF FreshEpisodes
  <2>1. /\ sweep'[s].failure = sweep[s].failure /\ sweep[s].pc = "failed"
        /\ Current(s)' = Current(s)
    BY DEF FailuresKept
  <2>2. Unused(s)
    BY <2>1 DEF FreshEpisodes
  <2>3. PICK e \in 1..MaxEpisodes : e = sweep[s].failure.episode
    BY <1>1, <2>1, FailureTypes
  <2>4. occurrences'[e] = 0
    <3>1. \A t \in Sweeps : t # s => sweep[t].failure.episode # e
      BY <2>2, <2>3 DEF Unused
    <3>2. occurrences[e] = 0
      BY <2>2, <2>3 DEF Unused
    <3>3. ~\E t \in Sweeps : sweep[t].pc = "recorded" /\ sweep[t].failure.episode = e
      BY <2>1, <3>1
    <3> QED
      BY <3>2, <3>3 DEF NoticesFollow
  <2>5. \A d \in Domains : Episode(d)' # e
    BY <2>2, <2>3 DEF Unused, StreaksStand
  <2>6. \A t \in Sweeps : t # s => sweep'[t].failure.episode # e
    BY <2>2, <2>3 DEF Unused, FailuresKept, NoFailure
  <2>7. \A t \in Sweeps : \A row \in Queued(t)' \cup Claimed(t)' : row.episode # e
    BY <1>6, <2>2, <2>3 DEF Unused, Accurate
  <2> QED
    BY <2>1, <2>3, <2>4, <2>5, <2>6, <2>7 DEF Unused
<1>10. PendingNotices'
  BY DEF PendingNotices, FailuresKept, StreaksStand
<1>11. NoticeWithinEpisode'
  <2> SUFFICES ASSUME NEW d \in Domains, Episode(d)' # 0
               PROVE  occurrences'[Episode(d)'] <= Count(d)'
    BY DEF NoticeWithinEpisode, Episode, Count
  <2>1. PICK e \in 1..MaxEpisodes : e = Episode(d) /\ Episode(d)' = e /\ Count(d)' = Count(d)
    BY <1>1, StreakTypes DEF StreaksStand
  <2>2. occurrences[e] <= Count(d)
    BY <1>1, <2>1, StreakTypes DEF NoticeWithinEpisode, Episode, Count
  <2>3. \A s \in Sweeps : sweep[s].pc = "recorded" /\ sweep[s].failure # NoFailure
                            /\ sweep[s].failure.episode = e => sweep[s].failure.count <= Count(d)
    BY <2>1 DEF PendingNotices
  <2>4. occurrences'[e] <= Count(d)
    BY <2>2, <2>3 DEF NoticesFollow
  <2> QED
    BY <2>1, <2>4
<1> QED
  BY <1>5, <1>7, <1>8, <1>9, <1>10, <1>11

\* Steps of others, and of the clock.
LEMMA UntouchedStreaks ==
    ASSUME FInv, CInv', UNCHANGED <<sweep, nextEpisode, occurrences>>, StreaksStand, DatesKept
    PROVE  FInv'
<1>1. \A s \in Sweeps : /\ Queued(s)' = Queued(s) /\ Claimed(s)' = Claimed(s)
                        /\ Current(s)' = Current(s)
  BY DEF Queued, Claimed, HeldAt, Current
<1>2. \A s \in Sweeps : \A row \in Queued(s) : row.eligible =>
            row.id \in Domains /\ Frequency[row.id] # "none"
  <2>1. \A s \in Sweeps : \A row \in Queued(s) : row.id \in Domains
    BY RowTypes DEF FInv, CInv, RowsTyped
  <2> QED
    BY <2>1 DEF FInv, CInv, SweepRows, RowsOf, Queued
<1>3. RowsKept
  BY <1>1, <1>2 DEF RowsKept, DatesKept
<1>4. FailuresKept /\ NoticesFollow
  BY <1>1 DEF FailuresKept, NoticesFollow
<1> QED
  BY <1>3, <1>4, KeptStep

LEMMA TickStreaks ==
    ASSUME FInv, CInv', Tick
    PROVE  FInv'
<1>0. TInv /\ CInv
  BY DEF FInv, CInv
<1>1. \A s \in Sweeps :
        /\ sweep'[s].pc = sweep[s].pc /\ sweep'[s].queue = sweep[s].queue
        /\ sweep'[s].claimed = sweep[s].claimed /\ sweep'[s].failure = sweep[s].failure
  BY <1>0, TickKeepsSweeps
<1>2. \A s \in Sweeps : /\ Queued(s)' = Queued(s) /\ Claimed(s)' = Claimed(s)
                        /\ Current(s)' = Current(s)
  BY <1>1 DEF Queued, Claimed, HeldAt, Current
<1>3. StreaksStand
  <2>1. UNCHANGED nextEpisode
    BY DEF Tick
  <2>2. ASSUME NEW d \in Domains PROVE Count(d)' = Count(d) /\ Episode(d)' = Episode(d)
    <3>1. domain[d] \in Row
      BY <1>0 DEF TInv, TypeOK
    <3>2. domain'[d] = [domain[d] EXCEPT !.nextScanAt = Earlier(@), !.scanLockUntil = Remaining(@)]
      BY DEF Tick
    <3> QED
      BY <3>1, <3>2 DEF Row, Count, Episode
  <2> QED
    BY <2>1, <2>2 DEF StreaksStand
<1>4. RowsKept
  <2>1. \A s \in Sweeps : \A row \in Queued(s) : row.id \in Domains /\ sweep[s].pc # "idle"
    BY <1>0, RowTypes DEF CInv, SweepRows, RowsOf, RowsTyped, Queued
  <2> QED
    BY <1>0, <1>2, <2>1, TickKeepsDates DEF RowsKept
<1>5. FailuresKept
  BY <1>1, <1>2 DEF FailuresKept
<1>6. NoticesFollow
  BY DEF NoticesFollow, Tick, notices
<1> QED
  BY <1>3, <1>4, <1>5, <1>6, KeptStep

\* Steps of one sweep that record nothing.
LEMMA OneSweepKept ==
    ASSUME FInv, CInv', NEW s \in Sweeps, \A t \in Sweeps : t # s => sweep'[t] = sweep[t],
           StreaksStand, NoticesFollow, \A d \in Domains : Protected(d) => Protected(d)',
           \A row \in Queued(s)' : row \in Queued(s) \/ Accurate(row),
           \A row \in Claimed(s)' :
                \/ row \in Claimed(s)
                \/ row \in Queued(s) /\ row.eligible /\ ~Protected(row.id),
           \/ sweep'[s].failure = NoFailure /\ sweep'[s].pc # "failed"
           \/ /\ sweep'[s].failure = sweep[s].failure
              /\ sweep[s].pc = "failed" /\ sweep'[s].pc = "threw"
    PROVE  FInv'
<1>1. \A t \in Sweeps : t # s => /\ Queued(t)' = Queued(t) /\ Claimed(t)' = Claimed(t)
                                 /\ Current(t)' = Current(t)
  BY DEF Queued, Claimed, HeldAt, Current
<1>2. \A t \in Sweeps : \A row \in Queued(t)' : row.id \in Domains
  <2>1. RowsTyped'
    BY RowTypes, PTL DEF CInv
  <2> QED
    BY <2>1 DEF RowsTyped
<1>3. RowsKept
  BY <1>1, <1>2 DEF RowsKept
<1>4. FailuresKept
  BY <1>1 DEF FailuresKept
<1> QED
  BY <1>3, <1>4, KeptStep

LEMMA SelectStreaks ==
    ASSUME FInv, CInv', NEW s \in Sweeps, SelectDueDomains(s)
    PROVE  FInv'
<1>0. TInv /\ sweep \in [Sweeps -> SweepRecord]
  BY DEF FInv, CInv, TInv, TypeOK
<1>1. PICK q \in Selections :
            sweep' = [sweep EXCEPT ![s] =
                [IdleSweep EXCEPT !.pc = IF q = << >> THEN "idle" ELSE "claiming",
                                  !.queue = [i \in DOMAIN q |-> SnapshotOf(q[i])]]]
  BY DEF SelectDueDomains
<1> DEFINE rows == [i \in DOMAIN q |-> SnapshotOf(q[i])]
<1>2. rows \in Seq(Snapshot)
  BY <1>0, SelectionType DEF TInv
<1>3. \A i \in 1..Len(rows) : rows[i] = SnapshotOf(q[i])
  <2>1. DOMAIN rows = 1..Len(rows)
    BY <1>2, LenProperties
  <2> QED
    BY <2>1
<1> HIDE DEF rows
<1>4. /\ sweep'[s].pc \in {"idle", "claiming"} /\ sweep'[s].queue = rows
      /\ sweep'[s].claimed = << >> /\ sweep'[s].failure = NoFailure
      /\ \A t \in Sweeps : t # s => sweep'[t] = sweep[t]
  BY <1>0, <1>1 DEF IdleSweep, rows
<1>5. Claimed(s)' = {}
  BY <1>4 DEF Claimed
<1>6. \A row \in Queued(s)' : Accurate(row)
  <2> SUFFICES ASSUME NEW row \in Queued(s)' PROVE Accurate(row)
    OBVIOUS
  <2>1. PICK i \in 1..Len(rows) : row = rows[i]
    BY <1>4 DEF Queued
  <2>2. row = SnapshotOf(q[i])
    BY <1>3, <2>1
  <2> QED
    BY <2>2 DEF Accurate, SnapshotOf, Count, Episode
<1>7. UNCHANGED <<domain, nextEpisode, occurrences>> /\ cron'.until = cron.until
  BY <1>0 DEF SelectDueDomains, notices, TInv, TypeOK
<1>8. StreaksStand /\ NoticesFollow /\ \A d \in Domains : Protected(d) => Protected(d)'
  BY <1>7 DEF StreaksStand, NoticesFollow, Protected, Age, Count, Episode
<1> QED
  BY <1>4, <1>5, <1>6, <1>8, OneSweepKept

LEMMA ClaimNextStreaks ==
    ASSUME FInv, CInv', NEW s \in Sweeps, ClaimNext(s)
    PROVE  FInv'
<1> DEFINE row == Head(sweep[s].queue)
           rest == Tail(sweep[s].queue)
           wins == ClaimWins(s, row)
           n == Len(sweep[s].claimed)
           claimed == IF wins THEN Append(sweep[s].claimed, row) ELSE sweep[s].claimed
           pc == IF rest # << >> THEN "claiming"
                 ELSE IF claimed # << >> THEN "auditing" ELSE "idle"
<1>0. /\ CInv /\ TInv /\ TInv' /\ sweep \in [Sweeps -> SweepRecord]
      /\ domain \in [Domains -> Row]
      /\ sweep[s].claimed \in Seq(Snapshot)
      /\ sweep[s].queue \in Seq(Snapshot) /\ sweep[s].queue # << >>
      /\ sweep[s].pc = "claiming" /\ n \in Nat
  BY HeldTypes DEF ClaimNext, FInv, CInv, TInv, TypeOK, SweepShape, SweepRecord
<1>1. /\ row \in Snapshot /\ row = sweep[s].queue[1] /\ 1 \in 1..Len(sweep[s].queue)
      /\ rest \in Seq(Snapshot) /\ Len(rest) = Len(sweep[s].queue) - 1
      /\ \A i \in 1..Len(rest) : rest[i] = sweep[s].queue[i + 1]
  <2>1. row \in Snapshot
    BY <1>0, HeadTailProperties
  <2>2. row = sweep[s].queue[1]
    BY <1>0
  <2>3. /\ rest \in Seq(Snapshot) /\ Len(rest) = Len(sweep[s].queue) - 1
        /\ \A i \in 1..Len(rest) : rest[i] = sweep[s].queue[i + 1]
    BY <1>0, HeadTailProperties
  <2>4. 1 \in 1..Len(sweep[s].queue)
    BY <1>0, EmptySeq
  <2> QED
    BY <2>1, <2>2, <2>3, <2>4
<1>d. PICK d \in Domains : d = row.id
  BY <1>1 DEF Snapshot
<1>2. /\ sweep' = [sweep EXCEPT ![s].pc = pc, ![s].queue = rest, ![s].claimed = claimed]
      /\ domain' = IF wins THEN [domain EXCEPT ![d].nextScanAt = ClaimLock - sweep[s].age]
                   ELSE domain
      /\ UNCHANGED <<nextEpisode, occurrences>>
  BY <1>d DEF ClaimNext, notices
<1>c. /\ \A c \in Domains : Protected(c) => Protected(c)'
      /\ wins => row.eligible /\ ~Protected(row.id)
  BY <1>0, ClaimNextExcludes DEF ClaimWins
<1>p. pc \in {"claiming", "auditing", "idle"}
  OBVIOUS
<1>l. (wins => claimed = Append(sweep[s].claimed, row)) /\ (~wins => claimed = sweep[s].claimed)
  OBVIOUS
<1> HIDE DEF row, rest, wins, n, claimed, pc
<1>3. /\ sweep'[s].pc = pc /\ sweep'[s].queue = rest /\ sweep'[s].claimed = claimed
      /\ sweep'[s].failure = sweep[s].failure
      /\ \A t \in Sweeps : t # s => sweep'[t] = sweep[t]
  BY <1>0, <1>2 DEF SweepRecord
<1>4. sweep'[s].failure = NoFailure /\ sweep'[s].pc # "failed"
  BY <1>0, <1>3, <1>p DEF FInv, Failing
<1>5. StreaksStand /\ NoticesFollow
  BY <1>0, <1>2 DEF StreaksStand, NoticesFollow, Row, Count, Episode
<1>6. \A r \in Queued(s)' : r \in Queued(s)
  <2>1. \A i \in 1..Len(rest) : i + 1 \in 1..Len(sweep[s].queue)
    BY <1>0, <1>1, HeldTypes
  <2> QED
    BY <1>1, <1>3, <2>1 DEF Queued
<1>7. row \in Queued(s)
  BY <1>1 DEF Queued
<1>8. \A r \in Claimed(s)' : r \in Claimed(s) \/ (r = row /\ wins)
  <2> SUFFICES ASSUME NEW r \in Claimed(s)' PROVE r \in Claimed(s) \/ (r = row /\ wins)
    OBVIOUS
  <2>1. PICK i \in 1..Len(claimed) : r = claimed[i]
    BY <1>3 DEF Claimed
  <2>2. \A k \in 1..n : HeldAt(s, k)
    BY <1>0 DEF HeldAt, n
  <2>3. CASE ~wins
    <3>1. i \in 1..n /\ r = sweep[s].claimed[i]
      BY <1>l, <2>1, <2>3 DEF n
    <3> QED
      BY <2>2, <3>1 DEF Claimed, n
  <2>4. CASE wins
    <3>1. /\ Len(claimed) = n + 1 /\ claimed[n + 1] = row
          /\ \A k \in 1..n : claimed[k] = sweep[s].claimed[k]
      BY <1>0, <1>1, <1>l, <2>4, AppendProperties DEF n
    <3>2. CASE i = n + 1
      BY <2>1, <2>4, <3>1, <3>2
    <3>3. CASE i # n + 1
      <4>1. i \in 1..n
        BY <1>0, <2>1, <3>1, <3>3
      <4>2. r = sweep[s].claimed[i]
        BY <2>1, <3>1, <4>1
      <4> QED
        BY <2>2, <4>1, <4>2 DEF Claimed, n
    <3> QED
      BY <3>2, <3>3
  <2> QED
    BY <2>3, <2>4
<1> QED
  BY <1>c, <1>3, <1>4, <1>5, <1>6, <1>7, <1>8, OneSweepKept

\* The steps of a sweep that leave the rows of all domains alone.
LEMMA WaitingStreaks ==
    ASSUME FInv, CInv', NEW s \in Sweeps,
           \/ AuditSucceeds(s) \/ AuditThrows(s) \/ RecordPlatformFailure(s)
           \/ FinishDomain(s) \/ SweepDies(s)
    PROVE  FInv'
<1>0. /\ CInv /\ TInv /\ sweep \in [Sweeps -> SweepRecord] /\ sweep[s] \in SweepRecord
      /\ sweep[s].failure \in Failure /\ NoFailure \in Failure /\ Len(sweep[s].claimed) \in Nat
  BY HeldTypes DEF FInv, CInv, TInv, TypeOK, SweepRecord, Failure
<1>1. /\ UNCHANGED <<domain, cron, nextEpisode>>
      /\ \A t \in Sweeps : t # s => sweep'[t] = sweep[t]
  BY <1>0 DEF AuditSucceeds, AuditThrows, RecordPlatformFailure, FinishDomain, SweepDies
<1>2. StreaksStand /\ \A d \in Domains : Protected(d) => Protected(d)'
  BY <1>1 DEF StreaksStand, Protected, Age, Count, Episode
\* The claims of s at their worst.
<1>a. ASSUME sweep'[s].queue = sweep[s].queue \/ sweep'[s].queue = << >>,
             NEW k \in {0, 1}, Shifts(s, k)
      PROVE  /\ \A row \in Queued(s)' : row \in Queued(s)
             /\ \A row \in Claimed(s)' : row \in Claimed(s)
  <2>1. \A row \in Queued(s)' : row \in Queued(s)
    BY <1>a DEF Queued
  <2>2. ASSUME NEW row \in Claimed(s)' PROVE row \in Claimed(s)
    <3>1. PICK i \in 1..Len(sweep'[s].claimed) : HeldAt(s, i)' /\ row = sweep'[s].claimed[i]
      BY DEF Claimed
    <3>2. PICK j \in 1..Len(sweep[s].claimed) : HeldAt(s, j) /\ row = sweep[s].claimed[j]
      BY <1>a, <3>1 DEF Shifts
    <3> QED
      BY <3>2 DEF Claimed
  <2> QED
    BY <2>1, <2>2
<1>b. sweep'[s].claimed = << >> => Shifts(s, 0)
  BY DEF Shifts
<1>3. CASE AuditSucceeds(s) \/ AuditThrows(s)
  <2>1. /\ sweep[s].pc \in {"auditing", "succeeded", "failed"}
        /\ sweep'[s].pc \in {"succeeded", "threw"} /\ sweep'[s].queue = sweep[s].queue
        /\ sweep'[s].claimed = sweep[s].claimed /\ sweep'[s].failure = sweep[s].failure
        /\ (sweep[s].pc = "failed" => sweep'[s].pc = "threw")
    BY <1>0, <1>3 DEF AuditSucceeds, AuditThrows, SweepRecord
  <2>2. Shifts(s, 0)
    BY <1>0, <2>1 DEF Shifts, HeldAt
  <2>3. \/ sweep'[s].failure = NoFailure /\ sweep'[s].pc # "failed"
        \/ /\ sweep'[s].failure = sweep[s].failure
           /\ sweep[s].pc = "failed" /\ sweep'[s].pc = "threw"
    BY <2>1 DEF FInv, Failing
  <2>4. NoticesFollow
    BY <1>3 DEF AuditSucceeds, AuditThrows, NoticesFollow, notices
  <2> QED
    BY <1>1, <1>2, <1>a, <2>1, <2>2, <2>3, <2>4, OneSweepKept
<1>4. CASE RecordPlatformFailure(s)
  <2>1. sweep[s].pc = "threw"
        /\ sweep' = [sweep EXCEPT ![s].pc = "recorded", ![s].failure = NoFailure]
    BY <1>4 DEF RecordPlatformFailure
  <2>2. /\ sweep'[s].pc = "recorded" /\ sweep'[s].queue = sweep[s].queue
        /\ sweep'[s].claimed = sweep[s].claimed /\ sweep'[s].failure = NoFailure
    BY <1>0, <2>1, RecordReleases
  <2>3. Shifts(s, 0)
    BY <1>0, <2>1, <2>2 DEF Shifts, HeldAt
  <2>4. NoticesFollow
    BY <1>4 DEF RecordPlatformFailure, NoticesFollow, notices
  <2> QED
    BY <1>1, <1>2, <1>a, <2>2, <2>3, <2>4, OneSweepKept
<1>5. CASE SweepDies(s)
  <2>1. sweep'[s] = IdleSweep
    BY <1>0, <1>5 DEF SweepDies
  <2>2. NoticesFollow
    BY <1>5 DEF SweepDies, NoticesFollow, notices
  <2> QED
    BY <1>1, <1>2, <1>a, <1>b, <2>1, <2>2, OneSweepKept DEF IdleSweep
<1>6. CASE FinishDomain(s)
  <2> DEFINE rest == Tail(sweep[s].claimed)
  <2>1. /\ sweep[s].claimed \in Seq(Snapshot) /\ sweep[s].claimed # << >>
        /\ sweep[s].pc = "recorded"
    BY <1>0, <1>6 DEF FinishDomain, SweepRecord, TInv, SweepShape
  <2>2. /\ rest \in Seq(Snapshot) /\ Len(rest) = Len(sweep[s].claimed) - 1
        /\ \A i \in 1..Len(rest) : rest[i] = sweep[s].claimed[i + 1]
    BY <2>1, HeadTailProperties
  <2>3. NoticesFollow
    <3> SUFFICES ASSUME NEW e \in 1..MaxEpisodes, occurrences'[e] # occurrences[e]
                 PROVE  /\ sweep[s].failure # NoFailure /\ sweep[s].failure.episode = e
                        /\ occurrences'[e] = sweep[s].failure.count
      BY <2>1 DEF NoticesFollow
    <3>1. /\ sweep[s].failure # NoFailure
          /\ occurrences' = [occurrences EXCEPT ![sweep[s].failure.episode] =
                                OccurrenceAfter(sweep[s].failure)]
      BY <1>6 DEF FinishDomain, NotifyTargetFailure, notices
    <3>2. occurrences \in [1..MaxEpisodes -> Nat]
      BY <1>0, StreakTypes
    <3> QED
      BY <3>1, <3>2 DEF OccurrenceAfter
  <2>4. CASE rest = << >>
    <3>1. sweep'[s] = IdleSweep
      BY <1>0, <1>6, <2>4 DEF FinishDomain
    <3> QED
      BY <1>1, <1>2, <1>a, <1>b, <2>3, <3>1, OneSweepKept DEF IdleSweep
  <2>5. CASE rest # << >>
    <3>1. sweep' = [sweep EXCEPT ![s] =
                [@ EXCEPT !.pc = "auditing", !.claimed = rest, !.failure = NoFailure]]
      BY <1>6, <2>5 DEF FinishDomain
    <3> HIDE DEF rest
    <3>2. /\ sweep'[s].pc = "auditing" /\ sweep'[s].queue = sweep[s].queue
          /\ sweep'[s].claimed = rest /\ sweep'[s].failure = NoFailure
      BY <1>0, <3>1 DEF SweepRecord
    <3>3. \A i \in 1..Len(rest) : i + 1 \in 1..Len(sweep[s].claimed) /\ i + 1 > 1
      BY <1>0, <2>2
    <3>4. Shifts(s, 1)
      BY <2>2, <3>2, <3>3 DEF Shifts, HeldAt
    <3> QED
      BY <1>1, <1>2, <1>a, <2>3, <3>2, <3>4, OneSweepKept
  <2> QED
    BY <2>4, <2>5
<1> QED
  BY <1>3, <1>4, <1>5, <1>6

LEMMA AuditFailsStreaks ==
    ASSUME FInv, CInv', NEW s \in Sweeps, AuditFails(s)
    PROVE  FInv'
<1> USE DEF FInv
<1>0. /\ CInv /\ TInv /\ TInv' /\ sweep \in [Sweeps -> SweepRecord] /\ sweep[s] \in SweepRecord
      /\ sweep[s].claimed \in Seq(Snapshot) /\ sweep[s].claimed # << >>
      /\ Len(sweep[s].claimed) \in Nat \ {0} /\ sweep[s].pc = "auditing"
  BY HeldTypes, EmptySeq DEF CInv, TInv, TypeOK, SweepRecord, SweepShape, AuditFails
<1>1. /\ sweep'[s].pc = "failed" /\ sweep'[s].failure = FailureOf(Current(s), nextEpisode)
      /\ sweep'[s].queue = sweep[s].queue /\ sweep'[s].claimed = sweep[s].claimed
      /\ \A t \in Sweeps : t # s => sweep'[t] = sweep[t]
      /\ UNCHANGED <<domain, cron, occurrences>>
      /\ nextEpisode' = IF Current(s).episode = 0 THEN nextEpisode + 1 ELSE nextEpisode
      /\ Current(s).episode = 0 => nextEpisode <= MaxEpisodes
  BY <1>0 DEF AuditFails, SweepRecord, notices
<1>2. /\ Current(s) \in Claimed(s) /\ Current(s) \in Snapshot /\ Current(s).failures \in Nat
      /\ Current(s).episode \in 0..MaxEpisodes
  <2>1. HeldAt(s, 1) /\ Current(s) = sweep[s].claimed[1]
    BY <1>0 DEF HeldAt, Current
  <2>2. Current(s) \in Claimed(s)
    BY <1>0, <2>1 DEF Claimed
  <2> QED
    BY <1>0, <2>2, RowTypes DEF RowsTyped
<1>3. \A t \in Sweeps : /\ Queued(t)' = Queued(t) /\ Claimed(t)' = Claimed(t)
                        /\ Current(t)' = Current(t)
  <2>1. \A i : HeldAt(s, i)' <=> HeldAt(s, i)
    BY <1>0, <1>1 DEF HeldAt
  <2>2. Queued(s)' = Queued(s) /\ Claimed(s)' = Claimed(s) /\ Current(s)' = Current(s)
    BY <1>1, <2>1 DEF Queued, Claimed, Current
  <2>3. \A t \in Sweeps : t # s => /\ Queued(t)' = Queued(t) /\ Claimed(t)' = Claimed(t)
                                   /\ Current(t)' = Current(t)
    BY <1>1 DEF Queued, Claimed, HeldAt, Current
  <2> QED
    BY <2>2, <2>3
<1>4. /\ \A d \in Domains : Count(d)' = Count(d) /\ Episode(d)' = Episode(d)
      /\ \A d : Protected(d)' <=> Protected(d)
      /\ \A row : row.id \in Domains =>
            (Accurate(row)' <=> Accurate(row)) /\ (Usable(row)' <=> Usable(row))
      /\ \A d \in Domains : Held(d)' <=> Held(d)
  <2>1. \A d \in Domains : Count(d)' = Count(d) /\ Episode(d)' = Episode(d)
    BY <1>1 DEF Count, Episode
  <2>2. \A d : Protected(d)' <=> Protected(d)
    BY <1>1 DEF Protected, Age
  <2>3. \A row : row.id \in Domains =>
            (Accurate(row)' <=> Accurate(row)) /\ (Usable(row)' <=> Usable(row))
    BY <2>1 DEF Accurate, Usable, Doomed
  <2>4. \A d \in Domains : Held(d)' <=> Held(d)
    BY <1>3 DEF Held
  <2> QED
    BY <2>1, <2>2, <2>3, <2>4
<1>5. nextEpisode \in 1..(MaxEpisodes + 1) /\ nextEpisode' \in Int /\ nextEpisode' >= nextEpisode
      /\ FailurePauseThreshold \in Nat
  BY <1>0, <1>1, StreakTypes
<1>6. \A t \in Sweeps : \A row \in Queued(t) \cup Claimed(t) :
            row.id \in Domains /\ row.episode \in Nat /\ row.episode < nextEpisode
  BY <1>0, RowTypes DEF RowsTyped, Streaks, Known
<1>7. \A t \in Sweeps : sweep[t].failure.episode \in Nat /\ sweep[t].failure.episode < nextEpisode
  BY <1>0, FailureTypes, CountAssumption DEF Streaks
<1>8. /\ sweep'[s].failure.count = Current(s).failures + 1
      /\ sweep'[s].failure.pause <=> Current(s).failures + 1 >= FailurePauseThreshold
      /\ sweep'[s].failure.episode = IF Current(s).episode = 0 THEN nextEpisode
                                     ELSE Current(s).episode
  <2>1. sweep'[s].failure =
            [count |-> Current(s).failures + 1,
             pause |-> Current(s).failures + 1 >= FailurePauseThreshold,
             episode |-> IF Current(s).episode = 0 THEN nextEpisode ELSE Current(s).episode]
    BY <1>1 DEF FailureOf
  <2>2. sweep'[s].failure.pause = (Current(s).failures + 1 >= FailurePauseThreshold)
    BY <2>1
  <2>3. sweep'[s].failure.pause <=> Current(s).failures + 1 >= FailurePauseThreshold
    BY <2>2
  <2> QED
    BY <2>1, <2>3
<1>9. sweep'[s].failure.episode < nextEpisode'
  BY <1>1, <1>2, <1>5, <1>6, <1>8
<1>10. Snapshots'
  BY <1>3, <1>4, <1>6 DEF Snapshots, Passed
<1>11. Streaks'
  <2>1. \A d \in Domains : Episode(d) \in Nat /\ Count(d) \in Nat
    BY <1>0, StreakTypes, CountAssumption
  <2>2. \A d \in Domains : (Episode(d)' = 0 <=> Count(d)' = 0) /\ Episode(d)' < nextEpisode'
    BY <1>4, <1>5, <2>1 DEF Streaks
  <2>3. \A c, d \in Domains : Episode(c)' = Episode(d)' => c = d \/ Episode(c)' = 0
    BY <1>4 DEF Streaks
  <2>4. \A t \in Sweeps : \A row \in Queued(t)' \cup Claimed(t)' : Known(row)'
    BY <1>3, <1>5, <1>6 DEF Streaks, Known
  <2>5. \A t \in Sweeps : sweep'[t].failure.episode < nextEpisode'
    BY <1>1, <1>5, <1>7, <1>9
  <2>6. \A e \in 1..MaxEpisodes : e >= nextEpisode' => occurrences'[e] = 0
    BY <1>1, <1>5 DEF Streaks
  <2> QED
    BY <2>2, <2>3, <2>4, <2>5, <2>6 DEF Streaks
<1>12. Failing'
  <2>1. \A t \in Sweeps : t # s => sweep'[t] = sweep[t] /\ Current(t)' = Current(t)
    BY <1>1, <1>3
  <2>2. Current(s)' = Current(s)
    BY <1>3
  <2> QED
    BY <1>1, <1>8, <2>1, <2>2 DEF Failing
<1>13. FreshEpisodes'
  <2> SUFFICES ASSUME NEW t \in Sweeps, sweep'[t].pc = "failed", Current(t)'.episode = 0
               PROVE  Unused(t)'
    BY DEF FreshEpisodes
  <2>0. Current(t).episode = 0
    BY <1>3
  <2>1. CASE t = s
    <3>1. sweep'[s].failure.episode = nextEpisode /\ nextEpisode \in 1..MaxEpisodes
      BY <1>1, <1>5, <1>8, <2>0, <2>1
    <3>2. occurrences'[nextEpisode] = 0
      BY <1>1, <3>1 DEF Streaks
    <3>3. \A d \in Domains : Episode(d)' # nextEpisode
      <4>1. \A d \in Domains : Episode(d) \in Nat
        BY <1>0, StreakTypes, CountAssumption
      <4> QED
        BY <1>4, <1>5, <4>1 DEF Streaks
    <3>4. \A u \in Sweeps : u # s => sweep'[u].failure.episode # nextEpisode
      BY <1>1, <1>5, <1>7
    <3>5. \A u \in Sweeps : \A row \in Queued(u)' \cup Claimed(u)' : row.episode # nextEpisode
      BY <1>3, <1>5, <1>6
    <3> QED
      BY <2>1, <3>1, <3>2, <3>3, <3>4, <3>5 DEF Unused
  <2>2. CASE t # s
    <3>1. PICK e : e = sweep[t].failure.episode
      OBVIOUS
    <3>2. Unused(t) /\ sweep'[t] = sweep[t]
      BY <1>1, <2>0, <2>2 DEF FreshEpisodes
    <3>3. sweep'[s].failure.episode # e
      <4>1. e < nextEpisode /\ e \in Nat
        BY <1>7, <3>1
      <4>2. Current(s).episode # e
        BY <1>2, <3>1, <3>2 DEF Unused
      <4> QED
        BY <1>5, <1>8, <4>1, <4>2
    <3>4. \A u \in Sweeps : u # t => sweep'[u].failure.episode # e
      BY <1>1, <3>1, <3>2, <3>3 DEF Unused
    <3>5. \A u \in Sweeps : \A row \in Queued(u)' \cup Claimed(u)' : row.episode # e
      BY <1>3, <3>1, <3>2 DEF Unused
    <3>6. occurrences'[e] = 0 /\ \A d \in Domains : Episode(d)' # e
      BY <1>1, <1>4, <3>1, <3>2 DEF Unused
    <3> QED
      BY <3>1, <3>2, <3>4, <3>5, <3>6 DEF Unused
  <2> QED
    BY <2>1, <2>2
<1>14. PendingNotices'
  <2> SUFFICES ASSUME NEW t \in Sweeps, NEW d \in Domains, sweep'[t].pc = "recorded",
                      sweep'[t].failure # NoFailure, Episode(d)' = sweep'[t].failure.episode
               PROVE  sweep'[t].failure.count <= Count(d)'
    BY DEF PendingNotices
  <2>1. sweep'[t] = sweep[t]
    BY <1>1
  <2> QED
    BY <1>4, <2>1 DEF PendingNotices
<1>15. NoticeWithinEpisode'
  BY <1>1 DEF NoticeWithinEpisode
<1> QED
  BY <1>10, <1>11, <1>12, <1>13, <1>14, <1>15

\* A sweep that has audited a domain holds it.
LEMMA CurrentHeld ==
    ASSUME FInv, NEW s \in Sweeps, sweep[s].pc \in {"auditing", "succeeded", "failed", "threw"}
    PROVE  /\ Current(s) \in Claimed(s) /\ Current(s).id \in Domains
           /\ Usable(Current(s)) /\ Known(Current(s)) /\ Frequency[Current(s).id] # "none"
           /\ Current(s).failures \in Nat /\ Current(s).episode \in 0..MaxEpisodes
<1>0. /\ CInv /\ TInv /\ Len(sweep[s].claimed) \in Nat \ {0} /\ sweep[s].claimed # << >>
  BY HeldTypes, EmptySeq DEF FInv, CInv, TInv, TypeOK, SweepRecord, SweepShape
<1>1. HeldAt(s, 1) /\ Current(s) = sweep[s].claimed[1] /\ 1 \in 1..Len(sweep[s].claimed)
  BY <1>0 DEF HeldAt, Current
<1>2. Current(s) \in Claimed(s)
  BY <1>0, <1>1 DEF Claimed
<1>3. Frequency[Current(s).id] # "none"
  BY <1>0, <1>1 DEF CInv, SweepRows, RowsOf, HeldId
<1> QED
  BY <1>0, <1>2, <1>3, RowTypes DEF RowsTyped, FInv, Snapshots, Streaks

\* What a failure decided on a snapshot means for the row it is written to.
LEMMA FailureOutcome ==
    ASSUME FInv, NEW s \in Sweeps, sweep[s].pc = "failed", NEW d \in Domains, d = Current(s).id
    PROVE  /\ sweep[s].failure.episode \in 1..MaxEpisodes
           /\ sweep[s].failure.count \in Nat \ {0}
           /\ sweep[s].failure.count <= Count(d) + 1
           /\ Episode(d) # 0 => sweep[s].failure.episode = Episode(d)
           /\ Episode(d) = 0 => Unused(s)
           /\ sweep[s].failure.pause => Count(d) + 1 >= FailurePauseThreshold
           /\ ~sweep[s].failure.pause => Count(d) + 1 < FailurePauseThreshold
           /\ FailurePauseThreshold > 1 /\ sweep[s].failure.pause =>
                Episode(d) # 0 /\ Current(s).failures + 1 >= FailurePauseThreshold
<1>0. TInv
  BY DEF FInv, CInv
<1>1. /\ Usable(Current(s)) /\ Known(Current(s)) /\ Current(s).failures \in Nat
      /\ Current(s).episode \in 0..MaxEpisodes
  BY CurrentHeld
<1>2. /\ sweep[s].failure.episode \in 1..MaxEpisodes /\ sweep[s].failure.count \in Nat \ {0}
  BY <1>0, FailureTypes
<1>3. Count(d) \in Nat /\ Episode(d) \in 0..MaxEpisodes /\ FailurePauseThreshold \in Nat \ {0}
  BY <1>0, StreakTypes
<1>4. Current(s).failures <= Count(d) /\ Current(s).episode = Episode(d)
  BY <1>1, <1>3 DEF Usable, Accurate, Doomed
<1>5. sweep[s].failure.count = Current(s).failures + 1
  BY DEF FInv, Failing
<1>6. sweep[s].failure.pause <=> Current(s).failures + 1 >= FailurePauseThreshold
  BY <1>5 DEF FInv, Failing
<1>7. Episode(d) # 0 => sweep[s].failure.episode = Episode(d)
  BY <1>4 DEF FInv, Failing
<1>8. Episode(d) = 0 => Unused(s)
  BY <1>4 DEF FInv, FreshEpisodes
<1>9. Current(s).failures + 1 < FailurePauseThreshold => Current(s).failures = Count(d)
  BY <1>1, <1>3 DEF Usable, Accurate, Doomed
<1>10. Episode(d) = 0 <=> Current(s).failures = 0
  BY <1>1, <1>4 DEF Known
<1>11. sweep[s].failure.pause => Count(d) + 1 >= FailurePauseThreshold
  BY <1>1, <1>3, <1>4, <1>6
<1>12. ~sweep[s].failure.pause => Count(d) + 1 < FailurePauseThreshold
  BY <1>1, <1>3, <1>6, <1>9
<1>13. FailurePauseThreshold > 1 /\ sweep[s].failure.pause =>
            Episode(d) # 0 /\ Current(s).failures + 1 >= FailurePauseThreshold
  BY <1>1, <1>3, <1>6, <1>10
<1>14. sweep[s].failure.count <= Count(d) + 1
  BY <1>1, <1>3, <1>4, <1>5
<1> QED
  BY <1>2, <1>7, <1>8, <1>11, <1>12, <1>13, <1>14

\* What an outcome may do to the row of the domain it is about.
LEMMA OutcomeStreaks ==
    ASSUME FInv, CInv', NEW s \in Sweeps, sweep[s].pc \in {"succeeded", "failed"},
           NEW d \in Domains, d = Current(s).id,
           sweep' = [sweep EXCEPT ![s].pc = "recorded"],
           \A c \in Domains : c # d => domain'[c] = domain[c],
           UNCHANGED <<cron, nextEpisode, occurrences>>,
           \A row \in Snapshot :
                row.id = d /\ Usable(row) => Usable(row)' \/ Protected(d)',
           Episode(d)' = 0 <=> Count(d)' = 0, Episode(d)' < nextEpisode,
           \/ Episode(d)' = 0
           \/ Episode(d)' = Episode(d) /\ Count(d)' >= Count(d)
           \/ Unused(s) /\ sweep[s].pc = "failed" /\ Episode(d)' = sweep[s].failure.episode,
           sweep[s].pc = "failed" =>
                /\ Episode(d)' = sweep[s].failure.episode
                /\ sweep[s].failure.count <= Count(d)'
    PROVE  FInv'
<1> USE DEF FInv
<1>0. /\ CInv /\ TInv /\ sweep \in [Sweeps -> SweepRecord] /\ sweep[s] \in SweepRecord
      /\ sweep[s].failure \in Failure
  BY DEF CInv, TInv, TypeOK, SweepRecord
<1>a. sweep' = [sweep EXCEPT ![s].pc = "recorded", ![s].failure = sweep[s].failure]
  BY <1>0 DEF SweepRecord
<1>1. /\ sweep'[s].pc = "recorded" /\ sweep'[s].queue = sweep[s].queue
      /\ sweep'[s].claimed = sweep[s].claimed /\ sweep'[s].failure = sweep[s].failure
      /\ \A t \in Sweeps : t # s => sweep'[t] = sweep[t]
  BY <1>0, <1>a, RecordReleases
<1>b. \A t \in Sweeps : \A i \in 1..Len(sweep'[t].claimed) : HeldAt(t, i)' =>
            /\ i \in 1..Len(sweep[t].claimed) /\ HeldAt(t, i)
            /\ HeldId(t, i)' = HeldId(t, i) /\ HeldId(t, i) # Current(s).id
  BY <1>0, <1>a, RecordReleases
<1>2. \A t \in Sweeps : Queued(t)' = Queued(t)
  <2>1. \A t \in Sweeps : sweep'[t].queue = sweep[t].queue
    <3> TAKE t \in Sweeps
    <3>1. CASE t = s
      BY <1>1, <3>1
    <3>2. CASE t # s
      BY <1>1, <3>2
    <3> QED
      BY <3>1, <3>2
  <2> QED
    BY <2>1 DEF Queued
<1>3. \A t \in Sweeps : \A row \in Claimed(t)' : row \in Claimed(t) /\ row.id # d
  <2> SUFFICES ASSUME NEW t \in Sweeps, NEW row \in Claimed(t)'
               PROVE  row \in Claimed(t) /\ row.id # d
    OBVIOUS
  <2>1. PICK i \in 1..Len(sweep'[t].claimed) : HeldAt(t, i)' /\ row = sweep'[t].claimed[i]
    BY DEF Claimed
  <2>2. /\ i \in 1..Len(sweep[t].claimed) /\ HeldAt(t, i)
        /\ HeldId(t, i)' = HeldId(t, i) /\ HeldId(t, i) # d
    BY <1>b, <2>1
  <2>3. sweep'[t].claimed = sweep[t].claimed
    <3>1. CASE t = s
      BY <1>1, <3>1
    <3>2. CASE t # s
      BY <1>1, <3>2
    <3> QED
      BY <3>1, <3>2
  <2> QED
    BY <2>1, <2>2, <2>3 DEF Claimed, HeldId
<1>4. \A t \in Sweeps : Current(t)' = Current(t) /\ sweep'[t].failure = sweep[t].failure
  <2> TAKE t \in Sweeps
  <2>1. CASE t = s
    BY <1>1, <2>1 DEF Current
  <2>2. CASE t # s
    BY <1>1, <2>2 DEF Current
  <2> QED
    BY <2>1, <2>2
<1>5. /\ ~Held(d)' /\ \A c \in Domains : Held(c)' => Held(c)
      /\ \A c \in Domains : c # d =>
            /\ Count(c)' = Count(c) /\ Episode(c)' = Episode(c)
            /\ Protected(c)' <=> Protected(c)
  BY <1>3 DEF Held, Count, Episode, Protected, Age
<1>6. Held(d)
  BY CurrentHeld DEF Held
<1>7. \A t \in Sweeps : \A row \in Queued(t) \cup Claimed(t) :
            row \in Snapshot /\ row.id \in Domains
  BY <1>0, RowTypes DEF RowsTyped
<1>8. \A row : row.id \in Domains /\ row.id # d => (Usable(row)' <=> Usable(row))
  BY <1>5 DEF Usable, Accurate, Doomed
<1>10. Snapshots'
  <2>1. ASSUME NEW t \in Sweeps, NEW row \in Queued(t), row.eligible
        PROVE  Usable(row)' \/ Passed(row)'
    <3>1. row \in Snapshot /\ row.id \in Domains /\ (Usable(row) \/ Passed(row))
      BY <1>7, <2>1 DEF Snapshots
    <3>2. CASE row.id = d
      <4>1. Usable(row)
        BY <1>6, <3>1, <3>2 DEF Passed
      <4>2. Usable(row)' \/ Protected(d)'
        BY <3>1, <3>2, <4>1
      <4> QED
        BY <1>5, <3>2, <4>2 DEF Passed
    <3>3. CASE row.id # d
      BY <1>5, <1>8, <3>1, <3>3 DEF Passed
    <3> QED
      BY <3>2, <3>3
  <2>2. ASSUME NEW t \in Sweeps, NEW row \in Claimed(t)' PROVE Usable(row)'
    BY <1>3, <1>7, <1>8 DEF Snapshots
  <2> QED
    BY <1>2, <2>1, <2>2 DEF Snapshots
<1>e. \A c \in Domains : Episode(c)' \in Nat /\ Episode(c) \in Nat /\ Count(c) \in Nat /\ Count(c)' \in Nat
  <2>1. TInv'
    BY DEF CInv
  <2>2. \A c \in Domains : Episode(c)' \in 0..MaxEpisodes /\ Count(c)' \in Nat
    BY <2>1 DEF TInv, TypeOK, Row, Episode, Count
  <2> QED
    BY <1>0, <2>2, StreakTypes, CountAssumption
<1>f. \A c \in Domains : c # d => Episode(d)' = 0 \/ Episode(c) # Episode(d)'
  BY DEF Streaks, Unused
<1>11. Streaks'
  <2>1. \A c \in Domains : (Episode(c)' = 0 <=> Count(c)' = 0) /\ Episode(c)' < nextEpisode'
    BY <1>5 DEF Streaks
  <2>2. ASSUME NEW b \in Domains, NEW c \in Domains, Episode(b)' = Episode(c)', b # c
        PROVE  Episode(b)' = 0
    <3>1. CASE b = d
      BY <1>5, <1>f, <2>2, <3>1
    <3>2. CASE c = d
      BY <1>5, <1>f, <2>2, <3>2
    <3>3. CASE b # d /\ c # d
      BY <1>5, <2>2, <3>3 DEF Streaks
    <3> QED
      BY <3>1, <3>2, <3>3
  <2>3. \A t \in Sweeps : \A row \in Queued(t)' \cup Claimed(t)' : Known(row)'
    BY <1>2, <1>3 DEF Streaks, Known
  <2>4. \A t \in Sweeps : sweep'[t].failure.episode < nextEpisode'
    BY <1>4 DEF Streaks
  <2>5. \A e \in 1..MaxEpisodes : e >= nextEpisode' => occurrences'[e] = 0
    BY DEF Streaks
  <2> QED
    BY <2>1, <2>2, <2>3, <2>4, <2>5 DEF Streaks
<1>12. Failing'
  <2>1. \A t \in Sweeps : t # s => sweep'[t] = sweep[t] /\ Current(t)' = Current(t)
    BY <1>1, <1>4
  <2> QED
    BY <1>1, <2>1 DEF Failing
<1>13. FreshEpisodes'
  <2> SUFFICES ASSUME NEW t \in Sweeps, sweep'[t].pc = "failed", Current(t)'.episode = 0
               PROVE  Unused(t)'
    BY DEF FreshEpisodes
  <2>1. t # s /\ sweep'[t] = sweep[t] /\ Current(t).episode = 0
    BY <1>1, <1>4
  <2>2. PICK e : e = sweep[t].failure.episode
    OBVIOUS
  <2>3. Unused(t)
    BY <2>1 DEF FreshEpisodes
  <2>4. e # 0
    BY <1>0, <2>1, <2>2, FailureTypes
  <2>5. \A c \in Domains : Episode(c)' # e
    <3>1. \A c \in Domains : c # d => Episode(c)' # e
      BY <1>5, <2>2, <2>3 DEF Unused
    <3>2. Episode(d) # e /\ sweep[s].failure.episode # e
      BY <2>1, <2>2, <2>3 DEF Unused
    <3>3. Episode(d)' # e
      BY <2>4, <3>2
    <3> QED
      BY <3>1, <3>3
  <2>6. \A u \in Sweeps : \A row \in Queued(u)' \cup Claimed(u)' : row.episode # e
    BY <1>2, <1>3, <2>2, <2>3 DEF Unused
  <2>7. \A u \in Sweeps : u # t => sweep'[u].failure.episode # e
    BY <1>4, <2>2, <2>3 DEF Unused
  <2>8. occurrences'[e] = 0
    BY <2>2, <2>3 DEF Unused
  <2> QED
    BY <2>1, <2>2, <2>5, <2>6, <2>7, <2>8 DEF Unused
<1>14. PendingNotices'
  <2> SUFFICES ASSUME NEW t \in Sweeps, NEW c \in Domains, sweep'[t].pc = "recorded",
                      sweep'[t].failure # NoFailure, Episode(c)' = sweep'[t].failure.episode
               PROVE  sweep'[t].failure.count <= Count(c)'
    BY DEF PendingNotices
  <2>0. sweep[t].failure # NoFailure /\ Episode(c)' = sweep[t].failure.episode /\ Episode(c)' # 0
    <3>1. sweep[t].failure # NoFailure /\ Episode(c)' = sweep[t].failure.episode
      BY <1>4
    <3> QED
      BY <1>0, <3>1, FailureTypes
  <2>1. CASE t = s
    <3>1. sweep[s].pc = "failed"
      BY <2>0, <2>1 DEF Failing
    <3>2. CASE c = d
      BY <1>1, <2>1, <3>1, <3>2
    <3>3. CASE c # d
      BY <1>5, <1>f, <2>0, <2>1, <3>1, <3>3
    <3> QED
      BY <3>2, <3>3
  <2>2. CASE t # s
    <3>0. sweep'[t] = sweep[t] /\ sweep[t].failure.count \in Nat
      BY <1>0, <1>1, <2>2, FailureTypes
    <3>1. CASE c # d
      BY <1>5, <2>0, <3>0, <3>1 DEF PendingNotices
    <3>2. CASE c = d
      <4>1. Episode(d)' = Episode(d) /\ Count(d)' >= Count(d)
        BY <2>0, <2>2, <3>2 DEF Unused
      <4>2. sweep[t].failure.count <= Count(d)
        BY <2>0, <3>0, <3>2, <4>1 DEF PendingNotices
      <4> QED
        BY <1>e, <3>0, <3>2, <4>1, <4>2
    <3> QED
      BY <3>1, <3>2
  <2> QED
    BY <2>1, <2>2
<1>15. NoticeWithinEpisode'
  <2> SUFFICES ASSUME NEW c \in Domains, Episode(c)' # 0
               PROVE  occurrences[Episode(c)'] <= Count(c)'
    BY DEF NoticeWithinEpisode, Episode, Count
  <2>0. \A b \in Domains : Episode(b) # 0 => occurrences[Episode(b)] <= Count(b)
    BY DEF NoticeWithinEpisode, Episode, Count
  <2>1. CASE c # d
    BY <1>5, <2>0, <2>1
  <2>2. CASE c = d
    <3>1. CASE Episode(d)' = Episode(d) /\ Count(d)' >= Count(d)
      <4>1. Episode(d) \in 1..MaxEpisodes /\ occurrences[Episode(d)] \in Nat
        BY <1>0, <2>2, <3>1, StreakTypes
      <4>2. occurrences[Episode(d)] <= Count(d)
        BY <2>0, <2>2, <3>1
      <4> QED
        BY <1>e, <2>2, <3>1, <4>1, <4>2
    <3>2. CASE Unused(s) /\ Episode(d)' = sweep[s].failure.episode
      BY <1>e, <2>2, <3>2 DEF Unused
    <3> QED
      BY <2>2, <3>1, <3>2
  <2> QED
    BY <2>1, <2>2
<1> QED
  BY <1>10, <1>11, <1>12, <1>13, <1>14, <1>15

LEMMA RecordedRow ==
    ASSUME TInv, NEW s \in Sweeps, NEW d \in Domains, d = Current(s).id,
           RecordSuccess(s) \/ RecordTargetFailure(s)
    PROVE  /\ sweep' = [sweep EXCEPT ![s].pc = "recorded"]
           /\ UNCHANGED <<cron, nextEpisode, occurrences>>
           /\ \A c \in Domains : c # d => domain'[c] = domain[c]
           /\ RecordSuccess(s) =>
                /\ sweep[s].pc = "succeeded" /\ Count(d)' = 0 /\ Episode(d)' = 0
                /\ domain'[d].nextScanAt = ComputeNextScanAt(d)
           /\ RecordTargetFailure(s) =>
                /\ sweep[s].pc = "failed" /\ Count(d)' = Count(d) + 1
                /\ Episode(d)' = sweep[s].failure.episode
                /\ domain'[d].nextScanAt =
                        IF sweep[s].failure.pause THEN Null
                        ELSE BackoffNextScanAt(sweep[s].failure.count, sweep[s].age)
                /\ sweep[s].failure.pause => domain'[d].monitoringState = "paused"
<1>0. domain \in [Domains -> Row] /\ domain[d] \in Row
  BY DEF TInv, TypeOK
<1>1. CASE RecordSuccess(s)
  <2>1. domain' = [domain EXCEPT ![d] = [@ EXCEPT !.nextScanAt = ComputeNextScanAt(d),
                                                  !.consecutiveFailureCount = 0,
                                                  !.failureEpisodeId = 0]]
    BY <1>1 DEF RecordSuccess, Recovered
  <2>2. sweep[s].pc = "succeeded"
    BY <1>1 DEF RecordSuccess, Recovered
  <2>3. ~RecordTargetFailure(s)
    BY <2>2 DEF RecordTargetFailure
  <2> QED
    BY <1>0, <1>1, <2>1, <2>2, <2>3 DEF RecordSuccess, Recovered, notices, Row, Count, Episode
<1>2. CASE RecordTargetFailure(s)
  <2> DEFINE f == sweep[s].failure
             next == IF f.pause THEN Null ELSE BackoffNextScanAt(f.count, sweep[s].age)
             state == IF f.pause THEN "paused" ELSE domain[d].monitoringState
  <2>1. domain' = [domain EXCEPT ![d] = [@ EXCEPT !.nextScanAt = next,
                                                  !.consecutiveFailureCount = Count(d) + 1,
                                                  !.failureEpisodeId = f.episode,
                                                  !.monitoringState = state]]
    BY <1>2 DEF RecordTargetFailure, Count
  <2>2. sweep[s].pc = "failed"
    BY <1>2 DEF RecordTargetFailure
  <2>3. ~RecordSuccess(s)
    BY <2>2 DEF RecordSuccess, Recovered
  <2>4. f.pause => state = "paused"
    OBVIOUS
  <2>6. next = IF sweep[s].failure.pause THEN Null
               ELSE BackoffNextScanAt(sweep[s].failure.count, sweep[s].age)
    OBVIOUS
  <2> HIDE DEF next, state
  <2>5. /\ domain'[d].nextScanAt = next /\ domain'[d].consecutiveFailureCount = Count(d) + 1
        /\ domain'[d].failureEpisodeId = f.episode /\ domain'[d].monitoringState = state
        /\ \A c \in Domains : c # d => domain'[c] = domain[c]
    BY <1>0, <2>1 DEF Row
  <2>7. sweep' = [sweep EXCEPT ![s].pc = "recorded"] /\ UNCHANGED <<cron, nextEpisode, occurrences>>
    BY <1>2 DEF RecordTargetFailure, notices
  <2>8. Count(d)' = Count(d) + 1 /\ Episode(d)' = f.episode
    BY <2>5 DEF Count, Episode
  <2> QED
    BY <2>2, <2>3, <2>4, <2>5, <2>6, <2>7, <2>8
<1> QED
  BY <1>1, <1>2

LEMMA RecordStreaks ==
    ASSUME FInv, CInv', FailurePauseThreshold > 1, NEW s \in Sweeps,
           RecordSuccess(s) \/ RecordTargetFailure(s)
    PROVE  FInv'
<1>0. /\ CInv /\ TInv /\ sweep[s].pc \in {"succeeded", "failed"} /\ sweep[s] \in SweepRecord
  BY DEF FInv, CInv, TInv, TypeOK, RecordSuccess, Recovered,
     RecordTargetFailure
<1>1. PICK d \in Domains : d = Current(s).id
  BY <1>0, CurrentHeld
<1>2. /\ sweep' = [sweep EXCEPT ![s].pc = "recorded"]
      /\ UNCHANGED <<cron, nextEpisode, occurrences>>
      /\ \A c \in Domains : c # d => domain'[c] = domain[c]
  BY <1>0, <1>1, RecordedRow
<1>3. sweep[s].age \in Nat /\ sweep[s].age = Age /\ Age' = Age
  BY <1>0, <1>2 DEF SweepRecord, CInv, SweepClock, Age
<1>4. Count(d) \in Nat /\ Episode(d) \in 0..MaxEpisodes /\ nextEpisode \in Nat \ {0}
      /\ FailurePauseThreshold \in Nat
  BY <1>0, StreakTypes
<1>5. CASE RecordSuccess(s)
  <2>1. /\ sweep[s].pc = "succeeded" /\ Count(d)' = 0 /\ Episode(d)' = 0
        /\ domain'[d].nextScanAt = ComputeNextScanAt(d)
    BY <1>0, <1>1, <1>5, RecordedRow
  <2>2. Frequency[d] # "none"
    BY <1>0, <1>1, CurrentHeld
  <2>3. Protected(d)'
    BY <1>3, <2>1, <2>2, QuietBounds, NullAssumption DEF Protected
  <2>4. sweep[s].pc # "failed" /\ Episode(d)' < nextEpisode /\ (Episode(d)' = 0 <=> Count(d)' = 0)
    BY <1>4, <2>1
  <2>5. \A row \in Snapshot : row.id = d /\ Usable(row) => Usable(row)' \/ Protected(d)'
    BY <2>3
  <2> QED
    BY <1>0, <1>1, <1>2, <2>1, <2>4, <2>5, OutcomeStreaks
<1>6. CASE RecordTargetFailure(s)
  <2>1. /\ sweep[s].pc = "failed" /\ Count(d)' = Count(d) + 1
        /\ Episode(d)' = sweep[s].failure.episode
        /\ domain'[d].nextScanAt = IF sweep[s].failure.pause THEN Null
                                   ELSE BackoffNextScanAt(sweep[s].failure.count, sweep[s].age)
    BY <1>0, <1>1, <1>6, RecordedRow
  <2>2. /\ sweep[s].failure.episode \in 1..MaxEpisodes
        /\ sweep[s].failure.count \in Nat \ {0}
        /\ sweep[s].failure.count <= Count(d) + 1
        /\ Episode(d) # 0 => sweep[s].failure.episode = Episode(d)
        /\ Episode(d) = 0 => Unused(s)
        /\ sweep[s].failure.pause => Count(d) + 1 >= FailurePauseThreshold
        /\ sweep[s].failure.pause =>
                Episode(d) # 0 /\ Current(s).failures + 1 >= FailurePauseThreshold
    BY <1>1, <2>1, FailureOutcome
  <2>3. ASSUME NEW row \in Snapshot, row.id = d, Usable(row), ~Protected(d)'
        PROVE  Usable(row)'
    <3>1. sweep[s].failure.pause
      <4>1. SUFFICES ASSUME ~sweep[s].failure.pause PROVE Protected(d)'
        BY <2>3
      <4>2. domain'[d].nextScanAt = BackoffNextScanAt(sweep[s].failure.count, sweep[s].age)
        BY <2>1, <4>1
      <4>3. BackoffNextScanAt(sweep[s].failure.count, sweep[s].age) \in Int
        BY <1>3, <2>2, DateTypes
      <4>4. BackoffNextScanAt(sweep[s].failure.count, sweep[s].age) >= Quiet - sweep[s].age
        BY <1>3, <2>2, QuietBounds
      <4> QED
        BY <1>3, <4>2, <4>3, <4>4, QuietBounds, NullAssumption DEF Protected
    <3>2. Current(s).failures <= Count(d) /\ Current(s).failures \in Nat
      BY <1>0, <1>1, <1>4, CurrentHeld DEF Usable, Accurate, Doomed
    <3>3. row.failures \in Nat /\ row.failures <= Count(d) /\ row.episode = Episode(d)
      BY <1>4, <2>3 DEF Usable, Accurate, Doomed, Snapshot
    <3>4. row.failures + 1 >= FailurePauseThreshold
      BY <1>4, <2>2, <2>3, <3>1, <3>2, <3>3 DEF Usable, Accurate, Doomed
    <3>5. Doomed(row)'
      BY <1>4, <2>1, <2>2, <2>3, <3>1, <3>3, <3>4 DEF Doomed
    <3> QED
      BY <3>5 DEF Usable
  <2>4. sweep[s].failure.episode < nextEpisode
    BY DEF FInv, Streaks
  <2>5. Episode(d)' = 0 <=> Count(d)' = 0
    BY <1>4, <2>1, <2>2
  <2>6. \/ Episode(d)' = Episode(d) /\ Count(d)' >= Count(d)
        \/ Unused(s) /\ sweep[s].pc = "failed" /\ Episode(d)' = sweep[s].failure.episode
    BY <1>4, <2>1, <2>2
  <2>7. sweep[s].pc = "failed" =>
                /\ Episode(d)' = sweep[s].failure.episode
                /\ sweep[s].failure.count <= Count(d)'
    BY <2>1, <2>2
  <2>8. Episode(d)' < nextEpisode
    BY <2>1, <2>4
  <2> QED
    BY <1>0, <1>1, <1>2, <2>3, <2>5, <2>6, <2>7, <2>8, OutcomeStreaks
<1> QED
  BY <1>5, <1>6

LEMMA InitStreaks == Init => FInv
<1> SUFFICES ASSUME Init PROVE FInv
  OBVIOUS
<1>0. CInv
  BY InitClaims
<1>1. \A s \in Sweeps : sweep[s] = IdleSweep
  BY DEF Init
<1>2. \A s \in Sweeps : Queued(s) = {} /\ Claimed(s) = {}
  BY <1>1 DEF Queued, Claimed, IdleSweep
<1>3. \A d \in Domains : Count(d) = 0 /\ Episode(d) = 0
  BY DEF Init, NewRow, Count, Episode
<1>4. Streaks
  BY <1>1, <1>2, <1>3 DEF Streaks, Init, IdleSweep, NoFailure
<1>5. Failing /\ FreshEpisodes /\ PendingNotices
  BY <1>1 DEF Failing, FreshEpisodes, PendingNotices, IdleSweep
<1>6. NoticeWithinEpisode
  BY <1>3 DEF NoticeWithinEpisode, Episode
<1>7. Snapshots
  BY <1>2 DEF Snapshots
<1> QED
  BY <1>0, <1>4, <1>5, <1>6, <1>7 DEF FInv

LEMMA NextStreaks ==
    FInv /\ NoOverrides /\ FailurePauseThreshold > 1 /\ [Next]_vars => FInv'
<1> SUFFICES ASSUME FInv, NoOverrides, FailurePauseThreshold > 1, [Next]_vars PROVE FInv'
  OBVIOUS
<1>0. CInv /\ TInv /\ CInv' /\ TInv' /\ domain \in [Domains -> Row]
  BY NextClaims DEF FInv, CInv, TInv, TypeOK
<1>1. ASSUME NEW s \in Sweeps, SweepStep(s) \/ SweepDies(s) PROVE FInv'
  BY <1>0, <1>1, SelectStreaks, ClaimNextStreaks, WaitingStreaks, AuditFailsStreaks,
     RecordStreaks DEF SweepStep
<1>2. ASSUME NEW r \in Rescans, RescanStep(r) \/ RescanDies(r) PROVE FInv'
  <2>1. DatesKept
    BY <1>0, <1>2, RescanKeepsClaims
  <2>2. UNCHANGED <<sweep, nextEpisode, occurrences>>
    BY <1>2 DEF RescanStep, RescanDies, AdmitRescan, TryClaimScanLock, PersistRescan,
                RecordRescan, RescanThrows, ReleaseScanLock, notices
  <2>3. StreaksStand
    BY <1>0, <1>2, <2>2
       DEF RescanStep, RescanDies, AdmitRescan, TryClaimScanLock, PersistRescan, RecordRescan,
           RescanThrows, ReleaseScanLock, StreaksStand, Count, Episode, Row
  <2> QED
    BY <1>0, <2>1, <2>2, <2>3, UntouchedStreaks
<1>3. ASSUME NEW d \in Domains, OwnerStep(d) PROVE FInv'
  <2>1. DatesKept
    BY <1>0, <1>3, OwnerKeepsClaims
  <2>2. UNCHANGED <<sweep, nextEpisode, occurrences>>
    BY <1>3 DEF OwnerStep, SetMonitoringState, SoftDeleteDomain, ScheduleReEvaluation, notices
  <2>3. StreaksStand
    BY <1>0, <1>3, <2>2 DEF OwnerStep, SetMonitoringState, SoftDeleteDomain,
                            ScheduleReEvaluation, StreaksStand, Count, Episode, Row
  <2> QED
    BY <1>0, <2>1, <2>2, <2>3, UntouchedStreaks
<1>4. CASE NewMonth \/ UNCHANGED vars
  <2>1. UNCHANGED <<domain, sweep, cron, nextEpisode, occurrences>>
    BY <1>4 DEF NewMonth, vars, notices
  <2>2. DatesKept /\ StreaksStand
    BY <2>1 DEF DatesKept, StreaksStand, Protected, Age, Count, Episode
  <2> QED
    BY <1>0, <2>1, <2>2, UntouchedStreaks
<1>5. CASE Tick
  BY <1>0, <1>5, TickStreaks
<1>6. ~\E a \in AdminScans : ReadForAdminScan(a) \/ RecordAdminScan(a)
  BY DEF NoOverrides
<1> QED
  BY <1>1, <1>2, <1>3, <1>4, <1>5, <1>6 DEF Next

\* A notice never claims more than its streak: the streak ends in the row before
\* another begins, and no two domains ever share an episode.
THEOREM NoticesTruthful ==
    Spec /\ NoOverrides /\ FailurePauseThreshold > 1 => []NoticeWithinEpisode
<1>1. FInv => NoticeWithinEpisode
  BY DEF FInv
<1>2. NoOverrides /\ FailurePauseThreshold > 1 => (NoOverrides /\ FailurePauseThreshold > 1)'
  BY DEF NoOverrides
<1> QED
  BY <1>1, <1>2, InitStreaks, NextStreaks, PTL DEF Spec

\* Only an outcome moves a streak.
LEMMA StreakMoves ==
    ASSUME TInv, [Next]_vars, NEW d \in Domains
    PROVE  \/ Count(d)' = Count(d) /\ Episode(d)' = Episode(d)
           \/ \E s \in Sweeps : (RecordSuccess(s) \/ RecordTargetFailure(s)) /\ d = Current(s).id
<1>0. domain \in [Domains -> Row]
  BY DEF TInv, TypeOK
<1> DEFINE Stands == Count(d)' = Count(d) /\ Episode(d)' = Episode(d)
<1>1. ASSUME NEW s \in Sweeps, SweepStep(s) \/ SweepDies(s),
             ~(RecordSuccess(s) \/ RecordTargetFailure(s))
      PROVE  Stands
  <2>1. CASE ClaimNext(s)
    <3>1. PICK c, next : domain' = domain \/ domain' = [domain EXCEPT ![c].nextScanAt = next]
      BY <2>1 DEF ClaimNext
    <3> QED
      BY <1>0, <3>1 DEF Count, Episode, Row
  <2>2. CASE ~ClaimNext(s)
    BY <1>1, <2>2 DEF SweepStep, SweepDies, SelectDueDomains, AuditSucceeds, AuditFails,
                      AuditThrows, RecordPlatformFailure, FinishDomain, Count, Episode
  <2> QED
    BY <2>1, <2>2
<1>2. ASSUME NEW s \in Sweeps, RecordSuccess(s) \/ RecordTargetFailure(s), d # Current(s).id
      PROVE  Stands
  BY <1>0, <1>2 DEF RecordSuccess, Recovered, RecordTargetFailure, Count, Episode
<1>3. ASSUME NEW r \in Rescans, RescanStep(r) \/ RescanDies(r) PROVE Stands
  BY <1>0, <1>3
     DEF RescanStep, RescanDies, AdmitRescan, TryClaimScanLock, PersistRescan, RecordRescan,
         RescanThrows, ReleaseScanLock, Count, Episode, Row
<1>4. ASSUME NEW a \in AdminScans, ReadForAdminScan(a) \/ RecordAdminScan(a) PROVE Stands
  BY <1>0, <1>4 DEF ReadForAdminScan, RecordAdminScan, Count, Episode, Row
<1>5. ASSUME NEW c \in Domains, OwnerStep(c) PROVE Stands
  BY <1>0, <1>5 DEF OwnerStep, SetMonitoringState, SoftDeleteDomain, ScheduleReEvaluation,
                    Count, Episode, Row
<1>6. CASE NewMonth \/ UNCHANGED vars
  BY <1>6 DEF NewMonth, vars, Count, Episode
<1>7. CASE Tick
  <2>1. domain'[d] = [domain[d] EXCEPT !.nextScanAt = Earlier(@), !.scanLockUntil = Remaining(@)]
    BY <1>7 DEF Tick
  <2>2. domain[d] \in Row
    BY <1>0
  <2> QED
    BY <2>1, <2>2 DEF Count, Episode, Row
<1> QED
  BY <1>1, <1>2, <1>3, <1>4, <1>5, <1>6, <1>7 DEF Next

\* A failure pauses its domain exactly when it is the one that reaches the
\* threshold, though decision and count come from different readings of the row.
THEOREM PauseAtThreshold ==
    Spec /\ NoOverrides /\ FailurePauseThreshold > 1 => PausesExactlyAtThreshold
<1>1. ASSUME FInv, [Next]_vars, NEW d \in Domains,
             domain'[d].consecutiveFailureCount > domain[d].consecutiveFailureCount
      PROVE  domain'[d].consecutiveFailureCount >= FailurePauseThreshold
             <=> domain'[d].nextScanAt = Null /\ domain'[d].monitoringState = "paused"
  <2>0. TInv /\ Count(d) \in Nat /\ FailurePauseThreshold \in Nat
    BY <1>1, StreakTypes DEF FInv, CInv
  <2>1. PICK s \in Sweeps : (RecordSuccess(s) \/ RecordTargetFailure(s)) /\ d = Current(s).id
    BY <1>1, <2>0, StreakMoves DEF Count
  <2>2. RecordTargetFailure(s)
    BY <1>1, <2>0, <2>1, RecordedRow DEF Count
  <2>3. /\ sweep[s].pc = "failed" /\ Count(d)' = Count(d) + 1 /\ sweep[s].age \in Nat
        /\ domain'[d].nextScanAt = IF sweep[s].failure.pause THEN Null
                                   ELSE BackoffNextScanAt(sweep[s].failure.count, sweep[s].age)
        /\ sweep[s].failure.pause => domain'[d].monitoringState = "paused"
    BY <2>0, <2>1, <2>2, RecordedRow DEF TInv, TypeOK, SweepRecord
  <2>4. /\ sweep[s].failure.count \in Nat \ {0}
        /\ sweep[s].failure.pause => Count(d) + 1 >= FailurePauseThreshold
        /\ ~sweep[s].failure.pause => Count(d) + 1 < FailurePauseThreshold
    BY <1>1, <2>1, <2>3, FailureOutcome
  <2>5. BackoffNextScanAt(sweep[s].failure.count, sweep[s].age) # Null
    BY <2>3, <2>4, DateTypes, NullAssumption
  <2>6. domain'[d].consecutiveFailureCount = Count(d) + 1
    BY <2>3 DEF Count
  <2>7. CASE sweep[s].failure.pause
    BY <2>3, <2>4, <2>6, <2>7
  <2>8. CASE ~sweep[s].failure.pause
    BY <2>0, <2>3, <2>4, <2>5, <2>6, <2>8
  <2> QED
    BY <2>7, <2>8
<1>2. NoOverrides /\ FailurePauseThreshold > 1 => (NoOverrides /\ FailurePauseThreshold > 1)'
  BY DEF NoOverrides
<1>3. FInv /\ [Next]_vars =>
        \A d \in Domains :
            domain'[d].consecutiveFailureCount > domain[d].consecutiveFailureCount =>
                ( domain'[d].consecutiveFailureCount >= FailurePauseThreshold
                  <=> domain'[d].nextScanAt = Null /\ domain'[d].monitoringState = "paused" )
  BY <1>1
<1> QED
  BY <1>2, <1>3, InitStreaks, NextStreaks, PTL DEF Spec, PausesExactlyAtThreshold

\* A streak keeps its episode id from the first failure to the success.
THEOREM OneEpisodePerStreak ==
    Spec /\ NoOverrides /\ FailurePauseThreshold > 1 => EpisodeIdentifiesStreak
<1>1. ASSUME FInv, FInv', [Next]_vars, NEW d \in Domains
      PROVE  /\ (domain'[d].failureEpisodeId = 0) = (domain'[d].consecutiveFailureCount = 0)
             /\ domain[d].failureEpisodeId # 0 =>
                    domain'[d].failureEpisodeId \in {0, domain[d].failureEpisodeId}
  <2>0. TInv
    BY <1>1 DEF FInv, CInv
  <2>1. Episode(d)' = 0 <=> Count(d)' = 0
    BY <1>1 DEF FInv, Streaks
  <2>2. Episode(d) # 0 => Episode(d)' \in {0, Episode(d)}
    <3>1. CASE Episode(d)' = Episode(d)
      BY <3>1
    <3>2. CASE Episode(d)' # Episode(d)
      <4>1. PICK s \in Sweeps :
                (RecordSuccess(s) \/ RecordTargetFailure(s)) /\ d = Current(s).id
        BY <1>1, <2>0, <3>2, StreakMoves
      <4>2. CASE RecordSuccess(s)
        BY <2>0, <4>1, <4>2, RecordedRow
      <4>3. CASE RecordTargetFailure(s)
        <5>1. sweep[s].pc = "failed" /\ Episode(d)' = sweep[s].failure.episode
          BY <2>0, <4>1, <4>3, RecordedRow
        <5> QED
          BY <1>1, <4>1, <5>1, FailureOutcome
      <4> QED
        BY <4>1, <4>2, <4>3
    <3> QED
      BY <3>1, <3>2
  <2> QED
    BY <2>1, <2>2 DEF Episode, Count
<1>2. NoOverrides /\ FailurePauseThreshold > 1 => (NoOverrides /\ FailurePauseThreshold > 1)'
  BY DEF NoOverrides
<1>3. FInv /\ FInv' /\ [Next]_vars =>
        \A d \in Domains :
            /\ (domain'[d].failureEpisodeId = 0) = (domain'[d].consecutiveFailureCount = 0)
            /\ domain[d].failureEpisodeId # 0 =>
                    domain'[d].failureEpisodeId \in {0, domain[d].failureEpisodeId}
  BY <1>1
<1> QED
  BY <1>2, <1>3, InitStreaks, NextStreaks, PTL DEF Spec, EpisodeIdentifiesStreak
=============================================================================
