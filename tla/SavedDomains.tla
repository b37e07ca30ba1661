---------------------------- MODULE SavedDomains ----------------------------
(***************************************************************************)
(* How domains come into an account: saving one by hand, the CSV import,   *)
(* and the handoff of an anonymous audit to the account that continues it. *)
(* What owners do to their domains later is the business of                *)
(* DomainMonitoring.                                                       *)
(*                                                                         *)
(* Requests run without a transaction: each action is one SQL statement,   *)
(* but for the SELECTs that an import begins with, which are one action    *)
(* (ConfirmImport).  What requests share is the table of domains, whose    *)
(* unique index holds one live row per account and origin; the             *)
(* saved-domain limit of the plan is only ever counted before an INSERT.   *)
(* One anonymous audit is enough for the handoffs: they meet at its scan.  *)
(***************************************************************************)
EXTENDS Naturals, FiniteSets

CONSTANTS
    Users, Origins,
    Keys,               \* idempotency keys of imports
    Continuations,      \* ids of audit_continuations rows
    Requests,           \* requests that may overlap
    None,               \* no user, origin, key or continuation
    AuditedOrigin,      \* what was audited anonymously
    SavedDomainLimit,   \* savedDomainLimit of each user's plan
    BatchImportLimit,   \* batchImportLimit of each user's plan
    MonitoringFrequency     \* monitoringFrequency of each user's plan

CONSTANT MaxDomains     \* bound of the model: rows ever inserted

ASSUME SavedDomainsAssumption ==
    /\ None \notin Users \cup Origins \cup Keys \cup Continuations /\ AuditedOrigin \in Origins
    /\ SavedDomainLimit \in [Users -> Nat] /\ BatchImportLimit \in [Users -> Nat]
    /\ MonitoringFrequency \in [Users -> {"none", "weekly"}]
    /\ MaxDomains \in Nat
    /\ Users \cap {"none", "open"} = {} /\ IsFiniteSet(Requests) /\ IsFiniteSet(Origins)

VARIABLES
    domain,             \* domain[d]: the row of domain d
    jobs,               \* portfolio_import_jobs
    continuation,       \* continuation[c]: its row is open, or who has used it
    scan,               \* the anonymous scan
    request             \* request[r]

vars == <<domain, jobs, continuation, scan, request>>

-----------------------------------------------------------------------------
(* Rows and requests *)

DomainIds == 1..MaxDomains
States == {"active", "paused"}

\* adopted: last_scan_id is the anonymous scan.
Domain == [owner: Users, origin: Origins, state: States,
           adopted: BOOLEAN, live: BOOLEAN]
NoDomain == [live |-> FALSE]

Inserted == {d \in DomainIds : domain[d] # NoDomain}
Live == {d \in Inserted : domain[d].live}
LiveOf(u) == {d \in Live : domain[d].owner = u}

\* A faulty variant: another account's row is found as well.
ExistingAnywhere(u, o) == {d \in Live : domain[d].origin = o}

\* findExistingByOrigin.
Existing(u, o) == {d \in LiveOf(u) : domain[d].origin = o}

\* flow: who calls createDomain.  origin, rest: the row an import is at and
\* those it has left; domain: the row it writes.
Request ==
    [flow: {"none", "save", "import", "handoff"},
     pc: {"idle", "finding", "counting", "inserting", "pausing", "storing", "refinding",
          "reading", "claiming", "rerunning", "recording"},
     user: Users \cup {None}, origin: Origins \cup {None}, rest: SUBSET Origins,
     monitoring: States, key: Keys \cup {None},
     continuation: Continuations \cup {None}, domain: DomainIds \cup {0},
     adopts: BOOLEAN]

TypeOK ==
    /\ domain \in [DomainIds -> Domain \cup {NoDomain}]
    /\ \A u \in Users, o \in Origins : Cardinality(Existing(u, o)) <= 1
    /\ jobs \subseteq Users \X Keys
    /\ continuation \in [Continuations -> {"none", "open"} \cup Users]
    /\ scan \in [kept: BOOLEAN, domain: DomainIds \cup {0}]
    /\ request \in [Requests -> Request]

IdleRequest ==
    [flow |-> "none", pc |-> "idle", user |-> None, origin |-> None, rest |-> {},
     monitoring |-> "active", key |-> None, continuation |-> None,
     domain |-> 0, adopts |-> FALSE]

At(r, pc) == request[r].pc = pc
Becomes(r, record) == request' = [request EXCEPT ![r] = record]
Leaves(r) == Becomes(r, IdleRequest)
Goes(r, pc) == Becomes(r, [request[r] EXCEPT !.pc = pc])

\* Request r goes no further: a handoff without a domain has used up its
\* continuation for nothing.
Fails(r) ==
    /\ Leaves(r)
    /\ continuation' = IF request[r].flow = "handoff" /\ request[r].domain = 0
                       THEN [continuation EXCEPT ![request[r].continuation] = "none"]
                       ELSE continuation

-----------------------------------------------------------------------------
(* createDomain *)

\* POST /api/domains, up to createDomain.
SaveDomain(r, u, o) ==
    /\ At(r, "idle")
    /\ Becomes(r, [IdleRequest EXCEPT !.flow = "save", !.pc = "finding",
                       !.user = u, !.origin = o])
    /\ UNCHANGED <<domain, jobs, continuation, scan>>

\* The rows buildImportPlan lets through: the first ones of the file that are
\* not saved yet, as many as there is room for; none of too long a file.
Planned(u, file) ==
    LET new == {o \in file : Existing(u, o) = {}}
        Fits(rows) == Cardinality(rows) + Cardinality(LiveOf(u)) <= SavedDomainLimit[u]
        fitting == {rows \in SUBSET new :
                       rows = {} \/ (Fits(rows) /\ Cardinality(file) <= BatchImportLimit[u])}
    IN  {rows \in fitting : \A o \in new \ rows : rows \cup {o} \notin fitting}

\* The import goes on to one of its rows, in the file's order.
AtRows(import, rows) ==
    IF rows = {} THEN {[import EXCEPT !.pc = "storing", !.origin = None, !.rest = {}, !.domain = 0]}
    ELSE {[import EXCEPT !.pc = "finding", !.origin = o, !.rest = rows \ {o}, !.domain = 0] :
              o \in rows}

\* POST /api/workspace/import/confirm, up to executeImportPlan; a stored job of
\* the same key answers at once.
ConfirmImport(r, u, k, file, monitoring) ==
    /\ At(r, "idle") /\ BatchImportLimit[u] > 0 /\ <<u, k>> \notin jobs
    /\ \E rows \in Planned(u, file) :
           \E import \in AtRows([IdleRequest EXCEPT !.flow = "import", !.user = u,
                                     !.monitoring = monitoring, !.key = k], rows) :
               Becomes(r, import)
    /\ UNCHANGED <<domain, jobs, continuation, scan>>

\* What a request does after a row that is not created, or after a created one.
AfterRow(r) ==
    IF request[r].flow = "import" THEN AtRows(request[r], request[r].rest) ELSE {IdleRequest}

\* createDomain: the first SELECT.  For an import the count does not matter.
FindExisting(r) ==
    /\ At(r, "finding")
    /\ IF Existing(request[r].user, request[r].origin) = {}
       THEN Goes(r, IF request[r].flow = "import" THEN "inserting" ELSE "counting")
       ELSE IF request[r].flow = "handoff" THEN Goes(r, "refinding")
       ELSE \E next \in AfterRow(r) : Becomes(r, next)
    /\ UNCHANGED <<domain, jobs, continuation, scan>>

\* A faulty variant.
HasRoomForOneMore(u) == Cardinality(LiveOf(u)) <= SavedDomainLimit[u]

HasRoom(u) == Cardinality(LiveOf(u)) < SavedDomainLimit[u]

\* createDomain: the count; the limit ends the request.
CountActive(r) ==
    /\ At(r, "counting")
    /\ IF HasRoom(request[r].user) THEN Goes(r, "inserting") /\ UNCHANGED continuation
       ELSE Fails(r)
    /\ UNCHANGED <<domain, jobs, scan>>

\* What its caller does to a created domain: an import pauses it if asked to
\* and if there is monitoring to pause, the handoff always.
AfterInsert(flow, monitoring, frequency) ==
    IF flow = "handoff" \/ (flow = "import" /\ monitoring = "paused" /\ frequency # "none")
    THEN "pausing" ELSE "done"

NextId(d) == d \notin Inserted /\ \A e \in DomainIds : e < d => e \in Inserted

\* The unique index idx_domains_owner_origin_live.
Refused(u, o) == Existing(u, o) # {}

\* createDomain: the INSERT; the unique index refuses a second live row, which
\* ends the request, an import with all its rows.
InsertDomain(r) ==
    /\ At(r, "inserting")
    /\ IF Refused(request[r].user, request[r].origin)
       THEN Fails(r) /\ UNCHANGED domain
       ELSE \E d \in DomainIds :
         LET after == AfterInsert(request[r].flow, request[r].monitoring,
                                  MonitoringFrequency[request[r].user])
         IN /\ NextId(d)
            /\ domain' = [domain EXCEPT ![d] =
                   [owner |-> request[r].user, origin |-> request[r].origin,
                    state |-> "active", adopted |-> FALSE, live |-> TRUE]]
            /\ UNCHANGED continuation
            /\ IF after = "pausing" THEN Becomes(r, [request[r] EXCEPT !.pc = after, !.domain = d])
               ELSE IF request[r].flow = "handoff"
               THEN Becomes(r, [request[r] EXCEPT !.pc = "reading", !.domain = d])
               ELSE \E next \in AfterRow(r) : Becomes(r, next)
    /\ UNCHANGED <<jobs, scan>>

\* updateDomain to paused, of a domain that may have been deleted since.
PauseCreated(r) ==
    /\ At(r, "pausing")
    /\ domain' = IF request[r].domain \in Live
                 THEN [domain EXCEPT ![request[r].domain].state = "paused"] ELSE domain
    /\ IF request[r].flow = "handoff" THEN Goes(r, "reading")
       ELSE \E next \in AfterRow(r) : Becomes(r, next)
    /\ UNCHANGED <<jobs, continuation, scan>>

\* confirm: the job's INSERT; another import of the same key may have stored its.
StoreJob(r) ==
    /\ At(r, "storing")
    /\ jobs' = jobs \cup {<<request[r].user, request[r].key>>}
    /\ Leaves(r)
    /\ UNCHANGED <<domain, continuation, scan>>

-----------------------------------------------------------------------------
(* The handoff of an anonymous audit *)

\* createContinuation, for a completed scan.
CreateContinuation(c) ==
    /\ continuation[c] = "none" /\ scan.kept
    /\ continuation' = [continuation EXCEPT ![c] = "open"]
    /\ UNCHANGED <<domain, jobs, scan, request>>

\* expires_at passes, or the row is purged.  c stands for another row then.
ContinuationLapses(c) ==
    /\ continuation[c] = "open"
    /\ continuation' = [continuation EXCEPT ![c] = "none"]
    /\ UNCHANGED <<domain, jobs, scan, request>>

\* purgeAnonymousScans.
PurgeScan ==
    /\ scan.kept /\ scan.domain = 0
    /\ scan' = [scan EXCEPT !.kept = FALSE]
    /\ continuation' = [c \in Continuations |->
                            IF continuation[c] = "open" THEN "none" ELSE continuation[c]]
    /\ UNCHANGED <<domain, jobs, request>>

\* consumeContinuation: check and write are one statement.
ConsumeContinuation(r, u, c) ==
    /\ At(r, "idle") /\ continuation[c] = "open"
    /\ continuation' = [continuation EXCEPT ![c] = u]
    /\ Becomes(r, [IdleRequest EXCEPT !.flow = "handoff", !.pc = "finding", !.user = u,
                       !.origin = AuditedOrigin, !.continuation = c])
    /\ UNCHANGED <<domain, jobs, scan>>

\* findOwnedDomainByOrigin, after createDomain's "duplicate".
FindOwned(r) ==
    /\ At(r, "refinding")
    /\ IF Existing(request[r].user, request[r].origin) = {}
       THEN Fails(r)
       ELSE /\ \E d \in Existing(request[r].user, request[r].origin) :
                   Becomes(r, [request[r] EXCEPT !.pc = "reading", !.domain = d])
            /\ UNCHANGED continuation
    /\ UNCHANGED <<domain, jobs, scan>>

\* establishBaseline: the scan is read, and the active registry, which may be the
\* scan's or not.
ReadScan(r) ==
    /\ At(r, "reading")
    /\ IF scan.kept THEN Goes(r, "claiming") \/ Goes(r, "rerunning") ELSE Leaves(r)
    /\ UNCHANGED <<domain, jobs, continuation, scan>>

\* A faulty variant: whoever has read the scan takes it.
ClaimableAgain == scan.kept

Claimable == scan.kept /\ scan.domain = 0

\* establishBaseline: the claim; whoever loses it scans again.
ClaimScan(r) ==
    /\ At(r, "claiming")
    /\ IF Claimable
       THEN /\ scan' = [scan EXCEPT !.domain = request[r].domain]
            /\ Becomes(r, [request[r] EXCEPT !.pc = "recording", !.adopts = TRUE])
       ELSE Goes(r, "rerunning") /\ UNCHANGED scan
    /\ UNCHANGED <<domain, jobs, continuation>>

\* establishBaseline: runAudit and persistScan; or no engine, no registry, or an
\* audit that fails.
Rerun(r) ==
    /\ At(r, "rerunning")
    /\ Goes(r, "recording") \/ Leaves(r)
    /\ UNCHANGED <<domain, jobs, continuation, scan>>

\* recordScanOnDomain, whether the domain is live or not.
RecordScan(r) ==
    /\ At(r, "recording")
    /\ domain' = [domain EXCEPT ![request[r].domain].adopted = request[r].adopts]
    /\ Leaves(r)
    /\ UNCHANGED <<jobs, continuation, scan>>

-----------------------------------------------------------------------------
(* What owners do to their domains *)

\* softDeleteDomain.
SoftDeleteDomain(d) ==
    /\ d \in Live
    /\ domain' = [domain EXCEPT ![d].live = FALSE]
    /\ UNCHANGED <<jobs, continuation, scan, request>>

\* The invocation is killed.
RequestDies(r) ==
    /\ ~At(r, "idle")
    /\ Fails(r)
    /\ UNCHANGED <<domain, jobs, scan>>

-----------------------------------------------------------------------------
(* The specification *)

Init ==
    /\ domain = [d \in DomainIds |-> NoDomain]
    /\ jobs = {}
    /\ continuation = [c \in Continuations |-> "none"]
    /\ scan = [kept |-> TRUE, domain |-> 0]
    /\ request = [r \in Requests |-> IdleRequest]

CreationStep(r) ==
    \/ \E u \in Users :
          \/ \E o \in Origins : SaveDomain(r, u, o)
          \/ \E k \in Keys, file \in SUBSET Origins \ {{}}, state \in States :
                 ConfirmImport(r, u, k, file, state)
    \/ FindExisting(r) \/ CountActive(r) \/ InsertDomain(r) \/ PauseCreated(r) \/ StoreJob(r)

HandoffStep(r) ==
    \/ \E u \in Users, c \in Continuations : ConsumeContinuation(r, u, c)
    \/ FindOwned(r) \/ ReadScan(r) \/ ClaimScan(r) \/ Rerun(r) \/ RecordScan(r)

Next ==
    \/ \E r \in Requests :
          CreationStep(r) \/ HandoffStep(r) \/ RequestDies(r)
    \/ \E d \in DomainIds : SoftDeleteDomain(d)
    \/ \E c \in Continuations : CreateContinuation(c) \/ ContinuationLapses(c)
    \/ PurgeScan

Spec == Init /\ [][Next]_vars

-----------------------------------------------------------------------------
(* Properties *)

\* The rows a request has been let through and has not come to yet.
Granted(r) ==
    IF At(r, "inserting") \/ (At(r, "finding") /\ request[r].flow = "import")
    THEN {request[r].origin} \cup request[r].rest ELSE request[r].rest

\* The saved-domain limit is only counted before the INSERT, and by an import
\* only once for all its rows: overlapping requests overrun it, but what is saved
\* and what they may still save never exceeds what each was allowed on its own.
LimitOverrunBounded ==
    \A u \in Users :
        Cardinality(LiveOf(u))
            + Cardinality(UNION {{r} \X Granted(r) : r \in {q \in Requests : request[q].user = u}})
        <= SavedDomainLimit[u] * Cardinality(Requests)

\* The scan an account shows as its domain's baseline belongs to that domain:
\* of two accounts that continue one anonymous audit, one adopts its scan and
\* the other scans anew.
BaselineIsOwn ==
    \A d \in Inserted : domain[d].adopted => scan.domain = d

\* A continuation that was used saved the audited origin in the account that
\* used it and in no other, whatever became of the row since, unless its request
\* was cut short, refused by the limit, or beaten by one for the same origin.
UsedContinuationsSave ==
    \A c \in Continuations :
        /\ continuation[c] \in Users
        /\ ~\E r \in Requests : request[r].continuation = c
        => \E d \in Inserted : /\ domain[d].owner = continuation[c]
                               /\ domain[d].origin = AuditedOrigin

=============================================================================
