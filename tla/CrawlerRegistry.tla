--------------------------- MODULE CrawlerRegistry ---------------------------
(***************************************************************************)
(* The crawler registry: administrators edit crawlers, freeze them in      *)
(* releases, and publish a release or roll back to one; audits evaluate    *)
(* domains for the crawlers of the active release; a release that changes  *)
(* an evaluation schedules the domains it touches.                         *)
(*                                                                         *)
(* An activation is a request of five steps with no transaction around     *)
(* them, and audits run meanwhile with the release they read at the start. *)
(* Entries of a release are never written again, so what is read of them   *)
(* is read in the step that needs it.                                      *)
(***************************************************************************)
EXTENDS Naturals, FiniteSets

CONSTANTS
    Crawlers,
    UserAgentTokens,
    TokenOf,            \* userAgentToken: no request edits it
    Releases,
    SeedRelease, SeedCrawlers,      \* what the database is seeded with
    Requests,           \* publications and roll-backs that may overlap
    Domains,
    Scans,              \* sweeps and rescans that may overlap
    MaxParameters,      \* bound parameters D1 takes in a statement
    None                \* no release, no crawler

CONSTANTS               \* bounds of the model, not of the code
    Statuses,           \* those that requests give a crawler
    MaxEdits, MaxActivations

EvaluationEligible == {"active", "deprecated", "replaced"}
LifecycleStatuses == EvaluationEligible \cup {"unverified", "retired"}

ASSUME RegistryAssumption ==
    /\ TokenOf \in [Crawlers -> UserAgentTokens]
    /\ SeedRelease \in Releases /\ SeedCrawlers \subseteq Crawlers
    /\ \A c, d \in SeedCrawlers : TokenOf[c] = TokenOf[d] => c = d
    /\ Statuses \subseteq LifecycleStatuses
    /\ None \notin Releases \cup Crawlers
    /\ {MaxParameters, MaxEdits, MaxActivations} \subseteq Nat

VARIABLES
    crawler,            \* crawler[c]: its live row, or None
    release,            \* release[v]: its row and its entries
    active,             \* the release with is_active, one by a unique index
    domain,             \* domain[d]: its last scan, and whether another is due
    request,            \* request[r]
    scan,               \* scan[s]
    missed,             \* history: domains kept from being rescheduled by a race, a kill or an error
    edits, activations

vars == <<crawler, release, active, domain, request, scan, missed, edits, activations>>
bounds == <<edits, activations>>

-----------------------------------------------------------------------------
(* Rows *)

\* verified: last_verified_at is set.
CrawlerRow == [status: LifecycleStatuses, verified: BOOLEAN]

NoRelease == [state |-> "none", entries |-> [c \in Crawlers |-> None]]

\* A faulty variant: every entry of the release is evaluated.
ResolveAllRows(v) == {c \in Crawlers : release[v].entries[c] # None}

\* The rows an audit evaluates: those of the frozen entries, not the live ones.
ResolveEvaluationRows(v) ==
    {c \in Crawlers : release[v].entries[c] # None /\
                        release[v].entries[c].status \in EvaluationEligible}

\* release: that of last_scan_id; results: the crawlers with a row of that
\* scan; due: next_scan_at is now, or the end of a claim, and not a cadence away.
NeverScanned == [release |-> None, results |-> {}, due |-> TRUE]

IdleRequest == [pc |-> "idle"]
IdleScan == [pc |-> "idle"]

Activation ==
    [pc: {"checking", "activating", "comparing"}, action: {"publish", "roll_back"},
     target: Releases, seen: Releases]

TypeOK ==
    /\ crawler \in [Crawlers -> CrawlerRow \cup {None}]
    /\ release \in [Releases -> [state: {"none", "draft", "published"},
                                 entries: [Crawlers -> CrawlerRow \cup {None}]]]
    /\ active \in Releases
    /\ domain \in [Domains -> [release: Releases \cup {None}, results: SUBSET Crawlers, due: BOOLEAN]]
    /\ request \in [Requests -> {IdleRequest} \cup Activation
                                  \cup [pc: {"scheduling"}, affected: SUBSET Domains]]
    /\ scan \in [Scans -> {IdleScan} \cup [pc: {"claiming"}, release: Releases]
                            \cup [pc: {"auditing"}, release: Releases, batch: SUBSET Domains]]
    /\ missed \subseteq Domains
    /\ edits \in 0..MaxEdits /\ activations \in 0..MaxActivations

-----------------------------------------------------------------------------
(* Crawlers and releases *)

Edits(c, row) ==
    /\ edits < MaxEdits
    /\ edits' = edits + 1
    /\ crawler' = [crawler EXCEPT ![c] = row]
    /\ UNCHANGED <<release, active, domain, request, scan, missed, activations>>

CreateCrawlerDraft(c) ==
    crawler[c] = None /\ Edits(c, [status |-> "unverified", verified |-> FALSE])

VerifyCrawler(c) ==
    crawler[c] # None /\ Edits(c, [status |-> "active", verified |-> TRUE])

\* Any status will do, "active" included.
DeprecateCrawler(c, status) ==
    crawler[c] # None /\ Edits(c, [crawler[c] EXCEPT !.status = status])

CreateRegistryRelease(v) ==
    /\ release[v] = NoRelease
    /\ release' = [release EXCEPT ![v] = [state |-> "draft", entries |-> crawler]]
    /\ UNCHANGED <<crawler, active, domain, request, scan, missed, bounds>>

-----------------------------------------------------------------------------
(* Publication and roll-back *)

\* Blocking errors: two eligible crawlers of one token, one never verified; its
\* label, notes and source are taken to be there.
ValidationErrors(v) ==
    LET eligible == {c \in Crawlers : release[v].entries[c] # None /\
                        release[v].entries[c].status \in EvaluationEligible}
    IN  \/ \E c, d \in eligible : c # d /\ TokenOf[c] = TokenOf[d]
        \/ \E c \in eligible : ~release[v].entries[c].verified

\* The route reads the active release before it moves the pointer.
StartActivation(r, action, v) ==
    /\ request[r] = IdleRequest
    /\ release[v].state # "none"
    /\ request' = [request EXCEPT ![r] =
                    [pc |-> "checking", action |-> action, target |-> v, seen |-> active]]
    /\ UNCHANGED <<crawler, release, active, domain, scan, missed, bounds>>

Leaves(r) == request' = [request EXCEPT ![r] = IdleRequest]
Goes(r, pc) == request' = [request EXCEPT ![r].pc = pc]
At(r, pc) == request[r].pc = pc

\* A release that may not be activated is an error.
IsRefused(r) ==
    LET v == request[r].target
    IN  IF request[r].action = "publish" THEN ValidationErrors(v)
        ELSE release[v].state # "published"

\* validateReleaseCandidate or the look-up of the target, then the SELECT of
\* the current release; nothing is left to do if it is the target.
CheckActivation(r) ==
    /\ At(r, "checking")
    /\ IF IsRefused(r) \/ active = request[r].target THEN Leaves(r) ELSE Goes(r, "activating")
    /\ UNCHANGED <<crawler, release, active, domain, scan, missed, bounds>>

\* The batch: one pointer is cleared and one set.  A request that read another
\* release than the one it replaces will compare the wrong two.
Activate(r) ==
    /\ At(r, "activating")
    /\ activations < MaxActivations
    /\ activations' = activations + 1
    /\ active' = request[r].target
    /\ release' = IF request[r].action = "publish"
                  THEN [release EXCEPT ![request[r].target].state = "published"] ELSE release
    /\ IF request[r].seen = request[r].target THEN Leaves(r) ELSE Goes(r, "comparing")
    /\ missed' = IF request[r].seen = active THEN missed ELSE Domains
    /\ UNCHANGED <<crawler, domain, scan, edits>>

Status(v, c) == IF release[v].entries[c] = None THEN None ELSE release[v].entries[c].status

\* A faulty variant: a changed status is taken for wording.
AddedOrRemoved(from, to) ==
    {c \in Crawlers : (Status(from, c) = None) # (Status(to, c) = None)}

\* Crawlers added, removed, or changed in a field evaluations depend on.
SemanticDiff(from, to) == {c \in Crawlers : Status(from, c) # Status(to, c)}

Changed(r) == SemanticDiff(request[r].seen, request[r].target)

\* Live domains with a result of such a crawler in their last scan.  The crawlers are
\* parameters of the SELECT; if they are too many, the request ends with an error.
GetAffectedDomains(r) ==
    /\ At(r, "comparing")
    /\ IF Cardinality(Changed(r)) <= MaxParameters
       THEN /\ request' = [request EXCEPT ![r] =
                    [pc |-> "scheduling",
                     affected |-> {d \in Domains : domain[d].results \cap Changed(r) # {}}]]
            /\ UNCHANGED missed
       ELSE Leaves(r) /\ missed' = Domains
    /\ UNCHANGED <<crawler, release, active, domain, scan, bounds>>

\* The UPDATE has a parameter for each domain, beside two that it sets.
FitsStatement(domains) == Cardinality(domains) + 2 <= MaxParameters

\* A statement for all of the domains: if it does not fit, the request ends with an
\* error, the release stays active and none of them is scheduled.
ScheduleReEvaluation(r) ==
    /\ At(r, "scheduling")
    /\ IF FitsStatement(request[r].affected)
       THEN /\ domain' = [d \in Domains |-> IF d \in request[r].affected
                                            THEN [domain[d] EXCEPT !.due = TRUE] ELSE domain[d]]
            /\ UNCHANGED missed
       ELSE missed' = missed \cup request[r].affected /\ UNCHANGED domain
    /\ Leaves(r)
    /\ UNCHANGED <<crawler, release, active, scan, bounds>>

\* Killed after the batch, a request schedules nothing; repeated, it finds its
\* release active and does nothing either.
RequestDies(r) ==
    /\ request[r] # IdleRequest
    /\ missed' = IF request[r].pc \in {"comparing", "scheduling"} THEN Domains ELSE missed
    /\ Leaves(r)
    /\ UNCHANGED <<crawler, release, active, domain, scan, bounds>>
-----------------------------------------------------------------------------
(* Audits *)

\* getActiveRegistry, at the start of a sweep and before its claims.
StartSweep(s) ==
    /\ scan[s] = IdleScan
    /\ scan' = [scan EXCEPT ![s] = [pc |-> "claiming", release |-> active]]
    /\ UNCHANGED <<crawler, release, active, domain, request, missed, bounds>>

Audits(s, v, batch) ==
    scan' = [scan EXCEPT ![s] = IF batch = {} THEN IdleScan
                                ELSE [pc |-> "auditing", release |-> v, batch |-> batch]]

ClaimDueDomains(s) ==
    /\ scan[s].pc = "claiming"
    /\ Audits(s, scan[s].release, {d \in Domains : domain[d].due})
    /\ UNCHANGED <<crawler, release, active, domain, request, missed, bounds>>

StartRescan(s, d) ==
    /\ scan[s] = IdleScan
    /\ Audits(s, active, {d})
    /\ UNCHANGED <<crawler, release, active, domain, request, missed, bounds>>

\* One audit: a result for each crawler of the release, whatever the site says,
\* and the batch of rows, with the UPDATE that points the domain to them; the
\* domain is next due a cadence, or a backoff, from now.
RecordScan(s, d) ==
    /\ scan[s].pc = "auditing" /\ d \in scan[s].batch
    /\ domain' = [domain EXCEPT ![d] =
                    [release |-> scan[s].release, results |-> ResolveEvaluationRows(scan[s].release),
                     due |-> FALSE]]
    /\ missed' = IF scan[s].release = active THEN missed \ {d} ELSE missed \cup {d}
    /\ Audits(s, scan[s].release, scan[s].batch \ {d})
    /\ UNCHANGED <<crawler, release, active, request, bounds>>

\* A killed sweep or rescan; what it claimed is due again when the claim ends.
ScanDies(s) ==
    /\ scan[s] # IdleScan
    /\ scan' = [scan EXCEPT ![s] = IdleScan]
    /\ UNCHANGED <<crawler, release, active, domain, request, missed, bounds>>

\* The cadence comes round.
BecomesDue(d) ==
    /\ ~domain[d].due
    /\ domain' = [domain EXCEPT ![d].due = TRUE]
    /\ UNCHANGED <<crawler, release, active, request, scan, missed, bounds>>

-----------------------------------------------------------------------------
(* Specification *)

Init ==
    /\ crawler = [c \in Crawlers |-> IF c \in SeedCrawlers
                        THEN [status |-> "active", verified |-> TRUE] ELSE None]
    /\ release = [v \in Releases |-> IF v = SeedRelease
                        THEN [state |-> "published", entries |-> crawler] ELSE NoRelease]
    /\ active = SeedRelease
    /\ domain = [d \in Domains |-> NeverScanned]
    /\ request = [r \in Requests |-> IdleRequest]
    /\ scan = [s \in Scans |-> IdleScan]
    /\ missed = {}
    /\ edits = 0 /\ activations = 0

EditStep ==
    \/ \E c \in Crawlers : CreateCrawlerDraft(c) \/ VerifyCrawler(c)
    \/ \E c \in Crawlers, status \in Statuses : DeprecateCrawler(c, status)
    \/ \E v \in Releases : CreateRegistryRelease(v)

ActivationStep(r) ==
    \/ \E v \in Releases : StartActivation(r, "publish", v) \/ StartActivation(r, "roll_back", v)
    \/ CheckActivation(r) \/ Activate(r)
    \/ GetAffectedDomains(r) \/ ScheduleReEvaluation(r)
    \/ RequestDies(r)

ScanStep(s) ==
    \/ StartSweep(s) \/ ClaimDueDomains(s) \/ ScanDies(s)
    \/ \E d \in Domains : StartRescan(s, d) \/ RecordScan(s, d)

Next ==
    \/ EditStep
    \/ \E r \in Requests : ActivationStep(r)
    \/ \E s \in Scans : ScanStep(s)
    \/ \E d \in Domains : BecomesDue(d)

Spec == Init /\ [][Next]_vars

-----------------------------------------------------------------------------
(* Properties *)

\* Whatever is edited, published and rolled back, and whenever audits read it:
\* a domain's results are those of crawlers that had been verified, and no
\* user-agent token is evaluated twice.
EvaluatedCrawlersAreVerified ==
    \A d \in Domains : \A c, k \in domain[d].results :
        /\ release[domain[d].release].entries[c].verified
        /\ TokenOf[c] = TokenOf[k] => c = k

Quiet ==
    /\ \A r \in Requests : request[r] = IdleRequest
    /\ \A s \in Scans : scan[s] = IdleScan

\* A result of the last scan is out of date: the active release has the crawler
\* otherwise or not at all.
IsOutdated(d) ==
    \E c \in domain[d].results : Status(domain[d].release, c) # Status(active, c)

\* Publications and roll-backs leave no domain with outdated results waiting for
\* its cadence, except where one overtook another, was killed after the pointer
\* moved or met an audit with the former release, and except for the domains of one
\* that affects more of them, or changes more crawlers, than fit a statement.
OutdatedDomainsAreDue ==
    Quiet => \A d \in Domains \ missed : IsOutdated(d) => domain[d].due
=============================================================================
