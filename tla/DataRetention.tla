---------------------------- MODULE DataRetention -----------------------------
(***************************************************************************)
(* The daily retention purge: runDataRetentionPurge walks its categories   *)
(* in order and works on each in bounded chunks, so that a large backlog   *)
(* is finished over several days.                                          *)
(*                                                                         *)
(* Each action is one SQL statement.  A run's cutoffs are those of its     *)
(* start: a row that comes of age while it runs is left to the next one.   *)
(* But rows leave a category at any time, and rows whose age is measured   *)
(* against the plan of their owner join it at any time too: requests and   *)
(* other categories of the same run change plans and delete what they own. *)
(***************************************************************************)
EXTENDS Integers, Sequences, FiniteSets

CONSTANTS
    Categories,     \* CATEGORIES, in order; see Kind
    Kind,           \* Kind[c]: how category c is purged
    Plans,          \* Plans[c]: passes over category c, one for each plan in domain_scans
    PlanBound,      \* categories whose WHERE reads the plan of the owner, or last_scan_id
    Reverting,      \* categories that give users another plan
    Owned,          \* categories whose rows go with their account, ON DELETE CASCADE
    Withdrawable,   \* categories out of which requests take rows
    Accounts,
    Referencing,    \* accounts a row refers to without ON DELETE
    Objects,        \* logos in the bucket, numbered in the order of a listing
    PageSize,       \* DEFAULT_MAX_OBJECTS
    ChunkSize,      \* RETENTION_CHUNK_SIZE
    MaxParameters,  \* bound parameters D1 takes in a statement
    MaxChunks       \* RETENTION_MAX_CHUNKS

CONSTANTS           \* bounds of the model, not of the code
    MaxRows,        \* eligible rows of a category
    MaxFaults       \* database errors and killed runs

\* chunks: DELETE ... LIMIT until a chunk is not full.  rows: a bounded SELECT and
\* an UPDATE for each row.
Kinds == {"chunks", "accounts", "rows", "logos"}

CategorySet == {Categories[i] : i \in DOMAIN Categories}

ASSUME RetentionAssumption ==
    /\ Categories \in Seq(CategorySet) /\ Kind \in [CategorySet -> Kinds]
    /\ \A i, j \in DOMAIN Categories : Categories[i] = Categories[j] => i = j
    /\ Plans \in [CategorySet -> Nat \ {0}]
    /\ PlanBound \subseteq {c \in CategorySet : Kind[c] = "chunks"}
    /\ Reverting \subseteq {c \in CategorySet : Kind[c] = "rows"}
    /\ Owned \subseteq CategorySet /\ Withdrawable \subseteq CategorySet
    /\ Referencing \subseteq Accounts
    /\ Objects \subseteq Nat /\ PageSize \in Nat \ {0}
    /\ ChunkSize \in Nat \ {0} /\ MaxChunks \in Nat \ {0}
    /\ MaxParameters \in Nat /\ MaxRows \in Nat /\ MaxFaults \in Nat

VARIABLES
    eligible,       \* eligible[p]: rows the WHERE clause of pass p matches
    account,        \* account[a]
    bucket,         \* bucket[o]: AGENCY_LOGOS
    purge,          \* the run
    raced,          \* history: who cancelled after a run had selected them
    faults

vars == <<eligible, account, bucket, purge, raced, faults>>
data == <<eligible, account, bucket, raced>>

-----------------------------------------------------------------------------
(* The run *)

\* The passes over these categories that go by counts of rows.
Passes(categories) ==
    UNION {{c} \X (1..Plans[c]) : c \in {d \in categories : Kind[d] \in {"chunks", "rows"}}}
Counted == Passes(CategorySet)

Purge ==
    [pc: {"idle", "category", "removing", "updating", "reverting", "counting", "cleaning"},
     at: 1..Len(Categories) + 1,    \* the category, in order
     plan: Nat \ {0},               \* the pass over it
     chunk: 0..MaxChunks,           \* chunks done of it
     chosen: SUBSET Accounts,       \* overdue
     left: Nat,                     \* selected rows still to update
     live: Nat,                     \* those of them that are still eligible
     full: BOOLEAN,                 \* there may be more than was selected
     found: SUBSET Objects,         \* orphansFound
     failed: SUBSET CategorySet,    \* error is set
     backlog: SUBSET CategorySet]   \* backlogRemaining is set

TypeOK ==
    /\ eligible \in [Counted -> 0..MaxRows]
    /\ account \in [Accounts -> {"active", "requested", "overdue", "gone"}]
    /\ bucket \in [Objects -> {"none", "used", "orphan"}]
    /\ purge \in Purge
    /\ raced \subseteq Accounts
    /\ faults \in 0..MaxFaults

\* The run before this pass over category number at, with what it has to report so far.
Before(at, plan, failed, backlog) ==
    [pc |-> "category", at |-> at, plan |-> plan, chunk |-> 0, chosen |-> {}, left |-> 0,
     live |-> 0, full |-> FALSE, found |-> {}, failed |-> failed, backlog |-> backlog]
Idle == [Before(1, 1, {}, {}) EXCEPT !.pc = "idle"]

Running == purge.pc # "idle"

\* The run is at a category of this kind.
In(kind, pc) ==
    /\ purge.pc = pc /\ purge.at <= Len(Categories)
    /\ Kind[Categories[purge.at]] = kind
Category == Categories[purge.at]
Pass == <<Category, purge.plan>>

Least(m, n) == IF m < n THEN m ELSE n

\* The pass is done, without a backlog, or with one if there is: the next plan's,
\* or the next category.
PassDone(backlog) ==
    LET reported == IF backlog THEN purge.backlog \cup {Category} ELSE purge.backlog IN
        IF purge.plan < Plans[Category]
        THEN Before(purge.at, purge.plan + 1, purge.failed, reported)
        ELSE Before(purge.at + 1, 1, purge.failed, reported)

\* A faulty variant: the first category that throws ends the run.
AbortedRun == Before(Len(Categories) + 1, 1, purge.failed \cup {Category}, purge.backlog)

\* runDataRetentionPurge: a category that throws does not keep the others from
\* running; what its earlier passes had to report is lost.
RunAfterError ==
    Before(purge.at + 1, 1, purge.failed \cup {Category}, purge.backlog \ {Category})

\* now, and with it every cutoff, is fixed.
StartPurge ==
    /\ ~Running
    /\ purge' = Before(1, 1, {}, {})
    /\ UNCHANGED <<data, faults>>

\* The result is returned.
FinishPurge ==
    /\ purge.pc = "category" /\ purge.at = Len(Categories) + 1
    /\ purge' = Idle
    /\ UNCHANGED <<data, faults>>

\* What a chunk of this size leads to: the end, the next chunk, or the COUNT.
AfterChunk(size) ==
    IF size < ChunkSize THEN PassDone(FALSE)
    ELSE [purge EXCEPT !.pc = IF purge.chunk + 1 = MaxChunks THEN "counting" ELSE "category",
                       !.chunk = @ + 1, !.chosen = {}]

\* DELETE ... LIMIT of purgeAnonymousScans and the like.
DeleteChunk ==
    /\ In("chunks", "category")
    /\ LET size == Least(eligible[Pass], ChunkSize) IN
         /\ eligible' = [eligible EXCEPT ![Pass] = @ - size]
         /\ purge' = AfterChunk(size)
    /\ UNCHANGED <<account, bucket, raced, faults>>

\* A faulty variant: the grace period is not waited for.
EverRequested == {a \in Accounts : account[a] \in {"requested", "overdue"}}

Overdue == {a \in Accounts : account[a] = "overdue"}

\* Any of them: the SELECT has no ORDER BY.
Chunks(accounts) ==
    {chunk \in SUBSET accounts : Cardinality(chunk) = Least(Cardinality(accounts), ChunkSize)}

\* purgeDeletedAccounts: the SELECT.
SelectAccounts ==
    /\ In("accounts", "category")
    /\ \E chunk \in Chunks(Overdue) :
           purge' = IF chunk = {} THEN PassDone(FALSE)
                    ELSE [purge EXCEPT !.pc = "removing", !.chosen = chunk]
    /\ raced' = {}
    /\ UNCHANGED <<eligible, account, bucket, faults>>

\* A faulty variant, the schema before migration 0015: whoever acted is referred to.
RemovableIfNeverActed(accounts) == accounts \cap Accounts = {}

\* All of the accounts can be deleted, or none of them if a row still refers to
\* one or their ids are too many for a statement.
Removable(accounts) ==
    accounts \cap Referencing = {} /\ Cardinality(accounts) <= MaxParameters

\* These counts for the passes over categories, the others as they are.
Changed(categories, counts) ==
    [p \in Counted |-> IF p \in Passes(categories) THEN counts[p] ELSE eligible[p]]

\* purgeDeletedAccounts: the DELETE, by id alone, and what goes with the accounts.
RemoveAccounts ==
    /\ In("accounts", "removing")
    /\ IF ~Removable(purge.chosen)
       THEN purge' = RunAfterError /\ UNCHANGED <<eligible, account>>
       ELSE /\ account' = [a \in Accounts |->
                               IF a \in purge.chosen THEN "gone" ELSE account[a]]
            /\ \E rest \in [Passes(Owned) -> 0..MaxRows] :
                  /\ \A p \in Passes(Owned) : rest[p] <= eligible[p]
                  /\ eligible' = Changed(Owned, rest)
            /\ purge' = AfterChunk(Cardinality(purge.chosen))
    /\ UNCHANGED <<bucket, raced, faults>>

Cap == ChunkSize * MaxChunks

\* purgeExpiredPilotFeedbackComments, revertExpiredEntitlements: the SELECT.
SelectRows ==
    /\ In("rows", "category")
    /\ LET size == Least(eligible[Pass], Cap) IN
           IF size = 0 THEN purge' = PassDone(FALSE)
           ELSE purge' = [purge EXCEPT !.pc = "updating", !.left = size, !.live = size,
                                       !.full = size = Cap]
    /\ UNCHANGED <<data, faults>>

\* After a row: the next, the COUNT, or the end.
AfterRow(run) ==
    IF run.left > 0 THEN [run EXCEPT !.pc = "updating"]
    ELSE IF run.full THEN [run EXCEPT !.pc = "counting"]
    ELSE PassDone(FALSE)

\* The UPDATE of a row, by id alone: it may have been withdrawn since it was selected.
UpdateRow ==
    /\ In("rows", "updating")
    /\ \E n \in {0, 1} :
          /\ n <= purge.live /\ 1 - n <= purge.left - purge.live
          /\ eligible' = [eligible EXCEPT ![Pass] = @ - n]
          /\ LET run == [purge EXCEPT !.left = @ - 1, !.live = @ - n] IN
                 purge' = IF Category \in Reverting THEN [run EXCEPT !.pc = "reverting"]
                          ELSE AfterRow(run)
    /\ UNCHANGED <<account, bucket, raced, faults>>

\* revertExpiredEntitlements: the user has another plan, whose scans are kept for
\* another time.
RevertPlan ==
    /\ In("rows", "reverting")
    /\ \E counts \in [Passes(PlanBound) -> 0..MaxRows] : eligible' = Changed(PlanBound, counts)
    /\ purge' = AfterRow(purge)
    /\ UNCHANGED <<account, bucket, raced, faults>>

\* A faulty variant: a full last chunk is taken for a backlog.
FullMeansMore == TRUE

\* hasRowsMatching.
HasRowsMatching ==
    IF Kind[Category] = "accounts" THEN Overdue # {} ELSE eligible[Pass] > 0

\* The COUNT that decides backlogRemaining.
CountRemaining ==
    /\ purge.pc = "counting"
    /\ purge' = PassDone(HasRowsMatching)
    /\ UNCHANGED <<data, faults>>

Page == {o \in Objects : /\ bucket[o] # "none"
                         /\ Cardinality({p \in Objects : p < o /\ bucket[p] # "none"}) < PageSize}

Truncated == Page # {o \in Objects : bucket[o] # "none"}

\* findAndCleanupOrphanedLogos: the listing, always from the first object, and
\* the rows that refer to a logo.
ListLogos ==
    /\ In("logos", "category")
    /\ LET found == {o \in Page : bucket[o] = "orphan"} IN
           purge' = IF found = {} THEN PassDone(Truncated)
                    ELSE [purge EXCEPT !.pc = "cleaning", !.found = found, !.full = Truncated]
    /\ UNCHANGED <<data, faults>>

\* bucket.delete, of objects that may be in use again.
DeleteLogos ==
    /\ In("logos", "cleaning")
    /\ bucket' = [o \in Objects |-> IF o \in purge.found THEN "none" ELSE bucket[o]]
    /\ purge' = PassDone(purge.full)
    /\ UNCHANGED <<eligible, account, raced, faults>>

\* A statement fails.
StatementFails ==
    /\ Running /\ purge.at <= Len(Categories) /\ faults < MaxFaults
    /\ purge' = RunAfterError
    /\ faults' = faults + 1
    /\ UNCHANGED data

\* The invocation is killed.
PurgeDies ==
    /\ Running /\ faults < MaxFaults
    /\ purge' = Idle
    /\ faults' = faults + 1
    /\ UNCHANGED data

-----------------------------------------------------------------------------
(* What happens beside the run *)

\* A row comes of age; while a run is on only because its owner has another plan or
\* its domain another last scan.
RowJoins(p) ==
    /\ ~Running \/ p[1] \in PlanBound
    /\ eligible[p] < MaxRows
    /\ eligible' = [eligible EXCEPT ![p] = @ + 1]
    /\ UNCHANGED <<account, bucket, purge, raced, faults>>

\* A request takes a row out: it gives the owner another plan, deletes a domain,
\* adopts a scan or revokes an entitlement, perhaps one the run has selected.
RowLeaves(p) ==
    /\ p[1] \in PlanBound \cup Withdrawable /\ eligible[p] > 0
    /\ eligible' = [eligible EXCEPT ![p] = @ - 1]
    /\ IF purge.pc \in {"updating", "reverting"} /\ p = Pass
       THEN \E n \in {0, 1} : /\ n <= purge.live /\ 1 - n <= eligible[p] - purge.live
                              /\ purge' = [purge EXCEPT !.live = @ - n]
       ELSE UNCHANGED purge
    /\ UNCHANGED <<account, bucket, raced, faults>>

\* The run will delete the account although it asks for it no longer.
MayRace(a) == raced' = IF a \in purge.chosen THEN raced \cup {a} ELSE raced

\* requestAccountDeletion; asking again starts the grace period anew.
RequestAccountDeletion(a) ==
    /\ account[a] # "gone"
    /\ account' = [account EXCEPT ![a] = "requested"]
    /\ MayRace(a)
    /\ UNCHANGED <<eligible, bucket, purge, faults>>

\* cancelAccountDeletion.
CancelAccountDeletion(a) ==
    /\ account[a] # "gone"
    /\ account' = [account EXCEPT ![a] = "active"]
    /\ MayRace(a)
    /\ UNCHANGED <<eligible, bucket, purge, faults>>

\* The grace period ends.
GraceEnds(a) ==
    /\ ~Running /\ account[a] = "requested"
    /\ account' = [account EXCEPT ![a] = "overdue"]
    /\ UNCHANGED <<eligible, bucket, purge, raced, faults>>

\* A logo is uploaded; within its grace period it counts as used, named by a row or not.
UploadLogo(o) ==
    /\ bucket[o] = "none"
    /\ bucket' = [bucket EXCEPT ![o] = "used"]
    /\ UNCHANGED <<eligible, account, purge, raced, faults>>

\* The last row that refers to the logo goes, or none came: the object stays, unless
\* a new logo of the profile replaces it.
UnlinkLogo(o) ==
    /\ bucket[o] = "used"
    /\ \E rest \in {"orphan", "none"} : bucket' = [bucket EXCEPT ![o] = rest]
    /\ UNCHANGED <<eligible, account, purge, raced, faults>>

\* A share or a profile names a logo uploaded earlier.
RelinkLogo(o) ==
    /\ bucket[o] = "orphan"
    /\ bucket' = [bucket EXCEPT ![o] = "used"]
    /\ UNCHANGED <<eligible, account, purge, raced, faults>>

-----------------------------------------------------------------------------
(* The specification *)

Init ==
    /\ eligible = [p \in Counted |-> 0]
    /\ account = [a \in Accounts |-> "active"]
    /\ bucket = [o \in Objects |-> "none"]
    /\ purge = Idle
    /\ raced = {}
    /\ faults = 0

\* What a run does unless something goes wrong.
PurgeStep ==
    \/ DeleteChunk \/ SelectAccounts \/ RemoveAccounts \/ SelectRows \/ UpdateRow
    \/ RevertPlan \/ CountRemaining \/ ListLogos \/ DeleteLogos \/ FinishPurge

UserStep ==
    \/ \E a \in Accounts :
          RequestAccountDeletion(a) \/ CancelAccountDeletion(a) \/ GraceEnds(a)
    \/ \E o \in Objects : UploadLogo(o) \/ UnlinkLogo(o) \/ RelinkLogo(o)

Next ==
    \/ StartPurge \/ PurgeStep \/ StatementFails \/ PurgeDies
    \/ UserStep
    \/ \E p \in Counted : RowJoins(p) \/ RowLeaves(p)

Spec == Init /\ [][Next]_vars

\* The cron comes every day, and a run goes on.
FairSpec == Spec /\ WF_vars(StartPurge) /\ WF_vars(PurgeStep)

-----------------------------------------------------------------------------
(* Properties *)

\* A pass over a category ends, and no statement of it has failed.
PassEnds ==
    /\ Running /\ Running' /\ purge.at <= Len(Categories)
    /\ <<purge'.at, purge'.plan>> # <<purge.at, purge.plan>>
    /\ Category \notin purge'.failed

\* A pass that ends adds to the report exactly what is so at that moment: a backlog
\* if rows remain that it was to purge, or overdue accounts, and none otherwise, also
\* when the rows divide evenly into chunks or were withdrawn or joined meanwhile.
ResultsAreTruthful ==
    [][PassEnds =>
        /\ Pass \in Counted =>
            (Category \in purge'.backlog <=> Category \in purge.backlog \/ eligible'[Pass] > 0)
        /\ Kind[Category] = "accounts" =>
            (Category \in purge'.backlog <=> Category \in purge.backlog \/ Overdue' # {})]_vars

\* An account goes only if it was overdue, or asked for something else while a
\* run had already selected it: the DELETE does not look at the request again.
OnlyRacesDeleteKeptAccounts ==
    [][\A a \in Accounts :
          account[a] # "gone" /\ account'[a] = "gone" => account[a] = "overdue" \/ a \in raced]_vars

\* A backlog is worked off for ever, whatever other categories throw each day, by runs
\* or, where they may, by requests.
BacklogsAreWorkedOff ==
    \A p \in Counted : []<>(eligible[p] = 0) \/ []<><<eligible'[p] < eligible[p]>>_vars

\* An account stays overdue for ever only if again and again one that is still
\* referred to is overdue with it, or more than a statement takes.
OnlyOddAccountsBlock ==
    \A a \in Accounts :
        <>[](account[a] = "overdue") =>
            []<>(Overdue \cap Referencing # {} \/ Cardinality(Overdue) > MaxParameters)

\* Every overdue account that no row refers to is deleted unless its user thinks
\* better of it, as DATA_RETENTION.md says (purgeDeletedAccounts).
OverdueAccountsAreDeleted ==
    \A a \in Accounts \ Referencing : account[a] = "overdue" ~> account[a] # "overdue"

=============================================================================
