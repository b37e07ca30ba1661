--------------------------- MODULE WorkerJobs_proofs ---------------------------
(***************************************************************************)
(* Proofs about two jobs of the worker, for any number of accounts, rows   *)
(* and evaluations:                                                        *)
(*   - DataRetention: each pass of the purge reports what is so when it    *)
(*     ends, and no account is deleted that was kept, but for a race;      *)
(*   - OperationalAlerts: an alert is resolved while its condition holds   *)
(*     only by evaluations that overlap.                                   *)
(***************************************************************************)
EXTENDS DataRetention, OperationalAlerts, FiniteSetTheorems, TLAPS

-----------------------------------------------------------------------------
(* The retention purge: the inductive invariant *)

\* What the run has still to do with the category it is at.
AtCategory ==
    /\ purge.pc \notin {"idle", "category"} => purge.at <= Len(Categories)
    /\ purge.at <= Len(Categories) => purge.plan \in 1..Plans[Category]
    /\ purge.pc \in {"category", "removing"} => purge.chunk < MaxChunks
    /\ purge.pc = "removing" => Kind[Category] = "accounts"
    /\ purge.pc \in {"updating", "reverting"} => Kind[Category] = "rows"
    /\ purge.pc = "updating" => purge.left > 0
    /\ purge.pc = "counting" => Kind[Category] \in {"chunks", "accounts", "rows"}

\* Of the selected rows that are still eligible: they are all there are, unless the
\* bounded SELECT was full.  And a SELECT of accounts that is not full had them all.
SelectionsAreWhole ==
    /\ purge.pc \in {"updating", "reverting"} =>
        /\ purge.live <= purge.left /\ purge.live <= eligible[Pass]
        /\ ~purge.full => purge.live = eligible[Pass]
    /\ IsFiniteSet(Overdue)
    /\ purge.pc = "removing" =>
        /\ IsFiniteSet(purge.chosen)
        /\ Cardinality(purge.chosen) < ChunkSize => Overdue \subseteq purge.chosen

\* An account that a run has selected is overdue, or has raced it.
ChosenAreOverdue ==
    purge.pc = "removing" =>
        \A a \in purge.chosen : account[a] \in {"overdue", "gone"} \/ a \in raced

TInv == TypeOK /\ AtCategory /\ SelectionsAreWhole

-----------------------------------------------------------------------------
(* Lemmas *)

LEMMA ConstantTypes ==
    /\ Len(Categories) \in Nat
    /\ \A i \in 1..Len(Categories) : Categories[i] \in CategorySet
    /\ Kind \in [CategorySet -> Kinds]
    /\ \A c \in CategorySet : Plans[c] \in Nat \ {0}
    /\ ChunkSize \in Nat \ {0} /\ MaxChunks \in Nat \ {0} /\ Cap \in Nat \ {0}
    /\ MaxRows \in Nat /\ MaxFaults \in Nat
<1>1. ChunkSize * MaxChunks \in Nat \ {0}
  <2>1. PICK s \in Nat \ {0}, m \in Nat \ {0} : s = ChunkSize /\ m = MaxChunks
    BY RetentionAssumption
  <2>2. s * m \in Nat \ {0}
    BY SMT
  <2>3. QED
    BY <2>1, <2>2
<1>2. Len(Categories) \in Nat /\ DOMAIN Categories = 1..Len(Categories)
  BY RetentionAssumption
<1>3. \A i \in 1..Len(Categories) : Categories[i] \in CategorySet
  BY <1>2 DEF CategorySet
<1>4. QED
  BY <1>1, <1>2, <1>3, RetentionAssumption DEF Cap

LEMMA PassesAre ==
    ASSUME NEW categories \in SUBSET CategorySet, NEW c, NEW n
    PROVE  <<c, n>> \in Passes(categories) <=>
                c \in categories /\ Kind[c] \in {"chunks", "rows"} /\ n \in 1..Plans[c]
  BY DEF Passes

LEMMA PassesOfSome ==
    ASSUME NEW categories \in SUBSET CategorySet
    PROVE  Passes(categories) \subseteq Counted
  BY DEF Passes, Counted

LEMMA CategoryTypes ==
    ASSUME TInv, purge.at <= Len(Categories)
    PROVE  /\ purge.at \in 1..Len(Categories) /\ purge.at + 1 \in 1..Len(Categories) + 1
           /\ Category \in CategorySet
           /\ purge.plan \in 1..Plans[Category] /\ Plans[Category] \in Nat \ {0}
           /\ Kind[Category] \in {"chunks", "rows"} <=> Pass \in Counted
           /\ Pass \in Counted => eligible[Pass] \in 0..MaxRows
<1>1. purge.at \in 1..Len(Categories) /\ purge.at + 1 \in 1..Len(Categories) + 1
  BY ConstantTypes DEF TInv, TypeOK, Purge
<1>2. Category \in CategorySet
  BY <1>1, ConstantTypes DEF Category
<1>3. purge.plan \in 1..Plans[Category] /\ Plans[Category] \in Nat \ {0}
  BY <1>2, ConstantTypes DEF TInv, AtCategory
<1>4. Kind[Category] \in {"chunks", "rows"} <=> Pass \in Counted
  BY <1>2, <1>3, PassesAre DEF Pass, Counted
<1>5. QED
  BY <1>1, <1>2, <1>3, <1>4 DEF TInv, TypeOK

\* The run before a pass has nothing in hand.
LEMMA BeforeTypes ==
    ASSUME NEW at \in 1..Len(Categories) + 1, NEW plan \in Nat \ {0},
           NEW failed \in SUBSET CategorySet, NEW backlog \in SUBSET CategorySet
    PROVE  /\ Before(at, plan, failed, backlog) \in Purge
           /\ [Before(at, plan, failed, backlog) EXCEPT !.pc = "idle"] \in Purge
<1>1. 0 \in 0..MaxChunks /\ {} \in SUBSET Accounts /\ 0 \in Nat /\ {} \in SUBSET Objects
  BY ConstantTypes
<1>2. Before(at, plan, failed, backlog) \in Purge
  BY <1>1 DEF Before, Purge
<1>3. QED
  BY <1>2 DEF Purge

\* A category starts with the first plan.
LEMMA FirstPass ==
    ASSUME NEW at \in 1..Len(Categories) + 1, at <= Len(Categories)
    PROVE  1 \in 1..Plans[Categories[at]]
<1>1. Categories[at] \in CategorySet
  BY ConstantTypes
<1>2. QED
  BY <1>1, ConstantTypes

LEMMA IdleFacts ==
    /\ Idle \in Purge /\ Idle.pc = "idle" /\ Idle.at = 1 /\ Idle.plan = 1 /\ Idle.chunk = 0
<1>1. 1 \in 1..Len(Categories) + 1 /\ 1 \in Nat \ {0} /\ {} \in SUBSET CategorySet
  BY ConstantTypes
<1>2. Idle \in Purge
  BY <1>1, BeforeTypes DEF Idle
<1>3. Idle.pc = "idle" /\ Idle.at = 1 /\ Idle.plan = 1 /\ Idle.chunk = 0
  BY DEF Idle, Before
<1>4. QED
  BY <1>2, <1>3

\* A run with nothing in hand has only the overdue accounts to be finite.
LEMMA NothingInHand ==
    ASSUME purge'.pc \in {"idle", "category"}, purge'.chunk < MaxChunks, IsFiniteSet(Overdue)',
           purge'.at <= Len(Categories) => purge'.plan \in 1..Plans[Categories[purge'.at]]
    PROVE  AtCategory' /\ SelectionsAreWhole' /\ ChosenAreOverdue'
  BY DEF AtCategory, SelectionsAreWhole, ChosenAreOverdue, Category

LEMMA NextPass ==
    ASSUME TInv, IsFiniteSet(Overdue)',
           NEW at \in 1..Len(Categories) + 1, NEW plan \in Nat \ {0},
           at <= Len(Categories) => plan \in 1..Plans[Categories[at]],
           NEW failed \in SUBSET CategorySet, NEW backlog \in SUBSET CategorySet,
           purge' = Before(at, plan, failed, backlog)
    PROVE  purge' \in Purge /\ AtCategory' /\ SelectionsAreWhole' /\ ChosenAreOverdue'
<1>1. purge' \in Purge
  BY BeforeTypes
<1>2. /\ purge'.pc = "category" /\ purge'.chunk < MaxChunks
      /\ purge'.at = at /\ purge'.plan = plan
  BY ConstantTypes DEF Before
<1>3. QED
  BY <1>1, <1>2, NothingInHand

LEMMA PassDoneTypes ==
    ASSUME TInv, purge.at <= Len(Categories), IsFiniteSet(Overdue)', NEW b \in BOOLEAN,
           purge' = PassDone(b)
    PROVE  purge' \in Purge /\ AtCategory' /\ SelectionsAreWhole' /\ ChosenAreOverdue'
<1> DEFINE reported == IF b THEN purge.backlog \cup {Category} ELSE purge.backlog
<1>1. /\ purge.failed \in SUBSET CategorySet /\ reported \in SUBSET CategorySet
      /\ purge.at \in 1..Len(Categories) + 1 /\ purge.plan \in Nat \ {0}
  BY CategoryTypes DEF TInv, TypeOK, Purge
<1>2. CASE purge.plan < Plans[Category]
  <2>1. purge' = Before(purge.at, purge.plan + 1, purge.failed, reported)
    BY <1>2 DEF PassDone
  <2>2. purge.plan + 1 \in Nat \ {0} /\ purge.plan + 1 \in 1..Plans[Categories[purge.at]]
    BY <1>1, <1>2, CategoryTypes DEF Category
  <2>3. QED
    BY <1>1, <2>1, <2>2, NextPass
<1>3. CASE ~(purge.plan < Plans[Category])
  <2>1. purge' = Before(purge.at + 1, 1, purge.failed, reported)
    BY <1>3 DEF PassDone
  <2>2. purge.at + 1 \in 1..Len(Categories) + 1 /\ 1 \in Nat \ {0}
    BY CategoryTypes
  <2>3. purge.at + 1 <= Len(Categories) => 1 \in 1..Plans[Categories[purge.at + 1]]
    BY <2>2, FirstPass
  <2> HIDE DEF reported
  <2>4. QED
    BY <1>1, <2>1, <2>2, <2>3, NextPass
<1>4. QED
  BY <1>2, <1>3

LEMMA RunAfterErrorTypes ==
    ASSUME TInv, purge.at <= Len(Categories), IsFiniteSet(Overdue)', purge' = RunAfterError
    PROVE  purge' \in Purge /\ AtCategory' /\ SelectionsAreWhole' /\ ChosenAreOverdue'
<1>1. /\ purge.at + 1 \in 1..Len(Categories) + 1
      /\ purge.failed \cup {Category} \in SUBSET CategorySet
      /\ purge.backlog \ {Category} \in SUBSET CategorySet
  BY CategoryTypes DEF TInv, TypeOK, Purge
<1>2. 1 \in Nat \ {0} /\ (purge.at + 1 <= Len(Categories) => 1 \in 1..Plans[Categories[purge.at + 1]])
  BY <1>1, FirstPass
<1>3. QED
  BY <1>1, <1>2, NextPass DEF RunAfterError

\* After a chunk the run is at the next pass, at the next chunk or at the COUNT.
LEMMA AfterChunkTypes ==
    ASSUME TInv, purge.at <= Len(Categories), purge.pc \in {"category", "removing"},
           Kind[Category] \in {"chunks", "accounts"}, IsFiniteSet(Overdue)',
           NEW size, purge' = AfterChunk(size)
    PROVE  purge' \in Purge /\ AtCategory' /\ SelectionsAreWhole' /\ ChosenAreOverdue'
<1>1. CASE size < ChunkSize
  BY <1>1, PassDoneTypes DEF AfterChunk
<1>2. CASE ~(size < ChunkSize)
  <2> DEFINE pc == IF purge.chunk + 1 = MaxChunks THEN "counting" ELSE "category"
  <2>1. purge' = [purge EXCEPT !.pc = pc, !.chunk = purge.chunk + 1, !.chosen = {}]
    BY <1>2 DEF AfterChunk
  <2>2. /\ purge' \in Purge /\ purge'.pc = pc /\ purge'.chunk = purge.chunk + 1
        /\ purge'.at = purge.at /\ purge'.plan = purge.plan
    <3>1. purge.chunk + 1 \in 0..MaxChunks
      BY ConstantTypes DEF TInv, TypeOK, Purge, AtCategory
    <3>2. pc \in {"counting", "category"}
      OBVIOUS
    <3>3. QED
      BY <2>1, <3>1, <3>2 DEF TInv, TypeOK, Purge
  <2>3. AtCategory'
    <3>1. purge.chunk \in Nat /\ purge.chunk < MaxChunks
      BY ConstantTypes DEF TInv, TypeOK, Purge, AtCategory
    <3>2. Category' = Category
      BY <2>2 DEF Category
    <3>3. pc = "category" => purge.chunk + 1 < MaxChunks
      BY <3>1, ConstantTypes
    <3>4. purge.plan \in 1..Plans[Category]
      BY CategoryTypes
    <3>5. QED
      BY <2>2, <3>2, <3>3, <3>4 DEF AtCategory
  <2>4. QED
    BY <2>2, <2>3 DEF SelectionsAreWhole, ChosenAreOverdue
<1>3. QED
  BY <1>1, <1>2

\* A run that has these rows in hand after one of them, whose selection is still whole.
RowsInHand(run) ==
    /\ run \in Purge /\ run.at = purge.at /\ run.plan = purge.plan /\ run.pc # "removing"
    /\ run.live <= run.left /\ run.live <= eligible'[Pass]
    /\ ~run.full => run.live = eligible'[Pass]

LEMMA AfterRowTypes ==
    ASSUME TInv, purge.at <= Len(Categories), Kind[Category] = "rows", IsFiniteSet(Overdue)',
           NEW run, RowsInHand(run), purge' = AfterRow(run)
    PROVE  purge' \in Purge /\ AtCategory' /\ SelectionsAreWhole' /\ ChosenAreOverdue'
<1>a. run.left \in Nat /\ run.live \in Nat /\ purge.plan \in 1..Plans[Category]
  BY CategoryTypes DEF RowsInHand, Purge
<1>1. CASE run.left > 0
  <2>1. purge' = [run EXCEPT !.pc = "updating"]
    BY <1>1 DEF AfterRow
  <2>2. /\ purge' \in Purge /\ purge'.pc = "updating" /\ purge'.at = purge.at
        /\ purge'.plan = purge.plan /\ purge'.left = run.left /\ purge'.live = run.live
        /\ purge'.full = run.full
    BY <2>1 DEF RowsInHand, Purge
  <2>3. Category' = Category /\ Pass' = Pass
    BY <2>2 DEF Category, Pass
  <2>4. AtCategory'
    BY <1>a, <1>1, <2>2, <2>3 DEF AtCategory
  <2>5. SelectionsAreWhole' /\ ChosenAreOverdue'
    BY <2>2, <2>3 DEF RowsInHand, SelectionsAreWhole, ChosenAreOverdue
  <2>6. QED
    BY <2>2, <2>4, <2>5
<1>2. CASE ~(run.left > 0) /\ run.full
  <2>1. purge' = [run EXCEPT !.pc = "counting"]
    BY <1>2 DEF AfterRow
  <2>2. /\ purge' \in Purge /\ purge'.pc = "counting" /\ purge'.at = purge.at
        /\ purge'.plan = purge.plan
    BY <2>1 DEF RowsInHand, Purge
  <2>3. Category' = Category
    BY <2>2 DEF Category
  <2>4. QED
    BY <1>a, <2>2, <2>3 DEF AtCategory, SelectionsAreWhole, ChosenAreOverdue
<1>3. CASE ~(run.left > 0) /\ ~run.full
  BY <1>3, PassDoneTypes DEF AfterRow
<1>4. QED
  BY <1>1, <1>2, <1>3

\* What UpdateRow and RevertPlan leave in hand.
LEMMA UpdatedRow ==
    ASSUME TInv, purge.at <= Len(Categories), Kind[Category] = "rows", purge.pc = "updating",
           NEW n \in {0, 1}, n <= purge.live, 1 - n <= purge.left - purge.live,
           eligible' = [eligible EXCEPT ![Pass] = @ - n],
           NEW run, run = [purge EXCEPT !.left = @ - 1, !.live = @ - n]
    PROVE  RowsInHand(run) /\ eligible' \in [Counted -> 0..MaxRows]
<1>1. /\ purge \in Purge /\ purge.left \in Nat /\ purge.live \in Nat /\ purge.left > 0
      /\ purge.live <= eligible[Pass] /\ (~purge.full => purge.live = eligible[Pass])
  BY DEF TInv, TypeOK, Purge, AtCategory, SelectionsAreWhole
<1>2. Pass \in Counted /\ eligible[Pass] \in 0..MaxRows
  BY CategoryTypes
<1>3. eligible[Pass] - n \in 0..MaxRows
  <2>1. PICK e \in Nat, l \in Nat : e = eligible[Pass] /\ l = purge.live
    BY <1>1, <1>2
  <2>2. n <= l /\ l <= e /\ e <= MaxRows
    BY <1>1, <1>2, <2>1
  <2>3. e - n \in 0..MaxRows
    BY <2>2, ConstantTypes
  <2>4. QED
    BY <2>1, <2>3
<1>4. eligible' \in [Counted -> 0..MaxRows] /\ eligible'[Pass] = eligible[Pass] - n
  BY <1>2, <1>3 DEF TInv, TypeOK
<1>5. purge.left - 1 \in Nat /\ purge.live - n \in Nat
  BY <1>1
<1>6. /\ run \in Purge /\ run.at = purge.at /\ run.plan = purge.plan /\ run.pc = "updating"
      /\ run.left = purge.left - 1 /\ run.live = purge.live - n /\ run.full = purge.full
  BY <1>1, <1>5 DEF Purge
<1>7. run.live <= run.left /\ run.live <= eligible'[Pass] /\ (~run.full => run.live = eligible'[Pass])
  BY <1>1, <1>2, <1>4, <1>6
<1>8. QED
  BY <1>4, <1>6, <1>7 DEF RowsInHand

LEMMA RevertedPlan ==
    ASSUME TInv, RevertPlan
    PROVE  RowsInHand(purge) /\ eligible' \in [Counted -> 0..MaxRows]
<1>1. /\ purge.at <= Len(Categories) /\ Kind[Category] = "rows" /\ purge.pc = "reverting"
      /\ purge \in Purge
  BY DEF RevertPlan, In, Category, TInv, TypeOK
<1>2. PICK counts \in [Passes(PlanBound) -> 0..MaxRows] : eligible' = Changed(PlanBound, counts)
  BY DEF RevertPlan
<1>3. PlanBound \in SUBSET CategorySet /\ \A c \in PlanBound : Kind[c] = "chunks"
  BY RetentionAssumption
<1>4. eligible' \in [Counted -> 0..MaxRows]
  BY <1>2 DEF Changed, TInv, TypeOK
<1>5. Pass \in Counted /\ Pass \notin Passes(PlanBound)
  BY <1>1, <1>3, CategoryTypes, PassesAre DEF Pass
<1>6. eligible'[Pass] = eligible[Pass]
  BY <1>2, <1>5 DEF Changed
<1>7. QED
  BY <1>1, <1>4, <1>6 DEF RowsInHand, TInv, SelectionsAreWhole

\* Requests for deletion only ever leave fewer accounts overdue.
LEMMA FewerOverdue ==
    ASSUME IsFiniteSet(Overdue), \A a \in Accounts : account'[a] = "overdue" => account[a] = "overdue"
    PROVE  Overdue' \subseteq Overdue /\ IsFiniteSet(Overdue)'
<1>1. Overdue' \subseteq Overdue
  BY DEF Overdue
<1>2. QED
  BY <1>1, FS_Subset

-----------------------------------------------------------------------------
(* Types *)

\* What the steps of users, clocks and finished runs leave alone.
LEMMA SameRun ==
    ASSUME TInv, purge' = purge, IsFiniteSet(Overdue)',
           purge.pc \in {"updating", "reverting"} => eligible'[Pass] = eligible[Pass],
           purge.pc = "removing" => Overdue' \subseteq Overdue
    PROVE  AtCategory' /\ SelectionsAreWhole'
<1>1. Category' = Category /\ Pass' = Pass
  BY DEF Category, Pass
<1>2. QED
  BY <1>1 DEF TInv, AtCategory, SelectionsAreWhole

LEMMA TInvStep == TInv /\ [Next]_vars => TInv'
<1> SUFFICES ASSUME TInv, [Next]_vars
             PROVE  TInv'
  OBVIOUS
<1> USE ConstantTypes
<1>a. IsFiniteSet(Overdue)
  BY DEF TInv, SelectionsAreWhole
<1>b. purge \in Purge
  BY DEF TInv, TypeOK
<1>1. CASE StartPurge
  <2>1. /\ 1 \in 1..Len(Categories) + 1 /\ 1 \in Nat \ {0} /\ {} \in SUBSET CategorySet
        /\ UNCHANGED <<eligible, account, bucket, raced, faults>>
    BY <1>1 DEF StartPurge, data
  <2>2. purge' \in Purge
    BY <1>1, <2>1, BeforeTypes DEF StartPurge
  <2>3. /\ purge'.pc = "category" /\ purge'.chunk < MaxChunks
        /\ purge'.at <= Len(Categories) => purge'.plan \in 1..Plans[Categories[purge'.at]]
    BY <1>1, <2>1, FirstPass DEF StartPurge, Before
  <2>4. IsFiniteSet(Overdue)'
    BY <1>a, <2>1 DEF Overdue
  <2>5. QED
    BY <2>1, <2>2, <2>3, <2>4, NothingInHand DEF TInv, TypeOK
<1>2. CASE purge' = Idle /\ UNCHANGED <<eligible, account, bucket, raced>> /\ faults' \in 0..MaxFaults
  <2>1. /\ purge'.pc = "idle" /\ purge'.chunk < MaxChunks
        /\ purge'.at <= Len(Categories) => purge'.plan \in 1..Plans[Categories[purge'.at]]
    BY <1>2, IdleFacts, FirstPass
  <2>2. IsFiniteSet(Overdue)'
    BY <1>2, <1>a DEF Overdue
  <2>3. QED
    BY <1>2, <2>1, <2>2, IdleFacts, NothingInHand DEF TInv, TypeOK
<1>3. CASE FinishPurge
  BY <1>2, <1>3 DEF FinishPurge, data, TInv, TypeOK
<1>4. CASE PurgeDies
  <2>1. faults' \in 0..MaxFaults
    BY <1>4 DEF PurgeDies, TInv, TypeOK
  <2>2. QED
    BY <1>2, <1>4, <2>1 DEF PurgeDies, data
<1>5. CASE StatementFails
  <2>1. faults' \in 0..MaxFaults /\ UNCHANGED <<eligible, account, bucket, raced>>
    BY <1>5 DEF StatementFails, data, TInv, TypeOK
  <2>2. IsFiniteSet(Overdue)'
    BY <1>a, <2>1 DEF Overdue
  <2>3. purge' \in Purge /\ AtCategory' /\ SelectionsAreWhole'
    BY <1>5, <2>2, RunAfterErrorTypes DEF StatementFails
  <2>4. QED
    BY <2>1, <2>3 DEF TInv, TypeOK
<1>6. CASE DeleteChunk
  <2> DEFINE size == Least(eligible[Pass], ChunkSize)
  <2>1. /\ purge.at <= Len(Categories) /\ Kind[Category] = "chunks" /\ purge.pc = "category"
        /\ UNCHANGED <<account, bucket, raced, faults>>
        /\ eligible' = [eligible EXCEPT ![Pass] = @ - size] /\ purge' = AfterChunk(size)
    BY <1>6 DEF DeleteChunk, In, Category
  <2>2. IsFiniteSet(Overdue)'
    BY <1>a, <2>1 DEF Overdue
  <2>3. purge' \in Purge /\ AtCategory' /\ SelectionsAreWhole'
    BY <2>1, <2>2, AfterChunkTypes
  <2>4. eligible' \in [Counted -> 0..MaxRows]
    <3>1. Pass \in Counted
      BY <2>1, CategoryTypes
    <3>2. eligible[Pass] \in 0..MaxRows /\ eligible[Pass] - size \in 0..MaxRows
      BY <3>1 DEF Least, TInv, TypeOK
    <3>3. QED
      BY <2>1, <3>1, <3>2 DEF TInv, TypeOK
  <2>5. QED
    BY <2>1, <2>3, <2>4 DEF TInv, TypeOK
<1>7. CASE SelectAccounts
  <2>1. /\ purge.at <= Len(Categories) /\ Kind[Category] = "accounts" /\ purge.pc = "category"
        /\ UNCHANGED <<eligible, account, bucket, faults>> /\ raced' = {}
    BY <1>7 DEF SelectAccounts, In, Category
  <2>2. PICK chunk \in Chunks(Overdue) :
            purge' = IF chunk = {} THEN PassDone(FALSE)
                     ELSE [purge EXCEPT !.pc = "removing", !.chosen = chunk]
    BY <1>7 DEF SelectAccounts
  <2>3. IsFiniteSet(Overdue)' /\ Overdue' = Overdue
    BY <1>a, <2>1 DEF Overdue
  <2>4. CASE chunk = {}
    <3>1. purge' \in Purge /\ AtCategory' /\ SelectionsAreWhole'
      BY <2>1, <2>2, <2>3, <2>4, PassDoneTypes
    <3>2. QED
      BY <2>1, <3>1 DEF TInv, TypeOK
  <2>5. CASE chunk # {}
    <3>1. chunk \in SUBSET Overdue /\ chunk \in SUBSET Accounts
          /\ Cardinality(chunk) = Least(Cardinality(Overdue), ChunkSize)
      BY DEF Chunks, Overdue
    <3>2. purge' = [purge EXCEPT !.pc = "removing", !.chosen = chunk]
      BY <2>2, <2>5
    <3>3. /\ purge' \in Purge /\ purge'.pc = "removing" /\ purge'.chosen = chunk
          /\ purge'.at = purge.at /\ purge'.plan = purge.plan /\ purge'.chunk = purge.chunk
      BY <1>b, <3>1, <3>2 DEF Purge
    <3>4. Category' = Category
      BY <3>3 DEF Category
    <3>5. AtCategory'
      BY <2>1, <3>3, <3>4 DEF AtCategory, TInv
    <3>6. Cardinality(chunk) < ChunkSize => Overdue \subseteq chunk
      <4>1. Cardinality(Overdue) \in Nat /\ IsFiniteSet(chunk)
        BY <1>a, <3>1, FS_CardinalityType, FS_Subset
      <4>2. Cardinality(chunk) < ChunkSize => Cardinality(chunk) = Cardinality(Overdue)
        BY <3>1, <4>1 DEF Least
      <4>3. Cardinality(chunk) = Cardinality(Overdue) => chunk = Overdue
        BY <1>a, <3>1, FS_Subset
      <4>4. QED
        BY <4>2, <4>3
    <3>7. IsFiniteSet(chunk)
      BY <1>a, <3>1, FS_Subset
    <3>8. SelectionsAreWhole'
      BY <2>3, <3>3, <3>6, <3>7 DEF SelectionsAreWhole
    <3>9. QED
      BY <2>1, <3>3, <3>5, <3>8 DEF TInv, TypeOK
  <2>6. QED
    BY <2>4, <2>5
<1>8. CASE RemoveAccounts
  <2>1. /\ purge.at <= Len(Categories) /\ Kind[Category] = "accounts" /\ purge.pc = "removing"
        /\ UNCHANGED <<bucket, raced, faults>>
    BY <1>8 DEF RemoveAccounts, In, Category
  <2>2. /\ account' \in [Accounts -> {"active", "requested", "overdue", "gone"}]
        /\ \A a \in Accounts : account'[a] = "overdue" => account[a] = "overdue"
    BY <1>8 DEF RemoveAccounts, TInv, TypeOK
  <2>3. IsFiniteSet(Overdue)'
    BY <1>a, <2>2, FewerOverdue
  <2>4. purge' = RunAfterError \/ purge' = AfterChunk(Cardinality(purge.chosen))
    BY <1>8 DEF RemoveAccounts
  <2>5. purge' \in Purge /\ AtCategory' /\ SelectionsAreWhole'
    BY <2>1, <2>3, <2>4, RunAfterErrorTypes, AfterChunkTypes
  <2>6. eligible' \in [Counted -> 0..MaxRows]
    <3>1. CASE eligible' = eligible
      BY <3>1 DEF TInv, TypeOK
    <3>2. CASE \E rest \in [Passes(Owned) -> 0..MaxRows] : eligible' = Changed(Owned, rest)
      BY <3>2 DEF Changed, TInv, TypeOK
    <3>3. QED
      BY <1>8, <3>1, <3>2 DEF RemoveAccounts
  <2>7. QED
    BY <2>1, <2>2, <2>5, <2>6 DEF TInv, TypeOK
<1>9. CASE SelectRows
  <2> DEFINE size == Least(eligible[Pass], Cap)
  <2>1. /\ purge.at <= Len(Categories) /\ Kind[Category] = "rows" /\ purge.pc = "category"
        /\ UNCHANGED <<eligible, account, bucket, raced, faults>>
        /\ IF size = 0 THEN purge' = PassDone(FALSE)
           ELSE purge' = [purge EXCEPT !.pc = "updating", !.left = size, !.live = size,
                                       !.full = size = Cap]
    BY <1>9 DEF SelectRows, In, Category, data
  <2>2. IsFiniteSet(Overdue)'
    BY <1>a, <2>1 DEF Overdue
  <2>3. CASE size = 0
    <3>1. purge' \in Purge /\ AtCategory' /\ SelectionsAreWhole'
      BY <2>1, <2>2, <2>3, PassDoneTypes
    <3>2. QED
      BY <2>1, <3>1 DEF TInv, TypeOK
  <2>4. CASE size # 0
    <3>1. eligible[Pass] \in Nat /\ purge.plan \in 1..Plans[Category]
      BY <2>1, CategoryTypes
    <3>2. /\ size \in Nat /\ size > 0 /\ size <= eligible[Pass]
          /\ size # Cap => size = eligible[Pass]
      BY <2>4, <3>1 DEF Least
    <3>3. PICK f \in BOOLEAN : f = (size = Cap)
      OBVIOUS
    <3>4. purge' = [purge EXCEPT !.pc = "updating", !.left = size, !.live = size, !.full = f]
      BY <2>1, <2>4, <3>3
    <3>5. /\ purge' \in Purge /\ purge'.pc = "updating" /\ purge'.left = size
          /\ purge'.live = size /\ purge'.full = f /\ purge'.at = purge.at
          /\ purge'.plan = purge.plan
      BY <1>b, <3>2, <3>4 DEF Purge
    <3>6. Category' = Category /\ Pass' = Pass
      BY <3>5 DEF Category, Pass
    <3>7. AtCategory'
      BY <2>1, <3>1, <3>2, <3>5, <3>6 DEF AtCategory
    <3>8. SelectionsAreWhole'
      <4>1. eligible'[Pass'] = eligible[Pass] /\ (~f => size = eligible[Pass])
        BY <2>1, <3>2, <3>3, <3>6
      <4> HIDE DEF size
      <4>2. size <= size
        BY <3>2
      <4>3. QED
        BY <2>2, <3>2, <3>5, <4>1, <4>2 DEF SelectionsAreWhole
    <3>9. QED
      BY <2>1, <3>5, <3>7, <3>8 DEF TInv, TypeOK
  <2>5. QED
    BY <2>3, <2>4
<1>10. CASE UpdateRow
  <2>1. /\ purge.at <= Len(Categories) /\ Kind[Category] = "rows" /\ purge.pc = "updating"
        /\ UNCHANGED <<account, bucket, raced, faults>>
    BY <1>10 DEF UpdateRow, In, Category
  <2>2. PICK n \in {0, 1} :
            /\ n <= purge.live /\ 1 - n <= purge.left - purge.live
            /\ eligible' = [eligible EXCEPT ![Pass] = @ - n]
            /\ LET run == [purge EXCEPT !.left = @ - 1, !.live = @ - n] IN
                   purge' = IF Category \in Reverting THEN [run EXCEPT !.pc = "reverting"]
                            ELSE AfterRow(run)
    BY <1>10 DEF UpdateRow
  <2> DEFINE run == [purge EXCEPT !.left = @ - 1, !.live = @ - n]
  <2>3. RowsInHand(run) /\ eligible' \in [Counted -> 0..MaxRows]
    BY <2>1, <2>2, UpdatedRow
  <2>4. IsFiniteSet(Overdue)'
    BY <1>a, <2>1 DEF Overdue
  <2>5. purge' \in Purge /\ AtCategory' /\ SelectionsAreWhole'
    <3>1. CASE Category \in Reverting
      <4> HIDE DEF run
      <4>1. purge' = [run EXCEPT !.pc = "reverting"]
        BY <2>2, <3>1 DEF run
      <4>2. /\ purge' \in Purge /\ purge'.pc = "reverting" /\ purge'.at = purge.at
            /\ purge'.plan = purge.plan /\ purge'.left = run.left /\ purge'.live = run.live
            /\ purge'.full = run.full
        BY <2>3, <4>1 DEF RowsInHand, Purge
      <4>3. Category' = Category /\ Pass' = Pass
        BY <4>2 DEF Category, Pass
      <4>4. purge.plan \in 1..Plans[Category]
        BY <2>1, CategoryTypes
      <4>5. AtCategory'
        BY <2>1, <4>2, <4>3, <4>4 DEF AtCategory
      <4>6. SelectionsAreWhole'
        BY <2>3, <2>4, <4>2, <4>3 DEF SelectionsAreWhole, RowsInHand
      <4>7. QED
        BY <4>2, <4>5, <4>6
    <3>2. CASE Category \notin Reverting
      BY <2>1, <2>2, <2>3, <2>4, <3>2, AfterRowTypes
    <3>3. QED
      BY <3>1, <3>2
  <2>6. QED
    BY <2>1, <2>3, <2>5 DEF TInv, TypeOK
<1>20. CASE RevertPlan
  <2>1. /\ purge.at <= Len(Categories) /\ Kind[Category] = "rows"
        /\ UNCHANGED <<account, bucket, raced, faults>> /\ purge' = AfterRow(purge)
    BY <1>20 DEF RevertPlan, In, Category
  <2>2. IsFiniteSet(Overdue)'
    BY <1>a, <2>1 DEF Overdue
  <2>3. RowsInHand(purge) /\ eligible' \in [Counted -> 0..MaxRows]
    BY <1>20, RevertedPlan
  <2>4. purge' \in Purge /\ AtCategory' /\ SelectionsAreWhole'
    BY <2>1, <2>2, <2>3, AfterRowTypes
  <2>5. QED
    BY <2>1, <2>3, <2>4 DEF TInv, TypeOK
<1>11. CASE CountRemaining
  <2>1. purge.at <= Len(Categories) /\ UNCHANGED <<eligible, account, bucket, raced, faults>>
    BY <1>11 DEF CountRemaining, data, TInv, AtCategory
  <2>2. IsFiniteSet(Overdue)'
    BY <1>a, <2>1 DEF Overdue
  <2>3. PICK b \in BOOLEAN : purge' = PassDone(b)
    <3>1. HasRowsMatching \in BOOLEAN
      <4>1. CASE Kind[Category] = "accounts"
        BY <4>1 DEF HasRowsMatching
      <4>2. CASE Kind[Category] # "accounts"
        BY <4>2 DEF HasRowsMatching
      <4>3. QED
        BY <4>1, <4>2
    <3>2. QED
      BY <1>11, <3>1 DEF CountRemaining
  <2>4. purge' \in Purge /\ AtCategory' /\ SelectionsAreWhole'
    BY <2>1, <2>2, <2>3, PassDoneTypes
  <2>5. QED
    BY <2>1, <2>4 DEF TInv, TypeOK
<1>12. CASE ListLogos
  <2> DEFINE found == {o \in Page : bucket[o] = "orphan"}
  <2>1. /\ purge.at <= Len(Categories) /\ Kind[Category] = "logos" /\ purge.pc = "category"
        /\ UNCHANGED <<eligible, account, bucket, raced, faults>>
        /\ purge' = IF found = {} THEN PassDone(Truncated)
                    ELSE [purge EXCEPT !.pc = "cleaning", !.found = found, !.full = Truncated]
    BY <1>12 DEF ListLogos, In, Category, data
  <2>2. IsFiniteSet(Overdue)'
    BY <1>a, <2>1 DEF Overdue
  <2>3. PICK b \in BOOLEAN : b = Truncated
    BY DEF Truncated
  <2>4. purge' \in Purge /\ AtCategory' /\ SelectionsAreWhole'
    <3>1. CASE found = {}
      BY <2>1, <2>2, <2>3, <3>1, PassDoneTypes
    <3>2. CASE found # {}
      <4>1. purge' = [purge EXCEPT !.pc = "cleaning", !.found = found, !.full = b]
        BY <2>1, <2>3, <3>2
      <4>2. found \in SUBSET Objects
        BY DEF Page
      <4>3. /\ purge' \in Purge /\ purge'.pc = "cleaning" /\ purge'.at = purge.at
            /\ purge'.plan = purge.plan
        BY <1>b, <4>1, <4>2 DEF Purge
      <4>4. Category' = Category /\ purge.plan \in 1..Plans[Category]
        BY <2>1, <4>3, CategoryTypes DEF Category
      <4>5. QED
        BY <2>1, <2>2, <4>3, <4>4 DEF AtCategory, SelectionsAreWhole
    <3>3. QED
      BY <3>1, <3>2
  <2>5. QED
    BY <2>1, <2>4 DEF TInv, TypeOK
<1>13. CASE DeleteLogos
  <2>1. /\ purge.at <= Len(Categories) /\ UNCHANGED <<eligible, account, raced, faults>>
        /\ purge' = PassDone(purge.full) /\ purge.full \in BOOLEAN
    BY <1>13, <1>b DEF DeleteLogos, In, Purge
  <2>2. IsFiniteSet(Overdue)'
    BY <1>a, <2>1 DEF Overdue
  <2>3. purge' \in Purge /\ AtCategory' /\ SelectionsAreWhole'
    BY <2>1, <2>2, PassDoneTypes
  <2>4. bucket' \in [Objects -> {"none", "used", "orphan"}]
    BY <1>13 DEF DeleteLogos, TInv, TypeOK
  <2>5. QED
    BY <2>1, <2>3, <2>4 DEF TInv, TypeOK
<1>14. ASSUME NEW a \in Accounts, RequestAccountDeletion(a) \/ CancelAccountDeletion(a)
       PROVE  TInv'
  <2>1. /\ UNCHANGED <<eligible, bucket, purge, faults>>
        /\ account' = [account EXCEPT ![a] = "requested"] \/ account' = [account EXCEPT ![a] = "active"]
        /\ raced' = IF a \in purge.chosen THEN raced \cup {a} ELSE raced
    BY <1>14 DEF RequestAccountDeletion, CancelAccountDeletion, MayRace
  <2>2. /\ account' \in [Accounts -> {"active", "requested", "overdue", "gone"}]
        /\ \A b \in Accounts : account'[b] = "overdue" => account[b] = "overdue"
        /\ raced' \subseteq Accounts
    BY <2>1 DEF TInv, TypeOK
  <2>3. Overdue' \subseteq Overdue /\ IsFiniteSet(Overdue)'
    BY <1>a, <2>2, FewerOverdue
  <2>4. AtCategory' /\ SelectionsAreWhole'
    BY <2>1, <2>3, SameRun
  <2>5. QED
    BY <2>1, <2>2, <2>4 DEF TInv, TypeOK
<1>15. ASSUME NEW a \in Accounts, GraceEnds(a)
       PROVE  TInv'
  <2>1. /\ purge.pc = "idle" /\ UNCHANGED <<eligible, bucket, purge, raced, faults>>
        /\ account' = [account EXCEPT ![a] = "overdue"]
    BY <1>15 DEF GraceEnds, Running
  <2>2. account' \in [Accounts -> {"active", "requested", "overdue", "gone"}]
    BY <2>1 DEF TInv, TypeOK
  <2>3. Overdue' = Overdue \cup {a}
    BY <2>1 DEF Overdue, TInv, TypeOK
  <2>4. IsFiniteSet(Overdue)'
    BY <1>a, <2>3, FS_AddElement
  <2>5. AtCategory' /\ SelectionsAreWhole'
    BY <2>1, <2>4, SameRun
  <2>6. QED
    BY <2>1, <2>2, <2>5 DEF TInv, TypeOK
<1>16. ASSUME NEW o \in Objects, UploadLogo(o) \/ UnlinkLogo(o) \/ RelinkLogo(o)
       PROVE  TInv'
  <2>1. /\ UNCHANGED <<eligible, account, purge, raced, faults>>
        /\ bucket' \in [Objects -> {"none", "used", "orphan"}]
    BY <1>16 DEF UploadLogo, UnlinkLogo, RelinkLogo, TInv, TypeOK
  <2>2. IsFiniteSet(Overdue)' /\ Overdue' = Overdue
    BY <1>a, <2>1 DEF Overdue
  <2>3. AtCategory' /\ SelectionsAreWhole'
    BY <2>1, <2>2, SameRun
  <2>4. QED
    BY <2>1, <2>3 DEF TInv, TypeOK
<1>17. ASSUME NEW p \in Counted, RowJoins(p)
       PROVE  TInv'
  <2>1. /\ purge.pc = "idle" \/ p[1] \in PlanBound
        /\ UNCHANGED <<account, bucket, purge, raced, faults>>
        /\ eligible[p] < MaxRows /\ eligible' = [eligible EXCEPT ![p] = @ + 1]
    BY <1>17 DEF RowJoins, Running
  <2>2. eligible' \in [Counted -> 0..MaxRows]
    BY <2>1 DEF TInv, TypeOK
  <2>3. IsFiniteSet(Overdue)' /\ Overdue' = Overdue
    BY <1>a, <2>1 DEF Overdue
  <2>4. purge.pc \in {"updating", "reverting"} => eligible'[Pass] = eligible[Pass]
    <3>1. SUFFICES ASSUME purge.pc \in {"updating", "reverting"}
                   PROVE  eligible'[Pass] = eligible[Pass]
      OBVIOUS
    <3>2. Kind[Category] = "rows" /\ purge.at <= Len(Categories)
      BY <3>1 DEF TInv, AtCategory
    <3>3. Kind[p[1]] = "chunks"
      BY <2>1, <3>1, RetentionAssumption
    <3>4. Pass # p
      BY <3>2, <3>3 DEF Pass
    <3>5. Pass \in Counted
      BY <3>2, CategoryTypes
    <3>6. QED
      BY <2>1, <3>4, <3>5 DEF TInv, TypeOK
  <2>5. AtCategory' /\ SelectionsAreWhole'
    BY <2>1, <2>3, <2>4, SameRun
  <2>6. QED
    BY <2>1, <2>2, <2>5 DEF TInv, TypeOK
<1>21. ASSUME NEW p \in Counted, RowLeaves(p)
       PROVE  TInv'
  <2>1. /\ UNCHANGED <<account, bucket, raced, faults>>
        /\ eligible[p] > 0 /\ eligible' = [eligible EXCEPT ![p] = @ - 1]
    BY <1>21 DEF RowLeaves
  <2>2. /\ eligible' \in [Counted -> 0..MaxRows] /\ eligible[p] \in Nat
        /\ eligible'[p] = eligible[p] - 1
        /\ \A q \in Counted : q # p => eligible'[q] = eligible[q]
    BY <2>1 DEF TInv, TypeOK
  <2>3. IsFiniteSet(Overdue)' /\ Overdue' = Overdue
    BY <1>a, <2>1 DEF Overdue
  <2>4. CASE purge.pc \in {"updating", "reverting"} /\ p = Pass
    <3>1. PICK n \in {0, 1} : /\ n <= purge.live /\ 1 - n <= eligible[p] - purge.live
                              /\ purge' = [purge EXCEPT !.live = @ - n]
      BY <1>21, <2>4 DEF RowLeaves
    <3>2. purge.live \in Nat /\ purge.left \in Nat /\ purge.live - n \in Nat
      BY <1>b, <3>1 DEF Purge
    <3>3. /\ purge' \in Purge /\ purge'.live = purge.live - n /\ purge'.left = purge.left
          /\ purge'.pc = purge.pc /\ purge'.at = purge.at /\ purge'.plan = purge.plan
          /\ purge'.full = purge.full /\ purge'.chunk = purge.chunk
      BY <1>b, <3>1, <3>2 DEF Purge
    <3>4. Category' = Category /\ Pass' = Pass
      BY <3>3 DEF Category, Pass
    <3>5. AtCategory'
      BY <2>4, <3>3, <3>4 DEF TInv, AtCategory
    <3>6. /\ purge'.live <= purge'.left /\ purge'.live <= eligible'[Pass]
          /\ ~purge'.full => purge'.live = eligible'[Pass]
      <4>1. PICK e \in Nat, l \in Nat, s \in Nat :
                e = eligible[p] /\ l = purge.live /\ s = purge.left
        BY <2>2, <3>2
      <4>2. l <= s /\ l <= e /\ (~purge.full => l = e) /\ n <= l /\ 1 - n <= e - l
        BY <2>4, <3>1, <4>1 DEF TInv, SelectionsAreWhole
      <4>3. l - n <= s /\ l - n <= e - 1 /\ (~purge.full => l - n = e - 1)
        BY <4>2
      <4>4. QED
        BY <2>2, <2>4, <3>3, <4>1, <4>3
    <3>7. SelectionsAreWhole'
      BY <2>3, <2>4, <3>3, <3>4, <3>6 DEF SelectionsAreWhole
    <3>8. QED
      BY <2>1, <2>2, <3>3, <3>5, <3>7 DEF TInv, TypeOK
  <2>5. CASE ~(purge.pc \in {"updating", "reverting"} /\ p = Pass)
    <3>1. purge' = purge
      BY <1>21, <2>5 DEF RowLeaves
    <3>2. purge.pc \in {"updating", "reverting"} => eligible'[Pass] = eligible[Pass]
      BY <2>2, <2>5, CategoryTypes DEF TInv, AtCategory
    <3>3. AtCategory' /\ SelectionsAreWhole'
      BY <2>3, <3>1, <3>2, SameRun
    <3>4. QED
      BY <2>1, <2>2, <3>1, <3>3 DEF TInv, TypeOK
  <2>6. QED
    BY <2>4, <2>5
<1>18. CASE UNCHANGED vars
  BY <1>18 DEF vars, TInv, TypeOK, AtCategory, SelectionsAreWhole, Category, Pass, Overdue
<1>19. QED
  BY <1>1, <1>3, <1>4, <1>5, <1>6, <1>7, <1>8, <1>9, <1>10, <1>11, <1>12, <1>13, <1>14, <1>15,
     <1>16, <1>17, <1>18, <1>20, <1>21
     DEF Next, PurgeStep, UserStep

-----------------------------------------------------------------------------
(* What is reported *)

\* What ResultsAreTruthful says of the step that ends a pass.
ReportIsSo ==
    /\ Pass \in Counted =>
        (Category \in purge'.backlog <=> Category \in purge.backlog \/ eligible'[Pass] > 0)
    /\ Kind[Category] = "accounts" =>
        (Category \in purge'.backlog <=> Category \in purge.backlog \/ Overdue' # {})

LEMMA DoneTruthfully ==
    ASSUME TInv, purge.at <= Len(Categories), NEW more \in BOOLEAN, purge' = PassDone(more),
           Pass \in Counted => (more <=> eligible'[Pass] > 0),
           Kind[Category] = "accounts" => (more <=> Overdue' # {})
    PROVE  ReportIsSo
<1>1. purge'.backlog = IF more THEN purge.backlog \cup {Category} ELSE purge.backlog
  BY DEF PassDone, Before
<1>2. QED
  BY <1>1 DEF ReportIsSo

LEMMA DoneWithNothingLeft ==
    ASSUME TInv, purge.at <= Len(Categories), purge' = PassDone(FALSE),
           Pass \in Counted => eligible'[Pass] = 0, Kind[Category] = "accounts" => Overdue' = {}
    PROVE  ReportIsSo
<1>1. Pass \in Counted => ~(eligible'[Pass] > 0)
  OBVIOUS
<1>2. QED
  BY <1>1, DoneTruthfully

\* A category that throws has nothing to report, and a chunk that is full or a row
\* with others after it ends no pass.
LEMMA ErrorEndsNoPass == purge' = RunAfterError => ~PassEnds
  BY DEF RunAfterError, Before, PassEnds

LEMMA FullChunkEndsNoPass ==
    ASSUME TInv, NEW size, ~(size < ChunkSize), purge' = AfterChunk(size)
    PROVE  ~PassEnds
<1>1. purge'.at = purge.at /\ purge'.plan = purge.plan
  BY DEF AfterChunk, TInv, TypeOK, Purge
<1>2. QED
  BY <1>1 DEF PassEnds

LEMMA RowsEndTruthfully ==
    ASSUME TInv, purge.at <= Len(Categories), Kind[Category] = "rows",
           NEW run, RowsInHand(run), eligible' \in [Counted -> 0..MaxRows],
           purge' = AfterRow(run), PassEnds
    PROVE  ReportIsSo
<1>1. ~(run.left > 0) /\ ~run.full
  <2>1. run.left > 0 \/ run.full => purge'.at = purge.at /\ purge'.plan = purge.plan
    BY DEF AfterRow, RowsInHand, Purge
  <2>2. QED
    BY <2>1 DEF PassEnds
<1>2. purge' = PassDone(FALSE)
  BY <1>1 DEF AfterRow
<1>3. Pass \in Counted
  BY CategoryTypes
<1>4. eligible'[Pass] \in Nat /\ run.left \in Nat /\ run.live \in Nat
  BY <1>3 DEF RowsInHand, Purge
<1>5. eligible'[Pass] = 0
  BY <1>1, <1>4 DEF RowsInHand
<1>6. QED
  BY <1>2, <1>5, DoneWithNothingLeft

LEMMA ReportStep == TInv /\ [Next]_vars => [PassEnds => ReportIsSo]_vars
<1> SUFFICES ASSUME TInv, [Next]_vars, PassEnds
             PROVE  ReportIsSo
  OBVIOUS
<1> USE ConstantTypes
<1>a. purge \in Purge /\ IsFiniteSet(Overdue)
  BY DEF TInv, TypeOK, SelectionsAreWhole
<1>b. /\ purge.pc # "idle" /\ purge'.pc # "idle" /\ purge.at <= Len(Categories)
      /\ <<purge'.at, purge'.plan>> # <<purge.at, purge.plan>>
  BY DEF PassEnds, Running
<1>1. CASE StartPurge \/ FinishPurge \/ PurgeDies
  BY <1>1, <1>a, <1>b, IdleFacts DEF StartPurge, FinishPurge, PurgeDies, Running, Purge
<1>2. CASE StatementFails
  BY <1>2, ErrorEndsNoPass DEF StatementFails
<1>3. CASE DeleteChunk
  <2> DEFINE size == Least(eligible[Pass], ChunkSize)
  <2>1. /\ Kind[Category] = "chunks" /\ eligible' = [eligible EXCEPT ![Pass] = eligible[Pass] - size]
        /\ purge' = AfterChunk(size)
    BY <1>3 DEF DeleteChunk, In, Category
  <2>2. size < ChunkSize
    BY <2>1, FullChunkEndsNoPass
  <2>3. purge' = PassDone(FALSE)
    BY <2>1, <2>2 DEF AfterChunk
  <2>4. Pass \in Counted /\ eligible[Pass] \in 0..MaxRows
    BY <1>b, <2>1, CategoryTypes
  <2>5. eligible'[Pass] = 0
    BY <2>1, <2>2, <2>4 DEF Least, TInv, TypeOK
  <2>6. QED
    BY <1>b, <2>1, <2>3, <2>5, DoneWithNothingLeft
<1>4. CASE SelectAccounts
  <2>1. /\ Kind[Category] = "accounts" /\ UNCHANGED <<eligible, account>>
    BY <1>4 DEF SelectAccounts, In, Category
  <2>2. PICK chunk \in Chunks(Overdue) :
            purge' = IF chunk = {} THEN PassDone(FALSE)
                     ELSE [purge EXCEPT !.pc = "removing", !.chosen = chunk]
    BY <1>4 DEF SelectAccounts
  <2>3. chunk = {}
    BY <1>a, <1>b, <2>2 DEF Purge
  <2>4. Overdue = {}
    <3>1. Cardinality(Overdue) \in Nat /\ (Cardinality(Overdue) = 0 <=> Overdue = {})
      BY <1>a, FS_CardinalityType, FS_EmptySet
    <3>2. Cardinality(chunk) = 0
      BY <2>3, FS_EmptySet
    <3>3. Least(Cardinality(Overdue), ChunkSize) = 0
      BY <3>2 DEF Chunks
    <3>4. QED
      BY <3>1, <3>3 DEF Least
  <2>5. Overdue' = {} /\ Pass \notin Counted
    BY <1>b, <2>1, <2>4, CategoryTypes DEF Overdue
  <2>6. QED
    BY <1>b, <2>1, <2>2, <2>3, <2>5, DoneWithNothingLeft
<1>5. CASE RemoveAccounts
  <2> DEFINE size == Cardinality(purge.chosen)
  <2>1. Kind[Category] = "accounts" /\ purge.pc = "removing"
    BY <1>5 DEF RemoveAccounts, In, Category
  <2>2. Removable(purge.chosen) /\ purge' = AfterChunk(size)
    BY <1>5, ErrorEndsNoPass DEF RemoveAccounts
  <2>3. size < ChunkSize
    BY <2>2, FullChunkEndsNoPass
  <2>4. purge' = PassDone(FALSE)
    BY <2>2, <2>3 DEF AfterChunk
  <2>5. account' = [a \in Accounts |-> IF a \in purge.chosen THEN "gone" ELSE account[a]]
    BY <1>5, <2>2 DEF RemoveAccounts
  <2>6. Overdue \subseteq purge.chosen
    BY <2>1, <2>3 DEF TInv, SelectionsAreWhole
  <2>7. Overdue' = {} /\ Pass \notin Counted
    BY <1>b, <2>1, <2>5, <2>6, CategoryTypes DEF Overdue
  <2>8. QED
    BY <1>b, <2>1, <2>4, <2>7, DoneWithNothingLeft
<1>6. CASE SelectRows
  <2> DEFINE size == Least(eligible[Pass], Cap)
  <2>1. /\ Kind[Category] = "rows" /\ UNCHANGED <<eligible, account>>
        /\ IF size = 0 THEN purge' = PassDone(FALSE)
           ELSE purge' = [purge EXCEPT !.pc = "updating", !.left = size, !.live = size,
                                       !.full = size = Cap]
    BY <1>6 DEF SelectRows, In, Category, data
  <2>2. size = 0
    <3>1. PICK f : f = (size = Cap)
      OBVIOUS
    <3>2. size # 0 =>
            purge' = [purge EXCEPT !.pc = "updating", !.left = size, !.live = size, !.full = f]
      BY <2>1, <3>1
    <3>3. QED
      BY <1>a, <1>b, <3>2 DEF Purge
  <2>3. Pass \in Counted /\ eligible[Pass] \in 0..MaxRows
    BY <1>b, <2>1, CategoryTypes
  <2>4. eligible'[Pass] = 0
    BY <2>1, <2>2, <2>3 DEF Least
  <2>5. QED
    BY <1>b, <2>1, <2>2, <2>4, DoneWithNothingLeft
<1>7. CASE UpdateRow
  <2>1. Kind[Category] = "rows" /\ purge.pc = "updating"
    BY <1>7 DEF UpdateRow, In, Category
  <2>2. PICK n \in {0, 1} :
            /\ n <= purge.live /\ 1 - n <= purge.left - purge.live
            /\ eligible' = [eligible EXCEPT ![Pass] = @ - n]
            /\ LET run == [purge EXCEPT !.left = @ - 1, !.live = @ - n] IN
                   purge' = IF Category \in Reverting THEN [run EXCEPT !.pc = "reverting"]
                            ELSE AfterRow(run)
    BY <1>7 DEF UpdateRow
  <2> DEFINE run == [purge EXCEPT !.left = @ - 1, !.live = @ - n]
  <2>3. RowsInHand(run) /\ eligible' \in [Counted -> 0..MaxRows]
    BY <1>b, <2>1, <2>2, UpdatedRow
  <2>4. CASE Category \in Reverting
    <3>1. purge' = [run EXCEPT !.pc = "reverting"]
      BY <2>2, <2>4
    <3>2. purge'.at = purge.at /\ purge'.plan = purge.plan
      BY <1>a, <3>1 DEF Purge
    <3>3. QED
      BY <1>b, <3>2
  <2>5. CASE Category \notin Reverting
    BY <1>b, <2>1, <2>2, <2>3, <2>5, RowsEndTruthfully
  <2>6. QED
    BY <2>4, <2>5
<1>8. CASE RevertPlan
  <2>1. Kind[Category] = "rows" /\ purge' = AfterRow(purge)
    BY <1>8 DEF RevertPlan, In, Category
  <2>2. QED
    BY <1>8, <1>b, <2>1, RevertedPlan, RowsEndTruthfully
<1>9. CASE CountRemaining
  <2>1. UNCHANGED <<eligible, account>> /\ purge' = PassDone(HasRowsMatching)
    BY <1>9 DEF CountRemaining, data
  <2>2. Overdue' = Overdue
    BY <2>1 DEF Overdue
  <2>3. Pass \in Counted => Kind[Category] # "accounts"
    BY <1>b, CategoryTypes
  <2>4. PICK more \in BOOLEAN : more = HasRowsMatching
    <3>1. HasRowsMatching \in BOOLEAN
      <4>1. CASE Kind[Category] = "accounts"
        BY <4>1 DEF HasRowsMatching
      <4>2. CASE Kind[Category] # "accounts"
        <5>1. HasRowsMatching = (eligible[Pass] > 0)
          BY <4>2 DEF HasRowsMatching
        <5>2. (eligible[Pass] > 0) \in BOOLEAN
          OBVIOUS
        <5>3. QED
          BY <5>1, <5>2
      <4>3. QED
        BY <4>1, <4>2
    <3>2. QED
      BY <3>1
  <2>5. Pass \in Counted => (more <=> eligible'[Pass] > 0)
    BY <2>1, <2>3, <2>4 DEF HasRowsMatching
  <2>6. Kind[Category] = "accounts" => (more <=> Overdue' # {})
    BY <2>2, <2>4 DEF HasRowsMatching
  <2>7. QED
    BY <1>b, <2>1, <2>4, <2>5, <2>6, DoneTruthfully
<1>10. CASE ListLogos \/ DeleteLogos
  <2>1. Kind[Category] = "logos"
    BY <1>10 DEF ListLogos, DeleteLogos, In, Category
  <2>2. QED
    BY <1>b, <2>1, CategoryTypes DEF ReportIsSo
<1>11. ASSUME purge'.at = purge.at, purge'.plan = purge.plan
       PROVE  FALSE
  BY <1>11, <1>b
<1>12. ASSUME NEW a \in Accounts,
              RequestAccountDeletion(a) \/ CancelAccountDeletion(a) \/ GraceEnds(a)
       PROVE  FALSE
  BY <1>11, <1>12 DEF RequestAccountDeletion, CancelAccountDeletion, GraceEnds
<1>13. ASSUME NEW o \in Objects, UploadLogo(o) \/ UnlinkLogo(o) \/ RelinkLogo(o)
       PROVE  FALSE
  BY <1>11, <1>13 DEF UploadLogo, UnlinkLogo, RelinkLogo
<1>14. ASSUME NEW p \in Counted, RowJoins(p)
       PROVE  FALSE
  BY <1>11, <1>14 DEF RowJoins
<1>15. ASSUME NEW p \in Counted, RowLeaves(p)
       PROVE  FALSE
  <2>1. PICK n : purge' = purge \/ purge' = [purge EXCEPT !.live = @ - n]
    BY <1>15 DEF RowLeaves
  <2>2. QED
    BY <1>11, <1>a, <2>1 DEF Purge
<1>16. ~UNCHANGED vars
  BY <1>11 DEF vars
<1>17. QED
  BY <1>1, <1>2, <1>3, <1>4, <1>5, <1>6, <1>7, <1>8, <1>9, <1>10, <1>12, <1>13, <1>14, <1>15,
     <1>16
     DEF Next, PurgeStep, UserStep

-----------------------------------------------------------------------------
(* Who is removed *)

LEMMA DoneSelectsNone == ASSUME NEW more, purge' = PassDone(more) PROVE purge'.pc # "removing"
  BY DEF PassDone, Before

LEMMA AfterChunkSelectsNone == ASSUME TInv, NEW size, purge' = AfterChunk(size) PROVE purge'.pc # "removing"
<1>1. CASE size < ChunkSize
  BY <1>1 DEF AfterChunk, PassDone, Before
<1>2. CASE ~(size < ChunkSize)
  BY <1>2 DEF AfterChunk, TInv, TypeOK, Purge
<1>3. QED
  BY <1>1, <1>2

\* A run under way selects accounts by the SELECT, and gives them up at once.
LEMMA OnlySelectSelects ==
    ASSUME TInv, PurgeStep \/ StartPurge \/ StatementFails \/ PurgeDies, ~SelectAccounts
    PROVE  purge'.pc # "removing"
<1> USE DEF TInv, TypeOK
<1>1. CASE StartPurge \/ StatementFails \/ PurgeDies \/ FinishPurge \/ CountRemaining \/ DeleteLogos
  BY <1>1 DEF StartPurge, StatementFails, PurgeDies, FinishPurge, CountRemaining, DeleteLogos,
              RunAfterError, PassDone, Idle, Before
<1>2. CASE DeleteChunk
  BY <1>2, AfterChunkSelectsNone DEF DeleteChunk
<1>3. CASE RemoveAccounts
  <2>1. purge' = RunAfterError \/ purge' = AfterChunk(Cardinality(purge.chosen))
    BY <1>3 DEF RemoveAccounts
  <2>2. RunAfterError.pc # "removing"
    BY DEF RunAfterError, Before
  <2>3. QED
    BY <2>1, <2>2, AfterChunkSelectsNone
<1>4. CASE SelectRows
  <2>1. PICK size, full :
            \/ purge' = PassDone(FALSE)
            \/ purge' = [purge EXCEPT !.pc = "updating", !.left = size, !.live = size, !.full = full]
    BY <1>4 DEF SelectRows
  <2>2. CASE purge' = [purge EXCEPT !.pc = "updating", !.left = size, !.live = size, !.full = full]
    BY <2>2 DEF Purge
  <2>3. QED
    BY <2>1, <2>2, DoneSelectsNone
<1>5. ASSUME NEW run \in Purge, run.pc # "removing", purge' = AfterRow(run)
      PROVE  purge'.pc # "removing"
  <2>1. CASE purge' = PassDone(FALSE)
    BY <2>1, DoneSelectsNone
  <2>2. CASE purge' = [run EXCEPT !.pc = "updating"] \/ purge' = [run EXCEPT !.pc = "counting"]
    BY <1>5, <2>2 DEF Purge
  <2>3. QED
    BY <1>5, <2>1, <2>2 DEF AfterRow
<1>7. CASE UpdateRow
  <2>1. PICK n \in {0, 1} :
            /\ n <= purge.live /\ 1 - n <= purge.left - purge.live
            /\ eligible' = [eligible EXCEPT ![Pass] = @ - n]
            /\ LET run == [purge EXCEPT !.left = @ - 1, !.live = @ - n] IN
                   purge' = IF Category \in Reverting THEN [run EXCEPT !.pc = "reverting"]
                            ELSE AfterRow(run)
    BY <1>7 DEF UpdateRow
  <2> DEFINE run == [purge EXCEPT !.left = @ - 1, !.live = @ - n]
  <2>2. /\ purge.at <= Len(Categories) /\ Kind[Category] = "rows" /\ purge.pc = "updating"
    BY <1>7 DEF UpdateRow, In, Category
  <2>3. RowsInHand(run)
    BY <2>1, <2>2, UpdatedRow
  <2> HIDE DEF run
  <2>4. CASE purge' = [run EXCEPT !.pc = "reverting"]
    BY <2>3, <2>4 DEF RowsInHand, Purge
  <2>5. CASE purge' = AfterRow(run)
    BY <1>5, <2>3, <2>5 DEF RowsInHand
  <2>6. QED
    BY <2>1, <2>4, <2>5 DEF run
<1>8. CASE RevertPlan
  BY <1>5, <1>8 DEF RevertPlan, In
<1>6. CASE ListLogos
  BY <1>6 DEF ListLogos, PassDone, Before, Purge
<1>9. QED
  BY <1>1, <1>2, <1>3, <1>4, <1>6, <1>7, <1>8 DEF PurgeStep

LEMMA ChosenStep == TInv /\ TInv' /\ ChosenAreOverdue /\ [Next]_vars => ChosenAreOverdue'
<1> SUFFICES ASSUME TInv, TInv', ChosenAreOverdue, [Next]_vars, purge'.pc = "removing"
             PROVE  \A a \in purge'.chosen : account'[a] \in {"overdue", "gone"} \/ a \in raced'
  BY DEF ChosenAreOverdue
<1>1. CASE SelectAccounts
  <2>1. PICK chunk \in Chunks(Overdue) :
            purge' = IF chunk = {} THEN PassDone(FALSE)
                     ELSE [purge EXCEPT !.pc = "removing", !.chosen = chunk]
    BY <1>1 DEF SelectAccounts
  <2>2. chunk # {}
    BY <2>1 DEF PassDone, Before
  <2>3. purge'.chosen = chunk
    BY <2>1, <2>2 DEF TInv, TypeOK, Purge
  <2>4. QED
    BY <1>1, <2>3 DEF SelectAccounts, Chunks, Overdue
<1>2. CASE (PurgeStep \/ StartPurge \/ StatementFails \/ PurgeDies) /\ ~SelectAccounts
  BY <1>2, OnlySelectSelects
<1>3. ASSUME NEW a \in Accounts, RequestAccountDeletion(a) \/ CancelAccountDeletion(a),
             NEW b \in purge.chosen
      PROVE  account'[b] \in {"overdue", "gone"} \/ b \in raced'
  <2>1. CASE b = a
    BY <1>3, <2>1 DEF RequestAccountDeletion, CancelAccountDeletion, MayRace
  <2>2. CASE b # a
    <3>1. purge' = purge /\ raced \subseteq raced'
      BY <1>3 DEF RequestAccountDeletion, CancelAccountDeletion, MayRace
    <3>2. account'[b] = account[b]
      <4>1. b \in Accounts
        BY <1>3 DEF TInv, TypeOK, Purge
      <4>2. QED
        BY <1>3, <2>2, <4>1 DEF RequestAccountDeletion, CancelAccountDeletion, TInv, TypeOK
    <3>3. QED
      BY <1>3, <3>1, <3>2 DEF ChosenAreOverdue
  <2>3. QED
    BY <2>1, <2>2
<1>4. ASSUME NEW a \in Accounts, RequestAccountDeletion(a) \/ CancelAccountDeletion(a)
      PROVE  purge' = purge
  BY <1>4 DEF RequestAccountDeletion, CancelAccountDeletion
<1>5. CASE UNCHANGED <<account, purge, raced>>
  BY <1>5 DEF ChosenAreOverdue
<1>6. ASSUME NEW a \in Accounts, GraceEnds(a)
      PROVE  FALSE
  BY <1>6 DEF GraceEnds, Running
<1>7. ASSUME NEW o \in Objects, UploadLogo(o) \/ UnlinkLogo(o) \/ RelinkLogo(o)
      PROVE  UNCHANGED <<account, purge, raced>>
  BY <1>7 DEF UploadLogo, UnlinkLogo, RelinkLogo
<1>8. ASSUME NEW p \in Counted, RowJoins(p) \/ RowLeaves(p)
      PROVE  /\ UNCHANGED <<account, raced>> /\ purge'.chosen = purge.chosen
             /\ purge'.pc = purge.pc
  <2>1. PICK n : purge' = purge \/ purge' = [purge EXCEPT !.live = @ - n]
    BY <1>8 DEF RowJoins, RowLeaves
  <2>2. QED
    BY <1>8, <2>1 DEF RowJoins, RowLeaves, TInv, TypeOK, Purge
<1>11. CASE UNCHANGED <<account, raced>> /\ purge'.chosen = purge.chosen /\ purge'.pc = purge.pc
  BY <1>11 DEF ChosenAreOverdue
<1>9. ASSUME UNCHANGED vars
      PROVE  UNCHANGED <<account, purge, raced>>
  BY <1>9 DEF vars
<1>10. QED
  BY <1>1, <1>2, <1>3, <1>4, <1>5, <1>6, <1>7, <1>8, <1>9, <1>11 DEF Next, UserStep

\* Only the DELETE removes accounts, and only those that were selected.
LEMMA OnlyRacesStep ==
    TInv /\ ChosenAreOverdue /\ [Next]_vars =>
        [\A a \in Accounts :
            account[a] # "gone" /\ account'[a] = "gone" => account[a] = "overdue" \/ a \in raced]_vars
<1> SUFFICES ASSUME TInv, ChosenAreOverdue, [Next]_vars, NEW a \in Accounts,
                    account[a] # "gone", account'[a] = "gone"
             PROVE  account[a] = "overdue" \/ a \in raced
  OBVIOUS
<1>1. RemoveAccounts
  <2>1. ~UNCHANGED account
    OBVIOUS
  <2>2. ASSUME NEW b \in Accounts
        PROVE  ~RequestAccountDeletion(b) /\ ~CancelAccountDeletion(b) /\ ~GraceEnds(b)
    BY DEF RequestAccountDeletion, CancelAccountDeletion, GraceEnds, TInv, TypeOK
  <2>3. ASSUME NEW o \in Objects
        PROVE  ~UploadLogo(o) /\ ~UnlinkLogo(o) /\ ~RelinkLogo(o)
    BY <2>1 DEF UploadLogo, UnlinkLogo, RelinkLogo
  <2>4. ASSUME NEW p \in Counted
        PROVE  ~RowJoins(p) /\ ~RowLeaves(p)
    BY <2>1 DEF RowJoins, RowLeaves
  <2>5. ~UNCHANGED vars /\ ~StartPurge /\ ~StatementFails /\ ~PurgeDies
    BY <2>1 DEF vars, data, StartPurge, StatementFails, PurgeDies
  <2>6. PurgeStep => RemoveAccounts
    BY <2>1 DEF PurgeStep, data, DeleteChunk, SelectAccounts, SelectRows, UpdateRow,
                RevertPlan, CountRemaining, ListLogos, DeleteLogos, FinishPurge
  <2>7. QED
    BY <2>2, <2>3, <2>4, <2>5, <2>6 DEF Next, UserStep
<1>2. purge.pc = "removing" /\ a \in purge.chosen
  BY <1>1 DEF RemoveAccounts, In
<1>3. QED
  BY <1>2 DEF ChosenAreOverdue

-----------------------------------------------------------------------------
(* The theorems *)

\* Variables keep their types, and a run keeps in hand what its step needs.
THEOREM RetentionInvariant == Spec => []TInv
<1>1. Init => TInv
  <2> SUFFICES ASSUME Init
               PROVE  TInv
    OBVIOUS
  <2>1. Overdue = {} /\ IsFiniteSet(Overdue)
    BY FS_EmptySet DEF Init, Overdue
  <2>2. purge \in Purge /\ purge.pc = "idle" /\ purge.at = 1 /\ purge.plan = 1
    BY IdleFacts DEF Init
  <2>3. TypeOK
    BY <2>2, ConstantTypes DEF Init, TypeOK
  <2>4. purge.at <= Len(Categories) => purge.plan \in 1..Plans[Category]
    BY <2>2, FirstPass, ConstantTypes DEF Category
  <2>5. QED
    BY <2>1, <2>2, <2>3, <2>4 DEF TInv, AtCategory, SelectionsAreWhole
<1>2. QED
  BY <1>1, TInvStep, PTL DEF Spec

\* What a pass reports when it ends is so, whatever the order, the sizes and the plans,
\* the statements that fail, the rows and plans that change and the users who act
\* beside it.
THEOREM ResultsAreTruthfulHolds == Spec => ResultsAreTruthful
<1>1. ResultsAreTruthful <=> [][PassEnds => ReportIsSo]_vars
  BY DEF ResultsAreTruthful, ReportIsSo
<1>2. QED
  BY <1>1, RetentionInvariant, ReportStep, PTL DEF Spec

\* No account is deleted that was not overdue, unless its user asked for
\* something else while a run had already selected it.
THEOREM OnlyRacesDeleteKeptAccountsHolds == Spec => OnlyRacesDeleteKeptAccounts
<1>1. Init => ChosenAreOverdue
  BY IdleFacts DEF Init, ChosenAreOverdue
<1>2. QED
  BY <1>1, RetentionInvariant, ChosenStep, OnlyRacesStep, PTL DEF Spec,
     OnlyRacesDeleteKeptAccounts

-----------------------------------------------------------------------------
(* Operational alerts: the inductive invariant *)

\* Evaluations that are under way together know it.
OverlapsAreKnown ==
    \A v, w \in Evaluations :
        v # w /\ Under(v) /\ Under(w) => evaluation[v].overlapped

\* What an evaluation by itself has read covers the alerts whose condition has
\* held since they were opened; what it has not found is none of them.
ReadsAreCurrent ==
    \A v \in Evaluations : ~evaluation[v].overlapped =>
        /\ evaluation[v].pc \in {"signals", "open"} =>
                held \cap {"missed", "stuck"} \subseteq evaluation[v].candidates
        /\ evaluation[v].pc = "open" => held \subseteq evaluation[v].candidates
        /\ evaluation[v].pc \in {"writing", "resolving"} => evaluation[v].gone \cap held = {}
        /\ evaluation[v].pc = "writing" => evaluation[v].gone \cap evaluation[v].candidates = {}

AlertsInv ==
    AlertsTypeOK /\ held \subseteq Holding /\ OverlapsAreKnown /\ ReadsAreCurrent

-----------------------------------------------------------------------------
(* Lemmas *)

LEMMA KeyFacts ==
    /\ KeySet = {"missed", "stuck", "degraded"}
    /\ DOMAIN Keys = 1..3
    /\ \A i \in DOMAIN Keys : Keys[i] \in KeySet
<1>1. /\ DOMAIN Keys = 1..3
      /\ Keys[1] = "missed" /\ Keys[2] = "stuck" /\ Keys[3] = "degraded"
  BY DEF Keys
<1>2. 1..3 = {1, 2, 3}
  OBVIOUS
<1>3. QED
  BY <1>1, <1>2 DEF KeySet

LEMMA ConditionTypes ==
    ASSUME NEW rows
    PROVE  /\ Anomalies(rows) \subseteq KeySet
           /\ Signals(rows) \subseteq KeySet
           /\ (Anomalies(rows) \cup Signals(rows)) \cap {"missed", "stuck"}
                  \subseteq Anomalies(rows)
           /\ (Anomalies(rows) \cup Signals(rows)) \cap {"degraded"}
                  \subseteq Signals(rows)
  BY KeyFacts DEF Anomalies, Signals

\* The history keeps no more than it had, but for what is opened.
LEMMA HeldFacts ==
    ASSUME Remembered
    PROVE  /\ held' \subseteq open' /\ held' \subseteq Holding'
           /\ open' \subseteq open => held' \subseteq held
           /\ held' \subseteq held \cup (open' \ open)
  BY DEF Remembered

\* What an evaluation by itself knows stays so while nothing is opened and it
\* is left alone.
LEMMA StillCurrent ==
    ASSUME AlertsInv, held' \subseteq held,
           \A v \in Evaluations : evaluation'[v] = evaluation[v]
               \/ evaluation'[v].overlapped \/ evaluation'[v].pc \in {"idle", "runs"}
    PROVE  ReadsAreCurrent'
  BY DEF AlertsInv, ReadsAreCurrent

LEMMA BeginsKeeps ==
    ASSUME AlertsInv, NEW v, v \in Evaluations => ~Under(v), Begins(v), held' \subseteq held
    PROVE  /\ evaluation' \in [Evaluations -> Evaluation]
           /\ OverlapsAreKnown' /\ ReadsAreCurrent'
<1>1. evaluation \in [Evaluations -> Evaluation]
  BY DEF AlertsInv, AlertsTypeOK
<1>2. PICK o \in BOOLEAN : o = (\E u \in Evaluations : Under(u))
  OBVIOUS
<1>3. /\ NoEvaluation \in Evaluation
      /\ [NoEvaluation EXCEPT !.pc = "runs", !.overlapped = o] \in Evaluation
      /\ [NoEvaluation EXCEPT !.pc = "runs", !.overlapped = o].pc = "runs"
      /\ [NoEvaluation EXCEPT !.pc = "runs", !.overlapped = o].overlapped = o
  BY DEF NoEvaluation, Evaluation
<1>4. /\ v \in Evaluations =>
            evaluation'[v] = [NoEvaluation EXCEPT !.pc = "runs", !.overlapped = o]
      /\ \A w \in Evaluations : w # v =>
            evaluation'[w] = IF Under(w) THEN [evaluation[w] EXCEPT !.overlapped = TRUE]
                             ELSE evaluation[w]
      /\ evaluation' = [w \in Evaluations |-> evaluation'[w]]
  BY <1>2 DEF Begins
<1>5. ASSUME NEW w \in Evaluations, w # v
      PROVE  /\ evaluation'[w] \in Evaluation
             /\ evaluation'[w].pc = evaluation[w].pc
             /\ Under(w) => evaluation'[w].overlapped
             /\ ~Under(w) => evaluation'[w] = evaluation[w]
  BY <1>1, <1>4, <1>5 DEF Evaluation
<1>6. evaluation' \in [Evaluations -> Evaluation]
  BY <1>3, <1>4, <1>5
<1>7. ASSUME NEW u \in Evaluations, NEW w \in Evaluations, u # w, Under(u)', Under(w)'
      PROVE  evaluation'[u].overlapped
  <2>1. CASE u = v
    <3>1. Under(w)
      BY <1>5, <1>7, <2>1 DEF Under
    <3>2. QED
      BY <1>2, <1>3, <1>4, <2>1, <3>1
  <2>2. CASE u # v
    BY <1>5, <1>7, <2>2 DEF Under
  <2>3. QED
    BY <2>1, <2>2
<1>8. ASSUME NEW w \in Evaluations
      PROVE  evaluation'[w] = evaluation[w] \/ evaluation'[w].overlapped
                 \/ evaluation'[w].pc \in {"idle", "runs"}
  BY <1>3, <1>4, <1>5
<1>9. ReadsAreCurrent'
  BY <1>8, StillCurrent
<1>10. QED
  BY <1>6, <1>7, <1>9 DEF OverlapsAreKnown

\* A step of one evaluation, to what it is then.
LEMMA StepKeeps ==
    ASSUME AlertsInv, NEW v \in Evaluations, NEW e \in Evaluation,
           evaluation' = [evaluation EXCEPT ![v] = e], held' \subseteq held,
           e.pc # "idle" => Under(v) /\ e.overlapped = evaluation[v].overlapped,
           ~e.overlapped =>
               /\ e.pc \in {"signals", "open"} => held' \cap {"missed", "stuck"} \subseteq e.candidates
               /\ e.pc = "open" => held' \subseteq e.candidates
               /\ e.pc \in {"writing", "resolving"} => e.gone \cap held' = {}
               /\ e.pc = "writing" => e.gone \cap e.candidates = {}
    PROVE  /\ evaluation' \in [Evaluations -> Evaluation]
           /\ OverlapsAreKnown' /\ ReadsAreCurrent'
<1>1. /\ evaluation' \in [Evaluations -> Evaluation] /\ evaluation'[v] = e
      /\ \A w \in Evaluations : w # v => evaluation'[w] = evaluation[w]
  BY DEF AlertsInv, AlertsTypeOK
<1>2. OverlapsAreKnown'
  BY <1>1 DEF AlertsInv, OverlapsAreKnown, Under
<1>3. ReadsAreCurrent'
  BY <1>1 DEF AlertsInv, ReadsAreCurrent
<1>4. QED
  BY <1>1, <1>2, <1>3

\* An evaluation that opens alerts has the others know of it.
LEMMA WriteKeeps ==
    ASSUME AlertsInv, NEW v \in Evaluations, WriteCandidates(v), Remembered
    PROVE  /\ evaluation' \in [Evaluations -> Evaluation]
           /\ OverlapsAreKnown' /\ ReadsAreCurrent' /\ open' \subseteq KeySet
<1>1. evaluation \in [Evaluations -> Evaluation] /\ open \subseteq KeySet
  BY DEF AlertsInv, AlertsTypeOK
<1>2. Written(v) \subseteq evaluation[v].candidates
  BY DEF Written, Inserted
<1>3. PICK e : e = IF RefusedAt(v) = {}
                   THEN [evaluation[v] EXCEPT !.pc = "resolving", !.candidates = {}]
                   ELSE NoEvaluation
  OBVIOUS
<1>4. /\ evaluation' = [evaluation EXCEPT ![v] = e] /\ evaluation[v].pc = "writing"
      /\ open' = open \cup Written(v)
  BY <1>3 DEF WriteCandidates
<1>5. e \in Evaluation /\ (e = NoEvaluation \/
          (e.pc = "resolving" /\ e.overlapped = evaluation[v].overlapped /\ e.gone = evaluation[v].gone))
  BY <1>1, <1>3 DEF NoEvaluation, Evaluation
<1>6. /\ evaluation' \in [Evaluations -> Evaluation] /\ evaluation'[v] = e
      /\ \A w \in Evaluations : w # v => evaluation'[w] = evaluation[w]
  BY <1>1, <1>4, <1>5
<1>7. NoEvaluation.pc = "idle"
  BY DEF NoEvaluation
<1>8. OverlapsAreKnown'
  BY <1>4, <1>5, <1>6, <1>7 DEF AlertsInv, OverlapsAreKnown, Under
<1>9. ASSUME NEW w \in Evaluations, w # v, ~evaluation'[w].overlapped
      PROVE  evaluation'[w].pc = "idle"
  BY <1>4, <1>6, <1>9 DEF AlertsInv, OverlapsAreKnown, Under
<1>10. ~e.overlapped /\ e.pc = "resolving" => e.gone \cap held' = {}
  <2> SUFFICES ASSUME ~e.overlapped, e.pc = "resolving"
               PROVE  e.gone \cap held' = {}
    OBVIOUS
  <2>1. /\ evaluation[v].gone \cap held = {}
        /\ evaluation[v].gone \cap evaluation[v].candidates = {}
        /\ e.gone = evaluation[v].gone
    BY <1>4, <1>5, <1>7 DEF AlertsInv, ReadsAreCurrent
  <2>2. held' \subseteq held \cup Written(v)
    BY <1>4, HeldFacts
  <2>3. QED
    BY <1>2, <2>1, <2>2
<1>11. ReadsAreCurrent'
  BY <1>5, <1>6, <1>7, <1>9, <1>10 DEF ReadsAreCurrent
<1>12. open' \subseteq KeySet
  BY <1>1, <1>2, <1>4 DEF Evaluation
<1>13. QED
  BY <1>6, <1>8, <1>11, <1>12

LEMMA ResolveKeeps ==
    ASSUME AlertsInv, NEW v \in Evaluations, ResolveGone(v), Remembered
    PROVE  /\ evaluation' \in [Evaluations -> Evaluation]
           /\ OverlapsAreKnown' /\ ReadsAreCurrent' /\ open' \subseteq open
<1>1. evaluation \in [Evaluations -> Evaluation]
  BY DEF AlertsInv, AlertsTypeOK
<1>2. open' \subseteq open /\ held' \subseteq held
  BY HeldFacts DEF ResolveGone
<1>3. NoEvaluation \in Evaluation /\ NoEvaluation.pc = "idle"
  BY DEF NoEvaluation, Evaluation
<1>4. /\ evaluation' = [w \in Evaluations |-> evaluation'[w]]
      /\ evaluation'[v] = NoEvaluation
      /\ \A w \in Evaluations : w # v =>
            evaluation'[w] = [evaluation[w] EXCEPT !.gone = @ \ evaluation[v].gone]
  BY DEF ResolveGone
<1>5. ASSUME NEW w \in Evaluations, w # v
      PROVE  /\ evaluation'[w] \in Evaluation
             /\ evaluation'[w].pc = evaluation[w].pc
             /\ evaluation'[w].overlapped = evaluation[w].overlapped
             /\ evaluation'[w].candidates = evaluation[w].candidates
             /\ evaluation'[w].gone \subseteq evaluation[w].gone
  BY <1>1, <1>4, <1>5 DEF Evaluation
<1>6. evaluation' \in [Evaluations -> Evaluation]
  BY <1>3, <1>4, <1>5
<1>7. OverlapsAreKnown'
  BY <1>3, <1>4, <1>5 DEF AlertsInv, OverlapsAreKnown, Under
<1>8. ReadsAreCurrent'
  BY <1>2, <1>3, <1>4, <1>5 DEF AlertsInv, ReadsAreCurrent
<1>9. QED
  BY <1>2, <1>6, <1>7, <1>8

\* The rows stay a sequence of runs, and no longer than the rows that are read.
LEMMA RunsStep ==
    ASSUME AlertsTypeOK, [AlertsNext]_alertsVars
    PROVE  runs' \in Seq(Run) /\ Len(runs') <= Window
<1>1. /\ runs \in Seq(Run) /\ Len(runs) \in Nat /\ Len(runs) <= Window
      /\ DOMAIN runs = 1..Len(runs) /\ Window \in Nat \ {0}
      /\ \A i \in 1..Len(runs) : runs[i] \in Run
  BY AlertsAssumption DEF AlertsTypeOK
<1>2. ASSUME NEW n \in Nat, n <= Window, runs' \in [1..n -> Run]
      PROVE  runs' \in Seq(Run) /\ Len(runs') <= Window
  BY <1>2, <1>1
<1>3. ASSUME NEW i \in DOMAIN runs, NEW run \in Run, runs' = [runs EXCEPT ![i] = run]
      PROVE  runs' \in Seq(Run) /\ Len(runs') <= Window
  <2>1. runs' \in [1..Len(runs) -> Run]
    BY <1>1, <1>3
  <2>2. QED
    BY <1>1, <1>2, <2>1
<1>4. CASE UNCHANGED runs
  BY <1>1, <1>4
<1>5. CASE runs' = With(NewRun, runs)
  <2> DEFINE n == IF Len(runs) < Window THEN Len(runs) + 1 ELSE Window
  <2>1. n \in Nat /\ n <= Window /\ n <= Len(runs) + 1
    BY <1>1
  <2>2. NewRun \in Run
    BY DEF NewRun, Run
  <2>3. ASSUME NEW i \in 1..n, i # 1
        PROVE  /\ runs[i - 1] \in Run
               /\ [runs[i - 1] EXCEPT !.status = "completed"] \in Run
    <3>1. i - 1 \in 1..Len(runs)
      BY <1>1, <2>1, <2>3
    <3>2. runs[i - 1] \in Run
      BY <1>1, <3>1
    <3>3. QED
      BY <3>2 DEF Run
  <2>4. runs' \in [1..n -> Run]
    BY <1>5, <2>2, <2>3 DEF With
  <2>5. QED
    BY <1>2, <2>1, <2>4
<1>6. CASE StartJobRun
  BY <1>4, <1>5, <1>6 DEF StartJobRun
<1>7. CASE JobEnds
  <2>1. PICK i \in DOMAIN runs :
            \/ \E status \in {"completed", "completed_with_errors"} : FinishJobRun(i, status)
            \/ JobDies(i)
    BY <1>7 DEF JobEnds
  <2>2. runs[i] \in Run
    BY <1>1
  <2>3. ASSUME NEW status \in {"completed", "completed_with_errors"}, FinishJobRun(i, status)
        PROVE  runs' \in Seq(Run) /\ Len(runs') <= Window
    <3>1. PICK run : run = [runs[i] EXCEPT !.status = status, !.alive = FALSE]
      OBVIOUS
    <3>2. run \in Run
      BY <2>2, <3>1 DEF Run
    <3>3. runs' = [runs EXCEPT ![i] = run]
      BY <1>1, <2>3, <3>1 DEF FinishJobRun
    <3>4. QED
      BY <1>3, <3>2, <3>3
  <2>4. CASE JobDies(i)
    <3>1. PICK run : run = [runs[i] EXCEPT !.alive = FALSE]
      OBVIOUS
    <3>2. run \in Run
      BY <2>2, <3>1 DEF Run
    <3>3. runs' = [runs EXCEPT ![i] = run]
      BY <1>1, <2>4, <3>1 DEF JobDies
    <3>4. QED
      BY <1>3, <3>2, <3>3
  <2>5. QED
    BY <2>1, <2>3, <2>4
<1>8. CASE Tick
  <2>1. ASSUME NEW i \in 1..Len(runs)
        PROVE  [runs[i] EXCEPT !.age = IF @ < 2 THEN @ + 1 ELSE 2] \in Run
    <3>1. runs[i].age \in 0..2
      BY <1>1 DEF Run
    <3>2. PICK a \in 0..2 : a = IF runs[i].age < 2 THEN runs[i].age + 1 ELSE 2
      BY <3>1
    <3>3. [runs[i] EXCEPT !.age = a] \in Run
      BY <1>1 DEF Run
    <3>4. QED
      BY <3>2, <3>3
  <2>2. runs' \in [1..Len(runs) -> Run]
    BY <1>1, <1>8, <2>1 DEF Tick
  <2>3. QED
    BY <1>1, <1>2, <2>2
<1>9. QED
  BY <1>4, <1>6, <1>7, <1>8
     DEF AlertsNext, alertsVars, CronFires, AdminEvaluates, EvaluationStep,
         EvaluationFails, ReadRuns, ReadSignals, ReadOpen,
         WriteCandidates, ResolveGone

LEMMA KillsStep ==
    ASSUME AlertsTypeOK, [AlertsNext]_alertsVars
    PROVE  due' \in BOOLEAN /\ kills' \in 0..MaxKills
<1>1. due \in BOOLEAN /\ kills \in 0..MaxKills /\ MaxKills \in Nat
  BY AlertsAssumption DEF AlertsTypeOK
<1>2. (due' \in BOOLEAN \/ due' = due)
        /\ (kills' = kills
               \/ (kills < MaxKills /\ kills' = kills + 1))
  BY DEF AlertsNext, alertsVars, CronFires, StartJobRun, JobEnds,
         FinishJobRun, JobDies, Tick, AdminEvaluates,
         EvaluationStep, EvaluationFails, ReadRuns, ReadSignals,
         ReadOpen, WriteCandidates, ResolveGone
<1>3. QED
  BY <1>1, <1>2

LEMMA AlertsStep == AlertsInv /\ [AlertsNext]_alertsVars => AlertsInv'
<1> SUFFICES ASSUME AlertsInv, [AlertsNext]_alertsVars
             PROVE  AlertsInv'
  OBVIOUS
<1>a. /\ evaluation \in [Evaluations -> Evaluation] /\ open \subseteq KeySet
      /\ held \subseteq open /\ held \subseteq Holding
  BY DEF AlertsInv, AlertsTypeOK
<1>b. NoEvaluation \in Evaluation /\ NoEvaluation.pc = "idle"
  BY DEF NoEvaluation, Evaluation
<1>c. CASE /\ Remembered /\ open' \subseteq KeySet
           /\ evaluation' \in [Evaluations -> Evaluation] /\ OverlapsAreKnown' /\ ReadsAreCurrent'
  <2>1. AlertsTypeOK'
    BY <1>c, HeldFacts, RunsStep, KillsStep DEF AlertsInv, AlertsTypeOK
  <2>2. held' \subseteq Holding'
    BY <1>c, HeldFacts
  <2>3. QED
    BY <1>c, <2>1, <2>2 DEF AlertsInv
<1>d. CASE Remembered /\ UNCHANGED <<open, evaluation>>
  <2>1. held' \subseteq held
    BY <1>d, HeldFacts
  <2>2. OverlapsAreKnown'
    BY <1>d DEF AlertsInv, OverlapsAreKnown, Under
  <2>3. ReadsAreCurrent'
    BY <1>d, <2>1, StillCurrent
  <2>4. QED
    BY <1>a, <1>c, <1>d, <2>2, <2>3
<1>1. CASE CronFires /\ Remembered
  <2>1. ~Under(Daily) /\ Begins(Daily) /\ open' = open
    BY <1>1 DEF CronFires
  <2>2. held' \subseteq held
    BY <1>1, <2>1, HeldFacts
  <2>3. QED
    BY <1>1, <1>a, <1>c, <2>1, <2>2, BeginsKeeps
<1>2. ASSUME NEW v \in Evaluations, AdminEvaluates(v), Remembered
      PROVE  AlertsInv'
  <2>1. ~Under(v) /\ Begins(v) /\ open' = open
    BY <1>2 DEF AdminEvaluates
  <2>2. held' \subseteq held
    BY <1>2, <2>1, HeldFacts
  <2>3. QED
    BY <1>2, <1>a, <1>c, <2>1, <2>2, BeginsKeeps
<1>3. CASE (StartJobRun \/ JobEnds \/ Tick) /\ Remembered
  BY <1>3, <1>d DEF StartJobRun, JobEnds, FinishJobRun, JobDies, Tick
<1>4. ASSUME NEW v \in Evaluations, ReadRuns(v), Remembered
      PROVE  AlertsInv'
  <2>1. PICK t \in BOOLEAN : t = (\E i, j \in StuckRows(runs) : i # j)
    OBVIOUS
  <2>2. PICK e : e = [evaluation[v] EXCEPT !.pc = "signals", !.candidates = Anomalies(runs),
                                          !.twins = t]
    OBVIOUS
  <2>3. /\ evaluation[v].pc = "runs" /\ evaluation' = [evaluation EXCEPT ![v] = e]
        /\ open' = open /\ runs' = runs
    BY <1>4, <1>a, <2>1, <2>2 DEF ReadRuns
  <2>4. /\ e \in Evaluation /\ e.pc = "signals" /\ e.candidates = Anomalies(runs)
        /\ e.overlapped = evaluation[v].overlapped
    BY <1>a, <2>2, ConditionTypes DEF Evaluation
  <2>5. held' \subseteq held /\ held' \cap {"missed", "stuck"} \subseteq e.candidates
    BY <1>4, <1>a, <2>3, <2>4, HeldFacts, ConditionTypes DEF Holding
  <2>6. QED
    BY <1>4, <1>a, <1>c, <2>3, <2>4, <2>5, StepKeeps DEF Under
<1>5. ASSUME NEW v \in Evaluations, ReadSignals(v), Remembered
      PROVE  AlertsInv'
  <2>1. PICK e : e = [evaluation[v] EXCEPT !.pc = "open", !.candidates = @ \cup Signals(runs)]
    OBVIOUS
  <2>2. /\ evaluation[v].pc = "signals" /\ evaluation' = [evaluation EXCEPT ![v] = e]
        /\ open' = open /\ runs' = runs
    BY <1>5, <1>a, <2>1 DEF ReadSignals
  <2>3. /\ e \in Evaluation /\ e.pc = "open" /\ e.overlapped = evaluation[v].overlapped
        /\ e.candidates = evaluation[v].candidates \cup Signals(runs)
    BY <1>a, <2>1, ConditionTypes DEF Evaluation
  <2>4. held' \subseteq held
    BY <1>5, <2>2, HeldFacts
  <2>5. ~e.overlapped => held' \subseteq e.candidates
    <3>1. ~e.overlapped => held \cap {"missed", "stuck"} \subseteq evaluation[v].candidates
      BY <2>2, <2>3 DEF AlertsInv, ReadsAreCurrent
    <3>2. held \cap {"degraded"} \subseteq Signals(runs)
      BY <1>a, ConditionTypes DEF Holding
    <3>3. held \subseteq {"missed", "stuck", "degraded"}
      BY <1>a, KeyFacts
    <3>4. QED
      BY <2>3, <2>4, <3>1, <3>2, <3>3
  <2>6. QED
    BY <1>5, <1>a, <1>c, <2>2, <2>3, <2>4, <2>5, StepKeeps DEF Under
<1>6. ASSUME NEW v \in Evaluations, ReadOpen(v), Remembered
      PROVE  AlertsInv'
  <2>1. PICK e : e = [evaluation[v] EXCEPT !.pc = "writing", !.candidates = @ \ open,
                                          !.gone = Gone(v)]
    OBVIOUS
  <2>2. /\ evaluation[v].pc = "open" /\ evaluation' = [evaluation EXCEPT ![v] = e]
        /\ open' = open
    BY <1>6, <1>a, <2>1 DEF ReadOpen
  <2>3. /\ e \in Evaluation /\ e.pc = "writing" /\ e.overlapped = evaluation[v].overlapped
        /\ e.candidates = evaluation[v].candidates \ open
        /\ e.gone = open \ evaluation[v].candidates
    BY <1>a, <2>1 DEF Evaluation, Gone
  <2>4. held' \subseteq held
    BY <1>6, <2>2, HeldFacts
  <2>5. ~e.overlapped => e.gone \cap held' = {}
    BY <2>2, <2>3, <2>4 DEF AlertsInv, ReadsAreCurrent
  <2>6. QED
    BY <1>6, <1>a, <1>c, <2>2, <2>3, <2>4, <2>5, StepKeeps DEF Under
<1>7. ASSUME NEW v \in Evaluations, WriteCandidates(v), Remembered
      PROVE  AlertsInv'
  BY <1>7, <1>c, WriteKeeps
<1>8. ASSUME NEW v \in Evaluations, ResolveGone(v), Remembered
      PROVE  AlertsInv'
  BY <1>8, <1>a, <1>c, ResolveKeeps
<1>9. ASSUME NEW v \in Evaluations, EvaluationFails(v), Remembered
      PROVE  AlertsInv'
  <2>1. evaluation' = [evaluation EXCEPT ![v] = NoEvaluation] /\ open' = open
    BY <1>9 DEF EvaluationFails
  <2>2. held' \subseteq held
    BY <1>9, <2>1, HeldFacts
  <2>3. QED
    BY <1>9, <1>a, <1>b, <1>c, <2>1, <2>2, StepKeeps
<1>10. CASE UNCHANGED alertsVars
  BY <1>10 DEF alertsVars, AlertsInv, AlertsTypeOK,
               OverlapsAreKnown, ReadsAreCurrent, Under, Holding
<1>11. QED
  BY <1>1, <1>2, <1>3, <1>4, <1>5, <1>6, <1>7, <1>8, <1>9, <1>10
     DEF AlertsNext, EvaluationStep

\* Only the UPDATEs at the end of an evaluation close alerts.
LEMMA OnlyResolveCloses ==
    ASSUME AlertsInv, [AlertsNext]_alertsVars, NEW k \in open \ open', k \in held
    PROVE  \E v \in Evaluations : evaluation[v].pc = "resolving" /\ evaluation[v].overlapped
<1>1. ~(open \subseteq open')
  OBVIOUS
<1>2. \E v \in Evaluations : ResolveGone(v)
  BY <1>1 DEF AlertsNext, alertsVars, CronFires, StartJobRun, JobEnds,
              FinishJobRun, JobDies, Tick, AdminEvaluates,
              EvaluationStep, EvaluationFails, ReadRuns, ReadSignals,
              ReadOpen, WriteCandidates
<1>3. PICK v \in Evaluations : ResolveGone(v)
  BY <1>2
<1>4. evaluation[v].pc = "resolving" /\ k \in evaluation[v].gone
  BY <1>3 DEF ResolveGone
<1>5. QED
  BY <1>4 DEF AlertsInv, ReadsAreCurrent

\* Variables keep their types; evaluations know of each other, and what one by
\* itself has read is still so.
THEOREM AlertsInvariant == AlertsSpec => []AlertsInv
<1>1. AlertsInit => AlertsInv
  <2> SUFFICES ASSUME AlertsInit
               PROVE  AlertsInv
    OBVIOUS
  <2>1. runs \in Seq(Run) /\ Len(runs) = 0
    BY DEF AlertsInit
  <2>2. NoEvaluation \in Evaluation
    BY DEF NoEvaluation, Evaluation
  <2>3. AlertsTypeOK
    <3>1. Window \in Nat /\ MaxKills \in Nat
      BY AlertsAssumption
    <3>2. evaluation \in [Evaluations -> Evaluation]
      BY <2>2 DEF AlertsInit
    <3>3. Len(runs) <= Window /\ kills \in 0..MaxKills
      BY <2>1, <3>1 DEF AlertsInit
    <3>4. QED
      BY <2>1, <3>2, <3>3 DEF AlertsInit, AlertsTypeOK
  <2>4. \A v \in Evaluations : evaluation[v].pc = "idle"
    BY DEF AlertsInit, NoEvaluation
  <2>5. QED
    BY <2>3, <2>4 DEF AlertsInit, AlertsInv, OverlapsAreKnown, ReadsAreCurrent,
                      Under
<1>2. QED
  BY <1>1, AlertsStep, PTL DEF AlertsSpec

\* An alert whose condition has not lapsed is resolved only by evaluations that
\* overlapped, for any number of them, of rows and of kills.
THEOREM AlertsOutlastTheirCauseHolds == AlertsSpec => AlertsOutlastTheirCause
<1>1. AlertsInv /\ [AlertsNext]_alertsVars =>
          [\A k \in open \ open' :
              k \in held => \E v \in Evaluations :
                  evaluation[v].pc = "resolving" /\ evaluation[v].overlapped]_alertsVars
  BY OnlyResolveCloses
<1>2. QED
  BY <1>1, AlertsInvariant, PTL DEF AlertsSpec, AlertsOutlastTheirCause
=============================================================================
