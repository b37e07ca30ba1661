--------------------------- MODULE OperationalAlerts ---------------------------
(***************************************************************************)
(* The rows of scheduled_job_runs the cron's jobs leave behind, and the    *)
(* evaluation that turns them, and other signals, into operational alerts: *)
(* one open alert for each condition that holds.                           *)
(*                                                                         *)
(* The cron starts the jobs and an evaluation beside them; an admin may    *)
(* start another at any time.  An evaluation reads what it needs one       *)
(* SELECT after the other, decides, and only then writes.                  *)
(*                                                                         *)
(* One job is enough, the retention purge: the scheduler's conditions look *)
(* at each job by itself.  The other conditions are left out: overlapping  *)
(* runs, long executions and failure rates are read and written as stuck   *)
(* runs are, counts of recent failures as the state of the last run.       *)
(***************************************************************************)
EXTENDS Naturals, Sequences

CONSTANTS
    Evaluations,    \* evaluations that may overlap
    Daily,          \* the cron's own among them
    Window          \* rows detectSchedulerAnomalies reads

CONSTANT MaxKills   \* bound of the model: killed evaluations

ASSUME AlertsAssumption ==
    Daily \in Evaluations /\ Window \in Nat \ {0} /\ MaxKills \in Nat

VARIABLES
    runs,           \* scheduled_job_runs, newest first, those still read
    due,            \* the cron has come, the job has not started
    open,           \* alert keys with an open row
    evaluation,     \* evaluation[v]
    held,           \* history: open keys whose condition never lapsed since
    kills

alertsVars == <<runs, due, open, evaluation, held, kills>>

-----------------------------------------------------------------------------
(* Runs and conditions *)

\* age: minutes; past STUCK_JOB_THRESHOLD_MS; past twice EXPECTED_INTERVAL_MS.
\* alive: the invocation has not been killed.
Run == [status: {"running", "completed", "completed_with_errors"},
        age: 0..2, alive: BOOLEAN]

\* In the order computeAlertCandidates lists them.
Keys == <<"missed", "stuck", "degraded">>
KeySet == {Keys[i] : i \in DOMAIN Keys}

StuckRows(rows) == {i \in DOMAIN rows : rows[i].status = "running" /\ rows[i].age > 0}

\* detectSchedulerAnomalies.
Anomalies(rows) ==
    {k \in {"missed", "stuck"} :
        \/ k = "missed" /\ rows # <<>> /\ rows[1].age > 1
        \/ k = "stuck" /\ StuckRows(rows) # {}}

\* getComponentHealth: the last run.
Signals(rows) ==
    {k \in {"degraded"} : rows # <<>> /\ rows[1].status = "completed_with_errors"}

\* The conditions that hold.
Holding == Anomalies(runs) \cup Signals(runs)

\* candidates: their keys; twins: two of them have one key; gone: the rows still
\* open that are to be resolved; overlapped: another evaluation was under way at
\* some time.  Once the open rows are read, candidates are those without one.
Evaluation ==
    [pc: {"idle", "runs", "signals", "open", "writing", "resolving"},
     candidates: SUBSET KeySet, twins: BOOLEAN, gone: SUBSET KeySet, overlapped: BOOLEAN]

NoEvaluation ==
    [pc |-> "idle", candidates |-> {}, twins |-> FALSE, gone |-> {}, overlapped |-> FALSE]

AlertsTypeOK ==
    /\ runs \in Seq(Run) /\ Len(runs) <= Window
    /\ due \in BOOLEAN
    /\ open \subseteq KeySet
    /\ evaluation \in [Evaluations -> Evaluation]
    /\ held \subseteq open
    /\ kills \in 0..MaxKills

Under(v) == evaluation[v].pc # "idle"
NoneUnder == \A v \in Evaluations : ~Under(v)

\* The history that goes with every step.
Remembered == held' = {k \in open' : (k \in held \/ k \notin open) /\ k \in Holding'}

-----------------------------------------------------------------------------
(* The cron and its job *)

\* Evaluation v begins, maybe beside another.
Begins(v) ==
    evaluation' = [w \in Evaluations |->
        IF w = v THEN [NoEvaluation EXCEPT !.pc = "runs",
                           !.overlapped = \E u \in Evaluations : Under(u)]
        ELSE IF Under(w) THEN [evaluation[w] EXCEPT !.overlapped = TRUE] ELSE evaluation[w]]

\* scheduled: a day after the last time.
CronFires ==
    /\ ~due /\ ~Under(Daily)
    /\ \A i \in DOMAIN runs : runs[i].age = 2
    /\ due' = TRUE
    /\ Begins(Daily)
    /\ UNCHANGED <<runs, open, kills>>

NewRun == [status |-> "running", age |-> 0, alive |-> TRUE]

\* The rows that are read, once a run is added.  Of the runs before the last two
\* it only matters which still say "running".
With(row, rows) ==
    LET Older(i) == IF i > 2 /\ rows[i - 1].status # "running"
                    THEN [rows[i - 1] EXCEPT !.status = "completed"] ELSE rows[i - 1]
    IN  [i \in 1..(IF Len(rows) < Window THEN Len(rows) + 1 ELSE Window) |->
            IF i = 1 THEN row ELSE Older(i)]

\* startJobRun; or the invocation is killed before.
StartJobRun ==
    /\ due
    /\ due' = FALSE
    /\ runs' = With(NewRun, runs) \/ UNCHANGED runs
    /\ UNCHANGED <<open, evaluation, kills>>

\* finishJobRun.
FinishJobRun(i, status) ==
    /\ runs[i].status = "running" /\ runs[i].alive
    /\ runs' = [runs EXCEPT ![i].status = status, ![i].alive = FALSE]
    /\ UNCHANGED <<due, open, evaluation, kills>>

\* The invocation is killed; its row stays as it is.
JobDies(i) ==
    /\ runs[i].alive
    /\ runs' = [runs EXCEPT ![i].alive = FALSE]
    /\ UNCHANGED <<due, open, evaluation, kills>>

\* Time passes; an evaluation takes no time worth the name, and the platform
\* lets no invocation last for hours.
Tick ==
    /\ NoneUnder /\ ~due
    /\ \E i \in DOMAIN runs : runs[i].age < 2
    /\ \A i \in DOMAIN runs : runs[i].alive => runs[i].age = 0
    /\ runs' = [i \in DOMAIN runs |-> [runs[i] EXCEPT !.age = IF @ < 2 THEN @ + 1 ELSE 2]]
    /\ UNCHANGED <<due, open, evaluation, kills>>

-----------------------------------------------------------------------------
(* evaluateOperationalAlerts *)

\* POST /api/admin/operations/evaluate.
AdminEvaluates(v) ==
    /\ v # Daily /\ ~Under(v)
    /\ Begins(v)
    /\ UNCHANGED <<runs, due, open, kills>>

\* computeAlertCandidates: the SELECT of detectSchedulerAnomalies, the first sent.
ReadRuns(v) ==
    /\ evaluation[v].pc = "runs"
    /\ evaluation' = [evaluation EXCEPT ![v].pc = "signals", ![v].candidates = Anomalies(runs),
                          ![v].twins = \E i, j \in StuckRows(runs) : i # j]
    /\ UNCHANGED <<runs, due, open, kills>>

\* computeAlertCandidates: the last SELECT of getComponentHealth.
ReadSignals(v) ==
    /\ evaluation[v].pc = "signals"
    /\ evaluation' = [evaluation EXCEPT ![v].pc = "open",
                          ![v].candidates = @ \cup Signals(runs)]
    /\ UNCHANGED <<runs, due, open, kills>>

\* A faulty variant: every open row of a candidate is resolved instead.
GoneIfFound(v) == open \cap evaluation[v].candidates

\* The open rows without a candidate.
Gone(v) == open \ evaluation[v].candidates

\* evaluateOperationalAlerts: the SELECT of the open rows.
ReadOpen(v) ==
    /\ evaluation[v].pc = "open"
    /\ evaluation' = [evaluation EXCEPT ![v].pc = "writing", ![v].candidates = @ \ open,
                          ![v].gone = Gone(v)]
    /\ UNCHANGED <<runs, due, open, kills>>

\* The candidates an evaluation inserts, in order; the unique index refuses a
\* second open row of a key.
Inserted(v) == {i \in DOMAIN Keys : Keys[i] \in evaluation[v].candidates}
RefusedAt(v) ==
    {i \in Inserted(v) : Keys[i] \in open \/ (Keys[i] = "stuck" /\ evaluation[v].twins)}

\* A faulty variant: the INSERTs are one batch.
WrittenAtOnce(v) == IF RefusedAt(v) = {} THEN {Keys[i] : i \in Inserted(v)} ELSE {}

Written(v) == {Keys[i] : i \in {j \in Inserted(v) : \A r \in RefusedAt(v) : j <= r}}

\* The INSERTs, up to the first the index refuses, which ends the evaluation.
\* UPDATEs change nothing here.
WriteCandidates(v) ==
    /\ evaluation[v].pc = "writing"
    /\ open' = open \cup Written(v)
    /\ evaluation' = [evaluation EXCEPT ![v] =
           IF RefusedAt(v) = {} THEN [@ EXCEPT !.pc = "resolving", !.candidates = {}]
           ELSE NoEvaluation]
    /\ UNCHANGED <<runs, due, kills>>

\* The UPDATEs of the rows whose condition was not found.
ResolveGone(v) ==
    /\ evaluation[v].pc = "resolving"
    /\ open' = open \ evaluation[v].gone
    /\ evaluation' = [w \in Evaluations |->
           IF w = v THEN NoEvaluation ELSE [evaluation[w] EXCEPT !.gone = @ \ evaluation[v].gone]]
    /\ UNCHANGED <<runs, due, kills>>

\* The invocation is killed, or a statement fails.
EvaluationFails(v) ==
    /\ Under(v) /\ kills < MaxKills
    /\ evaluation' = [evaluation EXCEPT ![v] = NoEvaluation]
    /\ kills' = kills + 1
    /\ UNCHANGED <<runs, due, open>>

-----------------------------------------------------------------------------
(* The specification *)

AlertsInit ==
    /\ runs = <<>> /\ due = FALSE
    /\ open = {} /\ held = {}
    /\ evaluation = [v \in Evaluations |-> NoEvaluation]
    /\ kills = 0

JobEnds ==
    \E i \in DOMAIN runs :
        \/ \E status \in {"completed", "completed_with_errors"} : FinishJobRun(i, status)
        \/ JobDies(i)

EvaluationStep(v) == ReadRuns(v) \/ ReadSignals(v) \/ ReadOpen(v) \/ WriteCandidates(v) \/ ResolveGone(v)

AlertsNext ==
    /\ \/ CronFires \/ StartJobRun \/ JobEnds \/ Tick
       \/ \E v \in Evaluations : AdminEvaluates(v) \/ EvaluationStep(v) \/ EvaluationFails(v)
    /\ Remembered

AlertsSpec == AlertsInit /\ [][AlertsNext]_alertsVars

\* Time passes, the cron comes every day, and what it has started goes on.
FairAlertsSpec ==
    /\ AlertsSpec
    /\ SF_alertsVars(Tick /\ Remembered) /\ WF_alertsVars(CronFires /\ Remembered)
    /\ WF_alertsVars((StartJobRun \/ JobEnds) /\ Remembered)
    /\ \A v \in Evaluations : WF_alertsVars(EvaluationStep(v) /\ Remembered)

-----------------------------------------------------------------------------
(* Properties *)

\* An alert is resolved only if its condition lapsed since it was opened, or two
\* evaluations overlapped: then the one that looked first resolves what the other
\* has just opened.
AlertsOutlastTheirCause ==
    [][\A k \in open \ open' :
          k \in held => \E v \in Evaluations : evaluation[v].pc = "resolving" /\ evaluation[v].overlapped]_alertsVars

\* A killed run, whose row says "running" for ever, is reported before later runs
\* push it out of the rows that are read: although two such rows are two
\* candidates of one key, the index refuses the second, and the evaluation ends.
KilledRunsAreReported ==
    (\E i \in DOMAIN runs : runs[i].status = "running" /\ ~runs[i].alive) ~> "stuck" \in open

\* The retention alert is resolved only when the last run that has ended has
\* ended well, as OPERATIONAL_ALERT_MODEL.md says of its trigger (getComponentHealth).
DegradedStaysOpen ==
    [][\A k \in {"degraded"} : k \in open \ open' =>
          \E i \in DOMAIN runs : /\ runs[i].status = "completed"
                                /\ \A j \in 1..i - 1 : runs[j].status = "running"]_alertsVars

=============================================================================
