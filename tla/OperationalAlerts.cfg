\* The cron's evaluation and an admin's, three days of runs, one killed evaluation.
CONSTANTS
    Evaluations = {cron, admin}
    Daily = cron
    Window = 3
    MaxKills = 1
SPECIFICATION FairAlertsSpec
PROPERTIES
    AlertsOutlastTheirCause
    KilledRunsAreReported
