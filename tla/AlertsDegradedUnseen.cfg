\* The evaluation the cron starts beside the retention job, and no other.
CONSTANTS
    Evaluations = {cron}
    Daily = cron
    Window = 3
    MaxKills = 0
SPECIFICATION AlertsSpec
PROPERTY
    DegradedStaysOpen
