\* The code's proportions: a cron every 24 hours, a lookback of 3 hours, a tick of 3 hours.
CONSTANTS
    open = open  closed = closed  j1 = j1  j2 = j2
    Contents = {open, closed}
    HighAttention <- Closing
    Reconciliations = {j1}
    Day = 8
    Lookback = 1
    Retention = 2
    MaxScans = 2
    MaxFaults = 1
    MaxAge = 9
SPECIFICATION Spec
INVARIANT
    MissedNoticesHealWithinADay
CHECK_DEADLOCK FALSE
