\* One domain, two overlapping sweeps and one admin scan.
CONSTANTS
    d1 = d1  d2 = d2  s1 = s1  s2 = s2  r1 = r1  r2 = r2  a1 = a1
    Domains = {d1}
    Sweeps = {s1, s2}
    Rescans = {}
    AdminScans = {a1}
    ReEvaluated = {}
    Null = Null
    Frequency <- AllWeekly
    BatchSize = 1
    FailurePauseThreshold = 2
    ManualQuota = 1
    Day = 1
    Weekly = 2
    Monthly = 3
    ClaimLock = 1
    ScanLock = 1
    MaxSweepAge = 0
    MaxRescanAge = 0
    MaxLate = 3
    MaxDeliveries = 2
    MaxCrashes = 0
    MaxEpisodes = 1
    MaxFailures = 2
SPECIFICATION Spec
INVARIANTS
    ScheduledScansExclusive
CHECK_DEADLOCK FALSE
