\* A never-scanned domain of the free plan beside a weekly one, batch of one.
CONSTANTS
    d1 = d1  d2 = d2  s1 = s1  s2 = s2  r1 = r1  r2 = r2  a1 = a1
    Domains = {d1, d2}
    Sweeps = {s1}
    Rescans = {}
    AdminScans = {}
    ReEvaluated = {}
    Null = Null
    Frequency <- FreeAndWeekly
    BatchSize = 1
    FailurePauseThreshold = 2
    ManualQuota = 1
    Day = 1
    Weekly = 2
    Monthly = 3
    ClaimLock = 1
    ScanLock = 1
    MaxSweepAge = 0
    MaxRescanAge = 0
    MaxLate = 3
    MaxDeliveries = 1
    MaxCrashes = 0
    MaxEpisodes = 1
    MaxFailures = 2
SPECIFICATION FairSpec
PROPERTIES
    MonitoredDomainsKeepBeingScanned
CHECK_DEADLOCK FALSE
