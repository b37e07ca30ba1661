\* Two weekly domains competing for a batch of one, every kind of failure, a
\* dying sweep, registry publications, an admin scan, pauses and deletions.
CONSTANTS
    d1 = d1  d2 = d2  s1 = s1  s2 = s2  r1 = r1  r2 = r2  a1 = a1
    Domains = {d1, d2}
    Sweeps = {s1}
    Rescans = {}
    AdminScans = {a1}
    ReEvaluated = {d1}
    Null = Null
    Frequency <- AllWeekly
    BatchSize = 1
    FailurePauseThreshold = 2
    ManualQuota = 1
    Day = 1
    Weekly = 2
    Monthly = 3
    ClaimLock = 1
    ScanLock = 1
    MaxSweepAge = 0
    MaxRescanAge = 0
    MaxLate = 3
    MaxDeliveries = 1
    MaxCrashes = 1
    MaxEpisodes = 1
    MaxFailures = 2
SPECIFICATION FairSpec
PROPERTIES
    MonitoredDomainsKeepBeingScanned
CHECK_DEADLOCK FALSE
