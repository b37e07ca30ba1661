\* One domain, two overlapping sweeps, two overlapping manual rescans, two streaks
\* of failures, and a failure after a resume at the threshold.
CONSTANTS
    d1 = d1  d2 = d2  s1 = s1  s2 = s2  r1 = r1  r2 = r2  a1 = a1
    Domains = {d1}
    Sweeps = {s1, s2}
    Rescans = {r1, r2}
    AdminScans = {}
    ReEvaluated = {}
    Null = Null
    Frequency <- AllWeekly
    BatchSize = 1
    FailurePauseThreshold = 3
    ManualQuota = 1
    Day = 2
    Weekly = 2
    Monthly = 4
    ClaimLock = 2
    ScanLock = 1
    MaxSweepAge = 1
    MaxRescanAge = 0
    MaxLate = 1
    MaxDeliveries = 2
    MaxCrashes = 1
    MaxEpisodes = 2
    MaxFailures = 4
SPECIFICATION Spec
SYMMETRY Symmetry
INVARIANTS
    TypeOK
    ManualRescansExclusive
    ScheduledScansExclusive
    QuotaOverrunBounded
    NoticeWithinEpisode
PROPERTIES
    PausesExactlyAtThreshold
    EpisodeIdentifiesStreak
CHECK_DEADLOCK FALSE
