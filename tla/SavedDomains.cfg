CONSTANTS
    u1 = u1
    u2 = u2
    o1 = o1
    o2 = o2
    Users = {u1, u2}
    Origins = {o1, o2}
    Keys = {k1}
    Continuations = {c1, c2}
    Requests = {r1, r2}
    None = None
    AuditedOrigin = o1
    SavedDomainLimit <- MCLimit
    BatchImportLimit <- MCBatch
    MonitoringFrequency <- MCFrequency
    MaxDomains = 2
SPECIFICATION Spec
SYMMETRY Symmetry
INVARIANTS
    LimitOverrunBounded
    BaselineIsOwn
    UsedContinuationsSave
