\* Two overlapping reconciliations beside a sweep, a rescan and an admin scan.
CONSTANTS
    open = open  closed = closed  j1 = j1  j2 = j2
    Contents = {open, closed}
    HighAttention <- Closing
    Reconciliations = {j1, j2}
    Day = 2
    Lookback = 1
    Retention = 2
    MaxScans = 3
    MaxFaults = 1
    MaxAge = 2
SPECIFICATION Spec
INVARIANTS
    NeverNoticedTwice
    NoticesTellRealChanges
    OneEventPerScan
    OnlyFaultsLeaveNoticesMissing
SYMMETRY Symmetry
CHECK_DEADLOCK FALSE
