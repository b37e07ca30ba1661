\* Payment events of every kind on one transaction.
CONSTANTS
    e1 = e1  e2 = e2  e3 = e3  e4 = e4  e5 = e5  e6 = e6  e7 = e7  w1 = w1  w2 = w2  b1 = b1
    Events = {e1, e2, e6, e7}
    Subscriptions = {b1}
    Workers = {w1, w2}
    Plans = {"free", "pro", "agency"}
    Data <- Payments
    MaxAttempts = 2
    MaxRepeats = 1
    MaxFaults = 1
SPECIFICATION FairSpec
INVARIANTS
    ProcessedAdjustmentsStay
PROPERTY
    PendingEventsArePickedUp
CHECK_DEADLOCK FALSE
