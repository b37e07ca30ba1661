\* Two overlapping requests and no faults: an older event's plan write lands last.
CONSTANTS
    e1 = e1  e2 = e2  e3 = e3  e4 = e4  e5 = e5  e6 = e6  e7 = e7  w1 = w1  w2 = w2  b1 = b1
    Events = {e1, e2}
    Subscriptions = {b1}
    Workers = {w1, w2}
    Plans = {"free", "pro", "agency"}
    Data <- Upgrade
    MaxAttempts = 2
    MaxRepeats = 0
    MaxFaults = 0
SPECIFICATION Spec
INVARIANTS
    PlanFollowsSubscription
CHECK_DEADLOCK FALSE
