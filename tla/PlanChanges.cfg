CONSTANTS
    Prices <- MCPrices
    FirstPrice <- MCFirstPrice
    GrantedPlan <- MCGrantedPlan
    Grants = {g1}
    None = None
    Requests = {r1, r2}
    MaxVersion = 4
    MaxPeriod = 2
SPECIFICATION Spec
SYMMETRY Symmetry
CONSTRAINT GrantsOrMarkers
INVARIANTS
    PlanSettles
    WishIsKept
PROPERTIES
    PaidPeriodIsKept
