\* An administrator who once published a release, and another account.
CONSTANTS
    Categories <- MCCategories
    Kind <- MCKind
    Plans <- MCPlans
    PlanBound <- MCPlanBound
    Reverting <- MCReverting
    Owned <- MCOwned
    Withdrawable <- MCWithdrawable
    Accounts = {a1, a2}
    Referencing = {a1}
    Objects = {}
    PageSize = 1
    ChunkSize = 2
    MaxParameters = 2
    MaxChunks = 2
    MaxRows = 0
    MaxFaults = 0
SPECIFICATION FairSpec
PROPERTY
    OverdueAccountsAreDeleted
