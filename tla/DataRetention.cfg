\* One account that cannot be deleted and one that can; a database error or a kill.
CONSTANTS
    Categories <- MCCategories
    Kind <- MCKind
    Plans <- MCPlans
    PlanBound <- MCPlanBound
    Reverting <- MCReverting
    Owned <- MCOwned
    Withdrawable <- MCWithdrawable
    Accounts = {a1, a2}
    Referencing = {a1}
    Objects = {1}
    PageSize = 1
    ChunkSize = 1
    MaxParameters = 1
    MaxChunks = 2
    MaxRows = 2
    MaxFaults = 1
SPECIFICATION FairSpec
PROPERTIES
    ResultsAreTruthful
    OnlyRacesDeleteKeptAccounts
    BacklogsAreWorkedOff
    OnlyOddAccountsBlock
