\* A hop is not one fetch(), but also two of the resolver: violated.
CONSTANTS
    Resources <- MCResources
    Sitemap = "sitemap"
    Urls <- MCUrls
    DefaultUrl <- MCDefaultUrl
    Blocked = {"blocked"}
    TotalTimeout = 3
    ResolveTimeout = 1
    MaxRedirects = 2
    MaxExternalRequests = 12
    MaxBodyTime = 1
SPECIFICATION ScanSpec
INVARIANT
    SubrequestsAsDocumented
CHECK_DEADLOCK FALSE
