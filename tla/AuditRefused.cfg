\* A refused target is reported as an incomplete audit: violated.
CONSTANTS
    Resources <- MCResources
    Sitemap = "sitemap"
    Urls <- MCUrls
    DefaultUrl <- MCDefaultUrl
    Blocked = {"blocked"}
    TotalTimeout = 3
    ResolveTimeout = 1
    MaxRedirects = 2
    MaxExternalRequests = 12
    MaxBodyTime = 1
SPECIFICATION ScanSpec
INVARIANT
    RefusedTargetsAreUnavailable
CHECK_DEADLOCK FALSE
