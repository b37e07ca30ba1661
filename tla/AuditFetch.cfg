\* Any answers, at most two redirects each, and a resolver and bodies that take time.
CONSTANTS
    Resources <- MCResources
    Sitemap = "sitemap"
    Urls <- MCUrls
    DefaultUrl <- MCDefaultUrl
    Blocked = {"blocked"}
    TotalTimeout = 3
    ResolveTimeout = 1
    MaxRedirects = 2
    MaxExternalRequests = 12
    MaxBodyTime = 1
SPECIFICATION ScanSpec
INVARIANTS
    ScanTimeBounded
    SubrequestsBounded
CHECK_DEADLOCK FALSE
