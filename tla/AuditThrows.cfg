\* A Location that is no URL, or a body that breaks off, ends the scan: violated.
CONSTANTS
    Resources <- MCResources
    Sitemap = "sitemap"
    Urls <- MCUrls
    DefaultUrl <- MCDefaultUrl
    Blocked = {"blocked"}
    TotalTimeout = 3
    ResolveTimeout = 1
    MaxRedirects = 2
    MaxExternalRequests = 12
    MaxBodyTime = 1
SPECIFICATION ScanSpec
INVARIANT
    TargetsEndNoScan
CHECK_DEADLOCK FALSE
