\* Two crawlers of one token, two releases, two overlapping activations, one audit, and
\* two domains, of which only one fits the statement that schedules them.
CONSTANTS
    c1 = c1
    c2 = c2
    r1 = r1
    r2 = r2
    d1 = d1
    d2 = d2
    Crawlers = {c1, c2}
    UserAgentTokens = {"bot"}
    TokenOf <- MCTokenOf
    Releases = {"v1", "v2"}
    SeedRelease = "v1"
    SeedCrawlers = {c1}
    Requests = {r1, r2}
    Domains = {d1, d2}
    Scans = {"s1"}
    MaxParameters = 3
    None = None
    Statuses = {"active", "retired"}
    MaxEdits = 2
    MaxActivations = 2
SYMMETRY Symmetry
SPECIFICATION Spec
INVARIANTS
    EvaluatedCrawlersAreVerified
    OutdatedDomainsAreDue
