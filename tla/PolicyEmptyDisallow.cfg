\* A site with "User-agent: *" and "Disallow:".
CONSTANTS
    Tokens = {"searchbot", "trainbot"}
    Patterns <- MCPatterns
    PatternLength <- MCPatternLength
    Matching <- MCMatching
    Registry <- MCRegistry
    NoReport = NoReport
    MaxLines = 2
    MaxApplied = 0
SPECIFICATION PolicySpec
INVARIANT
    EmptyDisallowAllowsAll
CHECK_DEADLOCK FALSE
