\* Every robots.txt of at most four lines, every preset, and two proposals appended.
CONSTANTS
    Tokens = {"searchbot", "trainbot"}
    Patterns <- MCPatterns
    PatternLength <- MCPatternLength
    Matching <- MCMatching
    Registry <- MCRegistry
    NoReport = NoReport
    MaxLines = 4
    MaxApplied = 2
SPECIFICATION PolicySpec
INVARIANTS
    ResultsFollowTheFile
    AdviceTakesEffect
    AdviceBindsOnlyItsCrawlers
CHECK_DEADLOCK FALSE
