SPECIFICATION RouterSpec
CONSTANTS
    Methods <- OneMethod
    Patterns <- SuffixPatterns
    Paths <- SuffixPaths
    MaxCalls = 1
INVARIANT SuffixWhole
CHECK_DEADLOCK FALSE
