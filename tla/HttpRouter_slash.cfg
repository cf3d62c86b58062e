SPECIFICATION RouterSpec
CONSTANTS
    Methods <- OneMethod
    Patterns <- SlashPatterns
    Paths <- MCPaths
    MaxCalls = 1
INVARIANT RegisteredPathServed
CHECK_DEADLOCK FALSE
