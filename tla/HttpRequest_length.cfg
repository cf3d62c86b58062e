SPECIFICATION RequestSpec
CONSTANTS
    Blocks <- MCBlocks
    LengthMax = 3
INVARIANT LengthExact
CHECK_DEADLOCK FALSE
