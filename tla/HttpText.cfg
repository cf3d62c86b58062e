SPECIFICATION TextSpec
CONSTANTS
    Streams <- PlainStreams
    max_body_size = 2
    SizeMax = 255
    Blocks <- MCBlocks
    LengthMax = 3
    Methods <- TwoMethods
    Patterns <- MCPatterns
    Paths <- MCPaths
    MaxCalls = 3
    Inputs <- AllInputs
INVARIANTS BodiesExact BufferDrained LimitExact
INVARIANTS HeadersExact Precedence ParamsExact AllowExact DecodeExact KeysExact RoundTrip
PROPERTY ReadToTheEnd
CHECK_DEADLOCK FALSE
