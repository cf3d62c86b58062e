SPECIFICATION BodySpec
CONSTANTS
    Streams <- PlainStreams
    max_body_size = 2
    SizeMax = 255
INVARIANT LimitKept
CHECK_DEADLOCK FALSE
