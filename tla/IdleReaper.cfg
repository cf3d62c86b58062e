SPECIFICATION ReaperFairSpec
CONSTANTS
    Tasks = {t1, t2}
    kIdleTimeout = 1
    Requests <- ReaperRequests
    Handlers <- ModeHandlers
INVARIANT CutsNoRequest
PROPERTY SilentReaped
CHECK_DEADLOCK FALSE
