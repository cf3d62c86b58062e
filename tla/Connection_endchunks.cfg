SPECIFICATION Spec
CONSTANTS
    Tasks = {t1, t2}
    kIdleTimeout = 0
    Requests <- FewRequests
    Handlers <- EndChunksHandlers
INVARIANT KeepAliveFramed
CHECK_DEADLOCK FALSE
