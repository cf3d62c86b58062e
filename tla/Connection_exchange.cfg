SPECIFICATION FairSpec
CONSTANTS
    Tasks = {t1, t2}
    kIdleTimeout = 0
    Requests <- MCRequests
    Handlers <- DocumentedHandlers
INVARIANT KeepAliveFramed
PROPERTIES ImplementsLifeCycle ImplementsExchange Answered Reclaimed
CHECK_DEADLOCK FALSE
