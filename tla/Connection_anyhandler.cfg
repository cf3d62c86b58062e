SPECIFICATION Spec
CONSTANTS
    Tasks = {t1, t2}
    kIdleTimeout = 1
    Requests <- SomeRequests
    Handlers <- AnyHandlers
INVARIANTS TypeOK SoleDriver ProcessingFlag OpenWhileDriven OneHead CloseHonoured
SYMMETRY TaskSymmetry
CHECK_DEADLOCK FALSE
