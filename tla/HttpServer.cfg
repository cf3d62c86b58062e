SPECIFICATION FairSpec
CONSTANTS
    Conns = {c1, c2}
    None = None
    io_threads = 2
    PoolSizes = {0, 1}
    hardware_concurrency = 0
INVARIANTS TypeOK AcceptLoop TimerLoop OnePool QuietAfterRun ContextOutlivesSockets
PROPERTIES ShutsDown LambdasRun
CHECK_DEADLOCK FALSE
