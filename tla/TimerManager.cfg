SPECIFICATION FairSpec
CONSTANTS
    Addrs = {a1, a2, a3, a4}
    Scan = Scan
    Nobody = Nobody
INVARIANTS TypeOK StatusExact Registered PinHolds
PROPERTIES MutexFreed Swept
