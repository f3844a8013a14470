SPECIFICATION FairLocksSpec
CONSTANTS
    r1 = r1
    r2 = r2
    r3 = r3
    Request = {r1, r2, r3}
    LockKey = {1, 2}
    Wants <- Crossing
    Mutex = {m1, m2, m3}
    None = None
INVARIANT
    OneMutexPerKey
PROPERTIES
    LocksAreAtomic
    EveryRequestEnds
CHECK_DEADLOCK FALSE
