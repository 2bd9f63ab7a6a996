SPECIFICATION FairSpec
CONSTANTS
    Threads = {t1, t2, t3, t4}
    Count = 2
    WordBits = 8
    MaxArrivals = 6
INVARIANTS BarrierHolds DestroySafe
PROPERTIES GenerationLeaves DestroyReturns
CHECK_DEADLOCK FALSE
