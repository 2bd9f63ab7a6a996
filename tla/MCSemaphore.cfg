SPECIFICATION FairSpec
CONSTANTS
    Threads = {t1, t2, t3}
    Initial = 0
    SemValueMax = 2
    MaxPosts = 3
INVARIANTS TokensConserved NoLostWakeup
PROPERTIES WaiterServed
