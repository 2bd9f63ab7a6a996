SPECIFICATION Spec
CONSTANTS
    Threads = {t1, t2, t3}
    Tids = {i1, i2, i3, i4}
    NoTid = NoTid
    NoThread = NoThread
    Recursive = TRUE
    Rebind = TRUE
    MaxDepth = 2
SYMMETRY Symmetry
INVARIANTS NoPanic NoLostWakeup
PROPERTY ImplementsLock
