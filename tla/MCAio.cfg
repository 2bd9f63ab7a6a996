SPECIFICATION Spec
CONSTANTS
    t1 = t1
    t2 = t2
    c1 = c1
    c2 = c2
    Threads = {t1, t2}
    Cbs = {c1, c2}
    Arrays <- MCArrays
    Submitters = {t1}
    Watchers = {t2}
    MaxContexts = 4
    MaxLists = 2
    MaxCalls <- MCMaxCalls
INVARIANTS  PendingCounts  NoLostWakeup
CHECK_DEADLOCK FALSE
