SPECIFICATION FairSpec
CONSTANTS
    Threads = {t1, t2, t3}
    ParentTid = ParentTid
    NoThread = NoThread
    Kinds = {"normal", "recursive"}
    MaxDepth = 2
INVARIANTS NoPanic DestroyedUntouched
PROPERTIES ImplementsLock SleeperWoken
