SPECIFICATION Spec
CONSTANTS
    Threads = {t1, t2}
    Initial = 1
    SemValueMax = 2
    MaxPosts = 2
INVARIANTS TryWaitTakesToken
