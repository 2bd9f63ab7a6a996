SPECIFICATION FairSpec
CONSTANT Threads = {t1, t2, t3}
INVARIANTS AtMostOnce ReturnsAfterInit
PROPERTIES CallsReturn
