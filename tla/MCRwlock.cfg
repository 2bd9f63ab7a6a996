SPECIFICATION FairSpec
CONSTANTS
    Threads = {t1, t2, t3}
    Calls = {"rd", "wr", "tryrd", "trywr", "timedrd", "timedwr"}
    MaxCalls = 1
INVARIANTS Exclusion NoPanic
PROPERTIES WriterNotOvertaken CallsReturn
