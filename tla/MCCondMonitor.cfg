SPECIFICATION FairSpec
CONSTANTS
    Threads = {p1, p2, c1, c2}
    Producers = {p1, p2}
    NoThread = NoThread
    SeqMod = 16
    MaxNotify = 3
    MaxNoise = 1
INVARIANT BroadcastWakesAll
PROPERTIES ItemsTaken
CHECK_DEADLOCK FALSE
