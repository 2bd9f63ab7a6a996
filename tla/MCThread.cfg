SPECIFICATION KeysSpec
CONSTANTS
    Cancellers = {c1}
    Iterations = 2
    MaxDeletes = 1
INVARIANTS KillHasTid JoinGetsResult
PROPERTIES  JoinReturns ValueOfItsKey
CHECK_DEADLOCK FALSE
