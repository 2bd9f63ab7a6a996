SPECIFICATION Spec
CONSTANTS
  Objs = {"exe", "a", "c", "d"}
  Exe = "exe"
  Graphs <- MCGraphs
  Threads = {t1, t2}
  Main = t1
  Openable = {"c"}
  MaxRts = 4
  MaxHandlers = 2
  None = None
INVARIANTS InitOrder   LoaderLockHeld 
PROPERTY ExitTerminates
CHECK_DEADLOCK FALSE
