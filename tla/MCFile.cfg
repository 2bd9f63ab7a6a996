SPECIFICATION Spec
CONSTANTS
  Zero = "0"
  NL = "n"
  BufSize = 2
  UngetSize = 2
  MaxReq = 3
  MaxLen = 3
  Written <- MCWritten
  Inputs <- MCInputs
 
PROPERTY ImplementsFile
CHECK_DEADLOCK FALSE
