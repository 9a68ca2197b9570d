SPECIFICATION Spec
CONSTANTS
  None = None
  MaxThreads = 2
  MaxTurns = 2
  MaxKeys = 3
  MaxOthers = 0
PROPERTY NewIsNew
CHECK_DEADLOCK FALSE
