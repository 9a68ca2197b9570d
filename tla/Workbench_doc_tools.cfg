SPECIFICATION Spec
CONSTANTS
  None = None
  MaxTurns = 1
  MaxSends = 2
  MaxMishaps = 0
INVARIANT ToolsByCall
CHECK_DEADLOCK FALSE
