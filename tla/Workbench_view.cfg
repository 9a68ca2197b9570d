SPECIFICATION Spec
CONSTANTS
  None = None
  MaxTurns = 2
  MaxSends = 2
  MaxMishaps = 1
INVARIANT
  PageInv
CHECK_DEADLOCK FALSE
