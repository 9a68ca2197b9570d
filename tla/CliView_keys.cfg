SPECIFICATION Spec
CONSTANTS
  None = None
  MaxThreads = 2
  MaxTurns = 2
  MaxKeys = 3
  MaxOthers = 1
INVARIANT
  ScreenInv
PROPERTY
  PickerStays
CHECK_DEADLOCK FALSE
