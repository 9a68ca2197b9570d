SPECIFICATION Spec
CONSTANTS
  Path = {p1, p2}
  Thread = {th1}
  None = None
  MaxMount = 2
  MaxFaults = 0
  MaxCrashes = 0
INVARIANT
  MountIdsUnique
