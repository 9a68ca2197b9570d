SPECIFICATION Spec
CONSTANTS
  Path = {p1, p2}
  Thread = {th1, th2}
  None = None
  MaxMount = 2
  MaxFaults = 1
  MaxCrashes = 1
SYMMETRY Symmetry
INVARIANTS
  RegistryInv
PROPERTY
  MountNotRetargeted
