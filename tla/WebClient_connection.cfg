SPECIFICATION FairSpec
CONSTANTS
  MaxSockets = 3
  MaxRequests = 2
  MaxTimers = 2
INVARIANT
  ConnectionInv
  NoneStranded
PROPERTIES
  RequestsSettle
  Reconnects
