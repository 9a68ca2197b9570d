SPECIFICATION FairSpec
CONSTANTS
  Conn = {c1, c2}
  None = None
  MaxRequests = 1
  MaxFrames = 2
  MaxEvents = 2
INVARIANTS
  DeliveryInv
PROPERTIES
  ImplementsBroadcast
  EventsArrive
  RequestsAnswered
  ThreadsEnd
CHECK_DEADLOCK FALSE
