CONSTANTS
  Edges = {alice}
  MaxConns = 1
  MaxKeys = 2
  MaxMessages = 3
  MaxSessions = 1
  Faults = {"stop"}
SPECIFICATION FairSpec
PROPERTIES
  HandledInOrder
  StillReceives
CHECK_DEADLOCK FALSE
