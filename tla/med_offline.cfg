CONSTANTS
  Edges = {alice}
  MaxConns = 1
  MaxKeys = 1
  MaxMessages = 1
  MaxSessions = 1
  Faults = {"crash"}
SPECIFICATION FairSpec
PROPERTIES
  StillReceives
CHECK_DEADLOCK FALSE
