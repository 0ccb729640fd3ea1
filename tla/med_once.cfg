CONSTANTS
  Edges = {alice}
  MaxConns = 2
  MaxKeys = 1
  MaxMessages = 3
  MaxSessions = 1
  Faults = {"crash", "lose", "throw", "restart"}
SPECIFICATION Spec
PROPERTIES
  HandledOnce
CHECK_DEADLOCK FALSE
