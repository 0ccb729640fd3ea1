CONSTANTS
  Edges = {alice, bob}
  MaxConns = 2
  MaxKeys = 2
  MaxMessages = 1
  MaxSessions = 1
  Faults = {"stop", "lose", "throw"}
SPECIFICATION Spec
SYMMETRY EdgeSymmetry
INVARIANTS
  TypeOK
  OwnMailOnly
  RoutesFollowProvision
  AcceptedKeyHasRoute
CHECK_DEADLOCK FALSE
