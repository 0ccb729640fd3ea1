CONSTANTS
  Agents = {holder, issuer}
  Holder = holder
  Issuer = issuer
  Nothing = nothing
  Slots = {s1, s2}
  Negotiates = TRUE
  MaxStarts = 1
  MaxIds = 4
  MaxFaults = 2
  Faults = {"lose", "duplicate", "crash", "overlap", "refuse"}
SPECIFICATION FairSpec
INVARIANTS
  TypeOK
  ReceivedIsStored
  DoneHasCredential
  InStep
PROPERTIES
  IssuesOnce
  Completes
CHECK_DEADLOCK FALSE
