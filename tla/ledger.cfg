CONSTANTS
  Schemas = {sc}
  CredDefs = {cd}
  Calls = {c1, c2}
  MaxCalls = 3
  MaxFaults = 2
  Faults = {"early", "crash", "refuse", "lose", "amend"}
SPECIFICATION FairSpec
INVARIANTS
  TypeOK
  StartedIsComplete
  KeysMatch
  KeptIsInForce
PROPERTIES
  Starts
  MadeIsWritten
CHECK_DEADLOCK FALSE
