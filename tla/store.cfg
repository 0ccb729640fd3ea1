CONSTANTS
  Ids = {i1, i2}
  Callers = {c1, c2}
  TagNames = {thread}
  Gone = gone
  Batch = 1
  MaxVersion = 3
  MaxFaults = 1
  Faults = {"refuse", "crash", "overlap"}
SPECIFICATION Spec
INVARIANTS
  TypeOK
  TagsFromValues
  SavesComeFirst
  SearchFindsAll
PROPERTIES
  UpdatesInOneStep
CHECK_DEADLOCK FALSE
