CONSTANTS
  Agents = {prover, verifier}
  Prover = prover
  Verifier = verifier
  Nothing = nothing
  Slots = {s1, s2}
  Counters = TRUE
  Qualities = {"true", "false", "misencoded"}
  MaxStarts = 1
  MaxIds = 4
  MaxFaults = 1
  Faults = {"lose", "duplicate", "crash", "overlap", "refuse"}
  Names = {name, age}
  Referents = {ref}
  CredDefs = {licence, degree}
  Values = {v1, v2}
  Absent = absent
  MaxInt = 3
  Words = {"None", "word"}
SPECIFICATION FairSpec
INVARIANTS
  TypeOK
  VerdictFits
  PresentsWhatWasAsked
  InStep
  EncodingCorrect
PROPERTIES
  JudgedOnce
  Completes
CHECK_DEADLOCK FALSE
