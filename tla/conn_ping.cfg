CONSTANTS
  Inviter = inviter
  Invitees = {i1, i2}
  NoKey = noKey
  NoThread = noThread
  OwnId = ownId
  NoMessage = noMessage
  AutoAccept <- Everyone
  Slots = {s1}
  MaxCalls = 1
  MaxFaults = 0
  Faults = {}
SPECIFICATION Spec
INVARIANTS
  PingHasId
CHECK_DEADLOCK FALSE
