CONSTANTS
  Inviter = inviter
  Invitees = {i1, i2}
  NoKey = noKey
  NoThread = noThread
  OwnId = ownId
  NoMessage = noMessage
  AutoAccept = {inviter}
  Slots = {s1, s2}
  MaxCalls = 2
  MaxFaults = 2
  Faults = {"lose", "duplicate", "crash", "fail", "overlap"}
SYMMETRY InviteeSymmetry
SPECIFICATION Spec
INVARIANTS
  TypeOK
  ReadyHasPeer
  PeerAsked
  Agreement
PROPERTIES
  NeverRegresses
  PeerIsFinal
CHECK_DEADLOCK FALSE
