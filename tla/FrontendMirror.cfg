SPECIFICATION Spec
CONSTANTS
  Views = {v1, v2}
  CommandCapacity = 2
  OutputCapacity = 2
  MaxPageEpoch = 2
  MaxSequence = 3
SYMMETRY ViewSymmetry
INVARIANTS
  NoEventMissed
  MirrorConverges
  ReplyUnderWay
CHECK_DEADLOCK FALSE
