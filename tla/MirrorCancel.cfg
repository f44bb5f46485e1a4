SPECIFICATION Spec
CONSTANTS
  Views = {v1, v2}
  CommandCapacity = 1
  OutputCapacity = 1
  MaxPageEpoch = 1
  MaxSequence = 3
INVARIANT CancellationReachesLivePages
CHECK_DEADLOCK FALSE
