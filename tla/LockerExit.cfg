SPECIFICATION Spec
CONSTANTS
  Views = {v1}
  CommandCapacity = 2
  NativeCapacity = 4
  MayPanic = FALSE
INVARIANT
  NeverExitsWhileLocked
CHECK_DEADLOCK FALSE
