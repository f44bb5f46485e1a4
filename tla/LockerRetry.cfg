SPECIFICATION Spec
CONSTANTS
  Views = {v1}
  CommandCapacity = 2
  NativeCapacity = 4
  MayPanic = FALSE
INVARIANT
  LockedStaysServiceable
CHECK_DEADLOCK FALSE
