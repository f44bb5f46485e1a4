SPECIFICATION FairSpec
CONSTANTS
  Views = {v1}
  CommandCapacity = 3
  NativeCapacity = 4
  MayPanic = TRUE
CHECK_DEADLOCK FALSE
PROPERTIES
  AuthorizedUnlockCompletes
  RevokedLockEndsTheProcess
