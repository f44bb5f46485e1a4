SPECIFICATION Spec
CONSTANTS
  Views = {v1, v2}
  CommandCapacity = 2
  NativeCapacity = 4
  MayPanic = TRUE
INVARIANTS
  TypeOK
  UnlockOnce
  LockedNeverAuthenticated
  NativeSendNeverBlocks
  ReadyOnlyWhenLockRecorded
  ExitWhileLockedOnlyByEarlyFailure
  RevokedLockIsNotASuccess
  PublicStateTracksBackend
  NoTransactionCrossesBoundary
SYMMETRY Symmetry
CHECK_DEADLOCK FALSE
