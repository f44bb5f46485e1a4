SPECIFICATION FairSpec
CONSTANTS
  MaxPageEpoch = 3
  CommandCapacity = 3
  OutputCapacity = 2
INVARIANTS
  AuthenticatedMeansStarted
  TransactionOwnedByPage
  RepliesAreCorrelated
  ShutdownReleasesGreetd
  PublicStateTracksBackend
PROPERTIES
  StartedSessionEndsHost
  ShutdownCompletes
CHECK_DEADLOCK FALSE
