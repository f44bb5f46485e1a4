SPECIFICATION FairSpec
CONSTANTS
  MaxPromptId = 4
  ChannelCapacity = 2
  MaxFrames = 6
  MayLeaveHelper = TRUE
INVARIANTS
  TypeOK
  AuthenticatedIsVerified
  OneTransactionPerProcess
  AnswersReachTheirPrompt
  HostWithinFrameBudget
  EventsTellTheOutcome
PROPERTIES
  CallReturns
  ImplementsContract
CHECK_DEADLOCK FALSE
