SPECIFICATION Spec
CONSTANTS
  MaxPromptId = 4
  ChannelCapacity = 2
  MaxFrames = 6
  MayLeaveHelper = FALSE
INVARIANT
  RetryStaysPossible
CHECK_DEADLOCK FALSE
