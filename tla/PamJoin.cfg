SPECIFICATION FairSpec
CONSTANTS
  MaxPromptId = 4
  ChannelCapacity = 2
  MaxFrames = 6
  MayLeaveHelper = FALSE
PROPERTY
  TimeoutEndsTheCall
CHECK_DEADLOCK FALSE
