SPECIFICATION FairSpec
CONSTANTS
  Users = {alice, bob}
  MaxMessages = 3
  MaxPromptId = 4
INVARIANTS
  SlotAccountedFor
  AuthenticatedAsGreetdDoes
  AnswersMatchPrompts
  NoReplay
PROPERTIES
  CallReturns
  ImplementsContract
CHECK_DEADLOCK FALSE
