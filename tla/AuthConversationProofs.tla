----------------------- MODULE AuthConversationProofs -----------------------
(***************************************************************************)
(* What each method of the conversation makes of it, for every number of   *)
(* prompts: the lemmas the proofs about both backends rest on.             *)
(***************************************************************************)
EXTENDS AuthConversation, TLAPS

\* No prompt is a value of the field, like any identifier.
LEMMA NoPromptType == NoPrompt \in 0 .. MaxPromptId
  BY MaxPromptIdAssumption DEF NoPrompt

\* Appending an event leaves a queue of events.
LEMMA PushType ==
  ASSUME NEW c \in Conversations, NEW k \in EventKinds, NEW p \in 0 .. MaxPromptId
  PROVE  Push(c, k, p) \in Seq(AuthEvents)
  BY DEF Push, Conversations, AuthEvents, AuthEvent

\* Methods that leave the events alone or clear them.
LEMMA QuietMethods ==
  ASSUME NEW c \in Conversations
  PROVE  /\ Begin(c) \in Conversations /\ Begin(c).state = "Authenticating"
         /\ BeginResponse(c) \in Conversations /\ BeginResponse(c).state = "Authenticating"
         /\ BeginCancel(c) \in Conversations /\ BeginCancel(c).state = "Cancelling"
         /\ Fail(c) \in Conversations /\ Fail(c).state = "Failed"
         /\ Disconnect(c) \in Conversations /\ Disconnect(c).state = "Disconnected"
         /\ DrainEvents(c) \in Conversations /\ DrainEvents(c).state = c.state
         /\ Begin(c).events = <<>> /\ DrainEvents(c).events = <<>>
         /\ BeginResponse(c).events = c.events /\ BeginCancel(c).events = c.events
         /\ Fail(c).events = c.events /\ Disconnect(c).events = c.events
<1>1. <<>> \in Seq(AuthEvents)
  OBVIOUS
<1>2. Begin(c) \in Conversations /\ Begin(c).state = "Authenticating" /\ Begin(c).events = <<>>
  BY <1>1, NoPromptType DEF Conversations, AuthStates, Begin
<1>3. /\ BeginResponse(c) \in Conversations /\ BeginResponse(c).state = "Authenticating"
      /\ BeginResponse(c).events = c.events
  BY NoPromptType DEF Conversations, AuthStates, BeginResponse
<1>4. /\ BeginCancel(c) \in Conversations /\ BeginCancel(c).state = "Cancelling"
      /\ BeginCancel(c).events = c.events
  BY NoPromptType DEF Conversations, AuthStates, BeginCancel
<1>5. Fail(c) \in Conversations /\ Fail(c).state = "Failed" /\ Fail(c).events = c.events
  BY NoPromptType DEF Conversations, AuthStates, Fail
<1>6. /\ Disconnect(c) \in Conversations /\ Disconnect(c).state = "Disconnected"
      /\ Disconnect(c).events = c.events
  BY NoPromptType DEF Conversations, AuthStates, Disconnect
<1>7. /\ DrainEvents(c) \in Conversations /\ DrainEvents(c).state = c.state
      /\ DrainEvents(c).events = <<>>
  BY <1>1 DEF Conversations, DrainEvents
<1> QED BY <1>2, <1>3, <1>4, <1>5, <1>6, <1>7

\* Methods that announce what happened.
LEMMA AnnouncingMethods ==
  ASSUME NEW c \in Conversations
  PROVE  /\ EmitMessage(c) \in Conversations /\ EmitMessage(c).state = c.state
         /\ EmitMessage(c).events = Push(c, "Message", NoPrompt)
         /\ Authenticate(c) \in Conversations /\ Authenticate(c).state = "Authenticated"
         /\ Authenticate(c).events = Push(c, "Authenticated", NoPrompt)
         /\ FinishCancel(c) \in Conversations /\ FinishCancel(c).state = "Idle"
         /\ FinishCancel(c).events = Push(c, "Cancelled", NoPrompt)
         /\ AuthenticationFailed(c) \in Conversations
         /\ AuthenticationFailed(c).state = "Failed"
         /\ AuthenticationFailed(c).events = Push(c, "AuthenticationFailed", NoPrompt)
<1>1. \A k \in EventKinds : Push(c, k, NoPrompt) \in Seq(AuthEvents)
  BY PushType, NoPromptType
<1>2. /\ EmitMessage(c) \in Conversations /\ EmitMessage(c).state = c.state
      /\ EmitMessage(c).events = Push(c, "Message", NoPrompt)
  BY <1>1 DEF Conversations, EventKinds, EmitMessage
<1>3. /\ Authenticate(c) \in Conversations /\ Authenticate(c).state = "Authenticated"
      /\ Authenticate(c).events = Push(c, "Authenticated", NoPrompt)
  BY <1>1, NoPromptType DEF Conversations, AuthStates, EventKinds, Authenticate
<1>4. /\ FinishCancel(c) \in Conversations /\ FinishCancel(c).state = "Idle"
      /\ FinishCancel(c).events = Push(c, "Cancelled", NoPrompt)
  BY <1>1 DEF Conversations, AuthStates, EventKinds, FinishCancel
<1>5. /\ AuthenticationFailed(c) \in Conversations
      /\ AuthenticationFailed(c).state = "Failed"
      /\ AuthenticationFailed(c).events = Push(c, "AuthenticationFailed", NoPrompt)
  BY <1>1, NoPromptType DEF Conversations, AuthStates, EventKinds, AuthenticationFailed
<1> QED BY <1>2, <1>3, <1>4, <1>5

\* A prompt is emitted only while there is an identifier for the next one.
LEMMA EmitPromptType ==
  ASSUME NEW c \in Conversations, CanEmitPrompt(c)
  PROVE  /\ EmitPrompt(c) \in Conversations /\ EmitPrompt(c).state = "Waiting"
         /\ EmitPrompt(c).active_prompt = c.next_prompt_id
         /\ EmitPrompt(c).events = Push(c, "Prompt", c.next_prompt_id)
<1>1. /\ c.next_prompt_id \in 0 .. MaxPromptId
      /\ c.next_prompt_id + 1 \in 1 .. MaxPromptId
  BY MaxPromptIdAssumption DEF Conversations, CanEmitPrompt
<1>2. Push(c, "Prompt", c.next_prompt_id) \in Seq(AuthEvents)
  BY <1>1, PushType DEF EventKinds
<1> QED BY <1>1, <1>2 DEF Conversations, AuthStates, EmitPrompt
=============================================================================
