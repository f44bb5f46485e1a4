-------------------------- MODULE AuthConversation --------------------------
(***************************************************************************)
(* The backend-neutral conversation of crates/fomalhaut-core: the serial   *)
(* state machine both the greetd client and the PAM backend drive.  A      *)
(* conversation is a record and every method is an operator from the       *)
(* record before the call to the record after it; Can... is the method's   *)
(* own guard, and a call whose guard is false returns an error and leaves  *)
(* the record alone.                                                       *)
(*                                                                         *)
(* Abstracted data: a prompt's kind and the text of prompts and messages.  *)
(* WaitingForSecret and WaitingForVisible differ only in what the theme    *)
(* echoes, so they are the one state Waiting.                              *)
(***************************************************************************)
EXTENDS Naturals, Sequences

CONSTANT MaxPromptId   \* the largest prompt identifier, u64::MAX in the code

ASSUME MaxPromptIdAssumption == MaxPromptId \in Nat \ {0}

NoPrompt == 0          \* Option::None; identifiers start at 1

AuthStates == {"Disconnected", "Idle", "Authenticating", "Waiting",
               "Authenticated", "Cancelling", "Failed"}

EventKinds == {"Prompt", "Message", "Authenticated", "AuthenticationFailed",
               "Cancelled"}

AuthEvents == [kind : EventKinds, prompt : 0 .. MaxPromptId]

AuthEvent(kind, prompt) == [kind |-> kind, prompt |-> prompt]

Conversations == [state          : AuthStates,
                  active_prompt  : 0 .. MaxPromptId,
                  next_prompt_id : 1 .. MaxPromptId,
                  events         : Seq(AuthEvents)]

NewConversation == [state |-> "Idle", active_prompt |-> NoPrompt,
                    next_prompt_id |-> 1, events |-> <<>>]

Push(c, kind, prompt) == Append(c.events, AuthEvent(kind, prompt))

NeedsCancel(c) == c.state \in {"Authenticating", "Waiting", "Authenticated"}

CanBegin(c) == c.state \in {"Idle", "Failed"}

Begin(c) == [c EXCEPT !.state = "Authenticating", !.active_prompt = NoPrompt,
                      !.events = <<>>]

CanRespond(c, p) == c.state = "Waiting" /\ c.active_prompt = p

BeginResponse(c) == [c EXCEPT !.state = "Authenticating",
                              !.active_prompt = NoPrompt]

CanEmitPromptUnbounded(c) == c.state = "Authenticating"
\* checked_add refuses the identifier after u64::MAX
CanEmitPrompt(c) == c.state = "Authenticating" /\ c.next_prompt_id < MaxPromptId

EmitPrompt(c) == [c EXCEPT !.state = "Waiting",
                           !.active_prompt = c.next_prompt_id,
                           !.next_prompt_id = @ + 1,
                           !.events = Push(c, "Prompt", c.next_prompt_id)]

CanEmitMessage(c) == c.state = "Authenticating"

EmitMessage(c) == [c EXCEPT !.events = Push(c, "Message", NoPrompt)]

CanAuthenticate(c) == c.state = "Authenticating"

Authenticate(c) == [c EXCEPT !.state = "Authenticated", !.active_prompt = NoPrompt,
                             !.events = Push(c, "Authenticated", NoPrompt)]

BeginCancel(c) == [c EXCEPT !.state = "Cancelling", !.active_prompt = NoPrompt]

CanFinishCancel(c) == c.state = "Cancelling"

FinishCancel(c) == [c EXCEPT !.state = "Idle",
                             !.events = Push(c, "Cancelled", NoPrompt)]

CanReject(c) == c.state \in {"Authenticating", "Waiting", "Cancelling"}

AuthenticationFailed(c) ==
  [c EXCEPT !.state = "Failed", !.active_prompt = NoPrompt,
            !.events = Push(c, "AuthenticationFailed", NoPrompt)]

Fail(c) == [c EXCEPT !.state = "Failed", !.active_prompt = NoPrompt]

Disconnect(c) == [c EXCEPT !.state = "Disconnected", !.active_prompt = NoPrompt]

\* next_event called until NoPendingEvent, as every controller call does last
DrainEvents(c) == [c EXCEPT !.events = <<>>]
=============================================================================
