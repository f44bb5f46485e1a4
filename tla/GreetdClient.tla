---------------------------- MODULE GreetdClient ----------------------------
(***************************************************************************)
(* fomalhaut-greetd: the GreeterClient that drives an AuthConversation     *)
(* over a Unix socket, one request and one response at a time, and the     *)
(* greetd daemon at the other end.                                         *)
(*                                                                         *)
(* A call of the client is several steps: the request it writes, greetd's  *)
(* handling of it, the response it reads, and again for the requests that  *)
(* drive() sends by itself (acknowledgements, the clean-up cancellation).  *)
(* The connection may break between any two of them; nothing bounds how    *)
(* long greetd takes.                                                      *)
(*                                                                         *)
(* greetd is external: it answers any request in any way its protocol has, *)
(* but tells the truth about authentication and owns at most one session.  *)
(***************************************************************************)
EXTENDS AuthConversation

CONSTANTS Users,       \* the names a login can be begun for
          MaxMessages  \* bounds the authentication messages of one transaction

ASSUME MaxMessagesAssumption == MaxMessages \in Nat

VARIABLES
  conversation,
  pending_identity, starting_session, session_started,
  call,     \* the call in progress, "none" between calls
  operation, \* drive()'s operation
  wire,     \* the request or response under way, NoFrame when nothing is awaited
  lost,     \* history: an exchange failed
  greetd,   \* the daemon's session slot
  rest      \* history: the call that returned last, see LoginBackend

vars == <<conversation, pending_identity, starting_session, session_started, call,
          operation, wire, lost, greetd, rest>>

NoUser == "nobody"
ASSUME UsersAssumption == NoUser \notin Users /\ Users # {}

Frame(kind, user) == [kind |-> kind, user |-> user]
Plain(kind)       == Frame(kind, NoUser)
NoFrame           == Plain("none")

RequestKinds  == {"CreateSession", "Answer", "Acknowledge", "StartSession", "CancelSession"}
ResponseKinds == {"Success", "AuthError", "Error", "Prompt", "Info"}
Operations    == {"Authenticate", "StartSession", "Cancel", "Cleanup"}

-----------------------------------------------------------------------------
(* The daemon.  `awaits' is what it asked for last; `told' bounds it.       *)

Slot(phase, user, told) == [phase |-> phase, user |-> user, told |-> told]
EmptySlot == Slot("none", NoUser, 0)

SessionOf(slot) == CASE slot.phase = "none"    -> "none"
                     [] slot.phase = "started" -> "started"
                     [] OTHER                  -> "open"

Reply(response, slot) == [response |-> response, slot |-> slot]

\* the PAM conversation goes on: asks, tells, accepts, rejects or breaks
Conversing(slot) ==
  {Reply("Success",   [slot EXCEPT !.phase = "ready"]),
   Reply("AuthError", [slot EXCEPT !.phase = "rejected"]),
   Reply("Error",     [slot EXCEPT !.phase = "broken"]),
   Reply("Error",     EmptySlot)}
  \cup IF slot.told = MaxMessages THEN {}
       ELSE {Reply("Prompt", [slot EXCEPT !.phase = "asking",  !.told = @ + 1]),
             Reply("Info",   [slot EXCEPT !.phase = "telling", !.told = @ + 1])}

GreetdReplies(request, slot) ==
  CASE request.kind = "CreateSession" /\ slot.phase = "none" ->
         Conversing(Slot("asking", request.user, 0))
    [] request.kind = "Answer" /\ slot.phase = "asking"       -> Conversing(slot)
    [] request.kind = "Acknowledge" /\ slot.phase = "telling" -> Conversing(slot)
    [] request.kind = "StartSession" /\ slot.phase = "ready" ->
         {Reply("Success", [slot EXCEPT !.phase = "started"])}
           \cup {Reply(r, slot) : r \in {"Error", "AuthError", "Prompt"}}
    [] request.kind = "CancelSession" /\ slot.phase # "started" ->
         {Reply(r, EmptySlot) : r \in {"Success", "Error", "AuthError", "Info"}}
    [] OTHER -> {Reply("Error", slot)}

GreetdHandles ==
  /\ wire.kind \in RequestKinds
  /\ \E reply \in GreetdReplies(wire, greetd) :
       /\ greetd' = reply.slot
       /\ wire' = Plain(reply.response)
  /\ UNCHANGED <<conversation, pending_identity, starting_session, session_started,
                 call, operation, lost, rest>>

-----------------------------------------------------------------------------
(* The calls.  Drive writes the first request of one. *)

Client(c, identity, starting, started) ==
  /\ conversation' = c
  /\ pending_identity' = identity
  /\ starting_session' = starting
  /\ session_started' = started

Drive(name, op, request) ==
  /\ call' = name
  /\ operation' = op
  /\ wire' = request
  /\ UNCHANGED <<lost, greetd, rest>>

Returns(name, result) ==
  /\ call' = "returned"
  /\ operation' = "Authenticate"
  /\ wire' = NoFrame
  /\ rest' = [op |-> name, state |-> conversation'.state,
              session |-> SessionOf(greetd), result |-> result]
  /\ UNCHANGED greetd

Refuse(name) ==
  /\ UNCHANGED <<conversation, pending_identity, starting_session, session_started, lost>>
  /\ Returns(name, "Err")

BetweenCalls == call = "none"

CreateSession ==
  /\ BetweenCalls
  /\ \/ /\ CanBegin(conversation)
        /\ \E u \in Users :
             /\ Client(Begin(conversation), u, FALSE, FALSE)
             /\ Drive("begin_login", "Authenticate", Frame("CreateSession", u))
     \/ ~CanBegin(conversation) /\ Refuse("begin_login")

Respond ==
  /\ BetweenCalls
  /\ \E p \in 1 .. MaxPromptId :
       \/ /\ CanRespond(conversation, p)
          /\ Client(BeginResponse(conversation), pending_identity, starting_session,
                    session_started)
          /\ Drive("respond", "Authenticate", Plain("Answer"))
       \/ ~CanRespond(conversation, p) /\ Refuse("respond")

CanStartSession == /\ conversation.state = "Authenticated"
                   /\ ~starting_session
                   /\ ~session_started

StartSession ==
  /\ BetweenCalls
  /\ \/ /\ CanStartSession
        /\ Client(conversation, pending_identity, TRUE, FALSE)
        /\ Drive("start_session", "StartSession", Plain("StartSession"))
     \/ ~CanStartSession /\ Refuse("start_session")

CanCancelConversation == NeedsCancel(conversation)
CanCancel == ~starting_session /\ ~session_started /\ NeedsCancel(conversation)

Cancel ==
  /\ BetweenCalls
  /\ \/ /\ CanCancel
        /\ Client(BeginCancel(conversation), NoUser, FALSE, FALSE)
        /\ Drive("cancel", "Cancel", Plain("CancelSession"))
     \/ ~CanCancel /\ Refuse("cancel")

\* drain_core_events, the last step of every controller call
Drain ==
  /\ call = "returned"
  /\ call' = "none"
  /\ conversation' = DrainEvents(conversation)
  /\ UNCHANGED <<pending_identity, starting_session, session_started, operation, wire,
                 lost, greetd, rest>>

-----------------------------------------------------------------------------
(* drive(): one response per turn of its loop. *)

\* writing the request or reading the response failed
TransportFails ==
  /\ wire # NoFrame
  /\ Client(Disconnect(conversation), NoUser, FALSE, session_started)
  /\ Returns(call, "Err")
  /\ lost' = TRUE

Reads(kinds) == wire.kind \in kinds /\ UNCHANGED lost

\* drive() writes another request of its own
ContinuesWithoutWriting(op, request) ==
  /\ operation' = op
  /\ wire' = NoFrame
  /\ UNCHANGED <<call, greetd, rest>>
Continues(op, request) ==
  /\ operation' = op
  /\ wire' = request
  /\ UNCHANGED <<call, greetd, rest>>

HandleAuthenticateSuccess ==
  /\ Reads({"Success"})
  /\ operation = "Authenticate"
  /\ IF pending_identity = NoUser
     THEN /\ Client(Fail(conversation), NoUser, starting_session, session_started)
          /\ Returns(call, "Err")
     ELSE /\ CanAuthenticate(conversation)
          /\ Client(Authenticate(conversation), NoUser, starting_session, session_started)
          /\ Returns(call, "Ok")

HandleStartSuccess ==
  /\ Reads({"Success"})
  /\ operation = "StartSession"
  /\ Client(conversation, pending_identity, FALSE, TRUE)
  /\ Returns(call, "Ok")

HandleCancelSuccess ==
  /\ Reads({"Success"})
  /\ operation = "Cancel"
  /\ CanFinishCancel(conversation)
  /\ Client(FinishCancel(conversation), pending_identity, starting_session, session_started)
  /\ Returns(call, "Ok")

\* either answer says that greetd has dropped the rejected session
FinishAuthenticationFailureCleanup ==
  /\ Reads({"Success", "Error", "AuthError"})
  /\ operation = "Cleanup"
  /\ CanReject(conversation)
  /\ Client(AuthenticationFailed(conversation), pending_identity, starting_session,
            session_started)
  /\ Returns(call, "Ok")

\* the rejected session still occupies greetd's slot
CleanUpAfterRejectionByReturning ==
  /\ Reads({"AuthError"})
  /\ operation = "Authenticate"
  /\ Client(AuthenticationFailed(conversation), NoUser, FALSE, session_started)
  /\ Returns(call, "Ok")
CleanUpAfterRejectionAsAuthenticate ==
  /\ Reads({"AuthError"})
  /\ operation = "Authenticate"
  /\ Client(BeginCancel(conversation), pending_identity, FALSE, session_started)
  /\ Continues("Authenticate", Plain("CancelSession"))
CleanUpAfterRejection ==
  /\ Reads({"AuthError"})
  /\ operation = "Authenticate"
  /\ Client(BeginCancel(conversation), NoUser, FALSE, session_started)
  /\ Continues("Cleanup", Plain("CancelSession"))

HandleServerError ==
  /\ \/ Reads({"Error"}) /\ operation # "Cleanup"
     \/ Reads({"AuthError"}) /\ operation \in {"StartSession", "Cancel"}
  /\ Client(Fail(conversation), NoUser, FALSE, session_started)
  /\ Returns(call, "Err")

UnexpectedAuthMessage ==
  /\ Reads({"Prompt", "Info"})
  /\ operation # "Authenticate"
  /\ Client(Fail(conversation), pending_identity, FALSE, session_started)
  /\ Returns(call, "Err")

\* the error of exhausted identifiers leaves the conversation where it is
ReceivePrompt ==
  /\ Reads({"Prompt"})
  /\ operation = "Authenticate"
  /\ IF CanEmitPrompt(conversation)
     THEN /\ Client(EmitPrompt(conversation), pending_identity, starting_session,
                    session_started)
          /\ Returns(call, "Ok")
     ELSE /\ Client(conversation, pending_identity, starting_session, session_started)
          /\ Returns(call, "Err")

AcknowledgeMessageAsAnswer ==
  /\ Reads({"Info"})
  /\ operation = "Authenticate"
  /\ Client(EmitMessage(conversation), pending_identity, starting_session, session_started)
  /\ Continues("Authenticate", Plain("Answer"))
AcknowledgeMessage ==
  /\ Reads({"Info"})
  /\ operation = "Authenticate"
  /\ CanEmitMessage(conversation)
  /\ Client(EmitMessage(conversation), pending_identity, starting_session, session_started)
  /\ Continues("Authenticate", Plain("Acknowledge"))

-----------------------------------------------------------------------------
Init ==
  /\ conversation = NewConversation
  /\ pending_identity = NoUser
  /\ starting_session = FALSE
  /\ session_started = FALSE
  /\ call = "none"
  /\ operation = "Authenticate"
  /\ wire = NoFrame
  /\ lost = FALSE
  /\ greetd = EmptySlot
  /\ rest = [op |-> "connect", state |-> "Idle", session |-> "none", result |-> "Ok"]

Calls == CreateSession \/ Respond \/ StartSession \/ Cancel

DriveStep ==
  \/ HandleAuthenticateSuccess \/ HandleStartSuccess \/ HandleCancelSuccess
  \/ FinishAuthenticationFailureCleanup \/ CleanUpAfterRejection \/ HandleServerError
  \/ UnexpectedAuthMessage \/ ReceivePrompt \/ AcknowledgeMessage

Next == Calls \/ Drain \/ DriveStep \/ TransportFails \/ GreetdHandles

Spec == Init /\ [][Next]_vars

\* the client thread runs and greetd answers what it read, in a bounded number of messages
FairSpec == Spec /\ WF_vars(Drain) /\ WF_vars(DriveStep) /\ WF_vars(GreetdHandles)

-----------------------------------------------------------------------------
(* Properties. *)

CallNames == {"none", "returned", "begin_login", "respond", "start_session", "cancel"}

\* Every variable keeps its type; an identity is pending only while it can still be
\* authenticated.
TypeOK ==
  /\ conversation \in Conversations
  /\ pending_identity \in Users \cup {NoUser}
  /\ starting_session \in BOOLEAN
  /\ session_started \in BOOLEAN
  /\ call \in CallNames
  /\ operation \in Operations
  /\ wire \in [kind : RequestKinds \cup ResponseKinds \cup {"none"}, user : Users \cup {NoUser}]
  /\ lost \in BOOLEAN
  /\ greetd \in [phase : {"none", "asking", "telling", "ready", "rejected", "broken", "started"},
                 user : Users \cup {NoUser}, told : 0 .. MaxMessages]

\* Between calls, a session greetd still holds is one the client would cancel or has
\* started, unless the connection is lost or the last login ended with a service error.
\* After a rejected or cancelled login the slot is empty, so that the next
\* CreateSession is not refused (client.rs:199-207; DESIGN.md:922-931).
SlotAccountedFor ==
  call \in {"none", "returned"} /\ greetd.phase # "none" =>
    \/ CanCancel
    \/ session_started /\ greetd.phase = "started"
    \/ conversation.state = "Disconnected"
    \/ conversation.state = "Failed" /\ rest.result = "Err"

\* The client takes a login for authenticated, or its session for started, only as
\* greetd does, and it announces the user greetd authenticated, however many messages,
\* prompts and earlier logins came before; MissingIdentity cannot happen.
AuthenticatedAsGreetdDoes ==
  /\ conversation.state = "Authenticated" => greetd.phase \in {"ready", "started"}
  /\ session_started => greetd.phase = "started"
  /\ wire.kind = "Success" /\ operation = "Authenticate" => pending_identity = greetd.user

\* greetd gets an answer only while it awaits one and an acknowledgement only for an
\* informational message: a prompt is never answered twice nor a message with a secret
\* (client.rs:125-135, 236-246).
AnswersMatchPrompts ==
  /\ wire.kind = "Answer"      => greetd.phase = "asking"
  /\ wire.kind = "Acknowledge" => greetd.phase = "telling"

\* Once an exchange failed nothing is ever written again: no user name, answer or
\* session is replayed on a connection whose state is unknown (DESIGN.md:929-935).
NoReplay == lost => wire = NoFrame

\* Every call returns if greetd answers: drive() cannot loop for ever.
CallReturns == call # "none" ~> call = "none"

\* GreeterClient implements the contract the greeter's controller is written against.
Contract == INSTANCE LoginBackend
              WITH op <- rest.op, state <- rest.state, session <- rest.session,
                   result <- rest.result
ImplementsContract == Contract!Spec
=============================================================================
