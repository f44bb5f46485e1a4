------------------------- MODULE GreetdClientProofs -------------------------
(***************************************************************************)
(* Proofs about GreetdClient for every set of users, every number of       *)
(* prompts and every number of messages.  ClientInv is the inductive       *)
(* strengthening of what the run checks: which exchange is under way, what *)
(* the conversation is in meanwhile, and what greetd then holds.           *)
(***************************************************************************)
EXTENDS GreetdClient, AuthConversationProofs

-----------------------------------------------------------------------------
(* The inductive invariant. *)

Exchanging == wire.kind # "none"

\* A frame is on the wire exactly during a call, and a request belongs to its operation.
WireInv ==
  /\ Exchanging <=> call \notin {"none", "returned"}
  /\ ~Exchanging => wire = NoFrame
  /\ wire.kind \in {"CreateSession", "Answer", "Acknowledge"} => operation = "Authenticate"
  /\ wire.kind = "StartSession"  => operation = "StartSession"
  /\ wire.kind = "CancelSession" => operation \in {"Cancel", "Cleanup"}

\* What the conversation is in during each operation, and what ends with it.
StateInv ==
  /\ Exchanging /\ operation = "Authenticate" => conversation.state = "Authenticating"
  /\ Exchanging /\ operation = "StartSession" => conversation.state = "Authenticated"
  /\ Exchanging /\ operation \in {"Cancel", "Cleanup"} => conversation.state = "Cancelling"
  /\ conversation.state = "Cancelling" => Exchanging
  /\ starting_session => Exchanging /\ operation = "StartSession"
  /\ session_started => /\ ~Exchanging
                        /\ conversation.state = "Authenticated"
                        /\ greetd.phase = "started"
  /\ lost => ~Exchanging /\ conversation.state = "Disconnected"

\* What greetd holds at each point of an operation.
Holds(phase) == greetd.phase = phase /\ greetd.user = pending_identity

ExchangeInv ==
  /\ wire.kind = "CreateSession" => wire.user = pending_identity
  /\ operation = "Authenticate" =>
       /\ wire.kind \in {"Answer", "Prompt"}    => Holds("asking")
       /\ wire.kind \in {"Acknowledge", "Info"} => Holds("telling")
       /\ wire.kind = "Success"                 => Holds("ready")
       /\ wire.kind = "AuthError"               => greetd.phase = "rejected"
  /\ Exchanging /\ operation = "StartSession" =>
       greetd.phase = IF wire.kind = "Success" THEN "started" ELSE "ready"
  /\ Exchanging /\ operation \in {"Cancel", "Cleanup"} =>
       IF wire.kind = "CancelSession" THEN greetd.phase # "started" ELSE greetd.phase = "none"

\* ... and at rest.
RestInv ==
  ~Exchanging =>
    /\ conversation.state = "Idle" => greetd.phase = "none"
    /\ conversation.state = "Waiting" => Holds("asking")
    /\ conversation.state = "Authenticating" => greetd.phase = "asking"
    /\ conversation.state = "Authenticated" => greetd.phase = "ready" \/ session_started
    /\ conversation.state = "Failed" /\ greetd.phase # "none" => rest.result = "Err"

ClientInv == TypeOK /\ WireInv /\ StateInv /\ ExchangeInv /\ RestInv

-----------------------------------------------------------------------------
(* greetd: what its replies make of the session slot. *)

Slots == [phase : {"none", "asking", "telling", "ready", "rejected", "broken", "started"},
          user : Users \cup {NoUser}, told : 0 .. MaxMessages]
WireFrames == [kind : RequestKinds \cup ResponseKinds \cup {"none"}, user : Users \cup {NoUser}]

\* The type invariant in the words of the lemmas.
LEMMA TypeWords ==
  TypeOK => conversation \in Conversations /\ greetd \in Slots /\ wire \in WireFrames
  BY DEF TypeOK, Slots, WireFrames

\* The authentication goes on with the user it was begun for.
LEMMA ConversingReplies ==
  ASSUME NEW slot \in Slots, NEW r \in Conversing(slot)
  PROVE  /\ r.slot \in Slots /\ r.response \in ResponseKinds
         /\ r.response \in {"Success", "AuthError", "Prompt", "Info"} => r.slot.user = slot.user
         /\ r.response = "Prompt"    => r.slot.phase = "asking"
         /\ r.response = "Info"      => r.slot.phase = "telling"
         /\ r.response = "Success"   => r.slot.phase = "ready"
         /\ r.response = "AuthError" => r.slot.phase = "rejected"
<1> DEFINE moved(phase) == [slot EXCEPT !.phase = phase]
           talked(phase) == [slot EXCEPT !.phase = phase, !.told = @ + 1]
<1>1. slot.told # MaxMessages => slot.told + 1 \in 0 .. MaxMessages
  BY MaxMessagesAssumption DEF Slots
<1>2. EmptySlot \in Slots
  BY MaxMessagesAssumption DEF Slots, EmptySlot, Slot
<1>3. CASE r = Reply("Success", moved("ready"))
  BY <1>3 DEF Reply, ResponseKinds, Slots
<1>4. CASE r = Reply("AuthError", moved("rejected"))
  BY <1>4 DEF Reply, ResponseKinds, Slots
<1>5. CASE r \in {Reply("Error", moved("broken")), Reply("Error", EmptySlot)}
  BY <1>2, <1>5 DEF Reply, ResponseKinds, Slots
<1>6. CASE slot.told # MaxMessages /\ r = Reply("Prompt", talked("asking"))
  BY <1>1, <1>6 DEF Reply, ResponseKinds, Slots
<1>7. CASE slot.told # MaxMessages /\ r = Reply("Info", talked("telling"))
  BY <1>1, <1>7 DEF Reply, ResponseKinds, Slots
<1> QED BY <1>3, <1>4, <1>5, <1>6, <1>7 DEF Conversing

\* What each request can come to.
LEMMA RequestReplies ==
  ASSUME NEW slot \in Slots, NEW q \in WireFrames, q.kind \in RequestKinds,
         NEW r \in GreetdReplies(q, slot)
  PROVE  /\ r.slot \in Slots /\ r.response \in ResponseKinds
         /\ q.kind \in {"CreateSession", "Answer", "Acknowledge"} =>
              /\ r.response \in {"Success", "Prompt", "Info"} =>
                   r.slot.user = IF q.kind = "CreateSession" THEN q.user ELSE slot.user
              /\ r.response = "Prompt"    => r.slot.phase = "asking"
              /\ r.response = "Info"      => r.slot.phase = "telling"
              /\ r.response = "Success"   => r.slot.phase = "ready"
              /\ r.response = "AuthError" => r.slot.phase = "rejected"
         /\ q.kind = "StartSession" /\ slot.phase = "ready" =>
              r.slot.phase = IF r.response = "Success" THEN "started" ELSE "ready"
         /\ q.kind = "CancelSession" /\ slot.phase # "started" => r.slot.phase = "none"
<1> DEFINE first == Slot("asking", q.user, 0)
<1>1. first \in Slots /\ first.user = q.user
  BY MaxMessagesAssumption DEF Slots, Slot, WireFrames
<1>2. CASE q.kind = "CreateSession" /\ slot.phase = "none"
  <2>1. r \in Conversing(first)
    BY <1>2 DEF GreetdReplies
  <2> HIDE DEF first
  <2> QED BY <1>1, <1>2, <2>1, ConversingReplies
<1>3. CASE \/ q.kind = "Answer" /\ slot.phase = "asking"
           \/ q.kind = "Acknowledge" /\ slot.phase = "telling"
  <2>1. r \in Conversing(slot)
    BY <1>3 DEF GreetdReplies
  <2> QED BY <1>3, <2>1, ConversingReplies
<1>4. CASE q.kind = "StartSession" /\ slot.phase = "ready"
  <2>1. \/ r = Reply("Success", [slot EXCEPT !.phase = "started"])
        \/ \E k \in {"Error", "AuthError", "Prompt"} : r = Reply(k, slot)
    BY <1>4 DEF GreetdReplies
  <2> QED BY <1>4, <2>1 DEF Reply, ResponseKinds, Slots
<1>5. CASE q.kind = "CancelSession" /\ slot.phase # "started"
  <2>1. \E k \in {"Success", "Error", "AuthError", "Info"} : r = Reply(k, EmptySlot)
    BY <1>5 DEF GreetdReplies
  <2> QED BY <1>5, <2>1, MaxMessagesAssumption DEF Reply, ResponseKinds, Slots, EmptySlot, Slot
<1>6. CASE /\ r = Reply("Error", slot)
           /\ ~(q.kind = "StartSession" /\ slot.phase = "ready")
           /\ ~(q.kind = "CancelSession" /\ slot.phase # "started")
  BY <1>6 DEF Reply, ResponseKinds
<1>7. \/ q.kind = "CreateSession" /\ slot.phase = "none"
      \/ q.kind = "Answer" /\ slot.phase = "asking"
      \/ q.kind = "Acknowledge" /\ slot.phase = "telling"
      \/ q.kind = "StartSession" /\ slot.phase = "ready"
      \/ q.kind = "CancelSession" /\ slot.phase # "started"
      \/ r = Reply("Error", slot)
  BY DEF GreetdReplies
<1> QED BY <1>2, <1>3, <1>4, <1>5, <1>6, <1>7

-----------------------------------------------------------------------------
(* The steps keep the invariant. *)

\* greetd's answer belongs to the request that was on the wire.
LEMMA GreetdHandlesKeeps == ASSUME ClientInv, GreetdHandles PROVE ClientInv'
<1>1. PICK r \in GreetdReplies(wire, greetd) : greetd' = r.slot /\ wire' = Plain(r.response)
  BY DEF GreetdHandles
<1>2. /\ greetd \in Slots /\ wire \in WireFrames /\ wire.kind \in RequestKinds
      /\ UNCHANGED <<conversation, pending_identity, starting_session, session_started,
                     call, operation, lost, rest>>
  BY TypeWords DEF ClientInv, GreetdHandles
<1>3. /\ wire' = [kind |-> r.response, user |-> NoUser]
      /\ r.response \in ResponseKinds /\ r.slot \in Slots
  BY <1>1, <1>2, RequestReplies DEF Plain, Frame
<1>4. TypeOK'
  BY <1>1, <1>2, <1>3 DEF ClientInv, TypeOK, Slots
<1>5. /\ Exchanging /\ Exchanging' /\ wire'.kind \notin RequestKinds
      /\ wire'.kind = r.response
  BY <1>2, <1>3 DEF Exchanging, RequestKinds, ResponseKinds
<1>6. WireInv' /\ StateInv'
  BY <1>2, <1>5 DEF ClientInv, WireInv, StateInv, RequestKinds
<1>7. ExchangeInv'
  BY <1>1, <1>2, <1>5, RequestReplies
     DEF ClientInv, WireInv, ExchangeInv, Holds, RequestKinds
<1>8. RestInv'
  BY <1>5 DEF RestInv
<1> QED BY <1>4, <1>6, <1>7, <1>8 DEF ClientInv

\* What is on the wire after a call has returned.
LEMMA ReturnsEffect ==
  ASSUME NEW name, NEW result, Returns(name, result)
  PROVE  /\ wire' \in WireFrames /\ wire' = NoFrame /\ wire'.kind = "none" /\ ~Exchanging'
         /\ call' = "returned" /\ operation' = "Authenticate"
         /\ rest'.result = result /\ greetd' = greetd
  BY DEF Returns, NoFrame, Plain, Frame, WireFrames, Exchanging

\* What is on the wire after a request was written.
LEMMA WritesEffect ==
  ASSUME NEW k \in RequestKinds, NEW u \in Users \cup {NoUser}, wire' = Frame(k, u)
  PROVE  /\ wire' \in WireFrames /\ wire'.kind = k /\ wire'.user = u /\ Exchanging'
  BY DEF Frame, WireFrames, RequestKinds, Exchanging

\* A lost exchange ends the call and everything after it.
LEMMA TransportFailsKeeps == ASSUME ClientInv, TransportFails PROVE ClientInv'
<1>1. /\ conversation' \in Conversations /\ conversation'.state = "Disconnected"
      /\ pending_identity' = NoUser /\ starting_session' = FALSE
      /\ session_started' = session_started /\ lost' = TRUE
  BY QuietMethods, TypeWords DEF ClientInv, TransportFails, Client
<1>2. Returns(call, "Err") /\ Exchanging
  BY DEF ClientInv, WireInv, TransportFails
<1>3. TypeOK'
  BY <1>1, <1>2, ReturnsEffect DEF ClientInv, TypeOK, CallNames, Operations, WireFrames
<1>4. WireInv' /\ StateInv' /\ ExchangeInv' /\ RestInv'
  BY <1>1, <1>2, ReturnsEffect DEF ClientInv, WireInv, StateInv, ExchangeInv, RestInv
<1> QED BY <1>3, <1>4 DEF ClientInv

\* A refused call changes nothing but the call that returned last.
LEMMA RefuseKeeps ==
  ASSUME ClientInv, NEW name, call = "none", Refuse(name)
  PROVE  ClientInv'
<1>1. /\ Returns(name, "Err") /\ ~Exchanging
      /\ UNCHANGED <<conversation, pending_identity, starting_session, session_started, lost>>
  BY DEF ClientInv, WireInv, Refuse
<1>2. TypeOK'
  BY <1>1, ReturnsEffect DEF ClientInv, TypeOK, CallNames, Operations, WireFrames
<1>3. WireInv' /\ StateInv' /\ ExchangeInv' /\ RestInv'
  BY <1>1, ReturnsEffect DEF ClientInv, WireInv, StateInv, ExchangeInv, RestInv, Holds
<1> QED BY <1>2, <1>3 DEF ClientInv

\* A call that is not refused writes its request.
LEMMA CallsKeep == ASSUME ClientInv, Calls PROVE ClientInv'
<1>1. call = "none" /\ ~Exchanging /\ conversation \in Conversations
  BY TypeWords DEF ClientInv, WireInv, Calls, CreateSession, Respond, StartSession, Cancel,
                   BetweenCalls
<1>2. ASSUME CanBegin(conversation), NEW u \in Users,
             Client(Begin(conversation), u, FALSE, FALSE),
             Drive("begin_login", "Authenticate", Frame("CreateSession", u))
      PROVE  ClientInv'
  <2>1. /\ conversation' \in Conversations /\ conversation'.state = "Authenticating"
        /\ wire'.kind = "CreateSession" /\ wire'.user = u /\ wire' \in WireFrames /\ Exchanging'
    BY <1>1, <1>2, QuietMethods, WritesEffect DEF Client, Drive, RequestKinds
  <2>2. TypeOK'
    BY <1>2, <2>1 DEF ClientInv, TypeOK, Client, Drive, CallNames, Operations, WireFrames
  <2>3. conversation.state \in {"Idle", "Failed"} /\ lost' = lost
    BY <1>2 DEF CanBegin, Drive
  <2>4. WireInv' /\ StateInv' /\ ExchangeInv' /\ RestInv'
    BY <1>1, <1>2, <2>1, <2>3
       DEF ClientInv, WireInv, StateInv, ExchangeInv, RestInv, Client, Drive
  <2> QED BY <2>2, <2>4 DEF ClientInv
<1>3. ASSUME NEW p, CanRespond(conversation, p),
             Client(BeginResponse(conversation), pending_identity, starting_session,
                    session_started),
             Drive("respond", "Authenticate", Plain("Answer"))
      PROVE  ClientInv'
  <2>1. /\ conversation' \in Conversations /\ conversation'.state = "Authenticating"
        /\ wire'.kind = "Answer" /\ wire' \in WireFrames /\ Exchanging'
    BY <1>1, <1>3, QuietMethods, WritesEffect DEF Client, Drive, RequestKinds, Plain
  <2>2. TypeOK'
    BY <1>3, <2>1 DEF ClientInv, TypeOK, Client, Drive, CallNames, Operations, WireFrames
  <2>3. conversation.state = "Waiting" /\ Holds("asking") /\ lost' = lost
    BY <1>1, <1>3 DEF CanRespond, ClientInv, RestInv, Drive
  <2>4. WireInv' /\ StateInv' /\ ExchangeInv' /\ RestInv'
    BY <1>1, <1>3, <2>1, <2>3
       DEF ClientInv, WireInv, StateInv, ExchangeInv, RestInv, Client, Drive, Holds
  <2> QED BY <2>2, <2>4 DEF ClientInv
<1>4. ASSUME CanStartSession, Client(conversation, pending_identity, TRUE, FALSE),
             Drive("start_session", "StartSession", Plain("StartSession"))
      PROVE  ClientInv'
  <2>1. wire'.kind = "StartSession" /\ wire' \in WireFrames /\ Exchanging'
    BY <1>4, WritesEffect DEF Drive, RequestKinds, Plain
  <2>2. TypeOK'
    BY <1>4, <2>1 DEF ClientInv, TypeOK, Client, Drive, CallNames, Operations, WireFrames
  <2>3. conversation.state = "Authenticated" /\ greetd.phase = "ready" /\ ~lost /\ lost' = lost
    BY <1>1, <1>4 DEF CanStartSession, ClientInv, RestInv, StateInv, Drive
  <2>4. WireInv' /\ StateInv' /\ ExchangeInv' /\ RestInv'
    BY <1>1, <1>4, <2>1, <2>3
       DEF ClientInv, WireInv, StateInv, ExchangeInv, RestInv, Client, Drive, Holds
  <2> QED BY <2>2, <2>4 DEF ClientInv
<1>5. ASSUME CanCancel, Client(BeginCancel(conversation), NoUser, FALSE, FALSE),
             Drive("cancel", "Cancel", Plain("CancelSession"))
      PROVE  ClientInv'
  <2>1. /\ conversation' \in Conversations /\ conversation'.state = "Cancelling"
        /\ wire'.kind = "CancelSession" /\ wire' \in WireFrames /\ Exchanging'
    BY <1>1, <1>5, QuietMethods, WritesEffect DEF Client, Drive, RequestKinds, Plain
  <2>2. TypeOK'
    BY <1>5, <2>1 DEF ClientInv, TypeOK, Client, Drive, CallNames, Operations, WireFrames
  <2>3. greetd.phase # "started" /\ ~lost /\ lost' = lost
    BY <1>1, <1>5 DEF CanCancel, NeedsCancel, ClientInv, RestInv, StateInv, Holds, Drive
  <2>4. WireInv' /\ StateInv' /\ ExchangeInv' /\ RestInv'
    BY <1>1, <1>5, <2>1, <2>3
       DEF ClientInv, WireInv, StateInv, ExchangeInv, RestInv, Client, Drive, Holds
  <2> QED BY <2>2, <2>4 DEF ClientInv
<1> QED BY <1>1, <1>2, <1>3, <1>4, <1>5, RefuseKeeps
        DEF Calls, CreateSession, Respond, StartSession, Cancel

\* Draining the events changes nothing the invariant speaks of.
LEMMA DrainKeeps == ASSUME ClientInv, Drain PROVE ClientInv'
<1>1. /\ conversation' \in Conversations /\ conversation'.state = conversation.state
      /\ call = "returned" /\ call' = "none"
      /\ UNCHANGED <<pending_identity, starting_session, session_started, operation, wire,
                     lost, greetd, rest>>
  BY QuietMethods, TypeWords DEF ClientInv, Drain
<1>2. TypeOK'
  BY <1>1 DEF ClientInv, TypeOK, CallNames
<1>3. WireInv' /\ StateInv' /\ ExchangeInv' /\ RestInv'
  BY <1>1 DEF ClientInv, WireInv, StateInv, ExchangeInv, RestInv, Holds, Exchanging
<1> QED BY <1>2, <1>3 DEF ClientInv

-----------------------------------------------------------------------------
(* drive(): one response per turn. *)

\* A response that ends the call.  What remains to be shown of each is the conversation it
\* leaves and that greetd's slot fits it.
LEMMA ReturningKeeps ==
  ASSUME ClientInv, Exchanging, UNCHANGED lost,
         NEW result, Returns(call, result),
         NEW c \in Conversations, NEW identity \in Users \cup {NoUser}, NEW started \in BOOLEAN,
         Client(c, identity, FALSE, started),
         started => c.state = "Authenticated" /\ greetd.phase = "started",
         c.state # "Cancelling",
         c.state = "Idle" => greetd.phase = "none",
         c.state = "Waiting" => greetd.phase = "asking" /\ greetd.user = identity,
         c.state = "Authenticating" => greetd.phase = "asking",
         c.state = "Authenticated" => greetd.phase = "ready" \/ started,
         c.state = "Failed" /\ greetd.phase # "none" => result = "Err"
  PROVE  ClientInv'
<1>1. /\ conversation' = c /\ pending_identity' = identity
      /\ starting_session' = FALSE /\ session_started' = started
  BY DEF Client
<1>2. TypeOK'
  BY <1>1, ReturnsEffect DEF ClientInv, TypeOK, CallNames, Operations, WireFrames
<1>3. ~lost
  BY DEF ClientInv, StateInv
<1>4. WireInv' /\ StateInv' /\ ExchangeInv' /\ RestInv'
  BY <1>1, <1>3, ReturnsEffect DEF ClientInv, WireInv, StateInv, ExchangeInv, RestInv, Holds
<1> QED BY <1>2, <1>4 DEF ClientInv

\* What holds when a response is read.
LEMMA ReadsEffect ==
  ASSUME ClientInv, NEW kinds \in SUBSET ResponseKinds, Reads(kinds)
  PROVE  /\ Exchanging /\ wire.kind \in kinds /\ UNCHANGED lost
         /\ conversation \in Conversations /\ pending_identity \in Users \cup {NoUser}
         /\ ~session_started /\ session_started = FALSE
         /\ operation # "StartSession" => starting_session = FALSE
  BY TypeWords DEF ClientInv, Reads, StateInv, TypeOK, Exchanging, ResponseKinds

\* A response that ends the call.
LEMMA EndingStepKeeps ==
  ASSUME ClientInv,
         \/ HandleAuthenticateSuccess \/ HandleStartSuccess \/ HandleCancelSuccess
         \/ FinishAuthenticationFailureCleanup \/ HandleServerError
         \/ UnexpectedAuthMessage \/ ReceivePrompt
  PROVE  ClientInv'
<1>1. CASE HandleAuthenticateSuccess
  <2>1. Reads({"Success"}) /\ operation = "Authenticate" /\ {"Success"} \in SUBSET ResponseKinds
    BY <1>1 DEF HandleAuthenticateSuccess, ResponseKinds
  <2>2. Exchanging /\ greetd.phase = "ready" /\ starting_session = FALSE /\ session_started = FALSE
    BY <2>1, ReadsEffect DEF ClientInv, ExchangeInv, Holds, Reads
  <2>3. \/ /\ Client(Fail(conversation), NoUser, FALSE, FALSE)
           /\ Returns(call, "Err")
        \/ /\ Client(Authenticate(conversation), NoUser, FALSE, FALSE)
           /\ Returns(call, "Ok")
    BY <1>1, <2>2 DEF HandleAuthenticateSuccess
  <2> QED BY <2>1, <2>2, <2>3, ReadsEffect, ReturningKeeps, QuietMethods, AnnouncingMethods
<1>2. CASE HandleStartSuccess
  <2>1. Reads({"Success"}) /\ operation = "StartSession" /\ {"Success"} \in SUBSET ResponseKinds
    BY <1>2 DEF HandleStartSuccess, ResponseKinds
  <2>2. greetd.phase = "started" /\ conversation.state = "Authenticated"
    BY <2>1, ReadsEffect DEF ClientInv, ExchangeInv, StateInv
  <2> QED BY <1>2, <2>1, <2>2, ReadsEffect, ReturningKeeps DEF HandleStartSuccess
<1>3. CASE HandleCancelSuccess
  <2>1. Reads({"Success"}) /\ operation = "Cancel" /\ {"Success"} \in SUBSET ResponseKinds
    BY <1>3 DEF HandleCancelSuccess, ResponseKinds
  <2>2. greetd.phase = "none"
    BY <2>1, ReadsEffect DEF ClientInv, ExchangeInv
  <2>3. /\ Client(FinishCancel(conversation), pending_identity, FALSE, FALSE)
        /\ Returns(call, "Ok")
    BY <1>3, <2>1, ReadsEffect DEF HandleCancelSuccess
  <2> QED BY <2>1, <2>2, <2>3, ReadsEffect, ReturningKeeps, AnnouncingMethods
<1>4. CASE FinishAuthenticationFailureCleanup
  <2> DEFINE kinds == {"Success", "Error", "AuthError"}
  <2>1. Reads(kinds) /\ operation = "Cleanup" /\ kinds \in SUBSET ResponseKinds
    BY <1>4 DEF FinishAuthenticationFailureCleanup, ResponseKinds
  <2>2. greetd.phase = "none"
    BY <2>1, ReadsEffect DEF ClientInv, ExchangeInv
  <2>3. /\ Client(AuthenticationFailed(conversation), pending_identity, FALSE, FALSE)
        /\ Returns(call, "Ok")
    BY <1>4, <2>1, ReadsEffect DEF FinishAuthenticationFailureCleanup
  <2> QED BY <2>1, <2>2, <2>3, ReadsEffect, ReturningKeeps, AnnouncingMethods
<1>5. CASE HandleServerError
  <2> DEFINE kinds == {"Error", "AuthError"}
  <2>1. Reads(kinds) /\ kinds \in SUBSET ResponseKinds
    BY <1>5 DEF HandleServerError, Reads, ResponseKinds
  <2>2. Client(Fail(conversation), NoUser, FALSE, FALSE) /\ Returns(call, "Err")
    BY <1>5, <2>1, ReadsEffect DEF HandleServerError
  <2> QED BY <2>1, <2>2, ReadsEffect, ReturningKeeps, QuietMethods
<1>6. CASE UnexpectedAuthMessage
  <2> DEFINE kinds == {"Prompt", "Info"}
  <2>1. Reads(kinds) /\ kinds \in SUBSET ResponseKinds
    BY <1>6 DEF UnexpectedAuthMessage, ResponseKinds
  <2>2. Client(Fail(conversation), pending_identity, FALSE, FALSE) /\ Returns(call, "Err")
    BY <1>6, <2>1, ReadsEffect DEF UnexpectedAuthMessage
  <2> QED BY <2>1, <2>2, ReadsEffect, ReturningKeeps, QuietMethods
<1>7. CASE ReceivePrompt
  <2>1. Reads({"Prompt"}) /\ operation = "Authenticate" /\ {"Prompt"} \in SUBSET ResponseKinds
    BY <1>7 DEF ReceivePrompt, ResponseKinds
  <2>2. Holds("asking") /\ conversation.state = "Authenticating"
    BY <2>1, ReadsEffect DEF ClientInv, ExchangeInv, StateInv
  <2>3. \/ /\ CanEmitPrompt(conversation)
           /\ Client(EmitPrompt(conversation), pending_identity, FALSE, FALSE)
           /\ Returns(call, "Ok")
        \/ /\ Client(conversation, pending_identity, FALSE, FALSE)
           /\ Returns(call, "Err")
    BY <1>7, <2>1, ReadsEffect DEF ReceivePrompt
  <2> QED BY <2>1, <2>2, <2>3, ReadsEffect, ReturningKeeps, EmitPromptType DEF Holds
<1> QED BY <1>1, <1>2, <1>3, <1>4, <1>5, <1>6, <1>7

\* A response drive() answers with a request of its own.
LEMMA ContinuingStepKeeps ==
  ASSUME ClientInv, CleanUpAfterRejection \/ AcknowledgeMessage
  PROVE  ClientInv'
<1>1. CASE CleanUpAfterRejection
  <2>1. /\ Reads({"AuthError"}) /\ operation = "Authenticate"
        /\ {"AuthError"} \in SUBSET ResponseKinds
    BY <1>1 DEF CleanUpAfterRejection, ResponseKinds
  <2>2. /\ conversation' \in Conversations /\ conversation'.state = "Cancelling"
        /\ pending_identity' = NoUser /\ starting_session' = FALSE /\ session_started' = FALSE
        /\ wire'.kind = "CancelSession" /\ wire' \in WireFrames /\ Exchanging'
        /\ operation' = "Cleanup" /\ UNCHANGED <<call, greetd, rest, lost>>
    BY <1>1, <2>1, ReadsEffect, QuietMethods, WritesEffect
       DEF CleanUpAfterRejection, Client, Continues, Plain, RequestKinds
  <2>3. greetd.phase = "rejected" /\ Exchanging /\ ~lost
    BY <2>1, ReadsEffect DEF ClientInv, ExchangeInv, StateInv
  <2>4. TypeOK'
    BY <2>2 DEF ClientInv, TypeOK, Operations, WireFrames
  <2>5. WireInv' /\ StateInv' /\ ExchangeInv' /\ RestInv'
    BY <2>2, <2>3 DEF ClientInv, WireInv, StateInv, ExchangeInv, RestInv
  <2> QED BY <2>4, <2>5 DEF ClientInv
<1>2. CASE AcknowledgeMessage
  <2>1. Reads({"Info"}) /\ operation = "Authenticate" /\ {"Info"} \in SUBSET ResponseKinds
    BY <1>2 DEF AcknowledgeMessage, ResponseKinds
  <2>2. /\ conversation' \in Conversations /\ conversation'.state = conversation.state
        /\ UNCHANGED <<pending_identity, starting_session, session_started>>
        /\ wire'.kind = "Acknowledge" /\ wire' \in WireFrames /\ Exchanging'
        /\ operation' = "Authenticate" /\ UNCHANGED <<call, greetd, rest, lost>>
    BY <1>2, <2>1, ReadsEffect, AnnouncingMethods, WritesEffect
       DEF AcknowledgeMessage, Client, Continues, Plain, RequestKinds
  <2>3. Holds("telling") /\ Exchanging /\ conversation.state = "Authenticating"
    BY <2>1, ReadsEffect DEF ClientInv, ExchangeInv, StateInv
  <2>4. TypeOK'
    BY <2>2 DEF ClientInv, TypeOK, Operations, WireFrames
  <2>5. WireInv' /\ StateInv' /\ ExchangeInv' /\ RestInv'
    BY <2>1, <2>2, <2>3 DEF ClientInv, WireInv, StateInv, ExchangeInv, RestInv, Holds
  <2> QED BY <2>4, <2>5 DEF ClientInv
<1> QED BY <1>1, <1>2

-----------------------------------------------------------------------------
(* The theorems. *)

\* A client that has just connected, and a greetd without a session.
LEMMA InitClient == Init => ClientInv
<1> SUFFICES ASSUME Init PROVE ClientInv
  OBVIOUS
<1>1. NewConversation \in Conversations /\ NewConversation.state = "Idle"
  <2>1. <<>> \in Seq(AuthEvents) /\ 1 \in 1 .. MaxPromptId
    BY MaxPromptIdAssumption
  <2> QED BY <2>1, NoPromptType DEF NewConversation, Conversations, AuthStates
<1>2. EmptySlot \in Slots /\ EmptySlot.phase = "none"
  BY MaxMessagesAssumption DEF EmptySlot, Slot, Slots
<1>3. wire = NoFrame /\ wire.kind = "none" /\ wire \in WireFrames /\ ~Exchanging
  BY DEF Init, NoFrame, Plain, Frame, WireFrames, Exchanging
<1>4. TypeOK
  BY <1>1, <1>2, <1>3 DEF Init, TypeOK, CallNames, Operations, Slots, WireFrames
<1>5. WireInv /\ StateInv /\ ExchangeInv /\ RestInv
  BY <1>1, <1>2, <1>3 DEF Init, WireInv, StateInv, ExchangeInv, RestInv
<1> QED BY <1>4, <1>5 DEF ClientInv

\* The inductive invariant holds: at every step of every call the conversation, the frame
\* on the wire and greetd's session slot fit each other.
THEOREM ClientCorrect == Spec => []ClientInv
<1>1. ASSUME ClientInv, [Next]_vars PROVE ClientInv'
  <2>1. CASE Next
    BY <1>1, <2>1, CallsKeep, DrainKeeps, EndingStepKeeps, ContinuingStepKeeps,
       TransportFailsKeeps, GreetdHandlesKeeps
       DEF Next, DriveStep
  <2>2. CASE UNCHANGED vars
    BY <1>1, <2>2
       DEF vars, ClientInv, TypeOK, WireInv, StateInv, ExchangeInv, RestInv, Exchanging, Holds
  <2> QED BY <1>1, <2>1, <2>2
<1> QED BY <1>1, InitClient, PTL DEF Spec

\* Every variable keeps its type, for every limit of prompts and messages.
THEOREM ClientTypeCorrect == Spec => []TypeOK
<1>1. ClientInv => TypeOK
  BY DEF ClientInv
<1> QED BY <1>1, ClientCorrect, PTL

\* After a rejected or cancelled login greetd's slot is empty; a session it still holds is
\* one the client would cancel or has started, or that an error has cut off
\* (client.rs:199-207).
THEOREM SlotIsAccountedFor == Spec => []SlotAccountedFor
<1>1. ClientInv => SlotAccountedFor
  <2> SUFFICES ASSUME ClientInv, call \in {"none", "returned"}, greetd.phase # "none"
               PROVE  \/ CanCancel
                      \/ session_started /\ greetd.phase = "started"
                      \/ conversation.state = "Disconnected"
                      \/ conversation.state = "Failed" /\ rest.result = "Err"
    BY DEF SlotAccountedFor
  <2>1. ~Exchanging /\ ~starting_session /\ conversation.state # "Cancelling"
    BY DEF ClientInv, WireInv, StateInv
  <2>2. conversation.state \in AuthStates
    BY DEF ClientInv, TypeOK, Conversations
  <2> QED BY <2>1, <2>2 DEF ClientInv, StateInv, RestInv, CanCancel, NeedsCancel, AuthStates
<1> QED BY <1>1, ClientCorrect, PTL

\* The client takes a login for authenticated, or its session for started, only as greetd
\* does, and for the user it was begun for.
THEOREM AuthenticatedOnlyAsGreetdDoes == Spec => []AuthenticatedAsGreetdDoes
<1>1. ClientInv => AuthenticatedAsGreetdDoes
  <2> SUFFICES ASSUME ClientInv PROVE AuthenticatedAsGreetdDoes
    OBVIOUS
  <2>1. operation \in Operations
    BY DEF ClientInv, TypeOK
  <2>2. conversation.state = "Authenticated" => greetd.phase \in {"ready", "started"}
    BY <2>1 DEF ClientInv, StateInv, ExchangeInv, RestInv, Operations
  <2>3. wire.kind = "Success" /\ operation = "Authenticate" => pending_identity = greetd.user
    BY DEF ClientInv, ExchangeInv, Holds
  <2> QED BY <2>2, <2>3 DEF ClientInv, StateInv, AuthenticatedAsGreetdDoes
<1> QED BY <1>1, ClientCorrect, PTL

\* A prompt is never answered twice, nor a message answered with a secret.
THEOREM AnswersOnlyPrompts == Spec => []AnswersMatchPrompts
<1>1. ClientInv => AnswersMatchPrompts
  BY DEF ClientInv, WireInv, ExchangeInv, Holds, AnswersMatchPrompts
<1> QED BY <1>1, ClientCorrect, PTL

\* Nothing is written again after an exchange failed.
THEOREM NothingIsReplayed == Spec => []NoReplay
<1>1. ClientInv => NoReplay
  BY DEF ClientInv, WireInv, StateInv, NoReplay
<1> QED BY <1>1, ClientCorrect, PTL
-----------------------------------------------------------------------------
(* The contract: each call returns with an outcome of LoginBackend, and nothing else the *)
(* client and greetd do can be seen through it.                                          *)

\* What the call under way started from, and what greetd can hold until it returns.
CallInv ==
  /\ ~Exchanging => rest.state = conversation.state /\ rest.session = SessionOf(greetd)
  /\ call \in {"begin_login", "respond"} => operation \in {"Authenticate", "Cleanup"}
  /\ call = "begin_login" =>
       /\ rest.state \in {"Idle", "Failed"}
       /\ \/ rest.session = "none" /\ greetd.phase # "started"
          \/ /\ rest.session # "none" /\ rest.session = SessionOf(greetd)
             /\ operation = "Authenticate" /\ wire.kind \in {"CreateSession", "Error"}
  /\ call = "respond" => rest.state = "Waiting" /\ greetd.phase # "started"
  /\ call = "start_session" =>
       rest.state = "Authenticated" /\ rest.session = "open" /\ operation = "StartSession"
  /\ call = "cancel" =>
       /\ rest.state \in {"Authenticating", "Waiting", "Authenticated"} /\ rest.session = "open"
       /\ operation = "Cancel"
       /\ wire.kind = "CancelSession" => SessionOf(greetd) = "open"

\* greetd starts a session only when it is told to, and refuses a second login.
LEMMA NothingElseStarts ==
  ASSUME NEW slot \in Slots, NEW q \in WireFrames, NEW r \in GreetdReplies(q, slot)
  PROVE  /\ q.kind # "StartSession" /\ slot.phase # "started" => r.slot.phase # "started"
         /\ q.kind = "CreateSession" /\ slot.phase # "none" => r = Reply("Error", slot)
<1> DEFINE first == Slot("asking", q.user, 0)
<1>1. first \in Slots
  BY MaxMessagesAssumption DEF Slots, Slot, WireFrames
<1>2. ASSUME NEW s \in Slots, r \in Conversing(s) PROVE r.slot.phase # "started"
  <2>1. CASE r \in {Reply("Success",   [s EXCEPT !.phase = "ready"]),
                    Reply("AuthError", [s EXCEPT !.phase = "rejected"]),
                    Reply("Error",     [s EXCEPT !.phase = "broken"])}
    BY <2>1 DEF Reply, Slots
  <2>2. CASE r = Reply("Error", EmptySlot)
    BY <2>2 DEF Reply, EmptySlot, Slot
  <2>3. CASE r = Reply("Prompt", [s EXCEPT !.phase = "asking",  !.told = @ + 1])
    BY <2>3 DEF Reply, Slots
  <2>4. CASE r = Reply("Info",   [s EXCEPT !.phase = "telling", !.told = @ + 1])
    BY <2>4 DEF Reply, Slots
  <2> QED BY <1>2, <2>1, <2>2, <2>3, <2>4 DEF Conversing
<1>3. CASE q.kind = "CreateSession" /\ slot.phase = "none"
  <2>1. r \in Conversing(first)
    BY <1>3 DEF GreetdReplies
  <2> HIDE DEF first
  <2> QED BY <1>1, <1>2, <1>3, <2>1
<1>4. CASE \/ q.kind = "Answer" /\ slot.phase = "asking"
           \/ q.kind = "Acknowledge" /\ slot.phase = "telling"
  <2>1. r \in Conversing(slot)
    BY <1>4 DEF GreetdReplies
  <2> QED BY <1>2, <1>4, <2>1
<1>5. CASE q.kind = "StartSession" /\ slot.phase = "ready"
  BY <1>5
<1>6. CASE q.kind = "CancelSession" /\ slot.phase # "started"
  <2>1. \E k \in {"Success", "Error", "AuthError", "Info"} : r = Reply(k, EmptySlot)
    BY <1>6 DEF GreetdReplies
  <2> QED BY <1>6, <2>1 DEF Reply, EmptySlot, Slot
<1>7. CASE r = Reply("Error", slot)
  BY <1>7 DEF Reply
<1>8. \/ q.kind = "CreateSession" /\ slot.phase = "none"
      \/ q.kind = "Answer" /\ slot.phase = "asking"
      \/ q.kind = "Acknowledge" /\ slot.phase = "telling"
      \/ q.kind = "StartSession" /\ slot.phase = "ready"
      \/ q.kind = "CancelSession" /\ slot.phase # "started"
      \/ r = Reply("Error", slot)
  BY DEF GreetdReplies
<1> QED BY <1>3, <1>4, <1>5, <1>6, <1>7, <1>8

\* A call that returns leaves the contract where the client and greetd are.
LEMMA ReturnSettles ==
  ASSUME NEW name, NEW result, Returns(name, result)
  PROVE  /\ CallInv'
         /\ rest'.op = name /\ rest'.state = conversation'.state
         /\ rest'.session = SessionOf(greetd) /\ rest'.result = result
<1>1. /\ rest' = [op |-> name, state |-> conversation'.state,
                  session |-> SessionOf(greetd), result |-> result]
      /\ greetd' = greetd /\ call' = "returned"
  BY DEF Returns
<1> QED BY <1>1 DEF CallInv, SessionOf

\* ... and may return with what the contract lists for it.
LEMMA ReturnIsACall ==
  ASSUME NEW name, NEW result, Returns(name, result), NEW o,
         o = Contract!LoginOutcome(conversation'.state, SessionOf(greetd), result),
         \/ name = "begin_login" /\ o \in Contract!BeginLoginOutcomes(rest.state, rest.session)
         \/ name = "respond" /\ o \in Contract!LoginRespondOutcomes(rest.state, rest.session)
         \/ name = "cancel" /\ o \in Contract!LoginCancelOutcomes(rest.state, rest.session)
         \/ name = "start_session" /\ o \in Contract!StartSessionOutcomes(rest.state, rest.session)
  PROVE  Contract!Next
<1>1. /\ rest'.op = name /\ rest'.state = o.state /\ rest'.session = o.session
      /\ rest'.result = o.result
  BY ReturnSettles DEF Contract!LoginOutcome
<1>2. CASE name = "begin_login" /\ o \in Contract!BeginLoginOutcomes(rest.state, rest.session)
  BY <1>1, <1>2 DEF Contract!Next, Contract!BeginLogin, Contract!Call
<1>3. CASE name = "respond" /\ o \in Contract!LoginRespondOutcomes(rest.state, rest.session)
  BY <1>1, <1>3 DEF Contract!Next, Contract!Respond, Contract!Call
<1>4. CASE name = "cancel" /\ o \in Contract!LoginCancelOutcomes(rest.state, rest.session)
  BY <1>1, <1>4 DEF Contract!Next, Contract!Cancel, Contract!Call
<1>5. CASE /\ name = "start_session"
           /\ o \in Contract!StartSessionOutcomes(rest.state, rest.session)
  BY <1>1, <1>5 DEF Contract!Next, Contract!StartSession, Contract!Call
<1> QED BY <1>2, <1>3, <1>4, <1>5

\* A refused call is refused by the contract.
LEMMA RefusedByContract ==
  ASSUME ClientInv, CallInv, call = "none",
         \/ ~CanBegin(conversation) /\ Refuse("begin_login")
         \/ Refuse("respond")
         \/ ~CanCancel /\ Refuse("cancel")
         \/ ~CanStartSession /\ Refuse("start_session")
  PROVE  Contract!Next
<1> DEFINE o == Contract!LoginOutcome(conversation'.state, SessionOf(greetd), "Err")
<1>1. /\ ~Exchanging /\ rest.state = conversation.state /\ rest.session = SessionOf(greetd)
      /\ conversation' = conversation
  BY DEF ClientInv, WireInv, CallInv, Refuse
<1>2. o \in Contract!LoginRefused(rest.state, rest.session)
  BY <1>1 DEF Contract!LoginRefused
<1>3. /\ starting_session = FALSE
      /\ rest.session = "open" => session_started = FALSE
  BY <1>1 DEF ClientInv, TypeOK, StateInv, SessionOf
<1> HIDE DEF o
<1>4. CASE ~CanBegin(conversation) /\ Refuse("begin_login")
  <2>1. o \in Contract!BeginLoginOutcomes(rest.state, rest.session)
    BY <1>1, <1>2, <1>4 DEF CanBegin, Contract!BeginLoginOutcomes
  <2> QED BY <1>4, <2>1, ReturnIsACall DEF Refuse, o
<1>5. CASE Refuse("respond")
  <2>1. o \in Contract!LoginRespondOutcomes(rest.state, rest.session)
    BY <1>2 DEF Contract!LoginRespondOutcomes
  <2> QED BY <1>5, <2>1, ReturnIsACall DEF Refuse, o
<1>6. CASE ~CanCancel /\ Refuse("cancel")
  <2>1. o \in Contract!LoginCancelOutcomes(rest.state, rest.session)
    BY <1>1, <1>2, <1>3, <1>6
       DEF CanCancel, NeedsCancel, Contract!LoginCancelOutcomes, Contract!LoginInTransaction
  <2> QED BY <1>6, <2>1, ReturnIsACall DEF Refuse, o
<1>7. CASE ~CanStartSession /\ Refuse("start_session")
  <2>1. o \in Contract!StartSessionOutcomes(rest.state, rest.session)
    BY <1>1, <1>2, <1>3, <1>7 DEF CanStartSession, Contract!StartSessionOutcomes
  <2> QED BY <1>7, <2>1, ReturnIsACall DEF Refuse, o
<1> QED BY <1>4, <1>5, <1>6, <1>7
\* A failure of a call that may have reached greetd.
LEMMA FailureAllowed ==
  ASSUME ClientInv, CallInv, Exchanging, Returns(call, "Err"),
         \/ conversation'.state = "Disconnected"
         \/ /\ conversation'.state = "Failed"
            /\ wire.kind \in ResponseKinds
            /\ ~(operation = "StartSession" /\ wire.kind = "Success")
  PROVE  Contract!Next
<1> DEFINE s == SessionOf(greetd)
           o == Contract!LoginOutcome(conversation'.state, s, "Err")
<1>1. call \in {"begin_login", "respond", "start_session", "cancel"}
  BY DEF ClientInv, WireInv, TypeOK, CallNames
<1>2. /\ s \in {"none", "open", "started"}
      /\ greetd.phase # "started" => s \in {"none", "open"}
      /\ greetd.phase = "none" => s = "none"
      /\ greetd.phase = "ready" => s = "open"
  BY DEF SessionOf
<1>3. /\ conversation'.state = "Disconnected" => \A S : s \in S => o \in Contract!Lost(S)
      /\ conversation'.state = "Failed"       => \A S : s \in S => o \in Contract!ServiceError(S)
  BY DEF Contract!Lost, Contract!ServiceError
<1>4. CASE call = "begin_login"
  <2>1. CASE rest.session = "none"
    <3>1. s \in {"none", "open"} /\ rest.state \in {"Idle", "Failed"}
      BY <1>2, <1>4, <2>1 DEF CallInv
    <3>2. o \in Contract!BeginLoginOutcomes(rest.state, rest.session)
      BY <1>3, <2>1, <3>1 DEF Contract!BeginLoginOutcomes, Contract!LoginAdvance
    <3> QED BY <1>4, <3>2, ReturnIsACall
  <2>2. CASE rest.session # "none"
    <3>1. s \in {rest.session} /\ rest.state \in {"Idle", "Failed"}
      BY <1>4, <2>2 DEF CallInv
    <3>2. o \in Contract!BeginLoginOutcomes(rest.state, rest.session)
      BY <1>3, <2>2, <3>1 DEF Contract!BeginLoginOutcomes
    <3> QED BY <1>4, <3>2, ReturnIsACall
  <2> QED BY <2>1, <2>2
<1>5. CASE call = "respond"
  <2>1. s \in {"none", "open"} /\ rest.state = "Waiting"
    BY <1>2, <1>5 DEF CallInv
  <2>2. o \in Contract!LoginRespondOutcomes(rest.state, rest.session)
    BY <1>3, <2>1 DEF Contract!LoginRespondOutcomes, Contract!LoginAdvance
  <2> QED BY <1>5, <2>2, ReturnIsACall
<1>6. CASE call = "start_session"
  <2>1. /\ rest.state = "Authenticated" /\ rest.session = "open" /\ operation = "StartSession"
        /\ greetd.phase = IF wire.kind = "Success" THEN "started" ELSE "ready"
    BY <1>6 DEF ClientInv, ExchangeInv, CallInv
  <2>2. /\ s \in {"open", "started"}
        /\ conversation'.state = "Failed" => s \in {"open"}
    BY <1>2, <2>1 DEF SessionOf
  <2>3. o \in Contract!StartSessionOutcomes(rest.state, rest.session)
    BY <1>3, <2>1, <2>2 DEF Contract!StartSessionOutcomes
  <2> QED BY <1>6, <2>3, ReturnIsACall
<1>7. CASE call = "cancel"
  <2>1. /\ rest.state \in {"Authenticating", "Waiting", "Authenticated"}
        /\ rest.session = "open" /\ operation = "Cancel"
        /\ s = (IF wire.kind = "CancelSession" THEN "open" ELSE "none")
    BY <1>2, <1>7 DEF ClientInv, ExchangeInv, CallInv
  <2>2. /\ s \in {"none", rest.session}
        /\ conversation'.state = "Failed" => s \in {"none"}
    BY <2>1 DEF ResponseKinds
  <2>3. o \in Contract!LoginCancelOutcomes(rest.state, rest.session)
    BY <1>3, <2>1, <2>2 DEF Contract!LoginCancelOutcomes, Contract!LoginInTransaction
  <2> QED BY <1>7, <2>3, ReturnIsACall
<1> QED BY <1>1, <1>4, <1>5, <1>6, <1>7

\* Where an exchange of authentication messages stops.
LEMMA AdvanceAllowed ==
  ASSUME CallInv, call \in {"begin_login", "respond"}, wire.kind \notin {"CreateSession", "Error"},
         NEW result, Returns(call, result),
         Contract!LoginOutcome(conversation'.state, SessionOf(greetd), result)
           \in Contract!LoginAdvance
  PROVE  Contract!Next
<1> DEFINE o == Contract!LoginOutcome(conversation'.state, SessionOf(greetd), result)
<1>1. CASE call = "begin_login"
  <2>1. rest.session = "none" /\ rest.state \in {"Idle", "Failed"}
    BY <1>1 DEF CallInv
  <2>2. o \in Contract!BeginLoginOutcomes(rest.state, rest.session)
    BY <2>1 DEF Contract!BeginLoginOutcomes
  <2> QED BY <1>1, <2>2, ReturnIsACall
<1>2. CASE call = "respond"
  <2>1. rest.state = "Waiting"
    BY <1>2 DEF CallInv
  <2>2. o \in Contract!LoginRespondOutcomes(rest.state, rest.session)
    BY <2>1 DEF Contract!LoginRespondOutcomes
  <2> QED BY <1>2, <2>2, ReturnIsACall
<1> QED BY <1>1, <1>2

\* The call an operation belongs to.
LEMMA OperationOfCall ==
  ASSUME ClientInv, CallInv, Exchanging
  PROVE  /\ operation = "Authenticate" => call \in {"begin_login", "respond"}
         /\ operation = "Cleanup"      => call \in {"begin_login", "respond"}
         /\ operation = "StartSession" => call = "start_session"
         /\ operation = "Cancel"       => call = "cancel"
  BY DEF ClientInv, WireInv, TypeOK, CallNames, CallInv

\* A response that ends the call.
LEMMA EndingStepContract ==
  ASSUME ClientInv, CallInv,
         \/ HandleAuthenticateSuccess \/ HandleStartSuccess \/ HandleCancelSuccess
         \/ FinishAuthenticationFailureCleanup \/ HandleServerError
         \/ UnexpectedAuthMessage \/ ReceivePrompt
  PROVE  CallInv' /\ Contract!Next
<1>1. conversation \in Conversations
  BY TypeWords DEF ClientInv
<1>2. CASE HandleAuthenticateSuccess
  <2>1. Exchanging /\ operation = "Authenticate" /\ wire.kind = "Success"
    BY <1>2 DEF HandleAuthenticateSuccess, Reads, Exchanging
  <2>2. greetd.phase = "ready" /\ SessionOf(greetd) = "open" /\ call \in {"begin_login", "respond"}
    BY <2>1, OperationOfCall DEF ClientInv, ExchangeInv, Holds, SessionOf
  <2>3. CASE conversation' = Fail(conversation) /\ Returns(call, "Err")
    <3>1. conversation'.state = "Failed"
      BY <1>1, <2>3, QuietMethods
    <3> QED BY <2>1, <2>3, <3>1, FailureAllowed, ReturnSettles DEF ResponseKinds
  <2>4. CASE conversation' = Authenticate(conversation) /\ Returns(call, "Ok")
    <3>1. conversation'.state = "Authenticated"
      BY <1>1, <2>4, AnnouncingMethods
    <3>2. Contract!LoginOutcome(conversation'.state, SessionOf(greetd), "Ok")
            \in Contract!LoginAdvance
      BY <2>2, <3>1 DEF Contract!LoginAdvance
    <3> QED BY <2>1, <2>2, <2>4, <3>2, AdvanceAllowed, ReturnSettles
  <2> QED BY <1>2, <2>3, <2>4 DEF HandleAuthenticateSuccess, Client
<1>3. CASE HandleStartSuccess
  <2>1. /\ Exchanging /\ operation = "StartSession" /\ wire.kind = "Success"
        /\ conversation' = conversation /\ Returns(call, "Ok")
    BY <1>3 DEF HandleStartSuccess, Reads, Exchanging, Client
  <2>2. /\ greetd.phase = "started" /\ SessionOf(greetd) = "started"
        /\ call = "start_session" /\ conversation.state = "Authenticated"
        /\ rest.state = "Authenticated" /\ rest.session = "open"
    BY <2>1, OperationOfCall DEF ClientInv, ExchangeInv, StateInv, CallInv, SessionOf
  <2>3. Contract!LoginOutcome(conversation'.state, SessionOf(greetd), "Ok")
          \in Contract!StartSessionOutcomes(rest.state, rest.session)
    BY <2>1, <2>2 DEF Contract!StartSessionOutcomes
  <2> QED BY <2>1, <2>2, <2>3, ReturnIsACall, ReturnSettles
<1>4. CASE HandleCancelSuccess
  <2>1. /\ Exchanging /\ operation = "Cancel" /\ wire.kind = "Success"
        /\ conversation' = FinishCancel(conversation) /\ Returns(call, "Ok")
    BY <1>4 DEF HandleCancelSuccess, Reads, Exchanging, Client
  <2>2. /\ greetd.phase = "none" /\ SessionOf(greetd) = "none"
        /\ call = "cancel" /\ conversation'.state = "Idle"
        /\ rest.state \in {"Authenticating", "Waiting", "Authenticated"} /\ rest.session = "open"
    BY <1>1, <2>1, OperationOfCall, AnnouncingMethods DEF ClientInv, ExchangeInv, CallInv, SessionOf
  <2>3. Contract!LoginOutcome(conversation'.state, SessionOf(greetd), "Ok")
          \in Contract!LoginCancelOutcomes(rest.state, rest.session)
    BY <2>2 DEF Contract!LoginCancelOutcomes, Contract!LoginInTransaction
  <2> QED BY <2>1, <2>2, <2>3, ReturnIsACall, ReturnSettles
<1>5. CASE FinishAuthenticationFailureCleanup
  <2>1. /\ Exchanging /\ operation = "Cleanup" /\ wire.kind \in {"Success", "Error", "AuthError"}
        /\ conversation' = AuthenticationFailed(conversation) /\ Returns(call, "Ok")
    BY <1>5 DEF FinishAuthenticationFailureCleanup, Reads, Exchanging, Client
  <2>2. /\ greetd.phase = "none" /\ SessionOf(greetd) = "none"
        /\ call \in {"begin_login", "respond"} /\ conversation'.state = "Failed"
    BY <1>1, <2>1, OperationOfCall, AnnouncingMethods DEF ClientInv, ExchangeInv, SessionOf
  <2>3. Contract!LoginOutcome(conversation'.state, SessionOf(greetd), "Ok")
          \in Contract!LoginAdvance
    BY <2>2 DEF Contract!LoginAdvance
  <2>4. CASE call = "begin_login"
    <3>1. rest.session = "none" /\ rest.state \in {"Idle", "Failed"}
      BY <2>1, <2>4 DEF CallInv
    <3>2. Contract!LoginOutcome(conversation'.state, SessionOf(greetd), "Ok")
            \in Contract!BeginLoginOutcomes(rest.state, rest.session)
      BY <2>3, <3>1 DEF Contract!BeginLoginOutcomes
    <3> QED BY <2>1, <2>4, <3>2, ReturnIsACall, ReturnSettles
  <2>5. CASE call = "respond"
    <3>1. rest.state = "Waiting"
      BY <2>5 DEF CallInv
    <3>2. Contract!LoginOutcome(conversation'.state, SessionOf(greetd), "Ok")
            \in Contract!LoginRespondOutcomes(rest.state, rest.session)
      BY <2>3, <3>1 DEF Contract!LoginRespondOutcomes
    <3> QED BY <2>1, <2>5, <3>2, ReturnIsACall, ReturnSettles
  <2> QED BY <2>2, <2>4, <2>5
<1>6. CASE HandleServerError \/ UnexpectedAuthMessage
  <2>1. /\ Exchanging /\ wire.kind \in ResponseKinds \ {"Success"} /\ Returns(call, "Err")
        /\ conversation' = Fail(conversation)
    BY <1>6 DEF HandleServerError, UnexpectedAuthMessage, Reads, Exchanging, Client, ResponseKinds
  <2>2. conversation'.state = "Failed"
    BY <1>1, <2>1, QuietMethods
  <2> QED BY <2>1, <2>2, FailureAllowed, ReturnSettles
<1>7. CASE ReceivePrompt
  <2>1. Exchanging /\ operation = "Authenticate" /\ wire.kind = "Prompt"
    BY <1>7 DEF ReceivePrompt, Reads, Exchanging
  <2>2. /\ greetd.phase = "asking" /\ SessionOf(greetd) = "open"
        /\ call \in {"begin_login", "respond"} /\ conversation.state = "Authenticating"
    BY <2>1, OperationOfCall DEF ClientInv, ExchangeInv, StateInv, Holds, SessionOf
  <2>3. CASE /\ CanEmitPrompt(conversation)
             /\ conversation' = EmitPrompt(conversation) /\ Returns(call, "Ok")
    <3>1. conversation'.state = "Waiting"
      BY <1>1, <2>3, EmitPromptType
    <3>2. Contract!LoginOutcome(conversation'.state, SessionOf(greetd), "Ok")
            \in Contract!LoginAdvance
      BY <2>2, <3>1 DEF Contract!LoginAdvance
    <3> QED BY <2>1, <2>2, <2>3, <3>2, AdvanceAllowed, ReturnSettles
  <2>4. CASE conversation' = conversation /\ Returns(call, "Err")
    <3>1. Contract!LoginOutcome(conversation'.state, SessionOf(greetd), "Err")
            \in Contract!LoginAdvance
      BY <2>2, <2>4 DEF Contract!LoginAdvance
    <3> QED BY <2>1, <2>2, <2>4, <3>1, AdvanceAllowed, ReturnSettles
  <2> QED BY <1>7, <2>3, <2>4 DEF ReceivePrompt, Client
<1> QED BY <1>2, <1>3, <1>4, <1>5, <1>6, <1>7

\* Whatever else happens during a call or between two stays out of sight.
LEMMA QuietStepContract ==
  ASSUME ClientInv, CallInv, Drain \/ GreetdHandles \/ CleanUpAfterRejection \/ AcknowledgeMessage
  PROVE  CallInv' /\ UNCHANGED rest
<1>1. conversation \in Conversations /\ greetd \in Slots /\ wire \in WireFrames
  BY TypeWords DEF ClientInv
<1>2. CASE Drain
  <2>1. /\ conversation'.state = conversation.state /\ call' = "none" /\ ~Exchanging
        /\ UNCHANGED <<operation, wire, greetd, rest>>
    BY <1>1, <1>2, QuietMethods DEF Drain, ClientInv, WireInv
  <2> QED BY <2>1 DEF CallInv, Exchanging
<1>3. CASE GreetdHandles
  <2>1. PICK r \in GreetdReplies(wire, greetd) : greetd' = r.slot /\ wire' = Plain(r.response)
    BY <1>3 DEF GreetdHandles
  <2>2. /\ wire.kind \in RequestKinds /\ UNCHANGED <<conversation, call, operation, rest>>
    BY <1>3 DEF GreetdHandles
  <2>3. wire'.kind \in ResponseKinds /\ Exchanging'
    BY <1>1, <2>1, <2>2, RequestReplies DEF Plain, Frame, Exchanging, ResponseKinds
  <2>4. /\ wire.kind # "StartSession" /\ greetd.phase # "started" => greetd'.phase # "started"
        /\ wire.kind = "CreateSession" /\ greetd.phase # "none" =>
             greetd' = greetd /\ wire'.kind = "Error"
    BY <1>1, <2>1, NothingElseStarts DEF Reply, Plain, Frame
  <2>5. wire.kind = "StartSession" => operation = "StartSession"
    BY DEF ClientInv, WireInv
  <2>6. rest.session # "none" /\ rest.session = SessionOf(greetd) => greetd.phase # "none"
    BY DEF SessionOf
  <2>7. call = "begin_login" =>
          \/ rest.session = "none" /\ greetd'.phase # "started"
          \/ /\ rest.session # "none" /\ rest.session = SessionOf(greetd')
             /\ operation = "Authenticate" /\ wire'.kind \in {"CreateSession", "Error"}
    <3>1. SUFFICES ASSUME call = "begin_login"
                   PROVE  \/ rest.session = "none" /\ greetd'.phase # "started"
                          \/ /\ rest.session # "none" /\ rest.session = SessionOf(greetd')
                             /\ operation = "Authenticate" /\ wire'.kind \in {"CreateSession", "Error"}
      OBVIOUS
    <3>2. CASE rest.session = "none" /\ greetd.phase # "started"
      BY <2>4, <2>5, <3>1, <3>2 DEF CallInv
    <3>3. CASE /\ rest.session # "none" /\ rest.session = SessionOf(greetd)
               /\ operation = "Authenticate" /\ wire.kind \in {"CreateSession", "Error"}
      <4>1. wire.kind = "CreateSession" /\ greetd.phase # "none"
        BY <2>2, <2>6, <3>3 DEF RequestKinds
      <4> QED BY <2>4, <3>3, <4>1
    <3> QED BY <3>1, <3>2, <3>3 DEF CallInv
  <2>8. call = "respond" => greetd'.phase # "started"
    BY <2>4, <2>5 DEF CallInv
  <2> QED BY <2>2, <2>3, <2>7, <2>8 DEF CallInv, ResponseKinds
<1>4. CASE CleanUpAfterRejection
  <2>1. /\ operation = "Authenticate" /\ wire.kind = "AuthError" /\ Exchanging
        /\ operation' = "Cleanup" /\ wire'.kind = "CancelSession" /\ Exchanging'
        /\ UNCHANGED <<call, greetd, rest>>
    BY <1>4 DEF CleanUpAfterRejection, Reads, Continues, Plain, Frame, Exchanging
  <2>2. call \in {"begin_login", "respond"}
    BY <2>1, OperationOfCall
  <2> QED BY <2>1, <2>2 DEF CallInv
<1>5. CASE AcknowledgeMessage
  <2>1. /\ operation = "Authenticate" /\ wire.kind = "Info" /\ Exchanging
        /\ operation' = "Authenticate" /\ wire'.kind = "Acknowledge" /\ Exchanging'
        /\ UNCHANGED <<call, greetd, rest>>
    BY <1>5 DEF AcknowledgeMessage, Reads, Continues, Plain, Frame, Exchanging
  <2>2. call \in {"begin_login", "respond"}
    BY <2>1, OperationOfCall
  <2> QED BY <2>1, <2>2 DEF CallInv
<1> QED BY <1>2, <1>3, <1>4, <1>5

\* A call that is not refused starts from where the contract is.
LEMMA CallContract ==
  ASSUME ClientInv, CallInv, Calls
  PROVE  CallInv' /\ (Contract!Next \/ UNCHANGED rest)
<1>1. /\ call = "none" /\ ~Exchanging /\ starting_session = FALSE
      /\ rest.state = conversation.state /\ rest.session = SessionOf(greetd)
  BY DEF ClientInv, TypeOK, WireInv, StateInv, CallInv, Calls, CreateSession, Respond, StartSession,
         Cancel, BetweenCalls
<1>2. CASE \/ ~CanBegin(conversation) /\ Refuse("begin_login")
           \/ Refuse("respond")
           \/ ~CanCancel /\ Refuse("cancel")
           \/ ~CanStartSession /\ Refuse("start_session")
  <2>1. CallInv'
    BY <1>2, ReturnSettles DEF Refuse
  <2> QED BY <1>1, <1>2, <2>1, RefusedByContract
<1>3. ASSUME CanBegin(conversation), NEW u \in Users,
             Drive("begin_login", "Authenticate", Frame("CreateSession", u))
      PROVE  CallInv' /\ UNCHANGED rest
  <2>1. /\ call' = "begin_login" /\ operation' = "Authenticate" /\ wire'.kind = "CreateSession"
        /\ Exchanging' /\ UNCHANGED <<greetd, rest>>
    BY <1>3 DEF Drive, Frame, Exchanging
  <2>2. rest.session = "none" => greetd.phase # "started"
    BY <1>1 DEF SessionOf
  <2> QED BY <1>1, <1>3, <2>1, <2>2 DEF CallInv, CanBegin
<1>4. ASSUME NEW p, CanRespond(conversation, p), Drive("respond", "Authenticate", Plain("Answer"))
      PROVE  CallInv' /\ UNCHANGED rest
  <2>1. /\ call' = "respond" /\ operation' = "Authenticate" /\ wire'.kind = "Answer"
        /\ Exchanging' /\ UNCHANGED <<greetd, rest>>
    BY <1>4 DEF Drive, Plain, Frame, Exchanging
  <2>2. conversation.state = "Waiting" /\ greetd.phase = "asking"
    BY <1>1, <1>4 DEF CanRespond, ClientInv, RestInv, Holds
  <2> QED BY <1>1, <2>1, <2>2 DEF CallInv
<1>5. ASSUME CanStartSession, Drive("start_session", "StartSession", Plain("StartSession"))
      PROVE  CallInv' /\ UNCHANGED rest
  <2>1. /\ call' = "start_session" /\ operation' = "StartSession" /\ wire'.kind = "StartSession"
        /\ Exchanging' /\ UNCHANGED <<greetd, rest>>
    BY <1>5 DEF Drive, Plain, Frame, Exchanging
  <2>2. conversation.state = "Authenticated" /\ greetd.phase = "ready" /\ SessionOf(greetd) = "open"
    BY <1>1, <1>5 DEF CanStartSession, ClientInv, RestInv, SessionOf
  <2> QED BY <1>1, <2>1, <2>2 DEF CallInv
<1>6. ASSUME CanCancel, Drive("cancel", "Cancel", Plain("CancelSession"))
      PROVE  CallInv' /\ UNCHANGED rest
  <2>1. /\ call' = "cancel" /\ operation' = "Cancel" /\ wire'.kind = "CancelSession"
        /\ Exchanging' /\ UNCHANGED <<greetd, rest>>
    BY <1>6 DEF Drive, Plain, Frame, Exchanging
  <2>2. /\ conversation.state \in {"Authenticating", "Waiting", "Authenticated"}
        /\ SessionOf(greetd) = "open"
    BY <1>1, <1>6 DEF CanCancel, NeedsCancel, ClientInv, RestInv, Holds, SessionOf
  <2> QED BY <1>1, <2>1, <2>2 DEF CallInv
<1> QED BY <1>2, <1>3, <1>4, <1>5, <1>6
        DEF Calls, CreateSession, Respond, StartSession, Cancel

\* Every step is a call of the contract or cannot be seen through it.
LEMMA StepContract ==
  ASSUME ClientInv, CallInv, [Next]_vars
  PROVE  CallInv' /\ [Contract!Next]_(Contract!vars)
<1>1. UNCHANGED rest => UNCHANGED Contract!vars
  BY DEF Contract!vars
<1>2. CASE Calls
  BY <1>1, <1>2, CallContract
<1>3. CASE \/ HandleAuthenticateSuccess \/ HandleStartSuccess \/ HandleCancelSuccess
           \/ FinishAuthenticationFailureCleanup \/ HandleServerError
           \/ UnexpectedAuthMessage \/ ReceivePrompt
  BY <1>3, EndingStepContract
<1>4. CASE Drain \/ GreetdHandles \/ CleanUpAfterRejection \/ AcknowledgeMessage
  BY <1>1, <1>4, QuietStepContract
<1>5. CASE TransportFails
  <2>1. /\ Exchanging /\ Returns(call, "Err") /\ conversation' = Disconnect(conversation)
    BY <1>5 DEF TransportFails, Client, ClientInv, WireInv
  <2>2. conversation'.state = "Disconnected"
    BY <2>1, TypeWords, QuietMethods DEF ClientInv
  <2> QED BY <2>1, <2>2, FailureAllowed, ReturnSettles
<1>6. CASE UNCHANGED vars
  BY <1>1, <1>6 DEF vars, CallInv, Exchanging
<1> QED BY <1>2, <1>3, <1>4, <1>5, <1>6 DEF Next, DriveStep

\* GreeterClient and greetd together implement the contract the greeter's controller is
\* written against: what a call returns and what greetd then holds is an outcome it lists.
THEOREM GreetdImplementsContract == Spec => ImplementsContract
<1>1. Init => CallInv /\ Contract!Init
  BY DEF Init, CallInv, Contract!Init, NewConversation, EmptySlot, Slot, SessionOf, NoFrame, Plain,
         Frame, Exchanging
<1>2. ASSUME ClientInv, CallInv, [Next]_vars PROVE CallInv' /\ [Contract!Next]_(Contract!vars)
  BY <1>2, StepContract
<1> QED BY <1>1, <1>2, ClientCorrect, PTL DEF Spec, ImplementsContract, Contract!Spec
=============================================================================
