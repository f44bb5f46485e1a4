--------------------------- MODULE GreeterProofs ----------------------------
(***************************************************************************)
(* Proofs about Greeter for any number of page loads and any capacity of   *)
(* the two queues.  The type invariant comes first; then one inductive     *)
(* invariant for each question the run asks:                               *)
(*                                                                         *)
(*   ControllerInv  the public state and the session that is started       *)
(*   ReleaseInv     what greetd still holds when the thread ends           *)
(*   ReplyInv       the one request, or reply, that is under way           *)
(*   OwnerInv       the cancellations between what two pages ask           *)
(***************************************************************************)
EXTENDS Greeter, SequenceTheorems, TLAPS

-----------------------------------------------------------------------------
(* The contract of the backend: what a call can lead to. *)

Outcomes == [state : LoginRestStates, session : Sessions, result : {"Ok", "Err"}]

\* No call leaves the states that rest between calls.
LEMMA ContractTypes ==
  ASSUME NEW state \in LoginRestStates, NEW held \in Sessions
  PROVE  /\ BeginLoginOutcomes(state, held) \subseteq Outcomes
         /\ LoginRespondOutcomes(state, held) \subseteq Outcomes
         /\ LoginCancelOutcomes(state, held) \subseteq Outcomes
         /\ StartSessionOutcomes(state, held) \subseteq Outcomes
<1> USE DEF Outcomes, LoginRestStates, Sessions, LoginOutcome
<1>1. LoginRefused(state, held) \subseteq Outcomes
  BY DEF LoginRefused
<1>2. \A s \in SUBSET Sessions : Lost(s) \subseteq Outcomes /\ ServiceError(s) \subseteq Outcomes
  BY DEF Lost, ServiceError
<1>3. LoginAdvance \subseteq Outcomes
  BY <1>2 DEF LoginAdvance
<1>4. BeginLoginOutcomes(state, held) \subseteq Outcomes
  BY <1>1, <1>2, <1>3 DEF BeginLoginOutcomes
<1>5. LoginRespondOutcomes(state, held) \subseteq Outcomes
  BY <1>1, <1>3 DEF LoginRespondOutcomes
<1>6. LoginCancelOutcomes(state, held) \subseteq Outcomes
  BY <1>1, <1>2 DEF LoginCancelOutcomes
<1>7. StartSessionOutcomes(state, held) \subseteq Outcomes
  BY <1>1, <1>2 DEF StartSessionOutcomes
<1> QED BY <1>4, <1>5, <1>6, <1>7

\* A call whose guard fails changes nothing.
LEMMA RefusedChangesNothing ==
  ASSUME NEW state, NEW held, NEW o \in LoginRefused(state, held)
  PROVE  o.state = state /\ o.session = held /\ o.result = "Err"
  BY DEF LoginRefused, LoginOutcome

\* An exchange that authenticates returns Ok with the session open; one that asks returns
\* Ok; none ends Idle.
LEMMA AdvanceStates ==
  ASSUME NEW o \in LoginAdvance
  PROVE  /\ o.state = "Authenticated" => o.result = "Ok" /\ o.session = "open"
         /\ o.state = "Waiting" => o.result = "Ok"
         /\ o.state # "Idle"
  BY DEF LoginAdvance, ServiceError, Lost, LoginOutcome

\* Nor does one that fails or whose connection is lost.
LEMMA BrokenStates ==
  ASSUME NEW sessions, NEW o \in ServiceError(sessions) \cup Lost(sessions)
  PROVE  o.state \in {"Failed", "Disconnected"} /\ o.result = "Err"
  BY DEF ServiceError, Lost, LoginOutcome

\* Beginning a login.
LEMMA BeginStates ==
  ASSUME NEW state, NEW held, NEW o \in BeginLoginOutcomes(state, held)
  PROVE  \/ /\ state \notin {"Idle", "Failed"}
            /\ o.state = state /\ o.session = held /\ o.result = "Err"
         \/ /\ state \in {"Idle", "Failed"}
            /\ o.state = "Authenticated" => o.result = "Ok" /\ o.session = "open"
            /\ o.state = "Waiting" => o.result = "Ok"
            /\ o.state # "Idle"
<1>1. CASE state \notin {"Idle", "Failed"}
  BY <1>1, RefusedChangesNothing DEF BeginLoginOutcomes
<1>2. CASE state \in {"Idle", "Failed"} /\ held = "none"
  BY <1>2, AdvanceStates DEF BeginLoginOutcomes
<1>3. CASE state \in {"Idle", "Failed"} /\ held # "none"
  <2>1. o \in ServiceError({held}) \cup Lost({held})
    BY <1>3 DEF BeginLoginOutcomes
  <2> QED BY <1>3, <2>1, BrokenStates
<1> QED BY <1>1, <1>2, <1>3

\* Answering a prompt.
LEMMA RespondStates ==
  ASSUME NEW state, NEW held, NEW o \in LoginRespondOutcomes(state, held)
  PROVE  \/ o.state = state /\ o.session = held /\ o.result = "Err"
         \/ /\ state = "Waiting"
            /\ o.state = "Authenticated" => o.result = "Ok" /\ o.session = "open"
            /\ o.state = "Waiting" => o.result = "Ok"
            /\ o.state # "Idle"
  BY RefusedChangesNothing, AdvanceStates DEF LoginRespondOutcomes

\* Cancelling.
LEMMA CancelStates ==
  ASSUME NEW state, NEW held, NEW o \in LoginCancelOutcomes(state, held)
  PROVE  \/ ~LoginInTransaction(state, held) /\ o.state = state /\ o.session = held
         \/ /\ LoginInTransaction(state, held)
            /\ \/ o.state = "Idle" /\ o.session = "none" /\ o.result = "Ok"
               \/ o.state \in {"Failed", "Disconnected"} /\ o.result = "Err"
<1>1. CASE LoginInTransaction(state, held)
  <2>1. \/ o = LoginOutcome("Idle", "none", "Ok")
        \/ o \in ServiceError({"none"})
        \/ o \in Lost({"none", held})
    BY <1>1 DEF LoginCancelOutcomes
  <2> QED BY <1>1, <2>1, BrokenStates DEF LoginOutcome
<1>2. CASE ~LoginInTransaction(state, held)
  BY <1>2, RefusedChangesNothing DEF LoginCancelOutcomes
<1> QED BY <1>1, <1>2

\* Starting the session.
LEMMA StartStates ==
  ASSUME NEW state, NEW held, NEW o \in StartSessionOutcomes(state, held)
  PROVE  \/ /\ state = "Authenticated" /\ held = "open"
            /\ \/ o.state = "Authenticated" /\ o.session = "started" /\ o.result = "Ok"
               \/ o.state \in {"Failed", "Disconnected"} /\ o.result = "Err"
         \/ /\ ~(state = "Authenticated" /\ held = "open")
            /\ o.state = state /\ o.session = held /\ o.result = "Err"
<1>1. CASE state = "Authenticated" /\ held = "open"
  <2>1. \/ o = LoginOutcome("Authenticated", "started", "Ok")
        \/ o \in ServiceError({"open"})
        \/ o \in Lost({"open", "started"})
    BY <1>1 DEF StartSessionOutcomes
  <2> QED BY <1>1, <2>1, BrokenStates DEF LoginOutcome
<1>2. CASE ~(state = "Authenticated" /\ held = "open")
  BY <1>2, RefusedChangesNothing DEF StartSessionOutcomes
<1> QED BY <1>1, <1>2

\* An exchange whose texts cannot be shown is abandoned: what is left is no transaction, and
\* a login that was cancelled as it should leaves nothing with greetd.
LEMMA AbandonedStates ==
  ASSUME NEW o \in LoginAdvance, NEW a \in AbandonOutcomes(o)
  PROVE  /\ a \in Outcomes
         /\ a.state \in {"Idle", "Failed", "Disconnected"}
         /\ a.state = "Idle" => a.session = "none"
<1>1. o \in Outcomes
  <2>1. "Idle" \in LoginRestStates /\ "none" \in Sessions
    BY DEF LoginRestStates, Sessions
  <2>2. LoginAdvance = BeginLoginOutcomes("Idle", "none")
    BY DEF BeginLoginOutcomes
  <2> QED BY <2>1, <2>2, ContractTypes
<1>2. o.state \in LoginRestStates /\ o.session \in Sessions
  BY <1>1 DEF Outcomes
<1>3. CASE LoginInTransaction(o.state, o.session)
  <2>1. a \in LoginCancelOutcomes(o.state, o.session)
    BY <1>3 DEF AbandonOutcomes
  <2>2. a \in Outcomes
    BY <1>2, <2>1, ContractTypes
  <2> QED BY <1>3, <2>1, <2>2, CancelStates
<1>4. CASE ~LoginInTransaction(o.state, o.session)
  <2>1. a = o
    BY <1>4 DEF AbandonOutcomes
  <2>2. o.state \in {"Failed", "Disconnected"}
    <3>1. \/ o.state \in {"Authenticating", "Waiting", "Authenticated"} /\ o.session = "open"
          \/ o.state \in {"Failed", "Disconnected"}
      BY DEF LoginAdvance, ServiceError, Lost, LoginOutcome
    <3> QED BY <1>4, <3>1 DEF LoginInTransaction
  <2> QED BY <1>1, <2>1, <2>2
<1> QED BY <1>3, <1>4

-----------------------------------------------------------------------------
(* Requests. *)

\* What a request leaves the backend in.
LEMMA ExecuteTypes ==
  ASSUME client \in LoginRestStates, session \in Sessions,
         NEW request \in Requests \ {"get"}, NEW o \in Execute(request)
  PROVE  o \in Outcomes
<1>1. LoginRefused(client, session) \subseteq Outcomes /\ \A r \in {"Ok", "Err"} : Unchanged(r) \subseteq Outcomes
  BY DEF LoginRefused, Unchanged, LoginOutcome, Outcomes
<1>2. CancelForLifecycleOutcomes \subseteq Outcomes
  BY <1>1, ContractTypes DEF CancelForLifecycleOutcomes
<1>3. PowerOutcomes \subseteq Outcomes
  BY <1>1, <1>2 DEF PowerOutcomes, Outcomes
<1>4. SelectOutcomes \subseteq Outcomes
  BY <1>1 DEF SelectOutcomes
<1> QED BY <1>1, <1>3, <1>4, ContractTypes DEF Execute, Requests

\* ... and the session it may start after it.
LEMMA StartTypes ==
  ASSUME NEW request, NEW o \in Outcomes, NEW s \in StartOutcomes(request, o)
  PROVE  s \in Outcomes
<1>1. o.state \in LoginRestStates /\ o.session \in Sessions
  BY DEF Outcomes
<1> QED BY <1>1, ContractTypes DEF StartOutcomes

\* The controller's variables after an outcome.
LEMMA BecomesTypes ==
  ASSUME NEW o \in Outcomes, Becomes(o)
  PROVE  /\ client' \in LoginRestStates
         /\ session' \in Sessions
         /\ authentication' \in LoginRestStates \ {"Disconnected"}
  BY DEF Outcomes, Becomes, PublicState, LoginRestStates

-----------------------------------------------------------------------------
(* The type invariant, the controller's part and the host's. *)

ControllerTypeOK ==
  /\ client \in LoginRestStates
  /\ session \in Sessions
  /\ login \in {"Idle", "Started", "Failed"}
  /\ authentication \in LoginRestStates \ {"Disconnected"}
  /\ prompt \in BOOLEAN
  /\ owner \in Epochs
  /\ misused \in BOOLEAN

ThreadTypeOK ==
  /\ worker \in {"starting", "running", "leaving", "stopping", "stopped", "panicked"}
  /\ outbox \in Outputs \cup {NoOutput}

QueueTypeOK ==
  /\ cmds \in Seq(Commands) /\ Len(cmds) <= CommandCapacity
  /\ outputs \in Seq(Outputs) /\ Len(outputs) <= OutputCapacity

HostTypeOK ==
  /\ host \in {"running", "finishing", "failing", "closing", "exited", "failed"}
  /\ page_epoch \in Epochs
  /\ pending_reply \in Epochs
  /\ shutdown_sent \in BOOLEAN

\* TypeOK by the part of the state that an action touches.
LEMMA TypeParts ==
  /\ TypeOK => HostTypeOK /\ QueueTypeOK /\ ThreadTypeOK /\ ControllerTypeOK
  /\ HostTypeOK' /\ QueueTypeOK' /\ ThreadTypeOK' /\ ControllerTypeOK' => TypeOK'
  BY DEF TypeOK, HostTypeOK, QueueTypeOK, ThreadTypeOK, ControllerTypeOK

\* Parts that an action does not touch.
LEMMA UntouchedTypes ==
  /\ HostTypeOK /\ UNCHANGED hostVars => HostTypeOK'
  /\ QueueTypeOK /\ UNCHANGED <<cmds, outputs>> => QueueTypeOK'
  /\ ThreadTypeOK /\ UNCHANGED <<worker, outbox>> => ThreadTypeOK'
  /\ ControllerTypeOK /\ UNCHANGED controllerVars => ControllerTypeOK'
  BY DEF HostTypeOK, QueueTypeOK, ThreadTypeOK, ControllerTypeOK, hostVars, controllerVars

\* The head of a bounded queue, and what is left without it.
LEMMA TailBounded ==
  ASSUME NEW S, NEW q \in Seq(S), q # <<>>, NEW n \in Nat, Len(q) <= n
  PROVE  Tail(q) \in Seq(S) /\ Len(Tail(q)) <= n /\ Head(q) \in S
  BY HeadTailProperties

\* A bounded queue with room takes one more.
LEMMA AppendBounded ==
  ASSUME NEW S, NEW q \in Seq(S), NEW e \in S, NEW n \in Nat, Len(q) < n
  PROVE  Append(q, e) \in Seq(S) /\ Len(Append(q, e)) <= n
  BY AppendProperties

\* A queue that was dropped is of its type.
LEMMA EmptyQueue == <<>> \in Seq(Commands) /\ Len(<<>>) <= CommandCapacity
  BY GreeterAssumption

\* What the two threads send each other.
LEMMA MessageTypes ==
  /\ \A k \in {"CancelForPage", "Shutdown"} : Notice(k) \in Commands
  /\ \A e \in Epochs, r \in Requests : Command("Request", e, r) \in Commands
  /\ \A k \in {"Ready", "Batch", "Fatal"}, e \in Epochs, t \in BOOLEAN :
       Output(k, e, t) \in Outputs
  /\ 0 \in Epochs
  BY GreeterAssumption DEF Notice, Command, Commands, Output, Outputs, Epochs

\* A command that is sent found room in its queue.
LEMMA SendsType ==
  ASSUME QueueTypeOK, NEW c \in Commands, Sends(c)
  PROVE  cmds' \in Seq(Commands) /\ Len(cmds') <= CommandCapacity
  BY AppendBounded, GreeterAssumption DEF QueueTypeOK, Sends, CanSend

\* A command that is taken leaves the queues what they are.
LEMMA TakesType ==
  ASSUME QueueTypeOK, NEW k, Takes(k)
  PROVE  QueueTypeOK' /\ Head(cmds) \in Commands
  BY TailBounded, GreeterAssumption DEF QueueTypeOK, Takes

\* So does an output that is received.
LEMMA ReceivesType ==
  ASSUME QueueTypeOK, NEW k, Receives(k)
  PROVE  QueueTypeOK' /\ Head(outputs) \in Outputs
  BY TailBounded, GreeterAssumption DEF QueueTypeOK, Receives

\* A cancellation for the lifecycle ends as the backend allows (cancel_for_lifecycle).
LEMMA LifecycleOutcomes ==
  ASSUME client \in LoginRestStates, session \in Sessions
  PROVE  CancelForLifecycleOutcomes \subseteq Outcomes
<1>1. Unchanged("Ok") \subseteq Outcomes
  BY DEF Unchanged, LoginOutcome, Outcomes
<1> QED BY <1>1, ContractTypes DEF CancelForLifecycleOutcomes

\* A cancellation of the page's transaction keeps the controller's types.
LEMMA LifecycleType ==
  ASSUME ControllerTypeOK, NEW o \in CancelForLifecycleOutcomes, CancelForLifecycle(o)
  PROVE  ControllerTypeOK'
<1>1. o \in Outcomes
  BY LifecycleOutcomes DEF ControllerTypeOK
<1>2. PublicState(o.state) \in LoginRestStates \ {"Disconnected"}
  BY <1>1 DEF PublicState, Outcomes, LoginRestStates
<1> QED BY <1>1, <1>2 DEF ControllerTypeOK, CancelForLifecycle, Outcomes

-----------------------------------------------------------------------------
(* Every step keeps the types. *)

\* A request of the page, whatever the backend answers, keeps the types.
LEMMA RequestKeepsTypes ==
  ASSUME TypeOK, TakeRequest
  PROVE  TypeOK'
<1>1. HostTypeOK /\ QueueTypeOK /\ ThreadTypeOK /\ ControllerTypeOK
  BY TypeParts
<1>2. QueueTypeOK' /\ Head(cmds) \in Commands /\ HostTypeOK'
  BY <1>1, TakesType DEF TakeRequest, Takes, hostVars, HostTypeOK
<1> DEFINE request == Head(cmds).request
           epoch   == Head(cmds).epoch
<1>3. request \in Requests \ {"get"} /\ epoch \in Epochs
  BY <1>2 DEF Commands, Notice, Command, TakeRequest, Takes
<1>4. PICK o \in Execute(request) : \E s \in StartOutcomes(request, o) :
        /\ Becomes(s)
        /\ login' = LoginAfter(request, o, s)
        /\ prompt' = PromptAfter(request, o)
        /\ owner' = IF Begins(request) THEN epoch ELSE owner
        /\ misused' = \/ misused
                      \/ request = "respond" /\ o.result = "Ok" /\ owner # epoch
        /\ outbox' = Batch(epoch)
        /\ worker' = worker
  BY DEF TakeRequest
<1>5. PICK s \in StartOutcomes(request, o) :
        /\ Becomes(s)
        /\ login' = LoginAfter(request, o, s)
        /\ prompt' = PromptAfter(request, o)
        /\ owner' = IF Begins(request) THEN epoch ELSE owner
        /\ misused' = \/ misused
                      \/ request = "respond" /\ o.result = "Ok" /\ owner # epoch
        /\ outbox' = Batch(epoch)
        /\ worker' = worker
  BY <1>4
<1>6. s \in Outcomes
  BY <1>1, <1>3, ExecuteTypes, StartTypes DEF ControllerTypeOK
<1>7. /\ client' \in LoginRestStates /\ session' \in Sessions
      /\ authentication' \in LoginRestStates \ {"Disconnected"}
  BY <1>5, <1>6, BecomesTypes
<1>8. login' \in {"Idle", "Started", "Failed"}
  BY <1>1, <1>5 DEF LoginAfter, ControllerTypeOK
<1>9. prompt' \in BOOLEAN /\ misused' \in BOOLEAN
  BY <1>1, <1>5, Zenon DEF PromptAfter, ControllerTypeOK
<1>10. owner' \in Epochs
  BY <1>1, <1>3, <1>5 DEF ControllerTypeOK
<1>11. outbox' \in Outputs
  BY <1>3, <1>5, MessageTypes DEF Batch, SessionStarted
<1>12. ThreadTypeOK'
  BY <1>1, <1>5, <1>11 DEF ThreadTypeOK
<1>13. ControllerTypeOK'
  BY <1>7, <1>8, <1>9, <1>10 DEF ControllerTypeOK
<1> QED BY <1>2, <1>12, <1>13, TypeParts

\* A request whose events cannot be drained ends the loop with nothing left of the
\* transaction.
LEMMA UndrainableStates ==
  ASSUME TypeOK, TakeUndrainableRequest
  PROVE  /\ worker' = "leaving" /\ outbox' = Output("Fatal", 0, FALSE)
         /\ prompt' = FALSE
         /\ client' \in {"Idle", "Failed", "Disconnected"}
         /\ client' = "Idle" => session' = "none"
         /\ session' \in Sessions
         /\ authentication' = PublicState(client')
<1>1. PICK o \in LoginAdvance : \E a \in AbandonOutcomes(o) : Becomes(a)
  BY DEF TakeUndrainableRequest
<1>2. PICK a \in AbandonOutcomes(o) : Becomes(a)
  BY <1>1
<1>3. /\ a \in Outcomes /\ a.state \in {"Idle", "Failed", "Disconnected"}
      /\ a.state = "Idle" => a.session = "none"
  BY AbandonedStates
<1>4. client' = a.state /\ session' = a.session /\ authentication' = PublicState(a.state)
  BY <1>2 DEF Becomes
<1>5. a.session \in Sessions
  BY <1>3 DEF Outcomes
<1>6. worker' = "leaving" /\ outbox' = Output("Fatal", 0, FALSE) /\ prompt' = FALSE
  BY DEF TakeUndrainableRequest
<1> QED BY <1>3, <1>4, <1>5, <1>6

\* ... and keeps the types.
LEMMA UndrainableKeepsTypes ==
  ASSUME TypeOK, TakeUndrainableRequest
  PROVE  TypeOK'
<1>1. HostTypeOK /\ QueueTypeOK /\ ThreadTypeOK /\ ControllerTypeOK
  BY TypeParts
<1>2. QueueTypeOK' /\ Head(cmds) \in Commands /\ HostTypeOK'
  BY <1>1, TakesType DEF TakeUndrainableRequest, Takes, hostVars, HostTypeOK
<1>3. Head(cmds).epoch \in Epochs
  BY <1>2, MessageTypes DEF Commands, Notice, Command
<1>4. ThreadTypeOK'
  BY UndrainableStates, MessageTypes DEF ThreadTypeOK
<1>5. /\ client' \in LoginRestStates /\ session' \in Sessions
      /\ authentication' \in LoginRestStates \ {"Disconnected"}
      /\ prompt' \in BOOLEAN
  BY UndrainableStates DEF LoginRestStates, PublicState
<1>6. login' \in {"Idle", "Started", "Failed"} /\ owner' \in Epochs
  BY <1>1, <1>3 DEF TakeUndrainableRequest, ControllerTypeOK
<1>7. misused' \in BOOLEAN
  BY <1>1, Zenon DEF TakeUndrainableRequest, ControllerTypeOK
<1>8. ControllerTypeOK'
  BY <1>5, <1>6, <1>7 DEF ControllerTypeOK
<1> QED BY <1>2, <1>4, <1>8, TypeParts

\* The controller thread's steps.
LEMMA WorkerKeepsTypes ==
  ASSUME TypeOK, WorkerStep \/ WorkerPanics
  PROVE  TypeOK'
<1>1. HostTypeOK /\ QueueTypeOK /\ ThreadTypeOK /\ ControllerTypeOK
  BY TypeParts
<1>2. CASE SendOutput
  <2>1. outbox \in Outputs
    BY <1>1, <1>2 DEF SendOutput, ThreadTypeOK
  <2>2. QueueTypeOK'
    BY <1>1, <1>2, <2>1, AppendBounded, GreeterAssumption DEF SendOutput, QueueTypeOK
  <2>3. ThreadTypeOK'
    BY <1>1, <1>2 DEF SendOutput, ThreadTypeOK
  <2> QED BY <1>1, <1>2, <2>2, <2>3, UntouchedTypes, TypeParts DEF SendOutput
<1>3. CASE Starting
  <2>1. ThreadTypeOK'
    BY <1>1, <1>3, MessageTypes DEF Starting, ThreadTypeOK
  <2> QED BY <1>1, <1>3, <2>1, UntouchedTypes, TypeParts DEF Starting
<1>4. CASE TakeRequest \/ TakeUndrainableRequest
  BY <1>4, RequestKeepsTypes, UndrainableKeepsTypes
<1>5. CASE TakeStateGet
  <2>1. QueueTypeOK' /\ Head(cmds) \in Commands
    BY <1>1, <1>5, TakesType DEF TakeStateGet
  <2>2. Head(cmds).epoch \in Epochs
    BY <2>1, MessageTypes DEF Commands, Notice, Command
  <2>3. ThreadTypeOK'
    BY <1>1, <1>5, <2>2, MessageTypes DEF TakeStateGet, ThreadTypeOK, SessionStarted
  <2> QED BY <1>1, <1>5, <2>1, <2>3, UntouchedTypes, TypeParts DEF TakeStateGet, Takes
<1>6. CASE TakeCancelForPage
  <2>1. QueueTypeOK'
    BY <1>1, <1>6, TakesType DEF TakeCancelForPage
  <2>2. ControllerTypeOK'
    BY <1>1, <1>6, LifecycleType DEF TakeCancelForPage
  <2>3. ThreadTypeOK'
    BY <1>1, <1>6, MessageTypes DEF TakeCancelForPage, ThreadTypeOK
  <2> QED BY <1>1, <1>6, <2>1, <2>2, <2>3, UntouchedTypes, TypeParts DEF TakeCancelForPage, Takes
<1>7. CASE LeavesLoop
  <2>1. ControllerTypeOK'
    BY <1>1, <1>7, LifecycleType DEF LeavesLoop
  <2>2. ThreadTypeOK'
    BY <1>1, <1>7 DEF LeavesLoop, ThreadTypeOK
  <2> QED BY <1>1, <1>7, <2>1, <2>2, UntouchedTypes, TypeParts DEF LeavesLoop
<1>8. CASE TakeShutdown
  <2>1. QueueTypeOK'
    BY <1>1, <1>8, TakesType DEF TakeShutdown
  <2>2. ControllerTypeOK'
    BY <1>1, <1>8, LifecycleType DEF TakeShutdown
  <2>3. ThreadTypeOK'
    BY <1>1, <1>8, MessageTypes DEF TakeShutdown, ThreadTypeOK
  <2> QED BY <1>1, <1>8, <2>1, <2>2, <2>3, UntouchedTypes, TypeParts DEF TakeShutdown, Takes
<1>9. CASE WorkerReturns \/ WorkerPanics
  <2>1. QueueTypeOK'
    BY <1>1, <1>9, EmptyQueue DEF WorkerReturns, WorkerPanics, QueueTypeOK
  <2>2. ThreadTypeOK'
    BY <1>1, <1>9 DEF WorkerReturns, WorkerPanics, ThreadTypeOK
  <2> QED BY <1>1, <1>9, <2>1, <2>2, UntouchedTypes, TypeParts DEF WorkerReturns, WorkerPanics
<1> QED BY <1>2, <1>3, <1>4, <1>5, <1>6, <1>7, <1>8, <1>9 DEF WorkerStep

\* The main thread's steps, and what the page and the window make it do.
LEMMA HostKeepsTypes ==
  ASSUME TypeOK, HostLoop \/ Environment
  PROVE  TypeOK'
<1>1. HostTypeOK /\ QueueTypeOK /\ ThreadTypeOK /\ ControllerTypeOK
  BY TypeParts
<1>2. NoReply \in Epochs
  BY MessageTypes DEF NoReply
<1>3. ASSUME PollOutputs
      PROVE  TypeOK'
  <2>1. ThreadTypeOK' /\ ControllerTypeOK'
    BY <1>1, <1>3, UntouchedTypes
       DEF PollOutputs, ReceiveReady, ReceiveStaleBatch, ReceiveBatch, ReceiveFatal,
           NoticeDisconnected, Receives, HostStep, workerVars
  <2>2. QueueTypeOK'
    BY <1>1, <1>3, ReceivesType, UntouchedTypes
       DEF PollOutputs, ReceiveReady, ReceiveStaleBatch, ReceiveBatch, ReceiveFatal,
           NoticeDisconnected
  <2>3. HostTypeOK'
    BY <1>1, <1>2, <1>3
       DEF PollOutputs, ReceiveReady, ReceiveStaleBatch, ReceiveBatch, ReceiveFatal,
           NoticeDisconnected, Receives, HostStep, FinishTerminal, FailHost, Stops, HostTypeOK
  <2> QED BY <2>1, <2>2, <2>3, TypeParts
<1>4. CASE PageRequests
  <2>1. ThreadTypeOK' /\ ControllerTypeOK'
    BY <1>1, <1>4, UntouchedTypes DEF PageRequests, HostStep, workerVars
  <2>2. QueueTypeOK'
    BY <1>1, <1>4, SendsType, MessageTypes DEF PageRequests, QueueTypeOK, HostTypeOK
  <2>3. HostTypeOK'
    BY <1>1, <1>4 DEF PageRequests, HostStep, HostTypeOK
  <2> QED BY <2>1, <2>2, <2>3, TypeParts
<1>5. CASE LoadStarted
  <2>1. ThreadTypeOK' /\ ControllerTypeOK'
    BY <1>1, <1>5, UntouchedTypes DEF LoadStarted, HostStep, workerVars
  <2>2. QueueTypeOK'
    BY <1>1, <1>5, SendsType, MessageTypes DEF LoadStarted, QueueTypeOK
  <2>3. page_epoch + 1 \in Epochs
    BY <1>1, <1>5, GreeterAssumption DEF LoadStarted, HostTypeOK, Epochs
  <2>4. HostTypeOK'
    BY <1>1, <1>2, <1>5, <2>3 DEF LoadStarted, HostStep, FailHost, Stops, HostTypeOK
  <2> QED BY <2>1, <2>2, <2>4, TypeParts
<1>6. CASE PageEpochExhausted \/ RendererTerminates \/ WindowCloses
  <2>1. ThreadTypeOK' /\ ControllerTypeOK' /\ QueueTypeOK'
    BY <1>1, <1>6, UntouchedTypes
       DEF PageEpochExhausted, RendererTerminates, WindowCloses, HostStep, workerVars
  <2>2. HostTypeOK'
    BY <1>1, <1>2, <1>6
       DEF PageEpochExhausted, RendererTerminates, WindowCloses, HostStep, FailHost, Stops,
           HostTypeOK
  <2> QED BY <2>1, <2>2, TypeParts
<1>7. CASE JoinSends \/ JoinReturns
  <2>1. ThreadTypeOK' /\ ControllerTypeOK'
    BY <1>1, <1>7, UntouchedTypes DEF JoinSends, JoinReturns, workerVars
  <2>2. QueueTypeOK'
    BY <1>1, <1>7, SendsType, MessageTypes DEF JoinSends, JoinReturns, QueueTypeOK
  <2>3. HostTypeOK'
    BY <1>1, <1>7 DEF JoinSends, JoinReturns, HostTypeOK
  <2> QED BY <2>1, <2>2, <2>3, TypeParts
<1> QED BY <1>3, <1>4, <1>5, <1>6, <1>7 DEF HostLoop, Environment

\* Every variable keeps its type and both queues their capacity, for any number of page
\* loads and any capacities.
THEOREM GreeterTypeCorrect == Spec => []TypeOK
<1>1. Init => TypeOK
  <2> SUFFICES ASSUME Init PROVE TypeOK
    OBVIOUS
  <2>1. <<>> \in Seq(Outputs) /\ Len(<<>>) <= OutputCapacity
    BY GreeterAssumption
  <2> QED BY <2>1, EmptyQueue, MessageTypes
          DEF Init, TypeOK, LoginRestStates, Sessions, NoReply, NoOwner
<1>2. TypeOK /\ [Next]_vars => TypeOK'
  <2>1. ASSUME TypeOK, Next
        PROVE  TypeOK'
    BY <2>1, WorkerKeepsTypes, HostKeepsTypes DEF Next
  <2>2. ASSUME TypeOK, UNCHANGED vars
        PROVE  TypeOK'
    BY <2>2, UntouchedTypes, TypeParts DEF vars
  <2> QED BY <2>1, <2>2
<1> QED BY <1>1, <1>2, PTL DEF Spec
-----------------------------------------------------------------------------
(* The controller: what it tells the page, and the session it starts. *)

Serving == worker \in {"starting", "running"}

\* While the thread serves, the public state is the backend's; afterwards only the started
\* session is left to be said.
ControllerInv ==
  /\ AuthenticatedMeansStarted
  /\ Serving =>
       /\ outbox.kind # "Fatal"
       /\ authentication = PublicState(client)
       /\ client = "Waiting" => prompt
       /\ prompt /\ client # "Waiting" => client \in {"Authenticating", "Failed", "Disconnected"}
       /\ login = "Started" => SessionStarted(client, session)

\* What a request can do to the backend: nothing, let a login advance, or end one.
Nothing(request, o) ==
  /\ o.state = client /\ o.session = session
  /\ request \in {"begin", "respond"} => o.result = "Err"
  /\ ~Begins(request)
Advances(request, o) ==
  /\ Begins(request) \/ (request = "respond" /\ client = "Waiting")
  /\ o.state = "Authenticated" => o.result = "Ok" /\ o.session = "open"
  /\ o.state = "Waiting" => o.result = "Ok"
  /\ o.state # "Idle"
Ends(request, o) ==
  /\ request \notin {"begin", "respond"}
  /\ LoginInTransaction(client, session)
  /\ o.state \in {"Idle", "Failed", "Disconnected"}

\* A call changes nothing, advances the conversation or ends it.
LEMMA ExecuteStates ==
  ASSUME NEW request \in Requests \ {"get"}, NEW o \in Execute(request)
  PROVE  Nothing(request, o) \/ Advances(request, o) \/ Ends(request, o)
<1>1. ASSUME NEW r, NEW u \in Unchanged(r)
      PROVE  u.state = client /\ u.session = session
  BY <1>1 DEF Unchanged, LoginOutcome
<1>2. ASSUME NEW c \in CancelForLifecycleOutcomes
      PROVE  \/ c.state = client /\ c.session = session
             \/ /\ LoginInTransaction(client, session)
                /\ c.state \in {"Idle", "Failed", "Disconnected"}
  BY <1>1, <1>2, CancelStates DEF CancelForLifecycleOutcomes
<1>3. CASE request = "begin"
  BY <1>3, BeginStates DEF Execute, Begins, Nothing, Advances
<1>4. CASE request = "respond"
  <2>1. o \in LoginRespondOutcomes(client, session) \/ o \in LoginRefused(client, session)
    BY <1>4 DEF Execute
  <2> QED BY <1>4, <2>1, RespondStates, RefusedChangesNothing DEF Begins, Nothing, Advances
<1>5. CASE request = "cancel"
  BY <1>5, CancelStates DEF Execute, Begins, Nothing, Ends
<1>6. CASE request = "select"
  <2>1. o \in Unchanged("Ok") \cup Unchanged("Err")
    BY <1>6 DEF Execute, SelectOutcomes
  <2> QED BY <1>1, <1>6, <2>1 DEF Begins, Nothing
<1>7. CASE request = "power"
  <2>1. \/ o \in Unchanged("Err")
        \/ o \in CancelForLifecycleOutcomes
        \/ \E c \in CancelForLifecycleOutcomes : o = [c EXCEPT !.result = "Err"]
    BY <1>7 DEF Execute, PowerOutcomes
  <2>2. \A c \in CancelForLifecycleOutcomes :
          [c EXCEPT !.result = "Err"].state = c.state
            /\ [c EXCEPT !.result = "Err"].session = c.session
    BY DEF CancelForLifecycleOutcomes, LoginCancelOutcomes, LoginRefused, ServiceError, Lost,
           Unchanged, LoginOutcome
  <2>3. \/ o.state = client /\ o.session = session
        \/ /\ LoginInTransaction(client, session)
           /\ o.state \in {"Idle", "Failed", "Disconnected"}
    BY <1>1, <1>2, <2>1, <2>2
  <2> QED BY <1>7, <2>3 DEF Begins, Nothing, Ends
<1> QED BY <1>3, <1>4, <1>5, <1>6, <1>7 DEF Requests

\* A request leaves what the page is told and what the backend is in agreeing.
LEMMA RequestKeepsController ==
  ASSUME TypeOK, ControllerInv, TakeRequest
  PROVE  ControllerInv'
<1> DEFINE request == Head(cmds).request
           epoch   == Head(cmds).epoch
<1>1. worker = "running" /\ worker' = "running" /\ request \in Requests \ {"get"}
  <2>1. Head(cmds) \in Commands
    BY TypeParts, TakesType DEF TakeRequest
  <2> QED BY <2>1 DEF Commands, Notice, Command, TakeRequest, Takes
<1>2. PICK o \in Execute(request) : \E s \in StartOutcomes(request, o) :
        /\ Becomes(s)
        /\ login' = LoginAfter(request, o, s)
        /\ prompt' = PromptAfter(request, o)
        /\ outbox' = Batch(epoch)
  BY DEF TakeRequest
<1>3. PICK s \in StartOutcomes(request, o) :
        /\ Becomes(s)
        /\ login' = LoginAfter(request, o, s)
        /\ prompt' = PromptAfter(request, o)
        /\ outbox' = Batch(epoch)
  BY <1>2
<1>4. o \in Outcomes
  BY <1>1, ExecuteTypes, TypeParts DEF ControllerTypeOK
<1>5. /\ client' = s.state /\ session' = s.session
      /\ authentication' = PublicState(s.state)
      /\ outbox'.kind # "Fatal"
  BY <1>3 DEF Becomes, Batch, Output
<1>6. /\ AuthenticatedMeansStarted
      /\ client = "Waiting" => prompt
      /\ prompt /\ client # "Waiting" => client \in {"Authenticating", "Failed", "Disconnected"}
      /\ login = "Started" => SessionStarted(client, session)
  BY <1>1 DEF ControllerInv, Serving
<1>7. SUFFICES /\ client' = "Authenticated" => session' = "started" /\ login' # "Idle"
               /\ client' = "Waiting" => prompt'
               /\ prompt' /\ client' # "Waiting" =>
                    client' \in {"Authenticating", "Failed", "Disconnected"}
               /\ login' = "Started" => SessionStarted(client', session')
  BY <1>5 DEF ControllerInv, AuthenticatedMeansStarted
<1>8. \/ Starts(request, o) /\ s \in StartSessionOutcomes(o.state, o.session)
      \/ ~Starts(request, o) /\ s = o
  BY <1>3 DEF StartOutcomes
<1>9. CASE Nothing(request, o)
  <2>1. s.state = client /\ s.session = session
    <3>1. CASE Starts(request, o)
      BY <1>6, <1>8, <1>9, <3>1, StartStates DEF Nothing, Starts, AuthenticatedMeansStarted
    <3> QED BY <1>8, <1>9, <3>1 DEF Nothing
  <2>2. prompt' = prompt
    BY <1>3, <1>9, TypeParts DEF PromptAfter, Nothing, LoginInTransaction, ControllerTypeOK
  <2>3. login' \in {login, "Failed"}
    <3>1. CASE Starts(request, o)
      <4>1. s.result = "Err"
        BY <1>6, <1>8, <1>9, <3>1, StartStates DEF Nothing, Starts, AuthenticatedMeansStarted
      <4> QED BY <1>3, <3>1, <4>1 DEF LoginAfter
    <3> QED BY <1>3, <1>9, <3>1 DEF LoginAfter, Nothing
  <2> QED BY <1>5, <1>6, <2>1, <2>2, <2>3 DEF AuthenticatedMeansStarted
<1>10. CASE Advances(request, o)
  <2>1. request \in {"begin", "respond"}
    BY <1>10 DEF Advances, Begins
  <2>2. CASE Starts(request, o)
    <3>1. \/ s.state = "Authenticated" /\ s.session = "started" /\ s.result = "Ok"
          \/ s.state \in {"Failed", "Disconnected"} /\ s.result = "Err"
      BY <1>8, <1>10, <2>2, StartStates DEF Advances, Starts
    <3>2. prompt' = FALSE
      BY <1>3, <2>1, <2>2 DEF PromptAfter, Starts
    <3>3. login' = IF s.result = "Ok" THEN "Started" ELSE "Failed"
      BY <1>3, <2>2 DEF LoginAfter
    <3> QED BY <1>5, <3>1, <3>2, <3>3 DEF SessionStarted
  <2>3. CASE ~Starts(request, o)
    <3>1. s = o /\ o.state \in LoginRestStates \ {"Idle", "Authenticated"}
      BY <1>4, <1>8, <1>10, <2>3 DEF Advances, Starts, Outcomes
    <3>2. login' # "Started"
      BY <1>3, <1>6, <1>10, <2>3 DEF LoginAfter, Advances, SessionStarted
    <3>3. o.state = "Waiting" => prompt' = TRUE
      BY <1>3, <1>10, <2>1 DEF PromptAfter, Advances
    <3> QED BY <1>5, <3>1, <3>2, <3>3 DEF LoginRestStates
  <2> QED BY <2>2, <2>3
<1>11. CASE Ends(request, o)
  <2>1. s = o /\ ~Starts(request, o)
    BY <1>8, <1>11 DEF Ends, Starts
  <2>2. login' = login /\ login # "Started"
    BY <1>3, <1>6, <1>11, <2>1
       DEF LoginAfter, Ends, Begins, SessionStarted, LoginInTransaction
  <2>3. o.state = "Idle" => prompt' = FALSE
    BY <1>3, <1>11 DEF PromptAfter, Ends
  <2> QED BY <1>5, <1>11, <2>1, <2>2, <2>3 DEF Ends
<1> QED BY <1>1, <1>9, <1>10, <1>11, ExecuteStates
\* A cancellation for the page's lifecycle does too, unless it fails.
LEMMA LifecycleStates ==
  ASSUME NEW o \in CancelForLifecycleOutcomes
  PROVE  \/ o.state = client /\ o.session = session
         \/ /\ LoginInTransaction(client, session)
            /\ \/ o.state = "Idle" /\ o.result = "Ok"
               \/ o.state \in {"Failed", "Disconnected"} /\ o.result = "Err"
  BY CancelStates DEF CancelForLifecycleOutcomes, Unchanged, LoginOutcome

\* A cancellation that succeeds leaves the state and the conversation consistent.
LEMMA LifecycleKeepsController ==
  ASSUME TypeOK, ControllerInv, Serving,
         NEW o \in CancelForLifecycleOutcomes, CancelForLifecycle(o),
         o.result = "Ok", outbox'.kind # "Fatal"
  PROVE  ControllerInv'
<1>1. CASE o.state = client /\ o.session = session
  <2>1. client' = client /\ session' = session /\ login' = login
        /\ authentication' = PublicState(client)
    BY <1>1 DEF CancelForLifecycle
  <2>2. prompt' = (prompt /\ ~LoginInTransaction(client, session))
    BY DEF CancelForLifecycle
  <2>3. CASE LoginInTransaction(client, session)
    <3>1. o \in LoginCancelOutcomes(client, session)
      BY <2>3 DEF CancelForLifecycleOutcomes
    <3>2. o.state \in {"Idle", "Failed", "Disconnected"}
      BY <2>3, <3>1, CancelStates
    <3> QED BY <1>1, <2>3, <3>2 DEF LoginInTransaction
  <2>4. CASE ~LoginInTransaction(client, session)
    <3>1. prompt' = prompt
      BY <2>2, <2>4, TypeParts DEF ControllerTypeOK
    <3> QED BY <2>1, <3>1 DEF ControllerInv, AuthenticatedMeansStarted
  <2> QED BY <2>3, <2>4
<1>2. CASE LoginInTransaction(client, session) /\ o.state = "Idle"
  <2>1. client' = "Idle" /\ authentication' = PublicState("Idle") /\ login' = login
        /\ prompt' = FALSE
    BY <1>2 DEF CancelForLifecycle
  <2>2. login # "Started"
    BY <1>2 DEF ControllerInv, SessionStarted, LoginInTransaction
  <2> QED BY <2>1, <2>2 DEF ControllerInv, AuthenticatedMeansStarted
<1> QED BY <1>1, <1>2, LifecycleStates

\* However it ends, it authenticates nothing.
LEMMA LifecycleKeepsStarted ==
  ASSUME AuthenticatedMeansStarted,
         NEW o \in CancelForLifecycleOutcomes, CancelForLifecycle(o)
  PROVE  AuthenticatedMeansStarted'
  BY LifecycleStates DEF AuthenticatedMeansStarted, CancelForLifecycle

\* Every step of the thread preserves the controller's invariant.
LEMMA WorkerKeepsController ==
  ASSUME TypeOK, ControllerInv, WorkerStep \/ WorkerPanics
  PROVE  ControllerInv'
<1>1. CASE SendOutput \/ Starting \/ TakeStateGet \/ WorkerReturns \/ WorkerPanics
  <2>1. UNCHANGED controllerVars /\ (Serving' => Serving /\ outbox'.kind # "Fatal")
    BY <1>1 DEF SendOutput, Starting, TakeStateGet, WorkerReturns, WorkerPanics, Takes, Serving,
                NoOutput, Output
  <2> QED BY <2>1 DEF ControllerInv, AuthenticatedMeansStarted, controllerVars
<1>2. CASE TakeRequest
  BY <1>2, RequestKeepsController
<1>3. CASE TakeCancelForPage
  <2>1. PICK o \in CancelForLifecycleOutcomes :
          /\ CancelForLifecycle(o)
          /\ IF o.result = "Ok" THEN UNCHANGED <<worker, outbox>> ELSE worker' = "leaving"
    BY <1>3 DEF TakeCancelForPage
  <2>2. Serving
    BY <1>3 DEF TakeCancelForPage, Takes, Serving
  <2>3. CASE o.result = "Ok"
    BY <2>1, <2>2, <2>3, LifecycleKeepsController DEF ControllerInv
  <2>4. CASE o.result # "Ok"
    BY <2>1, <2>4, LifecycleKeepsStarted DEF ControllerInv, Serving
  <2> QED BY <2>3, <2>4
<1>4. CASE TakeUndrainableRequest
  <2>1. client' # "Authenticated" /\ worker' = "leaving"
    BY <1>4, UndrainableStates
  <2> QED BY <2>1 DEF ControllerInv, AuthenticatedMeansStarted, Serving
<1>5. CASE LeavesLoop \/ TakeShutdown
  <2>1. AuthenticatedMeansStarted'
    BY <1>5, LifecycleKeepsStarted DEF LeavesLoop, TakeShutdown, ControllerInv
  <2> QED BY <1>5, <2>1 DEF LeavesLoop, TakeShutdown, ControllerInv, Serving
<1> QED BY <1>1, <1>2, <1>3, <1>4, <1>5 DEF WorkerStep

\* The main thread touches nothing of the controller.
LEMMA HostKeepsController ==
  ASSUME ControllerInv, HostLoop \/ Environment \/ UNCHANGED vars
  PROVE  ControllerInv'
<1>1. UNCHANGED <<worker, outbox, controllerVars>>
  BY DEF HostLoop, Environment, PollOutputs, ReceiveReady, ReceiveStaleBatch, ReceiveBatch,
         ReceiveFatal, NoticeDisconnected, Receives, PageRequests, LoadStarted,
         PageEpochExhausted, RendererTerminates, WindowCloses, JoinSends, JoinReturns,
         HostStep, workerVars, vars
<1> QED BY <1>1 DEF ControllerInv, AuthenticatedMeansStarted, Serving, controllerVars

\* The inductive invariant of the controller holds.
THEOREM GreeterControllerCorrect == Spec => []ControllerInv
<1>1. Init => ControllerInv
  BY DEF Init, ControllerInv, AuthenticatedMeansStarted, PublicState, NoOutput, Output
<1>2. TypeOK /\ ControllerInv /\ [Next]_vars => ControllerInv'
  BY WorkerKeepsController, HostKeepsController DEF Next
<1> QED BY <1>1, <1>2, GreeterTypeCorrect, PTL DEF Spec

\* No transaction waits authenticated for a page to start its session.
THEOREM SessionStartsWithItsLogin == Spec => []AuthenticatedMeansStarted
<1>1. ControllerInv => AuthenticatedMeansStarted
  BY DEF ControllerInv
<1> QED BY <1>1, GreeterControllerCorrect, PTL

\* What a page is told is what the backend is in, through requests, failures of greetd,
\* page loads and the end of the thread.
THEOREM GreeterPublicStateCorrect == Spec => []PublicStateTracksBackend
<1>1. ControllerInv => PublicStateTracksBackend
  BY DEF ControllerInv, Serving, PublicStateTracksBackend, Running
<1> QED BY <1>1, GreeterControllerCorrect, PTL
-----------------------------------------------------------------------------
(* The end of the thread: what greetd still holds for this greeter. *)

\* Whatever greetd configures, the backend is in a transaction or has lost track of one;
\* a thread on its way out has given the transaction up, and one that starts has none.
ReleaseInv ==
  /\ session = "open" => client # "Idle"
  /\ client = "Waiting" => session = "open"
  /\ worker = "starting" => client = "Idle" /\ session = "none"
  /\ worker \in {"stopping", "stopped"} /\ session = "open" =>
       client \in {"Failed", "Disconnected"}

\* A state and a session that an invariant allows together.
Held(state, held) ==
  /\ held = "open" => state # "Idle"
  /\ state = "Waiting" => held = "open"

-----------------------------------------------------------------------------
(* Replies: one request of the page is under way, in one place. *)

Mentions(q, kind, e) == {i \in DOMAIN q : q[i].kind = kind /\ q[i].epoch = e}

AtMostOne(S) == \A i, j \in S : i = j

Replies(epoch) == outbox.kind = "Batch" /\ outbox.epoch = epoch

\* The request of this page, or its reply, is in one place at most.
OnePlace ==
  /\ AtMostOne(Mentions(cmds, "Request", page_epoch))
  /\ AtMostOne(Mentions(outputs, "Batch", page_epoch))
  /\ ~(Mentions(cmds, "Request", page_epoch) # {} /\ Mentions(outputs, "Batch", page_epoch) # {})
  /\ Replies(page_epoch) =>
       Mentions(cmds, "Request", page_epoch) = {} /\ Mentions(outputs, "Batch", page_epoch) = {}

\* It is somewhere only while the page waits for it, and the page waits for none but its own.
Awaited ==
  /\ pending_reply \in {NoReply, page_epoch}
  /\ (host = "running" /\ pending_reply # page_epoch) =>
       /\ Mentions(cmds, "Request", page_epoch) = {}
       /\ Mentions(outputs, "Batch", page_epoch) = {}
       /\ ~Replies(page_epoch)

\* Nothing in flight is of a page that was not loaded yet.
UpTo(q, kind, e) == \A i \in DOMAIN q : q[i].kind = kind => q[i].epoch <= e
NothingFromLaterPages ==
  /\ UpTo(cmds, "Request", page_epoch)
  /\ UpTo(outputs, "Batch", page_epoch)
  /\ outbox.kind = "Batch" => outbox.epoch <= page_epoch

ReplyInv == OnePlace /\ Awaited /\ NothingFromLaterPages

-----------------------------------------------------------------------------
(* Transactions: a cancellation is queued between what two pages ask. *)

Cancels(q, i, k) == \E j \in DOMAIN q : i < j /\ j < k /\ q[j].kind = "CancelForPage"

\* Between any two requests of different pages, ...
Separated(q) ==
  \A i, k \in DOMAIN q :
    (i < k /\ q[i].kind = "Request" /\ q[k].kind = "Request" /\ q[i].epoch # q[k].epoch)
      => Cancels(q, i, k)
\* ... before any request of another page than e, ...
CancelledBefore(q, e) ==
  \A k \in DOMAIN q : (q[k].kind = "Request" /\ q[k].epoch # e) => Cancels(q, 0, k)
\* ... and after it.
CancelledAfter(q, e) ==
  \A i \in DOMAIN q : (q[i].kind = "Request" /\ q[i].epoch # e) => Cancels(q, i, Len(q) + 1)

OwnerInv ==
  /\ ~misused
  /\ Separated(cmds)
  /\ host = "running" => CancelledAfter(cmds, page_epoch)
  /\ client = "Waiting" => CancelledBefore(cmds, owner)
  /\ (client = "Waiting" /\ host = "running" /\ ~Gone /\ owner # page_epoch) =>
       Cancels(cmds, 0, Len(cmds) + 1)
-----------------------------------------------------------------------------
(* Proof of ReleaseInv. *)

\* A call that goes wrong, and one that advances the login.
LEMMA BrokenHolds ==
  ASSUME NEW sessions, NEW o \in ServiceError(sessions) \cup Lost(sessions)
  PROVE  Held(o.state, o.session)
  BY BrokenStates DEF Held

\* An answer that advances the conversation leaves the session with greetd.
LEMMA AdvanceHolds ==
  ASSUME NEW o \in LoginAdvance
  PROVE  Held(o.state, o.session)
  BY DEF LoginAdvance, ServiceError, Lost, LoginOutcome, Held

\* What a cancellation for the page's lifecycle leaves with greetd.
LEMMA LifecycleReleases ==
  ASSUME client \in LoginRestStates, Held(client, session),
         NEW o \in CancelForLifecycleOutcomes
  PROVE  /\ Held(o.state, o.session)
         /\ o.session = "open" => o.state \in {"Failed", "Disconnected"}
<1>1. CASE LoginInTransaction(client, session)
  <2>1. \/ o = LoginOutcome("Idle", "none", "Ok")
        \/ o \in ServiceError({"none"})
        \/ o \in Lost({"none", session})
    BY <1>1 DEF CancelForLifecycleOutcomes, LoginCancelOutcomes
  <2> QED BY <2>1 DEF LoginOutcome, ServiceError, Lost, Held
<1>2. CASE ~LoginInTransaction(client, session)
  <2>1. o.state = client /\ o.session = session
    BY <1>2 DEF CancelForLifecycleOutcomes, Unchanged, LoginOutcome
  <2> QED BY <1>2, <2>1 DEF LoginInTransaction, LoginRestStates, Held
<1> QED BY <1>1, <1>2

\* No request leaves a session open behind an idle backend.
LEMMA ExecuteHolds ==
  ASSUME client \in LoginRestStates, Held(client, session),
         NEW request \in Requests \ {"get"}, NEW o \in Execute(request)
  PROVE  Held(o.state, o.session)
<1>1. ASSUME NEW u \in LoginRefused(client, session) \cup Unchanged("Ok") \cup Unchanged("Err")
      PROVE  Held(u.state, u.session)
  BY <1>1 DEF LoginRefused, Unchanged, LoginOutcome
<1>2. CASE request = "begin"
  <2>1. \/ o \in LoginRefused(client, session) \/ o \in LoginAdvance
        \/ o \in ServiceError({session}) \cup Lost({session})
    BY <1>2 DEF Execute, BeginLoginOutcomes
  <2> QED BY <1>1, <2>1, AdvanceHolds, BrokenHolds
<1>3. CASE request = "respond"
  <2>1. o \in LoginRefused(client, session) \/ o \in LoginAdvance
    BY <1>3 DEF Execute, LoginRespondOutcomes
  <2> QED BY <1>1, <2>1, AdvanceHolds
<1>4. CASE request = "cancel"
  <2>1. CASE LoginInTransaction(client, session)
    <3>1. o \in CancelForLifecycleOutcomes
      BY <1>4, <2>1 DEF Execute, CancelForLifecycleOutcomes
    <3> QED BY <3>1, LifecycleReleases
  <2>2. CASE ~LoginInTransaction(client, session)
    BY <1>1, <1>4, <2>2 DEF Execute, LoginCancelOutcomes
  <2> QED BY <2>1, <2>2
<1>5. CASE request = "select"
  <2>1. o \in Unchanged("Ok") \cup Unchanged("Err")
    BY <1>5 DEF Execute, SelectOutcomes
  <2> QED BY <1>1, <2>1
<1>6. CASE request = "power"
  <2>1. \/ o \in Unchanged("Err")
        \/ o \in CancelForLifecycleOutcomes
        \/ \E c \in CancelForLifecycleOutcomes : o = [c EXCEPT !.result = "Err"]
    BY <1>6 DEF Execute, PowerOutcomes
  <2>2. \A c \in CancelForLifecycleOutcomes :
          [c EXCEPT !.result = "Err"].state = c.state
            /\ [c EXCEPT !.result = "Err"].session = c.session
    BY DEF CancelForLifecycleOutcomes, LoginCancelOutcomes, LoginRefused, ServiceError, Lost,
           Unchanged, LoginOutcome
  <2>3. \A c \in CancelForLifecycleOutcomes : Held(c.state, c.session)
    BY LifecycleReleases
  <2>4. CASE \E c \in CancelForLifecycleOutcomes : o = [c EXCEPT !.result = "Err"]
    <3>1. PICK c \in CancelForLifecycleOutcomes : o = [c EXCEPT !.result = "Err"]
      BY <2>4
    <3>2. o.state = c.state /\ o.session = c.session
      BY <2>2, <3>1
    <3> QED BY <2>3, <3>2
  <2> QED BY <1>1, <2>1, <2>3, <2>4
<1> QED BY <1>2, <1>3, <1>4, <1>5, <1>6 DEF Requests

\* ... nor does the start of the session behind it.
LEMMA StartHolds ==
  ASSUME NEW request, NEW o, Held(o.state, o.session), NEW s \in StartOutcomes(request, o)
  PROVE  Held(s.state, s.session)
<1>1. CASE Starts(request, o)
  <2>1. s \in StartSessionOutcomes(o.state, o.session)
    BY <1>1 DEF StartOutcomes
  <2> QED BY <2>1, StartStates DEF Held
<1>2. CASE ~Starts(request, o)
  BY <1>2 DEF StartOutcomes
<1> QED BY <1>1, <1>2

\* Every step keeps the invariant.
LEMMA WorkerReleases ==
  ASSUME TypeOK, ReleaseInv, WorkerStep \/ WorkerPanics
  PROVE  ReleaseInv'
<1>1. client \in LoginRestStates /\ Held(client, session)
  BY TypeParts DEF ControllerTypeOK, ReleaseInv, Held
<1>2. CASE SendOutput \/ TakeStateGet \/ WorkerReturns \/ WorkerPanics
  <2>1. /\ client' = client /\ session' = session
        /\ worker' \in {worker, "stopped", "panicked"}
        /\ worker' = "stopped" => worker \in {"stopping", "stopped"}
    BY <1>2 DEF SendOutput, TakeStateGet, WorkerReturns, WorkerPanics, Takes, controllerVars
  <2> QED BY <2>1 DEF ReleaseInv
<1>3. CASE Starting
  BY <1>3 DEF Starting, ReleaseInv, controllerVars
<1>4. CASE TakeRequest
  <2> DEFINE request == Head(cmds).request
  <2>1. worker' = "running" /\ request \in Requests \ {"get"}
    <3>1. Head(cmds) \in Commands
      BY <1>4, TypeParts, TakesType DEF TakeRequest
    <3> QED BY <1>4, <3>1 DEF Commands, Notice, Command, TakeRequest, Takes
  <2>2. PICK o \in Execute(request) : \E s \in StartOutcomes(request, o) : Becomes(s)
    BY <1>4 DEF TakeRequest
  <2>3. PICK s \in StartOutcomes(request, o) : Becomes(s)
    BY <2>2
  <2>4. Held(o.state, o.session)
    BY <1>1, <2>1, ExecuteHolds
  <2>5. Held(s.state, s.session)
    BY <2>4, StartHolds
  <2>6. client' = s.state /\ session' = s.session
    BY <2>3 DEF Becomes
  <2> QED BY <2>1, <2>5, <2>6 DEF ReleaseInv, Held
<1>5. CASE TakeCancelForPage \/ LeavesLoop \/ TakeShutdown
  <2>1. PICK o \in CancelForLifecycleOutcomes : CancelForLifecycle(o)
    BY <1>5 DEF TakeCancelForPage, LeavesLoop, TakeShutdown
  <2>2. client' = o.state /\ session' = o.session /\ worker' # "starting"
    BY <1>5, <2>1 DEF CancelForLifecycle, TakeCancelForPage, LeavesLoop, TakeShutdown, Takes
  <2> QED BY <1>1, <2>1, <2>2, LifecycleReleases DEF ReleaseInv, Held
<1>6. CASE TakeUndrainableRequest
  BY <1>6, UndrainableStates DEF ReleaseInv, Held
<1> QED BY <1>2, <1>3, <1>4, <1>5, <1>6 DEF WorkerStep

\* The main thread touches neither the thread's state nor the backend's.
LEMMA HostTouchesNoWorker ==
  ASSUME HostLoop \/ Environment \/ UNCHANGED vars
  PROVE  UNCHANGED <<worker, outbox, controllerVars>>
  BY DEF HostLoop, Environment, PollOutputs, ReceiveReady, ReceiveStaleBatch, ReceiveBatch,
         ReceiveFatal, NoticeDisconnected, Receives, PageRequests, LoadStarted,
         PageEpochExhausted, RendererTerminates, WindowCloses, JoinSends, JoinReturns,
         HostStep, workerVars, vars

\* At every step, what greetd holds and what the controller believes agree, and a thread
\* on its way out leaves a session only with a connection that failed.
THEOREM GreeterReleaseCorrect == Spec => []ReleaseInv
<1>1. Init => ReleaseInv
  BY DEF Init, ReleaseInv
<1>2. TypeOK /\ ReleaseInv /\ [Next]_vars => ReleaseInv'
  <2>1. ReleaseInv /\ (HostLoop \/ Environment \/ UNCHANGED vars) => ReleaseInv'
    BY HostTouchesNoWorker DEF ReleaseInv, controllerVars
  <2> QED BY <2>1, WorkerReleases DEF Next
<1> QED BY <1>1, <1>2, GreeterTypeCorrect, PTL DEF Spec

\* A controller thread that has returned leaves no login half configured in greetd, but for
\* a cancellation that failed, a lost connection or a service error.
THEOREM ShutdownReleases == Spec => []ShutdownReleasesGreetd
<1>1. ReleaseInv => ShutdownReleasesGreetd
  BY DEF ReleaseInv, ShutdownReleasesGreetd
<1> QED BY <1>1, GreeterReleaseCorrect, PTL
-----------------------------------------------------------------------------
(* What is in a queue after its head is taken or something is appended. *)

\* The tail of a queue, by position.
LEMMA TailAt ==
  ASSUME NEW S, NEW q \in Seq(S), q # <<>>
  PROVE  /\ Len(q) \in Nat \ {0} /\ DOMAIN q = 1 .. Len(q) /\ Head(q) = q[1]
         /\ DOMAIN Tail(q) = 1 .. (Len(q) - 1) /\ Len(Tail(q)) = Len(q) - 1
         /\ \A i \in 1 .. (Len(q) - 1) : Tail(q)[i] = q[i + 1]
<1>1. Len(q) \in Nat /\ DOMAIN q = 1 .. Len(q) /\ Len(q) # 0
  BY LenProperties, EmptySeq
<1>2. /\ Tail(q) \in Seq(S) /\ Len(Tail(q)) = Len(q) - 1
      /\ \A i \in 1 .. Len(Tail(q)) : Tail(q)[i] = q[i + 1]
  BY HeadTailProperties
<1>3. DOMAIN Tail(q) = 1 .. Len(Tail(q))
  BY <1>2, LenProperties
<1>4. Head(q) = q[1]
  OBVIOUS
<1> QED BY <1>1, <1>2, <1>3, <1>4

\* A queue with one more element, by position.
LEMMA AppendAt ==
  ASSUME NEW S, NEW q \in Seq(S), NEW e \in S
  PROVE  /\ Len(q) \in Nat /\ DOMAIN q = 1 .. Len(q)
         /\ DOMAIN Append(q, e) = 1 .. (Len(q) + 1) /\ Len(Append(q, e)) = Len(q) + 1
         /\ \A i \in 1 .. Len(q) : Append(q, e)[i] = q[i]
         /\ Append(q, e)[Len(q) + 1] = e
<1>1. Len(q) \in Nat /\ DOMAIN q = 1 .. Len(q)
  BY LenProperties
<1>2. /\ Append(q, e) \in Seq(S) /\ Len(Append(q, e)) = Len(q) + 1
      /\ \A i \in 1 .. Len(q) : Append(q, e)[i] = q[i]
      /\ Append(q, e)[Len(q) + 1] = e
  BY AppendProperties
<1>3. DOMAIN Append(q, e) = 1 .. Len(Append(q, e))
  BY <1>2, LenProperties
<1> QED BY <1>1, <1>2, <1>3

\* Taking the head adds nothing, ...
LEMMA MentionsTail ==
  ASSUME NEW S, NEW q \in Seq(S), q # <<>>, NEW kind, NEW e
  PROVE  /\ Mentions(q, kind, e) = {} => Mentions(Tail(q), kind, e) = {}
         /\ AtMostOne(Mentions(q, kind, e)) => AtMostOne(Mentions(Tail(q), kind, e))
<1>1. \A i \in Mentions(Tail(q), kind, e) : i \in Nat \ {0} /\ i + 1 \in Mentions(q, kind, e)
  BY TailAt DEF Mentions
<1>3. Mentions(q, kind, e) = {} => Mentions(Tail(q), kind, e) = {}
  BY <1>1
<1>4. AtMostOne(Mentions(q, kind, e)) => AtMostOne(Mentions(Tail(q), kind, e))
  <2>1. ASSUME AtMostOne(Mentions(q, kind, e)),
               NEW i \in Mentions(Tail(q), kind, e), NEW j \in Mentions(Tail(q), kind, e)
        PROVE  i = j
    <3>1. i + 1 = j + 1 /\ i \in Nat /\ j \in Nat
      BY <1>1, <2>1 DEF AtMostOne
    <3> QED BY <3>1
  <2> QED BY <2>1 DEF AtMostOne
<1> QED BY <1>3, <1>4

\* ... and takes the only message that it is.
LEMMA MentionsHead ==
  ASSUME NEW S, NEW q \in Seq(S), q # <<>>, NEW kind, NEW e,
         1 \in Mentions(q, kind, e), AtMostOne(Mentions(q, kind, e))
  PROVE  Mentions(q, kind, e) # {} /\ Mentions(Tail(q), kind, e) = {}
<1>2. ASSUME NEW i \in Mentions(Tail(q), kind, e)
      PROVE  FALSE
  <2>1. i \in Nat \ {0} /\ i + 1 \in Mentions(q, kind, e)
    BY TailAt DEF Mentions
  <2>2. i + 1 = 1
    BY <2>1 DEF AtMostOne
  <2> QED BY <2>1, <2>2
<1> QED BY <1>2

\* Appending adds at most what is appended.
LEMMA MentionsAppend ==
  ASSUME NEW S, NEW q \in Seq(S), NEW x \in S, NEW kind, NEW e
  PROVE  /\ ~(x.kind = kind /\ x.epoch = e) => Mentions(Append(q, x), kind, e) = Mentions(q, kind, e)
         /\ Mentions(q, kind, e) = {} => AtMostOne(Mentions(Append(q, x), kind, e))
<1>1. \A i \in Mentions(Append(q, x), kind, e) :
        i \in Mentions(q, kind, e) \/ (i = Len(q) + 1 /\ x.kind = kind /\ x.epoch = e)
  BY AppendAt DEF Mentions
<1>2. Mentions(q, kind, e) \subseteq Mentions(Append(q, x), kind, e)
  BY AppendAt DEF Mentions
<1> QED BY <1>1, <1>2 DEF AtMostOne

\* An empty queue mentions no page.
LEMMA MentionsNothing ==
  ASSUME NEW kind, NEW e
  PROVE  Mentions(<<>>, kind, e) = {} /\ UpTo(<<>>, kind, e)
<1>1. DOMAIN << >> = {}
  OBVIOUS
<1> QED BY <1>1 DEF Mentions, UpTo

\* Bounds on the pages that a queue mentions.
LEMMA UpToTail ==
  ASSUME NEW S, NEW q \in Seq(S), q # <<>>, NEW kind, NEW e, UpTo(q, kind, e)
  PROVE  /\ UpTo(Tail(q), kind, e)
         /\ Head(q).kind = kind => Head(q).epoch <= e
  BY TailAt DEF UpTo

\* A queue stays within the pages loaded so far when what is added is.
LEMMA UpToAppend ==
  ASSUME NEW S, NEW q \in Seq(S), NEW x \in S, NEW kind, NEW e, UpTo(q, kind, e),
         x.kind = kind => x.epoch <= e
  PROVE  UpTo(Append(q, x), kind, e)
  BY AppendAt DEF UpTo

\* A page that is loaded now has nothing in flight.
LEMMA NewPageMentions ==
  ASSUME NEW S, NEW q \in Seq(S), NEW kind, NEW e \in Nat, UpTo(q, kind, e),
         \A i \in DOMAIN q : q[i].epoch \in Nat
  PROVE  UpTo(q, kind, e + 1) /\ Mentions(q, kind, e + 1) = {}
  BY DEF UpTo, Mentions

\* What is queued has an epoch.
LEMMA EpochsInQueues ==
  ASSUME QueueTypeOK, ThreadTypeOK
  PROVE  /\ \A i \in DOMAIN cmds : cmds[i] \in Commands /\ cmds[i].epoch \in Nat
         /\ \A i \in DOMAIN outputs : outputs[i] \in Outputs /\ outputs[i].epoch \in Nat
         /\ outbox.epoch \in Nat
<1>1. \A c \in Commands : c.epoch \in Nat
  BY GreeterAssumption DEF Commands, Notice, Command, Epochs
<1>2. \A o \in Outputs : o.epoch \in Nat
  BY GreeterAssumption DEF Outputs, Epochs
<1>3. \A i \in DOMAIN cmds : cmds[i] \in Commands
  BY ElementOfSeq, LenProperties DEF QueueTypeOK
<1>4. \A i \in DOMAIN outputs : outputs[i] \in Outputs
  BY ElementOfSeq, LenProperties DEF QueueTypeOK
<1>5. outbox.epoch \in Nat
  BY <1>2 DEF ThreadTypeOK, NoOutput, Output
<1> QED BY <1>1, <1>2, <1>3, <1>4, <1>5
-----------------------------------------------------------------------------
(* Proof of ReplyInv. *)

\* Taking messages out of flight, and answering nothing, keeps the one place.
LEMMA LessInFlight ==
  ASSUME TypeOK, OnePlace, NothingFromLaterPages,
         page_epoch' = page_epoch,
         cmds' = cmds \/ cmds' = <<>> \/ (cmds # <<>> /\ cmds' = Tail(cmds)),
         outputs' = outputs \/ (outputs # <<>> /\ outputs' = Tail(outputs)),
         outbox' = outbox \/ outbox'.kind # "Batch"
  PROVE  /\ OnePlace' /\ NothingFromLaterPages'
         /\ Mentions(cmds, "Request", page_epoch) = {} =>
              Mentions(cmds', "Request", page_epoch) = {}
         /\ Mentions(outputs, "Batch", page_epoch) = {} =>
              Mentions(outputs', "Batch", page_epoch) = {}
         /\ ~Replies(page_epoch) => ~Replies(page_epoch)'
<1>1. cmds \in Seq(Commands) /\ outputs \in Seq(Outputs)
  BY TypeParts DEF QueueTypeOK
<1>2. /\ Mentions(cmds, "Request", page_epoch) = {} =>
           Mentions(cmds', "Request", page_epoch) = {}
      /\ AtMostOne(Mentions(cmds, "Request", page_epoch)) =>
           AtMostOne(Mentions(cmds', "Request", page_epoch))
  <2>1. CASE cmds' = <<>>
    <3>1. Mentions(cmds', "Request", page_epoch) = {}
      BY <2>1, MentionsNothing
    <3> QED BY <3>1 DEF AtMostOne
  <2>2. CASE cmds # <<>> /\ cmds' = Tail(cmds)
    BY <1>1, <2>2, MentionsTail
  <2>3. CASE cmds' = cmds
    BY <2>3
  <2> QED BY <2>1, <2>2, <2>3
<1>3. /\ Mentions(outputs, "Batch", page_epoch) = {} =>
           Mentions(outputs', "Batch", page_epoch) = {}
      /\ AtMostOne(Mentions(outputs, "Batch", page_epoch)) =>
           AtMostOne(Mentions(outputs', "Batch", page_epoch))
  BY <1>1, MentionsTail
<1>4. Replies(page_epoch)' => Replies(page_epoch)
  BY DEF Replies
<1>5. OnePlace'
  BY <1>2, <1>3, <1>4 DEF OnePlace
<1>6. UpTo(cmds', "Request", page_epoch) /\ UpTo(outputs', "Batch", page_epoch)
  BY <1>1, UpToTail, MentionsNothing DEF NothingFromLaterPages
<1>7. NothingFromLaterPages'
  BY <1>6 DEF NothingFromLaterPages
<1> QED BY <1>2, <1>3, <1>4, <1>5, <1>7

\* A request that is taken is answered.
LEMMA AnswerKeepsReplies ==
  ASSUME TypeOK, ReplyInv, Takes("Request"), outbox' = Output("Batch", Head(cmds).epoch, TRUE)
                                          \/ outbox' = Output("Batch", Head(cmds).epoch, FALSE)
  PROVE  ReplyInv'
<1>1. cmds \in Seq(Commands) /\ cmds # <<>> /\ Head(cmds).kind = "Request" /\ cmds' = Tail(cmds)
  BY TypeParts DEF QueueTypeOK, Takes
<1>2. UNCHANGED hostVars /\ outputs' = outputs /\ outbox = NoOutput
  BY DEF Takes
<1>3. page_epoch' = page_epoch /\ host' = host /\ pending_reply' = pending_reply
  BY <1>2 DEF hostVars
<1>4. outbox'.kind = "Batch" /\ outbox'.epoch = Head(cmds).epoch
  BY DEF Output
<1>5. Head(cmds).epoch <= page_epoch /\ UpTo(Tail(cmds), "Request", page_epoch)
  BY <1>1, UpToTail DEF ReplyInv, NothingFromLaterPages
<1>6. NothingFromLaterPages'
  BY <1>1, <1>2, <1>3, <1>4, <1>5 DEF ReplyInv, NothingFromLaterPages
<1>7. CASE Head(cmds).epoch = page_epoch
  <2>1. Mentions(cmds, "Request", page_epoch) # {} /\ Mentions(Tail(cmds), "Request", page_epoch) = {}
    <3>1. AtMostOne(Mentions(cmds, "Request", page_epoch))
      BY DEF ReplyInv, OnePlace
    <3>2. 1 \in Mentions(cmds, "Request", page_epoch)
      BY <1>1, <1>7, TailAt DEF Mentions
    <3> QED BY <1>1, <3>1, <3>2, MentionsHead
  <2>2. Mentions(outputs, "Batch", page_epoch) = {}
    BY <2>1 DEF ReplyInv, OnePlace
  <2>3. OnePlace'
    BY <1>1, <1>2, <1>3, <2>1, <2>2 DEF OnePlace, AtMostOne
  <2>4. Awaited'
    BY <1>3, <2>1 DEF ReplyInv, Awaited
  <2> QED BY <1>6, <2>3, <2>4 DEF ReplyInv
<1>8. CASE Head(cmds).epoch # page_epoch
  <2>1. ~Replies(page_epoch)'
    BY <1>3, <1>4, <1>8 DEF Replies
  <2>2. /\ AtMostOne(Mentions(Tail(cmds), "Request", page_epoch))
        /\ Mentions(cmds, "Request", page_epoch) = {} =>
             Mentions(Tail(cmds), "Request", page_epoch) = {}
    BY <1>1, MentionsTail DEF ReplyInv, OnePlace
  <2>3. OnePlace'
    BY <1>1, <1>2, <1>3, <2>1, <2>2 DEF ReplyInv, OnePlace
  <2>4. Awaited'
    BY <1>1, <1>2, <1>3, <2>1, <2>2 DEF ReplyInv, Awaited
  <2> QED BY <1>6, <2>3, <2>4 DEF ReplyInv
<1> QED BY <1>7, <1>8

\* The thread answers the request it took, and no other.
LEMMA WorkerKeepsReplies ==
  ASSUME TypeOK, ReplyInv, WorkerStep \/ WorkerPanics
  PROVE  ReplyInv'
<1>1. CASE SendOutput
  <2>1. cmds' = cmds /\ outbox' = NoOutput /\ outputs' = Append(outputs, outbox)
        /\ page_epoch' = page_epoch /\ host' = host /\ pending_reply' = pending_reply
    BY <1>1 DEF SendOutput, hostVars
  <2>2. outputs \in Seq(Outputs) /\ outbox \in Outputs
    BY <1>1, TypeParts DEF SendOutput, QueueTypeOK, ThreadTypeOK
  <2>3. ~Replies(page_epoch)'
    BY <2>1 DEF Replies, NoOutput, Output
  <2>4. NothingFromLaterPages'
    <3>1. UpTo(outputs', "Batch", page_epoch)
      BY <2>1, <2>2, UpToAppend DEF ReplyInv, NothingFromLaterPages
    <3> QED BY <2>1, <3>1 DEF ReplyInv, NothingFromLaterPages, NoOutput, Output
  <2>5. CASE Replies(page_epoch)
    <3>1. Mentions(cmds, "Request", page_epoch) = {} /\ Mentions(outputs, "Batch", page_epoch) = {}
      BY <2>5 DEF ReplyInv, OnePlace
    <3>2. AtMostOne(Mentions(outputs', "Batch", page_epoch))
      BY <2>1, <2>2, <3>1, MentionsAppend
    <3>3. OnePlace'
      BY <2>1, <2>3, <3>1, <3>2 DEF OnePlace, AtMostOne
    <3>4. Awaited'
      BY <2>1, <2>5 DEF ReplyInv, Awaited
    <3> QED BY <2>4, <3>3, <3>4 DEF ReplyInv
  <2>6. CASE ~Replies(page_epoch)
    <3>1. Mentions(outputs', "Batch", page_epoch) = Mentions(outputs, "Batch", page_epoch)
      BY <2>1, <2>2, <2>6, MentionsAppend DEF Replies
    <3>2. OnePlace'
      BY <2>1, <2>3, <3>1 DEF ReplyInv, OnePlace
    <3>3. Awaited'
      BY <2>1, <2>3, <3>1 DEF ReplyInv, Awaited
    <3> QED BY <2>4, <3>2, <3>3 DEF ReplyInv
  <2> QED BY <2>5, <2>6
<1>2. CASE TakeRequest
  <2>1. Takes("Request") /\ outbox' = Batch(Head(cmds).epoch)
    BY <1>2 DEF TakeRequest
  <2>2. SessionStarted(client', session') \in {TRUE, FALSE}
    BY DEF SessionStarted
  <2> QED BY <2>1, <2>2, AnswerKeepsReplies DEF Batch
<1>3. CASE TakeStateGet
  <2>1. SessionStarted(client, session) \in {TRUE, FALSE}
    BY DEF SessionStarted
  <2> QED BY <1>3, <2>1, AnswerKeepsReplies DEF TakeStateGet
<1>4. ASSUME /\ UNCHANGED hostVars /\ outputs' = outputs
             /\ cmds' = cmds \/ cmds' = <<>> \/ (cmds # <<>> /\ cmds' = Tail(cmds))
             /\ outbox' = outbox \/ outbox'.kind # "Batch"
      PROVE  ReplyInv'
  <2>1. page_epoch' = page_epoch /\ host' = host /\ pending_reply' = pending_reply
    BY <1>4 DEF hostVars
  <2> QED BY <1>4, <2>1, LessInFlight DEF ReplyInv, Awaited
<1>5. CASE \/ Starting \/ TakeCancelForPage \/ LeavesLoop \/ TakeShutdown
           \/ WorkerReturns \/ WorkerPanics
  <2>1. /\ UNCHANGED hostVars /\ outputs' = outputs
        /\ cmds' = cmds \/ cmds' = <<>> \/ (cmds # <<>> /\ cmds' = Tail(cmds))
        /\ outbox' = outbox \/ outbox'.kind # "Batch"
    BY <1>5 DEF Starting, TakeCancelForPage, LeavesLoop, TakeShutdown, WorkerReturns,
                WorkerPanics, Takes, Output
  <2> QED BY <1>4, <2>1
<1>6. CASE TakeUndrainableRequest
  <2>1. Takes("Request")
    BY <1>6 DEF TakeUndrainableRequest
  <2>2. outbox'.kind # "Batch"
    BY <1>6, UndrainableStates DEF Output
  <2> QED BY <1>4, <2>1, <2>2 DEF Takes
<1> QED BY <1>1, <1>2, <1>3, <1>5, <1>6 DEF WorkerStep

\* The page's reply arrives.
LEMMA ReceiveBatchKeepsReplies ==
  ASSUME TypeOK, ReplyInv, ReceiveBatch
  PROVE  ReplyInv'
<1>1. /\ outputs # <<>> /\ outputs' = Tail(outputs) /\ cmds' = cmds /\ page_epoch' = page_epoch
      /\ Head(outputs).kind = "Batch" /\ Head(outputs).epoch = page_epoch /\ outbox' = outbox
      /\ host' = host \/ host' # "running"
      /\ pending_reply' = NoReply
      /\ outputs \in Seq(Outputs)
  BY TypeParts
     DEF ReceiveBatch, Receives, HostStep, workerVars, FailHost, FinishTerminal, Stops, QueueTypeOK
<1>2. OnePlace' /\ NothingFromLaterPages'
  BY <1>1, LessInFlight DEF ReplyInv
<1>3. /\ Mentions(outputs, "Batch", page_epoch) # {}
      /\ Mentions(Tail(outputs), "Batch", page_epoch) = {}
  <2>1. AtMostOne(Mentions(outputs, "Batch", page_epoch))
    BY DEF ReplyInv, OnePlace
  <2>2. 1 \in Mentions(outputs, "Batch", page_epoch)
    BY <1>1, TailAt DEF Mentions
  <2> QED BY <1>1, <2>1, <2>2, MentionsHead
<1>4. Mentions(cmds, "Request", page_epoch) = {} /\ ~Replies(page_epoch)
  BY <1>3 DEF ReplyInv, OnePlace
<1>5. Awaited'
  BY <1>1, <1>3, <1>4 DEF Awaited, Replies
<1> QED BY <1>2, <1>5 DEF ReplyInv

\* The page asks.
LEMMA PageRequestKeepsReplies ==
  ASSUME TypeOK, ReplyInv, PageRequests
  PROVE  ReplyInv'
<1>1. PICK request \in Requests : Sends(Command("Request", page_epoch, request))
  BY DEF PageRequests
<1> DEFINE c == Command("Request", page_epoch, request)
<1>2. /\ cmds' = Append(cmds, c) /\ outputs' = outputs /\ outbox' = outbox
      /\ page_epoch' = page_epoch /\ host' = host /\ host = "running"
      /\ pending_reply = NoReply /\ page_epoch > 0 /\ pending_reply' = page_epoch
  BY <1>1 DEF PageRequests, Sends, HostStep, workerVars
<1>3. c \in Commands /\ cmds \in Seq(Commands) /\ c.epoch = page_epoch /\ page_epoch \in Nat
  <2>1. c \in Commands /\ cmds \in Seq(Commands)
    BY TypeParts, MessageTypes DEF QueueTypeOK, HostTypeOK
  <2>2. page_epoch \in Nat
    BY TypeParts, GreeterAssumption DEF HostTypeOK, Epochs
  <2> QED BY <2>1, <2>2 DEF Command
<1> HIDE DEF c
<1>4. /\ Mentions(cmds, "Request", page_epoch) = {}
      /\ Mentions(outputs, "Batch", page_epoch) = {}
      /\ ~Replies(page_epoch)
  BY <1>2, <1>3 DEF ReplyInv, Awaited, NoReply
<1>5. AtMostOne(Mentions(cmds', "Request", page_epoch))
  BY <1>2, <1>3, <1>4, MentionsAppend
<1>6. OnePlace'
  BY <1>2, <1>4, <1>5 DEF OnePlace, Replies, AtMostOne
<1>7. Awaited'
  BY <1>2 DEF Awaited
<1>8. NothingFromLaterPages'
  <2>1. UpTo(cmds', "Request", page_epoch)
    BY <1>2, <1>3, UpToAppend DEF ReplyInv, NothingFromLaterPages
  <2> QED BY <1>2, <2>1 DEF ReplyInv, NothingFromLaterPages
<1> QED BY <1>6, <1>7, <1>8 DEF ReplyInv

\* A command that is no request.
LEMMA NoticeMentions ==
  ASSUME QueueTypeOK, NEW k \in {"CancelForPage", "Shutdown"}, NEW e,
         cmds' = Append(cmds, Notice(k)) \/ cmds' = cmds
  PROVE  /\ Mentions(cmds', "Request", e) = Mentions(cmds, "Request", e)
         /\ UpTo(cmds, "Request", e) => UpTo(cmds', "Request", e)
<1>1. Notice(k) \in Commands /\ Notice(k).kind # "Request" /\ cmds \in Seq(Commands)
  BY MessageTypes DEF Notice, Command, QueueTypeOK
<1> DEFINE c == Notice(k)
<1> HIDE DEF c
<1>2. c \in Commands /\ c.kind # "Request" /\ (cmds' = Append(cmds, c) \/ cmds' = cmds)
  BY <1>1 DEF c
<1>3. CASE cmds' = cmds
  BY <1>3
<1>4. CASE cmds' = Append(cmds, c)
  <2>1. ~(c.kind = "Request" /\ c.epoch = e)
    BY <1>2
  <2>2. Mentions(Append(cmds, c), "Request", e) = Mentions(cmds, "Request", e)
    BY <1>1, <1>2, <2>1, MentionsAppend
  <2>3. UpTo(cmds, "Request", e) => UpTo(Append(cmds, c), "Request", e)
    BY <1>1, <1>2, UpToAppend
  <2> QED BY <1>4, <2>2, <2>3
<1> QED BY <1>2, <1>3, <1>4

\* A new page begins, or the host gives up because it cannot cancel the last one's login.
LEMMA LoadKeepsReplies ==
  ASSUME TypeOK, ReplyInv, LoadStarted
  PROVE  ReplyInv'
<1>1. /\ page_epoch' = page_epoch + 1 /\ pending_reply' = NoReply /\ outputs' = outputs
      /\ outbox' = outbox
      /\ cmds' = Append(cmds, Notice("CancelForPage")) \/ cmds' = cmds
  BY DEF LoadStarted, HostStep, workerVars, Sends, FailHost, Stops
<1>2. QueueTypeOK /\ ThreadTypeOK /\ page_epoch \in Nat
  BY TypeParts, GreeterAssumption DEF HostTypeOK, Epochs
<1>3. cmds \in Seq(Commands) /\ outputs \in Seq(Outputs)
  BY <1>2 DEF QueueTypeOK
<1>4. UpTo(cmds, "Request", page_epoch + 1) /\ Mentions(cmds, "Request", page_epoch + 1) = {}
  BY <1>2, <1>3, NewPageMentions, EpochsInQueues DEF ReplyInv, NothingFromLaterPages
<1>5. UpTo(outputs, "Batch", page_epoch + 1) /\ Mentions(outputs, "Batch", page_epoch + 1) = {}
  BY <1>2, <1>3, NewPageMentions, EpochsInQueues DEF ReplyInv, NothingFromLaterPages
<1>6. outbox.kind = "Batch" => outbox.epoch <= page_epoch + 1 /\ outbox.epoch # page_epoch + 1
  BY <1>2, EpochsInQueues DEF ReplyInv, NothingFromLaterPages
<1>7. UpTo(cmds', "Request", page_epoch + 1) /\ Mentions(cmds', "Request", page_epoch + 1) = {}
  BY <1>1, <1>2, <1>4, NoticeMentions
<1>8. NothingFromLaterPages'
  BY <1>1, <1>5, <1>6, <1>7 DEF NothingFromLaterPages
<1>9. OnePlace'
  BY <1>1, <1>5, <1>6, <1>7 DEF OnePlace, AtMostOne, Replies
<1>10. Awaited'
  BY <1>1, <1>5, <1>6, <1>7 DEF Awaited, Replies
<1> QED BY <1>8, <1>9, <1>10 DEF ReplyInv

\* The host asks only when nothing is under way, and takes only what it asked for.
LEMMA HostKeepsReplies ==
  ASSUME TypeOK, ReplyInv, HostLoop \/ Environment
  PROVE  ReplyInv'
<1>1. outbox' = outbox
  BY HostTouchesNoWorker
<1>2. CASE ReceiveBatch
  BY <1>2, ReceiveBatchKeepsReplies
<1>3. CASE PageRequests
  BY <1>3, PageRequestKeepsReplies
<1>4. CASE LoadStarted
  BY <1>4, LoadKeepsReplies
<1>5. CASE \/ ReceiveReady \/ ReceiveStaleBatch \/ ReceiveFatal \/ NoticeDisconnected
           \/ PageEpochExhausted \/ RendererTerminates \/ WindowCloses
  <2>1. /\ page_epoch' = page_epoch /\ cmds' = cmds
        /\ outputs' = outputs \/ (outputs # <<>> /\ outputs' = Tail(outputs))
        /\ \/ host' = host /\ pending_reply' = pending_reply
           \/ host' # "running" /\ pending_reply' = NoReply
    BY <1>5
       DEF ReceiveReady, ReceiveStaleBatch, ReceiveFatal, NoticeDisconnected, Receives,
           PageEpochExhausted, RendererTerminates, WindowCloses, FailHost, FinishTerminal, Stops
  <2> QED BY <1>1, <2>1, LessInFlight DEF ReplyInv, Awaited
<1>6. CASE JoinSends \/ JoinReturns
  <2>1. /\ page_epoch' = page_epoch /\ outputs' = outputs /\ pending_reply' = pending_reply
        /\ host' # "running"
        /\ cmds' = Append(cmds, Notice("Shutdown")) \/ cmds' = cmds
    BY <1>6 DEF JoinSends, JoinReturns, Joining, Sends
  <2>2. /\ Mentions(cmds', "Request", page_epoch) = Mentions(cmds, "Request", page_epoch)
        /\ UpTo(cmds, "Request", page_epoch) => UpTo(cmds', "Request", page_epoch)
    BY <2>1, NoticeMentions, TypeParts
  <2>3. OnePlace'
    BY <1>1, <2>1, <2>2 DEF ReplyInv, OnePlace, Replies
  <2>4. Awaited' /\ NothingFromLaterPages'
    BY <1>1, <2>1, <2>2 DEF ReplyInv, Awaited, NothingFromLaterPages
  <2> QED BY <2>3, <2>4 DEF ReplyInv
<1> QED BY <1>2, <1>3, <1>4, <1>5, <1>6 DEF HostLoop, PollOutputs, Environment

\* At most one request or reply of the loaded page is under way, exactly while the host awaits
\* it.
THEOREM GreeterReplyInvariant == Spec => []ReplyInv
<1>1. Init => ReplyInv
  <2> SUFFICES ASSUME Init PROVE ReplyInv
    OBVIOUS
  <2>1. \A e : Mentions(cmds, "Request", e) = {} /\ Mentions(outputs, "Batch", e) = {}
               /\ UpTo(cmds, "Request", e) /\ UpTo(outputs, "Batch", e)
    BY MentionsNothing DEF Init
  <2>2. outbox.kind # "Batch"
    BY DEF Init, NoOutput, Output
  <2> QED BY <2>1, <2>2
          DEF Init, ReplyInv, OnePlace, Awaited, NothingFromLaterPages, Replies, AtMostOne
<1>2. TypeOK /\ ReplyInv /\ [Next]_vars => ReplyInv'
  <2>1. ReplyInv /\ UNCHANGED vars => ReplyInv'
    BY DEF vars, hostVars, ReplyInv, OnePlace, Awaited, NothingFromLaterPages, Replies
  <2> QED BY <2>1, WorkerKeepsReplies, HostKeepsReplies DEF Next
<1> QED BY <1>1, <1>2, GreeterTypeCorrect, PTL DEF Spec

\* The host never sees a reply it did not wait for, nor two for one request, however many
\* pages come and go while requests, replies and cancellations are queued.
THEOREM GreeterRepliesCorrelated == Spec => []RepliesAreCorrelated
<1>1. ReplyInv => RepliesAreCorrelated
  BY DEF ReplyInv, OnePlace, Awaited, Replies, Mentions, AtMostOne, RepliesAreCorrelated
<1> QED BY <1>1, GreeterReplyInvariant, PTL
-----------------------------------------------------------------------------
(* The order of the commands. *)

\* A request of the page that is loaded joins the queue.
LEMMA RequestJoins ==
  ASSUME NEW S, NEW q \in Seq(S), NEW x \in S, NEW e,
         x.kind = "Request", x.epoch = e, Separated(q), CancelledAfter(q, e)
  PROVE  /\ Separated(Append(q, x)) /\ CancelledAfter(Append(q, x), e)
         /\ \A o : CancelledBefore(q, o) /\ (o = e \/ Cancels(q, 0, Len(q) + 1))
                     => CancelledBefore(Append(q, x), o)
<1> DEFINE a == Append(q, x)
<1>1. /\ Len(q) \in Nat /\ DOMAIN q = 1 .. Len(q)
      /\ DOMAIN a = 1 .. (Len(q) + 1) /\ Len(a) = Len(q) + 1
      /\ \A i \in 1 .. Len(q) : a[i] = q[i]
      /\ a[Len(q) + 1] = x
  BY AppendAt
<1> HIDE DEF a
<1>2. \A i, k \in Nat : Cancels(q, i, k) => Cancels(a, i, k)
  BY <1>1 DEF Cancels
<1>3. \A i \in Nat : Cancels(q, i, Len(q) + 1) => Cancels(a, i, Len(a) + 1)
  BY <1>1 DEF Cancels
<1>4. Separated(a)
  <2>1. SUFFICES ASSUME NEW i \in DOMAIN a, NEW k \in DOMAIN a, i < k,
                        a[i].kind = "Request", a[k].kind = "Request", a[i].epoch # a[k].epoch
                 PROVE  Cancels(a, i, k)
    BY DEF Separated
  <2>2. i \in DOMAIN q /\ a[i] = q[i] /\ i \in Nat
    BY <1>1, <2>1
  <2>3. CASE k \in DOMAIN q
    <3>1. a[k] = q[k] /\ k \in Nat
      BY <1>1, <2>3
    <3>2. Cancels(q, i, k)
      BY <2>1, <2>2, <2>3, <3>1 DEF Separated
    <3> QED BY <1>2, <2>2, <3>1, <3>2
  <2>4. CASE k = Len(q) + 1
    <3>1. Cancels(q, i, Len(q) + 1)
      BY <1>1, <2>1, <2>2, <2>4 DEF CancelledAfter
    <3> QED BY <1>1, <1>2, <2>2, <2>4, <3>1
  <2> QED BY <1>1, <2>3, <2>4
<1>5. CancelledAfter(a, e)
  <2>1. SUFFICES ASSUME NEW i \in DOMAIN a, a[i].kind = "Request", a[i].epoch # e
                 PROVE  Cancels(a, i, Len(a) + 1)
    BY DEF CancelledAfter
  <2>2. i \in DOMAIN q /\ a[i] = q[i] /\ i \in Nat
    BY <1>1, <2>1
  <2> QED BY <1>3, <2>1, <2>2 DEF CancelledAfter
<1>6. ASSUME NEW o, CancelledBefore(q, o), o = e \/ Cancels(q, 0, Len(q) + 1)
      PROVE  CancelledBefore(a, o)
  <2>1. SUFFICES ASSUME NEW k \in DOMAIN a, a[k].kind = "Request", a[k].epoch # o
                 PROVE  Cancels(a, 0, k)
    BY DEF CancelledBefore
  <2>2. CASE k \in DOMAIN q
    <3>1. a[k] = q[k] /\ k \in Nat
      BY <1>1, <2>2
    <3> QED BY <1>2, <1>6, <2>1, <2>2, <3>1 DEF CancelledBefore
  <2>3. CASE k = Len(q) + 1
    BY <1>1, <1>2, <1>6, <2>1, <2>3
  <2> QED BY <1>1, <2>2, <2>3
<1> QED BY <1>4, <1>5, <1>6 DEF a

\* A notice joins the queue; the one that cancels separates everything before it from
\* everything after it.
LEMMA NoticeJoins ==
  ASSUME NEW S, NEW q \in Seq(S), NEW x \in S, x.kind # "Request", Separated(q)
  PROVE  /\ Separated(Append(q, x))
         /\ \A o : CancelledBefore(q, o) => CancelledBefore(Append(q, x), o)
         /\ x.kind = "CancelForPage" =>
              /\ Cancels(Append(q, x), 0, Len(Append(q, x)) + 1)
              /\ \A e : CancelledAfter(Append(q, x), e)
<1> DEFINE a == Append(q, x)
<1>1. /\ Len(q) \in Nat /\ DOMAIN q = 1 .. Len(q)
      /\ DOMAIN a = 1 .. (Len(q) + 1) /\ Len(a) = Len(q) + 1
      /\ \A i \in 1 .. Len(q) : a[i] = q[i]
      /\ a[Len(q) + 1] = x
  BY AppendAt
<1> HIDE DEF a
<1>2. \A i, k \in Nat : Cancels(q, i, k) => Cancels(a, i, k)
  BY <1>1 DEF Cancels
<1>3. \A i \in DOMAIN a : a[i].kind = "Request" => i \in DOMAIN q /\ i \in Nat /\ a[i] = q[i]
  BY <1>1
<1>4. Separated(a)
  BY <1>2, <1>3 DEF Separated
<1>5. \A o : CancelledBefore(q, o) => CancelledBefore(a, o)
  BY <1>2, <1>3 DEF CancelledBefore
<1>6. ASSUME x.kind = "CancelForPage", NEW i \in 0 .. Len(q)
      PROVE  Cancels(a, i, Len(a) + 1)
  BY <1>1, <1>6 DEF Cancels
<1>7. x.kind = "CancelForPage" =>
        /\ Cancels(a, 0, Len(a) + 1)
        /\ \A e : CancelledAfter(a, e)
  BY <1>1, <1>3, <1>6 DEF CancelledAfter
<1> QED BY <1>4, <1>5, <1>7 DEF a

\* The head leaves the queue: a request hands its page's claim to what is behind it.
LEMMA HeadLeaves ==
  ASSUME NEW S, NEW q \in Seq(S), q # <<>>, Separated(q)
  PROVE  /\ Separated(Tail(q))
         /\ \A e : CancelledAfter(q, e) => CancelledAfter(Tail(q), e)
         /\ Head(q).kind # "CancelForPage" =>
              /\ \A o : CancelledBefore(q, o) => CancelledBefore(Tail(q), o)
              /\ Cancels(q, 0, Len(q) + 1) => Cancels(Tail(q), 0, Len(Tail(q)) + 1)
         /\ Head(q).kind = "Request" =>
              /\ CancelledBefore(Tail(q), Head(q).epoch)
              /\ \A e : CancelledAfter(q, e) /\ Head(q).epoch # e =>
                          Cancels(Tail(q), 0, Len(Tail(q)) + 1)
<1> DEFINE t == Tail(q)
           h == Head(q)
<1>1. /\ Len(q) \in Nat \ {0} /\ DOMAIN q = 1 .. Len(q) /\ h = q[1]
      /\ DOMAIN t = 1 .. (Len(q) - 1) /\ Len(t) = Len(q) - 1
      /\ \A i \in 1 .. (Len(q) - 1) : t[i] = q[i + 1]
  BY TailAt
<1> HIDE DEF t, h
<1>2. \A i \in DOMAIN t : i \in Nat \ {0} /\ i + 1 \in DOMAIN q /\ t[i] = q[i + 1]
  BY <1>1
<1>3. ASSUME NEW i \in Nat, NEW k \in Nat, Cancels(q, i + 1, k + 1)
      PROVE  Cancels(t, i, k)
  <2>1. PICK j \in DOMAIN q : i + 1 < j /\ j < k + 1 /\ q[j].kind = "CancelForPage"
    BY <1>3 DEF Cancels
  <2>2. j - 1 \in DOMAIN t /\ i < j - 1 /\ j - 1 < k /\ (j - 1) + 1 = j
    BY <1>1, <2>1
  <2>3. t[j - 1] = q[j]
    BY <1>2, <2>2
  <2> QED BY <2>1, <2>2, <2>3 DEF Cancels
<1>4. ASSUME NEW k \in Nat, h.kind # "CancelForPage", Cancels(q, 0, k + 1)
      PROVE  Cancels(t, 0, k)
  <2>1. PICK j \in DOMAIN q : 0 < j /\ j < k + 1 /\ q[j].kind = "CancelForPage"
    BY <1>4 DEF Cancels
  <2>2. j # 1 /\ j \in Nat
    BY <1>1, <1>4, <2>1
  <2>3. Cancels(q, 0 + 1, k + 1)
    BY <2>1, <2>2 DEF Cancels
  <2> QED BY <1>3, <2>3
<1>5. Separated(t)
  <2>1. SUFFICES ASSUME NEW i \in DOMAIN t, NEW k \in DOMAIN t, i < k,
                        t[i].kind = "Request", t[k].kind = "Request", t[i].epoch # t[k].epoch
                 PROVE  Cancels(t, i, k)
    BY DEF Separated
  <2>2. i + 1 < k + 1 /\ i \in Nat /\ k \in Nat /\ i + 1 \in DOMAIN q /\ k + 1 \in DOMAIN q
        /\ t[i] = q[i + 1] /\ t[k] = q[k + 1]
    BY <1>2, <2>1
  <2>3. Cancels(q, i + 1, k + 1)
    BY <2>1, <2>2 DEF Separated
  <2> QED BY <1>3, <2>2, <2>3
<1>6. \A e : CancelledAfter(q, e) => CancelledAfter(t, e)
  <2>1. SUFFICES ASSUME NEW e, CancelledAfter(q, e), NEW i \in DOMAIN t,
                        t[i].kind = "Request", t[i].epoch # e
                 PROVE  Cancels(t, i, Len(t) + 1)
    BY DEF CancelledAfter
  <2>2. i \in Nat /\ i + 1 \in DOMAIN q /\ t[i] = q[i + 1]
    BY <1>2, <2>1
  <2>3. Cancels(q, i + 1, Len(q) + 1)
    BY <2>1, <2>2 DEF CancelledAfter
  <2>4. Len(q) \in Nat /\ Len(t) + 1 = Len(q)
    BY <1>1
  <2> QED BY <1>3, <2>2, <2>3, <2>4
<1>7. ASSUME h.kind # "CancelForPage", NEW o, CancelledBefore(q, o)
      PROVE  CancelledBefore(t, o)
  <2>1. SUFFICES ASSUME NEW k \in DOMAIN t, t[k].kind = "Request", t[k].epoch # o
                 PROVE  Cancels(t, 0, k)
    BY DEF CancelledBefore
  <2>2. k \in Nat /\ k + 1 \in DOMAIN q /\ t[k] = q[k + 1]
    BY <1>2, <2>1
  <2>3. Cancels(q, 0, k + 1)
    BY <1>7, <2>1, <2>2 DEF CancelledBefore
  <2> QED BY <1>4, <1>7, <2>2, <2>3
<1>8. h.kind # "CancelForPage" /\ Cancels(q, 0, Len(q) + 1) => Cancels(t, 0, Len(t) + 1)
  <2>1. Len(q) \in Nat /\ Len(t) + 1 = Len(q)
    BY <1>1
  <2> QED BY <1>4, <2>1
<1>9. h.kind = "Request" => CancelledBefore(t, h.epoch)
  <2>1. SUFFICES ASSUME h.kind = "Request", NEW k \in DOMAIN t,
                        t[k].kind = "Request", t[k].epoch # h.epoch
                 PROVE  Cancels(t, 0, k)
    BY DEF CancelledBefore
  <2>2. k \in Nat \ {0} /\ k + 1 \in DOMAIN q /\ t[k] = q[k + 1] /\ 1 \in DOMAIN q /\ 1 < k + 1
    BY <1>1, <1>2, <2>1
  <2>3. Cancels(q, 0 + 1, k + 1)
    BY <1>1, <2>1, <2>2 DEF Separated
  <2> QED BY <1>3, <2>2, <2>3
<1>10. ASSUME h.kind = "Request", NEW e, CancelledAfter(q, e), h.epoch # e
       PROVE  Cancels(t, 0, Len(t) + 1)
  <2>1. 1 \in DOMAIN q /\ Len(q) \in Nat /\ Len(t) + 1 = Len(q)
    BY <1>1
  <2>2. Cancels(q, 0 + 1, Len(q) + 1)
    BY <1>1, <1>10, <2>1 DEF CancelledAfter
  <2> QED BY <1>3, <2>1, <2>2
<1> QED BY <1>5, <1>6, <1>7, <1>8, <1>9, <1>10 DEF t, h
-----------------------------------------------------------------------------
(* Proof of OwnerInv. *)

\* Only a request that begins a login, or one that finds it waiting, leaves it waiting, and
\* only an answer to a waiting login can be misplaced.
LEMMA RequestOwns ==
  ASSUME TypeOK, ~misused, TakeRequest
  PROVE  /\ client' = "Waiting" => Begins(Head(cmds).request) \/ client = "Waiting"
         /\ owner' = IF Begins(Head(cmds).request) THEN Head(cmds).epoch ELSE owner
         /\ misused' => client = "Waiting" /\ owner # Head(cmds).epoch
<1> DEFINE request == Head(cmds).request
           epoch   == Head(cmds).epoch
<1>1. request \in Requests \ {"get"}
  <2>1. Head(cmds) \in Commands
    BY TypeParts, TakesType DEF TakeRequest
  <2> QED BY <2>1 DEF Commands, Notice, Command, TakeRequest, Takes
<1>2. PICK o \in Execute(request) : \E s \in StartOutcomes(request, o) :
        /\ Becomes(s)
        /\ owner' = IF Begins(request) THEN epoch ELSE owner
        /\ misused' = \/ misused
                      \/ request = "respond" /\ o.result = "Ok" /\ owner # epoch
  BY DEF TakeRequest
<1>3. PICK s \in StartOutcomes(request, o) :
        /\ Becomes(s)
        /\ owner' = IF Begins(request) THEN epoch ELSE owner
        /\ misused' = \/ misused
                      \/ request = "respond" /\ o.result = "Ok" /\ owner # epoch
  BY <1>2
<1>4. Nothing(request, o) \/ Advances(request, o) \/ Ends(request, o)
  BY <1>1, ExecuteStates
<1>5. s.state = "Waiting" => s = o
  <2>1. CASE Starts(request, o)
    <3>1. s \in StartSessionOutcomes(o.state, o.session) /\ o.state = "Authenticated"
      BY <1>3, <2>1 DEF StartOutcomes, Starts
    <3> QED BY <3>1, StartStates
  <2>2. CASE ~Starts(request, o)
    BY <1>3, <2>2 DEF StartOutcomes
  <2> QED BY <2>1, <2>2
<1>6. client' = "Waiting" => Begins(request) \/ client = "Waiting"
  BY <1>3, <1>4, <1>5 DEF Becomes, Nothing, Advances, Ends
<1>7. misused' => client = "Waiting" /\ owner # epoch
  BY <1>3, <1>4 DEF Nothing, Advances, Ends, Begins
<1> QED BY <1>3, <1>6, <1>7

\* The request that finds a login waiting is of the page that began it: one of another page
\* would have met the cancellation before it.
LEMMA TakenByItsOwner ==
  ASSUME TypeOK, OwnerInv, Takes("Request"), client = "Waiting"
  PROVE  owner = Head(cmds).epoch
<1>1. cmds \in Seq(Commands) /\ cmds # <<>> /\ Head(cmds).kind = "Request"
  BY TypeParts DEF QueueTypeOK, Takes
<1>2. SUFFICES ASSUME owner # Head(cmds).epoch
               PROVE  FALSE
  OBVIOUS
<1>3. 1 \in DOMAIN cmds /\ cmds[1] = Head(cmds)
  BY <1>1, TailAt
<1>4. Cancels(cmds, 0, 1)
  BY <1>1, <1>2, <1>3 DEF OwnerInv, CancelledBefore
<1>5. DOMAIN cmds = 1 .. Len(cmds) /\ Len(cmds) \in Nat
  BY <1>1, TailAt
<1> QED BY <1>4, <1>5 DEF Cancels

\* A request of a page begins a transaction of that page.
LEMMA RequestKeepsOwner ==
  ASSUME TypeOK, OwnerInv, TakeRequest
  PROVE  OwnerInv'
<1> DEFINE epoch == Head(cmds).epoch
<1>1. /\ cmds \in Seq(Commands) /\ cmds # <<>> /\ Head(cmds).kind = "Request"
      /\ cmds' = Tail(cmds) /\ UNCHANGED hostVars /\ worker = "running"
  BY TypeParts DEF QueueTypeOK, TakeRequest, Takes
<1>2. host' = host /\ page_epoch' = page_epoch
  BY <1>1 DEF hostVars
<1>3. /\ Separated(cmds')
      /\ host = "running" => CancelledAfter(cmds', page_epoch)
  BY <1>1, HeadLeaves DEF OwnerInv
<1>4. ~misused'
  <2>1. misused' => client = "Waiting" /\ owner # epoch
    BY RequestOwns DEF OwnerInv
  <2>2. Takes("Request")
    BY DEF TakeRequest
  <2> QED BY <2>1, <2>2, TakenByItsOwner
<1>5. CASE Begins(Head(cmds).request)
  <2>1. owner' = epoch
    BY <1>5, RequestOwns DEF OwnerInv
  <2>2. CancelledBefore(cmds', owner')
    BY <1>1, <2>1, HeadLeaves DEF OwnerInv
  <2>3. (host = "running" /\ owner' # page_epoch) => Cancels(cmds', 0, Len(cmds') + 1)
    BY <1>1, <2>1, HeadLeaves DEF OwnerInv
  <2> QED BY <1>2, <1>3, <1>4, <2>2, <2>3 DEF OwnerInv
<1>6. CASE ~Begins(Head(cmds).request)
  <2>1. owner' = owner /\ (client' = "Waiting" => client = "Waiting")
    BY <1>6, RequestOwns DEF OwnerInv
  <2>2. client = "Waiting" => CancelledBefore(cmds', owner)
    BY <1>1, HeadLeaves DEF OwnerInv
  <2>3. (client = "Waiting" /\ host = "running" /\ owner # page_epoch)
          => Cancels(cmds', 0, Len(cmds') + 1)
    BY <1>1, HeadLeaves DEF OwnerInv, Gone
  <2> QED BY <1>2, <1>3, <1>4, <2>1, <2>2, <2>3 DEF OwnerInv
<1> QED BY <1>5, <1>6

\* One whose texts cannot be shown leaves none behind.
LEMMA UndrainableKeepsOwner ==
  ASSUME TypeOK, OwnerInv, TakeUndrainableRequest
  PROVE  OwnerInv'
<1>1. /\ Takes("Request") /\ cmds \in Seq(Commands) /\ cmds # <<>>
      /\ cmds' = Tail(cmds) /\ host' = host /\ page_epoch' = page_epoch
  BY TypeParts DEF QueueTypeOK, TakeUndrainableRequest, Takes, hostVars
<1>2. Separated(cmds') /\ (host = "running" => CancelledAfter(cmds', page_epoch))
  BY <1>1, HeadLeaves DEF OwnerInv
<1>3. client' # "Waiting"
  BY UndrainableStates
<1>4. ~misused'
  <2>1. misused' => client = "Waiting" /\ owner # Head(cmds).epoch
    BY DEF TakeUndrainableRequest, ExchangesTexts, Begins, OwnerInv
  <2> QED BY <1>1, <2>1, TakenByItsOwner
<1> QED BY <1>1, <1>2, <1>3, <1>4 DEF OwnerInv

\* A cancelled login waits no longer.
LEMMA LifecycleWaitsNot ==
  ASSUME TypeOK, ReleaseInv, NEW o \in CancelForLifecycleOutcomes, CancelForLifecycle(o)
  PROVE  client' # "Waiting" /\ misused' = misused
<1>1. client \in LoginRestStates /\ Held(client, session)
  BY TypeParts DEF ControllerTypeOK, ReleaseInv, Held
<1>2. Held(o.state, o.session) /\ (o.session = "open" => o.state \in {"Failed", "Disconnected"})
  BY <1>1, LifecycleReleases
<1> QED BY <1>2 DEF CancelForLifecycle, Held

\* The empty queue that a thread leaves.
LEMMA NothingQueued ==
  /\ Separated(<<>>) /\ \A e : CancelledAfter(<<>>, e) /\ CancelledBefore(<<>>, e)
<1>1. DOMAIN << >> = {}
  OBVIOUS
<1> QED BY <1>1 DEF Separated, CancelledAfter, CancelledBefore

\* A transaction changes its owner only after the one before it was cancelled.
LEMMA WorkerKeepsOwner ==
  ASSUME TypeOK, ReleaseInv, OwnerInv, WorkerStep \/ WorkerPanics
  PROVE  OwnerInv'
<1>1. host' = host /\ page_epoch' = page_epoch
  BY DEF WorkerStep, SendOutput, Starting, TakeRequest, TakeUndrainableRequest, TakeStateGet,
         TakeCancelForPage, LeavesLoop, TakeShutdown, WorkerReturns, WorkerPanics, Takes,
         hostVars
<1>2. CASE SendOutput \/ Starting
  <2>1. cmds' = cmds /\ UNCHANGED controllerVars /\ (Gone => Gone')
    BY <1>2 DEF SendOutput, Starting, Gone
  <2> QED BY <1>1, <2>1 DEF OwnerInv, controllerVars
<1>3. CASE TakeRequest \/ TakeUndrainableRequest
  BY <1>3, RequestKeepsOwner, UndrainableKeepsOwner
<1>4. CASE TakeStateGet
  <2>1. /\ cmds \in Seq(Commands) /\ cmds # <<>> /\ Head(cmds).kind = "Request"
        /\ cmds' = Tail(cmds) /\ UNCHANGED <<worker, controllerVars>>
    BY <1>4, TypeParts DEF QueueTypeOK, TakeStateGet, Takes
  <2>2. UNCHANGED <<client, owner, misused>> /\ Gone' = Gone
    BY <2>1 DEF controllerVars, Gone
  <2>3. /\ Separated(cmds')
        /\ host = "running" => CancelledAfter(cmds', page_epoch)
        /\ client = "Waiting" => CancelledBefore(cmds', owner)
        /\ (client = "Waiting" /\ host = "running" /\ ~Gone /\ owner # page_epoch) =>
             Cancels(cmds', 0, Len(cmds') + 1)
    BY <2>1, HeadLeaves DEF OwnerInv
  <2> QED BY <1>1, <2>2, <2>3 DEF OwnerInv
<1>5. CASE TakeCancelForPage \/ TakeShutdown \/ LeavesLoop
  <2>1. client' # "Waiting" /\ misused' = misused
    BY <1>5, LifecycleWaitsNot DEF TakeCancelForPage, TakeShutdown, LeavesLoop
  <2>2. cmds \in Seq(Commands)
    BY TypeParts DEF QueueTypeOK
  <2>3. cmds' = cmds \/ (cmds # <<>> /\ cmds' = Tail(cmds))
    BY <1>5 DEF TakeCancelForPage, TakeShutdown, LeavesLoop, Takes
  <2>4. Separated(cmds') /\ (host = "running" => CancelledAfter(cmds', page_epoch))
    BY <2>2, <2>3, HeadLeaves DEF OwnerInv
  <2> QED BY <1>1, <2>1, <2>4 DEF OwnerInv
<1>6. CASE WorkerReturns \/ WorkerPanics
  <2>1. cmds' = <<>> /\ UNCHANGED controllerVars /\ Gone'
    BY <1>6 DEF WorkerReturns, WorkerPanics, Gone
  <2>2. Separated(cmds') /\ \A e : CancelledAfter(cmds', e) /\ CancelledBefore(cmds', e)
    BY <2>1, NothingQueued
  <2> QED BY <1>1, <2>1, <2>2 DEF OwnerInv, controllerVars
<1> QED BY <1>2, <1>3, <1>4, <1>5, <1>6 DEF WorkerStep

\* A page is loaded with its cancellation queued behind what the page before it asked.
LEMMA HostKeepsOwner ==
  ASSUME TypeOK, OwnerInv, HostLoop \/ Environment
  PROVE  OwnerInv'
<1>1. UNCHANGED <<client, owner, misused>> /\ Gone' = Gone
  BY HostTouchesNoWorker DEF controllerVars, Gone
<1>2. cmds \in Seq(Commands) /\ page_epoch \in Epochs
  BY TypeParts DEF QueueTypeOK, HostTypeOK
<1>3. CASE PageRequests
  <2>1. PICK request \in Requests : Sends(Command("Request", page_epoch, request))
    BY <1>3 DEF PageRequests
  <2> DEFINE c == Command("Request", page_epoch, request)
  <2>2. /\ cmds' = Append(cmds, c) /\ ~Gone /\ host = "running" /\ host' = host
        /\ page_epoch' = page_epoch
    BY <1>3, <2>1 DEF PageRequests, Sends, CanSend, HostStep
  <2>3. c \in Commands /\ c.kind = "Request" /\ c.epoch = page_epoch
    BY <1>2, MessageTypes DEF Command
  <2> HIDE DEF c
  <2>4. Separated(cmds') /\ CancelledAfter(cmds', page_epoch)
    BY <1>2, <2>2, <2>3, RequestJoins DEF OwnerInv
  <2>5. client = "Waiting" => CancelledBefore(cmds', owner)
    <3>1. ASSUME client = "Waiting"
          PROVE  /\ CancelledBefore(cmds, owner)
                 /\ owner = page_epoch \/ Cancels(cmds, 0, Len(cmds) + 1)
      BY <2>2, <3>1 DEF OwnerInv
    <3> QED BY <1>2, <2>2, <2>3, <3>1, RequestJoins DEF OwnerInv
  <2>6. ASSUME client = "Waiting", owner # page_epoch
        PROVE  Cancels(cmds', 0, Len(cmds') + 1)
    <3>1. Cancels(cmds, 0, Len(cmds) + 1)
      BY <2>2, <2>6 DEF OwnerInv
    <3> QED BY <1>2, <2>2, <2>3, <3>1, AppendAt DEF Cancels
  <2> QED BY <1>1, <2>2, <2>4, <2>5, <2>6 DEF OwnerInv
<1>4. CASE LoadStarted /\ Sends(Notice("CancelForPage"))
  <2> DEFINE c == Notice("CancelForPage")
  <2>1. cmds' = Append(cmds, c) /\ c \in Commands /\ c.kind = "CancelForPage"
    BY <1>4, MessageTypes DEF Sends, Notice, Command
  <2> HIDE DEF c
  <2>2. /\ Separated(cmds') /\ CancelledAfter(cmds', page_epoch')
        /\ Cancels(cmds', 0, Len(cmds') + 1)
        /\ \A o : CancelledBefore(cmds, o) => CancelledBefore(cmds', o)
    BY <1>2, <2>1, NoticeJoins DEF OwnerInv
  <2> QED BY <1>1, <2>2 DEF OwnerInv
<1>5. CASE LoadStarted /\ ~CanSend
  <2>1. cmds' = cmds /\ host' = "failing"
    BY <1>5 DEF LoadStarted, Sends, FailHost, Stops
  <2> QED BY <1>1, <2>1 DEF OwnerInv
<1>6. CASE PollOutputs \/ PageEpochExhausted \/ RendererTerminates \/ WindowCloses \/ JoinReturns
  <2>1. /\ cmds' = cmds /\ page_epoch' = page_epoch
        /\ host' = "running" => host = "running"
    BY <1>6
       DEF PollOutputs, ReceiveReady, ReceiveStaleBatch, ReceiveBatch, ReceiveFatal,
           NoticeDisconnected, Receives, HostStep, PageEpochExhausted, RendererTerminates,
           WindowCloses, JoinReturns, FailHost, FinishTerminal, Stops
  <2> QED BY <1>1, <2>1 DEF OwnerInv
<1>7. CASE JoinSends
  <2> DEFINE c == Notice("Shutdown")
  <2>1. /\ c \in Commands /\ c.kind # "Request" /\ host' # "running"
        /\ cmds' = Append(cmds, c) \/ cmds' = cmds
    BY <1>7, MessageTypes DEF JoinSends, Joining, Sends, Notice, Command
  <2> HIDE DEF c
  <2>2. Separated(cmds') /\ \A o : CancelledBefore(cmds, o) => CancelledBefore(cmds', o)
    BY <1>2, <2>1, NoticeJoins DEF OwnerInv
  <2> QED BY <1>1, <2>1, <2>2 DEF OwnerInv
<1> QED BY <1>3, <1>4, <1>5, <1>6, <1>7 DEF HostLoop, Environment, LoadStarted

\* Between what two pages ask there is a cancellation, in the queue or already handled.
THEOREM GreeterOwnerInvariant == Spec => []OwnerInv
<1>1. Init => OwnerInv
  BY NothingQueued DEF Init, OwnerInv
<1>2. TypeOK /\ ReleaseInv /\ OwnerInv /\ [Next]_vars => OwnerInv'
  <2>1. OwnerInv /\ UNCHANGED vars => OwnerInv'
    BY DEF vars, hostVars, controllerVars, OwnerInv, Gone
  <2> QED BY <2>1, WorkerKeepsOwner, HostKeepsOwner DEF Next
<1> QED BY <1>1, <1>2, GreeterTypeCorrect, GreeterReleaseCorrect, PTL DEF Spec

\* The prompt of a login is answered by the page that began it alone: whatever was queued
\* when a page was replaced, the cancellation comes before anything the new page asks.
THEOREM GreeterTransactionOwned == Spec => []TransactionOwnedByPage
<1>1. OwnerInv => TransactionOwnedByPage
  BY DEF OwnerInv, TransactionOwnedByPage
<1> QED BY <1>1, GreeterOwnerInvariant, PTL
=============================================================================
