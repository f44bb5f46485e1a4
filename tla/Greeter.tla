------------------------------ MODULE Greeter -------------------------------
(***************************************************************************)
(* The greeter: the GTK main thread that owns the WebView (fomalhaut-gtk   *)
(* with the callbacks of fomalhaut/gtk_host.rs), the controller thread     *)
(* that owns the GreeterController and the greetd client, and the two      *)
(* bounded queues between them.                                            *)
(*                                                                         *)
(*     GTK main thread  --cmds (try_send)-->       controller thread       *)
(*     GTK main thread  <--outputs (blocking)--    controller thread       *)
(*                                                                         *)
(* The backend is its contract, LoginContract, which GreetdClient          *)
(* implements; a call of it is one step, so greetd is assumed to answer.   *)
(* The catalog of trusted sessions is never empty: the host refuses to     *)
(* start without one.  The receiver of outputs lives at least as long as   *)
(* the controller thread, because whoever drops it joins the thread first. *)
(***************************************************************************)
EXTENDS LoginContract, Naturals, Sequences

CONSTANTS MaxPageEpoch,     \* u64::MAX
          CommandCapacity,  \* CHANNEL_CAPACITY of the commands
          OutputCapacity    \* CHANNEL_CAPACITY of the outputs

ASSUME GreeterAssumption == /\ MaxPageEpoch \in Nat
                            /\ CommandCapacity \in Nat \ {0}
                            /\ OutputCapacity \in Nat \ {0}

VARIABLES
  host,            \* the application: running, or joining the thread and why, or ended
  page_epoch,      \* page loads so far
  pending_reply,   \* the epoch of the request awaiting its reply, NoReply if none
  shutdown_sent,   \* shutdown() has sent its command
  cmds, outputs,   \* the two queues, oldest first
  worker,          \* the controller thread: starting, running, leaving, stopping, stopped
                   \* or panicked
  outbox,          \* the output its blocking send holds
  client, session, \* the backend's state between calls and what greetd holds
  login, authentication, prompt, \* the controller's public state
  owner,           \* history: the epoch whose page began the transaction
  misused          \* history: another page's request advanced the transaction

hostVars       == <<host, page_epoch, pending_reply, shutdown_sent>>
controllerVars == <<client, session, login, authentication, prompt, owner, misused>>
vars == <<hostVars, cmds, outputs, worker, outbox, controllerVars>>

NoReply  == 0       \* no page sends anything before the first load
NoOwner  == 0
Epochs   == 0 .. MaxPageEpoch
Requests == {"begin", "respond", "cancel", "select", "power", "get"}

Command(kind, epoch, request) == [kind |-> kind, epoch |-> epoch, request |-> request]
Notice(kind)                  == Command(kind, 0, "none")
Output(kind, epoch, terminal) == [kind |-> kind, epoch |-> epoch, terminal |-> terminal]
NoOutput                      == Output("none", 0, FALSE)

Commands == [kind : {"Request"}, epoch : Epochs, request : Requests]
              \cup {Notice("CancelForPage"), Notice("Shutdown")}
Outputs  == [kind : {"Ready", "Batch", "Fatal"}, epoch : Epochs, terminal : BOOLEAN]

\* map_state
PublicState(state) == IF state = "Disconnected" THEN "Failed" ELSE state

\* LoginBackend::session_started; a session started behind a lost connection is not known
SessionStarted(state, held) == state = "Authenticated" /\ held = "started"

-----------------------------------------------------------------------------
(* GreeterController::handle. *)

Unchanged(result) == {LoginOutcome(client, session, result)}

CancelForLifecycleOutcomes ==
  IF LoginInTransaction(client, session) THEN LoginCancelOutcomes(client, session)
                                         ELSE Unchanged("Ok")

\* request_power: disabled, not cancelled, failed, or requested
PowerOutcomes ==
  Unchanged("Err") \cup CancelForLifecycleOutcomes
    \cup {[o EXCEPT !.result = "Err"] : o \in CancelForLifecycleOutcomes}

\* select_session; the catalog has what it names or has not
SelectOutcomes ==
  IF SessionStarted(client, session) \/ client = "Disconnected"
  THEN Unchanged("Err")
  ELSE Unchanged("Ok") \cup Unchanged("Err")

Execute(request) ==
  CASE request = "begin"   -> BeginLoginOutcomes(client, session)
    [] request = "respond" -> IF prompt THEN LoginRespondOutcomes(client, session)
                                        ELSE LoginRefused(client, session)
    [] request = "cancel"  -> LoginCancelOutcomes(client, session)
    [] request = "select"  -> SelectOutcomes
    [] request = "power"   -> PowerOutcomes

\* an operation that ends Authenticated starts the selected session at once, and tries
\* again on any later one that succeeds
StartsAfterAnswer(request, o) ==
  request = "respond" /\ o.result = "Ok" /\ o.state = "Authenticated"
Starts(request, o) == o.result = "Ok" /\ o.state = "Authenticated"

StartOutcomes(request, o) ==
  IF Starts(request, o) THEN StartSessionOutcomes(o.state, o.session) ELSE {o}

Begins(request) == request = "begin" /\ client \in {"Idle", "Failed"}

LoginAfter(request, o, s) ==
  IF Starts(request, o) THEN IF s.result = "Ok" THEN "Started" ELSE "Failed"
  ELSE IF Begins(request) THEN "Idle" ELSE login

\* the public prompt that the drained core events leave; a failed operation has none
PromptAfter(request, o) ==
  IF request \in {"begin", "respond"} /\ o.result = "Ok"
  THEN o.state = "Waiting"
  ELSE prompt /\ ~Begins(request)
              /\ ~(LoginInTransaction(client, session) /\ o.state = "Idle")

\* greetd's texts have no length limit, and the events of the page do: only an exchange of
\* messages queues texts
ExchangesTexts(request) ==
  \/ Begins(request) /\ session = "none"
  \/ request = "respond" /\ prompt /\ client = "Waiting"

\* cancel_after_internal_failure, once the operation ended in o
AbandonOutcomes(o) ==
  IF LoginInTransaction(o.state, o.session)
  THEN LoginCancelOutcomes(o.state, o.session)
  ELSE {o}

Becomes(o) ==
  /\ client' = o.state
  /\ session' = o.session
  /\ authentication' = PublicState(o.state)

Batch(epoch) == Output("Batch", epoch, SessionStarted(client', session'))

-----------------------------------------------------------------------------
(* The controller thread. *)

WorkerRuns == host \notin {"exited", "failed"}

Takes(kind) ==
  /\ WorkerRuns
  /\ worker = "running"
  /\ outbox = NoOutput
  /\ cmds # <<>>
  /\ Head(cmds).kind = kind
  /\ cmds' = Tail(cmds)
  /\ UNCHANGED <<hostVars, outputs>>

\* send(): the thread stays here until the queue has room
SendOutput ==
  /\ WorkerRuns
  /\ outbox # NoOutput
  /\ Len(outputs) < OutputCapacity
  /\ outputs' = Append(outputs, outbox)
  /\ outbox' = NoOutput
  /\ UNCHANGED <<hostVars, cmds, worker, controllerVars>>

\* connected to greetd or not
Starting ==
  /\ worker = "starting"
  /\ \/ worker' = "running" /\ outbox' = Output("Ready", 0, FALSE)
     \/ worker' = "stopping" /\ outbox' = Output("Fatal", 0, FALSE)
  /\ UNCHANGED <<hostVars, cmds, outputs, controllerVars>>

TakeRequest ==
  /\ Takes("Request")
  /\ Head(cmds).request # "get"
  /\ LET request == Head(cmds).request
         epoch   == Head(cmds).epoch
     IN \E o \in Execute(request) : \E s \in StartOutcomes(request, o) :
          /\ Becomes(s)
          /\ login' = LoginAfter(request, o, s)
          /\ prompt' = PromptAfter(request, o)
          /\ owner' = IF Begins(request) THEN epoch ELSE owner
          /\ misused' = \/ misused
                        \/ request = "respond" /\ o.result = "Ok" /\ owner # epoch
          /\ outbox' = Batch(epoch)
  /\ UNCHANGED worker

\* drain_core_events meets a text it must refuse: handle() abandons the transaction and
\* fails, and the loop is left with a Fatal instead of the batch
TakeUndrainableRequest ==
  /\ Takes("Request")
  /\ LET request == Head(cmds).request
         epoch   == Head(cmds).epoch
     IN /\ ExchangesTexts(request)
        /\ \E o \in LoginAdvance : \E abandoned \in AbandonOutcomes(o) :
             /\ Becomes(abandoned)
             /\ misused' = \/ misused
                           \/ request = "respond" /\ o.result = "Ok" /\ owner # epoch
        /\ login' = IF Begins(request) THEN "Idle" ELSE login
        /\ owner' = IF Begins(request) THEN epoch ELSE owner
  /\ prompt' = FALSE
  /\ worker' = "leaving"
  /\ outbox' = Output("Fatal", 0, FALSE)

TakeStateGet ==
  /\ Takes("Request")
  /\ Head(cmds).request = "get"
  /\ outbox' = Output("Batch", Head(cmds).epoch, SessionStarted(client, session))
  /\ UNCHANGED <<worker, controllerVars>>

\* AuthPublicState::cancel_for_lifecycle; an error leaves the public state as it was
CancelForLifecycleKeepingPrompt(o) ==
  /\ client' = o.state
  /\ session' = o.session
  /\ authentication' = PublicState(o.state)
  /\ prompt' = prompt
  /\ UNCHANGED <<login, owner, misused>>
CancelForLifecycle(o) ==
  /\ client' = o.state
  /\ session' = o.session
  /\ authentication' = IF o.result = "Ok" THEN PublicState(o.state) ELSE authentication
  /\ prompt' = (prompt /\ ~(o.result = "Ok" /\ LoginInTransaction(client, session)))
  /\ UNCHANGED <<login, owner, misused>>

TakeCancelForPage ==
  /\ Takes("CancelForPage")
  /\ \E o \in CancelForLifecycleOutcomes :
       /\ CancelForLifecycle(o)
       /\ IF o.result = "Ok"
          THEN UNCHANGED <<worker, outbox>>
          ELSE worker' = "leaving" /\ outbox' = Output("Fatal", 0, FALSE)

\* after the loop was left: cancel what is still active, and return
LeavesLoop ==
  /\ WorkerRuns
  /\ worker = "leaving"
  /\ outbox = NoOutput
  /\ \E o \in CancelForLifecycleOutcomes : CancelForLifecycle(o)
  /\ worker' = "stopping"
  /\ UNCHANGED <<hostVars, cmds, outputs, outbox>>

TakeShutdownAtOnce ==
  /\ Takes("Shutdown")
  /\ worker' = "stopping"
  /\ UNCHANGED <<outbox, controllerVars>>
TakeShutdown ==
  /\ Takes("Shutdown")
  /\ worker' = "stopping"
  /\ \E o \in CancelForLifecycleOutcomes :
       /\ CancelForLifecycle(o)
       /\ outbox' = IF o.result = "Ok" THEN outbox ELSE Output("Fatal", 0, FALSE)

\* the function returns: its ends of the two channels are dropped
WorkerReturns ==
  /\ WorkerRuns
  /\ worker = "stopping"
  /\ outbox = NoOutput
  /\ worker' = "stopped"
  /\ cmds' = <<>>
  /\ UNCHANGED <<hostVars, outputs, outbox, controllerVars>>

\* the thread unwinds in an operation: both channels and the backend are dropped
WorkerPanics ==
  /\ WorkerRuns
  /\ worker \in {"starting", "running", "leaving"}
  /\ outbox = NoOutput
  /\ worker' = "panicked"
  /\ cmds' = <<>>
  /\ UNCHANGED <<hostVars, outputs, outbox, controllerVars>>

WorkerStep ==
  \/ SendOutput \/ Starting \/ TakeRequest \/ TakeUndrainableRequest \/ TakeStateGet
  \/ TakeCancelForPage \/ LeavesLoop \/ TakeShutdown \/ WorkerReturns

-----------------------------------------------------------------------------
(* The GTK main thread. *)

workerVars == <<worker, outbox, controllerVars>>

HostStep == host = "running" /\ UNCHANGED <<shutdown_sent, workerVars>>

Gone     == worker \in {"stopped", "panicked"}
CanSend  == ~Gone /\ Len(cmds) < CommandCapacity
Sends(c) == CanSend /\ cmds' = Append(cmds, c)

\* `stopped' is set, the page's request is rejected, and shutdown() joins the thread
Stops(why) == host' = why /\ pending_reply' = NoReply

FinishTerminal == Stops("finishing")
FailHost       == Stops("failing")

Receives(kind) ==
  /\ HostStep
  /\ outputs # <<>>
  /\ Head(outputs).kind = kind
  /\ outputs' = Tail(outputs)
  /\ UNCHANGED <<page_epoch, cmds>>

ReceiveReady == Receives("Ready") /\ UNCHANGED <<host, pending_reply>>

\* the page is gone, but the session it started is not
ReceiveStaleBatchByDiscarding ==
  /\ Receives("Batch")
  /\ Head(outputs).epoch # page_epoch
  /\ UNCHANGED <<host, pending_reply>>
ReceiveStaleBatch ==
  /\ Receives("Batch")
  /\ Head(outputs).epoch # page_epoch
  /\ IF Head(outputs).terminal THEN FinishTerminal
                               ELSE UNCHANGED <<host, pending_reply>>

ReceiveBatch ==
  /\ Receives("Batch")
  /\ Head(outputs).epoch = page_epoch
  /\ IF pending_reply = NoReply THEN FailHost
     ELSE IF Head(outputs).terminal THEN FinishTerminal
     ELSE pending_reply' = NoReply /\ UNCHANGED host

ReceiveFatal == Receives("Fatal") /\ FailHost

NoticeDisconnected ==
  /\ HostStep
  /\ outputs = <<>>
  /\ Gone
  /\ FailHost
  /\ UNCHANGED <<page_epoch, cmds, outputs>>

PollOutputs ==
  \/ ReceiveReady \/ ReceiveStaleBatch \/ ReceiveBatch \/ ReceiveFatal
  \/ NoticeDisconnected

PageRequests ==
  /\ HostStep
  /\ page_epoch > 0
  /\ pending_reply = NoReply
  /\ \E request \in Requests : Sends(Command("Request", page_epoch, request))
  /\ pending_reply' = page_epoch
  /\ UNCHANGED <<host, page_epoch, outputs>>

\* LoadEvent::Started
LoadStartedWithoutCancel ==
  /\ HostStep
  /\ page_epoch < MaxPageEpoch
  /\ page_epoch' = page_epoch + 1
  /\ pending_reply' = NoReply
  /\ cmds' = IF CanSend THEN Append(cmds, Notice("CancelForPage")) ELSE cmds
  /\ UNCHANGED <<host, outputs>>
LoadStartedInTheSameEpoch ==
  /\ HostStep
  /\ page_epoch' = IF page_epoch = 0 THEN 1 ELSE page_epoch
  /\ pending_reply' = NoReply
  /\ Sends(Notice("CancelForPage"))
  /\ UNCHANGED <<host, outputs>>
LoadStarted ==
  /\ HostStep
  /\ page_epoch < MaxPageEpoch
  /\ page_epoch' = page_epoch + 1
  /\ \/ Sends(Notice("CancelForPage")) /\ pending_reply' = NoReply /\ UNCHANGED host
     \/ ~CanSend /\ FailHost /\ UNCHANGED cmds
  /\ UNCHANGED outputs

PageEpochExhausted ==
  /\ HostStep
  /\ page_epoch = MaxPageEpoch
  /\ FailHost
  /\ UNCHANGED <<page_epoch, cmds, outputs>>

RendererTerminates ==
  /\ HostStep
  /\ FailHost
  /\ UNCHANGED <<page_epoch, cmds, outputs>>

WindowCloses ==
  /\ HostStep
  /\ Stops("closing")
  /\ UNCHANGED <<page_epoch, cmds, outputs>>

Joining == host \in {"finishing", "failing", "closing"}

JoinSendsWithoutWaiting ==
  /\ Joining
  /\ ~shutdown_sent
  /\ shutdown_sent' = TRUE
  /\ cmds' = IF CanSend THEN Append(cmds, Notice("Shutdown")) ELSE cmds
  /\ UNCHANGED <<host, page_epoch, pending_reply, outputs, workerVars>>
\* send() waits for room, and fails when the thread is gone
JoinSends ==
  /\ Joining
  /\ ~shutdown_sent
  /\ shutdown_sent' = TRUE
  /\ \/ Sends(Notice("Shutdown"))
     \/ Gone /\ UNCHANGED cmds
  /\ UNCHANGED <<host, page_epoch, pending_reply, outputs, workerVars>>

JoinReturns ==
  /\ Joining
  /\ shutdown_sent
  /\ Gone
  /\ host' = IF host = "failing" THEN "failed" ELSE "exited"
  /\ UNCHANGED <<page_epoch, pending_reply, shutdown_sent, cmds, outputs, workerVars>>

HostLoop == PollOutputs \/ JoinSends \/ JoinReturns

Environment ==
  \/ PageRequests \/ LoadStarted \/ PageEpochExhausted \/ RendererTerminates
  \/ WindowCloses

-----------------------------------------------------------------------------
Init ==
  /\ host = "running"
  /\ page_epoch = 0
  /\ pending_reply = NoReply
  /\ shutdown_sent = FALSE
  /\ cmds = <<>>
  /\ outputs = <<>>
  /\ worker = "starting"
  /\ outbox = NoOutput
  /\ client = "Idle"
  /\ session = "none"
  /\ login = "Idle"
  /\ authentication = "Idle"
  /\ prompt = FALSE
  /\ owner = NoOwner
  /\ misused = FALSE

Next == WorkerStep \/ WorkerPanics \/ HostLoop \/ Environment

Spec == Init /\ [][Next]_vars

\* both threads run; nothing is assumed of the page or the window
FairSpec == Spec /\ WF_vars(WorkerStep) /\ WF_vars(HostLoop)

-----------------------------------------------------------------------------
(* Properties. *)

TypeOK ==
  /\ host \in {"running", "finishing", "failing", "closing", "exited", "failed"}
  /\ page_epoch \in Epochs
  /\ pending_reply \in Epochs
  /\ shutdown_sent \in BOOLEAN
  /\ cmds \in Seq(Commands)
  /\ Len(cmds) <= CommandCapacity
  /\ outputs \in Seq(Outputs)
  /\ Len(outputs) <= OutputCapacity
  /\ worker \in {"starting", "running", "leaving", "stopping", "stopped", "panicked"}
  /\ outbox \in Outputs \cup {NoOutput}
  /\ client \in LoginRestStates
  /\ session \in Sessions
  /\ login \in {"Idle", "Started", "Failed"}
  /\ authentication \in LoginRestStates \ {"Disconnected"}
  /\ prompt \in BOOLEAN
  /\ owner \in Epochs
  /\ misused \in BOOLEAN

Running == worker = "running"

\* No transaction waits authenticated for a page to start its session: whatever request
\* authenticated, the session was started in the same one (DESIGN.md:430-433).
AuthenticatedMeansStarted ==
  client = "Authenticated" => session = "started" /\ login # "Idle"

\* A page's request never answers the prompt of a transaction an earlier page began:
\* its cancellation is queued before anything the new page sends (DESIGN.md:394-396).
TransactionOwnedByPage == ~misused

\* The one reply a page waits for is under way, and no other output of this epoch is:
\* the host never fails on an uncorrelated reply (lib.rs:691-702).
RepliesAreCorrelated ==
  host = "running" =>
    LET queued  == {i \in DOMAIN cmds :
                      cmds[i].kind = "Request" /\ cmds[i].epoch = page_epoch}
        sent    == {i \in DOMAIN outputs :
                      outputs[i].kind = "Batch" /\ outputs[i].epoch = page_epoch}
        held    == outbox.kind = "Batch" /\ outbox.epoch = page_epoch
    IN /\ \A i, j \in queued : i = j
       /\ \A i, j \in sent : i = j
       /\ ~(queued # {} /\ sent # {}) /\ ~(held /\ (queued # {} \/ sent # {}))
       /\ queued # {} \/ sent # {} \/ held => pending_reply = page_epoch

\* When the controller thread has returned, however the host came to join it, greetd no
\* longer configures a session for this greeter, unless the thread ended on a failed
\* cancellation, the connection was lost, or a service error kept the session
\* (DESIGN.md:402-404 and 1728).
ShutdownReleasesGreetd ==
  worker = "stopped" /\ session = "open" => client \in {"Failed", "Disconnected"}

\* What a page is told is what the backend is in: the state is the backend's, an open
\* prompt is always shown, and one that outlives its transaction only in a failed login.
PublicStateTracksBackend ==
  Running =>
    /\ outbox.kind # "Fatal" => authentication = PublicState(client)
    /\ client = "Waiting" => prompt
    /\ prompt /\ client # "Waiting" => client \in {"Authenticating", "Failed", "Disconnected"}
    /\ login = "Started" => SessionStarted(client, session)

\* the controller thread waits for room in the queue that only the joining thread empties
JoinBlocked ==
  /\ Joining
  /\ outbox # NoOutput
  /\ Len(outputs) = OutputCapacity

\* A started session ends the greeter, even when the page that started it was replaced
\* meanwhile (lib.rs:677-690).
StartedSessionEndsHost == SessionStarted(client, session) ~> host # "running"

\* Closing the window, a failure and a started session all end the process: the join of
\* the controller thread returns, except when the thread waits for room in a full queue
\* of outputs (lib.rs:299-305; controller_worker.rs:102-110).
ShutdownCompletes == Joining ~> host \in {"exited", "failed"} \/ JoinBlocked
=============================================================================
