--------------------------- MODULE FrontendMirror ---------------------------
(***************************************************************************)
(* How the pages follow the locker's one controller: AuthPublicState and   *)
(* its event sequence (fomalhaut-web/controller.rs), the broadcast to the  *)
(* registered views (fomalhaut-lock/controller_worker.rs), each WebView's  *)
(* reply and event delivery (fomalhaut-gtk), and in the page the SDK's     *)
(* bootstrap and sequence filter (packages/fomalhaut-sdk) with the store   *)
(* of the Nocturne theme that mirrors the public state.                    *)
(*                                                                         *)
(* Locker has the threads, the lock and every way to end; here the lock is *)
(* held from the start and what is followed is what each page believes.    *)
(* The web engine hands a page its replies and events in the order the     *)
(* host gave them.  A prompt is identified by the sequence of its event.   *)
(***************************************************************************)
EXTENDS AuthBackend, Naturals, Sequences, SequencesExt

CONSTANTS Views,            \* the ViewIds the run can hand out
          CommandCapacity,  \* COMMAND_CAPACITY
          OutputCapacity,   \* VIEW_OUTPUT_CAPACITY
          MaxPageEpoch,     \* u64::MAX
          MaxSequence       \* MAX_SAFE_INTEGER

ASSUME MirrorAssumption == /\ CommandCapacity \in Nat \ {0}
                           /\ OutputCapacity \in Nat \ {0}
                           /\ MaxPageEpoch \in Nat
                           /\ MaxSequence \in Nat

VARIABLES
  client, locked,         \* the backend's state; no unlock was authorized yet
  authentication, prompt, next,  \* AuthPublicState: its state, prompt and sequences
  silent,                 \* history: the public state changed without an event
  running,                \* the controller thread
  cmds,                   \* its queue
  views,                  \* its map of registered views
  out,                    \* each view's output queue
  page_epoch, pending,    \* each WebView's epoch and whether a reply is awaited
  page,                   \* what each page believes
  sleep_preparing

publicVars == <<client, locked, authentication, prompt, next, silent>>
hostVars   == <<page_epoch, pending, page, sleep_preparing>>
vars == <<publicVars, running, cmds, views, out, hostVars>>

ViewSymmetry == Permutations(Views)

NoView   == "none"
NoPrompt == 0

\* map_state
PublicState(state) == IF state = "Disconnected" THEN "Failed" ELSE state

Event(kind, state) == [kind |-> kind, state |-> state]
Changed(state)     == Event("state.changed", state)
Detail(kind)       == Event(kind, "none")

Snapshot(w)  == [authentication |-> authentication, prompt |-> prompt, sequence |-> w]
NoSnapshot   == [authentication |-> "none", prompt |-> NoPrompt, sequence |-> 0]

Output(kind, epoch, reply, events) ==
  [kind |-> kind, epoch |-> epoch, reply |-> reply, events |-> events]

Command(kind, view, epoch, request, p) ==
  [kind |-> kind, view |-> view, epoch |-> epoch, request |-> request, prompt |-> p]
Notice(kind) == Command(kind, NoView, 0, "none", NoPrompt)

-----------------------------------------------------------------------------
(* The controller. *)

\* EventSequence::watermark
WatermarkOfNext == next
Watermark       == next - 1

\* envelope_events: an event and the sequence it is allocated
Numbered(events) ==
  [i \in DOMAIN events |->
     [sequence |-> next + i - 1, kind |-> events[i].kind, state |-> events[i].state]]

Exhausts(events) == Watermark + Len(events) > MaxSequence

Execute(request, p) ==
  IF ~locked THEN Refused(client)
  ELSE CASE request = "begin"   -> BeginOutcomes(client)
         [] request = "respond" -> IF p = prompt /\ p # NoPrompt
                                   THEN RespondOutcomes(client) ELSE Refused(client)
         [] request = "cancel"  -> CancelOutcomes(client)
         [] request = "power"   -> IF InTransaction(client)
                                   THEN {Outcome("Idle", "Ok"), Outcome("Idle", "Err")}
                                   ELSE {Outcome(client, "Ok"), Outcome(client, "Err")}

\* apply_core_event, for the last core event of a call that ended in `state'
CoreEvents(state) ==
  CASE state = "Waiting"       -> <<Detail("auth.prompt")>>
    [] state = "Authenticated" -> <<Detail("auth.succeeded")>>
    [] state = "Failed"        -> <<Detail("auth.failed")>>
    [] state = "Idle"          -> <<Detail("auth.cancelled")>>

\* detail and core events of a request; a power action that fails after it cancelled the
\* transaction has neither
DetailEvents(request, o) ==
  IF \/ o.result = "Err"
     \/ request = "power" /\ ~InTransaction(client)
  THEN <<>> ELSE CoreEvents(o.state)

\* finish_batch: state.changed comes first, when the public state changed
BatchEvents(state, detail) ==
  (IF PublicState(state) = authentication THEN <<>> ELSE <<Changed(PublicState(state))>>)
    \o detail

\* auth.begin and the resume path reset the conversation before they begin
PromptKept(request) ==
  IF request = "begin" /\ locked /\ client \in {"Idle", "Failed"} THEN NoPrompt ELSE prompt

PromptAfter(kept, state, events) ==
  IF events # <<>> /\ Last(events).kind = "auth.prompt" THEN Watermark + Len(events)
  ELSE IF state = "Idle" \/ (events # <<>> /\ Last(events).kind # "state.changed")
  THEN NoPrompt ELSE kept

Becomes(kept, state, events) ==
  /\ client' = state
  /\ authentication' = PublicState(state)
  /\ next' = next + Len(events)
  /\ prompt' = PromptAfter(kept, state, events)
  /\ silent' = (silent /\ events = <<>>)
  /\ locked' = (locked /\ state # "Authenticated")

-----------------------------------------------------------------------------
(* The controller thread and its views. *)

Takes(kind) ==
  /\ running
  /\ cmds # <<>>
  /\ Head(cmds).kind = kind
  /\ UNCHANGED hostVars

Continues == running' = running /\ cmds' = Tail(cmds)

HasRoom(v) == Len(out[v]) < OutputCapacity /\ page[v].phase # "failed"

\* what each view is sent; a view that cannot take it is dropped from the map
Deliver(sent) ==
  LET full == {v \in views : sent[v] # <<>> /\ ~HasRoom(v)}
  IN /\ views' = views \ full
     /\ out' = [v \in Views |-> IF v \in views \ full THEN out[v] \o sent[v] ELSE out[v]]
DeliverKeepingViews(sent) ==
  LET full == {v \in views : sent[v] # <<>> /\ ~HasRoom(v)}
  IN /\ views' = views
     /\ out' = [v \in Views |-> IF v \in views \ full THEN out[v] \o sent[v] ELSE out[v]]
Sends(sent) == Deliver(sent)

Broadcast(events) ==
  Sends([v \in Views |-> IF events = <<>> THEN <<>>
                         ELSE <<Output("Events", 0, NoSnapshot, Numbered(events))>>])

SendToViewOnly(view, epoch, reply, events) ==
  Sends([v \in Views |->
           IF v = view THEN <<Output("Batch", epoch, reply, Numbered(events))>> ELSE <<>>])

\* the reply and its events in one output, the same events to every other view
RequestOutputs(view, epoch, reply, events) ==
  [v \in Views |->
     IF v = view THEN <<Output("Batch", epoch, reply, Numbered(events))>>
     ELSE IF events = <<>> THEN <<>>
     ELSE <<Output("Events", 0, NoSnapshot, Numbered(events))>>]

SendToViewAndBroadcast(view, epoch, reply, events) ==
  Sends(RequestOutputs(view, epoch, reply, events))

Fatal == Output("Fatal", 0, NoSnapshot, <<>>)

\* send_view_fallback and send_fatal: every view is dropped, told if it has room
DropsAll(sent) ==
  /\ views' = {}
  /\ out' = [v \in Views |->
               IF v \in views /\ HasRoom(v)
               THEN IF Len(out[v] \o sent[v]) < OutputCapacity THEN out[v] \o sent[v] \o <<Fatal>>
                                                               ELSE out[v] \o sent[v]
               ELSE out[v]]

Nothing == [v \in Views |-> <<>>]

SendFatal == DropsAll(Nothing) /\ running' = FALSE /\ cmds' = <<>>

TakeRegister ==
  /\ Takes("Register")
  /\ Continues
  /\ LET v == Head(cmds).view
     IN IF page[v].phase = "failed"
        THEN UNCHANGED <<views, out>>
        ELSE /\ views' = views \cup {v}
             /\ out' = [out EXCEPT ![v] = <<Output("Ready", 0, NoSnapshot, <<>>)>>]
  /\ UNCHANGED publicVars

TakeDetach ==
  /\ Takes("Detach")
  /\ Continues
  /\ views' = views \ {Head(cmds).view}
  /\ UNCHANGED <<out, publicVars>>

Broken == {"Failed", "Disconnected"}
Falls(o) == o.result = "Err" /\ client \notin Broken /\ o.state \in Broken

TakeRequest ==
  /\ Takes("Request")
  /\ Head(cmds).view \in views
  /\ Head(cmds).request # "get"
  /\ LET c == Head(cmds)
     IN \E o \in Execute(c.request, c.prompt) :
          LET events == BatchEvents(o.state, DetailEvents(c.request, o))
          IN IF Exhausts(events)
             THEN SendFatal /\ UNCHANGED publicVars
             ELSE /\ Becomes(PromptKept(c.request), o.state, events)
                  /\ Continues
                  /\ IF Falls(o)
                     THEN DropsAll(RequestOutputs(c.view, c.epoch, NoSnapshot, events))
                     ELSE SendToViewAndBroadcast(c.view, c.epoch, NoSnapshot, events)

TakeStateGet ==
  /\ Takes("Request")
  /\ Head(cmds).view \in views
  /\ Head(cmds).request = "get"
  /\ Continues
  /\ SendToViewAndBroadcast(Head(cmds).view, Head(cmds).epoch, Snapshot(Watermark), <<>>)
  /\ UNCHANGED publicVars

TakeRequestOfLostView ==
  /\ Takes("Request")
  /\ Head(cmds).view \notin views
  /\ Continues
  /\ UNCHANGED <<views, out, publicVars>>

\* cancel_for_lifecycle publishes nothing
TakeCancelForPage ==
  /\ Takes("CancelForPage")
  /\ Continues
  /\ IF InTransaction(client)
     THEN /\ client' = "Idle"
          /\ authentication' = "Idle"
          /\ prompt' = NoPrompt
          /\ silent' = TRUE
          /\ UNCHANGED <<locked, next>>
     ELSE UNCHANGED publicVars
  /\ UNCHANGED <<views, out>>

CancelledEvents ==
  IF InTransaction(client) THEN <<Detail("auth.cancelled")>> ELSE <<>>

AfterLifecycleCancel == IF InTransaction(client) THEN "Idle" ELSE client

Lifecycle(kept, state, events) ==
  IF Exhausts(events)
  THEN SendFatal /\ UNCHANGED publicVars
  ELSE Becomes(kept, state, events) /\ Continues /\ Broadcast(events)

TakePrepareForSleep ==
  /\ Takes("PrepareForSleep")
  /\ IF locked
     THEN Lifecycle(prompt, AfterLifecycleCancel, BatchEvents(AfterLifecycleCancel, CancelledEvents))
     ELSE Continues /\ UNCHANGED <<views, out, publicVars>>

\* a begin that fails ends the controller thread
TakeResumeAfterSleep ==
  /\ Takes("ResumeAfterSleep")
  /\ IF locked
     THEN \E o \in BeginOutcomes(AfterLifecycleCancel) :
            IF o.result = "Ok"
            THEN Lifecycle(NoPrompt, o.state,
                           BatchEvents(o.state, CancelledEvents \o CoreEvents(o.state)))
            ELSE SendFatal /\ UNCHANGED publicVars
     ELSE Continues /\ UNCHANGED <<views, out, publicVars>>

WorkerStep ==
  \/ TakeRegister \/ TakeDetach \/ TakeRequest \/ TakeStateGet
  \/ TakeRequestOfLostView \/ TakeCancelForPage \/ TakePrepareForSleep
  \/ TakeResumeAfterSleep

-----------------------------------------------------------------------------
(* A page: the SDK client and the theme's store.  `last' is the client's   *)
(* #lastSequence; before the client exists, the largest sequence among the *)
(* events it queued, which is what replaying them against the snapshot's   *)
(* watermark comes to.                                                     *)

Page(phase) == [phase |-> phase, last |-> 0, authentication |-> "none",
                prompt |-> NoPrompt, missed |-> FALSE]

Listening(p) == p.phase \in {"connecting", "initializing", "ready"}

MaxOf(a, b) == IF a > b THEN a ELSE b

\* the store's handlers
Mirrors(p, e) ==
  CASE e.kind = "state.changed" ->
         [p EXCEPT !.authentication = e.state,
                   !.prompt = IF e.state = "Waiting" THEN @ ELSE NoPrompt]
    [] e.kind = "auth.prompt" -> [p EXCEPT !.prompt = e.sequence]
    [] OTHER                  -> [p EXCEPT !.prompt = NoPrompt]

\* receiveEvent; before the store has a snapshot its handlers change nothing
ReceiveEvent(p, e) ==
  IF ~Listening(p) \/ e.sequence <= p.last THEN p
  ELSE LET seen == [p EXCEPT !.last = e.sequence,
                             !.missed = @ \/ (p.phase = "ready" /\ e.sequence # p.last + 1)]
       IN IF p.phase = "ready" THEN Mirrors(seen, e) ELSE seen

\* state.get for the client's bootstrap, then for the store
ReceiveReply(p, reply) ==
  CASE p.phase = "connecting" ->
         [p EXCEPT !.phase = "bootstrapped", !.last = MaxOf(@, reply.sequence)]
    [] p.phase = "initializing" ->
         [p EXCEPT !.phase = "ready", !.last = MaxOf(@, reply.sequence),
                   !.authentication = reply.authentication, !.prompt = reply.prompt]
    [] OTHER -> p

\* the bootstrap continues with the second state.get as soon as the first is answered
Bootstrapped(p) == p.phase = "bootstrapped"

ReceiveAll(p, events) == FoldLeft(ReceiveEvent, p, events)

-----------------------------------------------------------------------------
(* The GTK main thread, for each WebView. *)

CanSend   == running /\ Len(cmds) < CommandCapacity
Queues(c) == CanSend /\ cmds' = Append(cmds, c)

controllerVars == <<publicVars, running, views>>

\* fail_host and MonitorSurface: the page is replaced and the view detached
ViewFails(v) ==
  /\ page' = [page EXCEPT ![v] = Page("failed")]
  /\ pending' = [pending EXCEPT ![v] = FALSE]
  /\ cmds' = IF CanSend THEN Append(cmds, Command("Detach", v, 0, "none", NoPrompt)) ELSE cmds

Alive(v) == page[v].phase \notin {"unused", "failed"}

ReceiveOutput(v) ==
  /\ Alive(v)
  /\ out[v] # <<>>
  /\ out' = [out EXCEPT ![v] = Tail(@)]
  /\ LET o == Head(out[v])
     IN CASE o.kind = "Fatal" -> ViewFails(v)
          [] o.kind = "Batch" /\ o.epoch = page_epoch[v] /\ ~pending[v] -> ViewFails(v)
          [] o.kind = "Batch" /\ o.epoch = page_epoch[v] /\ pending[v] ->
               /\ pending' = [pending EXCEPT ![v] = FALSE]
               /\ page' = [page EXCEPT ![v] = ReceiveAll(ReceiveReply(@, o.reply), o.events)]
               /\ UNCHANGED cmds
          [] o.kind = "Events" ->
               /\ page' = [page EXCEPT ![v] = ReceiveAll(@, o.events)]
               /\ UNCHANGED <<pending, cmds>>
          [] OTHER -> UNCHANGED <<page, pending, cmds>>   \* Ready, or of a stale epoch
  /\ UNCHANGED <<page_epoch, sleep_preparing, controllerVars>>

Registering(v) == \E i \in DOMAIN cmds : cmds[i].kind = "Register" /\ cmds[i].view = v

NoticeDisconnected(v) ==
  /\ Alive(v)
  /\ out[v] = <<>>
  /\ v \notin views
  /\ ~Registering(v)
  /\ ViewFails(v)
  /\ UNCHANGED <<out, page_epoch, sleep_preparing, controllerVars>>

HostStep(v) == UNCHANGED <<out, sleep_preparing, controllerVars>>

AddMonitor(v) ==
  /\ page[v].phase = "unused"
  /\ Queues(Command("Register", v, 0, "none", NoPrompt))
  /\ page' = [page EXCEPT ![v] = Page("blank")]
  /\ UNCHANGED <<page_epoch, pending>>
  /\ HostStep(v)

\* LoadEvent::Started
LoadStarted(v) ==
  /\ Alive(v)
  /\ page_epoch[v] < MaxPageEpoch
  /\ page_epoch' = [page_epoch EXCEPT ![v] = @ + 1]
  /\ \/ /\ Queues(Notice("CancelForPage"))
        /\ page' = [page EXCEPT ![v] = Page("loading")]
        /\ pending' = [pending EXCEPT ![v] = FALSE]
     \/ ~CanSend /\ ViewFails(v)
  /\ HostStep(v)

\* a request of the page; while the queue is full it is refused and the page goes nowhere
Requests(v, request, p) ==
  /\ ~pending[v]
  /\ Queues(Command("Request", v, page_epoch[v], request, p))
  /\ pending' = [pending EXCEPT ![v] = TRUE]
  /\ UNCHANGED page_epoch
  /\ HostStep(v)

Connect(v) ==
  /\ page[v].phase = "loading"
  /\ Requests(v, "get", NoPrompt)
  /\ page' = [page EXCEPT ![v].phase = "connecting"]

Initialize(v) ==
  /\ Bootstrapped(page[v])
  /\ Requests(v, "get", NoPrompt)
  /\ page' = [page EXCEPT ![v].phase = "initializing"]

\* retryAuthentication clears what is displayed before it asks
RetryAuthentication(v) ==
  /\ page[v].phase = "ready"
  /\ page[v].authentication \in {"Idle", "Failed"}
  /\ Requests(v, "begin", NoPrompt)
  /\ page' = [page EXCEPT ![v].prompt = NoPrompt]

RespondToPrompt(v) ==
  /\ page[v].phase = "ready"
  /\ page[v].prompt # NoPrompt
  /\ Requests(v, "respond", page[v].prompt)
  /\ UNCHANGED page

CancelOrPower(v) ==
  /\ page[v].phase = "ready"
  /\ \/ page[v].authentication = "Waiting" /\ Requests(v, "cancel", NoPrompt)
     \/ Requests(v, "power", NoPrompt)
  /\ UNCHANGED page

SleepSignal ==
  /\ running
  /\ sleep_preparing' = ~sleep_preparing
  /\ Queues(Notice(IF sleep_preparing THEN "ResumeAfterSleep" ELSE "PrepareForSleep"))
  /\ UNCHANGED <<out, page_epoch, pending, page, controllerVars>>

Poll(v) == ReceiveOutput(v) \/ NoticeDisconnected(v)

PageStep(v) ==
  \/ AddMonitor(v) \/ LoadStarted(v) \/ Connect(v) \/ Initialize(v)
  \/ RetryAuthentication(v) \/ RespondToPrompt(v) \/ CancelOrPower(v)

-----------------------------------------------------------------------------
Init ==
  /\ client = "Idle"
  /\ locked = TRUE
  /\ authentication = "Idle"
  /\ prompt = NoPrompt
  /\ next = 1
  /\ silent = FALSE
  /\ running = TRUE
  /\ cmds = <<>>
  /\ views = {}
  /\ out = [v \in Views |-> <<>>]
  /\ page_epoch = [v \in Views |-> 0]
  /\ pending = [v \in Views |-> FALSE]
  /\ page = [v \in Views |-> Page("unused")]
  /\ sleep_preparing = FALSE

Next == WorkerStep \/ SleepSignal \/ \E v \in Views : Poll(v) \/ PageStep(v)

Spec == Init /\ [][Next]_vars

-----------------------------------------------------------------------------
(* Properties. *)

Phases == {"unused", "blank", "loading", "connecting", "bootstrapped", "initializing",
           "ready", "failed"}

TypeOK ==
  /\ client \in RestStates
  /\ locked \in BOOLEAN
  /\ authentication \in RestStates \ {"Disconnected"}
  /\ prompt \in 0 .. MaxSequence
  /\ next \in 1 .. MaxSequence + 1
  /\ silent \in BOOLEAN
  /\ running \in BOOLEAN
  /\ Len(cmds) <= CommandCapacity
  /\ views \in SUBSET Views
  /\ \A v \in Views : Len(out[v]) <= OutputCapacity
  /\ page_epoch \in [Views -> 0 .. MaxPageEpoch]
  /\ pending \in [Views -> BOOLEAN]
  /\ \A v \in Views : page[v].phase \in Phases /\ page[v].last \in 0 .. MaxSequence

Follows(v) == page[v].phase = "ready" /\ v \in views

\* A page that follows the controller sees every event after its snapshot, once and in
\* order, whatever was broadcast while it loaded, reloaded or bootstrapped
\* (DESIGN.md:1139 and 1255; controller_worker.rs:549-581; client.ts:245-285).
NoEventMissed == \A v \in Views : Follows(v) => ~page[v].missed

UpToDate(v) ==
  /\ page[v].authentication = authentication
  /\ authentication = "Waiting" => page[v].prompt = prompt

\* Once everything sent to it was delivered, what a page shows is the controller's
\* public state: no monitor keeps a prompt another one answered, and no snapshot hides
\* a later event.  The exception is a cancellation that publishes nothing.
MirrorConverges ==
  \A v \in Views : Follows(v) /\ out[v] = <<>> /\ ~silent => UpToDate(v)

\* A request waits in the queue of a controller that will answer it, or its reply is on
\* its way
UnderWay(v) ==
  \/ /\ v \in views
     /\ \E i \in DOMAIN cmds : /\ cmds[i].kind = "Request"
                               /\ cmds[i].view = v
                               /\ cmds[i].epoch = page_epoch[v]
  \/ \E i \in DOMAIN out[v] : out[v][i].kind = "Batch" /\ out[v][i].epoch = page_epoch[v]

\* A page that awaits a reply gets it, or its host is about to learn that the controller
\* gave the view up: neither a reload that leaves an older reply behind nor a broadcast
\* that drops a slow view leaves a page waiting for ever, or takes an old reply for the
\* new one (controller_worker.rs:558-581, lib.rs:677-727).
ReplyUnderWay ==
  \A v \in Views : pending[v] /\ running => UnderWay(v) \/ v \notin views

\* DESIGN.md:1105-1107: a cancellation in the context of a page that is still alive
\* publishes state.changed = idle and auth.cancelled, so that themes drop the prompt.
CancellationReachesLivePages ==
  \A v \in Views :
    Follows(v) /\ out[v] = <<>> /\ page[v].authentication = "Waiting" =>
      authentication # "Idle"
=============================================================================
