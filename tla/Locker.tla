------------------------------- MODULE Locker -------------------------------
(***************************************************************************)
(* fomalhaut-lock: the GTK main thread that owns the session-lock instance *)
(* (gtk_host.rs), the controller thread that owns the LockerController and *)
(* the PAM backend (controller_worker.rs, fomalhaut-web/controller.rs),    *)
(* and the two bounded queues between them.                                *)
(*                                                                         *)
(*     GTK main thread  --cmds (try_send)-->    controller thread          *)
(*     GTK main thread  <--native (blocking)--  controller thread          *)
(*                                                                         *)
(* The backend is its contract, AuthBackend, which PamBackend implements.  *)
(* The compositor, the pages and logind are external and move freely.  A   *)
(* page is one ViewId; a rebuilt page has a new one.                       *)
(***************************************************************************)
EXTENDS AuthBackend, Naturals, Sequences

CONSTANTS Views,             \* the ViewIds the run can hand out
          CommandCapacity,   \* COMMAND_CAPACITY
          NativeCapacity,    \* NATIVE_OUTPUT_CAPACITY
          MayPanic           \* the controller thread may die without a word

ASSUME CommandCapacityAssumption == CommandCapacity \in Nat \ {0}
ASSUME NativeCapacityAssumption  == NativeCapacity \in Nat /\ NativeCapacity >= 4
ASSUME MayPanicAssumption        == MayPanic \in BOOLEAN

VARIABLES
  application,         \* the GTK application: running, joining, exited, failed
  lock_requested, lock_acquired, lock_failure_sent, sleep_preparing,
  page,                \* what the main thread knows of each ViewId
  instance,            \* the session-lock instance, as the compositor left it
  cmds, native,        \* the two queues, oldest first
  worker,              \* the controller thread: starting, running, stopped
  views,               \* its map of registered views
  lock,                \* the controller's LockState
  client,              \* the backend's state between calls
  authentication,      \* the public AuthState
  prompt,              \* a public prompt is present
  grants,              \* history: unlock authorizations consumed
  crossed              \* history: a lifecycle boundary was handled since the last begin

hostVars       == <<lock_requested, lock_acquired, lock_failure_sent, sleep_preparing, page>>
controllerVars == <<lock, client, authentication, prompt, grants, crossed>>
workerVars     == <<worker, views, controllerVars>>
vars == <<application, hostVars, instance, cmds, native, workerVars>>

NoView    == "none"
Requests  == {"begin", "respond", "cancel", "power", "get"}
Lifecycle == {"LockAcquired", "LockFailed", "LockReleased"}

Command(kind, view, request) == [kind |-> kind, view |-> view, request |-> request]
Notice(kind)                 == Command(kind, NoView, "none")

Commands ==
  [kind : {"Request"}, view : Views, request : Requests]
    \cup [kind : {"Register", "Detach"}, view : Views, request : {"none"}]
    \cup [kind : Lifecycle \cup {"CancelForPage", "PrepareForSleep", "ResumeAfterSleep",
                                 "Shutdown"},
          view : {NoView}, request : {"none"}]

NativeEvents == {"BackendReady", "LockAcquired", "LockFailed", "Unlock", "Released",
                 "Fatal"}

IsLocked == instance = "locked"

\* map_state
PublicState(state) == IF state = "Disconnected" THEN "Failed" ELSE state

-----------------------------------------------------------------------------
(* The queues.  The main thread uses try_send; the worker's send blocks.   *)

CanSendUnbounded == worker # "stopped"
CanSend          == worker # "stopped" /\ Len(cmds) < CommandCapacity
SendNative(e)    == Len(native) < NativeCapacity /\ native' = Append(native, e)

-----------------------------------------------------------------------------
(* The controller thread. *)

WorkerRuns == application \in {"running", "joining"}

StartSucceeds ==
  /\ WorkerRuns
  /\ worker = "starting"
  /\ SendNative("BackendReady")
  /\ worker' = "running"
  /\ UNCHANGED <<application, hostVars, instance, cmds, views, controllerVars>>

\* the function returns: its receiver and every view's sender are dropped
Stops == worker' = "stopped" /\ cmds' = <<>> /\ views' = {}

SendFatal == Stops /\ SendNative("Fatal")

StartFails ==
  /\ WorkerRuns
  /\ worker = "starting"
  /\ SendFatal
  /\ UNCHANGED <<application, hostVars, instance, controllerVars>>

WorkerPanics ==
  /\ WorkerRuns
  /\ MayPanic
  /\ worker # "stopped"
  /\ Stops
  /\ UNCHANGED <<application, hostVars, instance, native, controllerVars>>

Takes(kind) ==
  /\ WorkerRuns
  /\ worker = "running"
  /\ cmds # <<>>
  /\ Head(cmds).kind = kind
  /\ UNCHANGED <<application, hostVars, instance>>

Continues == worker' = worker /\ cmds' = Tail(cmds)

\* a view whose own queue is full or gone is dropped by whatever is sent to it
Broadcast == \E lost \in SUBSET views : views' = views \ lost

\* a detached page keeps its receiver until it polls it the next time
TakeRegister ==
  /\ Takes("Register")
  /\ Continues
  /\ \/ views' = views \cup {Head(cmds).view}
     \/ page[Head(cmds).view] = "detached" /\ views' = views
  /\ UNCHANGED <<native, controllerVars>>

TakeDetach ==
  /\ Takes("Detach")
  /\ Continues
  /\ views' = views \ {Head(cmds).view}
  /\ UNCHANGED <<native, controllerVars>>

Becomes(state, prompted) ==
  /\ client' = state
  /\ authentication' = PublicState(state)
  /\ prompt' = prompted

\* begin_unlock: the authorization is consumed by the controller thread
GrantedAfterPrompt(o) == o.result = "Ok" /\ authentication = "Waiting" /\ o.state = "Authenticated"
Granted(o) == o.result = "Ok" /\ authentication # "Authenticated" /\ o.state = "Authenticated"

ConsumeAuthorizationKeepingLock(o) ==
  IF Granted(o) THEN /\ grants' = grants + 1
                     /\ SendNative("Unlock")
                     /\ UNCHANGED lock
                ELSE UNCHANGED <<lock, grants, native>>
ConsumeAuthorization(o) ==
  IF Granted(o) THEN /\ lock' = "Unlocking"
                     /\ grants' = grants + 1
                     /\ SendNative("Unlock")
                ELSE UNCHANGED <<lock, grants, native>>

-----------------------------------------------------------------------------
(* LockerController::handle.  Draining the core events cannot fail: prompts *)
(* and messages have one size limit on both sides of it.                   *)

PowerOutcomes ==
  IF InTransaction(client) THEN {Outcome("Idle", "Ok"), Outcome("Idle", "Err")}
                           ELSE {Outcome(client, "Ok"), Outcome(client, "Err")}

\* execute(); a power action that is disabled is refused like any other error
ExecuteInAnyLockState(request) ==
  CASE request = "begin"   -> BeginOutcomes(client)
    [] request = "respond" -> IF prompt THEN RespondOutcomes(client) ELSE Refused(client)
    [] request = "cancel"  -> CancelOutcomes(client)
    [] request = "power"   -> PowerOutcomes \cup Refused(client)
    [] request = "get"     -> {Outcome(client, "Ok")}
Execute(request) ==
  IF lock # "Locked" THEN Refused(client) ELSE ExecuteInAnyLockState(request)

\* reset_conversation and update_state, for a call that returned no prompt
ResetsPrompt(request, o) ==
  \/ request = "begin" /\ lock = "Locked" /\ client \in {"Idle", "Failed"}
  \/ request \in {"cancel", "power"} /\ client # o.state

\* the public prompt that the drained core events leave
PromptAfter(request, o) ==
  IF request \in {"begin", "respond"} /\ o.result = "Ok"
  THEN o.state = "Waiting"
  ELSE prompt /\ ~ResetsPrompt(request, o)

Broken == {"Failed", "Disconnected"}

\* requires_trusted_fallback: this request lost the PAM worker
Falls(o) == o.result = "Err" /\ client \notin Broken /\ o.state \in Broken

TakeRequest ==
  /\ Takes("Request")
  /\ Head(cmds).view \in views
  /\ Continues
  /\ \E o \in Execute(Head(cmds).request) :
       /\ Becomes(o.state, PromptAfter(Head(cmds).request, o))
       /\ ConsumeAuthorization(o)
       /\ IF Falls(o) THEN views' = {} ELSE Broadcast
       /\ crossed' = (crossed /\ ~(Head(cmds).request = "begin" /\ o.result = "Ok"))

TakeRequestOfLostView ==
  /\ Takes("Request")
  /\ Head(cmds).view \notin views
  /\ Continues
  /\ UNCHANGED <<native, views, controllerVars>>

-----------------------------------------------------------------------------
(* Lifecycle boundaries. *)

\* cancel_for_lifecycle; a PAM transaction can always be cancelled
AfterLifecycleCancel == IF InTransaction(client) THEN "Idle" ELSE client

CancelForLifecycle ==
  /\ Becomes(AfterLifecycleCancel, prompt /\ ~InTransaction(client))
  /\ crossed' = TRUE

TakeCancelForPage ==
  /\ Takes("CancelForPage")
  /\ Continues
  /\ CancelForLifecycle
  /\ UNCHANGED <<native, views, lock, grants>>

PrepareForSleepLazily ==
  /\ crossed' = TRUE
  /\ UNCHANGED <<views, client, authentication, prompt>>
PrepareForSleep ==
  IF lock = "Locked" THEN CancelForLifecycle /\ Broadcast
                     ELSE UNCHANGED <<views, client, authentication, prompt, crossed>>

TakePrepareForSleep ==
  /\ Takes("PrepareForSleep")
  /\ Continues
  /\ PrepareForSleep
  /\ UNCHANGED <<native, lock, grants>>

TakeResumeAfterSleep ==
  /\ Takes("ResumeAfterSleep")
  /\ lock = "Locked"
  /\ \E o \in BeginOutcomes(AfterLifecycleCancel) :
       /\ o.result = "Ok"
       /\ Becomes(o.state, o.state = "Waiting")
       /\ ConsumeAuthorization(o)
  /\ Continues
  /\ Broadcast
  /\ crossed' = FALSE

TakeResumeOutsideLock ==
  /\ Takes("ResumeAfterSleep")
  /\ lock # "Locked"
  /\ Continues
  /\ UNCHANGED <<native, views, controllerVars>>

\* begin_reauth failed; its error ends the controller thread
TakeResumeFails ==
  /\ Takes("ResumeAfterSleep")
  /\ lock = "Locked"
  /\ \E o \in BeginOutcomes(AfterLifecycleCancel) :
       o.result = "Err" /\ Becomes(o.state, FALSE)
  /\ SendFatal
  /\ crossed' = TRUE
  /\ UNCHANGED <<lock, grants>>

-----------------------------------------------------------------------------
(* The lock's own lifecycle. *)

TakeLockAcquired ==
  /\ Takes("LockAcquired")
  /\ IF lock = "Acquiring"
     THEN Continues /\ lock' = "Locked" /\ Broadcast /\ SendNative("LockAcquired")
     ELSE SendFatal /\ UNCHANGED lock
  /\ UNCHANGED <<client, authentication, prompt, grants, crossed>>

TakeLockFailed ==
  /\ Takes("LockFailed")
  /\ IF lock \notin {"Failed", "Released"}
     THEN Stops /\ lock' = "Failed" /\ SendNative("LockFailed")
     ELSE SendFatal /\ UNCHANGED lock
  /\ UNCHANGED <<client, authentication, prompt, grants, crossed>>

TakeLockReleasedUnchecked ==
  /\ Takes("LockReleased")
  /\ Continues
  /\ lock' = "Released"
  /\ Broadcast
  /\ SendNative("Released")
  /\ UNCHANGED <<client, authentication, prompt, grants, crossed>>
TakeLockReleased ==
  /\ Takes("LockReleased")
  /\ IF lock = "Unlocking"
     THEN Continues /\ lock' = "Released" /\ Broadcast /\ SendNative("Released")
     ELSE SendFatal /\ UNCHANGED lock
  /\ UNCHANGED <<client, authentication, prompt, grants, crossed>>

TakeShutdown ==
  /\ Takes("Shutdown")
  /\ CancelForLifecycle
  /\ Stops
  /\ UNCHANGED <<native, lock, grants>>

WorkerStep ==
  \/ StartSucceeds \/ StartFails
  \/ TakeRegister \/ TakeDetach
  \/ TakeRequest \/ TakeRequestOfLostView
  \/ TakeCancelForPage \/ TakePrepareForSleep
  \/ TakeResumeAfterSleep \/ TakeResumeOutsideLock \/ TakeResumeFails
  \/ TakeLockAcquired \/ TakeLockFailed \/ TakeLockReleased \/ TakeShutdown

-----------------------------------------------------------------------------
(* The GTK main thread. *)

HostRuns == application = "running"

\* the handlers below leave the controller thread alone
HostStep == HostRuns /\ UNCHANGED workerVars

Sends(c) == CanSend /\ cmds' = Append(cmds, c)

\* try_send whose error is ignored
SendsOrDrops(c) == cmds' = IF CanSend THEN Append(cmds, c) ELSE cmds

\* report_lock_failure: once, and the process ends when the controller cannot be told
ReportLockFailure ==
  IF lock_failure_sent
  THEN UNCHANGED <<application, cmds, lock_failure_sent>>
  ELSE /\ lock_failure_sent' = TRUE
       /\ IF CanSend THEN Sends(Notice("LockFailed")) /\ UNCHANGED application
                     ELSE application' = "failed" /\ UNCHANGED cmds

\* poll_native_events
Polls(event) ==
  /\ HostStep
  /\ native # <<>>
  /\ Head(native) = event
  /\ native' = Tail(native)
  /\ UNCHANGED <<sleep_preparing, page>>

RequestLock ==
  IF lock_requested
  THEN UNCHANGED <<application, instance, cmds, lock_requested, lock_failure_sent>>
  ELSE /\ lock_requested' = TRUE
       /\ \/ /\ instance' = "pending"
             /\ UNCHANGED <<application, cmds, lock_failure_sent>>
          \/ /\ instance' = "failed"
             /\ ReportLockFailure

HandleBackendReadyByNotifying ==
  Polls("BackendReady") /\ RequestLock /\ lock_acquired' = TRUE
HandleBackendReady ==
  Polls("BackendReady") /\ RequestLock /\ UNCHANGED lock_acquired

\* notify_ready tells systemd that the session is locked
HandleLockAcquired ==
  /\ Polls("LockAcquired")
  /\ lock_acquired' = TRUE
  /\ UNCHANGED <<application, cmds, instance, lock_requested, lock_failure_sent>>

HandleLockFailed ==
  /\ Polls("LockFailed")
  /\ application' = "failed"
  /\ UNCHANGED <<cmds, instance, lock_requested, lock_acquired, lock_failure_sent>>

HandleUnlock ==
  /\ Polls("Unlock")
  /\ IF lock_acquired /\ IsLocked
     THEN instance' = "unlocking" /\ UNCHANGED application
     ELSE /\ application' = IF IsLocked THEN application ELSE "failed"
          /\ UNCHANGED instance
  /\ UNCHANGED <<cmds, lock_requested, lock_acquired, lock_failure_sent>>

\* worker.shutdown() blocks the main thread before quit()
HandleReleased ==
  /\ Polls("Released")
  /\ application' = "joining"
  /\ UNCHANGED <<cmds, instance, lock_requested, lock_acquired, lock_failure_sent>>

HandleFatalByQuitting ==
  /\ Polls("Fatal")
  /\ application' = "failed"
  /\ UNCHANGED <<cmds, instance, lock_requested, lock_acquired, lock_failure_sent>>
HandleFatal ==
  /\ Polls("Fatal")
  /\ application' = IF IsLocked THEN application ELSE "failed"
  /\ UNCHANGED <<cmds, instance, lock_requested, lock_acquired, lock_failure_sent>>

\* the worker's end of the channel is gone and everything in it was handled
NoticeWorkerGone ==
  /\ HostStep
  /\ native = <<>>
  /\ worker = "stopped"
  /\ ~IsLocked
  /\ application' = "failed"
  /\ UNCHANGED <<hostVars, instance, cmds, native>>

JoinSends ==
  /\ application = "joining"
  /\ Notice("Shutdown") \notin {cmds[i] : i \in DOMAIN cmds}
  /\ Sends(Notice("Shutdown"))
  /\ UNCHANGED <<application, hostVars, instance, native, workerVars>>

JoinReturns ==
  /\ application = "joining"
  /\ worker = "stopped"
  /\ application' = "exited"
  /\ UNCHANGED <<hostVars, instance, cmds, native, workerVars>>

HostLoop ==
  \/ HandleBackendReady \/ HandleLockAcquired \/ HandleLockFailed \/ HandleUnlock
  \/ HandleReleased \/ HandleFatal \/ NoticeWorkerGone
  \/ JoinSends \/ JoinReturns

-----------------------------------------------------------------------------
(* Signals of the session-lock instance (external), with their handlers.   *)

InstanceSignals(before, after) ==
  /\ HostStep
  /\ instance = before
  /\ instance' = after
  /\ UNCHANGED <<native, page, lock_requested, lock_acquired, sleep_preparing>>

\* connect_locked: a full queue leaves the controller uninformed
CompositorLocks ==
  /\ InstanceSignals("pending", "locked")
  /\ SendsOrDrops(Notice("LockAcquired"))
  /\ UNCHANGED <<application, lock_failure_sent>>

CompositorDenies ==
  /\ InstanceSignals("pending", "failed")
  /\ ReportLockFailure

MarkLockReleasedOrDrop ==
  SendsOrDrops(Notice("LockReleased")) /\ UNCHANGED <<application, lock_failure_sent>>
\* connect_unlocked
MarkLockReleased ==
  /\ IF CanSend THEN Sends(Notice("LockReleased")) /\ UNCHANGED application
                ELSE application' = "failed" /\ UNCHANGED cmds
  /\ UNCHANGED lock_failure_sent

CompositorUnlocks ==
  /\ InstanceSignals("unlocking", "released")
  /\ MarkLockReleased

\* the compositor ends a lock nobody asked it to release
CompositorRevokes ==
  /\ InstanceSignals("locked", "revoked")
  /\ MarkLockReleased

-----------------------------------------------------------------------------
(* Monitors, pages and the system's sleep (external), with their handlers. *)

HostSignal ==
  /\ HostStep
  /\ UNCHANGED <<instance, native, lock_requested, lock_acquired>>

Opens(v) == page[v] = "unused" /\ page' = [page EXCEPT ![v] = "live"]
Open(v)  == page[v] \in {"live", "waiting"}

AddMonitor ==
  /\ HostSignal
  /\ instance \in {"pending", "locked"}
  /\ \E v \in Views : Opens(v) /\ Sends(Command("Register", v, "none"))
  /\ UNCHANGED <<application, lock_failure_sent, sleep_preparing>>

\* no room in the queue, or WebKit fails
AddMonitorFails ==
  /\ HostSignal
  /\ instance \in {"pending", "locked"}
  /\ IF IsLocked THEN UNCHANGED <<application, cmds, lock_failure_sent>>
                 ELSE ReportLockFailure
  /\ UNCHANGED <<page, sleep_preparing>>

\* rebuild_view: the previous page is shut down, then its successor registered; the
\* button can be reached while a page loads and again once it failed
RetryInterface ==
  /\ HostSignal
  /\ \E v, w \in Views :
       LET detaching == Open(v) /\ CanSend
           queue == IF detaching THEN Append(cmds, Command("Detach", v, "none")) ELSE cmds
           room  == worker # "stopped" /\ Len(queue) < CommandCapacity
       IN /\ page[v] # "unused"
          /\ page[w] = "unused"
          /\ cmds' = IF room THEN Append(queue, Command("Register", w, "none")) ELSE queue
          /\ page' = [page EXCEPT ![v] = "detached", ![w] = IF room THEN "live" ELSE @]
  /\ UNCHANGED <<application, lock_failure_sent, sleep_preparing>>

\* fail_host, or the monitor went away
Detaches(v) ==
  /\ page' = [page EXCEPT ![v] = "detached"]
  /\ SendsOrDrops(Command("Detach", v, "none"))

ViewFails ==
  /\ HostSignal
  /\ \E v \in Views : Open(v) /\ Detaches(v)
  /\ UNCHANGED <<application, lock_failure_sent, sleep_preparing>>

\* LoadEvent::Started
PageLoads ==
  /\ HostSignal
  /\ \E v \in Views :
       /\ Open(v)
       /\ IF CanSend THEN Sends(Notice("CancelForPage")) /\ page' = [page EXCEPT ![v] = "live"]
                     ELSE Detaches(v)
  /\ UNCHANGED <<application, lock_failure_sent, sleep_preparing>>

\* a page has one bridge request in flight; a full queue answers "busy" at once
PageRequests ==
  /\ HostSignal
  /\ \E v \in Views, request \in Requests :
       /\ page[v] = "live"
       /\ Sends(Command("Request", v, request))
       /\ page' = [page EXCEPT ![v] = "waiting"]
  /\ UNCHANGED <<application, lock_failure_sent, sleep_preparing>>

\* the reply arrived; a page the worker dropped never gets one
ReplyArrives ==
  /\ HostSignal
  /\ \E v \in Views :
       /\ page[v] = "waiting"
       /\ \A i \in DOMAIN cmds : ~(cmds[i].kind = "Request" /\ cmds[i].view = v)
       /\ page' = [page EXCEPT ![v] = "live"]
  /\ UNCHANGED <<application, cmds, lock_failure_sent, sleep_preparing>>

\* PrepareForSleep(bool) of logind; a repeated signal changes nothing
SleepSignal ==
  /\ HostSignal
  /\ sleep_preparing' = ~sleep_preparing
  /\ SendsOrDrops(Notice(IF sleep_preparing THEN "ResumeAfterSleep" ELSE "PrepareForSleep"))
  /\ UNCHANGED <<application, lock_failure_sent, page>>

Environment ==
  \/ CompositorLocks \/ CompositorDenies \/ CompositorRevokes
  \/ AddMonitor \/ AddMonitorFails \/ RetryInterface
  \/ ViewFails \/ PageLoads \/ PageRequests \/ ReplyArrives \/ SleepSignal

-----------------------------------------------------------------------------
Init ==
  /\ application = "running"
  /\ lock_requested = FALSE
  /\ lock_acquired = FALSE
  /\ lock_failure_sent = FALSE
  /\ sleep_preparing = FALSE
  /\ page = [v \in Views |-> "unused"]
  /\ instance = "idle"
  /\ cmds = <<>>
  /\ native = <<>>
  /\ worker = "starting"
  /\ views = {}
  /\ lock = "Acquiring"
  /\ client = "Idle"
  /\ authentication = "Idle"
  /\ prompt = FALSE
  /\ grants = 0
  /\ crossed = FALSE

Next == WorkerStep \/ WorkerPanics \/ HostLoop \/ CompositorUnlocks \/ Environment

Spec == Init /\ [][Next]_vars

\* both threads run, and the compositor answers an unlock request
FairSpec ==
  /\ Spec
  /\ WF_vars(WorkerStep)
  /\ WF_vars(HostLoop)
  /\ WF_vars(CompositorUnlocks)

-----------------------------------------------------------------------------
(* Properties. *)

Running == worker = "running"

TypeOK ==
  /\ application \in {"running", "joining", "exited", "failed"}
  /\ lock_requested \in BOOLEAN
  /\ lock_acquired \in BOOLEAN
  /\ lock_failure_sent \in BOOLEAN
  /\ sleep_preparing \in BOOLEAN
  /\ page \in [Views -> {"unused", "live", "waiting", "detached"}]
  /\ instance \in {"idle", "pending", "locked", "unlocking", "released", "revoked", "failed"}
  /\ cmds \in Seq(Commands) /\ Len(cmds) <= CommandCapacity
  /\ native \in Seq(NativeEvents) /\ Len(native) <= NativeCapacity
  /\ worker \in {"starting", "running", "stopped"}
  /\ views \in SUBSET Views
  /\ lock \in {"Acquiring", "Locked", "Unlocking", "Released", "Failed"}
  /\ client \in RestStates
  /\ authentication \in RestStates \ {"Disconnected"}
  /\ prompt \in BOOLEAN
  /\ grants \in Nat
  /\ crossed \in BOOLEAN

\* A successful reauthentication takes effect once: at most one authorization is ever
\* consumed, and the host asks the compositor to unlock only on that one
\* (begin_unlock, controller.rs:764-776; gtk_host.rs:208-218).
UnlockOnce ==
  /\ grants <= 1
  /\ instance \in {"unlocking", "released"} => grants = 1

\* A session is never left locked behind an accepted transaction: while the lock is
\* held the public state is not Authenticated, whichever of request, resume or
\* lifecycle cancellation touched it last (unlock needs a transition INTO it).
LockedNeverAuthenticated ==
  Running /\ lock = "Locked" => authentication # "Authenticated" /\ client # "Authenticated"

\* The worker's blocking native.send never waits, so shutdown's join of the worker by
\* the very thread that empties the queue cannot deadlock (controller_worker.rs:29,
\* 193-201, 591; gtk_host.rs:219-227).
NativeSendNeverBlocks == worker # "stopped" => Len(native) < NativeCapacity

\* Readiness is reported to systemd only after the compositor locked and the
\* controller recorded it (DESIGN.md:1653; gtk_host.rs:196-202).
ReadyOnlyWhenLockRecorded ==
  lock_acquired => /\ lock # "Acquiring"
                   /\ instance \notin {"idle", "pending", "failed"}

\* The process ends by itself while the compositor still holds its lock only after it
\* reported a lock failure before the lock arrived (gtk_host.rs:142-149, 203-206).
ExitWhileLockedOnlyByEarlyFailure ==
  application \in {"exited", "failed"} /\ IsLocked => lock_failure_sent

\* A lock the compositor revoked is never taken for an authorized unlock, whatever the
\* controller granted meanwhile (DESIGN.md:955-957; controller.rs:779-788).
RevokedLockIsNotASuccess ==
  application \in {"joining", "exited"} => instance = "released"

\* The public state shown to the pages is the backend's, an open prompt is always
\* shown, and a prompt outlives its transaction only where authentication failed.
PublicStateTracksBackend ==
  Running =>
    /\ authentication = PublicState(client)
    /\ client = "Waiting" => prompt /\ lock = "Locked"
    /\ prompt /\ client # "Waiting" => authentication = "Failed"

\* No transaction survives a page load, a suspend or a resume: the one that unlocks
\* was begun after all of those the controller has handled (DESIGN.md:1109-1116).
NoTransactionCrossesBoundary ==
  Running /\ crossed => client # "Waiting"

\* Once a transaction is accepted the session is unlocked and the process ends.
AuthorizedUnlockCompletes ==
  grants > 0 ~> application \in {"exited", "failed"} /\ ~IsLocked

\* A lock the compositor revoked ends the process with a failure instead of a page
\* that only looks like a lock screen (DESIGN.md:955-957).
RevokedLockEndsTheProcess == instance = "revoked" ~> application = "failed"

\* DESIGN.md:405-406 and 951-954: once locked, no failure makes the process exit.
NeverExitsWhileLocked == application \in {"exited", "failed"} => ~IsLocked

\* DESIGN.md:953-954 and 1855-1856: after losing a PAM worker while locked the locker
\* keeps offering a retry, which needs the controller thread.
LockedStaysServiceable ==
  application = "running" /\ IsLocked /\ lock = "Locked" => Running
=============================================================================
