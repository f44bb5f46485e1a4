---------------------------- MODULE LockerProofs ----------------------------
(***************************************************************************)
(* Proofs about Locker for every set of views and every capacity of the    *)
(* two queues.  The type invariant comes first; ControllerInv is the       *)
(* inductive strengthening of what the runs check about the controller     *)
(* thread.  LockerHostProofs continues with the two queues and the lock.   *)
(***************************************************************************)
EXTENDS Locker, SequenceTheorems, TLAPS

USE CommandCapacityAssumption, NativeCapacityAssumption, MayPanicAssumption

-----------------------------------------------------------------------------
(* The queues. *)

\* What is sent is a command.
LEMMA CommandTypes ==
  /\ \A v \in Views, r \in Requests : Command("Request", v, r) \in Commands
  /\ \A v \in Views : /\ Command("Register", v, "none") \in Commands
                      /\ Command("Detach", v, "none") \in Commands
  /\ \A k \in Lifecycle \cup {"CancelForPage", "PrepareForSleep", "ResumeAfterSleep",
                              "Shutdown"} : Notice(k) \in Commands
  BY DEF Commands, Command, Notice

\* What is received names a view and a request where the worker looks at them.
LEMMA CommandFields ==
  ASSUME NEW c \in Commands
  PROVE  /\ c.kind \in {"Request", "Register", "Detach"} => c.view \in Views
         /\ c.kind = "Request" => c.request \in Requests
  BY DEF Commands, Lifecycle

\* Taking the head of a bounded queue keeps it a bounded queue.
LEMMA TailBounded ==
  ASSUME NEW S, NEW s \in Seq(S), s # <<>>, NEW n \in Nat, Len(s) <= n
  PROVE  Tail(s) \in Seq(S) /\ Len(Tail(s)) <= n /\ Head(s) \in S
  BY HeadTailProperties

\* Appending to a queue that has room keeps it a bounded queue.
LEMMA AppendBounded ==
  ASSUME NEW S, NEW s \in Seq(S), NEW e \in S, NEW n \in Nat, Len(s) < n
  PROVE  Append(s, e) \in Seq(S) /\ Len(Append(s, e)) <= n
  BY AppendProperties

QueueTypeOK ==
  /\ cmds \in Seq(Commands) /\ Len(cmds) <= CommandCapacity
  /\ native \in Seq(NativeEvents) /\ Len(native) <= NativeCapacity

\* The queue of a stopped worker is a queue.
LEMMA EmptyQueue == <<>> \in Seq(Commands) /\ Len(<<>>) <= CommandCapacity
  OBVIOUS

\* A successful try_send keeps the command queue within its capacity.
LEMMA SendsType ==
  ASSUME QueueTypeOK, NEW c \in Commands, Sends(c)
  PROVE  cmds' \in Seq(Commands) /\ Len(cmds') <= CommandCapacity
  BY AppendBounded DEF QueueTypeOK, Sends, CanSend

\* So does a try_send whose error is ignored.
LEMMA SendsOrDropsType ==
  ASSUME QueueTypeOK, NEW c \in Commands, SendsOrDrops(c)
  PROVE  cmds' \in Seq(Commands) /\ Len(cmds') <= CommandCapacity
  BY AppendBounded DEF QueueTypeOK, SendsOrDrops, CanSend

\* The worker takes a command and leaves a queue of commands.
LEMMA ContinuesType ==
  ASSUME QueueTypeOK, cmds # <<>>, Continues
  PROVE  /\ cmds' \in Seq(Commands) /\ Len(cmds') <= CommandCapacity
         /\ Head(cmds) \in Commands
  BY TailBounded DEF QueueTypeOK, Continues

\* A send to the main thread keeps the native queue within its capacity.
LEMMA SendNativeType ==
  ASSUME QueueTypeOK, NEW e \in NativeEvents, SendNative(e)
  PROVE  native' \in Seq(NativeEvents) /\ Len(native') <= NativeCapacity
  BY AppendBounded DEF QueueTypeOK, SendNative

\* The main thread takes an event and leaves a queue of events.
LEMMA PollsType ==
  ASSUME QueueTypeOK, NEW e, Polls(e)
  PROVE  native' \in Seq(NativeEvents) /\ Len(native') <= NativeCapacity
  BY TailBounded DEF QueueTypeOK, Polls

-----------------------------------------------------------------------------
(* What a request can do to the controller. *)

\* The fields of an outcome.
LEMMA OutcomeFields ==
  ASSUME NEW state, NEW result
  PROVE  /\ Outcome(state, result).state = state
         /\ Outcome(state, result).result = result
  BY DEF Outcome

\* An exchange ends in a resting state; success without an open prompt is final.
LEMMA AdvanceOutcomes ==
  ASSUME NEW o \in Advance
  PROVE  \/ o.result = "Ok"  /\ o.state \in {"Waiting", "Authenticated", "Failed"}
         \/ o.result = "Err" /\ o.state \in Broken
<1>1. \/ o = Outcome("Waiting", "Ok")
      \/ o = Outcome("Authenticated", "Ok")
      \/ o = Outcome("Failed", "Ok")
      \/ o = Outcome("Failed", "Err")
      \/ o = Outcome("Disconnected", "Err")
  BY DEF Advance
<1> QED BY <1>1, OutcomeFields DEF Broken

\* A refused call changes nothing and returns an error.
LEMMA RefusedOutcomes ==
  ASSUME NEW state, NEW o \in Refused(state)
  PROVE  o.state = state /\ o.result = "Err"
  BY OutcomeFields DEF Refused

\* What a request can make of the backend, in the terms the invariants use.
LEMMA ExecuteOutcomes ==
  ASSUME NEW r \in Requests, NEW o \in Execute(r)
  PROVE  \/ o.state = client /\ o.result = "Err"
         \/ lock = "Locked" /\ r \in {"power", "get"} /\ o.state = client /\ o.result = "Ok"
         \/ lock = "Locked" /\ r = "begin" /\ client \in {"Idle", "Failed"} /\ o \in Advance
         \/ lock = "Locked" /\ r = "respond" /\ client = "Waiting" /\ o \in Advance
         \/ /\ lock = "Locked" /\ r \in {"cancel", "power"} /\ InTransaction(client)
            /\ o.state = "Idle" /\ o.result \in {"Ok", "Err"}
<1>1. CASE lock # "Locked"
  BY <1>1, RefusedOutcomes DEF Execute
<1>2. CASE lock = "Locked"
  <2>0. o \in ExecuteInAnyLockState(r)
    BY <1>2 DEF Execute
  <2>1. CASE r = "begin"
    <3>1. o \in BeginOutcomes(client)
      BY <2>0, <2>1 DEF ExecuteInAnyLockState
    <3> QED BY <1>2, <2>1, <3>1, RefusedOutcomes DEF BeginOutcomes
  <2>2. CASE r = "respond"
    <3>1. o \in RespondOutcomes(client) \cup Refused(client)
      BY <2>0, <2>2 DEF ExecuteInAnyLockState
    <3> QED BY <1>2, <2>2, <3>1, RefusedOutcomes DEF RespondOutcomes
  <2>3. CASE r = "cancel"
    <3>1. o \in CancelOutcomes(client)
      BY <2>0, <2>3 DEF ExecuteInAnyLockState
    <3> QED BY <1>2, <2>3, <3>1, RefusedOutcomes, OutcomeFields DEF CancelOutcomes
  <2>4. CASE r = "power"
    <3>1. o \in PowerOutcomes \cup Refused(client)
      BY <2>0, <2>4 DEF ExecuteInAnyLockState
    <3> QED BY <1>2, <2>4, <3>1, RefusedOutcomes, OutcomeFields DEF PowerOutcomes
  <2>5. CASE r = "get"
    <3>1. o = Outcome(client, "Ok")
      BY <2>0, <2>5 DEF ExecuteInAnyLockState
    <3> QED BY <1>2, <2>5, <3>1, OutcomeFields
  <2> QED BY <2>1, <2>2, <2>3, <2>4, <2>5 DEF Requests
<1> QED BY <1>1, <1>2

\* A request leaves the backend in a resting state.
LEMMA ExecuteType ==
  ASSUME client \in RestStates, NEW r \in Requests, NEW o \in Execute(r)
  PROVE  o.state \in RestStates
  BY ExecuteOutcomes, AdvanceOutcomes DEF RestStates, Broken

-----------------------------------------------------------------------------
(* The type invariant, in the three parts a step can disturb separately.   *)

HostTypeOK ==
  /\ application \in {"running", "joining", "exited", "failed"}
  /\ lock_requested \in BOOLEAN
  /\ lock_acquired \in BOOLEAN
  /\ lock_failure_sent \in BOOLEAN
  /\ sleep_preparing \in BOOLEAN
  /\ page \in [Views -> {"unused", "live", "waiting", "detached"}]
  /\ instance \in {"idle", "pending", "locked", "unlocking", "released", "revoked", "failed"}

WorkerTypeOK ==
  /\ worker \in {"starting", "running", "stopped"}
  /\ views \in SUBSET Views
  /\ lock \in {"Acquiring", "Locked", "Unlocking", "Released", "Failed"}
  /\ client \in RestStates
  /\ authentication \in RestStates \ {"Disconnected"}
  /\ prompt \in BOOLEAN
  /\ grants \in Nat
  /\ crossed \in BOOLEAN

\* The type invariant is its three parts.
LEMMA TypeParts == TypeOK <=> HostTypeOK /\ QueueTypeOK /\ WorkerTypeOK
  BY DEF TypeOK, HostTypeOK, QueueTypeOK, WorkerTypeOK

\* And so in the next state.
LEMMA TypePartsPrimed == TypeOK' <=> HostTypeOK' /\ QueueTypeOK' /\ WorkerTypeOK'
  BY DEF TypeOK, HostTypeOK, QueueTypeOK, WorkerTypeOK

\* What leaves the main thread alone keeps its types.
LEMMA HostUnchanged ==
  ASSUME HostTypeOK, UNCHANGED <<application, hostVars, instance>>
  PROVE  HostTypeOK'
  BY DEF HostTypeOK, hostVars

\* What leaves the controller thread alone keeps its types.
LEMMA WorkerUnchanged == ASSUME WorkerTypeOK, UNCHANGED workerVars PROVE WorkerTypeOK'
  BY DEF WorkerTypeOK, workerVars, controllerVars

\* map_state hides Disconnected and keeps every other resting state.
LEMMA PublicStateType ==
  ASSUME NEW s \in RestStates PROVE PublicState(s) \in RestStates \ {"Disconnected"}
  BY DEF PublicState, RestStates

\* The backend's new state and a prompt flag are all a controller call needs.
LEMMA BecomesType ==
  ASSUME NEW s \in RestStates, NEW p \in BOOLEAN, Becomes(s, p)
  PROVE  /\ client' \in RestStates
         /\ authentication' \in RestStates \ {"Disconnected"}
         /\ prompt' \in BOOLEAN
  BY PublicStateType DEF Becomes

\* begin_unlock keeps the types of the lock, the counter and the native queue.
LEMMA ConsumeType ==
  ASSUME WorkerTypeOK, QueueTypeOK, NEW o, ConsumeAuthorization(o)
  PROVE  /\ lock' \in {"Acquiring", "Locked", "Unlocking", "Released", "Failed"}
         /\ grants' \in Nat
         /\ native' \in Seq(NativeEvents) /\ Len(native') <= NativeCapacity
<1>1. CASE Granted(o)
  BY <1>1, SendNativeType DEF ConsumeAuthorization, WorkerTypeOK, NativeEvents
<1>2. CASE ~Granted(o)
  BY <1>2 DEF ConsumeAuthorization, WorkerTypeOK, QueueTypeOK
<1> QED BY <1>1, <1>2

\* cancel_for_lifecycle keeps the controller's types.
LEMMA CancelForLifecycleType ==
  ASSUME WorkerTypeOK, CancelForLifecycle
  PROVE  /\ client' \in RestStates
         /\ authentication' \in RestStates \ {"Disconnected"}
         /\ prompt' \in BOOLEAN
         /\ crossed' \in BOOLEAN
<1>1. AfterLifecycleCancel \in RestStates
  BY DEF AfterLifecycleCancel, RestStates, WorkerTypeOK
<1>2. (prompt /\ ~InTransaction(client)) \in BOOLEAN
  OBVIOUS
<1> QED BY <1>1, <1>2, BecomesType DEF CancelForLifecycle

\* A controller thread that returns leaves an empty queue and no views.
LEMMA StopsType ==
  ASSUME Stops
  PROVE  /\ cmds' \in Seq(Commands) /\ Len(cmds') <= CommandCapacity
         /\ worker' \in {"starting", "running", "stopped"}
         /\ views' \in SUBSET Views
  BY EmptyQueue DEF Stops

\* The controller thread keeps the types: nothing it does touches the main thread.
LEMMA WorkerStepType ==
  ASSUME HostTypeOK, QueueTypeOK, WorkerTypeOK, WorkerStep \/ WorkerPanics
  PROVE  HostTypeOK' /\ QueueTypeOK' /\ WorkerTypeOK'
<1>1. HostTypeOK'
  BY HostUnchanged DEF WorkerStep, WorkerPanics, StartSucceeds, StartFails, TakeRegister,
     TakeDetach, TakeRequest, TakeRequestOfLostView, TakeCancelForPage, TakePrepareForSleep,
     TakeResumeAfterSleep, TakeResumeOutsideLock, TakeResumeFails, TakeLockAcquired,
     TakeLockFailed, TakeLockReleased, TakeShutdown, Takes
<1>2. ASSUME NEW kind, Takes(kind), Continues
      PROVE  /\ cmds' \in Seq(Commands) /\ Len(cmds') <= CommandCapacity
             /\ worker' \in {"starting", "running", "stopped"}
             /\ Head(cmds) \in Commands
  BY <1>2, ContinuesType DEF Takes, Continues, WorkerTypeOK
<1>3. ASSUME SendFatal
      PROVE  /\ QueueTypeOK'
             /\ worker' \in {"starting", "running", "stopped"}
             /\ views' \in SUBSET Views
  BY <1>3, StopsType, SendNativeType DEF SendFatal, NativeEvents, QueueTypeOK
<1>4. ASSUME Broadcast PROVE views' \in SUBSET Views
  BY <1>4 DEF Broadcast, WorkerTypeOK
<1>5. CASE StartSucceeds
  BY <1>1, <1>5, SendNativeType
     DEF StartSucceeds, NativeEvents, QueueTypeOK, WorkerTypeOK, controllerVars
<1>6. CASE StartFails
  BY <1>1, <1>3, <1>6 DEF StartFails, WorkerTypeOK, controllerVars
<1>7. CASE WorkerPanics
  BY <1>1, <1>7, StopsType DEF WorkerPanics, QueueTypeOK, WorkerTypeOK, controllerVars
<1>8. CASE TakeRegister
  <2>1. Head(cmds).view \in Views
    BY <1>2, <1>8, CommandFields DEF TakeRegister, Takes
  <2> QED BY <1>1, <1>2, <1>8, <2>1 DEF TakeRegister, QueueTypeOK, WorkerTypeOK, controllerVars
<1>9. CASE TakeDetach
  BY <1>1, <1>2, <1>9 DEF TakeDetach, QueueTypeOK, WorkerTypeOK, controllerVars
<1>10. CASE TakeRequest
  <2> DEFINE request == Head(cmds).request
  <2>1. PICK o \in Execute(request) :
          /\ Becomes(o.state, PromptAfter(request, o))
          /\ ConsumeAuthorization(o)
          /\ IF Falls(o) THEN views' = {} ELSE Broadcast
          /\ crossed' = (crossed /\ ~(request = "begin" /\ o.result = "Ok"))
    BY <1>10 DEF TakeRequest
  <2>2. request \in Requests
    BY <1>2, <1>10, CommandFields DEF TakeRequest, Takes
  <2>3. o.state \in RestStates
    BY <2>2, ExecuteType DEF WorkerTypeOK
  <2>4. PromptAfter(request, o) \in BOOLEAN
    BY DEF PromptAfter, WorkerTypeOK
  <2>5. views' \in SUBSET Views
    BY <1>4, <2>1
  <2>6. crossed' \in BOOLEAN
    BY <2>1
  <2>7. Continues /\ Takes("Request")
    BY <1>10 DEF TakeRequest
  <2> HIDE DEF request
  <2> QED BY <1>1, <1>2, <2>1, <2>3, <2>4, <2>5, <2>6, <2>7, BecomesType, ConsumeType
          DEF QueueTypeOK, WorkerTypeOK
<1>11. CASE TakeRequestOfLostView
  BY <1>1, <1>2, <1>11 DEF TakeRequestOfLostView, QueueTypeOK, WorkerTypeOK, controllerVars
<1>12. CASE TakeCancelForPage
  BY <1>1, <1>2, <1>12, CancelForLifecycleType
     DEF TakeCancelForPage, QueueTypeOK, WorkerTypeOK
<1>13. CASE TakePrepareForSleep
  BY <1>1, <1>2, <1>4, <1>13, CancelForLifecycleType
     DEF TakePrepareForSleep, PrepareForSleep, QueueTypeOK, WorkerTypeOK
<1>14. CASE TakeResumeAfterSleep
  <2>1. PICK o \in BeginOutcomes(AfterLifecycleCancel) :
          /\ o.result = "Ok"
          /\ Becomes(o.state, o.state = "Waiting")
          /\ ConsumeAuthorization(o)
    BY <1>14 DEF TakeResumeAfterSleep
  <2>2. o.state \in RestStates
    BY <2>1, AdvanceOutcomes, RefusedOutcomes DEF BeginOutcomes, RestStates, Broken
  <2>3. Continues /\ Takes("ResumeAfterSleep") /\ Broadcast /\ crossed' = FALSE
    BY <1>14 DEF TakeResumeAfterSleep
  <2>4. (o.state = "Waiting") \in BOOLEAN
    OBVIOUS
  <2> QED BY <1>1, <1>2, <1>4, <2>1, <2>2, <2>3, <2>4, BecomesType, ConsumeType
          DEF QueueTypeOK, WorkerTypeOK
<1>15. CASE TakeResumeOutsideLock
  BY <1>1, <1>2, <1>15 DEF TakeResumeOutsideLock, QueueTypeOK, WorkerTypeOK, controllerVars
<1>16. CASE TakeResumeFails
  <2>1. PICK o \in BeginOutcomes(AfterLifecycleCancel) :
          o.result = "Err" /\ Becomes(o.state, FALSE)
    BY <1>16 DEF TakeResumeFails
  <2>2. o.state \in RestStates
    BY <2>1, AdvanceOutcomes, RefusedOutcomes
       DEF BeginOutcomes, AfterLifecycleCancel, RestStates, Broken, WorkerTypeOK
  <2>3. SendFatal /\ crossed' = TRUE /\ UNCHANGED <<lock, grants>>
    BY <1>16 DEF TakeResumeFails
  <2> QED BY <1>1, <1>3, <2>1, <2>2, <2>3, BecomesType DEF WorkerTypeOK
<1>17. CASE TakeLockAcquired
  <2>1. UNCHANGED <<client, authentication, prompt, grants, crossed>>
    BY <1>17 DEF TakeLockAcquired
  <2>2. CASE lock = "Acquiring"
    BY <1>1, <1>2, <1>4, <1>17, <2>1, <2>2, SendNativeType
       DEF TakeLockAcquired, NativeEvents, QueueTypeOK, WorkerTypeOK
  <2>3. CASE lock # "Acquiring"
    BY <1>1, <1>3, <1>17, <2>1, <2>3 DEF TakeLockAcquired, WorkerTypeOK
  <2> QED BY <2>2, <2>3
<1>18. CASE TakeLockFailed
  <2>1. UNCHANGED <<client, authentication, prompt, grants, crossed>>
    BY <1>18 DEF TakeLockFailed
  <2>2. CASE lock \notin {"Failed", "Released"}
    BY <1>1, <1>18, <2>1, <2>2, StopsType, SendNativeType
       DEF TakeLockFailed, NativeEvents, QueueTypeOK, WorkerTypeOK
  <2>3. CASE lock \in {"Failed", "Released"}
    BY <1>1, <1>3, <1>18, <2>1, <2>3 DEF TakeLockFailed, WorkerTypeOK
  <2> QED BY <2>2, <2>3
<1>19. CASE TakeLockReleased
  <2>1. UNCHANGED <<client, authentication, prompt, grants, crossed>>
    BY <1>19 DEF TakeLockReleased
  <2>2. CASE lock = "Unlocking"
    BY <1>1, <1>2, <1>4, <1>19, <2>1, <2>2, SendNativeType
       DEF TakeLockReleased, NativeEvents, QueueTypeOK, WorkerTypeOK
  <2>3. CASE lock # "Unlocking"
    BY <1>1, <1>3, <1>19, <2>1, <2>3 DEF TakeLockReleased, WorkerTypeOK
  <2> QED BY <2>2, <2>3
<1>20. CASE TakeShutdown
  BY <1>1, <1>20, StopsType, CancelForLifecycleType
     DEF TakeShutdown, QueueTypeOK, WorkerTypeOK
<1> QED BY <1>5, <1>6, <1>7, <1>8, <1>9, <1>10, <1>11, <1>12, <1>13, <1>14, <1>15, <1>16,
           <1>17, <1>18, <1>19, <1>20 DEF WorkerStep

\* report_lock_failure keeps the types.
LEMMA ReportLockFailureType ==
  ASSUME HostTypeOK, QueueTypeOK, ReportLockFailure
  PROVE  /\ cmds' \in Seq(Commands) /\ Len(cmds') <= CommandCapacity
         /\ application' \in {"running", "joining", "exited", "failed"}
         /\ lock_failure_sent' \in BOOLEAN
<1>1. Notice("LockFailed") \in Commands
  BY CommandTypes DEF Lifecycle
<1> QED BY <1>1, SendsType DEF ReportLockFailure, HostTypeOK, QueueTypeOK

\* The handler of the unlocked signal keeps the types.
LEMMA MarkLockReleasedType ==
  ASSUME HostTypeOK, QueueTypeOK, MarkLockReleased
  PROVE  /\ cmds' \in Seq(Commands) /\ Len(cmds') <= CommandCapacity
         /\ application' \in {"running", "joining", "exited", "failed"}
         /\ lock_failure_sent' \in BOOLEAN
<1>1. Notice("LockReleased") \in Commands
  BY CommandTypes DEF Lifecycle
<1> QED BY <1>1, SendsType DEF MarkLockReleased, HostTypeOK, QueueTypeOK

\* The main thread keeps the types: nothing it does touches the controller thread.
LEMMA HostLoopType ==
  ASSUME HostTypeOK, QueueTypeOK, WorkerTypeOK, HostLoop
  PROVE  HostTypeOK' /\ QueueTypeOK' /\ WorkerTypeOK'
<1>1. WorkerTypeOK'
  BY WorkerUnchanged
     DEF HostLoop, HandleBackendReady, HandleLockAcquired, HandleLockFailed, HandleUnlock,
         HandleReleased, HandleFatal, NoticeWorkerGone, JoinSends, JoinReturns, Polls, HostStep
<1>2. ASSUME NEW e, Polls(e)
      PROVE  /\ native' \in Seq(NativeEvents) /\ Len(native') <= NativeCapacity
             /\ UNCHANGED <<sleep_preparing, page>>
  BY <1>2, PollsType DEF Polls
<1>3. CASE HandleBackendReady
  <2>1. Polls("BackendReady") /\ RequestLock /\ UNCHANGED lock_acquired
    BY <1>3 DEF HandleBackendReady
  <2>2. CASE ReportLockFailure /\ lock_requested' = TRUE /\ instance' = "failed"
    BY <1>1, <1>2, <2>1, <2>2, ReportLockFailureType DEF HostTypeOK, QueueTypeOK
  <2>3. CASE ~(ReportLockFailure /\ lock_requested' = TRUE /\ instance' = "failed")
    BY <1>1, <1>2, <2>1, <2>3 DEF RequestLock, HostTypeOK, QueueTypeOK
  <2> QED BY <2>2, <2>3
<1>4. CASE HandleLockAcquired
  BY <1>1, <1>2, <1>4 DEF HandleLockAcquired, HostTypeOK, QueueTypeOK
<1>5. CASE HandleLockFailed
  BY <1>1, <1>2, <1>5 DEF HandleLockFailed, HostTypeOK, QueueTypeOK
<1>6. CASE HandleUnlock
  BY <1>1, <1>2, <1>6 DEF HandleUnlock, HostTypeOK, QueueTypeOK
<1>7. CASE HandleReleased
  BY <1>1, <1>2, <1>7 DEF HandleReleased, HostTypeOK, QueueTypeOK
<1>8. CASE HandleFatal
  BY <1>1, <1>2, <1>8 DEF HandleFatal, HostTypeOK, QueueTypeOK
<1>9. CASE NoticeWorkerGone
  BY <1>1, <1>9 DEF NoticeWorkerGone, hostVars, HostTypeOK, QueueTypeOK
<1>10. CASE JoinSends
  <2>1. Notice("Shutdown") \in Commands
    BY CommandTypes
  <2> QED BY <1>1, <1>10, <2>1, SendsType DEF JoinSends, hostVars, HostTypeOK, QueueTypeOK
<1>11. CASE JoinReturns
  BY <1>1, <1>11 DEF JoinReturns, hostVars, HostTypeOK, QueueTypeOK
<1> QED BY <1>3, <1>4, <1>5, <1>6, <1>7, <1>8, <1>9, <1>10, <1>11 DEF HostLoop

\* A signal of the session-lock instance keeps the types its handler keeps.
LEMMA InstanceSignalsType ==
  ASSUME HostTypeOK, QueueTypeOK, WorkerTypeOK,
         NEW before, NEW after \in {"locked", "released", "revoked", "failed"},
         InstanceSignals(before, after),
         cmds' \in Seq(Commands), Len(cmds') <= CommandCapacity,
         application' \in {"running", "joining", "exited", "failed"},
         lock_failure_sent' \in BOOLEAN
  PROVE  HostTypeOK' /\ QueueTypeOK' /\ WorkerTypeOK'
<1>1. WorkerTypeOK'
  BY WorkerUnchanged DEF InstanceSignals, HostStep
<1> QED BY <1>1 DEF InstanceSignals, HostTypeOK, QueueTypeOK

\* So does a signal of a monitor, a page or logind.
LEMMA HostSignalType ==
  ASSUME HostTypeOK, QueueTypeOK, WorkerTypeOK, HostSignal,
         cmds' \in Seq(Commands), Len(cmds') <= CommandCapacity,
         application' \in {"running", "joining", "exited", "failed"},
         lock_failure_sent' \in BOOLEAN, sleep_preparing' \in BOOLEAN,
         page' \in [Views -> {"unused", "live", "waiting", "detached"}]
  PROVE  HostTypeOK' /\ QueueTypeOK' /\ WorkerTypeOK'
<1>1. WorkerTypeOK'
  BY WorkerUnchanged DEF HostSignal, HostStep
<1> QED BY <1>1 DEF HostSignal, HostTypeOK, QueueTypeOK

\* Detaching a page keeps the types, whether the command fits the queue or not.
LEMMA DetachesType ==
  ASSUME HostTypeOK, QueueTypeOK, NEW v \in Views, Detaches(v)
  PROVE  /\ cmds' \in Seq(Commands) /\ Len(cmds') <= CommandCapacity
         /\ page' \in [Views -> {"unused", "live", "waiting", "detached"}]
<1>1. Command("Detach", v, "none") \in Commands
  BY CommandTypes
<1> QED BY <1>1, SendsOrDropsType DEF Detaches, HostTypeOK

\* The compositor, the pages and logind keep the types.
LEMMA EnvironmentType ==
  ASSUME HostTypeOK, QueueTypeOK, WorkerTypeOK, Environment \/ CompositorUnlocks
  PROVE  HostTypeOK' /\ QueueTypeOK' /\ WorkerTypeOK'
<1> USE DEF Lifecycle
<1>1. CASE CompositorLocks
  <2>1. cmds' \in Seq(Commands) /\ Len(cmds') <= CommandCapacity
    BY <1>1, CommandTypes, SendsOrDropsType DEF CompositorLocks
  <2> QED BY <1>1, <2>1, InstanceSignalsType DEF CompositorLocks, HostTypeOK
<1>2. CASE CompositorDenies
  BY <1>2, ReportLockFailureType, InstanceSignalsType DEF CompositorDenies
<1>3. CASE CompositorUnlocks
  BY <1>3, MarkLockReleasedType, InstanceSignalsType DEF CompositorUnlocks
<1>4. CASE CompositorRevokes
  BY <1>4, MarkLockReleasedType, InstanceSignalsType DEF CompositorRevokes
<1>5. CASE AddMonitor
  <2>1. PICK v \in Views : Opens(v) /\ Sends(Command("Register", v, "none"))
    BY <1>5 DEF AddMonitor
  <2>2. cmds' \in Seq(Commands) /\ Len(cmds') <= CommandCapacity
    BY <2>1, CommandTypes, SendsType
  <2> QED BY <1>5, <2>1, <2>2, HostSignalType DEF AddMonitor, Opens, HostTypeOK
<1>6. CASE AddMonitorFails
  <2>1. CASE IsLocked
    BY <1>6, <2>1, HostSignalType DEF AddMonitorFails, HostTypeOK, QueueTypeOK
  <2>2. CASE ~IsLocked
    <3>1. ReportLockFailure /\ HostSignal /\ UNCHANGED <<page, sleep_preparing>>
      BY <1>6, <2>2 DEF AddMonitorFails
    <3>2. /\ cmds' \in Seq(Commands) /\ Len(cmds') <= CommandCapacity
          /\ application' \in {"running", "joining", "exited", "failed"}
          /\ lock_failure_sent' \in BOOLEAN
      BY <3>1, ReportLockFailureType
    <3>3. /\ sleep_preparing' \in BOOLEAN
          /\ page' \in [Views -> {"unused", "live", "waiting", "detached"}]
      BY <3>1 DEF HostTypeOK
    <3> QED BY <3>1, <3>2, <3>3, HostSignalType
  <2> QED BY <2>1, <2>2
<1>7. CASE RetryInterface
  <2>1. PICK v \in Views, w \in Views :
          LET detaching == Open(v) /\ CanSend
              queue == IF detaching THEN Append(cmds, Command("Detach", v, "none")) ELSE cmds
              room  == worker # "stopped" /\ Len(queue) < CommandCapacity
          IN /\ cmds' = IF room THEN Append(queue, Command("Register", w, "none")) ELSE queue
             /\ page' = [page EXCEPT ![v] = "detached", ![w] = IF room THEN "live" ELSE @]
    BY <1>7 DEF RetryInterface
  <2> DEFINE queue == IF Open(v) /\ CanSend
                      THEN Append(cmds, Command("Detach", v, "none")) ELSE cmds
  <2>2. queue \in Seq(Commands) /\ Len(queue) <= CommandCapacity
    BY CommandTypes, AppendBounded DEF CanSend, QueueTypeOK
  <2>3. \/ cmds' = queue
        \/ Len(queue) < CommandCapacity /\ cmds' = Append(queue, Command("Register", w, "none"))
    BY <2>1
  <2>4. page' \in [Views -> {"unused", "live", "waiting", "detached"}]
    BY <2>1 DEF HostTypeOK
  <2> HIDE DEF queue
  <2>5. cmds' \in Seq(Commands) /\ Len(cmds') <= CommandCapacity
    BY <2>2, <2>3, CommandTypes, AppendBounded
  <2> QED BY <1>7, <2>4, <2>5, HostSignalType DEF RetryInterface, HostTypeOK
<1>8. CASE ViewFails
  BY <1>8, DetachesType, HostSignalType DEF ViewFails, HostTypeOK
<1>9. CASE PageLoads
  <2>1. PICK v \in Views :
          IF CanSend THEN Sends(Notice("CancelForPage")) /\ page' = [page EXCEPT ![v] = "live"]
                     ELSE Detaches(v)
    BY <1>9 DEF PageLoads
  <2>2. Notice("CancelForPage") \in Commands
    BY CommandTypes
  <2>3. /\ cmds' \in Seq(Commands) /\ Len(cmds') <= CommandCapacity
        /\ page' \in [Views -> {"unused", "live", "waiting", "detached"}]
    BY <2>1, <2>2, SendsType, DetachesType DEF HostTypeOK
  <2> QED BY <1>9, <2>3, HostSignalType DEF PageLoads, HostTypeOK
<1>10. CASE PageRequests
  <2>1. PICK v \in Views, request \in Requests :
          /\ Sends(Command("Request", v, request))
          /\ page' = [page EXCEPT ![v] = "waiting"]
    BY <1>10 DEF PageRequests
  <2>2. cmds' \in Seq(Commands) /\ Len(cmds') <= CommandCapacity
    BY <2>1, CommandTypes, SendsType
  <2> QED BY <1>10, <2>1, <2>2, HostSignalType DEF PageRequests, HostTypeOK
<1>11. CASE ReplyArrives
  BY <1>11, HostSignalType DEF ReplyArrives, HostTypeOK, QueueTypeOK
<1>12. CASE SleepSignal
  <2>1. Notice(IF sleep_preparing THEN "ResumeAfterSleep" ELSE "PrepareForSleep") \in Commands
    BY CommandTypes
  <2>2. cmds' \in Seq(Commands) /\ Len(cmds') <= CommandCapacity
    BY <1>12, <2>1, SendsOrDropsType DEF SleepSignal
  <2> QED BY <1>12, <2>2, HostSignalType DEF SleepSignal, HostTypeOK
<1> QED BY <1>1, <1>2, <1>3, <1>4, <1>5, <1>6, <1>7, <1>8, <1>9, <1>10, <1>11, <1>12
        DEF Environment

\* The initial state is well typed.
LEMMA InitType == Init => TypeOK
<1> SUFFICES ASSUME Init PROVE TypeOK
  OBVIOUS
<1>1. QueueTypeOK
  <2>1. <<>> \in Seq(NativeEvents) /\ Len(<<>>) = 0
    OBVIOUS
  <2> QED BY <2>1, EmptyQueue DEF Init, QueueTypeOK
<1>2. HostTypeOK
  BY DEF Init, HostTypeOK
<1>3. WorkerTypeOK
  BY DEF Init, WorkerTypeOK, RestStates
<1> QED BY <1>1, <1>2, <1>3, TypeParts

\* Whatever the number of views and the sizes of the queues, both queues stay within
\* their capacities and hold nothing but what their receivers expect
\* (controller_worker.rs:27-29, 83-103).
THEOREM TypeCorrect == Spec => []TypeOK
<1>1. Init => TypeOK
  BY InitType
<1>2. TypeOK /\ [Next]_vars => TypeOK'
  <2> SUFFICES ASSUME TypeOK, [Next]_vars PROVE TypeOK'
    OBVIOUS
  <2>1. HostTypeOK /\ QueueTypeOK /\ WorkerTypeOK
    BY TypeParts
  <2>2. CASE Next
    <3>1. HostTypeOK' /\ QueueTypeOK' /\ WorkerTypeOK'
      BY <2>1, <2>2, WorkerStepType, HostLoopType, EnvironmentType DEF Next
    <3> QED BY <3>1, TypePartsPrimed
  <2>3. CASE UNCHANGED vars
    BY <2>3 DEF vars, hostVars, workerVars, controllerVars, TypeOK
  <2> QED BY <2>2, <2>3
<1> QED BY <1>1, <1>2, PTL DEF Spec

-----------------------------------------------------------------------------
(* The controller thread's own invariant.  LockedNeverAuthenticated alone  *)
(* is not inductive: whether a request grants depends on the public state  *)
(* being the backend's, on a prompt being open only while Locked, and on   *)
(* the lock having left Locked for good once an authorization is consumed. *)

GrantedAtMostOnce == grants = 0 \/ (grants = 1 /\ lock \notin {"Acquiring", "Locked"})

NothingBeforeLocked ==
  /\ worker = "starting" => lock = "Acquiring"
  /\ worker # "stopped" /\ lock = "Acquiring" => client = "Idle" /\ ~prompt

ServingInv ==
  worker # "stopped" =>
    /\ lock = "Locked" => client # "Authenticated"
    /\ authentication = PublicState(client)
    /\ client = "Waiting" => prompt /\ lock = "Locked"
    /\ prompt /\ client # "Waiting" => authentication = "Failed"
    /\ crossed => client # "Waiting"

ControllerInv == GrantedAtMostOnce /\ NothingBeforeLocked /\ ServingInv

\* Only a transition of the backend into Authenticated consumes an authorization.
LEMMA GrantedOutcome ==
  ASSUME ServingInv, worker # "stopped", NEW o, Granted(o)
  PROVE  o.result = "Ok" /\ o.state = "Authenticated" /\ client # "Authenticated"
  BY DEF Granted, ServingInv, PublicState

\* A lifecycle cancellation closes every transaction.
LEMMA CancelForLifecycleEffect ==
  ASSUME ControllerInv, worker # "stopped", client \in RestStates, CancelForLifecycle
  PROVE  /\ client' \notin {"Waiting", "Authenticated"}
         /\ client' = client \/ client' = "Idle"
         /\ authentication' = PublicState(client')
         /\ prompt' => authentication' = "Failed"
         /\ prompt' => prompt
<1>1. CASE InTransaction(client)
  BY <1>1 DEF CancelForLifecycle, AfterLifecycleCancel, Becomes, InTransaction
<1>2. CASE ~InTransaction(client)
  BY <1>2 DEF CancelForLifecycle, AfterLifecycleCancel, Becomes, InTransaction,
     ControllerInv, ServingInv
<1> QED BY <1>1, <1>2

\* A request keeps the controller's invariant, whatever the backend answers.
LEMMA RequestController ==
  ASSUME WorkerTypeOK, ControllerInv, worker = "running",
         NEW r \in Requests, NEW o \in Execute(r),
         Becomes(o.state, PromptAfter(r, o)), ConsumeAuthorization(o),
         crossed' = (crossed /\ ~(r = "begin" /\ o.result = "Ok")),
         worker' = worker
  PROVE  ControllerInv'
<1> USE DEF ControllerInv
<1>1. CASE o.state = client /\ o.result = "Err"
  <2>1. UNCHANGED <<lock, grants, client>> /\ authentication' = PublicState(client)
    BY <1>1, GrantedOutcome DEF ConsumeAuthorization, Becomes
  <2>2. prompt' => prompt
    BY <1>1 DEF PromptAfter, Becomes
  <2>3. client = "Waiting" => prompt' = prompt
    BY <1>1 DEF PromptAfter, ResetsPrompt, Becomes, WorkerTypeOK
  <2>4. crossed' => crossed
    OBVIOUS
  <2> QED BY <2>1, <2>2, <2>3, <2>4
          DEF GrantedAtMostOnce, NothingBeforeLocked, ServingInv
<1>2. CASE lock = "Locked" /\ r \in {"power", "get"} /\ o.state = client /\ o.result = "Ok"
  <2>1. UNCHANGED <<lock, grants, client>> /\ authentication' = PublicState(client)
    BY <1>2, GrantedOutcome DEF ConsumeAuthorization, Becomes
  <2>2. prompt' = prompt
    BY <1>2 DEF PromptAfter, ResetsPrompt, Becomes, WorkerTypeOK
  <2>3. crossed' => crossed
    OBVIOUS
  <2> QED BY <2>1, <2>2, <2>3 DEF GrantedAtMostOnce, NothingBeforeLocked, ServingInv
<1>3. CASE /\ lock = "Locked" /\ o \in Advance
           /\ \/ r = "begin" /\ client \in {"Idle", "Failed"}
              \/ r = "respond" /\ client = "Waiting"
  <2>1. client # "Authenticated" /\ authentication # "Authenticated"
    BY <1>3 DEF ServingInv, PublicState
  <2>2. grants = 0
    BY <1>3 DEF GrantedAtMostOnce
  <2>3. client' = o.state /\ authentication' = PublicState(o.state)
    BY DEF Becomes
  <2>4. CASE o.result = "Ok" /\ o.state = "Authenticated"
    <3>1. lock' = "Unlocking" /\ grants' = 1
      BY <2>1, <2>2, <2>4 DEF Granted, ConsumeAuthorization
    <3>2. ~prompt'
      BY <1>3, <2>4 DEF PromptAfter, Becomes
    <3> QED BY <2>3, <2>4, <3>1, <3>2
            DEF GrantedAtMostOnce, NothingBeforeLocked, ServingInv
  <2>5. CASE o.result = "Ok" /\ o.state = "Waiting"
    <3>1. UNCHANGED <<lock, grants>>
      BY <2>5, GrantedOutcome DEF ConsumeAuthorization
    <3>2. prompt'
      <4>1. r \in {"begin", "respond"}
        BY <1>3
      <4>2. PromptAfter(r, o) = (o.state = "Waiting")
        BY <2>5, <4>1, Zenon DEF PromptAfter
      <4> QED BY <2>5, <4>2, Zenon DEF Becomes
    <3>3. ~crossed'
      BY <1>3, <2>5 DEF ServingInv
    <3> QED BY <1>3, <2>2, <2>3, <2>5, <3>1, <3>2, <3>3
            DEF GrantedAtMostOnce, NothingBeforeLocked, ServingInv
  <2>6. CASE o.state \in {"Failed", "Disconnected"}
    <3>1. UNCHANGED <<lock, grants>>
      BY <2>6, GrantedOutcome DEF ConsumeAuthorization
    <3> QED BY <1>3, <2>2, <2>3, <2>6, <3>1
            DEF GrantedAtMostOnce, NothingBeforeLocked, ServingInv, PublicState
  <2> QED BY <1>3, <2>4, <2>5, <2>6, AdvanceOutcomes DEF Broken
<1>4. CASE /\ lock = "Locked" /\ r \in {"cancel", "power"} /\ InTransaction(client)
           /\ o.state = "Idle"
  <2>1. UNCHANGED <<lock, grants>>
    BY <1>4, GrantedOutcome DEF ConsumeAuthorization
  <2>2. client' = "Idle" /\ authentication' = "Idle" /\ ~prompt'
    BY <1>4 DEF Becomes, PublicState, PromptAfter, ResetsPrompt, InTransaction
  <2> QED BY <1>4, <2>1, <2>2
          DEF GrantedAtMostOnce, NothingBeforeLocked, ServingInv, PublicState
<1> QED BY <1>1, <1>2, <1>3, <1>4, ExecuteOutcomes

\* A resume begins a transaction of its own.
LEMMA ResumeController ==
  ASSUME WorkerTypeOK, ControllerInv, worker = "running", lock = "Locked",
         NEW o \in BeginOutcomes(AfterLifecycleCancel), o.result = "Ok",
         Becomes(o.state, o.state = "Waiting"), ConsumeAuthorization(o),
         crossed' = FALSE, worker' = worker
  PROVE  ControllerInv'
<1> USE DEF ControllerInv
<1>1. o.state \in {"Waiting", "Authenticated", "Failed"}
  BY AdvanceOutcomes, RefusedOutcomes DEF BeginOutcomes
<1>2. grants = 0 /\ authentication # "Authenticated"
  BY DEF GrantedAtMostOnce, ServingInv, PublicState
<1>3. client' = o.state /\ authentication' = o.state
  BY <1>1 DEF Becomes, PublicState
<1>4. prompt' <=> o.state = "Waiting"
  BY DEF Becomes
<1>5. CASE o.state = "Authenticated"
  <2>1. lock' = "Unlocking" /\ grants' = 1
    BY <1>2, <1>5 DEF Granted, ConsumeAuthorization
  <2> QED BY <1>3, <1>4, <1>5, <2>1
          DEF GrantedAtMostOnce, NothingBeforeLocked, ServingInv, PublicState
<1>6. CASE o.state # "Authenticated"
  <2>1. UNCHANGED <<lock, grants>>
    BY <1>6, GrantedOutcome DEF ConsumeAuthorization
  <2> QED BY <1>1, <1>2, <1>3, <1>4, <1>6, <2>1
          DEF GrantedAtMostOnce, NothingBeforeLocked, ServingInv, PublicState
<1> QED BY <1>5, <1>6

\* A step that leaves the controller alone keeps its invariant.
LEMMA ControllerUnchanged ==
  ASSUME ControllerInv, UNCHANGED controllerVars, worker' = worker
  PROVE  ControllerInv'
  BY DEF ControllerInv, GrantedAtMostOnce, NothingBeforeLocked, ServingInv, controllerVars

\* Once the thread has stopped, only what it granted still matters.
LEMMA ControllerStops ==
  ASSUME ControllerInv, worker' = "stopped", grants' = grants,
         lock' = lock \/ lock' = "Failed"
  PROVE  ControllerInv'
  BY DEF ControllerInv, GrantedAtMostOnce, NothingBeforeLocked, ServingInv

\* A lifecycle cancellation keeps the controller's invariant.
LEMMA CancelController ==
  ASSUME WorkerTypeOK, ControllerInv, worker = "running", CancelForLifecycle,
         UNCHANGED <<worker, lock, grants>>
  PROVE  ControllerInv'
<1>1. /\ client' \notin {"Waiting", "Authenticated"}
      /\ client' = client \/ client' = "Idle"
      /\ authentication' = PublicState(client')
      /\ prompt' => authentication' = "Failed"
      /\ prompt' => prompt
  BY CancelForLifecycleEffect DEF WorkerTypeOK
<1> QED BY <1>1 DEF ControllerInv, GrantedAtMostOnce, NothingBeforeLocked, ServingInv

\* Every step of the controller thread keeps the controller's invariant.
LEMMA WorkerStepController ==
  ASSUME WorkerTypeOK, QueueTypeOK, ControllerInv, WorkerStep \/ WorkerPanics
  PROVE  ControllerInv'
<1>1. CASE StartSucceeds
  BY <1>1 DEF StartSucceeds, ControllerInv, GrantedAtMostOnce, NothingBeforeLocked,
     ServingInv, controllerVars
<1>2. CASE StartFails
  BY <1>2, ControllerStops DEF StartFails, SendFatal, Stops, controllerVars
<1>3. CASE WorkerPanics
  BY <1>3, ControllerStops DEF WorkerPanics, Stops, controllerVars
<1>4. CASE TakeRegister \/ TakeDetach \/ TakeRequestOfLostView \/ TakeResumeOutsideLock
  BY <1>4, ControllerUnchanged
     DEF TakeRegister, TakeDetach, TakeRequestOfLostView, TakeResumeOutsideLock, Continues
<1>5. CASE TakeRequest
  <2> DEFINE request == Head(cmds).request
  <2>1. PICK o \in Execute(request) :
          /\ Becomes(o.state, PromptAfter(request, o))
          /\ ConsumeAuthorization(o)
          /\ crossed' = (crossed /\ ~(request = "begin" /\ o.result = "Ok"))
    BY <1>5 DEF TakeRequest
  <2>2. worker = "running" /\ worker' = worker
    BY <1>5 DEF TakeRequest, Takes, Continues
  <2>3. request \in Requests
    BY <1>5, ContinuesType, CommandFields DEF TakeRequest, Takes
  <2> HIDE DEF request
  <2> QED BY <2>1, <2>2, <2>3, RequestController
<1>6. CASE TakeCancelForPage
  BY <1>6, CancelController DEF TakeCancelForPage, Takes, Continues
<1>7. CASE TakePrepareForSleep
  <2>1. worker = "running" /\ UNCHANGED <<worker, lock, grants>>
    BY <1>7 DEF TakePrepareForSleep, Takes, Continues
  <2>2. CASE lock = "Locked"
    BY <1>7, <2>1, <2>2, CancelController DEF TakePrepareForSleep, PrepareForSleep
  <2>3. CASE lock # "Locked"
    BY <1>7, <2>1, <2>3, ControllerUnchanged
       DEF TakePrepareForSleep, PrepareForSleep, controllerVars
  <2> QED BY <2>2, <2>3
<1>8. CASE TakeResumeAfterSleep
  <2>1. PICK o \in BeginOutcomes(AfterLifecycleCancel) :
          /\ o.result = "Ok"
          /\ Becomes(o.state, o.state = "Waiting")
          /\ ConsumeAuthorization(o)
    BY <1>8 DEF TakeResumeAfterSleep
  <2>2. worker = "running" /\ worker' = worker /\ lock = "Locked" /\ crossed' = FALSE
    BY <1>8 DEF TakeResumeAfterSleep, Takes, Continues
  <2> QED BY <2>1, <2>2, ResumeController
<1>9. CASE TakeResumeFails
  BY <1>9, ControllerStops DEF TakeResumeFails, SendFatal, Stops
<1>10. CASE TakeLockAcquired
  <2>1. CASE lock = "Acquiring"
    <3>1. /\ worker = "running" /\ worker' = worker /\ lock' = "Locked"
          /\ UNCHANGED <<client, authentication, prompt, grants, crossed>>
      BY <1>10, <2>1 DEF TakeLockAcquired, Takes, Continues
    <3> QED BY <2>1, <3>1
            DEF ControllerInv, GrantedAtMostOnce, NothingBeforeLocked, ServingInv
  <2>2. CASE lock # "Acquiring"
    BY <1>10, <2>2, ControllerStops DEF TakeLockAcquired, SendFatal, Stops
  <2> QED BY <2>1, <2>2
<1>11. CASE TakeLockFailed
  BY <1>11, ControllerStops DEF TakeLockFailed, SendFatal, Stops
<1>12. CASE TakeLockReleased
  <2>1. CASE lock = "Unlocking"
    <3>1. /\ worker = "running" /\ worker' = worker /\ lock' = "Released"
          /\ UNCHANGED <<client, authentication, prompt, grants, crossed>>
      BY <1>12, <2>1 DEF TakeLockReleased, Takes, Continues
    <3> QED BY <2>1, <3>1
            DEF ControllerInv, GrantedAtMostOnce, NothingBeforeLocked, ServingInv
  <2>2. CASE lock # "Unlocking"
    BY <1>12, <2>2, ControllerStops DEF TakeLockReleased, SendFatal, Stops
  <2> QED BY <2>1, <2>2
<1>13. CASE TakeShutdown
  BY <1>13, ControllerStops DEF TakeShutdown, Stops
<1> QED BY <1>1, <1>2, <1>3, <1>4, <1>5, <1>6, <1>7, <1>8, <1>9, <1>10, <1>11, <1>12, <1>13
        DEF WorkerStep

\* Every handler of the main thread leaves the controller thread alone.
LEMMA HostLeavesWorker ==
  ASSUME HostLoop \/ CompositorUnlocks \/ Environment
  PROVE  UNCHANGED workerVars
  BY DEF HostLoop, HandleBackendReady, HandleLockAcquired, HandleLockFailed, HandleUnlock,
     HandleReleased, HandleFatal, NoticeWorkerGone, JoinSends, JoinReturns, Polls,
     Environment, CompositorLocks, CompositorDenies, CompositorUnlocks, CompositorRevokes,
     InstanceSignals, AddMonitor, AddMonitorFails, RetryInterface, ViewFails, PageLoads,
     PageRequests, ReplyArrives, SleepSignal, HostSignal, HostStep

\* The initial state satisfies the controller's invariant.
LEMMA InitController == Init => ControllerInv
  BY DEF Init, ControllerInv, GrantedAtMostOnce, NothingBeforeLocked, ServingInv, PublicState

\* The controller's invariant holds for every number of views and any queue sizes.
THEOREM ControllerCorrect == Spec => []ControllerInv
<1>1. TypeOK /\ ControllerInv /\ [Next]_vars => ControllerInv'
  <2> SUFFICES ASSUME TypeOK, ControllerInv, [Next]_vars PROVE ControllerInv'
    OBVIOUS
  <2>1. QueueTypeOK /\ WorkerTypeOK
    BY TypeParts
  <2>2. CASE WorkerStep \/ WorkerPanics
    BY <2>1, <2>2, WorkerStepController
  <2>3. CASE HostLoop \/ CompositorUnlocks \/ Environment
    BY <2>3, HostLeavesWorker, ControllerUnchanged DEF workerVars
  <2>4. CASE UNCHANGED vars
    BY <2>4, ControllerUnchanged DEF vars, workerVars
  <2> QED BY <2>2, <2>3, <2>4 DEF Next
<1> QED BY <1>1, InitController, TypeCorrect, PTL DEF Spec

\* While the lock is held no accepted transaction waits to be noticed
\* (controller.rs:764-776, 862-922).
THEOREM LockedMeansUnauthenticated == Spec => []LockedNeverAuthenticated
<1>1. ControllerInv => LockedNeverAuthenticated
  BY DEF ControllerInv, ServingInv, LockedNeverAuthenticated, Running, PublicState
<1> QED BY <1>1, ControllerCorrect, PTL

\* What the pages are shown is what the backend is (controller.rs:212-214, 1033-1044).
THEOREM PublicStateCorrect == Spec => []PublicStateTracksBackend
<1>1. ControllerInv => PublicStateTracksBackend
  BY DEF ControllerInv, ServingInv, PublicStateTracksBackend, Running
<1> QED BY <1>1, ControllerCorrect, PTL

\* No transaction begun before a page load, a suspend or a resume is still open once
\* the controller has handled it (controller.rs:862-922).
THEOREM BoundariesEndTransactions == Spec => []NoTransactionCrossesBoundary
<1>1. ControllerInv => NoTransactionCrossesBoundary
  BY DEF ControllerInv, ServingInv, NoTransactionCrossesBoundary, Running
<1> QED BY <1>1, ControllerCorrect, PTL
=============================================================================
