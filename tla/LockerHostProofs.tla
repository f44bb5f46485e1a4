-------------------------- MODULE LockerHostProofs --------------------------
(***************************************************************************)
(* Proofs about the two queues of Locker and the session-lock instance.    *)
(* What a thread concludes from a queued event or command is the meaning   *)
(* it had when it was sent; the invariants below say that this meaning     *)
(* outlives the wait in the queue, and in which order events wait.         *)
(***************************************************************************)
EXTENDS LockerProofs

QueuedIn(queue, kind) == \E i \in DOMAIN queue : queue[i].kind = kind

Queued(kind)   == QueuedIn(cmds, kind)
Pending(event) == \E i \in DOMAIN native : native[i] = event

\* every queued event has some earlier one of the other kind before it
Preceded(event, earlier) ==
  \A i \in DOMAIN native : native[i] = event => \E j \in 1 .. i - 1 : native[j] = earlier

BeforeLocked == {"idle", "pending", "failed"}

\* all that can wait for the main thread while the controller thread still serves
BacklogInv ==
  /\ ~lock_requested => instance = "idle"
  /\ worker = "starting" => native = <<>> /\ ~lock_requested
  /\ worker = "running" =>
       /\ lock # "Failed"
       /\ lock = "Acquiring" => native = <<>> \/ (native = <<"BackendReady">> /\ ~lock_requested)
       /\ lock = "Locked"    => native \in {<<>>, <<"LockAcquired">>}
       /\ lock = "Unlocking" => native \in {<<>>, <<"Unlock">>, <<"LockAcquired", "Unlock">>}
       /\ lock = "Released"  => native \in {<<>>, <<"Released">>, <<"Unlock", "Released">>,
                                            <<"LockAcquired", "Unlock", "Released">>}

AcquiredInv ==
  /\ Queued("LockAcquired") => instance \notin BeforeLocked
  /\ lock \notin {"Acquiring", "Failed"} => instance \notin BeforeLocked
  /\ Pending("LockAcquired") \/ lock_acquired =>
       lock # "Acquiring" /\ instance \notin BeforeLocked

UnlockInv ==
  /\ lock \in {"Unlocking", "Released"} => grants = 1
  /\ grants = 1 => instance \notin BeforeLocked
  /\ Pending("Unlock") \/ instance \in {"unlocking", "released"} => grants = 1

\* an authorized unlock cannot be lost: it waits, or it was acted upon
AuthorizationInv ==
  /\ lock = "Locked" => lock_acquired \/ Pending("LockAcquired")
  /\ lock_acquired \/ Preceded("Unlock", "LockAcquired")
  /\ application = "running" /\ grants = 1 /\ instance \in {"locked", "revoked"} =>
       Pending("Unlock")

ReleasedInv ==
  /\ Queued("LockReleased") \/ Pending("Released") => instance \in {"released", "revoked"}
  /\ application = "running" => instance = "released" \/ Preceded("Released", "Unlock")
  /\ RevokedLockIsNotASuccess

FailureInv ==
  /\ Queued("LockFailed") \/ Pending("LockFailed") => lock_failure_sent
  /\ ExitWhileLockedOnlyByEarlyFailure

HostInv == BacklogInv /\ AcquiredInv /\ UnlockInv /\ AuthorizationInv /\ ReleasedInv
             /\ FailureInv

-----------------------------------------------------------------------------
(* What sending and taking do to what is queued. *)

\* The elements of an extended queue.
LEMMA AppendMember ==
  ASSUME NEW S, NEW s \in Seq(S), NEW e \in S, NEW i \in DOMAIN Append(s, e)
  PROVE  \/ i \in DOMAIN s /\ Append(s, e)[i] = s[i]
         \/ i = Len(s) + 1 /\ Append(s, e)[i] = e
  BY AppendProperties

\* What waits after a take was waiting before.
LEMMA TailMember ==
  ASSUME NEW S, NEW s \in Seq(S), s # <<>>, NEW i \in DOMAIN Tail(s)
  PROVE  i \in Nat /\ i + 1 \in DOMAIN s /\ Tail(s)[i] = s[i + 1]
  BY HeadTailProperties

\* The kinds that wait after a command was appended.
LEMMA AppendQueued ==
  ASSUME NEW q \in Seq(Commands), NEW c \in Commands, NEW k, QueuedIn(Append(q, c), k)
  PROVE  QueuedIn(q, k) \/ c.kind = k
<1>1. PICK i \in DOMAIN Append(q, c) : Append(q, c)[i].kind = k
  BY DEF QueuedIn
<1>2. \/ i \in DOMAIN q /\ Append(q, c)[i] = q[i]
      \/ Append(q, c)[i] = c
  BY AppendMember
<1> QED BY <1>1, <1>2 DEF QueuedIn

\* The kinds that can wait after a send.
LEMMA SendsQueued ==
  ASSUME QueueTypeOK, NEW c \in Commands, Sends(c) \/ SendsOrDrops(c), NEW k, Queued(k)'
  PROVE  Queued(k) \/ c.kind = k
<1>1. cmds' = cmds \/ cmds' = Append(cmds, c)
  BY DEF Sends, SendsOrDrops
<1> QED BY <1>1, AppendQueued DEF Queued, QueueTypeOK

\* A take of the worker brings no kind of command into the queue.
LEMMA TakesQueued ==
  ASSUME QueueTypeOK, cmds # <<>>, cmds' = Tail(cmds), NEW k, Queued(k)'
  PROVE  Queued(k)
<1>1. PICK i \in DOMAIN cmds' : cmds'[i].kind = k
  BY DEF Queued, QueuedIn
<1>2. i + 1 \in DOMAIN cmds /\ cmds'[i] = cmds[i + 1]
  BY TailMember DEF QueueTypeOK
<1> QED BY <1>1, <1>2 DEF Queued, QueuedIn

\* The command the worker takes was queued.
LEMMA HeadQueued ==
  ASSUME QueueTypeOK, cmds # <<>> PROVE Queued(Head(cmds).kind)
<1>1. 1 \in DOMAIN cmds /\ Head(cmds) = cmds[1]
  BY DEF QueueTypeOK
<1> QED BY <1>1 DEF Queued, QueuedIn

\* What waits for the main thread after the worker sent an event.
LEMMA NativeAppend ==
  ASSUME QueueTypeOK, NEW e \in NativeEvents, SendNative(e)
  PROVE  /\ \A x : Pending(x)' => Pending(x) \/ x = e
         /\ \A x : Pending(x) => Pending(x)'
         /\ Pending(e)'
         /\ \A x, y : Preceded(x, y) /\ (x = e => Pending(y)) => Preceded(x, y)'
<1>1. native \in Seq(NativeEvents) /\ native' = Append(native, e)
  BY DEF QueueTypeOK, SendNative
<1>2. ASSUME NEW i \in DOMAIN native'
      PROVE  \/ i \in DOMAIN native /\ native'[i] = native[i]
             \/ i = Len(native) + 1 /\ native'[i] = e
  BY <1>1, AppendMember
<1>3. ASSUME NEW i \in DOMAIN native PROVE i \in DOMAIN native' /\ native'[i] = native[i]
  BY <1>1, AppendProperties
<1>4. Len(native) + 1 \in DOMAIN native' /\ native'[Len(native) + 1] = e
  BY <1>1, AppendProperties
<1>5. DOMAIN native = 1 .. Len(native) /\ Len(native) \in Nat
  BY <1>1
<1>6. ASSUME NEW x, NEW y, Preceded(x, y), x = e => Pending(y) PROVE Preceded(x, y)'
  <2> SUFFICES ASSUME NEW i \in DOMAIN native', native'[i] = x
               PROVE  \E j \in 1 .. i - 1 : native'[j] = y
    BY DEF Preceded
  <2>1. CASE i \in DOMAIN native /\ native'[i] = native[i]
    <3>1. PICK j \in 1 .. i - 1 : native[j] = y
      BY <1>6, <2>1 DEF Preceded
    <3>2. j \in DOMAIN native
      BY <1>5, <2>1, <3>1
    <3> QED BY <1>3, <3>1, <3>2
  <2>2. CASE i = Len(native) + 1 /\ native'[i] = e
    <3>1. PICK j \in DOMAIN native : native[j] = y
      BY <1>6, <2>2 DEF Pending
    <3>2. j \in 1 .. i - 1
      BY <1>5, <2>2, <3>1
    <3> QED BY <1>3, <3>1, <3>2
  <2> QED BY <1>2, <2>1, <2>2
<1>7. \A x : Pending(x)' => Pending(x) \/ x = e
  BY <1>2 DEF Pending
<1>8. \A x : Pending(x) => Pending(x)'
  BY <1>3 DEF Pending
<1>9. Pending(e)'
  BY <1>4 DEF Pending
<1> QED BY <1>6, <1>7, <1>8, <1>9

\* What waits for the main thread after it took an event.
LEMMA NativeTail ==
  ASSUME QueueTypeOK, NEW e, Polls(e)
  PROVE  /\ Pending(e)
         /\ \A x : Pending(x)' => Pending(x)
         /\ \A x : Pending(x) /\ x # e => Pending(x)'
         /\ \A x : ~Preceded(e, x)
         /\ \A x, y : Preceded(x, y) /\ y # e => Preceded(x, y)'
<1>1. /\ native \in Seq(NativeEvents) /\ native # <<>>
      /\ native' = Tail(native) /\ Head(native) = e
  BY DEF QueueTypeOK, Polls
<1>2. ASSUME NEW i \in DOMAIN native'
      PROVE  i \in Nat /\ i + 1 \in DOMAIN native /\ native'[i] = native[i + 1]
  BY <1>1, TailMember
<1>3. 1 \in DOMAIN native /\ native[1] = e
  BY <1>1
<1>4. ASSUME NEW i \in DOMAIN native, i # 1
      PROVE  i \in Nat /\ i - 1 \in DOMAIN native' /\ native'[i - 1] = native[i]
  BY <1>1, <1>4, HeadTailProperties
<1>5. ASSUME NEW x, NEW y, Preceded(x, y), y # e PROVE Preceded(x, y)'
  <2> SUFFICES ASSUME NEW i \in DOMAIN native', native'[i] = x
               PROVE  \E j \in 1 .. i - 1 : native'[j] = y
    BY DEF Preceded
  <2>1. i + 1 \in DOMAIN native /\ native[i + 1] = x /\ i \in Nat
    BY <1>2
  <2>2. PICK j \in 1 .. i : native[j] = y
    BY <1>5, <2>1 DEF Preceded
  <2>3. j # 1 /\ j \in DOMAIN native
    BY <1>1, <1>3, <1>5, <2>1, <2>2
  <2>4. j - 1 \in 1 .. i - 1 /\ native'[j - 1] = y
    BY <1>4, <2>1, <2>2, <2>3
  <2> QED BY <2>4
<1>6. \A x : Pending(x)' => Pending(x)
  BY <1>2 DEF Pending
<1>7. \A x : Pending(x) /\ x # e => Pending(x)'
  BY <1>3, <1>4 DEF Pending
<1>8. \A x : ~Preceded(e, x)
  BY <1>3 DEF Preceded
<1>9. Pending(e)
  BY <1>3 DEF Pending
<1> QED BY <1>5, <1>6, <1>7, <1>8, <1>9

-----------------------------------------------------------------------------
(* What one step of each thread can do to the queues, the lock and the     *)
(* instance: the seven kinds of step of the controller thread, the         *)
(* reactions of the main thread to an event, and its signal handlers.      *)

Serving == worker = "running" /\ worker' = "running"

WorkerQuiet    == /\ UNCHANGED <<native, lock, grants>>
                  /\ worker' = "stopped" \/ worker' = worker
WorkerStarts   == /\ worker = "starting" /\ worker' = "running"
                  /\ SendNative("BackendReady") /\ UNCHANGED <<lock, grants>>
WorkerFails    == worker' = "stopped" /\ SendNative("Fatal") /\ UNCHANGED <<lock, grants>>
WorkerGrants   == /\ Serving /\ lock = "Locked" /\ lock' = "Unlocking"
                  /\ grants = 0 /\ grants' = 1 /\ SendNative("Unlock")
RecordsLock    == /\ Serving /\ Queued("LockAcquired")
                  /\ lock = "Acquiring" /\ lock' = "Locked"
                  /\ SendNative("LockAcquired") /\ UNCHANGED grants
RecordsFailure == /\ worker' = "stopped" /\ Queued("LockFailed") /\ lock' = "Failed"
                  /\ SendNative("LockFailed") /\ UNCHANGED grants
RecordsRelease == /\ Serving /\ Queued("LockReleased")
                  /\ lock = "Unlocking" /\ lock' = "Released"
                  /\ SendNative("Released") /\ UNCHANGED grants

WorkerEffect ==
  \/ WorkerQuiet \/ WorkerStarts \/ WorkerFails \/ WorkerGrants
  \/ RecordsLock \/ RecordsFailure \/ RecordsRelease

HostUntouched ==
  /\ UNCHANGED <<application, lock_requested, lock_acquired, lock_failure_sent, instance>>
  /\ \A k \in Lifecycle : Queued(k)' => Queued(k)

\* The controller thread touches nothing of the main thread.
LEMMA WorkerLeavesHost ==
  ASSUME QueueTypeOK, WorkerStep \/ WorkerPanics
  PROVE  HostUntouched
<1>1. UNCHANGED <<application, hostVars, instance>>
  BY DEF WorkerStep, WorkerPanics, StartSucceeds, StartFails, TakeRegister, TakeDetach,
     TakeRequest, TakeRequestOfLostView, TakeCancelForPage, TakePrepareForSleep,
     TakeResumeAfterSleep, TakeResumeOutsideLock, TakeResumeFails, TakeLockAcquired,
     TakeLockFailed, TakeLockReleased, TakeShutdown, Takes
<1>2. \/ cmds' = cmds
      \/ cmds # <<>> /\ cmds' = Tail(cmds)
      \/ cmds' = <<>>
  BY DEF WorkerStep, WorkerPanics, StartSucceeds, StartFails, TakeRegister, TakeDetach,
     TakeRequest, TakeRequestOfLostView, TakeCancelForPage, TakePrepareForSleep,
     TakeResumeAfterSleep, TakeResumeOutsideLock, TakeResumeFails, TakeLockAcquired,
     TakeLockFailed, TakeLockReleased, TakeShutdown, Takes, Continues, SendFatal, Stops
<1>3. ASSUME NEW k, Queued(k)' PROVE Queued(k)
  <2>1. CASE cmds' = cmds
    BY <1>3, <2>1 DEF Queued
  <2>2. CASE cmds # <<>> /\ cmds' = Tail(cmds)
    BY <1>3, <2>2, TakesQueued
  <2>3. CASE cmds' = <<>>
    BY <1>3, <2>3 DEF Queued, QueuedIn
  <2> QED BY <1>2, <2>1, <2>2, <2>3
<1> QED BY <1>1, <1>3 DEF HostUntouched, hostVars

\* An authorization is consumed while Locked, and it is the first one.
LEMMA ConsumeEffect ==
  ASSUME ControllerInv, worker = "running", worker' = worker, NEW o,
         Granted(o) => lock = "Locked", ConsumeAuthorization(o)
  PROVE  WorkerGrants \/ WorkerQuiet
<1>1. CASE Granted(o)
  <2>1. grants = 0
    BY <1>1 DEF ControllerInv, GrantedAtMostOnce
  <2> QED BY <1>1, <2>1 DEF ConsumeAuthorization, WorkerGrants, Serving
<1>2. CASE ~Granted(o)
  BY <1>2 DEF ConsumeAuthorization, WorkerQuiet
<1> QED BY <1>1, <1>2

\* Every step of the controller thread has one of the effects above.
LEMMA WorkerStepEffect ==
  ASSUME QueueTypeOK, WorkerTypeOK, ControllerInv, WorkerStep \/ WorkerPanics
  PROVE  WorkerEffect
<1> USE DEF WorkerEffect
<1>1. CASE StartSucceeds
  BY <1>1 DEF StartSucceeds, WorkerStarts, controllerVars
<1>2. CASE StartFails
  BY <1>2 DEF StartFails, SendFatal, Stops, WorkerFails, controllerVars
<1>3. CASE WorkerPanics
  BY <1>3 DEF WorkerPanics, Stops, WorkerQuiet, controllerVars
<1>4. CASE \/ TakeRegister \/ TakeDetach \/ TakeRequestOfLostView \/ TakeCancelForPage
           \/ TakePrepareForSleep \/ TakeResumeOutsideLock \/ TakeShutdown
  BY <1>4
     DEF TakeRegister, TakeDetach, TakeRequestOfLostView, TakeCancelForPage,
         TakePrepareForSleep, TakeResumeOutsideLock, TakeShutdown, Continues, Stops,
         WorkerQuiet, controllerVars
<1>5. CASE TakeRequest
  <2> DEFINE request == Head(cmds).request
  <2>1. PICK o \in Execute(request) : ConsumeAuthorization(o)
    BY <1>5 DEF TakeRequest
  <2>2. worker = "running" /\ worker' = worker
    BY <1>5 DEF TakeRequest, Takes, Continues
  <2>3. request \in Requests
    BY <1>5, ContinuesType, CommandFields DEF TakeRequest, Takes
  <2> HIDE DEF request
  <2>4. Granted(o) => lock = "Locked"
    BY <2>3, ExecuteOutcomes DEF Granted
  <2> QED BY <2>1, <2>2, <2>4, ConsumeEffect
<1>6. CASE TakeResumeAfterSleep
  <2>1. PICK o : ConsumeAuthorization(o)
    BY <1>6 DEF TakeResumeAfterSleep
  <2>2. worker = "running" /\ worker' = worker /\ lock = "Locked"
    BY <1>6 DEF TakeResumeAfterSleep, Takes, Continues
  <2> QED BY <2>1, <2>2, ConsumeEffect
<1>7. CASE TakeResumeFails
  BY <1>7 DEF TakeResumeFails, SendFatal, Stops, WorkerFails
<1>8. CASE TakeLockAcquired
  <2>1. Queued("LockAcquired") /\ worker = "running"
    BY <1>8, HeadQueued DEF TakeLockAcquired, Takes
  <2> QED BY <1>8, <2>1
          DEF TakeLockAcquired, Continues, SendFatal, Stops, WorkerFails, RecordsLock, Serving
<1>9. CASE TakeLockFailed
  <2>1. Queued("LockFailed")
    BY <1>9, HeadQueued DEF TakeLockFailed, Takes
  <2> QED BY <1>9, <2>1 DEF TakeLockFailed, SendFatal, Stops, WorkerFails, RecordsFailure
<1>10. CASE TakeLockReleased
  <2>1. Queued("LockReleased") /\ worker = "running"
    BY <1>10, HeadQueued DEF TakeLockReleased, Takes
  <2> QED BY <1>10, <2>1
          DEF TakeLockReleased, Continues, SendFatal, Stops, WorkerFails, RecordsRelease, Serving
<1> QED BY <1>1, <1>2, <1>3, <1>4, <1>5, <1>6, <1>7, <1>8, <1>9, <1>10 DEF WorkerStep

-----------------------------------------------------------------------------
(* The controller thread keeps HostInv. *)

\* a short queue written out, extended and shortened
LEMMA BacklogAppends ==
  ASSUME NEW a, NEW b, NEW c
  PROVE  /\ Append(<<>>, a) = <<a>>
         /\ Append(<<a>>, b) = <<a, b>>
         /\ Append(<<a, b>>, c) = <<a, b, c>>
<1> DEFINE S == {a, b, c}
<1>1. Append(<<>>, a) = <<a>>
  OBVIOUS
<1>2. Append(<<a>>, b) = <<a, b>>
  <2>1. <<a>> \in Seq(S) /\ <<a, b>> \in Seq(S) /\ Len(<<a>>) = 1 /\ <<a>>[1] = a
    OBVIOUS
  <2>2. Append(<<a>>, b) \in Seq(S) /\ Len(Append(<<a>>, b)) = 2
        /\ Append(<<a>>, b)[1] = a /\ Append(<<a>>, b)[2] = b
    BY <2>1, AppendProperties
  <2>3. Len(<<a, b>>) = 2 /\ <<a, b>>[1] = a /\ <<a, b>>[2] = b
    OBVIOUS
  <2>4. \A i \in 1 .. 2 : Append(<<a>>, b)[i] = <<a, b>>[i]
    <3>1. \A i \in 1 .. 2 : i = 1 \/ i = 2
      OBVIOUS
    <3> QED BY <2>2, <2>3, <3>1
  <2> HIDE DEF S
  <2> QED BY <2>1, <2>2, <2>3, <2>4, SeqEqual
<1>3. Append(<<a, b>>, c) = <<a, b, c>>
  <2>1. /\ <<a, b>> \in Seq(S) /\ <<a, b, c>> \in Seq(S)
        /\ Len(<<a, b>>) = 2 /\ <<a, b>>[1] = a /\ <<a, b>>[2] = b
    OBVIOUS
  <2>2. /\ Append(<<a, b>>, c) \in Seq(S) /\ Len(Append(<<a, b>>, c)) = 3
        /\ Append(<<a, b>>, c)[1] = a /\ Append(<<a, b>>, c)[2] = b
        /\ Append(<<a, b>>, c)[3] = c
    BY <2>1, AppendProperties
  <2>3. /\ Len(<<a, b, c>>) = 3
        /\ <<a, b, c>>[1] = a /\ <<a, b, c>>[2] = b /\ <<a, b, c>>[3] = c
    OBVIOUS
  <2>4. \A i \in 1 .. 3 : Append(<<a, b>>, c)[i] = <<a, b, c>>[i]
    <3>1. \A i \in 1 .. 3 : i = 1 \/ i = 2 \/ i = 3
      OBVIOUS
    <3> QED BY <2>2, <2>3, <3>1
  <2> HIDE DEF S
  <2> QED BY <2>1, <2>2, <2>3, <2>4, SeqEqual
<1> QED BY <1>1, <1>2, <1>3

\* The main thread takes the backlog in order.
LEMMA BacklogTails ==
  ASSUME NEW a, NEW b, NEW c
  PROVE  /\ Tail(<<a>>) = <<>>
         /\ Tail(<<a, b>>) = <<b>>
         /\ Tail(<<a, b, c>>) = <<b, c>>
  OBVIOUS

\* The lock was acquired only after it was requested, and only then is it recorded.
LEMMA WorkerBacklog ==
  ASSUME BacklogInv, AcquiredInv, ControllerInv, WorkerEffect, HostUntouched
  PROVE  BacklogInv'
<1>0. UNCHANGED <<lock_requested, instance>>
  BY DEF HostUntouched
<1>1. CASE WorkerQuiet
  BY <1>0, <1>1 DEF WorkerQuiet, BacklogInv
<1>2. CASE WorkerStarts
  BY <1>0, <1>2, BacklogAppends
     DEF WorkerStarts, BacklogInv, SendNative, ControllerInv, NothingBeforeLocked
<1>3. CASE WorkerFails \/ RecordsFailure
  BY <1>0, <1>3 DEF WorkerFails, RecordsFailure, BacklogInv
<1>4. CASE WorkerGrants
  BY <1>0, <1>4, BacklogAppends DEF WorkerGrants, Serving, BacklogInv, SendNative
<1>5. CASE RecordsLock
  <2>1. native = <<>>
    BY <1>5 DEF RecordsLock, Serving, BacklogInv, AcquiredInv, BeforeLocked
  <2> QED BY <1>0, <1>5, <2>1, BacklogAppends DEF RecordsLock, Serving, BacklogInv, SendNative
<1>6. CASE RecordsRelease
  BY <1>0, <1>6, BacklogAppends DEF RecordsRelease, Serving, BacklogInv, SendNative
<1> QED BY <1>1, <1>2, <1>3, <1>4, <1>5, <1>6 DEF WorkerEffect

\* What a step of the controller thread can add to the native queue.
LEMMA WorkerNative ==
  ASSUME QueueTypeOK, WorkerEffect
  PROVE  /\ \A x : Pending(x) => Pending(x)'
         /\ Pending("LockAcquired")' => Pending("LockAcquired") \/ RecordsLock
         /\ Pending("Unlock")' => Pending("Unlock") \/ WorkerGrants
         /\ Pending("Released")' => Pending("Released") \/ RecordsRelease
         /\ Pending("LockFailed")' => Pending("LockFailed") \/ RecordsFailure
         /\ WorkerGrants => Pending("Unlock")'
         /\ RecordsLock => Pending("LockAcquired")'
         /\ Preceded("Unlock", "LockAcquired") /\ (WorkerGrants => Pending("LockAcquired"))
              => Preceded("Unlock", "LockAcquired")'
         /\ Preceded("Released", "Unlock") /\ (RecordsRelease => Pending("Unlock"))
              => Preceded("Released", "Unlock")'
<1>1. CASE WorkerQuiet
  <2>1. ~WorkerGrants /\ ~RecordsLock /\ native' = native
    BY <1>1 DEF WorkerQuiet, WorkerGrants, RecordsLock
  <2> QED BY <2>1 DEF Pending, Preceded
<1>2. CASE WorkerStarts
  <2>1. ~WorkerGrants /\ ~RecordsLock
    BY <1>2 DEF WorkerStarts, WorkerGrants, RecordsLock
  <2> QED BY <1>2, <2>1, NativeAppend DEF WorkerStarts, NativeEvents
<1>3. CASE WorkerFails
  <2>1. ~WorkerGrants /\ ~RecordsLock
    BY <1>3 DEF WorkerFails, WorkerGrants, RecordsLock
  <2> QED BY <1>3, <2>1, NativeAppend DEF WorkerFails, NativeEvents
<1>4. CASE WorkerGrants
  <2>1. ~RecordsLock
    BY <1>4 DEF WorkerGrants, RecordsLock
  <2> QED BY <1>4, <2>1, NativeAppend DEF WorkerGrants, NativeEvents
<1>5. CASE RecordsLock
  <2>1. ~WorkerGrants
    BY <1>5 DEF WorkerGrants, RecordsLock
  <2> QED BY <1>5, <2>1, NativeAppend DEF RecordsLock, NativeEvents
<1>6. CASE RecordsFailure
  <2>1. ~WorkerGrants /\ ~RecordsLock
    BY <1>6 DEF RecordsFailure, WorkerGrants, RecordsLock, Serving
  <2> QED BY <1>6, <2>1, NativeAppend DEF RecordsFailure, NativeEvents
<1>7. CASE RecordsRelease
  <2>1. ~WorkerGrants /\ ~RecordsLock
    BY <1>7 DEF RecordsRelease, WorkerGrants, RecordsLock
  <2> QED BY <1>7, <2>1, NativeAppend DEF RecordsRelease, NativeEvents
<1> QED BY <1>1, <1>2, <1>3, <1>4, <1>5, <1>6, <1>7 DEF WorkerEffect

\* The lock and the counter change only with one of the four recorded effects.
LEMMA WorkerLock ==
  ASSUME WorkerEffect
  PROVE  \/ UNCHANGED <<lock, grants>>
         \/ WorkerGrants \/ RecordsLock \/ RecordsFailure \/ RecordsRelease
  BY DEF WorkerEffect, WorkerQuiet, WorkerStarts, WorkerFails

\* Whatever the controller thread does keeps the meaning of what is queued.
LEMMA WorkerKeepsHostInv ==
  ASSUME QueueTypeOK, ControllerInv, HostInv, WorkerEffect, HostUntouched
  PROVE  HostInv'
<1> USE DEF HostInv
<1>1. BacklogInv'
  BY WorkerBacklog
<1>2. /\ UNCHANGED <<application, lock_acquired, lock_failure_sent, instance>>
      /\ Queued("LockAcquired")' => Queued("LockAcquired")
      /\ Queued("LockReleased")' => Queued("LockReleased")
      /\ Queued("LockFailed")' => Queued("LockFailed")
  BY DEF HostUntouched, Lifecycle
<1>3. AcquiredInv'
  BY <1>2, WorkerNative, WorkerLock
     DEF AcquiredInv, WorkerGrants, RecordsLock, RecordsFailure, RecordsRelease
<1>4. UnlockInv'
  BY <1>2, WorkerNative, WorkerLock
     DEF AcquiredInv, UnlockInv, WorkerGrants, RecordsLock, RecordsFailure, RecordsRelease
<1>5. AuthorizationInv'
  <2>1. (lock = "Locked" => lock_acquired \/ Pending("LockAcquired"))'
    BY <1>2, WorkerNative, WorkerLock
       DEF AuthorizationInv, WorkerGrants, RecordsLock, RecordsFailure, RecordsRelease
  <2>2. WorkerGrants => lock_acquired \/ Pending("LockAcquired")
    BY DEF AuthorizationInv, WorkerGrants
  <2>3. (lock_acquired \/ Preceded("Unlock", "LockAcquired"))'
    BY <1>2, <2>2, WorkerNative DEF AuthorizationInv
  <2>4. grants' = 1 => grants = 1 \/ Pending("Unlock")'
    BY WorkerNative, WorkerLock DEF WorkerGrants, RecordsLock, RecordsFailure, RecordsRelease
  <2> QED BY <1>2, <2>1, <2>3, <2>4, WorkerNative DEF AuthorizationInv
<1>6. ReleasedInv'
  <2>1. (Queued("LockReleased") \/ Pending("Released") => instance \in {"released", "revoked"})'
    BY <1>2, WorkerNative DEF ReleasedInv, RecordsRelease
  <2>2. application = "running" /\ RecordsRelease => instance = "released" \/ Pending("Unlock")
    BY DEF ReleasedInv, UnlockInv, AuthorizationInv, RecordsRelease
  <2>3. (application = "running" => instance = "released" \/ Preceded("Released", "Unlock"))'
    BY <1>2, <2>2, WorkerNative DEF ReleasedInv
  <2> QED BY <1>2, <2>1, <2>3 DEF ReleasedInv, RevokedLockIsNotASuccess
<1>7. FailureInv'
  BY <1>2, WorkerNative
     DEF FailureInv, RecordsFailure, ExitWhileLockedOnlyByEarlyFailure, IsLocked
<1> QED BY <1>1, <1>3, <1>4, <1>5, <1>6, <1>7

-----------------------------------------------------------------------------
(* The main thread keeps HostInv. *)

ReportsTo(kind) ==
  /\ application' = application \/ application' = "failed"
  /\ \A k \in Lifecycle : Queued(k)' => Queued(k) \/ k = kind

\* report_lock_failure queues LockFailed, or ends the process, once.
LEMMA ReportLockFailureEffect ==
  ASSUME QueueTypeOK, HostTypeOK, ReportLockFailure
  PROVE  ReportsTo("LockFailed") /\ lock_failure_sent'
<1>1. Notice("LockFailed") \in Commands /\ Notice("LockFailed").kind = "LockFailed"
  BY CommandTypes DEF Lifecycle, Notice, Command
<1>2. CASE cmds' = cmds
  BY <1>2 DEF ReportLockFailure, ReportsTo, Queued, HostTypeOK
<1>3. CASE Sends(Notice("LockFailed"))
  BY <1>1, <1>3, SendsQueued DEF ReportLockFailure, ReportsTo, HostTypeOK
<1> QED BY <1>2, <1>3 DEF ReportLockFailure

\* The unlocked handler queues LockReleased or ends the process.
LEMMA MarkLockReleasedEffect ==
  ASSUME QueueTypeOK, MarkLockReleased
  PROVE  ReportsTo("LockReleased") /\ lock_failure_sent' = lock_failure_sent
<1>1. Notice("LockReleased") \in Commands /\ Notice("LockReleased").kind = "LockReleased"
  BY CommandTypes DEF Lifecycle, Notice, Command
<1>2. CASE cmds' = cmds
  BY <1>2 DEF MarkLockReleased, ReportsTo, Queued
<1>3. CASE Sends(Notice("LockReleased"))
  BY <1>1, <1>3, SendsQueued DEF MarkLockReleased, ReportsTo
<1> QED BY <1>2, <1>3 DEF MarkLockReleased

\* A handler that sends no lifecycle command and leaves the lock alone.
SignalQuiet ==
  /\ UNCHANGED <<application, lock_failure_sent>>
  /\ \A k \in Lifecycle : Queued(k)' => Queued(k)

\* The other commands of the main thread report nothing about the lock.
LEMMA OtherSends ==
  ASSUME QueueTypeOK, NEW c \in Commands, c.kind \notin Lifecycle, Sends(c) \/ SendsOrDrops(c)
  PROVE  \A k \in Lifecycle : Queued(k)' => Queued(k)
  BY SendsQueued

\* The signal handlers of monitors, pages and logind only report a failed lock.
LEMMA SignalEffect ==
  ASSUME QueueTypeOK,
         \/ AddMonitor \/ AddMonitorFails \/ RetryInterface \/ ViewFails \/ PageLoads
         \/ PageRequests \/ ReplyArrives \/ SleepSignal
  PROVE  HostSignal /\ (SignalQuiet \/ ReportLockFailure)
<1> USE DEF SignalQuiet
<1>1. \A v \in Views, r \in Requests :
        LET c == Command("Request", v, r) IN c \in Commands /\ c.kind \notin Lifecycle
  BY CommandTypes DEF Command, Lifecycle
<1>2. \A v \in Views, kind \in {"Register", "Detach"} :
        LET c == Command(kind, v, "none") IN c \in Commands /\ c.kind \notin Lifecycle
  BY CommandTypes DEF Command, Lifecycle
<1>3. \A kind \in {"CancelForPage", "PrepareForSleep", "ResumeAfterSleep"} :
        Notice(kind) \in Commands /\ Notice(kind).kind \notin Lifecycle
  BY CommandTypes DEF Command, Notice, Lifecycle
<1>4. CASE AddMonitor
  BY <1>2, <1>4, OtherSends DEF AddMonitor
<1>5. CASE AddMonitorFails
  <2>1. CASE IsLocked
    BY <1>5, <2>1 DEF AddMonitorFails, Queued
  <2>2. CASE ~IsLocked
    BY <1>5, <2>2 DEF AddMonitorFails
  <2> QED BY <2>1, <2>2
<1>6. CASE RetryInterface
  <2>1. PICK v \in Views, w \in Views :
          LET detaching == Open(v) /\ CanSend
              queue == IF detaching THEN Append(cmds, Command("Detach", v, "none")) ELSE cmds
              room  == worker # "stopped" /\ Len(queue) < CommandCapacity
          IN cmds' = IF room THEN Append(queue, Command("Register", w, "none")) ELSE queue
    BY <1>6 DEF RetryInterface
  <2> DEFINE queue == IF Open(v) /\ CanSend
                      THEN Append(cmds, Command("Detach", v, "none")) ELSE cmds
  <2>2. queue \in Seq(Commands) /\ \A k \in Lifecycle : QueuedIn(queue, k) => Queued(k)
    <3>1. CASE queue = cmds
      BY <3>1 DEF Queued, QueueTypeOK
    <3>2. CASE queue = Append(cmds, Command("Detach", v, "none"))
      BY <1>2, <3>2, AppendQueued, AppendProperties DEF Queued, QueueTypeOK
    <3> QED BY <3>1, <3>2
  <2>3. cmds' = queue \/ cmds' = Append(queue, Command("Register", w, "none"))
    BY <2>1
  <2> HIDE DEF queue
  <2>4. \A k \in Lifecycle : Queued(k)' => Queued(k)
    <3>1. /\ Command("Register", w, "none") \in Commands
          /\ Command("Register", w, "none").kind \notin Lifecycle
      BY <1>2
    <3>2. CASE cmds' = queue
      BY <2>2, <3>2 DEF Queued
    <3>3. CASE cmds' = Append(queue, Command("Register", w, "none"))
      BY <2>2, <3>1, <3>3, AppendQueued DEF Queued
    <3> QED BY <2>3, <3>2, <3>3
  <2> QED BY <1>6, <2>4 DEF RetryInterface
<1>7. CASE ViewFails
  BY <1>2, <1>7, OtherSends DEF ViewFails, Detaches
<1>8. CASE PageLoads
  BY <1>2, <1>3, <1>8, OtherSends DEF PageLoads, Detaches
<1>9. CASE PageRequests
  BY <1>1, <1>9, OtherSends DEF PageRequests
<1>10. CASE ReplyArrives
  BY <1>10 DEF ReplyArrives, Queued
<1>11. CASE SleepSignal
  BY <1>3, <1>11, OtherSends DEF SleepSignal
<1> QED BY <1>4, <1>5, <1>6, <1>7, <1>8, <1>9, <1>10, <1>11

\* A handler that takes nothing from the native queue and does not touch the instance.
LEMMA SignalKeepsHostInv ==
  ASSUME QueueTypeOK, HostTypeOK, HostInv, HostRuns,
         UNCHANGED <<workerVars, instance, native, lock_requested, lock_acquired>>,
         SignalQuiet \/ ReportLockFailure
  PROVE  HostInv'
<1> USE DEF HostInv
<1>1. UNCHANGED <<worker, lock, grants, instance, native, lock_requested, lock_acquired>>
  BY DEF workerVars, controllerVars
<1>2. /\ application' = application \/ (application' = "failed" /\ lock_failure_sent')
      /\ lock_failure_sent => lock_failure_sent'
      /\ Queued("LockAcquired")' => Queued("LockAcquired")
      /\ Queued("LockReleased")' => Queued("LockReleased")
      /\ Queued("LockFailed")' => Queued("LockFailed") \/ lock_failure_sent'
  <2>1. CASE SignalQuiet
    BY <2>1 DEF SignalQuiet, Lifecycle
  <2>2. CASE ReportLockFailure
    BY <2>2, ReportLockFailureEffect DEF ReportsTo, Lifecycle
  <2> QED BY <2>1, <2>2
<1>3. BacklogInv'
  BY <1>1 DEF BacklogInv
<1>4. AcquiredInv'
  BY <1>1, <1>2 DEF AcquiredInv, Pending
<1>5. UnlockInv'
  BY <1>1 DEF UnlockInv, Pending
<1>6. AuthorizationInv'
  BY <1>1, <1>2 DEF AuthorizationInv, Pending, Preceded
<1>7. ReleasedInv'
  BY <1>1, <1>2 DEF ReleasedInv, RevokedLockIsNotASuccess, Pending, Preceded, HostRuns
<1>8. FailureInv'
  BY <1>1, <1>2
     DEF FailureInv, ExitWhileLockedOnlyByEarlyFailure, IsLocked, Pending, HostRuns
<1> QED BY <1>3, <1>4, <1>5, <1>6, <1>7, <1>8

\* The compositor's signals.
LEMMA CompositorKeepsHostInv ==
  ASSUME QueueTypeOK, HostTypeOK, HostInv,
         CompositorLocks \/ CompositorDenies \/ CompositorUnlocks \/ CompositorRevokes
  PROVE  HostInv'
<1> USE DEF HostInv
<1>1. /\ UNCHANGED <<worker, lock, grants, native, lock_requested, lock_acquired>>
      /\ application = "running"
  BY DEF CompositorLocks, CompositorDenies, CompositorUnlocks, CompositorRevokes,
     InstanceSignals, HostStep, HostRuns, workerVars, controllerVars
<1>2. CASE CompositorLocks
  <2>1. Notice("LockAcquired") \in Commands /\ Notice("LockAcquired").kind = "LockAcquired"
    BY CommandTypes DEF Lifecycle, Notice, Command
  <2>2. \A k \in Lifecycle : Queued(k)' => Queued(k) \/ k = "LockAcquired"
    BY <1>2, <2>1, SendsQueued DEF CompositorLocks
  <2>3. /\ instance = "pending" /\ instance' = "locked"
        /\ UNCHANGED <<application, lock_failure_sent>>
        /\ Queued("LockReleased")' => Queued("LockReleased")
        /\ Queued("LockFailed")' => Queued("LockFailed")
    BY <1>2, <2>2 DEF CompositorLocks, InstanceSignals, Lifecycle
  <2>4. BacklogInv'
    BY <1>1, <2>3 DEF BacklogInv
  <2>5. AcquiredInv'
    BY <1>1, <2>3 DEF AcquiredInv, Pending, BeforeLocked
  <2>6. UnlockInv' /\ grants # 1
    BY <1>1, <2>3 DEF UnlockInv, Pending, BeforeLocked
  <2>7. AuthorizationInv'
    BY <1>1, <2>3, <2>6 DEF AuthorizationInv, Pending, Preceded
  <2>8. ReleasedInv'
    BY <1>1, <2>3 DEF ReleasedInv, RevokedLockIsNotASuccess, Pending, Preceded
  <2>9. FailureInv'
    BY <1>1, <2>3 DEF FailureInv, ExitWhileLockedOnlyByEarlyFailure, Pending
  <2> QED BY <2>4, <2>5, <2>6, <2>7, <2>8, <2>9
<1>3. CASE CompositorDenies
  <2>1. /\ instance = "pending" /\ instance' = "failed" /\ lock_failure_sent'
        /\ application' \in {"running", "failed"}
        /\ Queued("LockAcquired")' => Queued("LockAcquired")
        /\ Queued("LockReleased")' => Queued("LockReleased")
    BY <1>1, <1>3, ReportLockFailureEffect
       DEF CompositorDenies, InstanceSignals, ReportsTo, Lifecycle
  <2>2. BacklogInv'
    BY <1>1, <2>1 DEF BacklogInv
  <2>3. AcquiredInv'
    BY <1>1, <2>1 DEF AcquiredInv, Pending, BeforeLocked
  <2>4. UnlockInv'
    BY <1>1, <2>1 DEF UnlockInv, Pending, BeforeLocked
  <2>5. AuthorizationInv'
    BY <1>1, <2>1 DEF AuthorizationInv, Pending, Preceded
  <2>6. ReleasedInv'
    BY <1>1, <2>1 DEF ReleasedInv, RevokedLockIsNotASuccess, Pending, Preceded
  <2>7. FailureInv'
    BY <2>1 DEF FailureInv, ExitWhileLockedOnlyByEarlyFailure
  <2> QED BY <2>2, <2>3, <2>4, <2>5, <2>6, <2>7
<1>4. CASE CompositorUnlocks \/ CompositorRevokes
  <2>1. /\ \/ instance = "unlocking" /\ instance' = "released"
           \/ instance = "locked" /\ instance' = "revoked"
        /\ lock_failure_sent' = lock_failure_sent
        /\ application' \in {"running", "failed"}
        /\ Queued("LockAcquired")' => Queued("LockAcquired")
        /\ Queued("LockFailed")' => Queued("LockFailed")
    BY <1>1, <1>4, MarkLockReleasedEffect
       DEF CompositorUnlocks, CompositorRevokes, InstanceSignals, ReportsTo, Lifecycle
  <2>2. BacklogInv'
    BY <1>1, <2>1 DEF BacklogInv
  <2>3. AcquiredInv'
    BY <1>1, <2>1 DEF AcquiredInv, Pending, BeforeLocked
  <2>4. UnlockInv'
    BY <1>1, <2>1 DEF UnlockInv, Pending, BeforeLocked
  <2>5. AuthorizationInv'
    BY <1>1, <2>1 DEF AuthorizationInv, Pending, Preceded
  <2>6. ReleasedInv'
    BY <1>1, <2>1 DEF ReleasedInv, RevokedLockIsNotASuccess, Pending, Preceded
  <2>7. FailureInv'
    BY <1>1, <2>1
       DEF FailureInv, ExitWhileLockedOnlyByEarlyFailure, IsLocked, Pending
  <2> QED BY <2>2, <2>3, <2>4, <2>5, <2>6, <2>7
<1> QED BY <1>2, <1>3, <1>4

\* The compositor, the pages and logind keep the meaning of what is queued.
LEMMA EnvironmentKeepsHostInv ==
  ASSUME QueueTypeOK, HostTypeOK, HostInv, Environment \/ CompositorUnlocks
  PROVE  HostInv'
<1>1. CASE CompositorLocks \/ CompositorDenies \/ CompositorUnlocks \/ CompositorRevokes
  BY <1>1, CompositorKeepsHostInv
<1>2. CASE \/ AddMonitor \/ AddMonitorFails \/ RetryInterface \/ ViewFails \/ PageLoads
           \/ PageRequests \/ ReplyArrives \/ SleepSignal
  BY <1>2, SignalEffect, SignalKeepsHostInv DEF HostSignal, HostStep
<1> QED BY <1>1, <1>2 DEF Environment

\* Taking an event shortens the backlog to another one the invariant allows.
LEMMA PollKeepsBacklog ==
  ASSUME BacklogInv, NEW e, Polls(e), ~lock_requested' => instance' = "idle"
  PROVE  BacklogInv'
<1>1. UNCHANGED <<worker, lock>> /\ native # <<>> /\ native' = Tail(native)
  BY DEF Polls, HostStep, workerVars, controllerVars
<1>2. ASSUME worker = "running" /\ lock = "Acquiring" PROVE native' = <<>>
  BY <1>1, <1>2, BacklogTails DEF BacklogInv
<1>3. ASSUME worker = "running" /\ lock = "Locked" PROVE native' = <<>>
  BY <1>1, <1>3, BacklogTails DEF BacklogInv
<1>4. ASSUME worker = "running" /\ lock = "Unlocking"
      PROVE  native' \in {<<>>, <<"Unlock">>}
  <2>1. native \in {<<"Unlock">>, <<"LockAcquired", "Unlock">>}
    BY <1>1, <1>4 DEF BacklogInv
  <2>2. /\ Tail(<<"Unlock">>) = <<>>
        /\ Tail(<<"LockAcquired", "Unlock">>) = <<"Unlock">>
    BY BacklogTails
  <2> QED BY <1>1, <2>1, <2>2
<1>5. ASSUME worker = "running" /\ lock = "Released"
      PROVE  native' \in {<<>>, <<"Released">>, <<"Unlock", "Released">>}
  <2>1. native \in {<<"Released">>, <<"Unlock", "Released">>,
                    <<"LockAcquired", "Unlock", "Released">>}
    BY <1>1, <1>5 DEF BacklogInv
  <2>2. /\ Tail(<<"Released">>) = <<>>
        /\ Tail(<<"Unlock", "Released">>) = <<"Released">>
        /\ Tail(<<"LockAcquired", "Unlock", "Released">>) = <<"Unlock", "Released">>
    BY BacklogTails
  <2> QED BY <1>1, <2>1, <2>2
<1>6. worker # "starting"
  BY <1>1 DEF BacklogInv
<1> QED BY <1>1, <1>2, <1>3, <1>4, <1>5, <1>6 DEF BacklogInv

\* Polling an event that is neither an acquired lock, an unlock nor a release, by a
\* handler that leaves the instance alone.
LEMMA PlainPollKeepsHostInv ==
  ASSUME QueueTypeOK, HostTypeOK, HostInv, NEW e, Polls(e), e \notin {"LockAcquired", "Unlock"},
         UNCHANGED <<cmds, instance, lock_requested, lock_acquired, lock_failure_sent>>,
         \/ application' = "running"
         \/ application' = "failed" /\ (~IsLocked \/ e = "LockFailed")
         \/ application' = "joining" /\ e = "Released"
  PROVE  HostInv'
<1> USE DEF HostInv
<1>1. UNCHANGED <<worker, lock, grants>> /\ application = "running"
  BY DEF Polls, HostStep, HostRuns, workerVars, controllerVars
<1>2. \A k : Queued(k)' <=> Queued(k)
  BY DEF Queued
<1>3. /\ Pending(e)
      /\ \A x : Pending(x)' => Pending(x)
      /\ \A x : Pending(x) /\ x # e => Pending(x)'
      /\ \A x : ~Preceded(e, x)
      /\ \A x, y : Preceded(x, y) /\ y # e => Preceded(x, y)'
  BY NativeTail
<1>4. BacklogInv'
  BY PollKeepsBacklog DEF BacklogInv
<1>5. AcquiredInv'
  BY <1>1, <1>2, <1>3 DEF AcquiredInv
<1>6. UnlockInv'
  BY <1>1, <1>3 DEF UnlockInv
<1>7. AuthorizationInv'
  BY <1>1, <1>3 DEF AuthorizationInv
<1>8. ReleasedInv'
  BY <1>1, <1>2, <1>3 DEF ReleasedInv, RevokedLockIsNotASuccess
<1>9. application' = "failed" /\ IsLocked => lock_failure_sent
  BY <1>3 DEF FailureInv, ReleasedInv
<1>10. FailureInv'
  BY <1>1, <1>2, <1>3, <1>9
     DEF FailureInv, ExitWhileLockedOnlyByEarlyFailure, IsLocked, ReleasedInv
<1> QED BY <1>4, <1>5, <1>6, <1>7, <1>8, <1>10

\* The request for the lock is made before anything else can have happened to it.
LEMMA BackendReadyKeepsHostInv ==
  ASSUME QueueTypeOK, HostTypeOK, HostInv, HandleBackendReady
  PROVE  HostInv'
<1> USE DEF HostInv
<1>1. /\ UNCHANGED <<worker, lock, grants, lock_acquired>>
      /\ application = "running" /\ lock_requested'
      /\ Polls("BackendReady") /\ RequestLock
  BY DEF HandleBackendReady, RequestLock, Polls, HostStep, HostRuns, workerVars,
     controllerVars, HostTypeOK
<1>2. /\ \A x : Pending(x)' => Pending(x)
      /\ \A x : Pending(x) /\ x # "BackendReady" => Pending(x)'
      /\ \A x, y : Preceded(x, y) /\ y # "BackendReady" => Preceded(x, y)'
  BY <1>1, NativeTail
<1>3. CASE lock_requested
  BY <1>1, <1>3, PlainPollKeepsHostInv DEF RequestLock
<1>4. CASE ~lock_requested
  <2>1. instance = "idle" /\ instance' \in {"pending", "failed"}
    BY <1>1, <1>4 DEF RequestLock, BacklogInv
  <2>2. /\ \/ application' = "running"
           \/ application' = "failed" /\ lock_failure_sent'
        /\ lock_failure_sent => lock_failure_sent'
        /\ Queued("LockAcquired")' => Queued("LockAcquired")
        /\ Queued("LockReleased")' => Queued("LockReleased")
        /\ Queued("LockFailed")' => Queued("LockFailed") \/ lock_failure_sent'
    <3>1. CASE UNCHANGED <<application, cmds, lock_failure_sent>>
      BY <1>1, <3>1 DEF Queued
    <3>2. CASE ReportLockFailure
      BY <1>1, <3>2, ReportLockFailureEffect DEF ReportsTo, Lifecycle
    <3> QED BY <1>1, <1>4, <3>1, <3>2 DEF RequestLock
  <2>3. BacklogInv'
    BY <1>1, PollKeepsBacklog
  <2>4. AcquiredInv'
    BY <1>1, <1>2, <2>1, <2>2 DEF AcquiredInv, BeforeLocked
  <2>5. UnlockInv'
    BY <1>1, <1>2, <2>1 DEF UnlockInv, BeforeLocked
  <2>6. AuthorizationInv'
    BY <1>1, <1>2, <2>1 DEF AuthorizationInv
  <2>7. ReleasedInv'
    BY <1>1, <1>2, <2>1, <2>2 DEF ReleasedInv, RevokedLockIsNotASuccess
  <2>8. FailureInv'
    BY <1>2, <2>1, <2>2 DEF FailureInv, ExitWhileLockedOnlyByEarlyFailure, IsLocked
  <2> QED BY <2>3, <2>4, <2>5, <2>6, <2>7, <2>8
<1> QED BY <1>3, <1>4

\* Handling LockAcquired records it while the unlock it precedes still waits.
LEMMA LockAcquiredKeepsHostInv ==
  ASSUME QueueTypeOK, HostTypeOK, HostInv, HandleLockAcquired
  PROVE  HostInv'
<1> USE DEF HostInv
<1>1. /\ UNCHANGED <<worker, lock, grants, application, cmds, instance, lock_requested,
                     lock_failure_sent>>
      /\ lock_acquired' /\ Polls("LockAcquired")
  BY DEF HandleLockAcquired, Polls, HostStep, workerVars, controllerVars
<1>2. \A k : Queued(k)' <=> Queued(k)
  BY <1>1 DEF Queued
<1>3. /\ Pending("LockAcquired")
      /\ \A x : Pending(x)' => Pending(x)
      /\ \A x : Pending(x) /\ x # "LockAcquired" => Pending(x)'
      /\ \A x, y : Preceded(x, y) /\ y # "LockAcquired" => Preceded(x, y)'
  BY <1>1, NativeTail
<1>4. BacklogInv'
  BY <1>1, PollKeepsBacklog DEF BacklogInv
<1>5. AcquiredInv'
  BY <1>1, <1>2, <1>3 DEF AcquiredInv
<1>6. UnlockInv'
  BY <1>1, <1>3 DEF UnlockInv
<1>7. AuthorizationInv'
  BY <1>1, <1>3 DEF AuthorizationInv
<1>8. ReleasedInv'
  BY <1>1, <1>2, <1>3 DEF ReleasedInv, RevokedLockIsNotASuccess
<1>9. FailureInv'
  BY <1>1, <1>2, <1>3 DEF FailureInv, ExitWhileLockedOnlyByEarlyFailure, IsLocked
<1> QED BY <1>4, <1>5, <1>6, <1>7, <1>8, <1>9

\* An unlock is asked for once the lock is known to be held, or the process fails.
LEMMA UnlockKeepsHostInv ==
  ASSUME QueueTypeOK, HostTypeOK, HostInv, HandleUnlock
  PROVE  HostInv'
<1> USE DEF HostInv
<1>1. /\ UNCHANGED <<worker, lock, grants, cmds, lock_requested, lock_acquired,
                     lock_failure_sent>>
      /\ application = "running" /\ Polls("Unlock")
  BY DEF HandleUnlock, Polls, HostStep, HostRuns, workerVars, controllerVars
<1>2. \A k : Queued(k)' <=> Queued(k)
  BY <1>1 DEF Queued
<1>3. /\ Pending("Unlock")
      /\ \A x : Pending(x)' => Pending(x)
      /\ \A x : Pending(x) /\ x # "Unlock" => Pending(x)'
      /\ \A x : ~Preceded("Unlock", x)
      /\ \A x, y : Preceded(x, y) /\ y # "Unlock" => Preceded(x, y)'
  BY <1>1, NativeTail
<1>4. lock_acquired
  BY <1>3 DEF AuthorizationInv
<1>5. \/ instance = "locked" /\ instance' = "unlocking" /\ application' = "running"
      \/ instance # "locked" /\ instance' = instance /\ application' = "failed"
  BY <1>1, <1>4 DEF HandleUnlock, IsLocked
<1>6. BacklogInv'
  BY <1>1, <1>5, PollKeepsBacklog DEF BacklogInv
<1>7. AcquiredInv'
  BY <1>1, <1>2, <1>3, <1>4, <1>5 DEF AcquiredInv, BeforeLocked
<1>8. UnlockInv'
  BY <1>1, <1>3, <1>5 DEF UnlockInv, BeforeLocked
<1>9. AuthorizationInv'
  BY <1>1, <1>4, <1>5 DEF AuthorizationInv
<1>10. ReleasedInv'
  <2>1. application' = "running" => ~Pending("Released")' /\ ~Queued("LockReleased")'
    BY <1>2, <1>3, <1>5 DEF ReleasedInv
  <2>2. application' = "running" => Preceded("Released", "Unlock")'
    BY <2>1 DEF Pending, Preceded
  <2> QED BY <1>2, <1>3, <1>5, <2>1, <2>2 DEF ReleasedInv, RevokedLockIsNotASuccess
<1>11. FailureInv'
  BY <1>1, <1>2, <1>3, <1>5 DEF FailureInv, ExitWhileLockedOnlyByEarlyFailure, IsLocked
<1> QED BY <1>6, <1>7, <1>8, <1>9, <1>10, <1>11

\* The three handlers that leave the queue of the worker's events alone.
LEMMA EndingKeepsHostInv ==
  ASSUME QueueTypeOK, HostTypeOK, HostInv, NoticeWorkerGone \/ JoinSends \/ JoinReturns
  PROVE  HostInv'
<1> USE DEF HostInv
<1>1. UNCHANGED <<worker, lock, grants, instance, native, lock_requested, lock_acquired,
                  lock_failure_sent>>
  BY DEF NoticeWorkerGone, JoinSends, JoinReturns, HostStep, hostVars, workerVars, controllerVars
<1>2. \A k \in Lifecycle : Queued(k)' => Queued(k)
  <2>1. CASE cmds' = cmds
    BY <2>1 DEF Queued
  <2>2. CASE JoinSends
    <3>1. Notice("Shutdown") \in Commands /\ Notice("Shutdown").kind \notin Lifecycle
      BY CommandTypes DEF Notice, Command, Lifecycle
    <3> QED BY <2>2, <3>1, OtherSends DEF JoinSends
  <2> QED BY <2>1, <2>2 DEF NoticeWorkerGone, JoinReturns
<1>3. \/ application' = application
      \/ application' = "failed" /\ ~IsLocked /\ application = "running"
      \/ application' = "exited" /\ application = "joining"
  BY DEF NoticeWorkerGone, JoinSends, JoinReturns, HostStep, HostRuns
<1>4. BacklogInv'
  BY <1>1 DEF BacklogInv
<1>5. AcquiredInv'
  BY <1>1, <1>2 DEF AcquiredInv, Pending, Lifecycle
<1>6. UnlockInv'
  BY <1>1 DEF UnlockInv, Pending
<1>7. AuthorizationInv'
  BY <1>1, <1>3 DEF AuthorizationInv, Pending, Preceded
<1>8. ReleasedInv'
  BY <1>1, <1>2, <1>3
     DEF ReleasedInv, RevokedLockIsNotASuccess, Pending, Preceded, Lifecycle
<1>9. FailureInv'
  BY <1>1, <1>2, <1>3
     DEF FailureInv, ExitWhileLockedOnlyByEarlyFailure, IsLocked, Pending, Lifecycle,
         ReleasedInv, RevokedLockIsNotASuccess
<1> QED BY <1>4, <1>5, <1>6, <1>7, <1>8, <1>9

\* Every step of the main loop keeps the meaning of what is queued.
LEMMA HostLoopKeepsHostInv ==
  ASSUME QueueTypeOK, HostTypeOK, HostInv, HostLoop
  PROVE  HostInv'
<1>1. CASE HandleLockFailed
  BY <1>1, PlainPollKeepsHostInv DEF HandleLockFailed
<1>2. CASE HandleReleased
  BY <1>2, PlainPollKeepsHostInv DEF HandleReleased
<1>3. CASE HandleFatal
  BY <1>3, PlainPollKeepsHostInv DEF HandleFatal, Polls, HostStep, HostRuns
<1> QED BY <1>1, <1>2, <1>3, BackendReadyKeepsHostInv, LockAcquiredKeepsHostInv,
           UnlockKeepsHostInv, EndingKeepsHostInv DEF HostLoop

-----------------------------------------------------------------------------
(* The safety properties of the runs, for every constant. *)

\* Nothing is queued initially.
LEMMA InitHost == Init => HostInv
<1> SUFFICES ASSUME Init PROVE HostInv
  OBVIOUS
<1>1. \A x : ~Queued(x) /\ ~Pending(x)
  BY DEF Init, Queued, QueuedIn, Pending
<1>2. Preceded("Unlock", "LockAcquired") /\ Preceded("Released", "Unlock")
  BY DEF Init, Preceded
<1>3. BacklogInv /\ AcquiredInv
  BY <1>1 DEF Init, BacklogInv, AcquiredInv
<1>4. UnlockInv /\ AuthorizationInv
  BY <1>1, <1>2 DEF Init, UnlockInv, AuthorizationInv
<1>5. ReleasedInv /\ FailureInv
  BY <1>1, <1>2 DEF Init, ReleasedInv, FailureInv, RevokedLockIsNotASuccess,
     ExitWhileLockedOnlyByEarlyFailure, IsLocked
<1> QED BY <1>3, <1>4, <1>5 DEF HostInv

\* A stuttering step keeps the invariant.
LEMMA HostUnchangedInv == ASSUME HostInv, UNCHANGED vars PROVE HostInv'
<1>1. UNCHANGED <<application, instance, cmds, native, worker, lock, grants, lock_requested,
                  lock_acquired, lock_failure_sent>>
  BY DEF vars, hostVars, workerVars, controllerVars
<1> QED BY <1>1
        DEF HostInv, BacklogInv, AcquiredInv, UnlockInv, AuthorizationInv, ReleasedInv,
            FailureInv, RevokedLockIsNotASuccess, ExitWhileLockedOnlyByEarlyFailure,
            IsLocked, Queued, Pending, Preceded

\* The queues keep the meaning of what is in them, for any number of views and any
\* capacities: every other theorem of this module is a consequence.
THEOREM HostCorrect == Spec => []HostInv
<1>1. TypeOK /\ ControllerInv /\ HostInv /\ [Next]_vars => HostInv'
  <2> SUFFICES ASSUME TypeOK, ControllerInv, HostInv, [Next]_vars PROVE HostInv'
    OBVIOUS
  <2>1. HostTypeOK /\ QueueTypeOK /\ WorkerTypeOK
    BY TypeParts
  <2>2. CASE WorkerStep \/ WorkerPanics
    BY <2>1, <2>2, WorkerStepEffect, WorkerLeavesHost, WorkerKeepsHostInv
  <2>3. CASE HostLoop
    BY <2>1, <2>3, HostLoopKeepsHostInv
  <2>4. CASE Environment \/ CompositorUnlocks
    BY <2>1, <2>4, EnvironmentKeepsHostInv
  <2>5. CASE UNCHANGED vars
    BY <2>5, HostUnchangedInv
  <2> QED BY <2>2, <2>3, <2>4, <2>5 DEF Next
<1> QED BY <1>1, InitHost, TypeCorrect, ControllerCorrect, PTL DEF Spec

\* An authorization is consumed at most once, and only it makes the host ask the
\* compositor to unlock (controller.rs:764-776, gtk_host.rs:207-217).
THEOREM UnlockedOnce == Spec => []UnlockOnce
<1>1. ControllerInv /\ HostInv => UnlockOnce
  BY DEF ControllerInv, GrantedAtMostOnce, HostInv, UnlockInv, UnlockOnce
<1> QED BY <1>1, ControllerCorrect, HostCorrect, PTL

\* With room for four events the controller thread never waits to send one, so the
\* join of shutdown cannot deadlock (controller_worker.rs:29, 193-201, 591).
THEOREM NativeSendIsNonblocking == Spec => []NativeSendNeverBlocks
<1>1. /\ Len(<<>>) < 4
      /\ Len(<<"BackendReady">>) < 4 /\ Len(<<"LockAcquired">>) < 4
      /\ Len(<<"Unlock">>) < 4 /\ Len(<<"LockAcquired", "Unlock">>) < 4
      /\ Len(<<"Released">>) < 4 /\ Len(<<"Unlock", "Released">>) < 4
      /\ Len(<<"LockAcquired", "Unlock", "Released">>) < 4
  OBVIOUS
<1>2. TypeOK /\ HostInv => NativeSendNeverBlocks
  <2> SUFFICES ASSUME TypeOK, HostInv, worker # "stopped" PROVE Len(native) < NativeCapacity
    BY DEF NativeSendNeverBlocks
  <2>0. Len(native) < 4 => Len(native) < NativeCapacity
    <3>1. Len(native) \in Nat
      BY TypeParts DEF QueueTypeOK
    <3> QED BY <3>1, NativeCapacityAssumption
  <2>1. worker \in {"starting", "running"}
    BY DEF TypeOK
  <2>2. CASE worker = "starting"
    BY <1>1, <2>0, <2>2 DEF HostInv, BacklogInv
  <2>3. CASE worker = "running"
    <3>1. native \in {<<>>, <<"BackendReady">>, <<"LockAcquired">>, <<"Unlock">>,
                      <<"LockAcquired", "Unlock">>, <<"Released">>, <<"Unlock", "Released">>,
                      <<"LockAcquired", "Unlock", "Released">>}
      BY <2>3 DEF HostInv, BacklogInv, TypeOK
    <3> QED BY <1>1, <2>0, <3>1
  <2> QED BY <2>1, <2>2, <2>3
<1> QED BY <1>2, TypeCorrect, HostCorrect, PTL

\* systemd is told "ready" only under a lock the controller has recorded
\* (DESIGN.md:1653, gtk_host.rs:196-202).
THEOREM ReadinessIsTrue == Spec => []ReadyOnlyWhenLockRecorded
<1>1. HostInv => ReadyOnlyWhenLockRecorded
  BY DEF HostInv, AcquiredInv, BeforeLocked, ReadyOnlyWhenLockRecorded
<1> QED BY <1>1, HostCorrect, PTL

\* A revoked lock never ends the process as a successful unlock does, even when it
\* races with an authorization (DESIGN.md:955-957).
THEOREM RevocationIsNotSuccess == Spec => []RevokedLockIsNotASuccess
<1>1. HostInv => RevokedLockIsNotASuccess
  BY DEF HostInv, ReleasedInv
<1> QED BY <1>1, HostCorrect, PTL

\* Only a lock failure reported before the lock arrived lets the process end under a
\* held lock (gtk_host.rs:142-149, 203-206).
THEOREM ExitsWhileLockedAreEarlyFailures == Spec => []ExitWhileLockedOnlyByEarlyFailure
<1>1. HostInv => ExitWhileLockedOnlyByEarlyFailure
  BY DEF HostInv, FailureInv
<1> QED BY <1>1, HostCorrect, PTL
=============================================================================
