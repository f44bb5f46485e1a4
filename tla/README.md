# Fomalhaut: a verification project in TLA+

Fomalhaut is a greeter (a front end of greetd) and a session locker for Wayland.
Both put a WebKit page in front of the user and keep authentication out of it:
the page sends requests to a controller on a thread of its own, the controller
drives an authentication backend, and a GTK main thread owns the windows and,
in the locker, the `ext-session-lock` instance. These modules model that system
from its Rust and TypeScript source, TLC checks them on small instances, and TLAPS
proves their safety for every value of the constants: every invariant the runs check,
and that both backends implement their contracts.

All source paths below are relative to `src/`.

Contents: 1 inventory, 2 plan, 3 the modules and the code, 4 the runs, 5 bounds,
6 fairness, 7 proofs, 8 where code and documents disagree, 9 what is not modelled.

## 1. Inventory

### 1.1 Components

| Component | State it keeps | Operations |
|---|---|---|
| `AuthConversation` (`fomalhaut-core/src/conversation.rs`, `state.rs`, `event.rs`) | `AuthState`, the active prompt, the next prompt identifier, a queue of events | begin, mark waiting, emit prompt/message, begin response, authenticate, fail, cancel (two steps), disconnect, drain |
| Backend traits (`fomalhaut-core/src/backend.rs`) | none | `ConversationBackend`, `ReauthBackend`, `LoginBackend` |
| PAM backend (`fomalhaut-pam/src/backend.rs`) | the conversation, an optional worker process, the worker's prompt identifier, a frame count | `begin_reauth`, `respond`, `cancel`, each blocking |
| PAM worker (`fomalhaut-pam/src/worker.rs`, `ipc.rs`) | one PAM transaction, frame count, next prompt, a poisoned flag | Prepare/Ready, Begin, prompt/answer, message, one verdict, exit |
| Locker controller (`fomalhaut-web/src/controller.rs`) | `LockState`, public `AuthState`, public prompt, event sequence | requests of pages, lifecycle cancellation, sleep, lock lifecycle, consuming the unlock authorization |
| Locker controller thread (`fomalhaut-lock/src/controller_worker.rs`) | the controller, registered views | one loop over a bounded command queue (16); blocking sends on a bounded native queue (8) |
| Locker host (`fomalhaut-lock/src/gtk_host.rs`, `readiness.rs`) | the session-lock instance, lock flags, one page per monitor | instance signals, native events, monitors, page loads and failures, sleep signals, retry |
| Shared WebView host (`fomalhaut-gtk/src/lib.rs`) | page epoch, one pending reply per page, timers | load, bridge request, output delivery, policy decisions, resource requests, page failure, shutdown |
| greetd client (`fomalhaut-greetd/src/`) | the conversation, the connection, pending identity, whether the session is being or was started | create session, respond, cancel, start session, each an exchange of several requests |
| Greeter controller (`fomalhaut-web/src/controller.rs`) | public state, login state, selected session | login requests, `start_session`, power |
| Greeter thread and host (`fomalhaut/src/`) | two bounded queues (8), one view | command loop, page loads, failures, shutdown with a join |
| Frontend protocol (`fomalhaut-web/src/bridge.rs`, `protocol/`) | event sequence | strict decoding with size limits, confinement to a role, encoding |
| SDK (`packages/fomalhaut-sdk/src/client.ts`) and Nocturne theme (`themes/nocturne/src/state/theme-store.ts`) | mirrored state, last sequence | subscribe, snapshot, apply events, requests |
| Session discovery and Exec (`fomalhaut-session/src/`) | identifiers seen | scan, mask, parse |
| User discovery (`fomalhaut-user/src/lib.rs`) | a thread, a child process, avatars | ask AccountsService or `getent`, filter, limit |
| PAM identity (`fomalhaut-pam/src/identity.rs`) | a child process | real uid, `getent` of it |
| Themes and assets (`fomalhaut-web/src/theme.rs`, `assets.rs`) | an open directory, avatars | select, open, resolve, allow navigation |
| Configuration, logind (`fomalhaut-config`, `fomalhaut-logind`) | none beyond startup values | load, narrow to a role; discover and request power |
| Packaging (`packaging/`) | none | PAM files, units |

### 1.2 How they interact

    page --request--> GTK main thread --cmds, try_send--> controller thread --calls--> PAM backend
    page <---reply--- GTK main thread <--native, blocking- controller thread              |  ^
                          |  ^                                                    stdin   v  |  messages
                   lock / v  |  locked, unlocked, failed                         worker process, reader thread
                        compositor

- Every page (one per monitor) shares one controller and one transaction.
- The main thread never blocks on the controller, except in the join of
  `shutdown`; the controller thread blocks in the backend's calls and in
  `native.send`.
- The greeter has the same shape with greetd's socket below the controller thread
  and one blocking queue of outputs above it: the GTK thread that empties the
  queue is the one that joins the thread.
- In the locker each page has an output queue of its own. A page whose queue is
  full is dropped by the controller thread and replaced by the host.
- Before any of that, a host loads its configuration, opens its theme, discovers
  sessions, users or its own account, and only then takes requests.
- `LockAcquired`, `LockFailed` and `LockReleased` go to the controller as
  commands and come back as native events, so the controller's `LockState` and
  the compositor's instance are two records of one lock that lag each other.

### 1.3 What is hard, and what makes each component correct

| Component | Hard behaviour | Correctness |
|---|---|---|
| conversation | identifiers never reset, refused past the last one | no answer is accepted for another prompt; events tell the state |
| PAM backend and worker | a process that hangs, crashes, floods, dies after its verdict, or leaves another behind that holds its pipes; a join on a reader that blocks; two identifier spaces; two frame counts | authenticated only by a verified verdict of this transaction; one transaction per process; every call returns, but for two joins |
| locker controller | several pages, sleep, page loads and failures end the same transaction | the authorization is consumed once; the public state is the backend's; nothing crosses a boundary |
| controller thread | full queues, dropped views, ending on an error, dying without a word | sends never block; the lock outlives the thread |
| locker host | signals of the compositor race with queued commands and events; commands are dropped when the queue is full | unlock only as authorized; readiness is true; a revoked lock is no success; no exit under a lock |
| greetd client | greetd has to be asked to give a session up, and the connection may be lost on either side of any request | authenticated only with greetd; no session left behind silently; nothing replayed; the call returns if greetd answers |
| greeter | a page is replaced under a request; cancellation, replies and shutdown race; the join waits for a thread that sends to the joiner | transactions belong to one page; a session is started in the request that authenticated, and ends the greeter; the join ends |
| event sequence, output queues, SDK, theme store | events between subscription, snapshot and reload; full queues; several pages of one controller | every event once and in order; the page shows the public state; a request is answered |
| startup, discovery | files that change, services and processes that answer late, partly or never | the catalog and the snapshot are trusted and limited; startup ends unless an icon's open waits, no child is left |
| protocol, themes | messages and paths in any form | a request fits its role; a page stays in its theme |

Each hazard is listed at its source line in `PROJECT.json`, with the properties
that would catch it, or the reason none does yet.

## 2. Plan

Order: the most important promise (who unlocks, and when does the lock end) first.

1. `AuthConversation`, `PamBackend`, `AuthBackend`/`ReauthBackend`: **done**.
2. `Locker`, `LockerProofs`, `LockerHostProofs`: **done**.
3. `GreetdClient` with the contract `LoginContract`/`LoginBackend`, and
   `GreetdClientProofs`: **done**.
4. `Greeter` on that contract, both threads and the join, and the controller's part
   of `GreeterProofs`: **done**.
5. `FrontendMirror`: output queues, page epochs, event sequence, SDK and store: **done**.
6. `HostStartup` with the modules of what is read and decided at startup: **done**.
7. Proofs of every invariant a run checks and of both refinements: **done**
   (`PamBackendProofs`, `GreetdClientProofs`, `GreeterProofs`, `FrontendMirrorProofs`,
   `HostStartupProofs`, `AuthConversationProofs`).
8. Left to prove:
   - action properties, once TLC has checked them: the recorded lock state only moves
     forward, and a page that stays registered never goes back in the event stream;
   - lemmas on the operators of `UserDiscovery` that the hypothesis of
     `SnapshotIsOfExpectedUsers` rests on: what one step of `PublishUser` keeps.

## 3. The modules and the code

`map` in `PROJECT.json` gives the source lines of every definition.

**`AuthConversation`** is the conversation as a value: one record, a guard
`Can...` and a result for each method of `conversation.rs`. Prompt kinds and
texts are left out; `WaitingVisible` and `WaitingSecret` are one `Waiting`.
`MaxPromptId` stands for `u64::MAX`.

**`AuthBackend`** lists, for each call and resting state, the pairs (state
afterwards, Ok or Err) a `ReauthBackend` may produce. **`ReauthBackend`** turns
them into a specification: one serial object seen when its calls return.

**`PamBackend`** has three actors. The *controller thread* is inside at most one
call; `host.pc` is where: `driving` (`drive_worker`, one frame per step),
`finishing` (`finish_worker` waits for the exit), `terminating` (killed, joining
the reader), `returned` (events not drained yet), `idle`. The *worker process* is
`child`, from ready through both PAM stages to its verdict and exit; the PAM
stack is external and may prompt, send messages, return any code, hang or crash at
any point. It may also start a process, which inherits the worker's ends of the pipes
(`PamStartsHelper`; nothing closes them, `worker.rs:49-53`) and ends when it will, after
the worker too. The *reader thread* forwards `stdout` into the bounded `messages`; the
pipe ends for it when nobody holds it any more (`PipesHeld`), not when the worker dies.
Timeouts are abstract: a receive may time out whenever the channel is empty, an
exit wait whenever the process runs. `rest` is a history variable: the call that
returned last, for the refinement.

**`Locker`** has the GTK main thread, the controller thread, `cmds` and `native`
between them, and outside them the compositor, the pages and logind. One action
per command (`Take...`), per native event (`Handle...`), per instance signal
(`Compositor...`) and per handler of the host. A handler that calls several
functions is one action: `TakeRequest` is `execute`, the draining of core
events, the update of the public state, `begin_unlock` when the state *becomes*
Authenticated, the fallback when the PAM worker was lost, and the broadcast. The
backend is the outcome sets of `AuthBackend`, so the two components meet
exactly at the contract that `PamBackend` is shown to implement.
`grants` (authorizations consumed) and `crossed` (a boundary was handled since
the last begin) are history variables; no guard reads them.

Modelling decisions in `Locker`:

- `is_locked()` is `instance = "locked"`: false before the `locked` signal, and
  false from `unlock()` on.
- The compositor may end the lock at any time; the instance's `unlocked` signal
  carries no reason, so `MarkLockReleased` is the same handler for both.
- Process exit is one step. `quit_failure` ends everything; the orderly path is
  `joining`, in which the main thread waits for the controller thread.
- `cancel` of a PAM transaction cannot fail, because it kills a process.
- Draining core events cannot fail in the locker: the frames of the PAM worker and the
  protocol limit texts to the same size. greetd's texts have no such limit, and
  `Greeter` has the failure as an action.
- A detached page may keep its receiver until it is polled next, so registering
  it may or may not find a receiver.
- The *Retry* button is over-approximated: it can be pressed for any page that
  was ever opened.
- `WorkerPanics` is the controller thread dying without a word, enabled by the
  constant `MayPanic`.
- Operators named for a dropped guard or a changed order (`KilledNot`,
  `MarkLockReleasedOrDrop`, ...) precede the definition they vary. They are not
  part of the specification: `PROJECT.json` ("mutants") names, for every checked
  property, the variant that breaks it.

**`MCLocker`** adds the symmetry of pages for TLC.

**`LoginContract`** lists what each call of a `LoginBackend` may lead to, as
`AuthBackend` does for PAM, with one more component: what greetd holds for this
greeter (`none`, `open`, `started`). **`LoginBackend`** turns it into a
specification.

**`GreetdClient`** is `GreeterClient` with greetd at the other end of a wire that
carries at most one frame. A call (`CreateSession`, `Respond`, `StartSession`,
`Cancel`) writes its request; `GreetdHandles` answers in any way the protocol has;
one action per arm of `drive()` reads the response and returns or writes the next
request (an acknowledgement, the clean-up after a rejection). `TransportFails`
breaks the connection before or after greetd acted. `greetd` is external: it owns
one slot and tells the truth about it. `lost` and `rest` are history variables.

**`Greeter`** has the two threads of the greeter with `cmds` (`try_send`) and
`outputs` (blocking: `outbox` holds what the controller thread cannot send yet).
`TakeRequest` is `GreeterController::handle` with all it calls: the operation, the
start of the session when it ended authenticated, the drained core events, and
the reply with its terminal mark. `TakeUndrainableRequest` is the same handler when a
text of greetd is too long for the protocol: the operation was carried out, the
transaction is abandoned, and the thread leaves with a fatal output instead of a reply.
Page epochs, the pending reply and all ways to
stop are those of `fomalhaut-gtk` with the callbacks of the greeter. `WorkerPanics`
is the controller thread unwinding, after which both channels are closed. `owner`
and `misused` are history variables.

**`FrontendMirror`** follows one question through five parts of the code: what
does each page believe? It has the locker's controller with its batches of events
and their sequence (`Becomes`, `BatchEvents`), the views and their output queues
(`SendToViewAndBroadcast`), the delivery in each WebView (`ReceiveOutput`), and in
the page the SDK's bootstrap (`ReceiveReply`, `ReceiveEvent`) and the store
(`Mirrors`). The lock is held from the start; `Locker` has its lifecycle. That a
web engine hands a page its replies and events in the order the host gave them is
an assumption about WebKit. `auth.message` events, which only display text, are
left out. `silent` is a history variable: a change was published by no event.

**`HostStartup`** composes the startup of both hosts out of modules without
variables: `ProtocolValues` (validation of texts), `FrontendProtocol` (decoding and
confinement to a role), `SessionDiscovery` (desktop entries and the Exec grammar,
character by character over classes), `UserDiscovery` (both providers, filters,
avatars), `ThemeStore` (paths, selection, resources, navigation), `HostConfig`
(validation, narrowing, power) and `AccountIdentity` (the locker's account). It
has the main thread, the controller thread, the discovery thread, the `getent`
child with its reader, and the page. What is read is chosen when it is read, so
two reads of a file may differ. `meant` and `expected` are history variables: the
command the first file of an identifier stands for, chosen together with the
quoted text it is written as, and the users a whole answer calls for.
**`MCHostStartup`** says what files, services and pages may hold.

`FilesAreReadAsMeant` and `ListsArePublishedAsExpected` say of the parsers and of the
public list what the invariants rely on; `MCData` in `MCHostStartup` has TLC evaluate
them on everything the run may read.

Modelling decisions worth knowing there:

- serde reads an envelope and parameters from arrays as well as from objects, as
  the code accepts them; a request identifier is only recovered from an object.
- A session whose stem or name is too long for the protocol passes the discovery
  and makes the greeter refuse to start (`TrustSessions`), as the design says.
- A broken theme of higher priority hides a good one of the same identifier, a bad
  theme selector of one role fails the configuration of both, and the theme's
  directory is read again when it is opened and for each monitor of the locker.
- The order in which an entry's checks are made picks only a rejection reason that
  no caller reads, so they are one conjunction.
- An icon is opened before its type is known, and the open of a FIFO waits for a writer.
  In the greeter that is the discovery thread (`AskAccountsService`), whose time limit
  the controller keeps; in the locker it is the controller thread itself (`FindAvatar`),
  without a limit. `WriterSteps` end these waits and are owed by nobody.
- The locker's `run_getent` joins its reader without a limit; the greeter's
  `run_bounded_command` waits for it with one.

## 4. The runs

| Run | Specification | Checks | Distinct states |
|---|---|---|---|
| `pam_backend` | `PamBackend!FairSpec` | six invariants, `CallReturns`, refinement `ImplementsContract` | 335,660 |
| `locker` | `MCLocker!Spec` | nine invariants | 344,562 |
| `locker_live` | `Locker!FairSpec` | `AuthorizedUnlockCompletes`, `RevokedLockEndsTheProcess` | 202,487 |
| `greetd_client` | `GreetdClient!FairSpec` | four invariants, `CallReturns`, refinement `ImplementsContract` | 9,251 |
| `greeter` | `Greeter!FairSpec` | five invariants, `StartedSessionEndsHost`, `ShutdownCompletes` | 63,780 |
| `frontend_mirror` | `FrontendMirror!Spec` | three invariants | 2,726,959 |
| `host_startup` | `MCHostStartup!FairSpec` | four invariants, `StartupEnds` | 8,420 |
| `pam_retry`, `pam_join`, `locker_exit`, `locker_retry`, `mirror_cancel` | | one documented statement each, which TLC refutes (section 8) | |

`pam_backend` shows, for every interleaving of the calls with a worker that
prompts, hangs, crashes, hits a frame limit or leaves a process behind:

- `AuthenticatedIsVerified`: the conversation is authenticated only when one
  process served exactly one Begin, passed both PAM stages unpoisoned and exited
  with success; a verdict received is not yet a verdict that counts.
- `OneTransactionPerProcess`, `AnswersReachTheirPrompt`: no process and no answer
  is carried from one transaction or prompt to the next.
- `HostWithinFrameBudget`: with a genuine worker the worker's limit bites first.
- `EventsTellTheOutcome`: what the controller derives the public prompt from.
- `CallReturns`: every call returns, except in the two joins of a reader that does not
  end: `JoinBlocked`, and `PipeKeptOpen` for as long as it lasts (section 8). A call that
  got its verdict returns even so, as the reader left the pipe with the verdict.
- `ImplementsContract`: `PamBackend` implements `ReauthBackend`, so `Locker`
  assumes nothing of the backend that it does not deliver.

`locker` checks that an authorization is consumed once and unlock asked for only
on it (`UnlockOnce`), that the session is never left locked behind an accepted
transaction (`LockedNeverAuthenticated`), that the controller never blocks on
the native queue and so `shutdown` cannot deadlock (`NativeSendNeverBlocks`),
that systemd is told the truth (`ReadyOnlyWhenLockRecorded`), that the process
ends under a held lock only after an early lock failure
(`ExitWhileLockedOnlyByEarlyFailure`), that a revoked lock is never taken for
an unlock (`RevokedLockIsNotASuccess`), and that public state, prompt and
lifecycle boundaries stay consistent (`PublicStateTracksBackend`,
`NoTransactionCrossesBoundary`).

`locker_live` checks that an accepted transaction ends in an unlocked session
and an ended process, even when the `unlocked` signal meets a full queue, and
that a revoked lock ends the process with a failure, even when the controller
thread is dead.

`greetd_client` shows, whatever greetd answers and wherever the connection breaks:

- `SlotAccountedFor`: between calls greetd holds a session only if the client would
  cancel it or has started it, or if the connection is lost or the last login ended
  with a service error. The second exception is real: `handle_server_error` does
  not cancel, and the next `create_session` is then refused by greetd.
- `AuthenticatedAsGreetdDoes`: authenticated, and for whom, only as greetd is, so
  that a `Success` which answers the clean-up is never taken for a login.
- `AnswersMatchPrompts`, `NoReplay`: no secret goes where none was asked for, and
  nothing is sent after an exchange failed.
- `ImplementsContract`: `Greeter` assumes nothing of its backend that
  `GreetdClient` does not deliver.

`greeter` shows that a session is started in the request that authenticated
(`AuthenticatedMeansStarted`), that a page's requests reach only its own
transaction (`TransactionOwnedByPage`), that replies stay correlated over reloads
(`RepliesAreCorrelated`), that greetd's session is released before the thread ends
(`ShutdownReleasesGreetd`), that the public state follows
(`PublicStateTracksBackend`), that a started session ends the greeter even behind a
stale page (`StartedSessionEndsHost`), and that every way to stop ends the process
(`ShutdownCompletes`) except in `JoinBlocked`: the controller thread waits for room
in a full queue of outputs that only the joining thread empties. `JoinBlocked` is
reachable with equal capacities too, as the code has (8 and 8): each reload lets a
page queue another request while the answers to the earlier ones wait.

`frontend_mirror` shows that a registered page misses no event
(`NoEventMissed`), that it shows the controller's public state once everything is
delivered (`MirrorConverges`, except after a change that no event told), and that a
reply it waits for is under way (`ReplyUnderWay`).

`host_startup` shows that the catalog holds exactly what the first file of each
identifier means (`CatalogIsTrusted`), that a snapshot holds the users a whole
answer of the provider calls for, in order and within the limit, with avatars that
are served (`SnapshotIsTrusted`), that a page stays in its theme
(`PagesStayInTheTheme`), that no request of the other role is let through and no
refusal loses an identifier it could have (`RequestsFitTheirHost`), and that
startup ends with no thread or child left over unless the open of an icon waits for ever
(`StartupEnds`). The two halves of that have an exception each: the greeter serves even
while its discovery thread waits, the locker does not.

## 5. Bounds

| Constant | Value | In the code | Why it is enough |
|---|---|---|---|
| `MaxPromptId` | 4 | `u64::MAX` | exhaustion is reached, after transactions with several prompts |
| `ChannelCapacity` | 2 | 8 | the channel fills and blocks the reader; a terminal frame can wait behind others |
| `MaxFrames` | 6 | 128 | Ready, Begin, a prompt, its answer, and further frames: the limit falls between a prompt and its answer, and on a message |
| `Users`, `MaxMessages` (`GreetdClient`) | 2, 3 | any, none | a later login for another user; a message, a prompt and another message in one transaction |
| `MaxPageEpoch` (`Greeter`) | 3 | `u64::MAX` | two replaced pages leave a stale request and a stale reply at once; exhaustion is reached |
| `CommandCapacity`, `OutputCapacity` (`Greeter`) | 3, 2 | 8, 8 | both queues fill, also together; the join blocks |
| `CommandCapacity`, `OutputCapacity` (`FrontendMirror`) | 2, 2 | 16, 8 | a broadcast drops a view that awaits a reply |
| `MaxPageEpoch`, `MaxSequence` (`FrontendMirror`) | 2, 3 | `u64::MAX`, 2^53 - 1 | a reload with outputs under way; exhaustion ends the thread as in the code; three events pass a bootstrap at every point |
| `MaxUsers`, `MaxSessions`, `MaxEntries` | 2, 1, 2 | 128, 128, 4096 | each limit is met and exceeded |
| `MCDirectories`, `Stems` | 3, 2 | the configured paths | an identifier comes twice in one kind, and its stem in the other kind |
| `MC...` sets | each good case and each way out of it | files, services, pages | every branch the code distinguishes is taken |
| `Views` | 2 pages (1 for liveness and the refuted statements) | one per monitor | a page's load, failure or broadcast meets a request of another; proved for any set |
| `CommandCapacity` | 2 (3 for liveness) | 16 | every `try_send` is seen with a full queue; a full queue is the interesting case and longer ones only reach it later; proved for any capacity |
| `NativeCapacity` | 4 | 8 | the least the proof needs: at most three events wait while the controller thread serves |

`Views` also bounds how many pages a run opens, as a rebuilt page has a new
identifier. `grants` and `child.begins` need no bound: they stay within one
(`UnlockOnce`, `OneTransactionPerProcess`). No other counter is unbounded.
`MayLeaveHelper` is TRUE in `pam_backend`, FALSE in `pam_retry` and `pam_join`, whose counterexamples need no helper.
`MayPanic` is TRUE in `locker` and `locker_live`, FALSE where a counterexample
should not depend on a panic.

Deadlock is not checked: the locker's process really ends, and the join of the reader
(`PamBackend!JoinBlocked`) and that of the greeter's controller thread
(`Greeter!JoinBlocked`) are real deadlocks that `CallReturns` and `ShutdownCompletes`
name instead.

## 6. Fairness

- `PamBackend`: weak fairness of the controller thread's steps and of the reader
  thread. Both are OS threads. The first waits for a frame and for the exit of the worker
  with a timeout each, and for the end of the reader without one (`backend.rs:423,
  485-487`). That join ends when the reader does, which needs room in the channel and the
  end of the pipe: `CallReturns` names the first as `JoinBlocked` and assumes the second
  (`[]<>~PipeKeptOpen`). The worker, the PAM stack and what it starts owe nothing: they
  may hang for ever.
- `Locker`: weak fairness of the controller thread (`WorkerStep`): a backend call is
  one step. `CallReturns` justifies that but for its two exceptions, so the liveness of
  the locker is that of calls which return; of the
  main thread's polling (`HostLoop`), a GLib timer on a thread that only uses
  `try_send`; and of `CompositorUnlocks`: a compositor answers `unlock()`. Pages,
  monitors, logind, revocation and panics owe nothing.
- `GreetdClient`: weak fairness of `drive()`'s steps, of the draining of events and of
  `GreetdHandles`. The last is an assumption on greetd: the client has no timeout
  (`TODO.md:755` lists it), so `CallReturns` says that the client itself does not
  loop. `MaxMessages` bounds a PAM conversation; one that never ends would keep the
  call going.
- `Greeter`: weak fairness of both threads; a call of the backend is one step, by
  `CallReturns`. Page, window and renderer owe nothing.
- `HostStartup`: weak fairness of every thread; a wait of one ends by its time limit,
  with two exceptions. A child that was killed ends. D-Bus calls have a method timeout,
  so each is one step. For the locker only, `ReaderEnds`: the join of its reader has no
  limit and relies on the end of `getent`'s output (listed as a hazard). The open of an
  icon that is a FIFO has no limit and no fairness: each half of `StartupEnds` says that
  startup ends if no such open waits for ever. The other opens (configuration, theme,
  desktop files, `login.defs`) are of what the administrator installed, and they and the
  connection to the bus are one step each, which is an assumption.
- `FrontendMirror` has no fairness: it is checked for safety only.

## 7. Proofs

`LockerProofs` and `LockerHostProofs` prove all nine invariants of run `locker`
as `Spec => []...`, for every `Views`, every `CommandCapacity \in Nat \ {0}`,
every `NativeCapacity >= 4` (the code has 8) and either `MayPanic`.

1. `TypeCorrect`: `TypeOK` is inductive; it is split into the main thread's
   variables, the queues and the controller's, each preserved on its own.
2. `ControllerCorrect`: `ControllerInv`, the controller thread's own invariant.
   `LockedNeverAuthenticated` alone is not inductive: whether a request grants
   depends on the *public* state (the code compares it before and after), so
   the invariant ties the public state to the backend's (`ServingInv`), says that
   nothing is served before the lock is recorded (`NothingBeforeLocked`), and that
   a consumed authorization has left `Locked` for good (`GrantedAtMostOnce`).
   `LockedMeansUnauthenticated`, `PublicStateCorrect` and
   `BoundariesEndTransactions` follow.
3. `HostCorrect`: `HostInv`. The two threads act on messages sent earlier, so
   the invariant says what a queued command or event still means when it is
   handled: `BacklogInv` lists which events can wait in each lock state (at most
   three, hence capacity four), `AcquiredInv`, `UnlockInv`, `ReleasedInv` and
   `FailureInv` give each kind its meaning, and `AuthorizationInv` with `Preceded`
   says in which order they wait: an `Unlock` never overtakes its `LockAcquired`,
   and a `Released` that is not the compositor's answer has an `Unlock` in front of
   it, which ends the process first. That order is why a revoked lock cannot be
   taken for success. `UnlockedOnce`, `NativeSendIsNonblocking`,
   `ReadinessIsTrue`, `RevocationIsNotSuccess` and
   `ExitsWhileLockedAreEarlyFailures` follow.

`GreetdClientProofs` proves the four invariants of run `greetd_client`, and the type
invariant, for any non-empty `Users` and any limits `MaxMessages` and `MaxPromptId`.
None of the four is inductive: whether a `Success` authenticates depends on what
the client believes it is exchanging and on what greetd did with the request
before. `ClientInv` closes that gap in three parts: `WireInv` and `ExchangeInv` say,
for each operation of `drive()` and each frame on the wire, which call is running,
in which state the conversation is and what greetd's slot holds (`Holds`);
`StateInv` says the same for a client at rest; `RestInv` says what the history
variable `rest` remembers of a failed call. `ClientCorrect` is that it is
inductive, with one step per action; the properties follow from it in a few lines.

`GreeterProofs` proves `TypeOK`, `AuthenticatedMeansStarted` and
`PublicStateTracksBackend` for any `MaxPageEpoch` and any positive capacities. The
argument rests on the contract alone: a few lemmas say in which states each call of
a `LoginBackend` can leave it, and `ExecuteStates` sorts what any request can do into
three cases: nothing, a login advances, a transaction ends; `UndrainableStates` adds the
request whose exchange is abandoned. `ControllerInv` adds to the
two properties that a serving thread holds no fatal output, and that the public state
is right from the start of the thread on; each case keeps it.

`TransactionOwnedByPage`, `RepliesAreCorrelated` and `ShutdownReleasesGreetd` need what
waits in the queues. `ReleaseInv` relates greetd's session to the backend: it is open
only in a transaction or after a failure, and a thread on its way out has given the
transaction up. `ReplyInv` says that the request of a page, or its reply, is in one
place at most (command queue, outbox or output queue), only while the page waits for
it, and that nothing in flight is of a page that was not loaded yet. `OwnerInv` is about
the order of the command queue: between two requests of different pages, before a
request of another page than the owner of an open prompt, and after the last request
of a page that was replaced, there is a `CancelForPage`. Each of the three is inductive
with `TypeOK` (`OwnerInv` with `ReleaseInv` as well).

`PamBackendProofs` proves the six invariants of run `pam_backend` for any
`ChannelCapacity >= 1`, any `MaxFrames >= 2`, any `MaxPromptId` and either
`MayLeaveHelper`. `PamInv` has one part
for each thing the three actors must agree on: `CallInv` (where a call is, and the state
of the conversation meanwhile), `ChildInv` (the life of one process, and that nothing
but success after both stages can be reported as success), `TurnInv` (between a prompt
and its answer the turn is in one place: in a pipe towards the parent, in the parent's
hands, or in the pipe back), `PipeInv` (a verdict in a pipe is the worker's own and its
last frame), `BudgetInv` (frames the parent has counted and those under way are fewer
than the worker has counted, with one exception for the end of the stream) and
`EventInv`. The worker may crash or be killed in between, so each part speaks of an
exited process too.

Both refinements are proved in full, as `Spec => ImplementsContract`
(`PamImplementsContract`, `GreetdImplementsContract`): the initial state is one of the
contract, and each step is either a stutter or the return of one call with one of the
outcomes the contract lists. For greetd this needs `CallInv`, which says in which state
of the contract the call in progress was made, and so which outcomes are open to it.
`AuthConversationProofs` holds what both share: what each method makes of a conversation.

`FrontendMirrorProofs` proves the three invariants of run `frontend_mirror`, and `TypeOK`,
for any set of views, any capacities, and any `MaxPageEpoch` and `MaxSequence`. What a
page shows and what the controller has published are far apart: outputs wait in the
view's queue, a snapshot may be older than the events behind it, a reload may lie in
between. `StreamInv` relates them through a sequence of images, one before each waiting
output and one after the last: each output takes the page from an image to the next, the
page shows the first, and the last is the controller's public state. The controller adds
at the end (a dropped view may get a last batch and its notice), the page takes at the
front. `FlightInv` says that a page finds in its queue
the answers it expects. A batch is received by a fold; no batch has more than three
events, so the fold is unfolded three times and no induction is needed.

`HostStartupProofs` proves the four invariants of run `host_startup`.

- `PagesAreTheThemes` and `RequestsAreTheHosts` hold for every uri, file, theme directory
  and message of the forms in `MessageForms`: the first follows from the theme being
  embedded or opened (`ThemeInv`), the second from the decoder alone.
- `CatalogIsOfFirstFiles` (`CatalogInv`: what was met is what is remembered) and
  `SnapshotIsOfExpectedUsers` (`SnapshotInv`) hold for every number of directories and
  every interleaving of the main thread, the controller, the discovery thread, `getent`
  and its reader. `SnapshotInv` has four parts: `MainInv`, nothing the controller is made
  of changes once it runs; `LookupInv`, output that is less than whole never ends in a
  result; `UsersInv`, an answer counts only while it is waited for, and is what was to be
  published; `OutputsInv`, the avatars are handed over before any snapshot that names
  them.
- These two have a hypothesis on the constants: that a single file is read as it is meant,
  and that a single list is published as expected. Both are results of recursion over
  data (`ParseExec` folds over characters, `BuildPublicUsers` sorts and folds), which TLAPS
  cannot do here. TLC evaluates them (`MCData`) for all files and lists of the run, so the
  hypotheses are met there; the proofs carry them to every order of events.

Only model-checked: all liveness (`CallReturns` of both clients,
`AuthorizedUnlockCompletes`, `RevokedLockEndsTheProcess`, `StartedSessionEndsHost`,
`ShutdownCompletes`, `StartupEnds`), which is out of this prover's reach, as is anything
about ENABLED; and the two hypotheses above. The runs that expect a violation refute what
they state and have nothing to prove.

## 8. Where code and documents disagree

Each is a run with expected violation, and an entry of "findings".

- `pam_retry` (`backend.rs:238`): a worker that reported its verdict but does not exit
  in time, or exits with failure, leaves `Disconnected`, from which no begin is
  accepted; the design promises a retry with a rebuilt worker.
- `pam_join` (`backend.rs:486`): a worker that wakes up as its step times out and
  sends more frames than the channel holds blocks the reader, which `terminate`
  then joins while the receiving end still exists.
- `locker_retry` (`controller_worker.rs:394`): a failed begin after resume ends
  the controller thread while the session is locked, and no retry can reach it.
- `locker_exit` (`gtk_host.rs:205`): a lock failure reported before `locked` is
  answered after it, and the host exits under a held lock.
- `mirror_cancel` (`controller_worker.rs:361`): the load of one monitor's page cancels
  the transaction all pages share and publishes nothing, while the design asks for
  `state.changed` and `auth.cancelled` whenever another page is alive.

Seen while modelling, without a run of their own:

- `terminate` kills the worker and then joins the reader without a limit
  (`fomalhaut-pam/src/backend.rs:485-487`). A process that the PAM stack started and that
  keeps the worker's output open keeps a cancelled or timed-out call waiting, and with it
  the controller thread of a locked session; `DESIGN.md:224-230` has the one-shot worker
  limit the lifetime of PAM modules and transaction. It is the hypothesis of `CallReturns`.
- `read_avatar` opens an icon before it looks at its type (`fomalhaut-user/src/lib.rs:454`),
  so a FIFO nobody writes to keeps the locker's controller thread from serving
  (`fomalhaut-lock/src/controller_worker.rs:311`) while the session gets locked; by `lib.rs:115` and
  `DESIGN.md:787-791` any failure with the icon is cosmetic. It is the hypothesis of
  `StartupEnds`.
- The greeter's shutdown can block (`Greeter!JoinBlocked`, `controller_worker.rs:106`).
- A power request that fails after it cancelled the transaction is followed by
  `state.changed` but not by `auth.cancelled` (`controller.rs:1010-1024`); the store
  drops its prompt on the first, so `MirrorConverges` holds.
- A login whose `start_session` lost the connection after greetd acted shows
  `Failed` with a session that was started.
- `docs/DESIGN.md:991` limits a single JSON message to 128 KiB; replies are not
  measured (`bridge.rs:20-22`), only requests are.
- An `LC_ALL` of spaces only is taken for a locale by the code and not by the helper
  its tests use.

## 9. What is not modelled

- Encoding of replies and events into JSON and script text, and the secret buffers'
  wiping: they decide nothing the properties tell apart.
- The locale and its fall-back, the value of a valid display scale, fonts and zoom,
  GTK widgets, the `sd_notify` datagram.
- The greeter's selection of users and sessions in the Nocturne store, its
  animations and texts; listeners a theme registers with the SDK.
- Packaging: PAM files, units and scripts have no state of their own.
- A full command queue at the `locked` signal, after which the controller never
  learns of the lock, is in `Locker` (`CompositorLocks`), but the eventual record of
  the lock is not a property of it: the code does not ensure it. Likewise both
  sleep commands may be dropped.
- A monitor of the locker whose first surface fails has no retry of its own; the
  model stops at the page that is missing.
- A process the PAM stack leaves behind holds the pipes but is taken not to write frames
  into them or to read from them.
- Left out of the modelled parts: serialization errors of events, the wait for
  Ready inside the spawn of a worker (part of spawning), and the panics of threads
  other than the controller thread.
