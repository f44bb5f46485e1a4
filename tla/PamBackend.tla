----------------------------- MODULE PamBackend -----------------------------
(***************************************************************************)
(* PamReauthBackend (crates/fomalhaut-pam/src/backend.rs) on the locker's  *)
(* controller thread, the one-shot PAM worker process it drives            *)
(* (worker.rs), and the reader thread that forwards the worker's stdout    *)
(* into a bounded channel.                                                 *)
(*                                                                         *)
(*   controller thread --stdin--> worker process --stdout--> reader thread *)
(*          ^------------------- messages (bounded) ---------------'       *)
(*                                                                         *)
(* A call blocks its thread until it returns; host.pc says where it is.    *)
(* The PAM stack is external: inside a PAM call it may prompt, send        *)
(* messages, return any code, hang or crash.  It may also start a helper,  *)
(* which inherits the worker's stdin and stdout (worker.rs sets nothing on *)
(* them) and can outlive the worker: the reader thread sees the end of the *)
(* output only when nobody holds its other end.  Time is abstract: a       *)
(* receive may time out whenever the channel is empty and an exit wait     *)
(* whenever the process still runs; a join has no limit.                   *)
(***************************************************************************)
EXTENDS AuthConversation

CONSTANTS ChannelCapacity,   \* WORKER_CHANNEL_CAPACITY
          MaxFrames,         \* MAX_TRANSACTION_FRAMES, on both sides
          MayLeaveHelper     \* the PAM stack starts processes that outlive it

ASSUME ChannelCapacityAssumption == ChannelCapacity \in Nat \ {0}
ASSUME MaxFramesAssumption == MaxFrames \in Nat \ {0, 1}
ASSUME MayLeaveHelperAssumption == MayLeaveHelper \in BOOLEAN

VARIABLES conversation,      \* the AuthConversation
          worker,            \* the Option<WorkerTransport> is Some
          worker_prompt,     \* the worker's identifier of the open prompt, or 0
          received_frames,
          host,              \* where the call in progress is
          child,             \* the worker process spawned last
          stdin, stdout,     \* its pipes
          reading,           \* the reader thread still runs
          messages,          \* its bounded channel to the controller thread
          rest               \* history: the call that returned last, its result

childVars == <<child, stdin, stdout, reading, messages>>
vars == <<conversation, worker, worker_prompt, received_frames, host, childVars, rest>>

-----------------------------------------------------------------------------
(* Messages and processes. *)

Message(kind, prompt) == [kind |-> kind, prompt |-> prompt]
Note(kind)            == Message(kind, NoPrompt)

Verdicts      == {"Authenticated", "Rejected", "Fatal"}
ParentKinds   == {"Begin", "Answer"}
WorkerKinds   == {"Prompt", "Message", "Eof"} \cup Verdicts   \* Eof: a read error
Terminal(m)   == m.kind \in Verdicts \cup {"Eof"}
PamStages     == {"authenticate", "acct_mgmt"}

\* a worker whose spawn returned: Prepare was sent and Ready was consumed
FreshChild == [phase |-> "ready", stage |-> "authenticate", passed |-> {},
               begins |-> 0, next_prompt |-> 1, frames |-> 1, failed |-> FALSE,
               verdict |-> "Fatal", status |-> "running", helper |-> FALSE]

Alive(c) == c.status = "running"

\* some process still holds the worker's ends of the pipes
PipesHeld(c) == Alive(c) \/ c.helper

KilledNot(c) == c
Killed(c) ==
  IF Alive(c) THEN [c EXCEPT !.phase = "exited", !.status = "failure"] ELSE c

HostAt(pc, call, after) == [pc |-> pc, call |-> call, after |-> after]
Driving(call)           == HostAt("driving", call, "none")

-----------------------------------------------------------------------------
(* How a call of the controller thread ends. *)

Return(call, c, result) ==
  /\ conversation' = c
  /\ host' = HostAt("returned", call, "none")
  /\ rest' = [op |-> call, state |-> c.state, result |-> result]

\* the method's own guard failed
Refuse(call) ==
  /\ Return(call, conversation, "Err")
  /\ UNCHANGED <<worker, worker_prompt, received_frames, childVars>>

\* terminate(): close stdin, kill and reap the process, then join the reader;
\* the receiving end of the channel lives until the join is over
Terminate(call, after) ==
  /\ worker' = FALSE
  /\ worker_prompt' = NoPrompt
  /\ child' = Killed(child)
  /\ stdin' = <<>>
  /\ host' = HostAt("terminating", call, after)
  /\ UNCHANGED <<stdout, reading, rest>>

AfterTerminateFailIdle(after, c) ==
  IF after = "disconnect" THEN Disconnect(c) ELSE FinishCancel(c)
AfterTerminate(after, c) ==
  CASE after = "fail"       -> Fail(c)
    [] after = "cancelled"  -> FinishCancel(c)
    [] after = "disconnect" -> Disconnect(c)

TerminateReturns ==
  /\ host.pc = "terminating"
  /\ ~reading
  /\ Return(host.call, AfterTerminate(host.after, conversation),
            IF host.after = "cancelled" THEN "Ok" ELSE "Err")
  /\ UNCHANGED <<worker, worker_prompt, received_frames, childVars>>

-----------------------------------------------------------------------------
(* begin_reauth, respond and cancel.  The controller serialises the calls  *)
(* and drains the conversation's events after each of them.                *)

StartTransaction ==
  /\ conversation' = Begin(conversation)
  /\ received_frames' = 0

\* writing Begin to a prepared worker that died fails like any other I/O
BeginWithWorker ==
  /\ worker
  /\ StartTransaction
  /\ \/ /\ Alive(child)
        /\ stdin' = Append(stdin, Note("Begin"))
        /\ worker_prompt' = NoPrompt
        /\ host' = Driving("begin_reauth")
        /\ UNCHANGED <<worker, child, stdout, reading, messages, rest>>
     \/ /\ ~Alive(child)
        /\ Terminate("begin_reauth", "fail")
        /\ UNCHANGED messages

BeginWithNewWorker ==
  /\ ~worker
  /\ StartTransaction
  /\ worker' = TRUE
  /\ worker_prompt' = NoPrompt
  /\ child' = FreshChild
  /\ stdin' = <<Note("Begin")>>
  /\ stdout' = <<>>
  /\ messages' = <<>>
  /\ reading' = TRUE
  /\ host' = Driving("begin_reauth")
  /\ UNCHANGED rest

BeginWithoutWorker ==
  /\ ~worker
  /\ Return("begin_reauth", Fail(Begin(conversation)), "Err")
  /\ worker_prompt' = NoPrompt
  /\ received_frames' = 0
  /\ UNCHANGED <<worker, childVars>>

BeginReauth ==
  /\ host.pc = "idle"
  /\ \/ /\ CanBegin(conversation)
        /\ BeginWithWorker \/ BeginWithNewWorker \/ BeginWithoutWorker
     \/ /\ ~CanBegin(conversation)
        /\ Refuse("begin_reauth")

\* the identifier the worker knows its prompt by, not the one the page saw
AnsweredPromptOfPage == conversation.active_prompt
AnsweredPrompt       == worker_prompt

Respond ==
  /\ host.pc = "idle"
  /\ \E p \in 1 .. MaxPromptId :
       \/ /\ CanRespond(conversation, p)
          /\ conversation' = BeginResponse(conversation)
          /\ UNCHANGED received_frames
          /\ \/ /\ PipesHeld(child)
                /\ stdin' = Append(stdin, Message("Answer", AnsweredPrompt))
                /\ worker_prompt' = NoPrompt
                /\ host' = Driving("respond")
                /\ UNCHANGED <<worker, child, stdout, reading, messages, rest>>
             \/ /\ ~Alive(child)
                /\ Terminate("respond", "fail")
                /\ UNCHANGED messages
       \/ /\ ~CanRespond(conversation, p)
          /\ Refuse("respond")

CancelKeepingWorker ==
  /\ host.pc = "idle"
  /\ NeedsCancel(conversation)
  /\ Return("cancel", FinishCancel(BeginCancel(conversation)), "Ok")
  /\ worker_prompt' = NoPrompt
  /\ UNCHANGED <<worker, received_frames, childVars>>
Cancel ==
  /\ host.pc = "idle"
  /\ \/ /\ NeedsCancel(conversation)
        /\ worker
        /\ conversation' = BeginCancel(conversation)
        /\ Terminate("cancel", "cancelled")
        /\ UNCHANGED <<received_frames, messages>>
     \/ /\ NeedsCancel(conversation)
        /\ ~worker
        /\ Return("cancel", FinishCancel(BeginCancel(conversation)), "Ok")
        /\ worker_prompt' = NoPrompt
        /\ UNCHANGED <<worker, received_frames, childVars>>
     \/ /\ ~NeedsCancel(conversation)
        /\ Refuse("cancel")

\* drain_core_events, the last step of every controller call
Drain ==
  /\ host.pc = "returned"
  /\ conversation' = DrainEvents(conversation)
  /\ host' = HostAt("idle", host.call, "none")
  /\ UNCHANGED <<worker, worker_prompt, received_frames, childVars, rest>>

-----------------------------------------------------------------------------
(* drive_worker: one frame per turn of its loop. *)

Drives == host.pc = "driving" /\ received_frames' = received_frames + 1

FailsDriving ==
  /\ Terminate(host.call, "fail")
  /\ UNCHANGED conversation

WithinFrameLimit == received_frames + 1 <= MaxFrames

\* WORKER_STEP_TIMEOUT, the reader is gone and the channel is empty, or this side's
\* own frame limit, which is checked before the channel is looked at
ReceiveNothing ==
  /\ Drives
  /\ WithinFrameLimit => messages = <<>>
  /\ FailsDriving
  /\ UNCHANGED messages

Takes(kinds) ==
  /\ Drives
  /\ WithinFrameLimit
  /\ messages # <<>>
  /\ Head(messages).kind \in kinds
  /\ messages' = Tail(messages)

\* a broken pipe or frame, and the worker's own Fatal
ReceiveFailure == Takes({"Eof", "Fatal"}) /\ FailsDriving

ReceivePrompt ==
  /\ Takes({"Prompt"})
  /\ \/ /\ worker_prompt = NoPrompt
        /\ CanEmitPrompt(conversation)
        /\ worker_prompt' = Head(messages).prompt
        /\ Return(host.call, EmitPrompt(conversation), "Ok")
        /\ UNCHANGED <<worker, child, stdin, stdout, reading>>
     \/ /\ worker_prompt # NoPrompt \/ ~CanEmitPrompt(conversation)
        /\ FailsDriving

ReceiveMessage ==
  /\ Takes({"Message"})
  /\ conversation' = EmitMessage(conversation)
  /\ UNCHANGED <<worker, worker_prompt, host, child, stdin, stdout, reading, rest>>

\* finish_worker comes first: the verdict counts once the process exited cleanly
ReceiveVerdictEagerly ==
  /\ Takes({"Authenticated", "Rejected"})
  /\ worker' = FALSE
  /\ host' = HostAt("finishing", host.call, Head(messages).kind)
  /\ conversation' = IF Head(messages).kind = "Authenticated"
                     THEN Authenticate(conversation)
                     ELSE AuthenticationFailed(conversation)
  /\ UNCHANGED <<worker_prompt, child, stdin, stdout, reading, rest>>
ReceiveVerdict ==
  /\ Takes({"Authenticated", "Rejected"})
  /\ worker' = FALSE
  /\ host' = HostAt("finishing", host.call, Head(messages).kind)
  /\ UNCHANGED <<conversation, worker_prompt, child, stdin, stdout, reading, rest>>

\* wait_for_exit saw the process end; it joins the reader before it looks at the status
WorkerExited ==
  /\ host.pc = "finishing"
  /\ ~Alive(child)
  /\ ~reading
  /\ \/ /\ child.status = "success"
        /\ worker_prompt' = NoPrompt
        /\ Return(host.call,
                  IF host.after = "Authenticated" THEN Authenticate(conversation)
                                                  ELSE AuthenticationFailed(conversation),
                  "Ok")
     \/ /\ child.status = "failure"
        /\ Return(host.call, Disconnect(conversation), "Err")
        /\ UNCHANGED worker_prompt
  /\ UNCHANGED <<worker, received_frames, childVars>>

\* WORKER_EXIT_TIMEOUT: the verdict is discarded and the worker killed
ExitTimeout ==
  /\ host.pc = "finishing"
  /\ Alive(child)
  /\ Terminate(host.call, "disconnect")
  /\ UNCHANGED <<conversation, received_frames, messages>>

-----------------------------------------------------------------------------
(* The worker process. *)

ChildStep(c) ==
  /\ child' = c
  /\ UNCHANGED <<conversation, worker, worker_prompt, received_frames, host, reading,
                 messages, rest>>

Counted(c, n)         == [c EXCEPT !.frames = @ + n]
CountedAnswers(c, n)  == IF n = 2 THEN [c EXCEPT !.frames = @ + 1] ELSE c
CountFrames(c, n)     == Counted(c, n)

Conclude(c, verdict) ==
  [c EXCEPT !.phase = "report", !.verdict = IF c.failed THEN "Fatal" ELSE verdict]

WaitForBegin ==
  /\ child.phase = "ready"
  /\ stdin # <<>>
  /\ stdin' = Tail(stdin)
  /\ ChildStep(LET c == CountFrames([child EXCEPT !.begins = @ + 1], 1)
               IN IF Head(stdin).kind = "Begin" /\ c.frames <= MaxFrames
                  THEN [c EXCEPT !.phase = "pam"] ELSE Conclude(c, "Fatal"))
  /\ UNCHANGED stdout

InPam == child.phase = "pam"

\* the prompt is counted when it is sent and its answer before it is read, so the
\* limit can fall between the two; a prompt too long for a frame fails as well
PamPrompts ==
  /\ InPam
  /\ ~child.failed
  /\ LET sent     == CountFrames([child EXCEPT !.next_prompt = @ + 1], 1)
         awaiting == CountFrames([child EXCEPT !.next_prompt = @ + 1], 2)
     IN \/ /\ ChildStep([sent EXCEPT !.failed = TRUE])
           /\ UNCHANGED <<stdin, stdout>>
        \/ /\ sent.frames <= MaxFrames
           /\ stdout' = Append(stdout, Message("Prompt", child.next_prompt))
           /\ ChildStep(IF awaiting.frames <= MaxFrames
                        THEN [awaiting EXCEPT !.phase = "answer"]
                        ELSE [awaiting EXCEPT !.failed = TRUE])
           /\ UNCHANGED stdin

\* an answer to another prompt, or one that is not a C string, poisons the transaction
ReadAnswer ==
  /\ child.phase = "answer"
  /\ stdin # <<>>
  /\ stdin' = Tail(stdin)
  /\ \E usable \in BOOLEAN :
       ChildStep([child EXCEPT !.phase = "pam",
                    !.failed = \/ Head(stdin) # Message("Answer", child.next_prompt - 1)
                               \/ ~usable])
  /\ UNCHANGED stdout

PamSendsMessage ==
  /\ InPam
  /\ ~child.failed
  /\ LET sent == CountFrames(child, 1)
     IN \/ /\ sent.frames <= MaxFrames
           /\ stdout' = Append(stdout, Note("Message"))
           /\ ChildStep(sent)
        \/ /\ ChildStep([sent EXCEPT !.failed = TRUE])
           /\ UNCHANGED stdout
  /\ UNCHANGED stdin

\* fork and exec keep fds 0 and 1; when the helper ends is its own affair
PamStartsHelper ==
  /\ MayLeaveHelper
  /\ InPam
  /\ ~child.helper
  /\ ChildStep([child EXCEPT !.helper = TRUE])
  /\ UNCHANGED <<stdin, stdout>>

HelperEnds ==
  /\ child.helper
  /\ ChildStep([child EXCEPT !.helper = FALSE])
  /\ UNCHANGED <<stdin, stdout>>

\* authenticate() then acct_mgmt(), each followed by the failed() check
PassedOnly(c) == Conclude([c EXCEPT !.passed = @ \cup {c.stage}], "Authenticated")
Passed(c) ==
  IF c.stage = "authenticate" /\ ~c.failed
  THEN [c EXCEPT !.stage = "acct_mgmt", !.passed = @ \cup {c.stage}]
  ELSE Conclude([c EXCEPT !.passed = @ \cup {c.stage}], "Authenticated")

PamReturns ==
  /\ InPam
  /\ \/ ChildStep(Passed(child))
     \/ \E verdict \in {"Rejected", "Fatal"} : ChildStep(Conclude(child, verdict))
  /\ UNCHANGED <<stdin, stdout>>

\* after the PAM context is dropped
ReportVerdict ==
  /\ child.phase = "report"
  /\ stdout' = Append(stdout, Note(child.verdict))
  /\ ChildStep([child EXCEPT !.phase = "closing"])
  /\ UNCHANGED stdin

ChildExits ==
  /\ child.phase = "closing"
  /\ ChildStep([child EXCEPT !.phase = "exited",
                  !.status = IF child.verdict = "Fatal" THEN "failure" ELSE "success"])
  /\ UNCHANGED <<stdin, stdout>>

ChildCrashes ==
  /\ Alive(child)
  /\ ChildStep(Killed(child))
  /\ UNCHANGED <<stdin, stdout>>

-----------------------------------------------------------------------------
(* forward_worker_messages: a blocking send per frame, and none after a    *)
(* terminal one or a failed read.                                          *)

Forwards(m) ==
  /\ reading
  /\ Len(messages) < ChannelCapacity
  /\ messages' = Append(messages, m)
  /\ reading' = ~Terminal(m)
  /\ UNCHANGED <<conversation, worker, worker_prompt, received_frames, host, child,
                 stdin, rest>>

ForwardMessage ==
  /\ stdout # <<>>
  /\ Forwards(Head(stdout))
  /\ stdout' = Tail(stdout)

\* the pipe ends when its last writer is gone, not when the worker is
ForwardEof ==
  /\ stdout = <<>>
  /\ ~PipesHeld(child)
  /\ Forwards(Note("Eof"))
  /\ UNCHANGED stdout

-----------------------------------------------------------------------------
\* connect() prewarms the first worker before the session lock is requested
Init ==
  /\ conversation = NewConversation
  /\ worker = TRUE
  /\ worker_prompt = NoPrompt
  /\ received_frames = 0
  /\ host = HostAt("idle", "connect", "none")
  /\ child = FreshChild
  /\ stdin = <<>>
  /\ stdout = <<>>
  /\ reading = TRUE
  /\ messages = <<>>
  /\ rest = [op |-> "connect", state |-> "Idle", result |-> "Ok"]

Calls == BeginReauth \/ Respond \/ Cancel

HostSteps ==
  \/ TerminateReturns \/ Drain
  \/ ReceiveNothing \/ ReceiveFailure \/ ReceivePrompt
  \/ ReceiveMessage \/ ReceiveVerdict \/ WorkerExited \/ ExitTimeout

ChildSteps ==
  \/ WaitForBegin \/ PamPrompts \/ ReadAnswer \/ PamSendsMessage \/ PamReturns
  \/ PamStartsHelper \/ HelperEnds \/ ReportVerdict \/ ChildExits \/ ChildCrashes

Reader == ForwardMessage \/ ForwardEof

Next == Calls \/ HostSteps \/ ChildSteps \/ Reader

Spec == Init /\ [][Next]_vars

\* the controller thread and the reader thread run; the PAM stack and a helper owe
\* nothing
FairSpec == Spec /\ WF_vars(HostSteps) /\ WF_vars(Reader)

-----------------------------------------------------------------------------
(* Properties. *)

HostPcs == {"idle", "driving", "finishing", "terminating", "returned"}
Afters  == {"none", "fail", "cancelled", "disconnect", "Authenticated", "Rejected"}
Ops     == {"connect", "begin_reauth", "respond", "cancel"}

ChildProcesses ==
  [phase : {"ready", "pam", "answer", "report", "closing", "exited"},
   stage : PamStages, passed : SUBSET PamStages, begins : Nat,
   next_prompt : Nat, frames : Nat, failed : BOOLEAN,
   verdict : Verdicts, status : {"running", "success", "failure"}, helper : BOOLEAN]

\* Every variable keeps its type; in particular no prompt identifier is issued past
\* the last one (conversation.rs:93, PromptIdExhausted).
TypeOK ==
  /\ conversation \in Conversations
  /\ worker \in BOOLEAN
  /\ worker_prompt \in Nat
  /\ received_frames \in Nat
  /\ host \in [pc : HostPcs, call : Ops, after : Afters]
  /\ child \in ChildProcesses
  /\ stdin \in Seq([kind : ParentKinds, prompt : Nat])
  /\ stdout \in Seq([kind : WorkerKinds, prompt : Nat])
  /\ reading \in BOOLEAN
  /\ messages \in Seq([kind : WorkerKinds, prompt : Nat])
  /\ rest \in [op : Ops, state : AuthStates, result : {"Ok", "Err"}]

\* The conversation is Authenticated only on the verdict of the process that served
\* this transaction, after both PAM stages accepted and the process exited cleanly
\* (backend.rs:200-205, worker.rs:81-95): no verdict of an earlier or killed worker.
AuthenticatedIsVerified ==
  conversation.state = "Authenticated" =>
    /\ child.passed = PamStages
    /\ child.begins = 1
    /\ ~child.failed
    /\ child.status = "success"

\* A process serves one transaction, and between calls no process that began one
\* survives unless its prompt is open: cancel, failure and verdict all end it.
OneTransactionPerProcess ==
  /\ child.begins <= 1
  /\ host.pc \in {"idle", "returned"} /\ conversation.state # "Waiting" =>
       child.phase \in {"ready", "exited"} /\ stdin = <<>>

\* An answer written to the worker names the prompt the worker waits for: the two
\* identifier spaces differ, and no answer meant for an earlier prompt is left over.
AnswersReachTheirPrompt ==
  \A i \in DOMAIN stdin :
    stdin[i].kind = "Answer" =>
      /\ stdin[i].prompt = child.next_prompt - 1
      /\ child.phase \in {"answer", "exited"} \/ child.failed

\* The parent never runs into its own frame limit with a genuine worker: the worker
\* counts Ready, Begin and the answers too, so its limit always bites first
\* (backend.rs:134-141, worker.rs:246-252).
HostWithinFrameBudget == received_frames <= MaxFrames

\* The events a call leaves for the controller tell its outcome: an open prompt is
\* the last event, and success, rejection or cancellation is announced exactly when
\* the conversation is in that state (the public prompt is maintained from them).
EventsTellTheOutcome ==
  host.pc = "returned" /\ conversation.events # <<>> =>
    LET last == conversation.events[Len(conversation.events)]
    IN /\ conversation.state = "Waiting" =>
            last = AuthEvent("Prompt", conversation.active_prompt)
       /\ last.kind = "Prompt"        => conversation.state = "Waiting"
       /\ last.kind = "Authenticated" => conversation.state = "Authenticated"
       /\ last.kind = "Cancelled"     => conversation.state = "Idle"
       /\ last.kind = "AuthenticationFailed" => conversation.state = "Failed"
       /\ \A i \in 1 .. Len(conversation.events) - 1 :
            conversation.events[i].kind = "Message"

\* terminate() joins the reader while it still owns the receiving end of the channel
\* nobody empties any more
JoinBlocked ==
  /\ host.pc = "terminating"
  /\ reading
  /\ Len(messages) = ChannelCapacity

\* terminate() joins a reader whose pipe is kept open by a helper of the dead worker
PipeKeptOpen ==
  /\ host.pc = "terminating"
  /\ reading
  /\ ~Alive(child)
  /\ child.helper

\* Unless a helper keeps the pipe of a dead worker open for ever, every call returns,
\* whatever the worker does: a hung PAM stack runs into the step or exit timeout, and the
\* join of the reader that follows ends.  The exception is a worker that wakes up as its
\* step times out and sends more than the channel holds; it never delays cancel, nor a
\* call that got its verdict.  Such a call no helper delays either: the reader left the
\* pipe with the verdict (backend.rs:405-451).
CallReturns ==
  /\ []<>~PipeKeptOpen =>
       (host.pc # "idle" ~>
          \/ host.pc = "idle"
          \/ JoinBlocked /\ host.call # "cancel" /\ host.after = "fail")
  /\ host.pc = "finishing" ~> host.pc = "idle"

\* backend.rs:912-928 (timeout_fails_closed_and_terminates_the_transaction) and
\* DESIGN.md:227-229: a step that times out ends with the transaction failed, so a new
\* attempt can begin.
TimeoutEndsTheCall == host.pc = "terminating" ~> host.pc = "idle"

\* PamReauthBackend implements the contract the controllers are written against.
Contract == INSTANCE ReauthBackend
              WITH op <- rest.op, state <- rest.state, result <- rest.result
ImplementsContract == Contract!Spec

\* DESIGN.md:953-954 and 1855-1856: after the worker is lost the locker keeps a way to
\* retry, rebuilding the worker when needed.
RetryStaysPossible ==
  host.pc = "idle" =>
    conversation.state \in {"Waiting", "Authenticated"} \/ CanBegin(conversation)
=============================================================================
