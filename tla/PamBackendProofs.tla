-------------------------- MODULE PamBackendProofs --------------------------
(***************************************************************************)
(* Proofs about PamBackend for every channel capacity, every frame limit   *)
(* and any number of prompts.  PamInv is the inductive strengthening of    *)
(* what the run checks: where a call can be in each state of the           *)
(* conversation, who holds the turn between a prompt and its answer, and   *)
(* what the pipes can hold of a worker that is asking, ending or dead.     *)
(***************************************************************************)
EXTENDS PamBackend, AuthConversationProofs, SequenceTheorems

-----------------------------------------------------------------------------
(* The inductive invariant. *)

RestStates == {"Disconnected", "Idle", "Waiting", "Authenticated", "Failed"}

AtRest == host.pc \in {"idle", "returned"}

\* Where a call is, what the conversation is in meanwhile, and whether the worker is kept.
CallInv ==
  /\ AtRest => /\ conversation.state \in RestStates
               /\ worker /\ conversation.state # "Waiting" => child.begins = 0
               /\ ~worker => ~Alive(child)
               /\ rest.state = conversation.state
  /\ host.pc \in {"driving", "finishing"} =>
       conversation.state = "Authenticating" /\ host.call \in {"begin_reauth", "respond"}
  /\ host.pc = "driving" => worker
  /\ host.pc = "finishing" => ~worker /\ host.after \in {"Authenticated", "Rejected"}
  /\ host.pc = "terminating" =>
       /\ ~worker /\ ~Alive(child)
       /\ \/ /\ host.after = "cancelled" /\ host.call = "cancel"
             /\ conversation.state = "Cancelling"
          \/ /\ host.after \in {"fail", "disconnect"}
             /\ host.call \in {"begin_reauth", "respond"}
             /\ conversation.state = "Authenticating"
  /\ ~AtRest => /\ host.call = "begin_reauth" => rest.state \in {"Idle", "Failed"}
                /\ host.call = "respond"      => rest.state = "Waiting"
                /\ host.call = "cancel"       => rest.state \in {"Waiting", "Authenticated"}

\* The life of one worker process.
ChildInv ==
  /\ child.phase = "exited" <=> ~Alive(child)
  /\ child.begins <= 1 /\ child.next_prompt # 0
  /\ child.phase = "ready" => child.begins = 0
  /\ child.phase \notin {"ready", "exited"} => child.begins = 1
  /\ child.begins = 0 => /\ child.phase \in {"ready", "exited"}
                         /\ child.verdict = "Fatal" /\ child.status # "success"
                         /\ child.frames = 1 /\ child.passed = {} /\ ~child.failed
                         /\ child.stage = "authenticate"
  /\ child.phase = "pam" =>
       child.passed = IF child.stage = "authenticate" THEN {} ELSE {"authenticate"}
  /\ child.phase = "answer" =>
       /\ ~child.failed
       /\ child.passed = IF child.stage = "authenticate" THEN {} ELSE {"authenticate"}
  /\ child.verdict # "Fatal" => /\ child.phase \in {"report", "closing", "exited"}
                                /\ child.begins = 1 /\ ~child.failed
  /\ child.verdict = "Authenticated" => child.passed = PamStages
  /\ child.status = "success" => child.verdict # "Fatal"

\* The worker has asked and may not go on by itself.
Asked ==
  /\ child.phase = "answer" \/ child.failed \/ child.status = "failure"
  /\ child.verdict = "Fatal"

InFlight(kinds) ==
  \/ \E i \in DOMAIN messages : messages[i].kind \in kinds
  \/ \E i \in DOMAIN stdout : stdout[i].kind \in kinds

\* A prompt in flight is the one the worker issued last, and there is no other.
FlightInv ==
  /\ \A i \in DOMAIN messages : messages[i].kind = "Prompt" =>
       /\ messages[i].prompt # NoPrompt /\ messages[i].prompt = child.next_prompt - 1
       /\ \A j \in DOMAIN messages : messages[j].kind = "Prompt" => i = j
       /\ \A j \in DOMAIN stdout   : stdout[j].kind # "Prompt"
  /\ \A i \in DOMAIN stdout : stdout[i].kind = "Prompt" =>
       /\ stdout[i].prompt # NoPrompt /\ stdout[i].prompt = child.next_prompt - 1
       /\ \A j \in DOMAIN stdout : stdout[j].kind = "Prompt" => i = j

\* Between a prompt and its answer the turn is in one place: in a pipe on its way to the
\* parent, in the parent's hands, or in the pipe on its way back.
TurnInv ==
  /\ FlightInv
  /\ InFlight({"Prompt"}) => Asked /\ worker_prompt = NoPrompt /\ stdin = <<>>
  /\ worker_prompt # NoPrompt <=> conversation.state = "Waiting"
  /\ conversation.state = "Waiting" => AtRest /\ worker /\ child.begins = 1
  /\ worker_prompt # NoPrompt =>
       Asked /\ worker_prompt = child.next_prompt - 1 /\ stdin = <<>>
  /\ \/ stdin = <<>>
     \/ /\ stdin = <<Note("Begin")>>
        /\ child.begins = 0 /\ host.pc = "driving"
     \/ /\ stdin = <<Message("Answer", child.next_prompt - 1)>>
        /\ child.begins = 1 /\ Asked /\ host.pc = "driving"

\* A verdict in a pipe is the worker's own and its last frame; the reader ends with it.
PipeInv ==
  /\ InFlight(Verdicts) => child.phase \in {"closing", "exited"}
  /\ \A i \in DOMAIN messages :
       /\ messages[i].kind \in Verdicts => messages[i].kind = child.verdict
       /\ Terminal(messages[i]) => i = Len(messages) /\ ~reading
  /\ \A i \in DOMAIN stdout :
       /\ stdout[i].kind \in Verdicts => stdout[i].kind = child.verdict
       /\ Terminal(stdout[i]) => i = Len(stdout)
       /\ stdout[i].kind # "Eof"
  /\ ~reading => stdout = <<>> /\ child.phase \in {"closing", "exited"}
  /\ child.begins = 0 => /\ stdout = <<>>
                         /\ \A i \in DOMAIN messages : messages[i].kind = "Eof"
  /\ host.pc = "finishing" => host.after = child.verdict

Ended == ~reading \/ InFlight(Verdicts \cup {"Eof"})

\* The frames the parent has counted and those under way are fewer than the worker's.
Budget == received_frames + Len(messages) + Len(stdout) + 2
Slack  == IF Ended THEN 1 ELSE 0

BudgetInv ==
  /\ received_frames <= MaxFrames
  /\ host.pc = "driving" \/ conversation.state = "Waiting" =>
       /\ Budget <= MaxFrames + Slack
       /\ child.begins = 1 => Budget <= child.frames + Slack
       /\ child.begins = 0 => received_frames = 0

\* The events of a call under way are messages of the worker; a call ends with one more.
EventInv ==
  /\ host.pc = "idle" => conversation.events = <<>>
  /\ ~AtRest => \A i \in DOMAIN conversation.events : conversation.events[i].kind = "Message"
  /\ EventsTellTheOutcome

PamInv == /\ TypeOK /\ CallInv /\ ChildInv /\ TurnInv /\ PipeInv /\ BudgetInv /\ EventInv
          /\ AuthenticatedIsVerified


-----------------------------------------------------------------------------
(* The steps of the worker process. *)

\* A sequence with no element at all.
LEMMA NoElements == ASSUME NEW S, NEW s \in Seq(S), \A i \in DOMAIN s : FALSE PROVE s = <<>>
<1>1. DOMAIN s = 1 .. Len(s) /\ Len(s) \in Nat
  BY LenProperties
<1>2. Len(s) = 0
  BY <1>1
<1> QED BY <1>2, EmptySeq

\* The invariant holds once connect() has prewarmed the first worker.
LEMMA InitHolds == Init => PamInv
<1> SUFFICES ASSUME Init PROVE PamInv
  OBVIOUS
<1> USE DEF Init, NewConversation, NoPrompt, HostAt, FreshChild, Alive
<1>1. TypeOK
  BY MaxPromptIdAssumption DEF TypeOK, Conversations, AuthStates, ChildProcesses, PamStages,
     Verdicts, HostPcs, Ops, Afters
<1>2. CallInv
  BY DEF CallInv, AtRest, RestStates
<1>3. ChildInv
  BY DEF ChildInv
<1>4. TurnInv
  BY DEF TurnInv, FlightInv, InFlight
<1>5. PipeInv
  BY DEF PipeInv, InFlight, Terminal
<1>6. BudgetInv
  BY MaxFramesAssumption
            DEF BudgetInv, Budget, Slack
<1>7. EventInv
  BY DEF EventInv, EventsTellTheOutcome, AtRest
<1>8. AuthenticatedIsVerified
  BY DEF AuthenticatedIsVerified
<1> QED BY <1>1, <1>2, <1>3, <1>4, <1>5, <1>6, <1>7, <1>8 DEF PamInv

\* What a step of the process leaves alone; none is taken by one that exited.
LEMMA ChildFrame ==
  ASSUME PamInv, NEW c, ChildStep(c), Alive(child), c \in ChildProcesses,
         c.begins = child.begins \/ (c.begins = 1 /\ host.pc = "driving"),
         c.status = "running" => c.phase # "exited",
         stdin' \in Seq([kind : ParentKinds, prompt : Nat]),
         stdout' \in Seq([kind : WorkerKinds, prompt : Nat])
  PROVE  TypeOK' /\ CallInv' /\ EventInv' /\ AuthenticatedIsVerified'
<1>1. /\ child' = c
      /\ UNCHANGED <<conversation, worker, worker_prompt, received_frames, host, reading,
                     messages, rest>>
  BY DEF ChildStep
<1>2. TypeOK'
  BY <1>1 DEF PamInv, TypeOK
<1>3. CallInv'
  BY <1>1 DEF PamInv, CallInv, AtRest, Alive
<1>4. EventInv'
  BY <1>1 DEF PamInv, EventInv, EventsTellTheOutcome, AtRest
<1>5. conversation.state # "Authenticated"
  BY DEF PamInv, AuthenticatedIsVerified, Alive
<1> QED BY <1>1, <1>2, <1>3, <1>4, <1>5 DEF AuthenticatedIsVerified

\* Counting frames changes nothing else.
LEMMA CountingFrames ==
  ASSUME NEW c \in ChildProcesses, NEW n \in Nat
  PROVE  /\ CountFrames(c, n) \in ChildProcesses
         /\ CountFrames(c, n) = [c EXCEPT !.frames = c.frames + n]
         /\ CountFrames(c, n).frames = c.frames + n
         /\ CountFrames(c, n).phase = c.phase /\ CountFrames(c, n).stage = c.stage
         /\ CountFrames(c, n).passed = c.passed /\ CountFrames(c, n).begins = c.begins
         /\ CountFrames(c, n).next_prompt = c.next_prompt /\ CountFrames(c, n).failed = c.failed
         /\ CountFrames(c, n).verdict = c.verdict /\ CountFrames(c, n).status = c.status
<1>1. c.frames + n \in Nat
  BY DEF ChildProcesses
<1>2. CountFrames(c, n) = [c EXCEPT !.frames = c.frames + n]
  BY DEF CountFrames, Counted
<1> QED BY <1>1, <1>2 DEF ChildProcesses

\* Nor does a failure of the conversation.
LEMMA MarkingFailed ==
  ASSUME NEW c \in ChildProcesses, NEW f \in BOOLEAN
  PROVE  /\ [c EXCEPT !.failed = f] \in ChildProcesses
         /\ [c EXCEPT !.failed = f].failed = f
         /\ \A d : d = [c EXCEPT !.failed = f] =>
              /\ d.phase = c.phase /\ d.stage = c.stage /\ d.passed = c.passed
              /\ d.begins = c.begins /\ d.next_prompt = c.next_prompt /\ d.frames = c.frames
              /\ d.verdict = c.verdict /\ d.status = c.status
<1>1. [c EXCEPT !.failed = f] \in ChildProcesses
  BY DEF ChildProcesses
<1>2. [c EXCEPT !.failed = f].failed = f
  BY DEF ChildProcesses
<1>3. ASSUME NEW d, d = [c EXCEPT !.failed = f]
      PROVE  /\ d.phase = c.phase /\ d.stage = c.stage /\ d.passed = c.passed
             /\ d.begins = c.begins /\ d.next_prompt = c.next_prompt /\ d.frames = c.frames
             /\ d.verdict = c.verdict /\ d.status = c.status
  BY <1>3 DEF ChildProcesses
<1> QED BY <1>1, <1>2, <1>3

\* Begin, or the first frame of a parent that says something else.
LEMMA WaitForBeginKeeps == ASSUME PamInv, WaitForBegin PROVE PamInv'
<1> DEFINE b == [child EXCEPT !.begins = @ + 1]
           c == CountFrames(b, 1)
           d == IF Head(stdin).kind = "Begin" /\ c.frames <= MaxFrames
                THEN [c EXCEPT !.phase = "pam"] ELSE Conclude(c, "Fatal")
<1>1. /\ child \in ChildProcesses /\ child.phase = "ready" /\ Alive(child) /\ child.begins = 0
      /\ child.frames = 1 /\ child.passed = {} /\ ~child.failed /\ child.stage = "authenticate"
      /\ child.verdict = "Fatal"
  BY DEF PamInv, TypeOK, ChildInv, WaitForBegin
<1>2. /\ stdin = <<Note("Begin")>> /\ host.pc = "driving" /\ stdin' = <<>> /\ stdout' = stdout
  BY <1>1 DEF PamInv, TurnInv, FlightInv, WaitForBegin
<1>0. /\ b \in ChildProcesses /\ b.begins = 1 /\ b.frames = 1
      /\ b.stage = child.stage /\ b.passed = {} /\ ~b.failed /\ b.verdict = "Fatal"
      /\ b.status = "running" /\ b.next_prompt = child.next_prompt
  BY <1>1 DEF ChildProcesses, Alive
<1> HIDE DEF b
<1>3. /\ c \in ChildProcesses /\ c.begins = 1 /\ c.frames = 2
      /\ c.stage = child.stage /\ c.passed = {} /\ ~c.failed /\ c.verdict = "Fatal"
      /\ c.status = "running" /\ c.next_prompt = child.next_prompt
  BY <1>0, CountingFrames
<1> HIDE DEF c
<1>4. d = [c EXCEPT !.phase = "pam"]
  BY <1>2, <1>3, MaxFramesAssumption DEF Note, Message
<1>5. /\ d \in ChildProcesses /\ d.phase = "pam" /\ d.begins = 1 /\ d.frames = 2
      /\ d.stage = child.stage /\ d.passed = {} /\ ~d.failed /\ d.verdict = "Fatal"
      /\ d.status = "running" /\ d.next_prompt = child.next_prompt
  BY <1>3, <1>4 DEF ChildProcesses
<1>6. ChildStep(d)
  BY DEF WaitForBegin, b, c, d
<1> HIDE DEF d
<1>7. /\ stdin' \in Seq([kind : ParentKinds, prompt : Nat])
      /\ stdout' \in Seq([kind : WorkerKinds, prompt : Nat])
  BY <1>2 DEF PamInv, TypeOK
<1>8. TypeOK' /\ CallInv' /\ EventInv' /\ AuthenticatedIsVerified'
  BY <1>1, <1>2, <1>5, <1>6, <1>7, ChildFrame
<1>9. ChildInv'
  BY <1>1, <1>5, <1>6 DEF PamInv, ChildInv, ChildStep, Alive
<1>10. /\ stdout = <<>> /\ messages = <<>> /\ reading
       /\ worker_prompt = NoPrompt /\ conversation.state # "Waiting"
  <2>1. reading
    BY <1>1 DEF PamInv, PipeInv
  <2>2. \A i \in DOMAIN messages : FALSE
    BY <1>1, <2>1 DEF PamInv, PipeInv, Terminal
  <2>3. messages = <<>>
    BY <2>2, NoElements DEF PamInv, TypeOK
  <2> QED BY <1>1, <2>1, <2>3 DEF PamInv, PipeInv, TurnInv, FlightInv
<1>11. /\ stdout' = <<>> /\ messages' = <<>> /\ reading' /\ child' = d
       /\ UNCHANGED <<host, worker, worker_prompt, conversation, received_frames>>
  BY <1>2, <1>6, <1>10 DEF ChildStep
<1>12. TurnInv'
  BY <1>2, <1>10, <1>11 DEF PamInv, TurnInv, FlightInv, InFlight
<1>13. PipeInv'
  BY <1>2, <1>5, <1>11 DEF PamInv, PipeInv, InFlight
<1>14. BudgetInv'
  BY <1>1, <1>5, <1>10, <1>11, MaxFramesAssumption
     DEF PamInv, TypeOK, BudgetInv, Budget, Slack, Ended, InFlight
<1> QED BY <1>8, <1>9, <1>12, <1>13, <1>14 DEF PamInv

\* The worker's frames in flight after it wrote one more.
LEMMA FrameWritten ==
  ASSUME PamInv, NEW m \in [kind : WorkerKinds, prompt : Nat], stdout' = Append(stdout, m)
  PROVE  /\ stdout' \in Seq([kind : WorkerKinds, prompt : Nat])
         /\ Len(stdout) \in Nat /\ DOMAIN stdout = 1 .. Len(stdout)
         /\ Len(stdout') = Len(stdout) + 1 /\ DOMAIN stdout' = 1 .. Len(stdout) + 1
         /\ \A i \in 1 .. Len(stdout) : stdout'[i] = stdout[i]
         /\ stdout'[Len(stdout) + 1] = m
<1>1. stdout \in Seq([kind : WorkerKinds, prompt : Nat])
  BY DEF PamInv, TypeOK
<1> QED BY <1>1, AppendProperties, LenProperties

\* A step that writes nothing and counts no fewer frames stays within the budget.
LEMMA QuietBudget ==
  ASSUME PamInv, UNCHANGED <<received_frames, messages, stdout, reading, host, conversation>>,
         child'.begins = child.begins, child'.frames \in Nat, child'.frames >= child.frames
  PROVE  BudgetInv'
<1>1. Budget \in Nat /\ Budget' = Budget /\ Slack \in Nat /\ Slack' = Slack
  BY LenProperties DEF PamInv, TypeOK, Budget, Slack, Ended, InFlight
<1>2. child.frames \in Nat
  BY DEF PamInv, TypeOK, ChildProcesses
<1> QED BY <1>1, <1>2 DEF PamInv, BudgetInv

\* Nor does a step that writes and reads nothing pass the turn on.
LEMMA QuietTurn ==
  ASSUME PamInv, UNCHANGED <<messages, stdin, stdout, worker_prompt, conversation, host, worker>>,
         child'.begins = child.begins, child'.next_prompt = child.next_prompt, Asked => Asked'
  PROVE  TurnInv'
  BY DEF PamInv, TurnInv, FlightInv, InFlight, AtRest

\* A counted frame stays within the budget of both sides.
LEMMA WritingBudget ==
  ASSUME PamInv, UNCHANGED <<received_frames, messages, reading, host, conversation>>,
         ~Ended, \A i \in DOMAIN stdout' : ~Terminal(stdout'[i]),
         child.begins = 1, child'.begins = 1,
         Len(stdout) \in Nat, Len(stdout') = Len(stdout) + 1,
         child.frames + 1 <= MaxFrames,
         child'.frames \in Nat, child'.frames >= child.frames + 1
  PROVE  BudgetInv'
<1>1. ~Ended' /\ Slack = 0 /\ Slack' = 0
  BY DEF Ended, InFlight, Terminal, Slack
<1>2. Budget \in Nat /\ Budget' = Budget + 1 /\ child.frames \in Nat
  BY LenProperties DEF PamInv, TypeOK, Budget, ChildProcesses
<1>3. Budget <= child.frames => /\ Budget' <= MaxFrames + Slack'
                                /\ Budget' <= child'.frames + Slack'
  BY <1>1, <1>2, MaxFramesAssumption
<1> QED BY <1>1, <1>2, <1>3 DEF PamInv, BudgetInv

\* A prompt goes out, or the worker fails before or just after it.
LEMMA PamPromptsKeeps == ASSUME PamInv, PamPrompts PROVE PamInv'
<1> DEFINE b == [child EXCEPT !.next_prompt = @ + 1]
           sent == CountFrames(b, 1)
           awaiting == CountFrames(b, 2)
<1>1. /\ child \in ChildProcesses /\ child.phase = "pam" /\ Alive(child) /\ child.begins = 1
      /\ child.verdict = "Fatal" /\ ~child.failed
  BY DEF PamInv, TypeOK, ChildInv, PamPrompts, InPam
<1>2. /\ b \in ChildProcesses /\ b.next_prompt = child.next_prompt + 1
      /\ b.frames = child.frames /\ ~b.failed /\ b.phase = "pam" /\ b.stage = child.stage
      /\ b.passed = child.passed /\ b.begins = 1 /\ b.verdict = "Fatal" /\ b.status = "running"
  BY <1>1 DEF ChildProcesses, Alive
<1> HIDE DEF b
<1>3. \A c \in {sent, awaiting} :
        /\ c \in ChildProcesses /\ c.next_prompt = child.next_prompt + 1
        /\ ~c.failed /\ c.phase = "pam" /\ c.stage = child.stage /\ c.passed = child.passed
        /\ c.begins = 1 /\ c.verdict = "Fatal" /\ c.status = "running"
        /\ c.frames = child.frames + (IF c = sent THEN 1 ELSE 2)
  BY <1>2, CountingFrames
<1> HIDE DEF sent, awaiting
<1>0. /\ sent.frames = child.frames + 1 /\ awaiting.frames >= child.frames + 1
      /\ sent.frames \in Nat /\ awaiting.frames \in Nat
  BY <1>1, <1>3 DEF ChildProcesses
<1>4. ~Asked
  BY <1>1 DEF Asked, Alive
<1>5. /\ stdin = <<>> /\ ~InFlight({"Prompt"}) /\ worker_prompt = NoPrompt
  BY <1>1, <1>4 DEF PamInv, TurnInv, FlightInv
<1>6. /\ reading /\ ~InFlight(Verdicts)
      /\ \A i \in DOMAIN messages : ~Terminal(messages[i])
      /\ \A i \in DOMAIN stdout   : ~Terminal(stdout[i])
  BY <1>1 DEF PamInv, PipeInv, InFlight, Terminal
<1>7. PICK c \in ChildProcesses :
        /\ ChildStep(c)
        /\ c.next_prompt = child.next_prompt + 1 /\ c.begins = 1 /\ c.status = "running"
        /\ c.stage = child.stage /\ c.passed = child.passed /\ c.verdict = "Fatal"
        /\ \/ c.phase = "answer" /\ ~c.failed
           \/ c.phase = "pam" /\ c.failed
        /\ c.frames \in Nat /\ c.frames >= child.frames + 1
        /\ UNCHANGED stdin
        /\ \/ UNCHANGED stdout
           \/ /\ child.frames + 1 <= MaxFrames
              /\ stdout' = Append(stdout, Message("Prompt", child.next_prompt))
  <2>1. CASE ChildStep([sent EXCEPT !.failed = TRUE]) /\ UNCHANGED <<stdin, stdout>>
    <3> DEFINE d == [sent EXCEPT !.failed = TRUE]
    <3>0. d = [sent EXCEPT !.failed = TRUE]
      OBVIOUS
    <3> HIDE DEF d
    <3>1. /\ d \in ChildProcesses /\ d.next_prompt = child.next_prompt + 1
          /\ d.phase = "pam" /\ d.failed = TRUE
          /\ d.stage = child.stage /\ d.passed = child.passed /\ d.begins = 1
          /\ d.verdict = "Fatal" /\ d.status = "running"
          /\ d.frames = sent.frames
      <4>1. sent \in ChildProcesses
        BY <1>3
      <4>2. d \in ChildProcesses /\ d.failed = TRUE
        BY <3>0, <4>1, MarkingFailed
      <4>3. /\ d.phase = sent.phase /\ d.stage = sent.stage /\ d.passed = sent.passed
            /\ d.begins = sent.begins /\ d.next_prompt = sent.next_prompt
            /\ d.frames = sent.frames /\ d.verdict = sent.verdict /\ d.status = sent.status
        BY <3>0, <4>1, MarkingFailed
      <4> QED BY <1>3, <4>2, <4>3
    <3>2. ChildStep(d)
      BY <2>1, <3>0
    <3> QED BY <1>0, <2>1, <3>1, <3>2
  <2>2. CASE /\ sent.frames <= MaxFrames
             /\ stdout' = Append(stdout, Message("Prompt", child.next_prompt))
             /\ UNCHANGED stdin
             /\ awaiting.frames <= MaxFrames
             /\ ChildStep([awaiting EXCEPT !.phase = "answer"])
    <3> DEFINE d == [awaiting EXCEPT !.phase = "answer"]
    <3>1. /\ d \in ChildProcesses /\ d.next_prompt = child.next_prompt + 1
          /\ d.phase = "answer" /\ ~d.failed
          /\ d.stage = child.stage /\ d.passed = child.passed /\ d.begins = 1
          /\ d.verdict = "Fatal" /\ d.status = "running"
          /\ d.frames = awaiting.frames
      BY <1>1, <1>3 DEF ChildProcesses
    <3>2. ChildStep(d)
      BY <2>2
    <3> HIDE DEF d
    <3> QED BY <1>0, <2>2, <3>1, <3>2
  <2>3. CASE /\ sent.frames <= MaxFrames
             /\ stdout' = Append(stdout, Message("Prompt", child.next_prompt))
             /\ UNCHANGED stdin
             /\ ~(awaiting.frames <= MaxFrames)
             /\ ChildStep([awaiting EXCEPT !.failed = TRUE])
    <3> DEFINE d == [awaiting EXCEPT !.failed = TRUE]
    <3>0. d = [awaiting EXCEPT !.failed = TRUE]
      OBVIOUS
    <3> HIDE DEF d
    <3>1. /\ d \in ChildProcesses /\ d.next_prompt = child.next_prompt + 1
          /\ d.phase = "pam" /\ d.failed = TRUE
          /\ d.stage = child.stage /\ d.passed = child.passed /\ d.begins = 1
          /\ d.verdict = "Fatal" /\ d.status = "running"
          /\ d.frames = awaiting.frames
      <4>1. awaiting \in ChildProcesses
        BY <1>3
      <4>2. d \in ChildProcesses /\ d.failed = TRUE
        BY <3>0, <4>1, MarkingFailed
      <4>3. /\ d.phase = awaiting.phase /\ d.stage = awaiting.stage /\ d.passed = awaiting.passed
            /\ d.begins = awaiting.begins /\ d.next_prompt = awaiting.next_prompt
            /\ d.frames = awaiting.frames /\ d.verdict = awaiting.verdict /\ d.status = awaiting.status
        BY <3>0, <4>1, MarkingFailed
      <4> QED BY <1>3, <4>2, <4>3
    <3>2. ChildStep(d)
      BY <2>3, <3>0
    <3> QED BY <1>0, <2>3, <3>1, <3>2
  <2> QED BY <2>1, <2>2, <2>3 DEF PamPrompts, b, sent, awaiting
<1>8. child' = c /\ UNCHANGED <<conversation, worker, worker_prompt, received_frames, host,
                                reading, messages, rest>>
  BY <1>7 DEF ChildStep
<1>9. /\ stdout \in Seq([kind : WorkerKinds, prompt : Nat])
      /\ Message("Prompt", child.next_prompt) \in [kind : WorkerKinds, prompt : Nat]
      /\ stdin \in Seq([kind : ParentKinds, prompt : Nat])
  BY <1>1 DEF PamInv, TypeOK, ChildProcesses, WorkerKinds, Message
<1>10. stdout' \in Seq([kind : WorkerKinds, prompt : Nat])
  <2>1. Append(stdout, Message("Prompt", child.next_prompt))
          \in Seq([kind : WorkerKinds, prompt : Nat])
    BY <1>9, AppendProperties
  <2> QED BY <1>7, <1>9, <2>1
<1>11. TypeOK' /\ CallInv' /\ EventInv' /\ AuthenticatedIsVerified'
  BY <1>1, <1>7, <1>9, <1>10, ChildFrame
<1>12. ChildInv'
  BY <1>1, <1>7, <1>8 DEF PamInv, ChildInv, Alive, ChildProcesses
<1>13. Asked'
  BY <1>7, <1>8 DEF Asked
<1>14. /\ child.begins = 1 /\ host.pc # "finishing"
       /\ received_frames \in Nat /\ child.frames \in Nat /\ Len(messages) \in Nat
       /\ Len(stdout) \in Nat /\ DOMAIN stdout = 1 .. Len(stdout)
  BY <1>1, <1>9, LenProperties DEF PamInv, TypeOK, PipeInv, ChildProcesses, CallInv
<1>15. CASE UNCHANGED stdout
  <2>1. TurnInv'
    BY <1>1, <1>5, <1>7, <1>8, <1>13, <1>15 DEF PamInv, TurnInv, FlightInv, InFlight
  <2>2. PipeInv'
    BY <1>6, <1>7, <1>8, <1>14, <1>15 DEF PamInv, PipeInv, InFlight
  <2>3. BudgetInv'
    BY <1>7, <1>8, <1>14, <1>15 DEF PamInv, BudgetInv, Budget, Slack, Ended, InFlight
  <2> QED BY <1>11, <1>12, <2>1, <2>2, <2>3 DEF PamInv
<1>16. CASE /\ child.frames + 1 <= MaxFrames
            /\ stdout' = Append(stdout, Message("Prompt", child.next_prompt))
  <2>1. /\ Len(stdout') = Len(stdout) + 1 /\ DOMAIN stdout' = 1 .. Len(stdout) + 1
        /\ \A i \in 1 .. Len(stdout) : stdout'[i] = stdout[i]
        /\ stdout'[Len(stdout) + 1] = Message("Prompt", child.next_prompt)
    BY <1>9, <1>16, FrameWritten
  <2>2. child.next_prompt # NoPrompt /\ child.next_prompt = child'.next_prompt - 1
    BY <1>1, <1>7, <1>8 DEF PamInv, ChildInv, ChildProcesses, NoPrompt
  <2>3. TurnInv'
    <3>1. /\ \A i \in DOMAIN messages : messages[i].kind # "Prompt"
          /\ \A i \in DOMAIN stdout : stdout[i].kind # "Prompt"
      BY <1>5 DEF InFlight
    <3>2. \A i \in DOMAIN stdout' : stdout'[i].kind = "Prompt" =>
            i = Len(stdout) + 1 /\ stdout'[i].prompt = child.next_prompt
      BY <1>14, <2>1, <3>1 DEF Message
    <3>3. UNCHANGED <<messages, stdin, worker_prompt, conversation, host, worker>>
      BY <1>7, <1>8
    <3> QED BY <1>1, <1>5, <1>7, <1>8, <1>13, <2>2, <3>1, <3>2, <3>3
            DEF PamInv, TurnInv, FlightInv, InFlight, AtRest
  <2>4. PipeInv'
    BY <1>6, <1>7, <1>8, <1>14, <2>1
       DEF PamInv, PipeInv, InFlight, Terminal, Verdicts, Message
  <2>5. BudgetInv'
    <3>1. ~Ended /\ \A i \in DOMAIN stdout' : ~Terminal(stdout'[i])
      BY <1>6, <1>14, <2>1 DEF Ended, InFlight, Terminal, Verdicts, Message
    <3>2. child'.frames \in Nat /\ child'.frames >= child.frames + 1 /\ child'.begins = 1
      BY <1>7, <1>8
    <3>3. UNCHANGED <<received_frames, messages, reading, host, conversation>>
      BY <1>8
    <3> QED BY <1>14, <1>16, <2>1, <3>1, <3>2, <3>3, WritingBudget
  <2> QED BY <1>11, <1>12, <2>3, <2>4, <2>5 DEF PamInv
<1> QED BY <1>7, <1>15, <1>16

\* The answer arrives, or something else the worker takes for a failure.
LEMMA ReadAnswerKeeps == ASSUME PamInv, ReadAnswer PROVE PamInv'
<1>1. PICK usable \in BOOLEAN :
        ChildStep([child EXCEPT !.phase = "pam",
                     !.failed = \/ Head(stdin) # Message("Answer", child.next_prompt - 1)
                                \/ ~usable])
  BY DEF ReadAnswer
<1> DEFINE f == Head(stdin) # Message("Answer", child.next_prompt - 1) \/ ~usable
           c == [child EXCEPT !.phase = "pam", !.failed = f]
<1>2. /\ child \in ChildProcesses /\ child.phase = "answer" /\ Alive(child)
      /\ child.begins = 1 /\ child.verdict = "Fatal" /\ child.status = "running"
      /\ child.passed = IF child.stage = "authenticate" THEN {} ELSE {"authenticate"}
      /\ child.next_prompt # 0
  BY DEF PamInv, TypeOK, ChildInv, ReadAnswer, Alive
<1>3. f \in BOOLEAN /\ ChildStep(c)
  BY <1>1
<1> HIDE DEF f
<1>4. /\ c \in ChildProcesses /\ c.phase = "pam" /\ c.begins = 1 /\ c.verdict = "Fatal"
      /\ c.status = "running" /\ c.passed = child.passed /\ c.stage = child.stage
      /\ c.frames = child.frames /\ c.next_prompt = child.next_prompt
  BY <1>2, <1>3 DEF ChildProcesses
<1> HIDE DEF c
<1>5. /\ stdin # <<>> /\ stdin' = Tail(stdin) /\ stdout' = stdout
  BY DEF ReadAnswer
<1>6. /\ stdin' = <<>> /\ ~InFlight({"Prompt"}) /\ worker_prompt = NoPrompt
      /\ conversation.state # "Waiting"
  <2>1. stdin = <<Message("Answer", child.next_prompt - 1)>>
    BY <1>2, <1>5 DEF PamInv, TurnInv, FlightInv
  <2> QED BY <1>5, <2>1 DEF PamInv, TurnInv, FlightInv
<1>7. /\ child' = c
      /\ UNCHANGED <<conversation, worker, worker_prompt, received_frames, host, reading,
                     messages, rest, stdout>>
  BY <1>3, <1>5 DEF ChildStep
<1>8. stdin' \in Seq([kind : ParentKinds, prompt : Nat]) /\ stdout' \in Seq([kind : WorkerKinds, prompt : Nat])
  BY <1>6, <1>7 DEF PamInv, TypeOK
<1>9. TypeOK' /\ CallInv' /\ EventInv' /\ AuthenticatedIsVerified'
  BY <1>2, <1>3, <1>4, <1>8, ChildFrame
<1>10. ChildInv'
  BY <1>2, <1>4, <1>7 DEF PamInv, ChildInv, Alive
<1>11. TurnInv'
  BY <1>4, <1>6, <1>7 DEF PamInv, TurnInv, FlightInv, InFlight
<1>12. PipeInv'
  BY <1>2, <1>4, <1>7 DEF PamInv, PipeInv, InFlight
<1>13. BudgetInv'
  BY <1>2, <1>4, <1>7, QuietBudget DEF ChildProcesses
<1> QED BY <1>9, <1>10, <1>11, <1>12, <1>13 DEF PamInv

\* A message goes out, or cannot.
LEMMA PamSendsMessageKeeps == ASSUME PamInv, PamSendsMessage PROVE PamInv'
<1> DEFINE sent == CountFrames(child, 1)
           failing == [sent EXCEPT !.failed = TRUE]
<1>1. /\ child \in ChildProcesses /\ child.phase = "pam" /\ Alive(child)
      /\ child.begins = 1 /\ child.verdict = "Fatal" /\ child.status = "running"
      /\ child.passed = IF child.stage = "authenticate" THEN {} ELSE {"authenticate"}
      /\ child.next_prompt # 0 /\ child.frames \in Nat /\ ~child.failed
  BY DEF PamInv, TypeOK, ChildInv, PamSendsMessage, InPam, Alive, ChildProcesses
<1>2. /\ sent \in ChildProcesses
      /\ sent.phase = "pam" /\ sent.begins = 1 /\ sent.verdict = "Fatal"
      /\ sent.status = "running" /\ sent.passed = child.passed /\ sent.stage = child.stage
      /\ sent.frames = child.frames + 1 /\ sent.next_prompt = child.next_prompt
  BY <1>1, CountingFrames
<1> HIDE DEF sent
<1>3. failing = [sent EXCEPT !.failed = TRUE]
  OBVIOUS
<1> HIDE DEF failing
<1>4. /\ failing \in ChildProcesses /\ failing.phase = sent.phase
      /\ failing.begins = sent.begins /\ failing.verdict = sent.verdict
      /\ failing.status = sent.status /\ failing.passed = sent.passed
      /\ failing.stage = sent.stage /\ failing.frames = sent.frames
      /\ failing.next_prompt = sent.next_prompt
  BY <1>2, <1>3 DEF ChildProcesses
<1>5. PICK c \in ChildProcesses :
        /\ ChildStep(c)
        /\ c.phase = "pam" /\ c.begins = 1 /\ c.verdict = "Fatal"
        /\ c.status = "running" /\ c.passed = child.passed /\ c.stage = child.stage
        /\ c.frames = child.frames + 1 /\ c.next_prompt = child.next_prompt
        /\ UNCHANGED stdin
        /\ \/ UNCHANGED stdout
           \/ /\ child.frames + 1 <= MaxFrames
              /\ stdout' = Append(stdout, Note("Message"))
  <2>1. \/ /\ sent.frames <= MaxFrames
           /\ stdout' = Append(stdout, Note("Message"))
           /\ ChildStep(sent)
        \/ ChildStep(failing) /\ UNCHANGED stdout
    BY <1>3 DEF PamSendsMessage, sent
  <2>2. UNCHANGED stdin
    BY DEF PamSendsMessage
  <2>3. CASE ChildStep(failing) /\ UNCHANGED stdout
    BY <1>2, <1>4, <2>2, <2>3
  <2>4. CASE /\ sent.frames <= MaxFrames
             /\ stdout' = Append(stdout, Note("Message"))
             /\ ChildStep(sent)
    BY <1>2, <2>2, <2>4
  <2> QED BY <2>1, <2>3, <2>4
<1>6. /\ child' = c
      /\ UNCHANGED <<conversation, worker, worker_prompt, received_frames, host, reading,
                     messages, rest, stdin>>
  BY <1>5 DEF ChildStep
<1>7. /\ ~Asked /\ stdin = <<>> /\ ~InFlight({"Prompt"}) /\ worker_prompt = NoPrompt
      /\ conversation.state # "Waiting"
  BY <1>1 DEF PamInv, TurnInv, FlightInv, Asked
<1>8. /\ reading /\ ~Ended
      /\ \A i \in DOMAIN messages : ~Terminal(messages[i])
      /\ \A i \in DOMAIN stdout   : ~Terminal(stdout[i])
  BY <1>1 DEF PamInv, PipeInv, Ended, InFlight, Terminal
<1>9. ChildInv'
  BY <1>1, <1>5, <1>6 DEF PamInv, ChildInv, Alive
<1>10. stdin \in Seq([kind : ParentKinds, prompt : Nat]) /\ host.pc # "finishing"
  BY <1>1 DEF PamInv, TypeOK, PipeInv, CallInv
<1>11. CASE UNCHANGED stdout
  <2>1. TypeOK' /\ CallInv' /\ EventInv' /\ AuthenticatedIsVerified'
    <3>1. stdout' \in Seq([kind : WorkerKinds, prompt : Nat])
      BY <1>11 DEF PamInv, TypeOK
    <3> QED BY <1>1, <1>5, <1>6, <1>10, <3>1, ChildFrame
  <2>2. TurnInv' /\ PipeInv'
    BY <1>1, <1>5, <1>6, <1>7, <1>11 DEF PamInv, TurnInv, FlightInv, PipeInv, InFlight
  <2>3. BudgetInv'
    BY <1>1, <1>5, <1>6, <1>11, QuietBudget
  <2> QED BY <1>9, <2>1, <2>2, <2>3 DEF PamInv
<1>12. CASE child.frames + 1 <= MaxFrames /\ stdout' = Append(stdout, Note("Message"))
  <2>1. /\ Note("Message") \in [kind : WorkerKinds, prompt : Nat]
        /\ Note("Message").kind = "Message"
    BY DEF Note, Message, WorkerKinds, NoPrompt
  <2>2. /\ stdout' \in Seq([kind : WorkerKinds, prompt : Nat])
        /\ Len(stdout) \in Nat /\ DOMAIN stdout = 1 .. Len(stdout)
        /\ Len(stdout') = Len(stdout) + 1 /\ DOMAIN stdout' = 1 .. Len(stdout) + 1
        /\ \A i \in 1 .. Len(stdout) : stdout'[i] = stdout[i]
        /\ stdout'[Len(stdout) + 1].kind = "Message"
    BY <1>12, <2>1, FrameWritten
  <2>3. TypeOK' /\ CallInv' /\ EventInv' /\ AuthenticatedIsVerified'
    BY <1>1, <1>5, <1>6, <1>10, <2>2, ChildFrame
  <2>4. \A i \in DOMAIN stdout' : ~Terminal(stdout'[i]) /\ stdout'[i].kind # "Prompt"
    BY <1>7, <1>8, <2>2 DEF InFlight, Terminal, Verdicts
  <2>5. TurnInv'
    BY <1>5, <1>6, <1>7, <2>4 DEF PamInv, TurnInv, FlightInv, InFlight
  <2>6. PipeInv'
    BY <1>5, <1>6, <1>8, <1>10, <2>4 DEF PamInv, PipeInv, InFlight, Terminal
  <2>7. BudgetInv'
    <3>1. child'.frames \in Nat /\ child'.frames >= child.frames + 1 /\ child'.begins = 1
      BY <1>1, <1>5, <1>6
    <3>2. UNCHANGED <<received_frames, messages, reading, host, conversation>>
      BY <1>6
    <3> QED BY <1>1, <1>8, <1>12, <2>2, <2>4, <3>1, <3>2, WritingBudget
  <2> QED BY <1>9, <2>3, <2>5, <2>6, <2>7 DEF PamInv
<1> QED BY <1>5, <1>11, <1>12

\* What the process concludes once PAM returned: a verdict of its own only unpoisoned.
LEMMA Concluding ==
  ASSUME NEW c \in ChildProcesses, NEW verdict \in Verdicts
  PROVE  /\ Conclude(c, verdict) \in ChildProcesses /\ Conclude(c, verdict).phase = "report"
         /\ Conclude(c, verdict).verdict = (IF c.failed THEN "Fatal" ELSE verdict)
         /\ Conclude(c, verdict).failed = c.failed
         /\ \A d : d = Conclude(c, verdict) =>
              /\ d.begins = c.begins /\ d.status = c.status /\ d.passed = c.passed
              /\ d.stage = c.stage /\ d.frames = c.frames /\ d.next_prompt = c.next_prompt
<1>1. Conclude(c, verdict) = [c EXCEPT !.phase = "report",
                                !.verdict = IF c.failed THEN "Fatal" ELSE verdict]
  BY DEF Conclude
<1>2. (IF c.failed THEN "Fatal" ELSE verdict) \in Verdicts
  BY DEF Verdicts
<1>3. Conclude(c, verdict) \in ChildProcesses
  BY <1>1, <1>2 DEF ChildProcesses
<1>4. /\ Conclude(c, verdict).phase = "report"
      /\ Conclude(c, verdict).verdict = (IF c.failed THEN "Fatal" ELSE verdict)
  BY <1>1 DEF ChildProcesses
<1>5. Conclude(c, verdict).failed = c.failed
  BY <1>1 DEF ChildProcesses
<1>6. ASSUME NEW d, d = Conclude(c, verdict)
      PROVE  /\ d.begins = c.begins /\ d.status = c.status /\ d.passed = c.passed
             /\ d.stage = c.stage /\ d.frames = c.frames /\ d.next_prompt = c.next_prompt
  BY <1>1, <1>6 DEF ChildProcesses
<1> QED BY <1>3, <1>4, <1>5, <1>6

\* Success of the second stage alone makes the verdict Authenticated.
LEMMA PamReturnsKeeps == ASSUME PamInv, PamReturns PROVE PamInv'
<1> DEFINE accepted == [child EXCEPT !.passed = @ \cup {child.stage}]
           next == [child EXCEPT !.stage = "acct_mgmt", !.passed = @ \cup {child.stage}]
<1>1. /\ child \in ChildProcesses /\ child.phase = "pam" /\ Alive(child)
      /\ child.begins = 1 /\ child.verdict = "Fatal" /\ child.status = "running"
      /\ child.passed = IF child.stage = "authenticate" THEN {} ELSE {"authenticate"}
      /\ child.next_prompt # 0 /\ child.frames \in Nat
  BY DEF PamInv, TypeOK, ChildInv, PamReturns, InPam, Alive, ChildProcesses
<1>2. child.stage \in PamStages /\ child.passed \cup {child.stage} \in SUBSET PamStages
  BY <1>1 DEF ChildProcesses
<1>3. /\ accepted \in ChildProcesses /\ accepted.failed = child.failed
      /\ accepted.passed = child.passed \cup {child.stage} /\ accepted.begins = 1
      /\ accepted.status = "running" /\ accepted.frames = child.frames
      /\ accepted.next_prompt = child.next_prompt /\ accepted.stage = child.stage
  BY <1>1, <1>2 DEF ChildProcesses
<1>4. /\ next \in ChildProcesses /\ next.phase = "pam" /\ next.begins = 1
      /\ next.status = "running" /\ next.frames = child.frames /\ next.verdict = "Fatal"
      /\ next.next_prompt = child.next_prompt /\ next.stage = "acct_mgmt"
      /\ next.passed = child.passed \cup {child.stage}
  BY <1>1, <1>2 DEF ChildProcesses, PamStages
<1>5. PICK c \in ChildProcesses :
        /\ ChildStep(c)
        /\ c.begins = 1 /\ c.status = "running" /\ c.frames = child.frames
        /\ c.next_prompt = child.next_prompt
        /\ \/ /\ c.phase = "pam" /\ c.stage = "acct_mgmt" /\ ~child.failed
              /\ c.passed = {"authenticate"} /\ c.verdict = "Fatal"
           \/ /\ c.phase = "report" /\ c.failed = child.failed
              /\ c.failed => c.verdict = "Fatal"
              /\ c.verdict = "Authenticated" => c.passed = PamStages
  <2>1. CASE /\ child.stage = "authenticate" /\ ~child.failed /\ ChildStep(next)
    <3> HIDE DEF next
    <3> QED BY <1>1, <1>4, <2>1
  <2>2. CASE /\ ~(child.stage = "authenticate" /\ ~child.failed)
             /\ ChildStep(Conclude(accepted, "Authenticated"))
    <3> DEFINE d == Conclude(accepted, "Authenticated")
    <3> HIDE DEF accepted
    <3>1. /\ d \in ChildProcesses /\ d.phase = "report" /\ d.failed = accepted.failed
          /\ d.verdict = (IF accepted.failed THEN "Fatal" ELSE "Authenticated")
          /\ d.begins = 1 /\ d.status = "running" /\ d.passed = accepted.passed
          /\ d.frames = child.frames /\ d.next_prompt = child.next_prompt
      BY <1>3, Concluding DEF Verdicts
    <3>2. ChildStep(d)
      BY <2>2
    <3> HIDE DEF d
    <3>3. ~child.failed => d.passed = PamStages
      BY <1>1, <1>2, <1>3, <2>2, <3>1 DEF PamStages
    <3> QED BY <1>3, <3>1, <3>2, <3>3
  <2>3. CASE \E verdict \in {"Rejected", "Fatal"} : ChildStep(Conclude(child, verdict))
    <3>1. PICK verdict \in {"Rejected", "Fatal"} : ChildStep(Conclude(child, verdict))
      BY <2>3
    <3> DEFINE d == Conclude(child, verdict)
    <3>2. /\ d \in ChildProcesses /\ d.phase = "report" /\ d.failed = child.failed
          /\ d.verdict = (IF child.failed THEN "Fatal" ELSE verdict)
          /\ d.begins = 1 /\ d.status = "running"
          /\ d.frames = child.frames /\ d.next_prompt = child.next_prompt
      BY <1>1, Concluding DEF Verdicts
    <3>3. ChildStep(d)
      BY <3>1
    <3> HIDE DEF d
    <3> QED BY <3>2, <3>3
  <2> QED BY <2>1, <2>2, <2>3 DEF PamReturns, Passed
<1> HIDE DEF accepted, next
<1>6. /\ child' = c
      /\ UNCHANGED <<conversation, worker, worker_prompt, received_frames, host, reading,
                     messages, rest, stdin, stdout>>
  BY <1>5 DEF ChildStep, PamReturns
<1>7. TypeOK' /\ CallInv' /\ EventInv' /\ AuthenticatedIsVerified'
  <2>1. stdin' \in Seq([kind : ParentKinds, prompt : Nat]) /\ stdout' \in Seq([kind : WorkerKinds, prompt : Nat])
    BY <1>6 DEF PamInv, TypeOK
  <2> QED BY <1>1, <1>5, <2>1, ChildFrame
<1>8. ChildInv'
  BY <1>1, <1>5, <1>6 DEF PamInv, ChildInv, Alive
<1>9. Asked => Asked'
  BY <1>1, <1>5, <1>6 DEF Asked
<1>10. TurnInv'
  BY <1>1, <1>5, <1>6, <1>9, QuietTurn
<1>11. PipeInv'
  <2>1. host.pc # "finishing" /\ ~InFlight(Verdicts)
    BY <1>1 DEF PamInv, PipeInv, CallInv
  <2>2. \A i \in DOMAIN messages : messages[i].kind \notin Verdicts
    BY <2>1 DEF InFlight
  <2>3. \A i \in DOMAIN stdout : stdout[i].kind \notin Verdicts
    BY <2>1 DEF InFlight
  <2> QED BY <1>1, <1>5, <1>6, <2>1, <2>2, <2>3 DEF PamInv, PipeInv, InFlight
<1>12. BudgetInv'
  BY <1>1, <1>5, <1>6, QuietBudget
<1> QED BY <1>7, <1>8, <1>10, <1>11, <1>12 DEF PamInv

\* The verdict is the last frame the worker writes.
LEMMA ReportVerdictKeeps == ASSUME PamInv, ReportVerdict PROVE PamInv'
<1> DEFINE c == [child EXCEPT !.phase = "closing"]
           m == Note(child.verdict)
<1>1. /\ child \in ChildProcesses /\ child.phase = "report" /\ Alive(child)
      /\ child.begins = 1 /\ child.status = "running"
  BY DEF PamInv, TypeOK, ChildInv, ReportVerdict, Alive
<1>2. /\ c \in ChildProcesses /\ c.phase = "closing" /\ c.begins = 1 /\ c.status = "running"
      /\ c.failed = child.failed /\ c.verdict = child.verdict /\ c.passed = child.passed
      /\ c.stage = child.stage /\ c.frames = child.frames /\ c.next_prompt = child.next_prompt
  BY <1>1 DEF ChildProcesses
<1>3. ChildStep(c) /\ stdout' = Append(stdout, m) /\ UNCHANGED stdin
  BY DEF ReportVerdict
<1> HIDE DEF c
<1>4. /\ m \in [kind : WorkerKinds, prompt : Nat] /\ m.kind = child.verdict
      /\ m.kind \in Verdicts /\ m.kind \notin {"Prompt", "Eof"}
  BY <1>1 DEF Note, Message, WorkerKinds, Verdicts, NoPrompt, ChildProcesses
<1> HIDE DEF m
<1>5. /\ child' = c
      /\ UNCHANGED <<conversation, worker, worker_prompt, received_frames, host, reading,
                     messages, rest>>
  BY <1>3 DEF ChildStep
<1>6. /\ stdout' \in Seq([kind : WorkerKinds, prompt : Nat])
      /\ Len(stdout) \in Nat /\ DOMAIN stdout = 1 .. Len(stdout)
      /\ Len(stdout') = Len(stdout) + 1 /\ DOMAIN stdout' = 1 .. Len(stdout) + 1
      /\ \A i \in 1 .. Len(stdout) : stdout'[i] = stdout[i]
      /\ stdout'[Len(stdout) + 1] = m
  BY <1>3, <1>4, FrameWritten
<1>7. /\ reading /\ ~Ended
      /\ \A i \in DOMAIN messages : ~Terminal(messages[i])
      /\ \A i \in DOMAIN stdout   : ~Terminal(stdout[i])
  BY <1>1 DEF PamInv, PipeInv, Ended, InFlight, Terminal
<1>8. TypeOK' /\ CallInv' /\ EventInv' /\ AuthenticatedIsVerified'
  <2>1. stdin' \in Seq([kind : ParentKinds, prompt : Nat])
    BY <1>3 DEF PamInv, TypeOK
  <2> QED BY <1>1, <1>2, <1>3, <1>6, <2>1, ChildFrame
<1>9. ChildInv'
  BY <1>1, <1>2, <1>5 DEF PamInv, ChildInv, Alive
<1>10. TurnInv'
  <2>1. Asked => Asked'
    BY <1>1, <1>2, <1>5 DEF Asked
  <2>2. \A i \in DOMAIN stdout' : stdout'[i].kind = "Prompt" =>
          i \in DOMAIN stdout /\ stdout'[i] = stdout[i]
    BY <1>4, <1>6
  <2>3. InFlight({"Prompt"})' => InFlight({"Prompt"})
    BY <1>5, <2>2 DEF InFlight
  <2> QED BY <1>1, <1>2, <1>3, <1>5, <1>6, <2>1, <2>2, <2>3 DEF PamInv, TurnInv, FlightInv, AtRest
<1>11. PipeInv'
  <2>1. \A i \in DOMAIN stdout' :
          \/ i < Len(stdout') /\ ~Terminal(stdout'[i])
          \/ i = Len(stdout') /\ stdout'[i].kind = child'.verdict
    BY <1>2, <1>4, <1>5, <1>6, <1>7
  <2>2. \A i \in DOMAIN messages' : ~Terminal(messages'[i])
    BY <1>5, <1>7
  <2>3. child'.verdict \in Verdicts /\ child'.phase = "closing" /\ reading' /\ child'.begins = 1
    BY <1>2, <1>5, <1>7 DEF ChildProcesses
  <2>4. host.pc = "finishing" => host'.after = child'.verdict
    BY <1>2, <1>5 DEF PamInv, PipeInv
  <2> QED BY <1>5, <2>1, <2>2, <2>3, <2>4 DEF PipeInv, InFlight, Terminal, Verdicts
<1>12. BudgetInv'
  <2>1. Ended'
    BY <1>4, <1>6 DEF Ended, InFlight
  <2>2. Slack = 0 /\ Slack' = 1
    BY <1>7, <2>1 DEF Slack
  <2>3. Budget \in Nat /\ Budget' = Budget + 1 /\ child.frames \in Nat
    BY <1>1, <1>5, <1>6, LenProperties DEF PamInv, TypeOK, Budget, ChildProcesses
  <2> QED BY <1>1, <1>2, <1>5, <2>2, <2>3, MaxFramesAssumption DEF PamInv, BudgetInv
<1> QED BY <1>8, <1>9, <1>10, <1>11, <1>12 DEF PamInv

\* The process ends: by itself after its verdict, or at any time.
LEMMA ChildEndsKeeps == ASSUME PamInv, ChildExits \/ ChildCrashes PROVE PamInv'
<1>1. PICK c \in ChildProcesses :
        /\ ChildStep(c)
        /\ c.phase = "exited" /\ c.begins = child.begins /\ c.failed = child.failed
        /\ c.verdict = child.verdict /\ c.passed = child.passed /\ c.stage = child.stage
        /\ c.frames = child.frames /\ c.next_prompt = child.next_prompt
        /\ \/ c.status = "failure"
           \/ c.status = "success" /\ child.phase = "closing" /\ child.verdict # "Fatal"
  <2> DEFINE exited == [child EXCEPT !.phase = "exited",
                          !.status = IF child.verdict = "Fatal" THEN "failure" ELSE "success"]
             killed == [child EXCEPT !.phase = "exited", !.status = "failure"]
  <2>1. child \in ChildProcesses
    BY DEF PamInv, TypeOK
  <2>2. CASE child.phase = "closing" /\ ChildStep(exited)
    <3>1. /\ exited \in ChildProcesses
          /\ exited.phase = "exited" /\ exited.begins = child.begins
          /\ exited.failed = child.failed /\ exited.verdict = child.verdict
          /\ exited.passed = child.passed /\ exited.stage = child.stage
          /\ exited.frames = child.frames /\ exited.next_prompt = child.next_prompt
          /\ exited.status = IF child.verdict = "Fatal" THEN "failure" ELSE "success"
      BY <2>1 DEF ChildProcesses
    <3> HIDE DEF exited
    <3> QED BY <2>2, <3>1
  <2>3. CASE ChildStep(killed)
    <3>1. /\ killed \in ChildProcesses
          /\ killed.phase = "exited" /\ killed.begins = child.begins
          /\ killed.failed = child.failed /\ killed.verdict = child.verdict
          /\ killed.passed = child.passed /\ killed.stage = child.stage
          /\ killed.frames = child.frames /\ killed.next_prompt = child.next_prompt
          /\ killed.status = "failure"
      BY <2>1 DEF ChildProcesses
    <3> HIDE DEF killed
    <3> QED BY <2>3, <3>1
  <2> QED BY <2>2, <2>3 DEF ChildExits, ChildCrashes, Killed
<1>2. /\ child' = c /\ child \in ChildProcesses /\ Alive(child) /\ child.phase # "exited"
      /\ UNCHANGED <<conversation, worker, worker_prompt, received_frames, host, reading,
                     messages, rest, stdin, stdout>>
  BY <1>1 DEF ChildStep, ChildExits, ChildCrashes, PamInv, TypeOK, ChildInv, Alive
<1>3. TypeOK' /\ CallInv' /\ EventInv' /\ AuthenticatedIsVerified'
  <2>1. stdin' \in Seq([kind : ParentKinds, prompt : Nat]) /\ stdout' \in Seq([kind : WorkerKinds, prompt : Nat])
    BY <1>2 DEF PamInv, TypeOK
  <2> QED BY <1>1, <1>2, <2>1, ChildFrame
<1>4. ChildInv'
  BY <1>1, <1>2 DEF PamInv, ChildInv, Alive
<1>5. Asked => Asked'
  BY <1>1, <1>2 DEF PamInv, ChildInv, Asked
<1>6. TurnInv'
  BY <1>1, <1>2, <1>5, QuietTurn
<1>7. PipeInv'
  BY <1>1, <1>2 DEF PamInv, PipeInv, InFlight
<1>8. BudgetInv'
  BY <1>1, <1>2, QuietBudget DEF ChildProcesses
<1> QED BY <1>3, <1>4, <1>6, <1>7, <1>8 DEF PamInv

\* A helper comes and goes without touching what the invariant says of the worker: the
\* turn, the frames in the pipes and the verdict are those of the process itself.
LEMMA HelperStepsKeep == ASSUME PamInv, PamStartsHelper \/ HelperEnds PROVE PamInv'
<1>1. PICK c \in ChildProcesses :
        /\ ChildStep(c) /\ UNCHANGED <<stdin, stdout>>
        /\ c.phase = child.phase /\ c.status = child.status /\ c.begins = child.begins
        /\ c.failed = child.failed /\ c.verdict = child.verdict
        /\ c.passed = child.passed /\ c.stage = child.stage
        /\ c.frames = child.frames /\ c.next_prompt = child.next_prompt
  <2> DEFINE with(b) == [child EXCEPT !.helper = b]
  <2>1. \A b \in BOOLEAN :
          /\ with(b) \in ChildProcesses
          /\ with(b).phase = child.phase /\ with(b).status = child.status
          /\ with(b).begins = child.begins
          /\ with(b).failed = child.failed /\ with(b).verdict = child.verdict
          /\ with(b).passed = child.passed /\ with(b).stage = child.stage
          /\ with(b).frames = child.frames /\ with(b).next_prompt = child.next_prompt
    <3>1. child \in ChildProcesses
      BY DEF PamInv, TypeOK
    <3> QED BY <3>1 DEF ChildProcesses
  <2>2. \E b \in BOOLEAN : ChildStep(with(b)) /\ UNCHANGED <<stdin, stdout>>
    BY DEF PamStartsHelper, HelperEnds
  <2> HIDE DEF with
  <2> QED BY <2>1, <2>2
<1>2. /\ child' = c /\ child \in ChildProcesses
      /\ UNCHANGED <<conversation, worker, worker_prompt, received_frames, host, reading,
                     messages, rest, stdin, stdout>>
  BY <1>1 DEF ChildStep, PamInv, TypeOK
<1>3. TypeOK'
  BY <1>1, <1>2 DEF PamInv, TypeOK
<1>4. CallInv' /\ EventInv' /\ AuthenticatedIsVerified'
  BY <1>1, <1>2 DEF PamInv, CallInv, EventInv, EventsTellTheOutcome, AuthenticatedIsVerified,
                    AtRest, Alive
<1>5. ChildInv'
  BY <1>1, <1>2 DEF PamInv, ChildInv, Alive
<1>6. TurnInv'
  <2>1. Asked => Asked'
    BY <1>1, <1>2 DEF Asked
  <2> QED BY <1>1, <1>2, <2>1, QuietTurn
<1>7. PipeInv'
  BY <1>1, <1>2 DEF PamInv, PipeInv, InFlight
<1>8. BudgetInv'
  BY <1>1, <1>2 DEF PamInv, BudgetInv, Budget, Slack, Ended, InFlight
<1> QED BY <1>3, <1>4, <1>5, <1>6, <1>7, <1>8 DEF PamInv

-----------------------------------------------------------------------------
(* The reader thread. *)

\* The channel after one more frame was forwarded into it.
LEMMA FrameForwarded ==
  ASSUME PamInv, NEW m \in [kind : WorkerKinds, prompt : Nat], Forwards(m)
  PROVE  /\ messages' \in Seq([kind : WorkerKinds, prompt : Nat])
         /\ Len(messages) \in Nat /\ DOMAIN messages = 1 .. Len(messages)
         /\ Len(messages') = Len(messages) + 1 /\ DOMAIN messages' = 1 .. Len(messages) + 1
         /\ \A i \in 1 .. Len(messages) : messages'[i] = messages[i]
         /\ messages'[Len(messages) + 1] = m
         /\ reading /\ reading' = ~Terminal(m)
         /\ UNCHANGED <<conversation, worker, worker_prompt, received_frames, host, child,
                        stdin, rest>>
<1>1. messages \in Seq([kind : WorkerKinds, prompt : Nat]) /\ messages' = Append(messages, m)
  BY DEF PamInv, TypeOK, Forwards
<1> QED BY <1>1, AppendProperties, LenProperties DEF Forwards

\* The reader touches neither side.
LEMMA ReaderFrame ==
  ASSUME PamInv,
         UNCHANGED <<conversation, worker, worker_prompt, received_frames, host, child, stdin, rest>>,
         messages' \in Seq([kind : WorkerKinds, prompt : Nat]),
         stdout' \in Seq([kind : WorkerKinds, prompt : Nat]), reading' \in BOOLEAN
  PROVE  TypeOK' /\ CallInv' /\ ChildInv' /\ EventInv' /\ AuthenticatedIsVerified'
<1>1. TypeOK'
  BY DEF PamInv, TypeOK
<1>2. CallInv' /\ ChildInv'
  BY DEF PamInv, CallInv, ChildInv, AtRest, Alive
<1>3. EventInv' /\ AuthenticatedIsVerified'
  BY DEF PamInv, EventInv, EventsTellTheOutcome, AuthenticatedIsVerified, AtRest
<1> QED BY <1>1, <1>2, <1>3

\* A frame moves from the pipe to the channel.
LEMMA ForwardMessageKeeps == ASSUME PamInv, ForwardMessage PROVE PamInv'
<1> DEFINE m == Head(stdout)
           n == Len(messages)
<1>1. /\ stdout \in Seq([kind : WorkerKinds, prompt : Nat]) /\ stdout # <<>>
      /\ stdout' = Tail(stdout) /\ Forwards(m)
  BY DEF PamInv, TypeOK, ForwardMessage
<1>2. /\ m \in [kind : WorkerKinds, prompt : Nat] /\ m = stdout[1]
      /\ stdout' \in Seq([kind : WorkerKinds, prompt : Nat])
      /\ Len(stdout) \in Nat \ {0} /\ DOMAIN stdout = 1 .. Len(stdout)
      /\ Len(stdout') = Len(stdout) - 1 /\ DOMAIN stdout' = 1 .. Len(stdout) - 1
      /\ \A i \in 1 .. Len(stdout) - 1 : stdout'[i] = stdout[i + 1]
  <2>1. /\ m \in [kind : WorkerKinds, prompt : Nat]
        /\ Tail(stdout) \in Seq([kind : WorkerKinds, prompt : Nat])
        /\ Len(Tail(stdout)) = Len(stdout) - 1
        /\ \A i \in 1 .. Len(Tail(stdout)) : Tail(stdout)[i] = stdout[i + 1]
    BY <1>1, HeadTailProperties
  <2>2. m = stdout[1]
    BY <1>1
  <2>3. Len(stdout) \in Nat \ {0} /\ DOMAIN stdout = 1 .. Len(stdout)
    BY <1>1, LenProperties, EmptySeq
  <2>4. DOMAIN Tail(stdout) = 1 .. Len(Tail(stdout))
    BY <2>1, LenProperties
  <2> HIDE DEF m
  <2> QED BY <1>1, <2>1, <2>2, <2>3, <2>4
<1> HIDE DEF m
<1>3. /\ messages' \in Seq([kind : WorkerKinds, prompt : Nat])
      /\ n \in Nat /\ DOMAIN messages = 1 .. n /\ n = Len(messages)
      /\ Len(messages') = n + 1 /\ DOMAIN messages' = 1 .. n + 1
      /\ \A i \in 1 .. n : messages'[i] = messages[i]
      /\ messages'[n + 1] = m
      /\ reading /\ reading' = ~Terminal(m)
      /\ UNCHANGED <<conversation, worker, worker_prompt, received_frames, host, child,
                     stdin, rest>>
  BY <1>1, <1>2, FrameForwarded
<1> HIDE DEF n
<1>4. \A kinds : InFlight(kinds)' <=> InFlight(kinds)
  <2>1. ASSUME NEW kinds, InFlight(kinds)' PROVE InFlight(kinds)
    <3>1. CASE \E i \in DOMAIN messages' : messages'[i].kind \in kinds
      <4>1. PICK i \in 1 .. n + 1 : messages'[i].kind \in kinds
        BY <1>3, <3>1
      <4>2. CASE i = n + 1
        <5>1. 1 \in DOMAIN stdout /\ stdout[1].kind \in kinds
          BY <1>2, <1>3, <4>1, <4>2
        <5> QED BY <5>1 DEF InFlight
      <4>3. CASE i \in 1 .. n
        BY <1>3, <4>1, <4>3 DEF InFlight
      <4> QED BY <1>3, <4>2, <4>3
    <3>2. CASE \E i \in DOMAIN stdout' : stdout'[i].kind \in kinds
      BY <1>2, <3>2 DEF InFlight
    <3> QED BY <2>1, <3>1, <3>2 DEF InFlight
  <2>2. ASSUME NEW kinds, InFlight(kinds) PROVE InFlight(kinds)'
    <3>1. CASE \E i \in DOMAIN messages : messages[i].kind \in kinds
      BY <1>3, <3>1 DEF InFlight
    <3>2. CASE \E i \in DOMAIN stdout : stdout[i].kind \in kinds
      <4>1. PICK i \in 1 .. Len(stdout) : stdout[i].kind \in kinds
        BY <1>2, <3>2
      <4>2. CASE i = 1
        BY <1>2, <1>3, <4>1, <4>2 DEF InFlight
      <4>3. CASE i # 1
        <5>1. i - 1 \in DOMAIN stdout' /\ stdout'[i - 1] = stdout[i]
          BY <1>2, <4>3
        <5> QED BY <4>1, <5>1 DEF InFlight
      <4> QED BY <4>2, <4>3
    <3> QED BY <2>2, <3>1, <3>2 DEF InFlight
  <2> QED BY <2>1, <2>2
<1>5. TypeOK' /\ CallInv' /\ ChildInv' /\ EventInv' /\ AuthenticatedIsVerified'
  <2>1. reading' \in BOOLEAN
    BY <1>3
  <2> QED BY <1>2, <1>3, <2>1, ReaderFrame
<1>6. Ended' <=> Ended
  <2>1. CASE Terminal(m)
    <3>1. InFlight(Verdicts \cup {"Eof"})
      BY <1>2, <2>1 DEF InFlight, Terminal
    <3> QED BY <1>3, <2>1, <3>1 DEF Ended
  <2>2. CASE ~Terminal(m)
    BY <1>3, <1>4, <2>2 DEF Ended
  <2> QED BY <2>1, <2>2
<1>7. TurnInv'
  <2>1. \A i \in DOMAIN messages' :
          IF i \in 1 .. n THEN messages'[i] = messages[i] ELSE i = n + 1 /\ messages'[i] = stdout[1]
    BY <1>2, <1>3
  <2>2. \A i \in DOMAIN stdout' : stdout'[i] = stdout[i + 1] /\ i + 1 \in DOMAIN stdout /\ i + 1 # 1
    BY <1>2
  <2>3. \A i \in DOMAIN messages' : messages'[i].kind = "Prompt" =>
          /\ messages'[i].prompt # NoPrompt /\ messages'[i].prompt = child.next_prompt - 1
          /\ \A j \in DOMAIN messages' : messages'[j].kind = "Prompt" => i = j
          /\ \A j \in DOMAIN stdout'   : stdout'[j].kind # "Prompt"
    <3>1. ASSUME NEW i \in DOMAIN messages', messages'[i].kind = "Prompt", i \in 1 .. n
          PROVE  /\ messages[i].kind = "Prompt" /\ i \in DOMAIN messages
                 /\ \A j \in DOMAIN stdout : stdout[j].kind # "Prompt"
      BY <1>3, <2>1, <3>1 DEF PamInv, TurnInv, FlightInv
    <3>2. ASSUME NEW i \in DOMAIN messages', messages'[i].kind = "Prompt", i \notin 1 .. n
          PROVE  /\ i = n + 1 /\ stdout[1].kind = "Prompt" /\ messages'[i] = stdout[1]
                 /\ 1 \in DOMAIN stdout
                 /\ \A j \in DOMAIN messages : messages[j].kind # "Prompt"
                 /\ \A j \in DOMAIN stdout : stdout[j].kind = "Prompt" => j = 1
      BY <1>2, <2>1, <3>2 DEF PamInv, TurnInv, FlightInv
    <3>3. ASSUME NEW i \in DOMAIN messages', messages'[i].kind = "Prompt", i \in 1 .. n
          PROVE  /\ messages'[i].prompt # NoPrompt /\ messages'[i].prompt = child.next_prompt - 1
                 /\ \A j \in DOMAIN messages' : messages'[j].kind = "Prompt" => i = j
                 /\ \A j \in DOMAIN stdout'   : stdout'[j].kind # "Prompt"
      <4>1. /\ messages[i].kind = "Prompt" /\ i \in DOMAIN messages /\ messages'[i] = messages[i]
            /\ \A j \in DOMAIN stdout : stdout[j].kind # "Prompt"
        BY <1>3, <3>1, <3>3
      <4>2. /\ messages[i].prompt # NoPrompt /\ messages[i].prompt = child.next_prompt - 1
            /\ \A j \in DOMAIN messages : messages[j].kind = "Prompt" => i = j
        BY <4>1 DEF PamInv, TurnInv, FlightInv
      <4>3. 1 \in DOMAIN stdout
        BY <1>2
      <4>4. ASSUME NEW j \in DOMAIN messages', messages'[j].kind = "Prompt" PROVE i = j
        BY <1>3, <2>1, <4>1, <4>2, <4>3, <4>4
      <4>5. ASSUME NEW j \in DOMAIN stdout' PROVE stdout'[j].kind # "Prompt"
        BY <2>2, <4>1
      <4> QED BY <4>1, <4>2, <4>4, <4>5
    <3>4. ASSUME NEW i \in DOMAIN messages', messages'[i].kind = "Prompt", i \notin 1 .. n
          PROVE  /\ messages'[i].prompt # NoPrompt /\ messages'[i].prompt = child.next_prompt - 1
                 /\ \A j \in DOMAIN messages' : messages'[j].kind = "Prompt" => i = j
                 /\ \A j \in DOMAIN stdout'   : stdout'[j].kind # "Prompt"
      BY <1>3, <2>1, <2>2, <3>2, <3>4 DEF PamInv, TurnInv, FlightInv
    <3> QED BY <3>3, <3>4
  <2>4. \A i \in DOMAIN stdout' : stdout'[i].kind = "Prompt" =>
          /\ stdout'[i].prompt # NoPrompt /\ stdout'[i].prompt = child.next_prompt - 1
          /\ \A j \in DOMAIN stdout' : stdout'[j].kind = "Prompt" => i = j
    <3>1. \A i, j \in DOMAIN stdout' : i + 1 = j + 1 => i = j
      BY <1>2
    <3> QED BY <2>2, <3>1 DEF PamInv, TurnInv, FlightInv
  <2>5. Asked' <=> Asked
    BY <1>3 DEF Asked
  <2> QED BY <1>3, <1>4, <2>3, <2>4, <2>5 DEF PamInv, TurnInv, FlightInv, AtRest
<1>8. PipeInv'
  <2>1. \A i \in DOMAIN messages' :
          /\ messages'[i].kind \in Verdicts => messages'[i].kind = child.verdict
          /\ Terminal(messages'[i]) => i = Len(messages') /\ ~reading'
    <3>1. ASSUME NEW i \in 1 .. n
          PROVE  /\ messages'[i].kind \in Verdicts => messages'[i].kind = child.verdict
                 /\ ~Terminal(messages'[i])
      BY <1>3 DEF PamInv, PipeInv
    <3>2. /\ messages'[n + 1].kind \in Verdicts => messages'[n + 1].kind = child.verdict
          /\ Terminal(messages'[n + 1]) => ~reading'
      <4>1. 1 \in DOMAIN stdout /\ messages'[n + 1] = stdout[1] /\ m = stdout[1]
        BY <1>2, <1>3
      <4>2. stdout[1].kind \in Verdicts => stdout[1].kind = child.verdict
        BY <4>1 DEF PamInv, PipeInv
      <4> QED BY <1>3, <4>1, <4>2
    <3> QED BY <1>3, <3>1, <3>2
  <2>2. \A i \in DOMAIN stdout' :
          /\ stdout'[i].kind \in Verdicts => stdout'[i].kind = child.verdict
          /\ Terminal(stdout'[i]) => i = Len(stdout')
          /\ stdout'[i].kind # "Eof"
    <3>1. ASSUME NEW i \in 1 .. Len(stdout) - 1
          PROVE  /\ stdout'[i].kind \in Verdicts => stdout'[i].kind = child.verdict
                 /\ Terminal(stdout'[i]) => i = Len(stdout')
                 /\ stdout'[i].kind # "Eof"
      <4>1. i + 1 \in DOMAIN stdout /\ stdout'[i] = stdout[i + 1]
        BY <1>2
      <4>2. Terminal(stdout[i + 1]) => i + 1 = Len(stdout)
        BY <4>1 DEF PamInv, PipeInv
      <4>3. /\ stdout[i + 1].kind \in Verdicts => stdout[i + 1].kind = child.verdict
            /\ stdout[i + 1].kind # "Eof"
        BY <4>1 DEF PamInv, PipeInv
      <4>4. i + 1 = Len(stdout) => i = Len(stdout')
        <5>1. Len(stdout') = Len(stdout) - 1 /\ Len(stdout) \in Nat /\ i \in Nat
          BY <1>2
        <5> QED BY <5>1
      <4> QED BY <4>1, <4>2, <4>3, <4>4
    <3> QED BY <1>2, <3>1
  <2>3. ~reading' => stdout' = <<>> /\ child.phase \in {"closing", "exited"}
    <3>1. SUFFICES ASSUME Terminal(stdout[1])
                   PROVE  stdout' = <<>> /\ child.phase \in {"closing", "exited"}
      BY <1>2, <1>3
    <3>2. Len(stdout) = 1 /\ stdout[1].kind \in Verdicts
      BY <1>2, <3>1 DEF PamInv, PipeInv, Terminal
    <3>3. child.phase \in {"closing", "exited"}
      BY <1>2, <3>2 DEF PamInv, PipeInv, InFlight
    <3> QED BY <1>2, <3>2, <3>3, NoElements
  <2>4. child.begins = 1
    <3>1. child.begins \in Nat
      BY DEF PamInv, TypeOK, ChildProcesses
    <3>2. child.begins <= 1 /\ child.begins # 0
      BY <1>1, <1>3 DEF PamInv, PipeInv, ChildInv
    <3> QED BY <3>1, <3>2
  <2>5. InFlight(Verdicts)' => child.phase \in {"closing", "exited"}
    BY <1>4 DEF PamInv, PipeInv
  <2> QED BY <1>3, <2>1, <2>2, <2>3, <2>4, <2>5 DEF PamInv, PipeInv
<1>9. BudgetInv'
  <2>1. Budget \in Nat /\ Budget' = Budget /\ Slack' = Slack
    <3>1. received_frames \in Nat /\ UNCHANGED received_frames
      BY <1>3 DEF PamInv, TypeOK
    <3>2. /\ Len(messages) \in Nat /\ Len(stdout) \in Nat
          /\ Len(messages') + Len(stdout') = Len(messages) + Len(stdout)
      BY <1>2, <1>3
    <3> QED BY <1>6, <3>1, <3>2 DEF Budget, Slack
  <2> QED BY <1>3, <2>1 DEF PamInv, BudgetInv
<1> QED BY <1>5, <1>7, <1>8, <1>9 DEF PamInv

\* The end of a worker that said nothing more.
LEMMA ForwardEofKeeps == ASSUME PamInv, ForwardEof PROVE PamInv'
<1> DEFINE m == Note("Eof")
           n == Len(messages)
<1>1. stdout = <<>> /\ UNCHANGED stdout /\ ~Alive(child) /\ Forwards(m)
  BY DEF ForwardEof, PipesHeld
<1>2. m \in [kind : WorkerKinds, prompt : Nat] /\ m.kind = "Eof" /\ Terminal(m)
  BY DEF Note, Message, WorkerKinds, NoPrompt, Terminal
<1> HIDE DEF m
<1>3. /\ messages' \in Seq([kind : WorkerKinds, prompt : Nat])
      /\ n \in Nat /\ DOMAIN messages = 1 .. n /\ n = Len(messages)
      /\ Len(messages') = n + 1 /\ DOMAIN messages' = 1 .. n + 1
      /\ \A i \in 1 .. n : messages'[i] = messages[i]
      /\ messages'[n + 1] = m
      /\ reading /\ ~reading'
      /\ UNCHANGED <<conversation, worker, worker_prompt, received_frames, host, child,
                     stdin, rest>>
  BY <1>1, <1>2, FrameForwarded
<1> HIDE DEF n
<1>4. TypeOK' /\ CallInv' /\ ChildInv' /\ EventInv' /\ AuthenticatedIsVerified'
  <2>1. stdout' \in Seq([kind : WorkerKinds, prompt : Nat]) /\ reading' \in BOOLEAN
    BY <1>1, <1>3 DEF PamInv, TypeOK, Forwards
  <2> QED BY <1>3, <2>1, ReaderFrame
<1>5. \A i \in DOMAIN messages : ~Terminal(messages[i]) /\ messages[i].kind \notin Verdicts
  BY <1>3 DEF PamInv, PipeInv, Terminal
<1>6. TurnInv'
  <2>1. \A i \in DOMAIN messages' : messages'[i].kind = "Prompt" =>
          i \in DOMAIN messages /\ messages'[i] = messages[i]
    BY <1>2, <1>3
  <2>2. FlightInv'
    BY <1>1, <1>3, <2>1 DEF PamInv, TurnInv, FlightInv
  <2>3. InFlight({"Prompt"})' => InFlight({"Prompt"})
    BY <1>1, <2>1 DEF InFlight
  <2>4. Asked' <=> Asked
    BY <1>3 DEF Asked
  <2> QED BY <1>3, <2>2, <2>3, <2>4 DEF PamInv, TurnInv, AtRest
<1>7. PipeInv'
  <2>1. \A i \in DOMAIN messages' :
          /\ messages'[i].kind \notin Verdicts
          /\ Terminal(messages'[i]) => i = Len(messages')
    BY <1>2, <1>3, <1>5 DEF Verdicts
  <2>2. child.phase = "exited" /\ ~InFlight(Verdicts)'
    BY <1>1, <2>1 DEF PamInv, ChildInv, InFlight
  <2>3. child.begins = 0 => \A i \in DOMAIN messages' : messages'[i].kind = "Eof"
    BY <1>2, <1>3 DEF PamInv, PipeInv
  <2> QED BY <1>1, <1>3, <2>1, <2>2, <2>3 DEF PamInv, PipeInv
<1>8. BudgetInv'
  <2>1. ~Ended /\ Ended'
    BY <1>1, <1>3, <1>5 DEF Ended, InFlight, Terminal
  <2>2. Slack = 0 /\ Slack' = 1 /\ MaxFrames \in Nat /\ child.frames \in Nat
    BY <2>1, MaxFramesAssumption DEF Slack, PamInv, TypeOK, ChildProcesses
  <2>3. Budget \in Nat /\ Budget' = Budget + 1
    <3>1. Len(stdout) = 0 /\ Len(stdout') = 0 /\ received_frames \in Nat
      BY <1>1 DEF PamInv, TypeOK
    <3> QED BY <1>3, <3>1 DEF Budget
  <2> QED BY <1>3, <2>2, <2>3 DEF PamInv, BudgetInv
<1> QED BY <1>4, <1>6, <1>7, <1>8 DEF PamInv

-----------------------------------------------------------------------------
(* What the parent does to its end of the pipes. *)

\* The parent took k of the frames in the channel.
Drops(k) ==
  /\ messages' \in Seq([kind : WorkerKinds, prompt : Nat])
  /\ Len(messages) \in Nat /\ Len(messages') = Len(messages) - k
  /\ DOMAIN messages' = 1 .. Len(messages) - k
  /\ \A i \in DOMAIN messages' : i + k \in DOMAIN messages /\ messages'[i] = messages[i + k]

\* A step that leaves the channel alone takes none.
LEMMA DropsNone == ASSUME PamInv, UNCHANGED messages PROVE Drops(0)
<1>1. messages \in Seq([kind : WorkerKinds, prompt : Nat])
  BY DEF PamInv, TypeOK
<1>2. Len(messages) \in Nat /\ DOMAIN messages = 1 .. Len(messages)
  BY <1>1, LenProperties
<1> QED BY <1>1, <1>2 DEF Drops

\* A receive takes the first.
LEMMA DropsOne ==
  ASSUME PamInv, messages # <<>>, messages' = Tail(messages)
  PROVE  /\ Drops(1) /\ Head(messages) = messages[1] /\ 1 \in DOMAIN messages
         /\ Head(messages) \in [kind : WorkerKinds, prompt : Nat]
<1>1. messages \in Seq([kind : WorkerKinds, prompt : Nat])
  BY DEF PamInv, TypeOK
<1>2. Len(messages) \in Nat \ {0} /\ DOMAIN messages = 1 .. Len(messages)
  BY <1>1, LenProperties, EmptySeq
<1>3. /\ Head(messages) \in [kind : WorkerKinds, prompt : Nat]
      /\ Tail(messages) \in Seq([kind : WorkerKinds, prompt : Nat])
      /\ Len(Tail(messages)) = Len(messages) - 1
      /\ \A i \in 1 .. Len(Tail(messages)) : Tail(messages)[i] = messages[i + 1]
  BY <1>1, HeadTailProperties
<1>4. DOMAIN Tail(messages) = 1 .. Len(messages) - 1
  BY <1>3, LenProperties
<1>5. Drops(1)
  BY <1>2, <1>3, <1>4 DEF Drops
<1> QED BY <1>1, <1>2, <1>3, <1>5

\* What is left in flight was in flight, whatever became of the process meanwhile.
LEMMA DroppingFrames ==
  ASSUME PamInv, NEW k \in {0, 1}, Drops(k), UNCHANGED <<stdout, reading>>,
         child'.verdict = child.verdict, child'.next_prompt = child.next_prompt,
         child'.begins = child.begins, child'.phase \in {child.phase, "exited"}
  PROVE  /\ FlightInv'
         /\ \A kinds : InFlight(kinds)' => InFlight(kinds)
         /\ (host'.pc = "finishing" => host'.after = child'.verdict) => PipeInv'
         /\ Ended => Ended'
<1>1. \A i \in DOMAIN messages' : i + k \in DOMAIN messages /\ messages'[i] = messages[i + k]
  BY DEF Drops
<1>2. \A kinds : InFlight(kinds)' => InFlight(kinds)
  BY <1>1 DEF InFlight
<1>3. FlightInv'
  <2>1. \A i, j \in DOMAIN messages' : i + k = j + k => i = j
    BY DEF Drops
  <2>2. FlightInv
    BY DEF PamInv, TurnInv
  <2> QED BY <1>1, <2>1, <2>2 DEF FlightInv
<1>4. ASSUME host'.pc = "finishing" => host'.after = child'.verdict PROVE PipeInv'
  <2>1. ASSUME NEW i \in DOMAIN messages'
        PROVE  /\ messages'[i].kind \in Verdicts => messages'[i].kind = child'.verdict
               /\ Terminal(messages'[i]) => i = Len(messages') /\ ~reading'
               /\ child'.begins = 0 => messages'[i].kind = "Eof"
    <3>1. i + k \in DOMAIN messages /\ messages'[i] = messages[i + k]
      BY <1>1
    <3>2. Terminal(messages[i + k]) => i + k = Len(messages) /\ ~reading
      BY <3>1 DEF PamInv, PipeInv
    <3>3. i + k = Len(messages) => i = Len(messages')
      BY DEF Drops
    <3> QED BY <3>1, <3>2, <3>3 DEF PamInv, PipeInv
  <2>2. InFlight(Verdicts)' => child'.phase \in {"closing", "exited"}
    BY <1>2 DEF PamInv, PipeInv
  <2> QED BY <1>4, <2>1, <2>2 DEF PamInv, PipeInv
<1>5. Ended => Ended'
  <2>1. ~reading => Ended'
    BY DEF Ended
  <2>2. ASSUME reading, Ended PROVE Ended'
    <3>1. \A i \in DOMAIN messages : messages[i].kind \notin Verdicts \cup {"Eof"}
      BY <2>2 DEF PamInv, PipeInv, Terminal
    <3>2. \E i \in DOMAIN stdout : stdout[i].kind \in Verdicts \cup {"Eof"}
      BY <2>2, <3>1 DEF Ended, InFlight
    <3> QED BY <3>2 DEF Ended, InFlight
  <2> QED BY <2>1, <2>2
<1> QED BY <1>2, <1>3, <1>4, <1>5

\* terminate() ends the transaction of the process, its answers and its prompt; what the
\* call makes of the conversation waits for the reader.
LEMMA TerminateKeeps ==
  ASSUME PamInv, NEW call, NEW after, Terminate(call, after),
         NEW k \in {0, 1}, Drops(k),
         conversation' \in Conversations,
         \A i \in DOMAIN conversation'.events : conversation'.events[i].kind = "Message",
         received_frames' \in Nat, received_frames' <= MaxFrames,
         \/ /\ after = "cancelled" /\ call = "cancel" /\ conversation'.state = "Cancelling"
            /\ rest.state \in {"Waiting", "Authenticated"}
         \/ /\ after \in {"fail", "disconnect"} /\ conversation'.state = "Authenticating"
            /\ \/ call = "begin_reauth" /\ rest.state \in {"Idle", "Failed"}
               \/ call = "respond" /\ rest.state = "Waiting"
  PROVE  PamInv'
<1>1. /\ child \in ChildProcesses /\ child' = Killed(child)
      /\ worker' = FALSE /\ worker_prompt' = NoPrompt /\ stdin' = <<>>
      /\ host' = [pc |-> "terminating", call |-> call, after |-> after]
      /\ UNCHANGED <<stdout, reading, rest>>
  BY DEF PamInv, TypeOK, Terminate, HostAt
<1>2. /\ child' \in ChildProcesses /\ ~Alive(child') /\ child'.phase = "exited"
      /\ child'.status = (IF Alive(child) THEN "failure" ELSE child.status)
      /\ child'.begins = child.begins /\ child'.verdict = child.verdict
      /\ child'.failed = child.failed /\ child'.passed = child.passed
      /\ child'.stage = child.stage /\ child'.frames = child.frames
      /\ child'.next_prompt = child.next_prompt
  <2>1. CASE Alive(child)
    <3> DEFINE c == [child EXCEPT !.phase = "exited", !.status = "failure"]
    <3>1. /\ c \in ChildProcesses /\ c.phase = "exited" /\ c.status = "failure"
          /\ c.begins = child.begins /\ c.verdict = child.verdict
          /\ c.failed = child.failed /\ c.passed = child.passed
          /\ c.stage = child.stage /\ c.frames = child.frames
          /\ c.next_prompt = child.next_prompt
      BY <1>1 DEF ChildProcesses
    <3>2. child' = c
      BY <1>1, <2>1 DEF Killed
    <3> HIDE DEF c
    <3> QED BY <2>1, <3>1, <3>2 DEF Alive
  <2>2. CASE ~Alive(child)
    <3>1. child' = child
      BY <1>1, <2>2 DEF Killed
    <3> QED BY <1>1, <2>2, <3>1 DEF PamInv, ChildInv
  <2> QED BY <2>1, <2>2
<1>3. TypeOK'
  <2>1. messages' \in Seq([kind : WorkerKinds, prompt : Nat])
    BY DEF Drops
  <2>2. host' \in [pc : HostPcs, call : Ops, after : Afters]
    BY <1>1 DEF HostPcs, Ops, Afters
  <2>3. stdin' \in Seq([kind : ParentKinds, prompt : Nat]) /\ worker_prompt' \in Nat
    BY <1>1 DEF NoPrompt
  <2>4. /\ reading' \in BOOLEAN /\ stdout' \in Seq([kind : WorkerKinds, prompt : Nat])
        /\ rest' \in [op : Ops, state : AuthStates, result : {"Ok", "Err"}]
    BY <1>1 DEF PamInv, TypeOK
  <2> QED BY <1>1, <1>2, <2>1, <2>2, <2>3, <2>4 DEF TypeOK
<1>4. CallInv'
  BY <1>1, <1>2 DEF CallInv, AtRest
<1>5. ChildInv'
  BY <1>1, <1>2 DEF PamInv, ChildInv, Alive
<1>6. TurnInv' /\ PipeInv'
  <2>1. /\ FlightInv' /\ (InFlight({"Prompt"})' => InFlight({"Prompt"})) /\ PipeInv'
    BY <1>1, <1>2, DroppingFrames
  <2>2. Asked => Asked'
    BY <1>2 DEF Asked, Alive, PamInv, ChildInv
  <2> QED BY <1>1, <2>1, <2>2 DEF PamInv, TurnInv
<1>7. BudgetInv'
  BY <1>1 DEF BudgetInv
<1>8. EventInv' /\ AuthenticatedIsVerified'
  BY <1>1 DEF EventInv, EventsTellTheOutcome, AuthenticatedIsVerified, AtRest
<1> QED BY <1>3, <1>4, <1>5, <1>6, <1>7, <1>8 DEF PamInv

\* A call returns without a worker: the process it had is dead or was never there.
LEMMA SettlesKeeps ==
  ASSUME PamInv, NEW call \in Ops, NEW c \in Conversations, NEW result \in {"Ok", "Err"},
         Return(call, c, result), UNCHANGED childVars,
         ~Alive(child), host.pc # "driving", worker' = FALSE, worker_prompt' = NoPrompt,
         received_frames' \in Nat, received_frames' <= MaxFrames,
         c.state \in RestStates \ {"Waiting"},
         \/ conversation.state = "Authenticated" /\ c.state = "Authenticated"
         \/ /\ c.state = "Authenticated"
            /\ child.status = "success" /\ child.verdict = "Authenticated"
         \/ c.state # "Authenticated",
         EventsTellTheOutcome'
  PROVE  PamInv'
<1>1. /\ conversation' = c
      /\ host' = [pc |-> "returned", call |-> call, after |-> "none"]
      /\ rest' = [op |-> call, state |-> c.state, result |-> result]
      /\ UNCHANGED <<child, stdin, stdout, reading, messages>>
  BY DEF Return, HostAt, childVars
<1>2. TypeOK'
  <2>1. host' \in [pc : HostPcs, call : Ops, after : Afters]
    BY <1>1 DEF HostPcs, Afters
  <2>2. rest' \in [op : Ops, state : AuthStates, result : {"Ok", "Err"}]
    BY <1>1 DEF Conversations
  <2>3. worker' \in BOOLEAN /\ worker_prompt' \in Nat /\ conversation' \in Conversations
    BY <1>1 DEF NoPrompt
  <2> QED BY <1>1, <2>1, <2>2, <2>3 DEF PamInv, TypeOK
<1>3. CallInv'
  BY <1>1 DEF CallInv, AtRest, Alive
<1>4. ChildInv'
  BY <1>1 DEF PamInv, ChildInv, Alive
<1>5. TurnInv'
  <2>1. FlightInv' /\ (InFlight({"Prompt"})' <=> InFlight({"Prompt"})) /\ (Asked' <=> Asked)
    BY <1>1 DEF PamInv, TurnInv, FlightInv, InFlight, Asked
  <2>2. stdin = <<>>
    BY DEF PamInv, TurnInv
  <2> QED BY <1>1, <2>1, <2>2 DEF PamInv, TurnInv
<1>6. PipeInv'
  BY <1>1 DEF PamInv, PipeInv, InFlight
<1>7. BudgetInv'
  BY <1>1 DEF BudgetInv
<1>8. EventInv'
  BY <1>1 DEF EventInv, AtRest
<1>9. AuthenticatedIsVerified'
  <2>1. CASE conversation.state = "Authenticated"
    BY <1>1, <2>1 DEF PamInv, AuthenticatedIsVerified
  <2>2. CASE child.status = "success" /\ child.verdict = "Authenticated"
    BY <1>1, <2>2 DEF PamInv, ChildInv, AuthenticatedIsVerified
  <2>3. CASE c.state # "Authenticated"
    BY <1>1, <2>3 DEF AuthenticatedIsVerified
  <2> QED BY <2>1, <2>2, <2>3
<1> QED BY <1>2, <1>3, <1>4, <1>5, <1>6, <1>7, <1>8, <1>9 DEF PamInv

\* A refused call changes nothing but the call that returned last.
LEMMA RefuseKeeps ==
  ASSUME PamInv, NEW call \in Ops, host.pc = "idle", Refuse(call)
  PROVE  PamInv'
<1>1. /\ host' = [pc |-> "returned", call |-> call, after |-> "none"]
      /\ rest' = [op |-> call, state |-> conversation.state, result |-> "Err"]
      /\ UNCHANGED <<conversation, worker, worker_prompt, received_frames, child, stdin,
                     stdout, reading, messages>>
  BY DEF Refuse, Return, HostAt, childVars
<1>2. TypeOK'
  <2>1. host' \in [pc : HostPcs, call : Ops, after : Afters]
    BY <1>1 DEF HostPcs, Afters
  <2>2. rest' \in [op : Ops, state : AuthStates, result : {"Ok", "Err"}]
    BY <1>1 DEF PamInv, TypeOK, Conversations
  <2> QED BY <1>1, <2>1, <2>2 DEF PamInv, TypeOK
<1>3. CallInv' /\ ChildInv'
  BY <1>1 DEF PamInv, CallInv, ChildInv, AtRest, Alive
<1>4. TurnInv' /\ PipeInv'
  BY <1>1 DEF PamInv, TurnInv, FlightInv, PipeInv, InFlight, Asked, AtRest
<1>5. BudgetInv'
  BY <1>1 DEF PamInv, BudgetInv, Budget, Slack, Ended, InFlight
<1>6. EventInv' /\ AuthenticatedIsVerified'
  BY <1>1 DEF PamInv, EventInv, EventsTellTheOutcome, AuthenticatedIsVerified, AtRest
<1> QED BY <1>2, <1>3, <1>4, <1>5, <1>6 DEF PamInv

\* The events a returned call leaves: what it was given, or one more.
LEMMA NothingAnnounced ==
  ASSUME conversation' \in Conversations,
         \A i \in DOMAIN conversation'.events : conversation'.events[i].kind = "Message",
         conversation'.state # "Waiting"
  PROVE  EventsTellTheOutcome'
<1>1. conversation'.events \in Seq(AuthEvents)
  BY DEF Conversations
<1>2. conversation'.events # <<>> => Len(conversation'.events) \in DOMAIN conversation'.events
  BY <1>1, LenProperties, EmptySeq
<1>3. \A i \in 1 .. Len(conversation'.events) - 1 : i \in DOMAIN conversation'.events
  BY <1>1, LenProperties
<1> QED BY <1>2, <1>3 DEF EventsTellTheOutcome

\* ... and one that ends with an outcome.
LEMMA OutcomeAnnounced ==
  ASSUME NEW c \in Conversations, NEW k \in EventKinds \ {"Message"}, NEW p \in 0 .. MaxPromptId,
         \A i \in DOMAIN c.events : c.events[i].kind = "Message",
         conversation' \in Conversations, conversation'.events = Push(c, k, p),
         conversation'.state = CASE k = "Prompt"               -> "Waiting"
                                 [] k = "Authenticated"        -> "Authenticated"
                                 [] k = "Cancelled"            -> "Idle"
                                 [] k = "AuthenticationFailed" -> "Failed",
         k = "Prompt" => p = conversation'.active_prompt
  PROVE  EventsTellTheOutcome'
<1>1. c.events \in Seq(AuthEvents) /\ AuthEvent(k, p) \in AuthEvents /\ AuthEvent(k, p).kind = k
  BY DEF Conversations, AuthEvents, AuthEvent
<1>2. /\ Len(conversation'.events) = Len(c.events) + 1 /\ Len(c.events) \in Nat
      /\ DOMAIN c.events = 1 .. Len(c.events)
      /\ \A i \in 1 .. Len(c.events) : conversation'.events[i] = c.events[i]
      /\ conversation'.events[Len(c.events) + 1] = AuthEvent(k, p)
  BY <1>1, AppendProperties, LenProperties DEF Push
<1>3. \A i \in 1 .. Len(conversation'.events) - 1 : conversation'.events[i].kind = "Message"
  BY <1>2
<1>4. k \in {"Prompt", "Authenticated", "Cancelled", "AuthenticationFailed"}
  BY DEF EventKinds
<1> QED BY <1>1, <1>2, <1>3, <1>4 DEF EventsTellTheOutcome

-----------------------------------------------------------------------------
(* drive_worker and what ends a call. *)

\* While a call drives the worker it has a frame left to count.
LEMMA DrivingBudget ==
  ASSUME PamInv, host.pc = "driving"
  PROVE  /\ received_frames \in Nat /\ received_frames + 1 \in Nat
         /\ received_frames + 1 <= MaxFrames
<1>1. Slack \in {0, 1} /\ Len(messages) \in Nat /\ Len(stdout) \in Nat /\ received_frames \in Nat
  BY LenProperties DEF Slack, PamInv, TypeOK
<1>2. Budget <= MaxFrames + Slack
  BY DEF PamInv, BudgetInv
<1> QED BY <1>1, <1>2, MaxFramesAssumption DEF Budget

\* A failure while driving ends the process and fails the conversation.
LEMMA FailsDrivingKeeps ==
  ASSUME PamInv, Drives, FailsDriving, NEW k \in {0, 1}, Drops(k)
  PROVE  PamInv'
<1>1. /\ host.pc = "driving" /\ received_frames' = received_frames + 1
      /\ Terminate(host.call, "fail") /\ UNCHANGED conversation
  BY DEF Drives, FailsDriving
<1>2. /\ conversation' \in Conversations /\ conversation'.state = "Authenticating"
      /\ \A i \in DOMAIN conversation'.events : conversation'.events[i].kind = "Message"
      /\ \/ host.call = "begin_reauth" /\ rest.state \in {"Idle", "Failed"}
         \/ host.call = "respond" /\ rest.state = "Waiting"
  BY <1>1 DEF PamInv, TypeOK, CallInv, EventInv, AtRest
<1> QED BY <1>1, <1>2, DrivingBudget, TerminateKeeps

\* A timeout, and a frame that is a failure.
LEMMA ReceiveFailuresKeep == ASSUME PamInv, ReceiveNothing \/ ReceiveFailure PROVE PamInv'
<1>1. CASE ReceiveNothing
  <2>1. Drives /\ FailsDriving /\ Drops(0)
    BY <1>1, DropsNone DEF ReceiveNothing
  <2> QED BY <2>1, FailsDrivingKeeps
<1>2. CASE ReceiveFailure
  <2>1. Drives /\ FailsDriving /\ Drops(1)
    BY <1>2, DropsOne DEF ReceiveFailure, Takes
  <2> QED BY <2>1, FailsDrivingKeeps
<1> QED BY <1>1, <1>2

\* What a frame that is not the last leaves of the budget.
LEMMA TakingBudget ==
  ASSUME PamInv, host.pc = "driving", child.begins = 1,
         received_frames' = received_frames + 1, Drops(1),
         UNCHANGED <<stdout, reading, child>>
  PROVE  BudgetInv'
<1>1. /\ Len(messages) \in Nat /\ Len(messages') = Len(messages) - 1
      /\ Len(stdout) \in Nat /\ received_frames \in Nat /\ child.frames \in Nat
  BY LenProperties DEF Drops, PamInv, TypeOK, ChildProcesses
<1>2. Budget' = Budget /\ Budget \in Nat
  BY <1>1 DEF Budget
<1>3. Ended => Ended'
  BY DroppingFrames
<1>4. Slack \in Nat /\ Slack' \in Nat /\ Slack <= Slack'
  BY <1>3 DEF Slack
<1>5. Budget <= MaxFrames + Slack /\ Budget <= child.frames + Slack
  BY DEF PamInv, BudgetInv
<1>6. /\ child'.frames = child.frames /\ MaxFrames \in Nat
      /\ Budget' <= MaxFrames + Slack' /\ Budget' <= child.frames + Slack'
  <2>1. ASSUME NEW b \in Nat, NEW f \in Nat, NEW s \in Nat, NEW t \in Nat, b <= f + s, s <= t
        PROVE  b <= f + t
    BY <2>1
  <2>2. MaxFrames \in Nat /\ child'.frames = child.frames
    BY MaxFramesAssumption
  <2> QED BY <1>1, <1>2, <1>4, <1>5, <2>1, <2>2
<1>7. received_frames' <= MaxFrames
  BY DrivingBudget
<1> QED BY <1>6, <1>7 DEF BudgetInv

\* The prompt passes into the parent's hands, or is refused.
LEMMA ReceivePromptKeeps == ASSUME PamInv, ReceivePrompt PROVE PamInv'
<1> DEFINE m == Head(messages)
<1>1. /\ Drives /\ messages # <<>> /\ m.kind = "Prompt" /\ messages' = Tail(messages)
      /\ host.pc = "driving" /\ received_frames' = received_frames + 1
  BY DEF ReceivePrompt, Takes, Drives
<1>2. /\ Drops(1) /\ m = messages[1] /\ 1 \in DOMAIN messages
      /\ m \in [kind : WorkerKinds, prompt : Nat]
  BY <1>1, DropsOne
<1>3. CASE FailsDriving
  BY <1>1, <1>2, <1>3, FailsDrivingKeeps
<1>4. CASE /\ worker_prompt' = m.prompt
           /\ CanEmitPrompt(conversation)
           /\ Return(host.call, EmitPrompt(conversation), "Ok")
           /\ UNCHANGED <<worker, child, stdin, stdout, reading>>
  <2> DEFINE c == EmitPrompt(conversation)
  <2>1. conversation \in Conversations /\ host.call \in {"begin_reauth", "respond"} /\ worker
    BY <1>1 DEF PamInv, TypeOK, CallInv
  <2>2. /\ c \in Conversations /\ c.state = "Waiting"
        /\ c.active_prompt = conversation.next_prompt_id
        /\ c.events = Push(conversation, "Prompt", conversation.next_prompt_id)
    BY <1>4, <2>1, EmitPromptType
  <2> HIDE DEF c
  <2>3. /\ conversation' = c
        /\ host' = [pc |-> "returned", call |-> host.call, after |-> "none"]
        /\ rest' = [op |-> host.call, state |-> "Waiting", result |-> "Ok"]
    BY <1>4, <2>2 DEF Return, HostAt, c
  <2> HIDE DEF m
  <2>4. /\ m.prompt # NoPrompt /\ m.prompt = child.next_prompt - 1
        /\ \A j \in DOMAIN messages : messages[j].kind = "Prompt" => j = 1
        /\ \A j \in DOMAIN stdout : stdout[j].kind # "Prompt"
    BY <1>1, <1>2 DEF PamInv, TurnInv, FlightInv
  <2>5. Asked /\ stdin = <<>> /\ child.begins = 1
    <3>1. InFlight({"Prompt"})
      BY <1>1, <1>2 DEF InFlight
    <3>2. child.begins # 0
      BY <1>1, <1>2 DEF PamInv, PipeInv
    <3> QED BY <3>1, <3>2 DEF PamInv, TurnInv, ChildInv, TypeOK, ChildProcesses
  <2>6. TypeOK'
    <3>1. host' \in [pc : HostPcs, call : Ops, after : Afters]
      BY <2>1, <2>3 DEF HostPcs, Ops, Afters
    <3>2. rest' \in [op : Ops, state : AuthStates, result : {"Ok", "Err"}]
      BY <2>1, <2>3 DEF Ops, AuthStates
    <3>3. /\ worker_prompt' \in Nat /\ received_frames' \in Nat
          /\ messages' \in Seq([kind : WorkerKinds, prompt : Nat])
      BY <1>1, <1>2, <1>4, DrivingBudget DEF Drops
    <3> QED BY <1>4, <2>2, <2>3, <3>1, <3>2, <3>3 DEF PamInv, TypeOK
  <2>7. CallInv' /\ ChildInv'
    BY <1>4, <2>1, <2>2, <2>3 DEF PamInv, CallInv, ChildInv, AtRest, RestStates, Alive
  <2>8. FlightInv' /\ PipeInv'
    BY <1>2, <1>4, <2>3, DroppingFrames
  <2>9. TurnInv'
    <3>1. ~InFlight({"Prompt"})'
      <4>1. \A i \in DOMAIN messages' : i + 1 \in DOMAIN messages /\ i + 1 # 1 /\ messages'[i] = messages[i + 1]
        BY <1>2 DEF Drops
      <4> QED BY <1>4, <2>4, <4>1 DEF InFlight
    <3>2. Asked' /\ AtRest' /\ worker' /\ stdin' = <<>>
      BY <1>4, <2>1, <2>3, <2>5 DEF Asked, AtRest
    <3> QED BY <1>4, <2>2, <2>3, <2>4, <2>5, <2>8, <3>1, <3>2 DEF TurnInv
  <2>10. BudgetInv'
    BY <1>1, <1>2, <1>4, <2>5, TakingBudget
  <2>11. EventInv' /\ AuthenticatedIsVerified'
    <3>1. \A i \in DOMAIN conversation.events : conversation.events[i].kind = "Message"
      BY <1>1 DEF PamInv, EventInv, AtRest
    <3>2. conversation.next_prompt_id \in 0 .. MaxPromptId
      BY <2>1, MaxPromptIdAssumption DEF Conversations
    <3>3. EventsTellTheOutcome'
      BY <2>1, <2>2, <2>3, <3>1, <3>2, OutcomeAnnounced DEF EventKinds
    <3> QED BY <2>2, <2>3, <3>3 DEF EventInv, AuthenticatedIsVerified, AtRest
  <2> QED BY <2>6, <2>7, <2>9, <2>8, <2>10, <2>11 DEF PamInv
<1> QED BY <1>3, <1>4 DEF ReceivePrompt

\* A message of the worker only adds an event.
LEMMA ReceiveMessageKeeps == ASSUME PamInv, ReceiveMessage PROVE PamInv'
<1>1. /\ messages # <<>> /\ messages' = Tail(messages)
      /\ host.pc = "driving" /\ received_frames' = received_frames + 1
      /\ conversation' = EmitMessage(conversation)
      /\ UNCHANGED <<worker, worker_prompt, host, child, stdin, stdout, reading, rest>>
  BY DEF ReceiveMessage, Takes, Drives
<1>2. Drops(1)
  BY <1>1, DropsOne
<1>3. /\ conversation \in Conversations /\ conversation' \in Conversations
      /\ conversation'.state = conversation.state /\ conversation.state = "Authenticating"
      /\ conversation'.events = Push(conversation, "Message", NoPrompt)
  BY <1>1, AnnouncingMethods DEF PamInv, TypeOK, CallInv
<1>4. TypeOK'
  <2>1. received_frames' \in Nat /\ messages' \in Seq([kind : WorkerKinds, prompt : Nat])
    BY <1>1, <1>2, DrivingBudget DEF Drops
  <2> QED BY <1>1, <1>3, <2>1 DEF PamInv, TypeOK
<1>5. CallInv' /\ ChildInv'
  BY <1>1, <1>3 DEF PamInv, CallInv, ChildInv, AtRest, Alive
<1>6. /\ FlightInv' /\ PipeInv' /\ (InFlight({"Prompt"})' => InFlight({"Prompt"}))
  BY <1>1, <1>2, DroppingFrames DEF PamInv, PipeInv
<1>7. TurnInv'
  BY <1>1, <1>3, <1>6 DEF PamInv, TurnInv, Asked, AtRest
<1>8. BudgetInv'
  <2>1. 1 \in DOMAIN messages /\ messages[1].kind = "Message"
    BY <1>1, DropsOne DEF ReceiveMessage, Takes
  <2>2. child.begins = 1
    BY <2>1 DEF PamInv, PipeInv, ChildInv, TypeOK, ChildProcesses
  <2> QED BY <1>1, <1>2, <2>2, TakingBudget
<1>9. EventInv'
  <2>1. conversation.events \in Seq(AuthEvents) /\ AuthEvent("Message", NoPrompt) \in AuthEvents
    BY <1>3, NoPromptType DEF Conversations, AuthEvents, AuthEvent, EventKinds
  <2>2. /\ DOMAIN conversation'.events = 1 .. Len(conversation.events) + 1
        /\ DOMAIN conversation.events = 1 .. Len(conversation.events)
        /\ Len(conversation.events) \in Nat
        /\ \A i \in 1 .. Len(conversation.events) :
             conversation'.events[i] = conversation.events[i]
        /\ conversation'.events[Len(conversation.events) + 1] = AuthEvent("Message", NoPrompt)
    BY <1>3, <2>1, AppendProperties, LenProperties DEF Push
  <2>3. \A i \in DOMAIN conversation'.events : conversation'.events[i].kind = "Message"
    BY <1>1, <2>2 DEF PamInv, EventInv, AtRest, AuthEvent
  <2> QED BY <1>1, <2>3 DEF EventInv, EventsTellTheOutcome
<1>10. AuthenticatedIsVerified'
  BY <1>3 DEF AuthenticatedIsVerified
<1> QED BY <1>4, <1>5, <1>6, <1>7, <1>8, <1>9, <1>10 DEF PamInv

\* A verdict is the worker's own; nothing of the transaction is left in its pipes.
LEMMA ReceiveVerdictKeeps == ASSUME PamInv, ReceiveVerdict PROVE PamInv'
<1> DEFINE m == Head(messages)
<1>1. /\ messages # <<>> /\ messages' = Tail(messages)
      /\ m.kind \in {"Authenticated", "Rejected"}
      /\ host.pc = "driving" /\ received_frames' = received_frames + 1
      /\ worker' = FALSE /\ host' = [pc |-> "finishing", call |-> host.call, after |-> m.kind]
      /\ UNCHANGED <<conversation, worker_prompt, child, stdin, stdout, reading, rest>>
  BY DEF ReceiveVerdict, Takes, Drives, HostAt
<1>2. /\ Drops(1) /\ m = messages[1] /\ 1 \in DOMAIN messages
  BY <1>1, DropsOne
<1> HIDE DEF m
<1>3. m.kind = child.verdict /\ child.begins = 1 /\ child.phase \in {"closing", "exited"}
  <2>1. InFlight(Verdicts)
    BY <1>1, <1>2 DEF InFlight, Verdicts
  <2> QED BY <1>1, <1>2, <2>1 DEF PamInv, PipeInv, ChildInv, Verdicts
<1>4. /\ ~Asked /\ stdin = <<>>
      /\ conversation.state = "Authenticating" /\ host.call \in {"begin_reauth", "respond"}
  BY <1>1, <1>3 DEF PamInv, TurnInv, CallInv, Asked
<1>5. TypeOK'
  <2>1. received_frames' \in Nat /\ messages' \in Seq([kind : WorkerKinds, prompt : Nat])
    BY <1>1, <1>2, DrivingBudget DEF Drops
  <2>2. host' \in [pc : HostPcs, call : Ops, after : Afters]
    BY <1>1, <1>4 DEF HostPcs, Ops, Afters
  <2> QED BY <1>1, <2>1, <2>2 DEF PamInv, TypeOK
<1>6. CallInv' /\ ChildInv'
  BY <1>1, <1>4 DEF PamInv, CallInv, ChildInv, AtRest, Alive
<1>7. FlightInv' /\ PipeInv' /\ (InFlight({"Prompt"})' => InFlight({"Prompt"}))
  BY <1>1, <1>2, <1>3, DroppingFrames
<1>8. TurnInv'
  BY <1>1, <1>4, <1>7 DEF PamInv, TurnInv
<1>9. BudgetInv'
  BY <1>1, <1>4, DrivingBudget DEF BudgetInv
<1>10. EventInv' /\ AuthenticatedIsVerified'
  BY <1>1, <1>4 DEF PamInv, EventInv, EventsTellTheOutcome, AuthenticatedIsVerified, AtRest
<1> QED BY <1>5, <1>6, <1>7, <1>8, <1>9, <1>10 DEF PamInv
\* The process ended: its verdict counts if it exited cleanly.
LEMMA WorkerExitedKeeps == ASSUME PamInv, WorkerExited PROVE PamInv'
<1>1. /\ host.pc = "finishing" /\ ~Alive(child) /\ UNCHANGED <<worker, received_frames, childVars>>
  BY DEF WorkerExited
<1>2. /\ conversation \in Conversations /\ conversation.state = "Authenticating"
      /\ host.call \in Ops /\ ~worker /\ worker' = FALSE
      /\ host.after \in {"Authenticated", "Rejected"} /\ host.after = child.verdict
      /\ \A i \in DOMAIN conversation.events : conversation.events[i].kind = "Message"
      /\ worker_prompt = NoPrompt
      /\ received_frames' \in Nat /\ received_frames' <= MaxFrames
  BY <1>1 DEF PamInv, TypeOK, CallInv, TurnInv, PipeInv, BudgetInv, EventInv, AtRest, Ops
<1>3. NoPrompt \in 0 .. MaxPromptId
  BY NoPromptType
<1>4. CASE /\ child.status = "success" /\ worker_prompt' = NoPrompt
           /\ host.after = "Authenticated"
           /\ Return(host.call, Authenticate(conversation), "Ok")
  <2> DEFINE c == Authenticate(conversation)
  <2>1. c \in Conversations /\ c.state = "Authenticated" /\ c.events = Push(conversation, "Authenticated", NoPrompt)
    BY <1>2, AnnouncingMethods
  <2>2. Return(host.call, c, "Ok")
    BY <1>4
  <2> HIDE DEF c
  <2>3. conversation' = c
    BY <2>2 DEF Return
  <2>4. EventsTellTheOutcome'
    BY <1>2, <1>3, <2>1, <2>3, OutcomeAnnounced DEF EventKinds
  <2> QED BY <1>1, <1>2, <1>4, <2>1, <2>2, <2>4, SettlesKeeps DEF RestStates
<1>5. CASE /\ child.status = "success" /\ worker_prompt' = NoPrompt
           /\ Return(host.call, AuthenticationFailed(conversation), "Ok")
  <2> DEFINE c == AuthenticationFailed(conversation)
  <2>1. /\ c \in Conversations /\ c.state = "Failed"
        /\ c.events = Push(conversation, "AuthenticationFailed", NoPrompt)
    BY <1>2, AnnouncingMethods
  <2>2. Return(host.call, c, "Ok")
    BY <1>5
  <2> HIDE DEF c
  <2>3. conversation' = c
    BY <2>2 DEF Return
  <2>4. EventsTellTheOutcome'
    BY <1>2, <1>3, <2>1, <2>3, OutcomeAnnounced DEF EventKinds
  <2> QED BY <1>1, <1>2, <1>5, <2>1, <2>2, <2>4, SettlesKeeps DEF RestStates
<1>6. CASE worker_prompt' = worker_prompt /\ Return(host.call, Disconnect(conversation), "Err")
  <2> DEFINE c == Disconnect(conversation)
  <2>1. c \in Conversations /\ c.state = "Disconnected" /\ c.events = conversation.events
    BY <1>2, QuietMethods
  <2>2. Return(host.call, c, "Err")
    BY <1>6
  <2> HIDE DEF c
  <2>3. conversation' = c
    BY <2>2 DEF Return
  <2>4. EventsTellTheOutcome'
    BY <1>2, <2>1, <2>3, NothingAnnounced
  <2> QED BY <1>1, <1>2, <1>6, <2>1, <2>2, <2>4, SettlesKeeps DEF RestStates
<1> QED BY <1>4, <1>5, <1>6 DEF WorkerExited

\* The process did not end: it is killed and the verdict forgotten.
LEMMA ExitTimeoutKeeps == ASSUME PamInv, ExitTimeout PROVE PamInv'
<1>1. /\ host.pc = "finishing" /\ Terminate(host.call, "disconnect") /\ Drops(0)
      /\ UNCHANGED <<conversation, received_frames, messages>>
  BY DropsNone DEF ExitTimeout
<1>2. /\ conversation' \in Conversations /\ conversation'.state = "Authenticating"
      /\ \A i \in DOMAIN conversation'.events : conversation'.events[i].kind = "Message"
      /\ \/ host.call = "begin_reauth" /\ rest.state \in {"Idle", "Failed"}
         \/ host.call = "respond" /\ rest.state = "Waiting"
      /\ received_frames' \in Nat /\ received_frames' <= MaxFrames
  BY <1>1 DEF PamInv, TypeOK, CallInv, EventInv, BudgetInv, AtRest
<1> QED BY <1>1, <1>2, TerminateKeeps

\* The reader is joined and the call says what became of it.
LEMMA TerminateReturnsKeeps == ASSUME PamInv, TerminateReturns PROVE PamInv'
<1> DEFINE c == AfterTerminate(host.after, conversation)
           result == IF host.after = "cancelled" THEN "Ok" ELSE "Err"
<1>1. /\ host.pc = "terminating" /\ Return(host.call, c, result)
      /\ UNCHANGED <<worker, worker_prompt, received_frames, childVars>>
  BY DEF TerminateReturns
<1>2. /\ conversation \in Conversations /\ host.call \in Ops
      /\ worker' = FALSE /\ worker_prompt' = NoPrompt /\ ~Alive(child)
      /\ host.after \in {"fail", "disconnect", "cancelled"}
      /\ \A i \in DOMAIN conversation.events : conversation.events[i].kind = "Message"
      /\ received_frames' \in Nat /\ received_frames' <= MaxFrames
  BY <1>1 DEF PamInv, TypeOK, CallInv, TurnInv, BudgetInv, EventInv, AtRest, Ops
<1>3. /\ c \in Conversations
      /\ \/ c.state \in {"Failed", "Disconnected"} /\ c.events = conversation.events
         \/ c.state = "Idle" /\ c.events = Push(conversation, "Cancelled", NoPrompt)
  BY <1>2, QuietMethods, AnnouncingMethods DEF AfterTerminate
<1>4. result \in {"Ok", "Err"}
  OBVIOUS
<1> HIDE DEF c, result
<1>5. conversation' = c
  BY <1>1 DEF Return
<1>6. EventsTellTheOutcome'
  <2>1. CASE c.events = conversation.events /\ c.state \in {"Failed", "Disconnected"}
    BY <1>2, <1>3, <1>5, <2>1, NothingAnnounced
  <2>2. CASE c.state = "Idle" /\ c.events = Push(conversation, "Cancelled", NoPrompt)
    BY <1>2, <1>3, <1>5, <2>2, NoPromptType, OutcomeAnnounced DEF EventKinds
  <2> QED BY <1>3, <2>1, <2>2
<1> QED BY <1>1, <1>2, <1>3, <1>4, <1>6, SettlesKeeps DEF RestStates

-----------------------------------------------------------------------------
(* begin_reauth, respond, cancel and the drain after them. *)

\* The controller takes the events and nothing else.
LEMMA DrainKeeps == ASSUME PamInv, Drain PROVE PamInv'
<1>1. /\ host.pc = "returned" /\ conversation' = DrainEvents(conversation)
      /\ host' = [pc |-> "idle", call |-> host.call, after |-> "none"]
      /\ UNCHANGED <<worker, worker_prompt, received_frames, child, stdin, stdout, reading,
                     messages, rest>>
  BY DEF Drain, HostAt, childVars
<1>2. /\ conversation' \in Conversations /\ conversation'.state = conversation.state
      /\ conversation'.events = <<>>
  BY <1>1, QuietMethods DEF PamInv, TypeOK
<1>3. TypeOK'
  <2>1. host' \in [pc : HostPcs, call : Ops, after : Afters]
    BY <1>1 DEF PamInv, TypeOK, HostPcs, Afters
  <2> QED BY <1>1, <1>2, <2>1 DEF PamInv, TypeOK
<1>4. CallInv' /\ ChildInv'
  BY <1>1, <1>2 DEF PamInv, CallInv, ChildInv, AtRest, Alive
<1>5. TurnInv' /\ PipeInv'
  BY <1>1, <1>2 DEF PamInv, TurnInv, FlightInv, PipeInv, InFlight, Asked, AtRest
<1>6. BudgetInv'
  BY <1>1, <1>2 DEF PamInv, BudgetInv, Budget, Slack, Ended, InFlight
<1>7. EventInv' /\ AuthenticatedIsVerified'
  BY <1>1, <1>2 DEF PamInv, EventInv, EventsTellTheOutcome, AuthenticatedIsVerified, AtRest
<1> QED BY <1>3, <1>4, <1>5, <1>6, <1>7 DEF PamInv

\* A worker that began nothing has at most the end of its output in the channel.
LEMMA NothingSaidYet ==
  ASSUME PamInv, child.begins = 0
  PROVE  /\ stdout = <<>> /\ ~InFlight({"Prompt"}) /\ ~InFlight(Verdicts)
         /\ Len(messages) \in Nat /\ Len(messages) <= Slack /\ Slack \in {0, 1}
<1>1. /\ stdout = <<>> /\ messages \in Seq([kind : WorkerKinds, prompt : Nat])
      /\ \A i \in DOMAIN messages : messages[i].kind = "Eof" /\ i = Len(messages)
  BY DEF PamInv, TypeOK, PipeInv, Terminal
<1>2. Len(messages) \in Nat /\ DOMAIN messages = 1 .. Len(messages)
  BY <1>1, LenProperties
<1>3. Len(messages) <= 1
  <2>1. Len(messages) # 0 => 1 \in DOMAIN messages
    BY <1>2
  <2> QED BY <1>1, <1>2, <2>1
<1>4. Len(messages) # 0 => Ended
  <2>1. Len(messages) # 0 => Len(messages) \in DOMAIN messages
    BY <1>2
  <2> QED BY <1>1, <2>1 DEF Ended, InFlight
<1> QED BY <1>1, <1>2, <1>3, <1>4 DEF InFlight, Slack, Verdicts

\* A prepared worker is told to begin.
LEMMA BeginWithWorkerKeeps ==
  ASSUME PamInv, host.pc = "idle", CanBegin(conversation), BeginWithWorker
  PROVE  PamInv'
<1>1. /\ conversation \in Conversations /\ conversation' = Begin(conversation)
      /\ worker /\ received_frames' = 0 /\ rest.state \in {"Idle", "Failed"}
      /\ child.begins = 0 /\ stdin = <<>>
  BY DEF BeginWithWorker, StartTransaction, PamInv, TypeOK, CallInv, TurnInv, AtRest, CanBegin
<1>2. /\ conversation' \in Conversations /\ conversation'.state = "Authenticating"
      /\ conversation'.events = <<>>
  BY <1>1, QuietMethods
<1>3. CASE ~Alive(child) /\ Terminate("begin_reauth", "fail") /\ UNCHANGED messages
  <2>1. /\ Drops(0) /\ received_frames' \in Nat /\ received_frames' <= MaxFrames
    BY <1>1, <1>3, DropsNone, MaxFramesAssumption
  <2> QED BY <1>1, <1>2, <1>3, <2>1, TerminateKeeps
<1>4. CASE /\ stdin' = Append(stdin, Note("Begin"))
           /\ worker_prompt' = NoPrompt
           /\ host' = Driving("begin_reauth")
           /\ UNCHANGED <<worker, child, stdout, reading, messages, rest>>
  <2>1. /\ stdin' = <<Note("Begin")>> /\ Note("Begin") \in [kind : ParentKinds, prompt : Nat]
        /\ host' = [pc |-> "driving", call |-> "begin_reauth", after |-> "none"]
    BY <1>1, <1>4 DEF Driving, HostAt, Note, Message, ParentKinds, NoPrompt
  <2>2. TypeOK'
    <3>1. /\ host' \in [pc : HostPcs, call : Ops, after : Afters]
          /\ stdin' \in Seq([kind : ParentKinds, prompt : Nat])
          /\ received_frames' \in Nat /\ worker_prompt' \in Nat
      BY <1>1, <1>4, <2>1 DEF HostPcs, Ops, Afters, NoPrompt
    <3> QED BY <1>2, <1>4, <3>1 DEF PamInv, TypeOK
  <2>3. CallInv' /\ ChildInv'
    BY <1>1, <1>2, <1>4, <2>1 DEF PamInv, CallInv, ChildInv, AtRest, Alive
  <2>4. TurnInv'
    <3>1. FlightInv' /\ ~InFlight({"Prompt"})'
      BY <1>1, <1>4, NothingSaidYet DEF PamInv, TurnInv, FlightInv, InFlight
    <3> QED BY <1>1, <1>2, <1>4, <2>1, <3>1 DEF TurnInv
  <2>5. PipeInv'
    BY <1>1, <1>4, <2>1 DEF PamInv, PipeInv, InFlight
  <2>6. BudgetInv'
    <3>1. Slack' = Slack /\ Budget' = Len(messages) + 2
      BY <1>1, <1>4, NothingSaidYet DEF Slack, Ended, InFlight, Budget
    <3>2. Budget' <= MaxFrames + Slack' /\ received_frames' <= MaxFrames
      BY <1>1, <3>1, NothingSaidYet, MaxFramesAssumption
    <3> QED BY <1>1, <1>4, <3>2 DEF BudgetInv
  <2>7. EventInv' /\ AuthenticatedIsVerified'
    BY <1>2, <2>1 DEF EventInv, EventsTellTheOutcome, AuthenticatedIsVerified, AtRest
  <2> QED BY <2>2, <2>3, <2>4, <2>5, <2>6, <2>7 DEF PamInv
<1> QED BY <1>3, <1>4 DEF BeginWithWorker

\* A new worker starts with empty pipes.
LEMMA BeginWithNewWorkerKeeps ==
  ASSUME PamInv, host.pc = "idle", CanBegin(conversation), BeginWithNewWorker
  PROVE  PamInv'
<1>1. /\ conversation \in Conversations /\ conversation' = Begin(conversation)
      /\ rest.state \in {"Idle", "Failed"} /\ rest' = rest
      /\ worker' = TRUE /\ received_frames' = 0 /\ worker_prompt' = NoPrompt
      /\ child' = FreshChild /\ stdin' = <<Note("Begin")>>
      /\ stdout' = <<>> /\ messages' = <<>> /\ reading' = TRUE
      /\ host' = [pc |-> "driving", call |-> "begin_reauth", after |-> "none"]
  BY DEF BeginWithNewWorker, StartTransaction, PamInv, TypeOK, CallInv, AtRest, CanBegin,
         Driving, HostAt
<1>2. /\ conversation' \in Conversations /\ conversation'.state = "Authenticating"
      /\ conversation'.events = <<>>
  BY <1>1, QuietMethods
<1>3. TypeOK'
  <2>1. /\ host' \in [pc : HostPcs, call : Ops, after : Afters]
        /\ received_frames' \in Nat /\ worker_prompt' \in Nat
        /\ Note("Begin") \in [kind : ParentKinds, prompt : Nat]
    BY <1>1 DEF HostPcs, Ops, Afters, NoPrompt, Note, Message, ParentKinds
  <2>2. child' \in ChildProcesses
    BY <1>1 DEF FreshChild, ChildProcesses, PamStages, Verdicts
  <2> QED BY <1>1, <1>2, <2>1, <2>2 DEF PamInv, TypeOK
<1>4. CallInv' /\ ChildInv'
  BY <1>1, <1>2 DEF CallInv, ChildInv, AtRest, Alive, FreshChild
<1>5. TurnInv'
  BY <1>1, <1>2 DEF TurnInv, FlightInv, InFlight, FreshChild, NoPrompt
<1>6. PipeInv'
  BY <1>1 DEF PipeInv, InFlight
<1>7. BudgetInv'
  BY <1>1, MaxFramesAssumption DEF BudgetInv, Budget, Slack, Ended, InFlight, FreshChild
<1>8. EventInv' /\ AuthenticatedIsVerified'
  BY <1>1, <1>2 DEF EventInv, EventsTellTheOutcome, AuthenticatedIsVerified, AtRest
<1> QED BY <1>3, <1>4, <1>5, <1>6, <1>7, <1>8 DEF PamInv

\* The spawn failed.
LEMMA BeginWithoutWorkerKeeps ==
  ASSUME PamInv, host.pc = "idle", CanBegin(conversation), BeginWithoutWorker
  PROVE  PamInv'
<1> DEFINE b == Begin(conversation)
           c == Fail(b)
<1>1. b \in Conversations /\ b.events = <<>>
  BY QuietMethods DEF PamInv, TypeOK
<1>2. Return("begin_reauth", c, "Err")
  BY DEF BeginWithoutWorker
<1> HIDE DEF b
<1>3. c \in Conversations /\ c.state = "Failed" /\ c.events = <<>>
  BY <1>1, QuietMethods
<1> HIDE DEF c
<1>4. conversation' = c
  BY <1>2 DEF Return
<1>5. EventsTellTheOutcome'
  BY <1>3, <1>4 DEF EventsTellTheOutcome
<1>6. /\ worker' = FALSE /\ worker_prompt' = NoPrompt /\ received_frames' = 0
      /\ UNCHANGED childVars /\ ~Alive(child)
  BY DEF BeginWithoutWorker, PamInv, TypeOK, CallInv, AtRest
<1>7. received_frames' \in Nat /\ received_frames' <= MaxFrames
  BY <1>6, MaxFramesAssumption
<1> QED BY <1>2, <1>3, <1>5, <1>6, <1>7, SettlesKeeps DEF RestStates, Ops

\* begin_reauth.
LEMMA BeginReauthKeeps == ASSUME PamInv, BeginReauth PROVE PamInv'
<1>1. CASE host.pc = "idle" /\ CanBegin(conversation)
  BY <1>1, BeginWithWorkerKeeps, BeginWithNewWorkerKeeps, BeginWithoutWorkerKeeps
     DEF BeginReauth
<1>2. CASE host.pc = "idle" /\ ~CanBegin(conversation)
  <2>1. Refuse("begin_reauth") /\ "begin_reauth" \in Ops
    BY <1>2 DEF BeginReauth, Ops
  <2> QED BY <1>2, <2>1, RefuseKeeps
<1> QED BY <1>1, <1>2 DEF BeginReauth

\* respond passes the turn back to the worker, under the name the worker gave its prompt.
LEMMA RespondKeeps == ASSUME PamInv, Respond PROVE PamInv'
<1>1. PICK p \in 1 .. MaxPromptId :
        \/ /\ CanRespond(conversation, p)
           /\ conversation' = BeginResponse(conversation)
           /\ UNCHANGED received_frames
           /\ \/ /\ PipesHeld(child)
                 /\ stdin' = Append(stdin, Message("Answer", AnsweredPrompt))
                 /\ worker_prompt' = NoPrompt
                 /\ host' = Driving("respond")
                 /\ UNCHANGED <<worker, child, stdout, reading, messages, rest>>
              \/ /\ ~Alive(child)
                 /\ Terminate("respond", "fail")
                 /\ UNCHANGED messages
        \/ Refuse("respond")
  BY DEF Respond
<1>2. host.pc = "idle"
  BY DEF Respond
<1>3. CASE Refuse("respond")
  <2>1. "respond" \in Ops
    BY DEF Ops
  <2> QED BY <1>2, <1>3, <2>1, RefuseKeeps
<1>4. ASSUME CanRespond(conversation, p), conversation' = BeginResponse(conversation),
             UNCHANGED received_frames
      PROVE  /\ conversation.state = "Waiting" /\ rest.state = "Waiting"
             /\ conversation' \in Conversations /\ conversation'.state = "Authenticating"
             /\ conversation'.events = <<>>
             /\ received_frames' \in Nat /\ received_frames' <= MaxFrames
  <2>1. conversation \in Conversations /\ conversation.events = <<>>
    BY <1>2 DEF PamInv, TypeOK, EventInv
  <2> QED BY <1>2, <1>4, <2>1, QuietMethods
          DEF CanRespond, PamInv, TypeOK, CallInv, BudgetInv, AtRest
<1>5. CASE /\ CanRespond(conversation, p)
           /\ conversation' = BeginResponse(conversation)
           /\ UNCHANGED received_frames
           /\ Terminate("respond", "fail")
           /\ UNCHANGED messages
  <2>1. Drops(0)
    BY <1>5, DropsNone
  <2> QED BY <1>4, <1>5, <2>1, TerminateKeeps
<1>6. CASE /\ CanRespond(conversation, p)
           /\ conversation' = BeginResponse(conversation)
           /\ UNCHANGED received_frames
           /\ stdin' = Append(stdin, Message("Answer", AnsweredPrompt))
           /\ worker_prompt' = NoPrompt
           /\ host' = Driving("respond")
           /\ UNCHANGED <<worker, child, stdout, reading, messages, rest>>
  <2>1. /\ worker /\ child.begins = 1 /\ Asked /\ stdin = <<>>
        /\ worker_prompt \in Nat /\ worker_prompt = child.next_prompt - 1
        /\ ~InFlight({"Prompt"})
    BY <1>4, <1>6 DEF PamInv, TypeOK, TurnInv
  <2>2. /\ stdin' = <<Message("Answer", child.next_prompt - 1)>>
        /\ Message("Answer", child.next_prompt - 1) \in [kind : ParentKinds, prompt : Nat]
        /\ host' = [pc |-> "driving", call |-> "respond", after |-> "none"]
    BY <1>6, <2>1 DEF AnsweredPrompt, Driving, HostAt, Message, ParentKinds
  <2>3. TypeOK'
    <3>1. /\ host' \in [pc : HostPcs, call : Ops, after : Afters]
          /\ worker_prompt' \in Nat
      BY <1>6, <2>2 DEF HostPcs, Ops, Afters, NoPrompt
    <3>2. stdin' \in Seq([kind : ParentKinds, prompt : Nat])
      BY <2>2
    <3> QED BY <1>4, <1>6, <3>1, <3>2 DEF PamInv, TypeOK
  <2>4. CallInv' /\ ChildInv'
    BY <1>4, <1>6, <2>1, <2>2 DEF PamInv, CallInv, ChildInv, AtRest, Alive
  <2>5. TurnInv'
    <3>1. FlightInv' /\ ~InFlight({"Prompt"})' /\ Asked'
      BY <1>6, <2>1 DEF PamInv, TurnInv, FlightInv, InFlight, Asked
    <3> QED BY <1>4, <1>6, <2>1, <2>2, <3>1 DEF TurnInv
  <2>6. PipeInv'
    BY <1>6, <2>2 DEF PamInv, PipeInv, InFlight
  <2>7. BudgetInv'
    BY <1>4, <1>6, <2>1 DEF PamInv, BudgetInv, Budget, Slack, Ended, InFlight
  <2>8. EventInv' /\ AuthenticatedIsVerified'
    BY <1>4, <1>6, <2>2 DEF EventInv, EventsTellTheOutcome, AuthenticatedIsVerified, AtRest
  <2> QED BY <2>3, <2>4, <2>5, <2>6, <2>7, <2>8 DEF PamInv
<1> QED BY <1>1, <1>3, <1>5, <1>6

\* cancel ends the worker if there is one, and the conversation in any case.
LEMMA CancelKeeps == ASSUME PamInv, Cancel PROVE PamInv'
<1> DEFINE b == BeginCancel(conversation)
           c == FinishCancel(b)
<1>1. host.pc = "idle"
  BY DEF Cancel
<1>2. /\ conversation \in Conversations /\ conversation.events = <<>>
      /\ rest.state = conversation.state /\ conversation.state \in RestStates
      /\ received_frames \in Nat /\ received_frames <= MaxFrames
  BY <1>1 DEF PamInv, TypeOK, EventInv, CallInv, BudgetInv, AtRest
<1>3. b \in Conversations /\ b.state = "Cancelling" /\ b.events = <<>>
  BY <1>2, QuietMethods
<1>4. CASE /\ NeedsCancel(conversation) /\ worker
           /\ conversation' = b
           /\ Terminate("cancel", "cancelled")
           /\ UNCHANGED <<received_frames, messages>>
  <2>1. Drops(0) /\ rest.state \in {"Waiting", "Authenticated"}
    BY <1>2, <1>4, DropsNone DEF NeedsCancel, RestStates
  <2> HIDE DEF b
  <2> QED BY <1>2, <1>3, <1>4, <2>1, TerminateKeeps
<1>5. CASE /\ NeedsCancel(conversation) /\ ~worker
           /\ Return("cancel", c, "Ok")
           /\ worker_prompt' = NoPrompt
           /\ UNCHANGED <<worker, received_frames, childVars>>
  <2> HIDE DEF b
  <2>1. c \in Conversations /\ c.state = "Idle" /\ c.events = Push(b, "Cancelled", NoPrompt)
    BY <1>3, AnnouncingMethods
  <2> HIDE DEF c
  <2>2. conversation' = c
    BY <1>5 DEF Return
  <2>3. EventsTellTheOutcome'
    BY <1>3, <2>1, <2>2, NoPromptType, OutcomeAnnounced DEF EventKinds
  <2>4. ~Alive(child) /\ worker' = FALSE
    BY <1>1, <1>5 DEF PamInv, TypeOK, CallInv, AtRest
  <2> QED BY <1>1, <1>2, <1>5, <2>1, <2>3, <2>4, SettlesKeeps DEF RestStates, Ops
<1>6. CASE Refuse("cancel")
  <2>1. "cancel" \in Ops
    BY DEF Ops
  <2> QED BY <1>1, <1>6, <2>1, RefuseKeeps
<1> QED BY <1>4, <1>5, <1>6 DEF Cancel
-----------------------------------------------------------------------------
(* The theorems. *)

\* Every step of the call, of the process and of the reader keeps the invariant.
LEMMA StepKeeps == ASSUME PamInv, [Next]_vars PROVE PamInv'
<1>1. CASE UNCHANGED vars
  <2>1. UNCHANGED <<conversation, worker, worker_prompt, received_frames, host, child, stdin,
                    stdout, reading, messages, rest>>
    BY <1>1 DEF vars, childVars
  <2>2. TypeOK' /\ CallInv' /\ ChildInv'
    BY <2>1 DEF PamInv, TypeOK, CallInv, ChildInv, AtRest, Alive
  <2>3. TurnInv' /\ PipeInv'
    BY <2>1 DEF PamInv, TurnInv, FlightInv, PipeInv, InFlight, Asked, AtRest
  <2>4. BudgetInv' /\ EventInv' /\ AuthenticatedIsVerified'
    BY <2>1 DEF PamInv, BudgetInv, Budget, Slack, Ended, InFlight, EventInv,
                EventsTellTheOutcome, AuthenticatedIsVerified, AtRest
  <2> QED BY <2>2, <2>3, <2>4 DEF PamInv
<1>2. CASE Calls
  BY <1>2, BeginReauthKeeps, RespondKeeps, CancelKeeps DEF Calls
<1>3. CASE HostSteps
  BY <1>3, TerminateReturnsKeeps, DrainKeeps, ReceiveFailuresKeep, ReceivePromptKeeps,
     ReceiveMessageKeeps, ReceiveVerdictKeeps, WorkerExitedKeeps, ExitTimeoutKeeps
     DEF HostSteps
<1>4. CASE ChildSteps
  BY <1>4, WaitForBeginKeeps, PamPromptsKeeps, ReadAnswerKeeps, PamSendsMessageKeeps,
     PamReturnsKeeps, HelperStepsKeep, ReportVerdictKeeps, ChildEndsKeeps DEF ChildSteps
<1>5. CASE Reader
  BY <1>5, ForwardMessageKeeps, ForwardEofKeeps DEF Reader
<1> QED BY <1>1, <1>2, <1>3, <1>4, <1>5 DEF Next

\* PamInv is inductive.
THEOREM PamInvariant == Spec => []PamInv
<1>1. Init => PamInv
  BY InitHolds
<1>2. PamInv /\ [Next]_vars => PamInv'
  BY StepKeeps
<1> QED BY <1>1, <1>2, PTL DEF Spec

\* Type correctness; with the guard of emit_prompt no identifier is issued past the last.
THEOREM PamTypeCorrect == Spec => []TypeOK
<1>1. PamInv => TypeOK
  BY DEF PamInv
<1> QED BY <1>1, PamInvariant, PTL

\* The conversation is Authenticated only on the verdict of the process that served the
\* transaction, after both PAM stages and a clean exit.
THEOREM VerdictIsVerified == Spec => []AuthenticatedIsVerified
<1>1. PamInv => AuthenticatedIsVerified
  BY DEF PamInv
<1> QED BY <1>1, PamInvariant, PTL

\* A process serves one transaction and survives it only while its prompt is open.
THEOREM OneTransaction == Spec => []OneTransactionPerProcess
<1>1. PamInv => OneTransactionPerProcess
  <2>1. SUFFICES ASSUME PamInv, AtRest, conversation.state # "Waiting"
                 PROVE  child.phase \in {"ready", "exited"} /\ stdin = <<>>
    BY DEF PamInv, ChildInv, OneTransactionPerProcess, AtRest
  <2>2. worker => child.phase \in {"ready", "exited"}
    <3>1. worker => child.begins = 0
      BY <2>1 DEF PamInv, CallInv
    <3> QED BY <2>1, <3>1 DEF PamInv, ChildInv
  <2>3. ~worker => child.phase \in {"ready", "exited"}
    BY <2>1 DEF PamInv, CallInv, ChildInv
  <2>4. child.phase \in {"ready", "exited"} /\ stdin = <<>>
    <3>1. child.phase \in {"ready", "exited"}
      BY <2>2, <2>3
    <3> QED BY <2>1, <3>1 DEF PamInv, TurnInv, AtRest
  <2> QED BY <2>4
<1> QED BY <1>1, PamInvariant, PTL

\* An answer in the worker's stdin names the prompt the worker waits for, or a worker
\* that no longer reads.
THEOREM AnswersArrive == Spec => []AnswersReachTheirPrompt
<1>1. PamInv => AnswersReachTheirPrompt
  <2>1. SUFFICES ASSUME PamInv, NEW i \in DOMAIN stdin, stdin[i].kind = "Answer"
                 PROVE  /\ stdin[i].prompt = child.next_prompt - 1
                        /\ child.phase \in {"answer", "exited"} \/ child.failed
    BY DEF AnswersReachTheirPrompt
  <2>2. stdin # <<>>
    BY <2>1
  <2>3. stdin # <<Note("Begin")>>
    <3>1. SUFFICES ASSUME stdin = <<Note("Begin")>> PROVE FALSE
      OBVIOUS
    <3> QED BY <2>1, <3>1 DEF Note, Message
  <2>4. stdin = <<Message("Answer", child.next_prompt - 1)>> /\ Asked
    BY <2>1, <2>2, <2>3 DEF PamInv, TurnInv
  <2>5. stdin[i] = Message("Answer", child.next_prompt - 1)
    BY <2>1, <2>4
  <2>6. child.phase \in {"answer", "exited"} \/ child.failed
    BY <2>1, <2>4 DEF Asked, PamInv, ChildInv, Alive
  <2> QED BY <2>5, <2>6 DEF Message
<1> QED BY <1>1, PamInvariant, PTL

\* The parent's own frame limit is never what ends a transaction.
THEOREM FrameBudgetSuffices == Spec => []HostWithinFrameBudget
<1>1. PamInv => HostWithinFrameBudget
  BY DEF PamInv, BudgetInv, HostWithinFrameBudget
<1> QED BY <1>1, PamInvariant, PTL

\* The events of a call that returned tell its outcome.
THEOREM OutcomeIsTold == Spec => []EventsTellTheOutcome
<1>1. PamInv => EventsTellTheOutcome
  BY DEF PamInv, EventInv
<1> QED BY <1>1, PamInvariant, PTL

-----------------------------------------------------------------------------
(* The contract: each call returns with an outcome of ReauthBackend, and nothing else    *)
(* the backend, its process or its reader does can be seen through it.                   *)

\* The outcome of a returned call is one the contract allows.
LEMMA ReturnIsACall ==
  ASSUME NEW call, NEW c, NEW result, Return(call, c, result),
         \/ /\ call = "begin_reauth"
            /\ Contract!Outcome(c.state, result) \in Contract!BeginOutcomes(rest.state)
         \/ /\ call = "respond"
            /\ Contract!Outcome(c.state, result) \in Contract!RespondOutcomes(rest.state)
         \/ /\ call = "cancel"
            /\ Contract!Outcome(c.state, result) \in Contract!CancelOutcomes(rest.state)
  PROVE  Contract!Next
<1> DEFINE o == Contract!Outcome(c.state, result)
<1>1. rest'.op = call /\ rest'.state = o.state /\ rest'.result = o.result
  BY DEF Return, Contract!Outcome
<1> HIDE DEF o
<1>2. CASE call = "begin_reauth" /\ o \in Contract!BeginOutcomes(rest.state)
  BY <1>1, <1>2 DEF Contract!Next, Contract!BeginReauth, Contract!Call
<1>3. CASE call = "respond" /\ o \in Contract!RespondOutcomes(rest.state)
  BY <1>1, <1>3 DEF Contract!Next, Contract!Respond, Contract!Call
<1>4. CASE call = "cancel" /\ o \in Contract!CancelOutcomes(rest.state)
  BY <1>1, <1>4 DEF Contract!Next, Contract!Cancel, Contract!Call
<1> QED BY <1>2, <1>3, <1>4 DEF o

\* How a call that drives the worker may end.
LEMMA AdvanceAllowed ==
  ASSUME PamInv, ~AtRest, host.call \in {"begin_reauth", "respond"},
         NEW c, NEW result, Return(host.call, c, result),
         \/ c.state \in {"Waiting", "Authenticated", "Failed"} /\ result = "Ok"
         \/ c.state \in {"Failed", "Disconnected"} /\ result = "Err"
  PROVE  Contract!Next
<1>1. Contract!Outcome(c.state, result) \in Contract!Advance
  BY DEF Contract!Outcome, Contract!Advance
<1>2. CASE host.call = "begin_reauth"
  <2>1. rest.state \in {"Idle", "Failed"}
    BY <1>2 DEF PamInv, CallInv
  <2> QED BY <1>1, <1>2, <2>1, ReturnIsACall DEF Contract!BeginOutcomes
<1>3. CASE host.call = "respond"
  <2>1. rest.state = "Waiting"
    BY <1>3 DEF PamInv, CallInv
  <2> QED BY <1>1, <1>3, <2>1, ReturnIsACall DEF Contract!RespondOutcomes
<1> QED BY <1>2, <1>3

\* The steps of a call that return from it.
LEMMA ReturningSteps ==
  ASSUME PamInv, TerminateReturns \/ ReceivePrompt \/ WorkerExited
  PROVE  Contract!Next \/ UNCHANGED rest
<1>1. conversation \in Conversations
  BY DEF PamInv, TypeOK
<1>2. CASE TerminateReturns
  <2>1. CASE host.after = "cancelled"
    <3>1. /\ Return(host.call, FinishCancel(conversation), "Ok") /\ host.call = "cancel"
          /\ rest.state \in {"Waiting", "Authenticated"}
      BY <1>2, <2>1 DEF TerminateReturns, AfterTerminate, PamInv, CallInv, AtRest
    <3>2. FinishCancel(conversation).state = "Idle"
      BY <1>1, AnnouncingMethods
    <3>3. Contract!Outcome("Idle", "Ok") \in Contract!CancelOutcomes(rest.state)
      BY <3>1 DEF Contract!CancelOutcomes, Contract!InTransaction
    <3> QED BY <3>1, <3>2, <3>3, ReturnIsACall
  <2>2. CASE host.after # "cancelled"
    <3> DEFINE c == AfterTerminate(host.after, conversation)
    <3>1. /\ Return(host.call, c, "Err") /\ ~AtRest /\ host.call \in {"begin_reauth", "respond"}
          /\ host.after \in {"fail", "disconnect"}
      BY <1>2, <2>2 DEF TerminateReturns, PamInv, CallInv, AtRest
    <3>2. c.state \in {"Failed", "Disconnected"}
      BY <1>1, <3>1, QuietMethods DEF AfterTerminate
    <3> HIDE DEF c
    <3> QED BY <3>1, <3>2, AdvanceAllowed
  <2> QED BY <2>1, <2>2
<1>3. CASE ReceivePrompt
  <2>1. CASE FailsDriving
    BY <2>1 DEF FailsDriving, Terminate
  <2>2. CASE CanEmitPrompt(conversation) /\ Return(host.call, EmitPrompt(conversation), "Ok")
    <3>1. EmitPrompt(conversation).state = "Waiting"
      BY <1>1, <2>2, EmitPromptType
    <3>2. ~AtRest /\ host.call \in {"begin_reauth", "respond"}
      BY <1>3 DEF ReceivePrompt, Takes, Drives, PamInv, CallInv, AtRest
    <3> QED BY <2>2, <3>1, <3>2, AdvanceAllowed
  <2> QED BY <1>3, <2>1, <2>2 DEF ReceivePrompt
<1>4. CASE WorkerExited
  <2>1. ~AtRest /\ host.call \in {"begin_reauth", "respond"}
    BY <1>4 DEF WorkerExited, PamInv, CallInv, AtRest
  <2>2. /\ Authenticate(conversation).state = "Authenticated"
        /\ AuthenticationFailed(conversation).state = "Failed"
        /\ Disconnect(conversation).state = "Disconnected"
    BY <1>1, QuietMethods, AnnouncingMethods
  <2>3. CASE Return(host.call, Authenticate(conversation), "Ok")
    BY <2>1, <2>2, <2>3, AdvanceAllowed
  <2>4. CASE Return(host.call, AuthenticationFailed(conversation), "Ok")
    BY <2>1, <2>2, <2>4, AdvanceAllowed
  <2>5. CASE Return(host.call, Disconnect(conversation), "Err")
    BY <2>1, <2>2, <2>5, AdvanceAllowed
  <2> QED BY <1>4, <2>3, <2>4, <2>5 DEF WorkerExited
<1> QED BY <1>2, <1>3, <1>4

\* Calls that are refused, or return at once.
LEMMA ImmediateReturns == ASSUME PamInv, Calls PROVE Contract!Next \/ UNCHANGED rest
<1>1. /\ conversation \in Conversations /\ rest.state = conversation.state
      /\ conversation.state \in RestStates
  BY DEF Calls, BeginReauth, Respond, Cancel, PamInv, TypeOK, CallInv, AtRest
<1>2. CASE BeginReauth
  <2>1. CASE ~CanBegin(conversation) /\ Return("begin_reauth", conversation, "Err")
    <3>1. Contract!Outcome(conversation.state, "Err") \in Contract!BeginOutcomes(rest.state)
      BY <1>1, <2>1 DEF CanBegin, Contract!BeginOutcomes, Contract!Refused
    <3> QED BY <2>1, <3>1, ReturnIsACall
  <2>2. CASE CanBegin(conversation) /\ Return("begin_reauth", Fail(Begin(conversation)), "Err")
    <3>1. Fail(Begin(conversation)).state = "Failed"
      BY <1>1, QuietMethods
    <3>2. Contract!Outcome("Failed", "Err") \in Contract!BeginOutcomes(rest.state)
      BY <1>1, <2>2 DEF CanBegin, Contract!BeginOutcomes, Contract!Advance
    <3> QED BY <2>2, <3>1, <3>2, ReturnIsACall
  <2>3. CASE UNCHANGED rest
    BY <2>3
  <2> QED BY <1>2, <2>1, <2>2, <2>3 DEF BeginReauth, Refuse, BeginWithWorker, BeginWithNewWorker,
                                       BeginWithoutWorker, Terminate
<1>3. CASE Respond
  <2>1. CASE Return("respond", conversation, "Err")
    <3>1. Contract!Outcome(conversation.state, "Err") \in Contract!RespondOutcomes(rest.state)
      BY <1>1 DEF Contract!RespondOutcomes, Contract!Refused
    <3> QED BY <2>1, <3>1, ReturnIsACall
  <2>2. CASE UNCHANGED rest
    BY <2>2
  <2> QED BY <1>3, <2>1, <2>2 DEF Respond, Refuse, Terminate
<1>4. CASE Cancel
  <2>1. CASE ~NeedsCancel(conversation) /\ Return("cancel", conversation, "Err")
    <3>1. Contract!Outcome(conversation.state, "Err") \in Contract!CancelOutcomes(rest.state)
      BY <1>1, <2>1 DEF NeedsCancel, Contract!CancelOutcomes, Contract!InTransaction, Contract!Refused
    <3> QED BY <2>1, <3>1, ReturnIsACall
  <2>2. CASE /\ NeedsCancel(conversation)
             /\ Return("cancel", FinishCancel(BeginCancel(conversation)), "Ok")
    <3>1. FinishCancel(BeginCancel(conversation)).state = "Idle"
      BY <1>1, QuietMethods, AnnouncingMethods
    <3>2. Contract!Outcome("Idle", "Ok") \in Contract!CancelOutcomes(rest.state)
      BY <1>1, <2>2 DEF NeedsCancel, RestStates, Contract!CancelOutcomes, Contract!InTransaction
    <3> QED BY <2>2, <3>1, <3>2, ReturnIsACall
  <2>3. CASE UNCHANGED rest
    BY <2>3
  <2> QED BY <1>4, <2>1, <2>2, <2>3 DEF Cancel, Refuse, Terminate
<1> QED BY <1>2, <1>3, <1>4 DEF Calls

\* Every step is a call of the contract or cannot be seen through it.
LEMMA StepImplements == ASSUME PamInv, [Next]_vars PROVE [Contract!Next]_(Contract!vars)
<1>1. UNCHANGED rest => UNCHANGED Contract!vars
  BY DEF Contract!vars
<1>2. CASE TerminateReturns \/ ReceivePrompt \/ WorkerExited
  BY <1>1, <1>2, ReturningSteps
<1>3. CASE Calls
  BY <1>1, <1>3, ImmediateReturns
<1>4. CASE UNCHANGED vars
  BY <1>1, <1>4 DEF vars
<1>5. CASE Drain \/ ReceiveNothing \/ ReceiveFailure \/ ReceiveMessage \/ ReceiveVerdict \/ ExitTimeout
  BY <1>1, <1>5 DEF Drain, ReceiveNothing, ReceiveFailure, ReceiveMessage, ReceiveVerdict,
                    ExitTimeout, FailsDriving, Terminate
<1>6. CASE ChildSteps \/ Reader
  BY <1>1, <1>6 DEF ChildSteps, Reader, WaitForBegin, PamStartsHelper, HelperEnds, PamPrompts, ReadAnswer, PamSendsMessage,
                    PamReturns, ReportVerdict, ChildExits, ChildCrashes, ChildStep,
                    ForwardMessage, ForwardEof, Forwards
<1> QED BY <1>2, <1>3, <1>4, <1>5, <1>6 DEF Next, HostSteps

\* PamReauthBackend implements the contract the controllers are written against.
THEOREM PamImplementsContract == Spec => ImplementsContract
<1>1. Init => Contract!Init
  BY DEF Init, Contract!Init
<1>2. PamInv /\ [Next]_vars => [Contract!Next]_(Contract!vars)
  BY StepImplements
<1> QED BY <1>1, <1>2, PamInvariant, PTL DEF Spec, ImplementsContract, Contract!Spec
=============================================================================
