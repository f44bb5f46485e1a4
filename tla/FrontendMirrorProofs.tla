------------------------ MODULE FrontendMirrorProofs -------------------------
(***************************************************************************)
(* That the pages follow the controller, for any number of views, any      *)
(* capacity of the queues and any length of the run.                       *)
(*                                                                         *)
(* What a page shows and what the controller has published are far apart:  *)
(* there may be outputs in the view's queue, a request and its answer on   *)
(* the way, a snapshot older than the events behind it.  The invariant     *)
(* relates them through the page's stream: a sequence of images, one       *)
(* before each output that waits and one after the last, such that each    *)
(* output takes the page from an image to the next, the page shows the     *)
(* first (or, before its snapshot, has seen no later event), and the last  *)
(* is the controller's public state (StreamInv).  The controller adds an   *)
(* output and an image at the end, the page takes one at the front.        *)
(*                                                                         *)
(* That a page finds in its queue the answers it expects is a matter of    *)
(* its own (FlightInv): a view is registered once and before its requests, *)
(* nothing in flight is of a page to come, and a page awaits exactly the   *)
(* one request or answer of its epoch.                                     *)
(*                                                                         *)
(* A page receives a batch by a fold (ReceiveAll).  No batch has more than *)
(* three events, so the fold is unfolded three times: induction over its   *)
(* length is not needed.                                                   *)
(***************************************************************************)
EXTENDS FrontendMirror, SequenceTheorems, TLAPS

-----------------------------------------------------------------------------
(* What a page makes of a batch of events: the fold, unfolded.             *)

IsFold(g, p, events, n) ==
  g = [s \in SUBSET (1 .. n) |->
         IF s = {} THEN p ELSE ReceiveEvent(g[s \ {Max(s)}], events[Max(s)])]

\* The definition of the fold.
LEMMA ReceiveAllIsFold ==
  ASSUME NEW p, NEW events, NEW n \in Nat, DOMAIN events = 1 .. n
  PROVE  ReceiveAll(p, events) = (CHOOSE g : IsFold(g, p, events, n))[1 .. n]
<1>1. ReceiveAll(p, events) =
        (CHOOSE g : g = [s \in SUBSET (DOMAIN events) |->
           IF s = {} THEN p ELSE ReceiveEvent(g[s \ {Max(s)}], events[Max(s)])])[DOMAIN events]
  BY DEF ReceiveAll, FoldLeft, MapThenFoldSet
<1> QED BY <1>1 DEF IsFold

\* The largest element of a subset of 1 .. n + 1 that has n + 1.
LEMMA MaxOfInitial ==
  ASSUME NEW n \in Nat, NEW s \in SUBSET (1 .. (n + 1)), n + 1 \in s
  PROVE  Max(s) = n + 1
<1>1. \A y \in s : n + 1 >= y
  OBVIOUS
<1>2. \A x \in s : (\A y \in s : x >= y) => x = n + 1
  OBVIOUS
<1> QED BY <1>1, <1>2 DEF Max

\* A fold over n events is one over n + 1.
LEMMA FoldExtends ==
  ASSUME NEW p, NEW events, NEW n \in Nat, NEW g, IsFold(g, p, events, n)
  PROVE  \E h : IsFold(h, p, events, n + 1)
<1> DEFINE h == [s \in SUBSET (1 .. (n + 1)) |->
                   IF n + 1 \in s THEN ReceiveEvent(g[s \ {n + 1}], events[n + 1]) ELSE g[s]]
<1>1. ASSUME NEW s \in SUBSET (1 .. (n + 1)), n + 1 \notin s
      PROVE  s \in SUBSET (1 .. n) /\ h[s] = g[s]
             /\ s \ {Max(s)} \in SUBSET (1 .. n) /\ h[s \ {Max(s)}] = g[s \ {Max(s)}]
  <2>1. \A t \in SUBSET (1 .. (n + 1)) : n + 1 \notin t => t \in SUBSET (1 .. n) /\ h[t] = g[t]
    OBVIOUS
  <2>2. s \ {Max(s)} \in SUBSET (1 .. (n + 1)) /\ n + 1 \notin s \ {Max(s)}
    BY <1>1
  <2> QED BY <1>1, <2>1, <2>2
<1>2. ASSUME NEW s \in SUBSET (1 .. (n + 1))
      PROVE  h[s] = IF s = {} THEN p ELSE ReceiveEvent(h[s \ {Max(s)}], events[Max(s)])
  <2>1. CASE n + 1 \notin s
    <3>1. g[s] = IF s = {} THEN p ELSE ReceiveEvent(g[s \ {Max(s)}], events[Max(s)])
      BY <1>1, <2>1 DEF IsFold
    <3> QED BY <1>1, <2>1, <3>1
  <2>2. CASE n + 1 \in s
    <3>1. Max(s) = n + 1 /\ s # {}
      BY <2>2, MaxOfInitial
    <3>2. s \ {n + 1} \in SUBSET (1 .. (n + 1)) /\ n + 1 \notin s \ {n + 1}
      OBVIOUS
    <3>3. h[s \ {n + 1}] = g[s \ {n + 1}]
      BY <1>1, <3>2
    <3>4. h[s] = ReceiveEvent(g[s \ {n + 1}], events[n + 1])
      BY <2>2
    <3> QED BY <3>1, <3>3, <3>4
  <2> QED BY <2>1, <2>2
<1>3. h = [s \in SUBSET (1 .. (n + 1)) |->
             IF s = {} THEN p ELSE ReceiveEvent(h[s \ {Max(s)}], events[Max(s)])]
  <2> HIDE DEF h
  <2>1. DOMAIN h = SUBSET (1 .. (n + 1)) /\ h = [s \in DOMAIN h |-> h[s]]
    BY DEF h
  <2> QED BY <1>2, <2>1
<1>4. IsFold(h, p, events, n + 1)
  BY <1>3, Zenon DEF IsFold
<1> QED BY <1>4

\* No batch has more events than three: the state, a cancellation and what followed it.
LEMMA FoldExists ==
  ASSUME NEW p, NEW events
  PROVE  \A n \in 0 .. 3 : \E g : IsFold(g, p, events, n)
<1>1. \E g : IsFold(g, p, events, 0)
  <2>1. IsFold([s \in SUBSET (1 .. 0) |-> p], p, events, 0)
    <3>1. \A s \in SUBSET (1 .. 0) : s = {}
      OBVIOUS
    <3> QED BY <3>1 DEF IsFold
  <2> QED BY <2>1
<1>2. \E g : IsFold(g, p, events, 0 + 1)
  BY <1>1, FoldExtends
<1>3. \E g : IsFold(g, p, events, 1 + 1)
  BY <1>2, FoldExtends
<1>4. \E g : IsFold(g, p, events, 2 + 1)
  BY <1>3, FoldExtends
<1> QED BY <1>1, <1>2, <1>3, <1>4

\* What a fold says of no event, and of one more.
LEMMA FoldBase ==
  ASSUME NEW p, NEW events, NEW n \in Nat, NEW g, IsFold(g, p, events, n)
  PROVE  g[{}] = p
  BY DEF IsFold

\* What a fold says of the first k + 1 events.
LEMMA FoldValue ==
  ASSUME NEW p, NEW events, NEW n \in Nat, NEW g, IsFold(g, p, events, n)
  PROVE  \A k \in 0 .. (n - 1) : g[1 .. (k + 1)] = ReceiveEvent(g[1 .. k], events[k + 1])
<1>1. ASSUME NEW k \in 0 .. (n - 1)
      PROVE  g[1 .. (k + 1)] = ReceiveEvent(g[1 .. k], events[k + 1])
  <2>1. 1 .. (k + 1) \in SUBSET (1 .. n) /\ 1 .. (k + 1) # {}
    OBVIOUS
  <2>2. Max(1 .. (k + 1)) = k + 1
    BY MaxOfInitial
  <2>3. (1 .. (k + 1)) \ {k + 1} = 1 .. k
    OBVIOUS
  <2>4. g[1 .. (k + 1)] = ReceiveEvent(g[(1 .. (k + 1)) \ {Max(1 .. (k + 1))}],
                                       events[Max(1 .. (k + 1))])
    BY <2>1 DEF IsFold
  <2> QED BY <2>2, <2>3, <2>4
<1> QED BY <1>1

\* A page receives the events of a batch one after the other.
LEMMA ReceivesInOrder ==
  ASSUME NEW p, NEW S, NEW events \in Seq(S), Len(events) <= 3
  PROVE  \E q : /\ q[0] = p
                /\ \A k \in 0 .. (Len(events) - 1) : q[k + 1] = ReceiveEvent(q[k], events[k + 1])
                /\ ReceiveAll(p, events) = q[Len(events)]
<1> DEFINE n == Len(events)
<1>1. n \in Nat /\ n \in 0 .. 3 /\ DOMAIN events = 1 .. n
  <2>1. Len(events) \in Nat /\ DOMAIN events = 1 .. Len(events)
    BY LenProperties
  <2> QED BY <2>1
<1> HIDE DEF n
<1>2. PICK g : IsFold(g, p, events, n) /\ ReceiveAll(p, events) = g[1 .. n]
  <2>1. ReceiveAll(p, events) = (CHOOSE g : IsFold(g, p, events, n))[1 .. n]
    BY <1>1, ReceiveAllIsFold
  <2>2. \E g : IsFold(g, p, events, n)
    BY <1>1, FoldExists
  <2> QED BY <2>1, <2>2
<1> DEFINE q == [k \in 0 .. n |-> g[1 .. k]]
<1>3. q[0] = p
  <2>1. 1 .. 0 = {}
    OBVIOUS
  <2>2. g[{}] = p
    BY <1>1, <1>2, FoldBase
  <2> QED BY <1>1, <2>1, <2>2
<1>4. ASSUME NEW k \in 0 .. (n - 1)
      PROVE  q[k + 1] = ReceiveEvent(q[k], events[k + 1])
  <2>1. \A j \in 0 .. (n - 1) : g[1 .. (j + 1)] = ReceiveEvent(g[1 .. j], events[j + 1])
    BY <1>1, <1>2, FoldValue
  <2>2. k \in 0 .. n /\ k + 1 \in 0 .. n
    BY <1>1
  <2> QED BY <2>1, <2>2
<1>5. ReceiveAll(p, events) = q[n]
  BY <1>1, <1>2
<1> HIDE DEF q
<1> QED BY <1>3, <1>4, <1>5 DEF n
-----------------------------------------------------------------------------
(* Types.  No batch has more events than three: the state, the end of the  *)
(* transaction that was cancelled, and what the next one led to.           *)

Shown           == RestStates \ {"Disconnected"}
SequenceNumbers == 0 .. MaxSequence

EventKinds == {"state.changed", "auth.prompt", "auth.succeeded", "auth.failed", "auth.cancelled"}
CoreEventTypes == [kind : EventKinds, state : Shown \cup {"none"}]
EventTypes     == [sequence : 1 .. MaxSequence, kind : EventKinds, state : Shown \cup {"none"}]
Batches        == {events \in Seq(EventTypes) : Len(events) <= 3}

Replies     == [authentication : Shown \cup {"none"}, prompt : SequenceNumbers, sequence : SequenceNumbers]
OutputTypes ==
  {o \in [kind : {"Ready", "Batch", "Events", "Fatal"}, epoch : 0 .. MaxPageEpoch,
          reply : Replies, events : Batches] :
     /\ o.kind \in {"Ready", "Fatal"} => o.events = <<>>
     /\ o.kind # "Batch" => o.reply = NoSnapshot
     /\ o.reply # NoSnapshot => o.events = <<>>}

RequestKinds == {"get", "begin", "respond", "cancel", "power"}
CommandTypes ==
  {c \in [kind : {"Register", "Detach", "Request", "CancelForPage", "PrepareForSleep",
                  "ResumeAfterSleep"},
          view : Views \cup {NoView}, epoch : 0 .. MaxPageEpoch,
          request : RequestKinds \cup {"none"}, prompt : SequenceNumbers] :
     /\ c.kind \in {"Register", "Detach", "Request"} => c.view \in Views
     /\ c.kind = "Request" => c.request \in RequestKinds}

PageTypes == [phase : Phases, last : SequenceNumbers, authentication : Shown \cup {"none"},
              prompt : SequenceNumbers, missed : BOOLEAN]

ControllerTypes ==
  /\ client \in RestStates
  /\ locked \in BOOLEAN
  /\ authentication = PublicState(client)
  /\ prompt \in SequenceNumbers
  /\ next \in 1 .. (MaxSequence + 1)
  /\ silent \in BOOLEAN
QueueTypes ==
  /\ running \in BOOLEAN
  /\ cmds \in Seq(CommandTypes) /\ Len(cmds) <= CommandCapacity
  /\ views \in SUBSET Views
OutTypes ==
  /\ out \in [Views -> Seq(OutputTypes)]
  /\ \A v \in Views : Len(out[v]) <= OutputCapacity
PageTypesOK ==
  /\ page_epoch \in [Views -> 0 .. MaxPageEpoch]
  /\ pending \in [Views -> BOOLEAN]
  /\ page \in [Views -> PageTypes]
  /\ sleep_preparing \in BOOLEAN
MirrorTypes == ControllerTypes /\ QueueTypes /\ OutTypes /\ PageTypesOK

-----------------------------------------------------------------------------
(* What is in flight between a page and the controller.                    *)

Has(q, kind, v)        == \E i \in DOMAIN q : q[i].kind = kind /\ q[i].view = v
IsRequest(c, v)        == c.kind = "Request" /\ c.view = v
CurrentRequest(c, v)   == IsRequest(c, v) /\ c.epoch = page_epoch[v]
CurrentBatch(o, v)     == o.kind = "Batch" /\ o.epoch = page_epoch[v]

\* A view is registered once, before anything its page asks and before it is sent anything.
RegisterInv(v) ==
  /\ \A i, j \in DOMAIN cmds :
       (cmds[i].kind = "Register" /\ cmds[i].view = v /\ cmds[j].kind = "Register" /\ cmds[j].view = v)
         => i = j
  /\ \A i, j \in DOMAIN cmds :
       (cmds[i].kind = "Register" /\ cmds[i].view = v /\ IsRequest(cmds[j], v)) => i < j
  /\ Has(cmds, "Register", v) =>
       /\ v \notin views /\ out[v] = <<>>
       /\ page[v].phase \in {"blank", "loading", "connecting", "failed"}
       /\ page[v].last = 0
  /\ page[v].phase = "unused" =>
       ~Has(cmds, "Register", v) /\ ~Has(cmds, "Request", v) /\ v \notin views /\ out[v] = <<>>

\* Nothing is of a page to come, and after what is of this page nothing is of the last.
OrderInv(v) ==
  /\ \A i \in DOMAIN cmds : IsRequest(cmds[i], v) => cmds[i].epoch <= page_epoch[v]
  /\ \A i \in DOMAIN out[v] : out[v][i].kind = "Batch" => out[v][i].epoch <= page_epoch[v]
  /\ \A i, j \in DOMAIN cmds : i < j /\ CurrentRequest(cmds[i], v) => ~IsRequest(cmds[j], v)
  /\ \A i, j \in DOMAIN out[v] :
       i < j /\ CurrentBatch(out[v][i], v) => out[v][j].kind # "Batch"
  /\ \A i \in DOMAIN out[v] : CurrentBatch(out[v][i], v) => ~Has(cmds, "Request", v)

\* The page awaits what is under way, and only that; the answer will be what it expects.
AwaitInv(v) ==
  /\ page[v].phase \in {"unused", "blank", "loading", "bootstrapped", "failed"} => ~pending[v]
  /\ Alive(v) /\ ~pending[v] =>
       /\ \A i \in DOMAIN cmds : ~CurrentRequest(cmds[i], v)
       /\ \A i \in DOMAIN out[v] : ~CurrentBatch(out[v][i], v)
  /\ (pending[v] /\ running /\ (v \in views \/ Has(cmds, "Register", v))) =>
       \/ \E i \in DOMAIN cmds : CurrentRequest(cmds[i], v)
       \/ \E i \in DOMAIN out[v] : CurrentBatch(out[v][i], v)
  /\ page[v].phase \in {"connecting", "initializing"} =>
       /\ \A i \in DOMAIN cmds : CurrentRequest(cmds[i], v) => cmds[i].request = "get"
       /\ \A i \in DOMAIN out[v] : CurrentBatch(out[v][i], v) => out[v][i].reply # NoSnapshot
  /\ page[v].phase \in {"bootstrapped", "initializing", "ready"} =>
       /\ \A i \in DOMAIN cmds : IsRequest(cmds[i], v) => cmds[i].epoch = page_epoch[v]
       /\ \A i \in DOMAIN out[v] : out[v][i].kind = "Batch" => out[v][i].epoch = page_epoch[v]
  /\ page[v].phase = "ready" =>
       /\ \A i \in DOMAIN cmds : IsRequest(cmds[i], v) => cmds[i].request # "get"
       /\ \A i \in DOMAIN out[v] : out[v][i].reply = NoSnapshot

FlightInv == \A v \in Views : RegisterInv(v) /\ OrderInv(v) /\ AwaitInv(v)

-----------------------------------------------------------------------------
(* The stream of events of a view: what the page would show before each    *)
(* output that waits for it, and after the last.                           *)

Images == [last : SequenceNumbers, authentication : Shown, prompt : SequenceNumbers]

Announced(events, shown) ==
  IF events # <<>> /\ events[1].kind = "state.changed" THEN events[1].state ELSE shown

\* A batch carries on where the stream is, changes the state first if at all, and ends with
\* the prompt that a waiting login shows.
Continued(events, last, shown) ==
  /\ \A i \in DOMAIN events : /\ events[i].sequence = last + i
                              /\ events[i].kind = "state.changed" => i = 1
  /\ events # <<>> /\ shown = "Waiting" => events[Len(events)].kind = "auth.prompt"

\* One output takes the page from k to l.
Step(k, o, l) ==
  \/ /\ o.reply # NoSnapshot
     /\ o.events = <<>>
     /\ o.reply.sequence = k.last
     /\ l.last = k.last /\ l.authentication = o.reply.authentication /\ l.prompt = o.reply.prompt
  \/ /\ o.reply = NoSnapshot
     /\ Continued(o.events, k.last, l.authentication)
     /\ l.last = k.last + Len(o.events)
     /\ l.authentication = Announced(o.events, k.authentication)
     /\ l.authentication = "Waiting" =>
          l.prompt = IF o.events = <<>> THEN k.prompt ELSE l.last

\* A page that follows shows the first image; another has seen nothing the snapshot that it
\* waits for does not know of.
Shows(p, k) ==
  /\ ~p.missed
  /\ p.last <= k.last
  /\ p.phase = "ready" =>
       /\ p.last = k.last
       /\ p.authentication = k.authentication
       /\ p.authentication = "Waiting" => p.prompt = k.prompt

\* The last image is the controller's public state.
IsPublic(k) ==
  /\ k.last = Watermark
  /\ ~silent => /\ k.authentication = authentication
                /\ authentication = "Waiting" => k.prompt = prompt

Streams(q, p) ==
  \E K \in [1 .. (Len(q) + 1) -> Images] :
    /\ Shows(p, K[1])
    /\ \A i \in 1 .. Len(q) : Step(K[i], q[i], K[i + 1])
    /\ IsPublic(K[Len(q) + 1])

StreamInv ==
  /\ silent => client = "Idle"
  /\ \A v \in Views : page[v].phase # "ready" => ~page[v].missed
  /\ \A v \in views : Streams(out[v], page[v])

MirrorInv == MirrorTypes /\ FlightInv /\ StreamInv
-----------------------------------------------------------------------------
(* Sequences by their positions.                                           *)

\* The tail of a queue, by position.
LEMMA TailAt ==
  ASSUME NEW S, NEW q \in Seq(S), q # <<>>
  PROVE  /\ Len(q) \in Nat \ {0} /\ DOMAIN q = 1 .. Len(q) /\ Head(q) = q[1] /\ Head(q) \in S
         /\ Tail(q) \in Seq(S) /\ Len(Tail(q)) = Len(q) - 1
         /\ DOMAIN Tail(q) = 1 .. (Len(q) - 1)
         /\ \A i \in 1 .. (Len(q) - 1) : Tail(q)[i] = q[i + 1]
<1>1. Len(q) \in Nat /\ DOMAIN q = 1 .. Len(q) /\ Len(q) # 0
  BY LenProperties, EmptySeq
<1>2. /\ Head(q) \in S /\ Tail(q) \in Seq(S) /\ Len(Tail(q)) = Len(q) - 1
      /\ \A i \in 1 .. Len(Tail(q)) : Tail(q)[i] = q[i + 1]
  BY HeadTailProperties
<1>3. DOMAIN Tail(q) = 1 .. Len(Tail(q))
  BY <1>2, LenProperties
<1>4. Head(q) = q[1]
  OBVIOUS
<1> QED BY <1>1, <1>2, <1>3, <1>4

\* A queue with one more element, by position.
LEMMA AppendAt ==
  ASSUME NEW S, NEW q \in Seq(S), NEW e \in S
  PROVE  /\ Len(q) \in Nat /\ DOMAIN q = 1 .. Len(q)
         /\ Append(q, e) \in Seq(S) /\ Len(Append(q, e)) = Len(q) + 1
         /\ DOMAIN Append(q, e) = 1 .. (Len(q) + 1)
         /\ \A i \in 1 .. Len(q) : Append(q, e)[i] = q[i]
         /\ Append(q, e)[Len(q) + 1] = e
<1>1. Len(q) \in Nat /\ DOMAIN q = 1 .. Len(q)
  BY LenProperties
<1>2. /\ Append(q, e) \in Seq(S) /\ Len(Append(q, e)) = Len(q) + 1
      /\ \A i \in 1 .. Len(q) : Append(q, e)[i] = q[i] /\ Append(q, e)[Len(q) + 1] = e
  BY AppendProperties
<1>3. DOMAIN Append(q, e) = 1 .. Len(Append(q, e))
  BY <1>2, LenProperties
<1> QED BY <1>1, <1>2, <1>3, AppendProperties

\* A sequence of one element.
LEMMA OneAt ==
  ASSUME NEW S, NEW e \in S
  PROVE  /\ <<e>> \in Seq(S) /\ Len(<<e>>) = 1 /\ DOMAIN <<e>> = 1 .. 1
         /\ <<e>>[1] = e /\ <<e>> # <<>>
  OBVIOUS

\* A sequence with nothing in front of it, or with nothing or one element behind it.
LEMMA ConcatAt ==
  ASSUME NEW S, NEW q \in Seq(S), NEW e \in S
  PROVE  q \o <<>> = q /\ <<>> \o q = q /\ q \o <<e>> = Append(q, e)
  BY ConcatEmptySeq, AppendIsConcat

\* What is given a sequence number has the type of an event that a page receives.
LEMMA NumberedAt ==
  ASSUME ControllerTypes, MaxSequence \in Nat,
         NEW events \in Seq(CoreEventTypes), ~Exhausts(events), Len(events) <= 3
  PROVE  /\ Numbered(events) \in Batches /\ Len(Numbered(events)) = Len(events)
         /\ DOMAIN Numbered(events) = DOMAIN events
         /\ \A i \in DOMAIN events : /\ Numbered(events)[i].sequence = Watermark + i
                                     /\ Numbered(events)[i].kind = events[i].kind
                                     /\ Numbered(events)[i].state = events[i].state
<1> DEFINE n == Len(events)
<1>1. n \in Nat /\ DOMAIN events = 1 .. n /\ n <= 3
  BY LenProperties
<1>2. \A i \in 1 .. n : events[i] \in CoreEventTypes
  BY <1>1, ElementOfSeq
<1>3. next \in 1 .. (MaxSequence + 1) /\ (next - 1) + n <= MaxSequence
  BY DEF ControllerTypes, Exhausts, Watermark
<1> HIDE DEF n
<1> DEFINE s == [i \in 1 .. n |->
     [sequence |-> next + i - 1, kind |-> events[i].kind, state |-> events[i].state]]
<1>4. Numbered(events) = s
  BY <1>1 DEF Numbered
<1>5. s \in [1 .. n -> EventTypes]
  <2>1. ASSUME NEW i \in 1 .. n
        PROVE  [sequence |-> next + i - 1, kind |-> events[i].kind, state |-> events[i].state]
                 \in EventTypes
    <3>1. next + i - 1 \in 1 .. MaxSequence
      BY <1>1, <1>3
    <3>2. events[i].kind \in EventKinds /\ events[i].state \in Shown \cup {"none"}
      BY <1>2 DEF CoreEventTypes
    <3> QED BY <3>1, <3>2 DEF EventTypes
  <2> QED BY <2>1
<1>6. s \in Seq(EventTypes)
  BY <1>1, <1>5, SeqDef
<1>7. Len(s) = n
  <2>1. Len(s) \in Nat /\ DOMAIN s = 1 .. Len(s)
    BY <1>6, LenProperties
  <2> QED BY <1>1, <2>1
<1>8. \A i \in 1 .. n : /\ s[i].sequence = (next - 1) + i
                        /\ s[i].kind = events[i].kind /\ s[i].state = events[i].state
  BY <1>3
<1> HIDE DEF s
<1> QED BY <1>1, <1>4, <1>5, <1>6, <1>7, <1>8 DEF n, Batches, Watermark
-----------------------------------------------------------------------------
(* The batch of events of one call to the controller.                      *)

\* What finish_batch makes of a call that ends in `state': the change of the public state
\* first, and last what a waiting login shows; no event leaves everything as it was.
Coherent(kept, state, events) ==
  /\ state \in RestStates
  /\ kept \in {prompt, NoPrompt}
  /\ events \in Seq(CoreEventTypes) /\ Len(events) <= 3
  /\ \A i \in DOMAIN events : events[i].kind = "state.changed" => i = 1
  /\ Announced(events, authentication) = PublicState(state)
  /\ events # <<>> /\ client = "Idle" => events[1].kind = "state.changed"
  /\ events # <<>> /\ state = "Waiting" => events[Len(events)].kind = "auth.prompt"
  /\ events = <<>> => PublicState(state) = authentication
  /\ events = <<>> /\ state = "Waiting" => kept = prompt

\* What precedes or ends a transaction: at most two events, none of them of the state.
Details ==
  {detail \in Seq([kind : EventKinds \ {"state.changed"}, state : {"none"}]) : Len(detail) <= 2}

\* The events of a call are events of the protocol.
LEMMA DetailType ==
  ASSUME NEW kind \in EventKinds \ {"state.changed"}
  PROVE  <<Detail(kind)>> \in Details /\ Detail(kind).kind = kind
<1>1. Detail(kind) \in [kind : EventKinds \ {"state.changed"}, state : {"none"}]
      /\ Detail(kind).kind = kind
  BY DEF Detail, Event
<1> QED BY <1>1, OneAt DEF Details

\* A call may have none (apply_core_event is not reached).
LEMMA NoDetail == <<>> \in Details
  BY EmptySeq DEF Details

\* The event of a call that ended in a state of the core (apply_core_event).
LEMMA CoreEventsAt ==
  ASSUME NEW state \in RestStates \ {"Disconnected"}
  PROVE  \E kind \in EventKinds \ {"state.changed"} :
            CoreEvents(state) = <<Detail(kind)>> /\ (state = "Waiting" => kind = "auth.prompt")
<1>1. CASE state = "Waiting"
  BY <1>1 DEF CoreEvents, EventKinds
<1>2. CASE state = "Authenticated"
  BY <1>2 DEF CoreEvents, EventKinds
<1>3. CASE state = "Failed"
  BY <1>3 DEF CoreEvents, EventKinds
<1>4. CASE state = "Idle"
  BY <1>4 DEF CoreEvents, EventKinds
<1> QED BY <1>1, <1>2, <1>3, <1>4 DEF RestStates

\* What is public of a state of the core (map_state).
LEMMA PublicStateType ==
  ASSUME NEW state \in RestStates
  PROVE  /\ PublicState(state) \in Shown
         /\ PublicState(state) = "Waiting" <=> state = "Waiting"
         /\ PublicState(state) = "Idle" <=> state = "Idle"
  BY DEF PublicState, RestStates, Shown

\* finish_batch, whatever the details are.
LEMMA BatchAt ==
  ASSUME NEW state \in RestStates, NEW detail \in Details, authentication \in Shown
  PROVE  LET events == BatchEvents(state, detail)
         IN /\ events \in Seq(CoreEventTypes) /\ Len(events) <= 3
            /\ \A i \in DOMAIN events : events[i].kind = "state.changed" => i = 1
            /\ Announced(events, authentication) = PublicState(state)
            /\ PublicState(state) # authentication =>
                 events # <<>> /\ events[1].kind = "state.changed"
            /\ PublicState(state) = authentication => events = detail
            /\ detail # <<>> => events # <<>> /\ events[Len(events)] = detail[Len(detail)]
<1> DEFINE T == [kind : EventKinds \ {"state.changed"}, state : {"none"}]
           events == BatchEvents(state, detail)
           n == Len(detail)
<1>1. /\ detail \in Seq(T) /\ n \in Nat /\ n <= 2 /\ DOMAIN detail = 1 .. n
      /\ \A i \in 1 .. n : detail[i] \in T
  <2>1. detail \in Seq(T) /\ Len(detail) <= 2
    BY DEF Details
  <2> QED BY <2>1, LenProperties, ElementOfSeq
<1>2. \A i \in 1 .. n : detail[i] \in CoreEventTypes /\ detail[i].kind # "state.changed"
  <2>1. \A e \in T : e \in CoreEventTypes /\ e.kind # "state.changed"
    BY DEF CoreEventTypes, EventKinds
  <2> QED BY <1>1, <2>1
<1>3. detail \in Seq(CoreEventTypes)
  <2>1. detail \in [1 .. n -> CoreEventTypes]
    <3>1. detail = [i \in DOMAIN detail |-> detail[i]]
      BY <1>1, LenProperties
    <3> QED BY <1>1, <1>2, <3>1
  <2> QED BY <1>1, <2>1, SeqDef
<1> HIDE DEF T, n
<1>4. CASE PublicState(state) = authentication
  <2>1. events = detail
    BY <1>3, <1>4, ConcatEmptySeq DEF BatchEvents
  <2>2. Announced(events, authentication) = authentication
    <3>1. CASE detail = <<>>
      BY <2>1, <3>1 DEF Announced
    <3>2. CASE detail # <<>>
      <4>1. 1 \in 1 .. n
        BY <1>1, <1>3, <3>2, EmptySeq DEF n
      <4> QED BY <1>2, <2>1, <4>1 DEF Announced
    <3> QED BY <3>1, <3>2
  <2>3. Len(events) <= 3 /\ \A i \in DOMAIN events : events[i].kind = "state.changed" => i = 1
    <3>1. Len(detail) <= 3
      BY <1>1 DEF n
    <3> QED BY <1>1, <1>2, <2>1, <3>1
  <2> QED BY <1>3, <1>4, <2>1, <2>2, <2>3
<1>5. CASE PublicState(state) # authentication
  <2> DEFINE c == Changed(PublicState(state))
  <2>1. c \in CoreEventTypes /\ c.kind = "state.changed" /\ c.state = PublicState(state)
    BY PublicStateType DEF Changed, Event, CoreEventTypes, EventKinds
  <2>2. events = <<c>> \o detail
    BY <1>5 DEF BatchEvents
  <2> HIDE DEF c
  <2>3. <<c>> \in Seq(CoreEventTypes) /\ Len(<<c>>) = 1 /\ <<c>>[1] = c
    BY <2>1
  <2>4. /\ events \in Seq(CoreEventTypes) /\ Len(events) = 1 + n
        /\ events[1] = c
        /\ \A i \in 2 .. (1 + n) : events[i] = detail[i - 1]
    <3>1. /\ <<c>> \o detail \in Seq(CoreEventTypes)
          /\ Len(<<c>> \o detail) = Len(<<c>>) + Len(detail)
          /\ \A i \in 1 .. Len(<<c>>) + Len(detail) :
               (<<c>> \o detail)[i] = IF i <= Len(<<c>>) THEN <<c>>[i] ELSE detail[i - Len(<<c>>)]
      BY <1>3, <2>3, ConcatProperties
    <3>2. \A i \in 1 .. 1 + n :
               (<<c>> \o detail)[i] = IF i <= 1 THEN <<c>>[i] ELSE detail[i - 1]
      BY <2>3, <3>1 DEF n
    <3> QED BY <1>1, <2>2, <2>3, <3>1, <3>2 DEF n
  <2>5. DOMAIN events = 1 .. (1 + n) /\ events # <<>>
    BY <1>1, <2>4, LenProperties, EmptySeq
  <2> HIDE DEF events
  <2>6. \A i \in DOMAIN events : events[i].kind = "state.changed" => i = 1
    <3>1. ASSUME NEW i \in DOMAIN events, i # 1
          PROVE  events[i].kind # "state.changed"
      <4>1. i \in 2 .. (1 + n) /\ i - 1 \in 1 .. n
        BY <1>1, <2>5, <3>1
      <4> QED BY <1>2, <2>4, <4>1
    <3> QED BY <3>1
  <2>7. Announced(events, authentication) = PublicState(state)
    BY <2>1, <2>4, <2>5 DEF Announced
  <2>8. detail # <<>> => events[Len(events)] = detail[Len(detail)]
    <3> SUFFICES ASSUME detail # <<>> PROVE events[Len(events)] = detail[Len(detail)]
      OBVIOUS
    <3>1. n # 0
      BY <1>1, <1>3, EmptySeq DEF n
    <3>2. 1 + n \in 2 .. (1 + n) /\ (1 + n) - 1 = n
      BY <1>1, <3>1
    <3> QED BY <2>4, <3>2 DEF n
  <2>9. Len(events) <= 3
    BY <1>1, <2>4
  <2> QED BY <1>5, <2>1, <2>4, <2>5, <2>6, <2>7, <2>8, <2>9 DEF events
<1> QED BY <1>4, <1>5
\* When the details fit the state that the call ended in, so does the batch.
LEMMA BatchCoherent ==
  ASSUME ControllerTypes, NEW state \in RestStates, NEW detail \in Details,
         NEW kept \in {prompt, NoPrompt},
         client = "Idle" /\ state = "Idle" => detail = <<>>,
         state = "Waiting" /\ detail # <<>> => detail[Len(detail)].kind = "auth.prompt",
         state = "Waiting" /\ detail = <<>> => client = "Waiting" /\ kept = prompt
  PROVE  Coherent(kept, state, BatchEvents(state, detail))
<1> DEFINE events == BatchEvents(state, detail)
<1>1. client \in RestStates /\ authentication = PublicState(client) /\ authentication \in Shown
  BY PublicStateType DEF ControllerTypes
<1>2. /\ events \in Seq(CoreEventTypes) /\ Len(events) <= 3
      /\ \A i \in DOMAIN events : events[i].kind = "state.changed" => i = 1
      /\ Announced(events, authentication) = PublicState(state)
      /\ PublicState(state) # authentication => events # <<>> /\ events[1].kind = "state.changed"
      /\ PublicState(state) = authentication => events = detail
      /\ detail # <<>> => events # <<>> /\ events[Len(events)] = detail[Len(detail)]
  BY <1>1, BatchAt
<1> HIDE DEF events
<1>3. events # <<>> /\ client = "Idle" => events[1].kind = "state.changed"
  <2> SUFFICES ASSUME events # <<>>, client = "Idle" PROVE events[1].kind = "state.changed"
    OBVIOUS
  <2>1. authentication = "Idle"
    BY <1>1 DEF PublicState
  <2>2. state # "Idle"
    BY <1>2, <2>1 DEF PublicState
  <2>3. PublicState(state) # authentication
    BY <2>1, <2>2, PublicStateType
  <2> QED BY <1>2, <2>3
<1>4. state = "Waiting" => PublicState(state) = "Waiting" /\ (client = "Waiting" => authentication = "Waiting")
  BY <1>1 DEF PublicState
<1>5. events # <<>> /\ state = "Waiting" => events[Len(events)].kind = "auth.prompt"
  <2> SUFFICES ASSUME events # <<>>, state = "Waiting"
               PROVE  events[Len(events)].kind = "auth.prompt"
    OBVIOUS
  <2>1. detail # <<>>
    BY <1>2, <1>4
  <2> QED BY <1>2, <2>1
<1>6. events = <<>> => PublicState(state) = authentication /\ detail = <<>>
  BY <1>2
<1>7. events = <<>> /\ state = "Waiting" => kept = prompt
  BY <1>6
<1> QED BY <1>2, <1>3, <1>5, <1>6, <1>7 DEF Coherent, events

\* A request of a page.
LEMMA RequestCoherent ==
  ASSUME ControllerTypes, NEW request \in {"begin", "respond", "cancel", "power"}, NEW p,
         NEW o \in Execute(request, p)
  PROVE  Coherent(PromptKept(request), o.state, BatchEvents(o.state, DetailEvents(request, o)))
<1> DEFINE detail == DetailEvents(request, o)
<1>1. client \in RestStates /\ PromptKept(request) \in {prompt, NoPrompt}
  BY DEF ControllerTypes, PromptKept
<1>2. \/ o \in Advance /\ request \in {"begin", "respond"} /\ client \in {"Idle", "Failed", "Waiting"}
         /\ (client = "Waiting" <=> request = "respond")
      \/ o = Outcome(client, "Err")
      \/ o = Outcome("Idle", "Ok") /\ InTransaction(client)
      \/ o = Outcome("Idle", "Err") /\ InTransaction(client)
      \/ o = Outcome(client, "Ok") /\ ~InTransaction(client) /\ request = "power"
  BY DEF Execute, BeginOutcomes, RespondOutcomes, CancelOutcomes, Refused
<1>3. CASE o = Outcome(client, "Err")
  <2>1. o.state = client /\ detail = <<>>
    BY <1>3 DEF Outcome, DetailEvents
  <2>2. client = "Waiting" => PromptKept(request) = prompt
    BY DEF PromptKept
  <2> QED BY <1>1, <2>1, <2>2, NoDetail, BatchCoherent
<1>4. CASE o = Outcome(client, "Ok") /\ ~InTransaction(client) /\ request = "power"
  <2>1. o.state = client /\ detail = <<>> /\ client # "Waiting"
    BY <1>4 DEF Outcome, DetailEvents, InTransaction
  <2> QED BY <1>1, <2>1, NoDetail, BatchCoherent
<1>5. CASE o = Outcome("Idle", "Err") /\ InTransaction(client)
  <2>1. o.state = "Idle" /\ detail = <<>> /\ o.state \in RestStates
    BY <1>5 DEF Outcome, DetailEvents, RestStates
  <2> QED BY <1>1, <2>1, NoDetail, BatchCoherent
<1>6. CASE o = Outcome("Idle", "Ok") /\ InTransaction(client)
  <2>1. o.state = "Idle" /\ o.result = "Ok" /\ o.state \in RestStates /\ client # "Idle"
    BY <1>6 DEF Outcome, RestStates, InTransaction
  <2>2. detail \in Details
    <3>1. detail = CoreEvents(o.state)
      BY <1>6, <2>1 DEF DetailEvents
    <3>2. \E kind \in EventKinds \ {"state.changed"} : detail = <<Detail(kind)>>
      BY <2>1, <3>1, CoreEventsAt
    <3> QED BY <3>2, DetailType
  <2> QED BY <1>1, <2>1, <2>2, BatchCoherent
<1>7. CASE /\ o \in Advance /\ request \in {"begin", "respond"}
           /\ client \in {"Idle", "Failed", "Waiting"}
           /\ (client = "Waiting" <=> request = "respond")
  <2>1. CASE o.result = "Err"
    <3>1. o.state \in {"Failed", "Disconnected"} /\ o.state \in RestStates /\ detail = <<>>
      BY <1>7, <2>1 DEF Advance, Outcome, RestStates, DetailEvents
    <3> QED BY <1>1, <3>1, NoDetail, BatchCoherent
  <2>2. CASE o.result # "Err"
    <3>1. o.state \in {"Waiting", "Authenticated", "Failed"} /\ o.state \in RestStates \ {"Disconnected"}
      BY <1>7, <2>2 DEF Advance, Outcome, RestStates
    <3>2. detail = CoreEvents(o.state)
      BY <1>7, <2>2 DEF DetailEvents
    <3>3. PICK kind \in EventKinds \ {"state.changed"} :
             detail = <<Detail(kind)>> /\ (o.state = "Waiting" => kind = "auth.prompt")
      BY <3>1, <3>2, CoreEventsAt
    <3>4. detail \in Details /\ detail[Len(detail)].kind = kind /\ detail # <<>>
      BY <3>3, DetailType, OneAt
    <3> HIDE DEF detail
    <3>5. o.state = "Waiting" /\ detail # <<>> => detail[Len(detail)].kind = "auth.prompt"
      BY <3>3, <3>4
    <3> QED BY <1>1, <3>1, <3>4, <3>5, BatchCoherent DEF detail
  <2> QED BY <2>1, <2>2
<1> QED BY <1>2, <1>3, <1>4, <1>5, <1>6, <1>7

\* The cancellation that a lifecycle event begins with (cancel_for_lifecycle).
LEMMA CancelledAt ==
  ASSUME ControllerTypes
  PROVE  /\ CancelledEvents \in Details
         /\ AfterLifecycleCancel \in RestStates /\ AfterLifecycleCancel # "Waiting"
         /\ client = "Idle" => CancelledEvents = <<>>
         /\ CancelledEvents = <<>> \/ CancelledEvents = <<Detail("auth.cancelled")>>
<1>1. client \in RestStates
  BY DEF ControllerTypes
<1>2. <<Detail("auth.cancelled")>> \in Details
  BY DetailType DEF EventKinds
<1>3. CancelledEvents \in Details
  BY <1>2, NoDetail DEF CancelledEvents
<1>4. AfterLifecycleCancel \in RestStates /\ AfterLifecycleCancel # "Waiting"
  BY <1>1 DEF AfterLifecycleCancel, InTransaction, RestStates
<1> QED BY <1>3, <1>4 DEF CancelledEvents, InTransaction

\* A cancellation before sleep.
LEMMA SleepCoherent ==
  ASSUME ControllerTypes
  PROVE  Coherent(prompt, AfterLifecycleCancel, BatchEvents(AfterLifecycleCancel, CancelledEvents))
  BY CancelledAt, BatchCoherent

\* A cancellation, if any, and a new transaction after sleep.
LEMMA ResumeCoherent ==
  ASSUME ControllerTypes, NEW o \in BeginOutcomes(AfterLifecycleCancel), o.result = "Ok"
  PROVE  Coherent(NoPrompt, o.state,
                  BatchEvents(o.state, CancelledEvents \o CoreEvents(o.state)))
<1> DEFINE detail == CancelledEvents \o CoreEvents(o.state)
           T == [kind : EventKinds \ {"state.changed"}, state : {"none"}]
<1>1. o.state \in {"Waiting", "Authenticated", "Failed"} /\ o.state \in RestStates \ {"Disconnected"}
  BY DEF BeginOutcomes, Advance, Outcome, Refused, RestStates
<1>2. PICK kind \in EventKinds \ {"state.changed"} :
         CoreEvents(o.state) = <<Detail(kind)>> /\ (o.state = "Waiting" => kind = "auth.prompt")
  BY <1>1, CoreEventsAt
<1>3. Detail(kind) \in T /\ Detail(kind).kind = kind
  BY DEF Detail, Event
<1>4. CancelledEvents \in Seq(T) /\ Len(CancelledEvents) \in 0 .. 1
  <2>1. CancelledEvents \in Seq(T)
    BY CancelledAt DEF Details
  <2> QED BY <2>1, CancelledAt
<1> HIDE DEF T
<1>5. detail = Append(CancelledEvents, Detail(kind))
  BY <1>2, <1>3, <1>4, ConcatAt
<1> HIDE DEF detail
<1>6. /\ detail \in Seq(T) /\ Len(detail) = Len(CancelledEvents) + 1
      /\ detail[Len(CancelledEvents) + 1] = Detail(kind)
  BY <1>3, <1>4, <1>5, AppendAt
<1>7. Len(detail) <= 2 /\ detail # <<>> /\ detail[Len(detail)].kind = kind
  <2>1. detail[Len(detail)] = Detail(kind)
    BY <1>6
  <2>2. Len(detail) <= 2 /\ Len(detail) # 0
    <3>1. \A n \in 0 .. 1 : n + 1 <= 2 /\ n + 1 # 0
      OBVIOUS
    <3> QED BY <1>4, <1>6, <3>1, Zenon
  <2>3. detail # <<>>
    BY <1>6, <2>2, EmptySeq
  <2> QED BY <1>3, <2>1, <2>2, <2>3
<1>8. detail \in Details
  BY <1>6, <1>7 DEF Details, T
<1>9. Coherent(NoPrompt, o.state, BatchEvents(o.state, detail))
  BY <1>1, <1>2, <1>7, <1>8, BatchCoherent
<1> QED BY <1>9 DEF detail
\* A call keeps the controller's types and moves its sequence by its events.
LEMMA BecomesAt ==
  ASSUME MaxSequence \in Nat, ControllerTypes, NEW kept, NEW state, NEW events,
         Coherent(kept, state, events), ~Exhausts(events), Becomes(kept, state, events)
  PROVE  /\ ControllerTypes'
         /\ Watermark' = Watermark + Len(events)
         /\ silent' = (silent /\ events = <<>>)
         /\ state = "Waiting" => prompt' = IF events = <<>> THEN prompt ELSE Watermark'
<1>1. /\ state \in RestStates /\ kept \in {prompt, NoPrompt} /\ events \in Seq(CoreEventTypes)
      /\ events # <<>> /\ state = "Waiting" => events[Len(events)].kind = "auth.prompt"
      /\ events = <<>> /\ state = "Waiting" => kept = prompt
  BY DEF Coherent
<1>2. Len(events) \in Nat
  BY <1>1, LenProperties
<1>3. Watermark \in 0 .. MaxSequence /\ Watermark + Len(events) \in 0 .. MaxSequence
      /\ next \in Nat /\ prompt \in 0 .. MaxSequence
  BY <1>2 DEF ControllerTypes, SequenceNumbers, Exhausts, Watermark
<1>4. /\ client' = state /\ authentication' = PublicState(state) /\ next' = next + Len(events)
      /\ prompt' = PromptAfter(kept, state, events)
      /\ silent' = (silent /\ events = <<>>)
      /\ locked' = (locked /\ state # "Authenticated")
  BY DEF Becomes
<1>5. PromptAfter(kept, state, events) \in {Watermark + Len(events), NoPrompt, kept}
  BY DEF PromptAfter
<1>6. prompt' \in SequenceNumbers
  BY <1>1, <1>3, <1>4, <1>5 DEF SequenceNumbers, NoPrompt
<1>7. next' \in 1 .. (MaxSequence + 1) /\ Watermark' = Watermark + Len(events)
  BY <1>2, <1>3, <1>4 DEF Watermark
<1>8. ControllerTypes'
  BY <1>1, <1>4, <1>6, <1>7 DEF ControllerTypes, PublicState
<1>9. state = "Waiting" => prompt' = IF events = <<>> THEN prompt ELSE Watermark'
  <2> SUFFICES ASSUME state = "Waiting"
               PROVE  prompt' = IF events = <<>> THEN prompt ELSE Watermark'
    OBVIOUS
  <2>1. CASE events = <<>>
    <3>1. kept = prompt
      BY <1>1, <2>1
    <3>2. PromptAfter(kept, state, events) = kept
      BY <2>1 DEF PromptAfter
    <3> QED BY <1>4, <2>1, <3>1, <3>2
  <2>2. CASE events # <<>>
    <3>1. Last(events).kind = "auth.prompt"
      BY <1>1, <2>2 DEF Last
    <3>2. PromptAfter(kept, state, events) = Watermark + Len(events)
      BY <2>2, <3>1 DEF PromptAfter
    <3> QED BY <1>4, <1>7, <2>2, <3>2
  <2> QED BY <2>1, <2>2
<1> QED BY <1>4, <1>7, <1>8, <1>9

\* The output of a call takes a page from the public state before to the one after it.
LEMMA PublicFollows ==
  ASSUME MaxSequence \in Nat, ControllerTypes, silent => client = "Idle",
         NEW kept, NEW state, NEW events,
         Coherent(kept, state, events), ~Exhausts(events), Becomes(kept, state, events),
         NEW k \in Images, IsPublic(k)
  PROVE  /\ events = <<>> => IsPublic(k)'
         /\ \A o \in OutputTypes :
              o.reply = NoSnapshot /\ o.events = Numbered(events) =>
                \E l \in Images : Step(k, o, l) /\ IsPublic(l)'
<1>1. /\ state \in RestStates /\ events \in Seq(CoreEventTypes) /\ Len(events) <= 3
      /\ \A i \in DOMAIN events : events[i].kind = "state.changed" => i = 1
      /\ Announced(events, authentication) = PublicState(state)
      /\ events # <<>> /\ client = "Idle" => events[1].kind = "state.changed"
      /\ events # <<>> /\ state = "Waiting" => events[Len(events)].kind = "auth.prompt"
      /\ events = <<>> => PublicState(state) = authentication
  BY DEF Coherent
<1>2. /\ ControllerTypes'
      /\ Watermark' = Watermark + Len(events)
      /\ silent' = (silent /\ events = <<>>)
      /\ state = "Waiting" => prompt' = IF events = <<>> THEN prompt ELSE Watermark'
  BY BecomesAt
<1>3. authentication' = PublicState(state) /\ (authentication' = "Waiting" => state = "Waiting")
  BY <1>1, PublicStateType DEF Becomes
<1>4. /\ Numbered(events) \in Batches /\ Len(Numbered(events)) = Len(events)
      /\ DOMAIN Numbered(events) = DOMAIN events
      /\ \A i \in DOMAIN events : /\ Numbered(events)[i].sequence = Watermark + i
                                  /\ Numbered(events)[i].kind = events[i].kind
                                  /\ Numbered(events)[i].state = events[i].state
  BY <1>1, NumberedAt
<1>5. /\ Len(events) \in Nat /\ DOMAIN events = 1 .. Len(events)
      /\ (events = <<>> <=> Len(events) = 0)
      /\ (Numbered(events) = <<>> <=> Len(events) = 0)
  <2>1. Numbered(events) \in Seq(EventTypes)
    BY <1>4 DEF Batches
  <2> QED BY <1>1, <1>4, <2>1, LenProperties, EmptySeq
<1>6. k.last = Watermark /\ k.last \in SequenceNumbers /\ k.authentication \in Shown
      /\ k.prompt \in SequenceNumbers
  BY DEF IsPublic, Images
<1>7. events = <<>> => IsPublic(k)'
  <2> SUFFICES ASSUME events = <<>> PROVE IsPublic(k)'
    OBVIOUS
  <2>1. Len(events) = 0 /\ (silent' <=> silent) /\ authentication' = authentication
    BY <1>1, <1>2, <1>3, <1>5
  <2>2. Watermark' = k.last
    BY <1>2, <1>6, <2>1 DEF SequenceNumbers
  <2>3. authentication' = "Waiting" => prompt' = prompt
    BY <1>2, <1>3
  <2> QED BY <2>1, <2>2, <2>3 DEF IsPublic
<1>8. ASSUME NEW o \in OutputTypes, o.reply = NoSnapshot, o.events = Numbered(events)
      PROVE  \E l \in Images : Step(k, o, l) /\ IsPublic(l)'
  <2> DEFINE a == Announced(events, k.authentication)
             l == [last |-> Watermark + Len(events), authentication |-> a,
                   prompt |-> IF events = <<>> THEN k.prompt ELSE Watermark + Len(events)]
  <2>1. Announced(o.events, k.authentication) = a
    BY <1>4, <1>5, <1>8 DEF Announced
  <2>2. a \in Shown
    <3>1. ASSUME events # <<>>, events[1].kind = "state.changed" PROVE events[1].state \in Shown
      <4>1. events[1].state = PublicState(state)
        BY <1>1, <3>1 DEF Announced
      <4> QED BY <1>1, <4>1, PublicStateType
    <3> QED BY <1>6, <3>1 DEF Announced
  <2>3. ~silent' => a = authentication'
    <3>1. CASE events # <<>> /\ events[1].kind = "state.changed"
      BY <1>1, <1>3, <3>1 DEF Announced
    <3>2. CASE ~(events # <<>> /\ events[1].kind = "state.changed")
      <4>1. a = k.authentication /\ authentication = PublicState(state)
        BY <1>1, <3>2 DEF Announced
      <4>2. ASSUME ~silent' PROVE ~silent
        BY <1>1, <1>2, <3>2, <4>2
      <4> QED BY <1>3, <4>1, <4>2 DEF IsPublic
    <3> QED BY <3>1, <3>2
  <2>4. a = "Waiting" => state = "Waiting" \/ events = <<>>
    <3>1. CASE events # <<>>
      <4>1. ~silent'
        BY <1>2, <3>1
      <4> QED BY <1>3, <2>3, <4>1
    <3>2. CASE events = <<>>
      BY <3>2
    <3> QED BY <3>1, <3>2
  <2> HIDE DEF a
  <2>5. /\ l.last = Watermark + Len(events) /\ l.authentication = a
        /\ l.prompt = IF events = <<>> THEN k.prompt ELSE l.last
    OBVIOUS
  <2>6. l \in Images
    <3>1. Watermark + Len(events) \in SequenceNumbers
      BY <1>5 DEF ControllerTypes, SequenceNumbers, Exhausts, Watermark
    <3> QED BY <1>6, <2>2, <3>1 DEF Images
  <2> HIDE DEF l
  <2>7. PICK m \in Images : m = l
    BY <2>6
  <2>8. /\ m.last = Watermark + Len(events) /\ m.authentication = a
         /\ m.prompt = IF events = <<>> THEN k.prompt ELSE m.last
    BY <2>5, <2>7
  <2>9. Continued(o.events, k.last, m.authentication)
    <3>1. \A i \in DOMAIN o.events : /\ o.events[i].sequence = k.last + i
                                     /\ o.events[i].kind = "state.changed" => i = 1
      BY <1>1, <1>4, <1>6, <1>8
    <3>2. ASSUME o.events # <<>>, m.authentication = "Waiting"
          PROVE  o.events[Len(o.events)].kind = "auth.prompt"
      <4>1. state = "Waiting" /\ events # <<>>
        BY <1>5, <1>8, <2>4, <2>8, <3>2
      <4>2. Len(events) \in DOMAIN events
        BY <1>5, <4>1
      <4> QED BY <1>1, <1>4, <1>8, <4>1, <4>2
    <3> QED BY <3>1, <3>2 DEF Continued
  <2>10. Step(k, o, m)
    <3>1. m.last = k.last + Len(o.events)
      BY <1>4, <1>6, <1>8, <2>8
    <3>2. m.authentication = "Waiting" => m.prompt = IF o.events = <<>> THEN k.prompt ELSE m.last
      BY <1>5, <1>8, <2>8
    <3> QED BY <1>8, <2>1, <2>8, <2>9, <3>1, <3>2 DEF Step
  <2>11. IsPublic(m)'
    <3>1. m.last = Watermark'
      BY <1>2, <2>8
    <3>2. ASSUME ~silent', authentication' = "Waiting" PROVE m.prompt = prompt'
      <4>1. state = "Waiting"
        BY <1>3, <3>2
      <4>2. CASE events # <<>>
        BY <1>2, <2>8, <3>1, <4>1, <4>2
      <4>3. CASE events = <<>>
        <5>1. ~silent /\ authentication = "Waiting"
          BY <1>1, <1>2, <1>3, <3>2, <4>3
        <5>2. k.prompt = prompt
          BY <5>1 DEF IsPublic
        <5> QED BY <1>2, <2>8, <4>1, <4>3, <5>2
      <4> QED BY <4>2, <4>3
    <3> QED BY <2>3, <2>8, <3>1, <3>2 DEF IsPublic
  <2> QED BY <2>10, <2>11
<1> QED BY <1>7, <1>8
-----------------------------------------------------------------------------
(* What a page makes of an event, of a batch and of a reply.               *)

\* The fields of an event.
LEMMA EventAt ==
  ASSUME NEW e \in EventTypes
  PROVE  /\ e.sequence \in SequenceNumbers /\ e.sequence \in Nat
         /\ e.kind \in EventKinds /\ e.state \in Shown \cup {"none"}
  BY DEF EventTypes, SequenceNumbers

\* The fields of what a page believes.
LEMMA PageAt ==
  ASSUME NEW p \in PageTypes
  PROVE  /\ p.phase \in Phases /\ p.last \in SequenceNumbers /\ p.last \in Nat
         /\ p.authentication \in Shown \cup {"none"} /\ p.prompt \in SequenceNumbers
         /\ p.missed \in BOOLEAN
  BY DEF PageTypes, SequenceNumbers

\* The fields of a page after an event that its store handles.
LEMMA MirrorsAt ==
  ASSUME MaxSequence \in Nat, NEW p \in PageTypes, NEW e \in EventTypes
  PROVE  /\ Mirrors(p, e) \in PageTypes
         /\ Mirrors(p, e).phase = p.phase /\ Mirrors(p, e).last = p.last
         /\ Mirrors(p, e).missed = p.missed
         /\ Mirrors(p, e).authentication = IF e.kind = "state.changed" THEN e.state ELSE p.authentication
         /\ e.kind = "auth.prompt" => Mirrors(p, e).prompt = e.sequence
<1>1. /\ e.sequence \in SequenceNumbers /\ e.kind \in EventKinds /\ e.state \in Shown \cup {"none"}
      /\ p.prompt \in SequenceNumbers
  BY EventAt, PageAt
<1>2. CASE e.kind = "state.changed"
  <2> DEFINE d == [p EXCEPT !.authentication = e.state,
                            !.prompt = IF e.state = "Waiting" THEN @ ELSE NoPrompt]
  <2>1. Mirrors(p, e) = d
    BY <1>2 DEF Mirrors
  <2>2. (IF e.state = "Waiting" THEN p.prompt ELSE NoPrompt) \in SequenceNumbers
    <3>1. NoPrompt \in SequenceNumbers
      BY PageAt DEF SequenceNumbers, NoPrompt
    <3> QED BY <1>1, <3>1
  <2>3. /\ d \in PageTypes /\ d.phase = p.phase /\ d.last = p.last /\ d.missed = p.missed
        /\ d.authentication = e.state
    BY <1>1, <2>2 DEF PageTypes
  <2> HIDE DEF d
  <2> QED BY <1>2, <2>1, <2>3
<1>3. CASE e.kind = "auth.prompt"
  <2> DEFINE d == [p EXCEPT !.prompt = e.sequence]
  <2>1. Mirrors(p, e) = d
    BY <1>3 DEF Mirrors
  <2>2. /\ d \in PageTypes /\ d.phase = p.phase /\ d.last = p.last /\ d.missed = p.missed
        /\ d.authentication = p.authentication /\ d.prompt = e.sequence
    BY <1>1 DEF PageTypes
  <2> HIDE DEF d
  <2> QED BY <1>3, <2>1, <2>2
<1>4. CASE e.kind \notin {"state.changed", "auth.prompt"}
  <2> DEFINE d == [p EXCEPT !.prompt = NoPrompt]
  <2>1. Mirrors(p, e) = d
    BY <1>4 DEF Mirrors
  <2>2. NoPrompt \in SequenceNumbers
    BY PageAt DEF SequenceNumbers, NoPrompt
  <2>3. /\ d \in PageTypes /\ d.phase = p.phase /\ d.last = p.last /\ d.missed = p.missed
        /\ d.authentication = p.authentication
    BY <2>2 DEF PageTypes
  <2> HIDE DEF d
  <2> QED BY <1>4, <2>1, <2>3
<1> QED BY <1>2, <1>3, <1>4

\* The fields of a page after an event: a page that is not ready only counts it.
LEMMA ReceiveEventAt ==
  ASSUME MaxSequence \in Nat, NEW p \in PageTypes, NEW e \in EventTypes
  PROVE  LET r == ReceiveEvent(p, e)
         IN /\ r \in PageTypes
            /\ r.phase = p.phase
            /\ r.last \in {p.last, e.sequence} /\ r.last >= p.last
            /\ p.phase # "ready" => /\ r.missed = p.missed
                                    /\ r.authentication = p.authentication /\ r.prompt = p.prompt
            /\ p.phase = "ready" /\ e.sequence = p.last + 1 =>
                 /\ r.last = p.last + 1
                 /\ r.missed = p.missed
                 /\ r.authentication = IF e.kind = "state.changed" THEN e.state ELSE p.authentication
                 /\ e.kind = "auth.prompt" => r.prompt = e.sequence
<1> DEFINE r == ReceiveEvent(p, e)
           seen == [p EXCEPT !.last = e.sequence,
                             !.missed = @ \/ (p.phase = "ready" /\ e.sequence # p.last + 1)]
<1>1. /\ e.sequence \in SequenceNumbers /\ e.sequence \in Nat /\ p.last \in Nat
      /\ p.missed \in BOOLEAN
  BY EventAt, PageAt
<1>2. CASE ~Listening(p) \/ e.sequence <= p.last
  <2>1. r = p
    BY <1>2 DEF ReceiveEvent
  <2>2. p.phase = "ready" => ~(e.sequence = p.last + 1)
    BY <1>1, <1>2 DEF Listening
  <2> HIDE DEF r
  <2> QED BY <1>1, <2>1, <2>2 DEF r
<1>3. CASE ~(~Listening(p) \/ e.sequence <= p.last)
  <2>1. r = IF p.phase = "ready" THEN Mirrors(seen, e) ELSE seen
    BY <1>3 DEF ReceiveEvent
  <2>2. (p.missed \/ (p.phase = "ready" /\ e.sequence # p.last + 1)) \in BOOLEAN
    OBVIOUS
  <2>3. /\ seen \in PageTypes /\ seen.phase = p.phase /\ seen.last = e.sequence
        /\ seen.missed = (p.missed \/ (p.phase = "ready" /\ e.sequence # p.last + 1))
        /\ seen.authentication = p.authentication /\ seen.prompt = p.prompt
    BY <1>1, <2>2 DEF PageTypes
  <2> HIDE DEF seen, r
  <2>4. e.sequence >= p.last
    BY <1>1, <1>3
  <2>5. CASE p.phase = "ready"
    <3>1. /\ r \in PageTypes /\ r.phase = p.phase /\ r.last = e.sequence
          /\ r.missed = seen.missed
          /\ r.authentication = IF e.kind = "state.changed" THEN e.state ELSE seen.authentication
          /\ e.kind = "auth.prompt" => r.prompt = e.sequence
      BY <2>1, <2>3, <2>5, MirrorsAt
    <3>2. e.sequence = p.last + 1 => r.missed = p.missed
      BY <1>1, <2>3, <3>1
    <3> QED BY <2>3, <2>4, <2>5, <3>1, <3>2 DEF r
  <2>6. CASE p.phase # "ready"
    <3>1. r = seen
      BY <2>1, <2>6
    <3>2. seen.missed = p.missed
      BY <1>1, <2>3, <2>6
    <3> QED BY <2>3, <2>4, <2>6, <3>1, <3>2 DEF r
  <2> QED BY <2>5, <2>6
<1> QED BY <1>2, <1>3

\* The fields of a page after a batch, when it is not ready.
LEMMA ReceiveAllAt ==
  ASSUME MaxSequence \in Nat, NEW p \in PageTypes, NEW events \in Batches, NEW b \in Nat,
         p.last <= b, \A i \in DOMAIN events : events[i].sequence <= b
  PROVE  LET r == ReceiveAll(p, events)
         IN /\ r \in PageTypes /\ r.phase = p.phase
            /\ p.phase # "ready" => r.last <= b /\ r.missed = p.missed
<1>1. events \in Seq(EventTypes) /\ Len(events) <= 3
  BY DEF Batches
<1> DEFINE n == Len(events)
<1>2. n \in 0 .. 3 /\ DOMAIN events = 1 .. n
  <2>1. Len(events) \in Nat /\ DOMAIN events = 1 .. Len(events)
    BY <1>1, LenProperties
  <2> QED BY <1>1, <2>1
<1>3. PICK q : /\ q[0] = p
               /\ \A k \in 0 .. (Len(events) - 1) : q[k + 1] = ReceiveEvent(q[k], events[k + 1])
               /\ ReceiveAll(p, events) = q[Len(events)]
  BY <1>1, ReceivesInOrder
<1> DEFINE J(k) == /\ q[k] \in PageTypes /\ q[k].phase = p.phase
                   /\ p.phase # "ready" => q[k].last <= b /\ q[k].missed = p.missed
<1>4. J(0)
  BY <1>3
<1>5. \A k \in 0 .. (n - 1) : J(k) => J(k + 1)
  <2> SUFFICES ASSUME NEW k \in 0 .. (n - 1), J(k) PROVE J(k + 1)
    OBVIOUS
  <2>1. k + 1 \in 1 .. n
    BY <1>2
  <2>2. events[k + 1] \in EventTypes /\ events[k + 1].sequence <= b
    BY <1>1, <1>2, <2>1, ElementOfSeq
  <2>3. q[k + 1] = ReceiveEvent(q[k], events[k + 1]) /\ q[k] \in PageTypes
    BY <1>3
  <2> DEFINE e == events[k + 1]
  <2> HIDE DEF e
  <2>4. LET r == ReceiveEvent(q[k], e)
        IN /\ r \in PageTypes /\ r.phase = q[k].phase /\ r.last \in {q[k].last, e.sequence}
           /\ q[k].phase # "ready" => r.missed = q[k].missed
    BY <2>2, <2>3, ReceiveEventAt DEF e
  <2> QED BY <2>2, <2>3, <2>4 DEF e
<1> HIDE DEF n, J
<1>6. J(n)
  <2>1. n = 0 \/ n = 1 \/ n = 2 \/ n = 3
    BY <1>2
  <2>2. n = 1 => J(1)
    BY <1>4, <1>5
  <2>3. n = 2 => J(2)
    BY <1>4, <1>5
  <2>4. n = 3 => J(3)
    BY <1>4, <1>5
  <2> QED BY <1>4, <2>1, <2>2, <2>3, <2>4
<1> QED BY <1>3, <1>6 DEF J, n
\* A batch of no events changes nothing.
LEMMA ReceiveNothing ==
  ASSUME NEW p
  PROVE  ReceiveAll(p, <<>>) = p
<1> DEFINE none == <<>>
<1>1. none \in Seq(EventTypes) /\ Len(none) = 0 /\ Len(none) <= 3
  BY EmptySeq
<1> HIDE DEF none
<1>2. DOMAIN none = 1 .. 0
  BY <1>1, LenProperties
<1>3. ReceiveAll(p, none) = (CHOOSE g : IsFold(g, p, none, 0))[1 .. 0]
  BY <1>2, ReceiveAllIsFold
<1>4. \E g : IsFold(g, p, none, 0)
  BY FoldExists
<1>5. PICK g : IsFold(g, p, none, 0) /\ ReceiveAll(p, none) = g[1 .. 0]
  BY <1>3, <1>4
<1>6. g[{}] = p
  BY <1>5, FoldBase
<1>7. 1 .. 0 = {}
  OBVIOUS
<1> QED BY <1>5, <1>6, <1>7 DEF none

\* A page that is ready and that receives the batch which follows what it has seen.
LEMMA ReadyReceivesAll ==
  ASSUME MaxSequence \in Nat, NEW p \in PageTypes, NEW events \in Batches, NEW shown,
         p.phase = "ready", Continued(events, p.last, shown)
  PROVE  LET r == ReceiveAll(p, events)
         IN /\ r.missed = p.missed /\ r.last = p.last + Len(events)
            /\ r.authentication = Announced(events, p.authentication)
            /\ events # <<>> /\ shown = "Waiting" => r.prompt = p.last + Len(events)
<1>1. events \in Seq(EventTypes) /\ Len(events) <= 3
  BY DEF Batches
<1> DEFINE n == Len(events)
<1>2. n \in 0 .. 3 /\ DOMAIN events = 1 .. n /\ (events = <<>> <=> n = 0)
  <2>1. Len(events) \in Nat /\ DOMAIN events = 1 .. Len(events)
    BY <1>1, LenProperties
  <2> QED BY <1>1, <2>1, EmptySeq
<1>3. PICK q : /\ q[0] = p
               /\ \A k \in 0 .. (Len(events) - 1) : q[k + 1] = ReceiveEvent(q[k], events[k + 1])
               /\ ReceiveAll(p, events) = q[Len(events)]
  BY <1>1, ReceivesInOrder
<1>4. /\ \A i \in 1 .. n : /\ events[i].sequence = p.last + i
                           /\ events[i].kind = "state.changed" => i = 1
      /\ events # <<>> /\ shown = "Waiting" => events[n].kind = "auth.prompt"
  BY <1>2 DEF Continued
<1>5. p.last \in Nat
  BY PageAt
<1> DEFINE J(k) == /\ q[k] \in PageTypes /\ q[k].phase = "ready"
                   /\ q[k].last = p.last + k /\ q[k].missed = p.missed
                   /\ q[k].authentication =
                        IF k > 0 THEN Announced(events, p.authentication) ELSE p.authentication
                   /\ (k > 0 /\ events[k].kind = "auth.prompt") => q[k].prompt = p.last + k
<1>6. J(0)
  BY <1>3, <1>5
<1>7. \A k \in 0 .. (n - 1) : J(k) => J(k + 1)
  <2> SUFFICES ASSUME NEW k \in 0 .. (n - 1), J(k) PROVE J(k + 1)
    OBVIOUS
  <2>1. k \in Nat /\ k + 1 \in 1 .. n /\ k + 1 > 0
    BY <1>2
  <2>2. /\ events[k + 1] \in EventTypes /\ events[k + 1].sequence = p.last + (k + 1)
        /\ events[k + 1].kind = "state.changed" => k + 1 = 1
    BY <1>1, <1>2, <1>4, <2>1, ElementOfSeq
  <2>3. q[k + 1] = ReceiveEvent(q[k], events[k + 1]) /\ q[k] \in PageTypes
    BY <1>3
  <2> DEFINE e == events[k + 1]
  <2>4. e.sequence = q[k].last + 1
    BY <1>5, <2>1, <2>2
  <2> HIDE DEF e
  <2>5. LET r == ReceiveEvent(q[k], e)
        IN /\ r \in PageTypes /\ r.phase = "ready" /\ r.last = q[k].last + 1
           /\ r.missed = q[k].missed
           /\ r.authentication = IF e.kind = "state.changed" THEN e.state ELSE q[k].authentication
           /\ e.kind = "auth.prompt" => r.prompt = e.sequence
    BY <2>2, <2>3, <2>4, ReceiveEventAt DEF e
  <2>6. q[k + 1].last = p.last + (k + 1)
    BY <1>5, <2>1, <2>3, <2>5 DEF e
  <2>7. q[k + 1].authentication = Announced(events, p.authentication)
    <3>1. CASE k = 0
      <4>1. e = events[1] /\ events # <<>>
        BY <1>2, <2>1, <3>1 DEF e
      <4>2. q[k].authentication = p.authentication
        BY <3>1
      <4>3. q[k + 1].authentication = IF e.kind = "state.changed" THEN e.state ELSE q[k].authentication
        BY <2>3, <2>5 DEF e
      <4> QED BY <4>1, <4>2, <4>3 DEF Announced
    <3>2. CASE k # 0
      <4>1. e.kind # "state.changed" /\ k > 0
        BY <2>1, <2>2, <3>2 DEF e
      <4> QED BY <2>3, <2>5, <4>1 DEF e
    <3> QED BY <3>1, <3>2
  <2> QED BY <2>1, <2>2, <2>3, <2>5, <2>6, <2>7 DEF e
<1> HIDE DEF n, J
<1>8. J(n)
  <2>1. n = 0 \/ n = 1 \/ n = 2 \/ n = 3
    BY <1>2
  <2>2. n = 1 => J(1)
    BY <1>6, <1>7
  <2>3. n = 2 => J(2)
    BY <1>6, <1>7
  <2>4. n = 3 => J(3)
    BY <1>6, <1>7
  <2> QED BY <1>6, <2>1, <2>2, <2>3, <2>4
<1> DEFINE r == ReceiveAll(p, events)
<1>9. /\ r.missed = p.missed /\ r.last = p.last + n
      /\ r.authentication = IF n > 0 THEN Announced(events, p.authentication) ELSE p.authentication
      /\ (n > 0 /\ events[n].kind = "auth.prompt") => r.prompt = p.last + n
  BY <1>3, <1>8 DEF J, n
<1>10. r.authentication = Announced(events, p.authentication)
  <2>1. CASE n > 0
    BY <1>9, <2>1
  <2>2. CASE ~(n > 0)
    <3>1. events = <<>>
      BY <1>2, <2>2
    <3> QED BY <1>9, <2>2, <3>1 DEF Announced
  <2> QED BY <2>1, <2>2
<1>11. events # <<>> => n > 0
  BY <1>2
<1> HIDE DEF r
<1> QED BY <1>4, <1>9, <1>10, <1>11 DEF r, n

\* The fields of a page after a reply.
LEMMA ReceiveReplyAt ==
  ASSUME NEW p \in PageTypes, NEW reply \in Replies
  PROVE  LET r == ReceiveReply(p, reply)
         IN /\ r \in PageTypes
            /\ p.phase \notin {"connecting", "initializing"} => r = p
            /\ p.phase \in {"connecting", "initializing"} =>
                 /\ r.missed = p.missed
                 /\ r.last = MaxOf(p.last, reply.sequence)
            /\ p.phase = "connecting" => r.phase = "bootstrapped"
            /\ p.phase = "initializing" => /\ r.phase = "ready"
                                           /\ r.authentication = reply.authentication
                                           /\ r.prompt = reply.prompt
<1> DEFINE r == ReceiveReply(p, reply)
<1>1. /\ reply.authentication \in Shown \cup {"none"} /\ reply.prompt \in SequenceNumbers
      /\ reply.sequence \in SequenceNumbers
  BY DEF Replies
<1>2. MaxOf(p.last, reply.sequence) \in SequenceNumbers
  BY <1>1, PageAt DEF MaxOf
<1>3. CASE p.phase = "connecting"
  <2> DEFINE d == [p EXCEPT !.phase = "bootstrapped", !.last = MaxOf(@, reply.sequence)]
  <2>1. r = d
    BY <1>3 DEF ReceiveReply
  <2>2. /\ d \in PageTypes /\ d.phase = "bootstrapped" /\ d.missed = p.missed
        /\ d.last = MaxOf(p.last, reply.sequence)
    BY <1>2 DEF PageTypes, Phases
  <2> HIDE DEF d, r
  <2> QED BY <1>3, <2>1, <2>2 DEF r
<1>4. CASE p.phase = "initializing"
  <2> DEFINE d == [p EXCEPT !.phase = "ready", !.last = MaxOf(@, reply.sequence),
                   !.authentication = reply.authentication, !.prompt = reply.prompt]
  <2>1. r = d
    BY <1>4 DEF ReceiveReply
  <2>2. /\ d \in PageTypes /\ d.phase = "ready" /\ d.missed = p.missed
        /\ d.last = MaxOf(p.last, reply.sequence)
        /\ d.authentication = reply.authentication /\ d.prompt = reply.prompt
    BY <1>1, <1>2 DEF PageTypes, Phases
  <2> HIDE DEF d, r
  <2> QED BY <1>4, <2>1, <2>2 DEF r
<1>5. CASE p.phase \notin {"connecting", "initializing"}
  BY <1>5 DEF ReceiveReply
<1> QED BY <1>3, <1>4, <1>5

\* An output takes a page that shows the first of two images to the second.
LEMMA ShowsNext ==
  ASSUME MaxSequence \in Nat, NEW p \in PageTypes, NEW o \in OutputTypes,
         NEW k \in Images, NEW l \in Images, Shows(p, k), Step(k, o, l)
  PROVE  /\ p.phase # "ready" => Shows(p, l)
         /\ o.reply = NoSnapshot => Shows(ReceiveAll(p, o.events), l)
         /\ o.reply # NoSnapshot /\ p.phase \in {"connecting", "initializing"} =>
              Shows(ReceiveAll(ReceiveReply(p, o.reply), o.events), l)
<1>1. o.events \in Batches /\ o.reply \in Replies
  BY DEF OutputTypes
<1>2. /\ k.last \in Nat /\ l.last \in Nat /\ p.last \in Nat
      /\ l.authentication \in Shown /\ k.authentication \in Shown
  BY PageAt DEF Images, SequenceNumbers
<1>3. Len(o.events) \in Nat /\ DOMAIN o.events = 1 .. Len(o.events) /\ o.events \in Seq(EventTypes)
  <2>1. o.events \in Seq(EventTypes)
    BY <1>1 DEF Batches
  <2> QED BY <2>1, LenProperties
<1>4. k.last <= l.last
  BY <1>2, <1>3 DEF Step
<1>5. ~p.missed /\ p.last <= l.last
  BY <1>2, <1>4 DEF Shows
<1>6. p.phase # "ready" => Shows(p, l)
  BY <1>5 DEF Shows
<1>7. ASSUME o.reply = NoSnapshot
      PROVE  Shows(ReceiveAll(p, o.events), l)
  <2> DEFINE r == ReceiveAll(p, o.events)
  <2>1. /\ Continued(o.events, k.last, l.authentication)
        /\ l.last = k.last + Len(o.events)
        /\ l.authentication = Announced(o.events, k.authentication)
        /\ l.authentication = "Waiting" =>
             l.prompt = IF o.events = <<>> THEN k.prompt ELSE l.last
    BY <1>7 DEF Step
  <2>2. \A i \in DOMAIN o.events : o.events[i].sequence <= l.last
    <3>1. ASSUME NEW i \in DOMAIN o.events PROVE o.events[i].sequence <= l.last
      <4>1. o.events[i].sequence = k.last + i /\ i \in 1 .. Len(o.events)
        BY <1>3, <2>1 DEF Continued
      <4> QED BY <1>2, <1>3, <2>1, <4>1
    <3> QED BY <3>1
  <2>3. r \in PageTypes /\ r.phase = p.phase /\ (p.phase # "ready" => r.last <= l.last /\ r.missed = p.missed)
    BY <1>1, <1>2, <1>5, <2>2, ReceiveAllAt
  <2>4. CASE p.phase # "ready"
    <3> HIDE DEF r
    <3>1. ~r.missed /\ r.last <= l.last /\ r.phase # "ready"
      BY <1>5, <2>3, <2>4
    <3> QED BY <3>1 DEF Shows, r
  <2>5. CASE p.phase = "ready"
    <3>1. /\ p.last = k.last /\ p.authentication = k.authentication
          /\ p.authentication = "Waiting" => p.prompt = k.prompt
      BY <2>5 DEF Shows
    <3>2. Continued(o.events, p.last, l.authentication)
      BY <2>1, <3>1
    <3>3. /\ r.missed = p.missed /\ r.last = p.last + Len(o.events)
          /\ r.authentication = Announced(o.events, p.authentication)
          /\ o.events # <<>> /\ l.authentication = "Waiting" => r.prompt = p.last + Len(o.events)
      BY <1>1, <2>5, <3>2, ReadyReceivesAll
    <3>4. r.last = l.last /\ r.authentication = l.authentication /\ ~r.missed
      BY <1>5, <2>1, <3>1, <3>3
    <3>5. ASSUME r.authentication = "Waiting" PROVE r.prompt = l.prompt
      <4>1. CASE o.events = <<>>
        <5>1. r = p
          BY <4>1, ReceiveNothing
        <5> QED BY <2>1, <3>1, <3>4, <3>5, <4>1, <5>1
      <4>2. CASE o.events # <<>>
        BY <2>1, <3>1, <3>3, <3>4, <3>5, <4>2
      <4> QED BY <4>1, <4>2
    <3>6. r.last <= l.last
      BY <1>2, <3>4
    <3> HIDE DEF r
    <3> QED BY <2>3, <3>4, <3>5, <3>6 DEF Shows, r
  <2> QED BY <2>4, <2>5
<1>8. ASSUME o.reply # NoSnapshot, p.phase \in {"connecting", "initializing"}
      PROVE  Shows(ReceiveAll(ReceiveReply(p, o.reply), o.events), l)
  <2> DEFINE r == ReceiveReply(p, o.reply)
  <2>1. /\ o.events = <<>> /\ o.reply.sequence = k.last
        /\ l.last = k.last /\ l.authentication = o.reply.authentication /\ l.prompt = o.reply.prompt
    BY <1>8 DEF Step
  <2>2. ReceiveAll(r, o.events) = r
    BY <2>1, ReceiveNothing
  <2>3. /\ r.missed = p.missed /\ r.last = MaxOf(p.last, o.reply.sequence)
        /\ p.phase = "connecting" => r.phase = "bootstrapped"
        /\ p.phase = "initializing" => /\ r.phase = "ready"
                                       /\ r.authentication = o.reply.authentication
                                       /\ r.prompt = o.reply.prompt
    BY <1>1, <1>8, ReceiveReplyAt
  <2>4. r.last = l.last
    BY <1>2, <1>5, <2>1, <2>3 DEF MaxOf
  <2>5. ~r.missed
    BY <1>5, <2>3
  <2>6. r.last <= l.last
    BY <1>2, <2>4
  <2> HIDE DEF r
  <2>7. Shows(r, l)
    BY <1>8, <2>1, <2>3, <2>4, <2>5, <2>6 DEF Shows
  <2> QED BY <2>2, <2>7 DEF r
<1> QED BY <1>6, <1>7, <1>8
-----------------------------------------------------------------------------
(* The stream of a view, one change at a time.                             *)

\* Nothing is sent, and the page shows what it did.
LEMMA StreamKeeps ==
  ASSUME NEW q \in Seq(OutputTypes), NEW p, NEW r, Streams(q, p),
         \A k \in Images : Shows(p, k) => Shows(r, k),
         \A k \in Images : IsPublic(k) => IsPublic(k)'
  PROVE  Streams(q, r)'
<1>1. PICK K \in [1 .. (Len(q) + 1) -> Images] :
         /\ Shows(p, K[1])
         /\ \A i \in 1 .. Len(q) : Step(K[i], q[i], K[i + 1])
         /\ IsPublic(K[Len(q) + 1])
  BY Zenon DEF Streams
<1>2. Len(q) \in Nat
  BY LenProperties
<1>3. K[1] \in Images /\ K[Len(q) + 1] \in Images
  BY <1>1, <1>2
<1>4. Shows(r, K[1]) /\ IsPublic(K[Len(q) + 1])'
  BY <1>1, <1>3
<1> QED BY <1>1, <1>4, Zenon DEF Streams

\* An output is sent that takes the public state before it to the one after it.
LEMMA StreamEmits ==
  ASSUME NEW q \in Seq(OutputTypes), NEW p, NEW o \in OutputTypes, Streams(q, p),
         \A k \in Images : IsPublic(k) => \E l \in Images : Step(k, o, l) /\ IsPublic(l)'
  PROVE  Streams(Append(q, o), p)'
<1> DEFINE n == Len(q)
<1>1. PICK K \in [1 .. (Len(q) + 1) -> Images] :
         /\ Shows(p, K[1])
         /\ \A i \in 1 .. Len(q) : Step(K[i], q[i], K[i + 1])
         /\ IsPublic(K[Len(q) + 1])
  BY Zenon DEF Streams
<1>2. /\ n \in Nat /\ Len(Append(q, o)) = n + 1
      /\ \A i \in 1 .. n : Append(q, o)[i] = q[i]
      /\ Append(q, o)[n + 1] = o
  BY AppendAt
<1>3. K[n + 1] \in Images
  BY <1>1, <1>2
<1>4. PICK l \in Images : Step(K[n + 1], o, l) /\ IsPublic(l)'
  BY <1>1, <1>3
<1> HIDE DEF n
<1>5. PICK L \in [1 .. ((n + 1) + 1) -> Images] :
         (\A i \in 1 .. (n + 1) : L[i] = K[i]) /\ L[(n + 1) + 1] = l
  <2> DEFINE M == [i \in 1 .. ((n + 1) + 1) |-> IF i = n + 2 THEN l ELSE K[i]]
  <2>1. \A i \in 1 .. ((n + 1) + 1) : i # n + 2 => i \in 1 .. (n + 1)
    BY <1>2
  <2>2. M \in [1 .. ((n + 1) + 1) -> Images]
    BY <1>1, <2>1 DEF n
  <2>3. (\A i \in 1 .. (n + 1) : M[i] = K[i]) /\ M[(n + 1) + 1] = l
    BY <1>2
  <2> QED BY <2>2, <2>3
<1>6. Shows(p, L[1])
  <2>1. 1 \in 1 .. (n + 1)
    BY <1>2
  <2> QED BY <1>1, <1>5, <2>1
<1>7. ASSUME NEW i \in 1 .. (n + 1)
      PROVE  Step(L[i], Append(q, o)[i], L[i + 1])
  <2>1. CASE i = n + 1
    <3>1. L[i] = K[n + 1] /\ L[i + 1] = l /\ Append(q, o)[i] = o
      BY <1>2, <1>5, <2>1
    <3> QED BY <1>4, <3>1
  <2>2. CASE i # n + 1
    <3>1. i \in 1 .. n /\ i + 1 \in 1 .. (n + 1)
      BY <1>2, <2>2
    <3>2. L[i] = K[i] /\ L[i + 1] = K[i + 1] /\ Append(q, o)[i] = q[i]
      BY <1>2, <1>5, <3>1
    <3>3. Step(K[i], q[i], K[i + 1])
      BY <1>1, <3>1 DEF n
    <3> QED BY <3>2, <3>3
  <2> QED BY <2>1, <2>2
<1>8. IsPublic(L[(n + 1) + 1])'
  BY <1>4, <1>5
<1> QED BY <1>2, <1>5, <1>6, <1>7, <1>8, Zenon DEF Streams

\* The first output is taken from the queue and the page shows what it led to.
LEMMA StreamTakes ==
  ASSUME NEW q \in Seq(OutputTypes), q # <<>>, NEW p, NEW r, Streams(q, p),
         \A k, l \in Images : Shows(p, k) /\ Step(k, q[1], l) => Shows(r, l),
         \A k \in Images : IsPublic(k) => IsPublic(k)'
  PROVE  Streams(Tail(q), r)'
<1> DEFINE n == Len(q) - 1
<1>1. PICK K \in [1 .. (Len(q) + 1) -> Images] :
         /\ Shows(p, K[1])
         /\ \A i \in 1 .. Len(q) : Step(K[i], q[i], K[i + 1])
         /\ IsPublic(K[Len(q) + 1])
  BY Zenon DEF Streams
<1>2. /\ n \in Nat /\ Len(q) = n + 1 /\ Len(Tail(q)) = n
      /\ \A i \in 1 .. n : Tail(q)[i] = q[i + 1]
  BY TailAt
<1> HIDE DEF n
<1>3. PICK L \in [1 .. (n + 1) -> Images] : \A i \in 1 .. (n + 1) : L[i] = K[i + 1]
  <2> DEFINE M == [i \in 1 .. (n + 1) |-> K[i + 1]]
  <2>1. \A i \in 1 .. (n + 1) : i + 1 \in 1 .. (Len(q) + 1)
    BY <1>2
  <2>2. M \in [1 .. (n + 1) -> Images]
    BY <1>1, <2>1
  <2> QED BY <2>2
<1>4. Shows(r, L[1])
  <2>1. K[1] \in Images /\ K[1 + 1] \in Images
    BY <1>1, <1>2
  <2>2. Step(K[1], q[1], K[1 + 1])
    BY <1>1, <1>2
  <2>3. L[1] = K[1 + 1]
    BY <1>2, <1>3
  <2> QED BY <1>1, <2>1, <2>2, <2>3
<1>5. ASSUME NEW i \in 1 .. n
      PROVE  Step(L[i], Tail(q)[i], L[i + 1])
  <2>1. i \in 1 .. (n + 1) /\ i + 1 \in 1 .. (n + 1) /\ i + 1 \in 1 .. Len(q)
    BY <1>2
  <2>2. Step(K[i + 1], q[i + 1], K[(i + 1) + 1])
    BY <1>1, <2>1
  <2>3. L[i] = K[i + 1] /\ L[i + 1] = K[(i + 1) + 1] /\ Tail(q)[i] = q[i + 1]
    BY <1>2, <1>3, <2>1
  <2> QED BY <2>2, <2>3
<1>6. IsPublic(L[n + 1])'
  <2>1. L[n + 1] = K[Len(q) + 1] /\ K[Len(q) + 1] \in Images
    BY <1>1, <1>2, <1>3
  <2> QED BY <1>1, <2>1
<1> QED BY <1>2, <1>3, <1>4, <1>5, <1>6, Zenon DEF Streams

\* A view is registered whose page has seen nothing.
LEMMA StreamBegins ==
  ASSUME NEW p \in PageTypes, NEW o \in OutputTypes, NEW k \in Images,
         Shows(p, k), Step(k, o, k), IsPublic(k)'
  PROVE  Streams(<<o>>, p)'
<1> DEFINE K == [i \in 1 .. (1 + 1) |-> k]
<1>1. K \in [1 .. (1 + 1) -> Images] /\ K[1] = k /\ K[1 + 1] = k
  OBVIOUS
<1>2. Len(<<o>>) = 1 /\ <<o>>[1] = o
  OBVIOUS
<1>3. \A i \in 1 .. 1 : Step(K[i], <<o>>[i], K[i + 1])
  <2>1. \A i \in 1 .. 1 : i = 1
    OBVIOUS
  <2> QED BY <1>1, <1>2, <2>1
<1>4. Shows(p, K[1]) /\ IsPublic(K[1 + 1])'
  BY <1>1
<1> HIDE DEF K
<1> QED BY <1>1, <1>2, <1>3, <1>4 DEF Streams
-----------------------------------------------------------------------------
(* What one step of the controller thread does to the views, whatever the  *)
(* command was.  A registration is apart.                                  *)

Emitted(v, o) ==
  /\ v \in views /\ page[v].phase # "failed" /\ Len(out[v]) < OutputCapacity
  /\ out'[v] = Append(out[v], o)

\* A reply goes to the page whose request is being handled, and a snapshot only to state.get.
Answers(v, o) ==
  o.kind = "Batch" => /\ IsRequest(cmds[1], v) /\ o.epoch = cmds[1].epoch
                      /\ cmds[1].request = "get" <=> o.reply # NoSnapshot

StaysPublic   == \A k \in Images : IsPublic(k) => IsPublic(k)'
MovesPublic(o) == \A k \in Images : IsPublic(k) => \E l \in Images : Step(k, o, l) /\ IsPublic(l)'

\* A view that is dropped behind its last output, and told so.
Dismissed(v, o) ==
  /\ v \in views /\ v \notin views' /\ Len(out[v]) + 1 < OutputCapacity
  /\ out'[v] = Append(Append(out[v], o), Fatal)

\* A view is sent nothing and missed nothing, or one output that carries its stream on, or
\* its last one.
Served(v) ==
  \/ /\ out'[v] = out[v]
     /\ v \in views' => StaysPublic /\ ~IsRequest(cmds[1], v)
  \/ \E o \in OutputTypes : /\ Emitted(v, o) /\ Answers(v, o)
                            /\ v \in views' => MovesPublic(o)
                            /\ (v \in views' /\ IsRequest(cmds[1], v)) => o.kind = "Batch"
  \/ \E o \in OutputTypes : Dismissed(v, o) /\ Answers(v, o)

WorkerSummary ==
  /\ running /\ cmds # <<>> /\ UNCHANGED hostVars
  /\ \/ cmds' = Tail(cmds) /\ running' = running
     \/ cmds' = <<>> /\ running' = FALSE /\ views' = {}
  /\ views' \subseteq views
  /\ out' = [v \in Views |-> out'[v]]
  /\ ControllerTypes'
  /\ silent' => client' = "Idle"
  /\ \A v \in Views : Served(v)

\* The empty reply and the empty batch are of their types.
LEMMA NoSnapshotType ==
  ASSUME MaxSequence \in Nat
  PROVE  NoSnapshot \in Replies /\ <<>> \in Batches
<1>1. NoPrompt \in SequenceNumbers /\ 0 \in SequenceNumbers
  BY DEF SequenceNumbers, NoPrompt
<1>2. NoSnapshot \in Replies
  BY <1>1 DEF NoSnapshot, Replies
<1>3. <<>> \in Seq(EventTypes) /\ Len(<<>>) <= 3
  BY EmptySeq
<1> QED BY <1>2, <1>3 DEF Batches

\* The outputs that the controller thread makes.
LEMMA OutputAt ==
  ASSUME MirrorAssumption, NEW kind \in {"Ready", "Batch", "Events", "Fatal"},
         NEW epoch \in 0 .. MaxPageEpoch, NEW reply \in Replies, NEW events \in Batches,
         kind \in {"Ready", "Fatal"} => events = <<>>,
         kind # "Batch" => reply = NoSnapshot,
         reply # NoSnapshot => events = <<>>
  PROVE  LET o == Output(kind, epoch, reply, events)
         IN /\ o \in OutputTypes
            /\ o.kind = kind /\ o.epoch = epoch /\ o.reply = reply /\ o.events = events
<1> DEFINE o == Output(kind, epoch, reply, events)
<1>1. /\ o.kind = kind /\ o.epoch = epoch /\ o.reply = reply /\ o.events = events
      /\ o \in [kind : {"Ready", "Batch", "Events", "Fatal"}, epoch : 0 .. MaxPageEpoch,
                reply : Replies, events : Batches]
  BY DEF Output
<1> HIDE DEF o
<1>2. o \in OutputTypes
  BY <1>1 DEF OutputTypes
<1> QED BY <1>1, <1>2 DEF o

\* The output that ends a view (send_fatal).
LEMMA FatalAt ==
  ASSUME MirrorAssumption
  PROVE  Fatal \in OutputTypes /\ Fatal.kind = "Fatal"
<1>1. MaxSequence \in Nat /\ 0 \in 0 .. MaxPageEpoch
  BY DEF MirrorAssumption
<1> QED BY <1>1, NoSnapshotType, OutputAt DEF Fatal

\* Each view that stays registered has been sent what it was to be sent.
LEMMA DeliverAt ==
  ASSUME MirrorTypes, NEW sent,
         \A v \in Views : sent[v] = <<>> \/ \E o \in OutputTypes : sent[v] = <<o>>,
         Sends(sent)
  PROVE  /\ views' \subseteq views
         /\ out' = [v \in Views |-> out'[v]]
         /\ \A v \in Views :
              \/ out'[v] = out[v] /\ (v \in views' => sent[v] = <<>>)
              \/ \E o \in OutputTypes : sent[v] = <<o>> /\ Emitted(v, o)
<1> DEFINE full == {v \in views : sent[v] # <<>> /\ ~HasRoom(v)}
<1>1. /\ views' = views \ full
      /\ out' = [v \in Views |-> IF v \in views \ full THEN out[v] \o sent[v] ELSE out[v]]
  BY DEF Sends, Deliver
<1>2. views \subseteq Views /\ out \in [Views -> Seq(OutputTypes)]
  BY DEF MirrorTypes, QueueTypes, OutTypes
<1>3. ASSUME NEW v \in Views
      PROVE  \/ out'[v] = out[v] /\ (v \in views' => sent[v] = <<>>)
             \/ \E o \in OutputTypes : sent[v] = <<o>> /\ Emitted(v, o)
  <2>1. out[v] \in Seq(OutputTypes)
    BY <1>2
  <2>2. CASE v \notin views \ full
    BY <1>1, <2>2
  <2>3. CASE v \in views \ full /\ sent[v] = <<>>
    <3>1. out'[v] = out[v] \o <<>>
      BY <1>1, <2>3
    <3>2. out[v] \o <<>> = out[v]
      BY <2>1, ConcatEmptySeq
    <3> QED BY <2>3, <3>1, <3>2
  <2>4. CASE v \in views \ full /\ sent[v] # <<>>
    <3>1. PICK o \in OutputTypes : sent[v] = <<o>>
      BY <2>4
    <3>2. out'[v] = out[v] \o <<o>>
      BY <1>1, <2>4, <3>1
    <3>3. out'[v] = Append(out[v], o)
      BY <2>1, <3>2, ConcatAt
    <3>4. HasRoom(v) /\ v \in views
      BY <2>4
    <3> QED BY <3>1, <3>3, <3>4 DEF Emitted, HasRoom
  <2> QED BY <2>2, <2>3, <2>4
<1>4. out' = [v \in Views |-> out'[v]]
  BY <1>1
<1> QED BY <1>1, <1>3, <1>4

\* Every view gets what it was to be sent, is dropped, and told so if it has room.
LEMMA DropsAllAt ==
  ASSUME MirrorAssumption, MirrorTypes, NEW sent, DropsAll(sent),
         \A v \in Views :
           sent[v] = <<>> \/ \E o \in OutputTypes : sent[v] = <<o>> /\ Answers(v, o)
  PROVE  /\ views' = {}
         /\ out' = [v \in Views |-> out'[v]]
         /\ \A v \in Views : Served(v)
<1>1. /\ views' = {}
      /\ out' = [v \in Views |->
               IF v \in views /\ HasRoom(v)
               THEN IF Len(out[v] \o sent[v]) < OutputCapacity
                    THEN out[v] \o sent[v] \o <<Fatal>> ELSE out[v] \o sent[v]
               ELSE out[v]]
  BY DEF DropsAll
<1>2. ASSUME NEW v \in Views
      PROVE  Served(v)
  <2>1. out[v] \in Seq(OutputTypes) /\ Fatal \in OutputTypes /\ Fatal.kind = "Fatal"
    BY FatalAt DEF MirrorTypes, OutTypes
  <2>2. CASE v \in views /\ HasRoom(v) /\ sent[v] = <<>>
    <3>1. out[v] \o sent[v] = out[v] /\ out[v] \o <<Fatal>> = Append(out[v], Fatal)
      BY <2>1, <2>2, ConcatEmptySeq, ConcatAt
    <3>2. out'[v] = Append(out[v], Fatal)
      BY <1>1, <2>2, <3>1 DEF HasRoom
    <3>3. Emitted(v, Fatal)
      BY <2>2, <3>2 DEF Emitted, HasRoom
    <3> QED BY <1>1, <2>1, <3>3 DEF Served, Answers
  <2>3. CASE v \in views /\ HasRoom(v) /\ sent[v] # <<>>
    <3>1. PICK o \in OutputTypes : sent[v] = <<o>> /\ Answers(v, o)
      BY <2>3
    <3>2. PICK q : /\ q = Append(out[v], o) /\ q \in Seq(OutputTypes)
                   /\ Len(q) = Len(out[v]) + 1
      <4>1. Append(out[v], o) \in Seq(OutputTypes) /\ Len(Append(out[v], o)) = Len(out[v]) + 1
        BY <2>1, AppendAt
      <4> QED BY <4>1
    <3>3. out[v] \o sent[v] = q /\ q \o <<Fatal>> = Append(q, Fatal)
      BY <2>1, <3>1, <3>2, ConcatAt
    <3>4. CASE Len(q) < OutputCapacity
      <4>1. out'[v] = Append(q, Fatal)
        BY <1>1, <2>3, <3>3, <3>4
      <4>2. Dismissed(v, o)
        BY <1>1, <2>3, <3>2, <3>4, <4>1 DEF Dismissed
      <4> QED BY <3>1, <4>2 DEF Served
    <3>5. CASE ~(Len(q) < OutputCapacity)
      <4>1. out'[v] = q
        BY <1>1, <2>3, <3>3, <3>5
      <4>2. Emitted(v, o)
        BY <2>3, <3>2, <4>1 DEF Emitted, HasRoom
      <4> QED BY <1>1, <3>1, <4>2 DEF Served
    <3> QED BY <3>4, <3>5
  <2>4. CASE ~(v \in views /\ HasRoom(v))
    <3>1. out'[v] = out[v]
      BY <1>1, <2>4
    <3> QED BY <1>1, <3>1 DEF Served
  <2> QED BY <2>2, <2>3, <2>4
<1>3. out' = [v \in Views |-> out'[v]]
  BY <1>1
<1> QED BY <1>1, <1>2, <1>3
-----------------------------------------------------------------------------
(* Each command but a registration does what WorkerSummary says.           *)

\* The command that the thread takes.
LEMMA TakesAt ==
  ASSUME MirrorTypes, NEW kind, Takes(kind)
  PROVE  /\ running /\ cmds # <<>> /\ UNCHANGED hostVars
         /\ Head(cmds) = cmds[1] /\ cmds[1] \in CommandTypes /\ cmds[1].kind = kind
         /\ cmds[1].epoch \in 0 .. MaxPageEpoch
         /\ cmds[1].kind \in {"Register", "Detach", "Request"} => cmds[1].view \in Views
         /\ cmds[1].kind = "Request" => cmds[1].request \in RequestKinds
<1>1. cmds \in Seq(CommandTypes) /\ cmds # <<>>
  BY DEF Takes, MirrorTypes, QueueTypes
<1>2. Head(cmds) = cmds[1] /\ Head(cmds) \in CommandTypes /\ 1 \in DOMAIN cmds
  BY <1>1, TailAt
<1>3. running /\ UNCHANGED hostVars /\ Head(cmds).kind = kind
  BY DEF Takes
<1>4. /\ cmds[1].kind \in {"Register", "Detach", "Request"} => cmds[1].view \in Views
      /\ cmds[1].kind = "Request" => cmds[1].request \in RequestKinds
      /\ cmds[1].epoch \in 0 .. MaxPageEpoch
  BY <1>2 DEF CommandTypes
<1> QED BY <1>1, <1>2, <1>3, <1>4

\* A command that changes nothing public.
LEMMA NothingPublic ==
  ASSUME ControllerTypes, silent => client = "Idle", UNCHANGED publicVars
  PROVE  ControllerTypes' /\ StaysPublic /\ (silent' => client' = "Idle")
  BY DEF publicVars, ControllerTypes, StaysPublic, IsPublic, Watermark

\* The controller gives up.
LEMMA SendFatalSummary ==
  ASSUME MirrorAssumption, MirrorTypes, silent => client = "Idle",
         NEW kind, Takes(kind), SendFatal, UNCHANGED publicVars
  PROVE  WorkerSummary
<1>1. DropsAll(Nothing) /\ running' = FALSE /\ cmds' = <<>>
  BY DEF SendFatal
<1>2. ControllerTypes' /\ (silent' => client' = "Idle")
  BY NothingPublic DEF MirrorTypes
<1>3. \A v \in Views : Nothing[v] = <<>>
  BY DEF Nothing
<1>4. /\ views' = {} /\ out' = [v \in Views |-> out'[v]] /\ \A v \in Views : Served(v)
  BY <1>1, <1>3, DropsAllAt
<1> QED BY <1>1, <1>2, <1>4, TakesAt DEF WorkerSummary

\* A call whose events are broadcast, with or without a view that gets them with its reply.
LEMMA CallSummary ==
  ASSUME MirrorAssumption, MirrorTypes, silent => client = "Idle",
         NEW kind, Takes(kind), Continues, NEW kept, NEW state, NEW events,
         Coherent(kept, state, events), ~Exhausts(events), Becomes(kept, state, events),
         NEW sent, Sends(sent),
         \A v \in Views :
           IF IsRequest(cmds[1], v)
           THEN /\ sent[v] = <<Output("Batch", cmds[1].epoch, NoSnapshot, Numbered(events))>>
                /\ cmds[1].request # "get"
           ELSE sent[v] = IF events = <<>> THEN <<>>
                          ELSE <<Output("Events", 0, NoSnapshot, Numbered(events))>>
  PROVE  WorkerSummary
<1> DEFINE batch == Output("Batch", cmds[1].epoch, NoSnapshot, Numbered(events))
           news  == Output("Events", 0, NoSnapshot, Numbered(events))
<1>1. ControllerTypes /\ MaxSequence \in Nat /\ MaxPageEpoch \in Nat
  BY DEF MirrorTypes, MirrorAssumption
<1>2. events \in Seq(CoreEventTypes) /\ Len(events) <= 3 /\ Numbered(events) \in Batches
  <2>1. events \in Seq(CoreEventTypes) /\ Len(events) <= 3
    BY DEF Coherent
  <2> QED BY <1>1, <2>1, NumberedAt
<1>3. NoSnapshot \in Replies /\ 0 \in 0 .. MaxPageEpoch /\ cmds[1].epoch \in 0 .. MaxPageEpoch
  BY <1>1, NoSnapshotType, TakesAt
<1>4. /\ batch \in OutputTypes /\ batch.kind = "Batch" /\ batch.epoch = cmds[1].epoch
      /\ batch.reply = NoSnapshot /\ batch.events = Numbered(events)
  BY <1>2, <1>3, OutputAt
<1>5. /\ news \in OutputTypes /\ news.kind = "Events"
      /\ news.reply = NoSnapshot /\ news.events = Numbered(events)
  BY <1>2, <1>3, OutputAt
<1> HIDE DEF batch, news
<1>6. /\ events = <<>> => StaysPublic
      /\ MovesPublic(batch) /\ MovesPublic(news)
  BY <1>1, <1>4, <1>5, PublicFollows DEF StaysPublic, MovesPublic
<1>7. \A v \in Views : /\ IsRequest(cmds[1], v) => sent[v] = <<batch>> /\ cmds[1].request # "get"
                       /\ ~IsRequest(cmds[1], v) =>
                            sent[v] = IF events = <<>> THEN <<>> ELSE <<news>>
  BY DEF batch, news
<1>8. \A v \in Views : sent[v] = <<>> \/ \E o \in OutputTypes : sent[v] = <<o>>
  BY <1>4, <1>5, <1>7
<1>9. /\ views' \subseteq views
      /\ out' = [v \in Views |-> out'[v]]
      /\ \A v \in Views :
           \/ out'[v] = out[v] /\ (v \in views' => sent[v] = <<>>)
           \/ \E o \in OutputTypes : sent[v] = <<o>> /\ Emitted(v, o)
  BY <1>8, DeliverAt
<1>10. ASSUME NEW v \in Views
       PROVE  Served(v)
  <2>1. CASE out'[v] = out[v] /\ (v \in views' => sent[v] = <<>>)
    <3>1. v \in views' => ~IsRequest(cmds[1], v) /\ events = <<>>
      <4>1. <<batch>> # <<>> /\ <<news>> # <<>>
        OBVIOUS
      <4>2. IsRequest(cmds[1], v) => sent[v] # <<>>
        BY <1>7, <4>1
      <4>3. ~IsRequest(cmds[1], v) /\ events # <<>> => sent[v] # <<>>
        BY <1>7, <4>1
      <4> QED BY <2>1, <4>2, <4>3
    <3> QED BY <1>6, <2>1, <3>1 DEF Served
  <2>2. CASE \E o \in OutputTypes : sent[v] = <<o>> /\ Emitted(v, o)
    <3>1. PICK o \in OutputTypes : sent[v] = <<o>> /\ Emitted(v, o)
      BY <2>2
    <3>2. CASE IsRequest(cmds[1], v)
      <4>1. o = batch /\ cmds[1].request # "get"
        BY <1>7, <3>1, <3>2
      <4>2. Answers(v, o)
        BY <1>4, <3>2, <4>1 DEF Answers
      <4> QED BY <1>4, <1>6, <3>1, <4>1, <4>2 DEF Served
    <3>3. CASE ~IsRequest(cmds[1], v)
      <4>1. o = news
        BY <1>7, <3>1, <3>3
      <4>2. Answers(v, o)
        BY <1>5, <4>1 DEF Answers
      <4> QED BY <1>6, <3>1, <3>3, <4>1, <4>2 DEF Served
    <3> QED BY <3>2, <3>3
  <2> QED BY <1>9, <2>1, <2>2
<1>11. ControllerTypes' /\ (silent' => client' = "Idle")
  <2>1. ControllerTypes' /\ silent' = (silent /\ events = <<>>)
    BY <1>1, BecomesAt
  <2>2. ASSUME silent' PROVE client' = "Idle"
    <3>1. events = <<>> /\ client = "Idle"
      BY <2>1, <2>2
    <3>2. PublicState(state) = authentication /\ state \in RestStates
      BY <3>1 DEF Coherent
    <3>3. authentication = PublicState("Idle")
      BY <1>1, <3>1 DEF ControllerTypes
    <3>4. PublicState(state) = "Idle"
      BY <3>2, <3>3 DEF PublicState
    <3>5. state = "Idle"
      BY <3>2, <3>4, PublicStateType
    <3> QED BY <3>5 DEF Becomes
  <2> QED BY <2>1, <2>2
<1>12. cmds' = Tail(cmds) /\ running' = running
  BY DEF Continues
<1> QED BY <1>9, <1>10, <1>11, <1>12, TakesAt DEF WorkerSummary

\* The reply goes to the page that asked, and its events to every other.
LEMMA RequestOutputsAt ==
  ASSUME MirrorAssumption, MirrorTypes, NEW kept, NEW state, NEW events,
         Coherent(kept, state, events), ~Exhausts(events),
         NEW kind, Takes(kind), NEW sent,
         \A v \in Views :
           IF IsRequest(cmds[1], v)
           THEN /\ sent[v] = <<Output("Batch", cmds[1].epoch, NoSnapshot, Numbered(events))>>
                /\ cmds[1].request # "get"
           ELSE sent[v] = IF events = <<>> THEN <<>>
                          ELSE <<Output("Events", 0, NoSnapshot, Numbered(events))>>
  PROVE  \A v \in Views :
           sent[v] = <<>> \/ \E o \in OutputTypes : sent[v] = <<o>> /\ Answers(v, o)
<1> DEFINE batch == Output("Batch", cmds[1].epoch, NoSnapshot, Numbered(events))
           news  == Output("Events", 0, NoSnapshot, Numbered(events))
<1>1. ControllerTypes /\ MaxSequence \in Nat /\ MaxPageEpoch \in Nat
  BY DEF MirrorTypes, MirrorAssumption
<1>2. Numbered(events) \in Batches
  <2>1. events \in Seq(CoreEventTypes) /\ Len(events) <= 3
    BY DEF Coherent
  <2> QED BY <1>1, <2>1, NumberedAt
<1>3. NoSnapshot \in Replies /\ 0 \in 0 .. MaxPageEpoch /\ cmds[1].epoch \in 0 .. MaxPageEpoch
  BY <1>1, NoSnapshotType, TakesAt
<1>4. /\ batch \in OutputTypes /\ batch.kind = "Batch" /\ batch.epoch = cmds[1].epoch
      /\ batch.reply = NoSnapshot
  BY <1>2, <1>3, OutputAt
<1>5. news \in OutputTypes /\ news.kind = "Events"
  BY <1>2, <1>3, OutputAt
<1>6. \A v \in Views : IF IsRequest(cmds[1], v) THEN sent[v] = <<batch>> /\ cmds[1].request # "get"
                       ELSE sent[v] = <<>> \/ sent[v] = <<news>>
  OBVIOUS
<1> HIDE DEF batch, news
<1> QED BY <1>4, <1>5, <1>6 DEF Answers

\* A request that may change the state (handle_request): its events go to every view.
LEMMA RequestSummary ==
  ASSUME MirrorAssumption, MirrorTypes, silent => client = "Idle", TakeRequest
  PROVE  WorkerSummary
<1> DEFINE c == cmds[1]
<1>1. /\ Takes("Request") /\ Head(cmds) = c /\ c.kind = "Request" /\ c.view \in views
      /\ c.request \in RequestKinds /\ c.request # "get"
  <2>1. Takes("Request") /\ Head(cmds).view \in views /\ Head(cmds).request # "get"
    BY DEF TakeRequest
  <2> QED BY <2>1, TakesAt
<1> HIDE DEF c
<1>2. c.request \in {"begin", "respond", "cancel", "power"}
  BY <1>1 DEF RequestKinds
<1>3. PICK o \in Execute(c.request, c.prompt) :
        IF Exhausts(BatchEvents(o.state, DetailEvents(c.request, o)))
        THEN SendFatal /\ UNCHANGED publicVars
        ELSE /\ Becomes(PromptKept(c.request), o.state, BatchEvents(o.state, DetailEvents(c.request, o)))
             /\ Continues
             /\ IF Falls(o)
                THEN DropsAll(RequestOutputs(c.view, c.epoch, NoSnapshot,
                                BatchEvents(o.state, DetailEvents(c.request, o))))
                ELSE SendToViewAndBroadcast(c.view, c.epoch, NoSnapshot,
                                            BatchEvents(o.state, DetailEvents(c.request, o)))
  BY <1>1 DEF TakeRequest
<1> DEFINE events == BatchEvents(o.state, DetailEvents(c.request, o))
           sent   == RequestOutputs(c.view, c.epoch, NoSnapshot, events)
<1>4. Coherent(PromptKept(c.request), o.state, events)
  BY <1>2, RequestCoherent DEF MirrorTypes
<1> HIDE DEF events, sent
<1>5. \A v \in Views :
        IF IsRequest(cmds[1], v)
        THEN /\ sent[v] = <<Output("Batch", cmds[1].epoch, NoSnapshot, Numbered(events))>>
             /\ cmds[1].request # "get"
        ELSE sent[v] = IF events = <<>> THEN <<>>
                       ELSE <<Output("Events", 0, NoSnapshot, Numbered(events))>>
  BY <1>1 DEF IsRequest, RequestOutputs, c, sent
<1>6. CASE Exhausts(events)
  BY <1>1, <1>3, <1>6, SendFatalSummary DEF events
<1>7. CASE ~Exhausts(events) /\ Falls(o)
  <2>1. Becomes(PromptKept(c.request), o.state, events) /\ Continues /\ DropsAll(sent)
    BY <1>3, <1>7 DEF events, sent
  <2>2. ControllerTypes' /\ silent' = (silent /\ events = <<>>)
    BY <1>4, <1>7, <2>1, BecomesAt DEF MirrorTypes, MirrorAssumption
  <2>3. silent' => client' = "Idle"
    <3> SUFFICES ASSUME silent' PROVE client' = "Idle"
      OBVIOUS
    <3>1. client = "Idle" /\ events = <<>>
      BY <2>2
    <3>2. PublicState(o.state) = authentication /\ authentication = PublicState("Idle")
          /\ o.state \in RestStates
      BY <1>4, <3>1 DEF Coherent, MirrorTypes, ControllerTypes
    <3>3. PublicState(o.state) = "Idle"
      BY <3>2 DEF PublicState
    <3>4. o.state = "Idle"
      BY <3>2, <3>3, PublicStateType
    <3> QED BY <2>1, <3>4 DEF Becomes
  <2>4. /\ views' = {} /\ out' = [v \in Views |-> out'[v]] /\ \A v \in Views : Served(v)
    <3>1. \A v \in Views :
             sent[v] = <<>> \/ \E x \in OutputTypes : sent[v] = <<x>> /\ Answers(v, x)
      BY <1>1, <1>4, <1>7, <1>5, RequestOutputsAt
    <3> QED BY <2>1, <3>1, DropsAllAt
  <2> QED BY <1>1, <2>1, <2>2, <2>3, <2>4, TakesAt DEF WorkerSummary, Continues
<1>8. CASE ~Exhausts(events) /\ ~Falls(o)
  <2>1. /\ Becomes(PromptKept(c.request), o.state, events) /\ Continues
        /\ SendToViewAndBroadcast(c.view, c.epoch, NoSnapshot, events)
    BY <1>3, <1>8 DEF events
  <2>2. Sends(sent)
    BY <2>1 DEF SendToViewAndBroadcast, sent
  <2> QED BY <1>1, <1>4, <1>8, <2>1, <2>2, <1>5, CallSummary
<1> QED BY <1>6, <1>7, <1>8

\* A lifecycle event whose events are broadcast, or that exhausts the sequence.
LEMMA BroadcastSummary ==
  ASSUME MirrorAssumption, MirrorTypes, silent => client = "Idle",
         NEW kind \in {"PrepareForSleep", "ResumeAfterSleep"}, Takes(kind),
         NEW kept, NEW state, NEW events, Coherent(kept, state, events), Lifecycle(kept, state, events)
  PROVE  WorkerSummary
<1>1. cmds[1].kind = kind /\ \A v \in Views : ~IsRequest(cmds[1], v)
  BY TakesAt DEF IsRequest
<1>2. CASE Exhausts(events)
  BY <1>2, SendFatalSummary DEF Lifecycle
<1>3. CASE ~Exhausts(events)
  <2> DEFINE sent == [v \in Views |-> IF events = <<>> THEN <<>>
                         ELSE <<Output("Events", 0, NoSnapshot, Numbered(events))>>]
  <2>1. Becomes(kept, state, events) /\ Continues /\ Sends(sent)
    BY <1>3 DEF Lifecycle, Broadcast
  <2>2. \A v \in Views :
           IF IsRequest(cmds[1], v)
           THEN /\ sent[v] = <<Output("Batch", cmds[1].epoch, NoSnapshot, Numbered(events))>>
                /\ cmds[1].request # "get"
           ELSE sent[v] = IF events = <<>> THEN <<>>
                          ELSE <<Output("Events", 0, NoSnapshot, Numbered(events))>>
    BY <1>1
  <2> HIDE DEF sent
  <2> QED BY <1>3, <2>1, <2>2, CallSummary
<1> QED BY <1>2, <1>3

\* The machine prepares to sleep or resumes.
LEMMA SleepSummary ==
  ASSUME MirrorAssumption, MirrorTypes, silent => client = "Idle",
         TakePrepareForSleep \/ TakeResumeAfterSleep
  PROVE  WorkerSummary
<1>1. ControllerTypes
  BY DEF MirrorTypes
<1>2. ASSUME NEW kind \in {"PrepareForSleep", "ResumeAfterSleep"}, Takes(kind),
             Continues, UNCHANGED <<views, out, publicVars>>
      PROVE  WorkerSummary
  <2>1. ControllerTypes' /\ StaysPublic /\ (silent' => client' = "Idle")
    BY <1>1, <1>2, NothingPublic
  <2>2. cmds[1].kind = kind /\ \A v \in Views : ~IsRequest(cmds[1], v)
    BY <1>2, TakesAt DEF IsRequest
  <2>3. views' = views /\ out' = out /\ out \in [Views -> Seq(OutputTypes)]
    BY <1>2 DEF MirrorTypes, OutTypes
  <2>4. \A v \in Views : Served(v)
    BY <2>1, <2>2, <2>3 DEF Served
  <2>5. running /\ cmds # <<>> /\ UNCHANGED hostVars
    BY <1>2, TakesAt
  <2>6. cmds' = Tail(cmds) /\ running' = running
    BY <1>2 DEF Continues
  <2> QED BY <2>1, <2>3, <2>4, <2>5, <2>6 DEF WorkerSummary
<1>3. CASE TakePrepareForSleep
  <2>1. Takes("PrepareForSleep")
    BY <1>3 DEF TakePrepareForSleep
  <2>2. CASE locked
    <3>1. Lifecycle(prompt, AfterLifecycleCancel, BatchEvents(AfterLifecycleCancel, CancelledEvents))
      BY <1>3, <2>2 DEF TakePrepareForSleep
    <3> QED BY <1>1, <2>1, <3>1, SleepCoherent, BroadcastSummary
  <2>3. CASE ~locked
    <3>1. Continues /\ UNCHANGED <<views, out, publicVars>>
      BY <1>3, <2>3 DEF TakePrepareForSleep
    <3> QED BY <1>2, <2>1, <3>1
  <2> QED BY <2>2, <2>3
<1>4. CASE TakeResumeAfterSleep
  <2>1. Takes("ResumeAfterSleep")
    BY <1>4 DEF TakeResumeAfterSleep
  <2>2. CASE locked
    <3>1. PICK o \in BeginOutcomes(AfterLifecycleCancel) :
            IF o.result = "Ok"
            THEN Lifecycle(NoPrompt, o.state,
                           BatchEvents(o.state, CancelledEvents \o CoreEvents(o.state)))
            ELSE SendFatal /\ UNCHANGED publicVars
      BY <1>4, <2>2 DEF TakeResumeAfterSleep
    <3>2. CASE o.result = "Ok"
      <4> DEFINE events == BatchEvents(o.state, CancelledEvents \o CoreEvents(o.state))
      <4>1. Coherent(NoPrompt, o.state, events) /\ Lifecycle(NoPrompt, o.state, events)
        BY <1>1, <3>1, <3>2, ResumeCoherent
      <4> HIDE DEF events
      <4> QED BY <2>1, <4>1, BroadcastSummary
    <3>3. CASE o.result # "Ok"
      <4>1. SendFatal /\ UNCHANGED publicVars
        BY <3>1, <3>3
      <4> QED BY <2>1, <4>1, SendFatalSummary
    <3> QED BY <3>2, <3>3
  <2>3. CASE ~locked
    <3>1. Continues /\ UNCHANGED <<views, out, publicVars>>
      BY <1>4, <2>3 DEF TakeResumeAfterSleep
    <3> QED BY <1>2, <2>1, <3>1
  <2> QED BY <2>2, <2>3
<1> QED BY <1>3, <1>4

\* state.get: the snapshot is of the state that the sequence has reached.
LEMMA StateGetSummary ==
  ASSUME MirrorAssumption, MirrorTypes, silent => client = "Idle", TakeStateGet
  PROVE  WorkerSummary
<1> DEFINE c == cmds[1]
           o == Output("Batch", c.epoch, Snapshot(Watermark), Numbered(<<>>))
           sent == [v \in Views |-> IF v = c.view THEN <<o>> ELSE <<>>]
<1>1. /\ Takes("Request") /\ Continues /\ UNCHANGED publicVars
      /\ Head(cmds) = c /\ c.kind = "Request" /\ c.view \in views
      /\ c.request = "get" /\ c.epoch \in 0 .. MaxPageEpoch
      /\ SendToViewAndBroadcast(c.view, c.epoch, Snapshot(Watermark), <<>>)
  <2>1. /\ Takes("Request") /\ Continues /\ UNCHANGED publicVars
        /\ Head(cmds).view \in views /\ Head(cmds).request = "get"
        /\ SendToViewAndBroadcast(Head(cmds).view, Head(cmds).epoch, Snapshot(Watermark), <<>>)
    BY DEF TakeStateGet
  <2> QED BY <2>1, TakesAt
<1> HIDE DEF c
<1>2. ControllerTypes /\ ControllerTypes' /\ StaysPublic /\ (silent' => client' = "Idle")
  BY <1>1, NothingPublic DEF MirrorTypes
<1>3. Watermark \in SequenceNumbers /\ authentication \in Shown /\ prompt \in SequenceNumbers
  <2>1. next \in 1 .. (MaxSequence + 1) /\ MaxSequence \in Nat
    BY <1>2 DEF ControllerTypes, MirrorAssumption
  <2> QED BY <1>2, <2>1, PublicStateType DEF ControllerTypes, Watermark, SequenceNumbers
<1>4. /\ Snapshot(Watermark) \in Replies /\ Snapshot(Watermark) # NoSnapshot
      /\ Snapshot(Watermark).authentication = authentication
      /\ Snapshot(Watermark).prompt = prompt /\ Snapshot(Watermark).sequence = Watermark
  <2>1. Snapshot(Watermark).authentication # NoSnapshot.authentication
    BY <1>3 DEF Snapshot, NoSnapshot, Shown, RestStates
  <2> QED BY <1>3, <2>1 DEF Snapshot, Replies
<1>5. Numbered(<<>>) = <<>>
  BY DEF Numbered
<1>6. /\ o \in OutputTypes /\ o.kind = "Batch" /\ o.epoch = c.epoch
      /\ o.reply = Snapshot(Watermark) /\ o.events = <<>>
  <2>1. <<>> \in Batches
    BY NoSnapshotType DEF MirrorAssumption
  <2> QED BY <1>1, <1>4, <1>5, <2>1, OutputAt
<1>7. Sends(sent)
  BY <1>1 DEF SendToViewAndBroadcast, RequestOutputs
<1> HIDE DEF o
<1>8. \A v \in Views : /\ v = c.view => sent[v] = <<o>>
                       /\ v # c.view => sent[v] = <<>>
  OBVIOUS
<1> HIDE DEF sent
<1>9. /\ views' \subseteq views
      /\ out' = [v \in Views |-> out'[v]]
      /\ \A v \in Views :
           \/ out'[v] = out[v] /\ (v \in views' => sent[v] = <<>>)
           \/ \E x \in OutputTypes : sent[v] = <<x>> /\ Emitted(v, x)
  BY <1>6, <1>7, <1>8, DeliverAt
<1>10. MovesPublic(o)
  <2> SUFFICES ASSUME NEW k \in Images, IsPublic(k)
               PROVE  \E l \in Images : Step(k, o, l) /\ IsPublic(l)'
    BY DEF MovesPublic
  <2>1. PICK l \in Images : l = [last |-> k.last, authentication |-> authentication, prompt |-> prompt]
    BY <1>3 DEF Images
  <2>2. k.last = Watermark
    BY DEF IsPublic
  <2>3. l.last = k.last /\ l.authentication = authentication /\ l.prompt = prompt
    BY <2>1
  <2>4. Step(k, o, l)
    BY <1>4, <1>6, <2>2, <2>3 DEF Step
  <2>5. Watermark' = Watermark /\ authentication' = authentication /\ prompt' = prompt
    BY <1>1 DEF publicVars, Watermark
  <2>6. IsPublic(l)'
    BY <2>2, <2>3, <2>5 DEF IsPublic
  <2> QED BY <2>4, <2>6
<1>11. ASSUME NEW v \in Views
       PROVE  Served(v)
  <2>1. IsRequest(cmds[1], v) <=> v = c.view
    BY <1>1 DEF IsRequest, c
  <2>2. CASE v = c.view
    <3>1. <<o>> # <<>>
      OBVIOUS
    <3>2. sent[v] = <<o>> /\ sent[v] # <<>>
      BY <1>8, <2>2, <3>1
    <3>3. \A x \in OutputTypes : sent[v] = <<x>> => x = o
      BY <3>2
    <3>4. Answers(v, o)
      BY <1>1, <1>4, <1>6, <2>1, <2>2 DEF Answers, c
    <3>5. CASE Emitted(v, o)
      BY <1>6, <1>10, <3>4, <3>5 DEF Served
    <3>6. CASE ~Emitted(v, o)
      <4>1. out'[v] = out[v] /\ v \notin views'
        BY <1>9, <3>2, <3>3, <3>6
      <4> QED BY <4>1 DEF Served
    <3> QED BY <3>5, <3>6
  <2>3. CASE v # c.view
    <3>1. sent[v] = <<>> /\ \A x \in OutputTypes : sent[v] # <<x>>
      BY <1>8, <2>3
    <3>2. out'[v] = out[v]
      BY <1>9, <3>1
    <3> QED BY <1>2, <2>1, <2>3, <3>2 DEF Served
  <2> QED BY <2>2, <2>3
<1> QED BY <1>1, <1>2, <1>9, <1>11, TakesAt DEF WorkerSummary, Continues

\* A view that is detached, a request of a view that was dropped, a page that is loading:
\* nothing is sent.
LEMMA SilentSummary ==
  ASSUME MirrorAssumption, MirrorTypes, silent => client = "Idle",
         TakeDetach \/ TakeRequestOfLostView \/ TakeCancelForPage
  PROVE  WorkerSummary
<1>1. ControllerTypes /\ views \subseteq Views /\ out \in [Views -> Seq(OutputTypes)]
  BY DEF MirrorTypes, QueueTypes, OutTypes
<1>2. ASSUME NEW kind, Takes(kind), Continues, out' = out, views' \subseteq views,
             ControllerTypes', StaysPublic, silent' => client' = "Idle",
             \A v \in views' : ~IsRequest(cmds[1], v)
      PROVE  WorkerSummary
  <2>1. \A v \in Views : Served(v)
    BY <1>2 DEF Served
  <2>2. out' = [v \in Views |-> out'[v]]
    BY <1>1, <1>2
  <2>3. running /\ cmds # <<>> /\ UNCHANGED hostVars
    BY <1>2, TakesAt
  <2>4. cmds' = Tail(cmds) /\ running' = running
    BY <1>2 DEF Continues
  <2> QED BY <1>2, <2>1, <2>2, <2>3, <2>4 DEF WorkerSummary
<1>3. CASE TakeDetach
  <2>1. Takes("Detach") /\ Continues /\ out' = out /\ views' \subseteq views /\ UNCHANGED publicVars
    BY <1>3 DEF TakeDetach
  <2>2. cmds[1].kind = "Detach"
    BY <2>1, TakesAt
  <2> QED BY <1>1, <1>2, <2>1, <2>2, NothingPublic DEF IsRequest
<1>4. CASE TakeRequestOfLostView
  <2>1. /\ Takes("Request") /\ Continues /\ out' = out /\ views' = views /\ UNCHANGED publicVars
        /\ Head(cmds).view \notin views
    BY <1>4 DEF TakeRequestOfLostView
  <2>2. Head(cmds) = cmds[1]
    BY <2>1, TakesAt
  <2> QED BY <1>1, <1>2, <2>1, <2>2, NothingPublic DEF IsRequest
<1>5. CASE TakeCancelForPage
  <2>1. Takes("CancelForPage") /\ Continues /\ out' = out /\ views' = views
    BY <1>5 DEF TakeCancelForPage
  <2>2. cmds[1].kind = "CancelForPage"
    BY <2>1, TakesAt
  <2>3. ControllerTypes' /\ StaysPublic /\ (silent' => client' = "Idle")
    <3>1. CASE InTransaction(client)
      <4>1. /\ client' = "Idle" /\ authentication' = "Idle" /\ prompt' = NoPrompt
            /\ silent' = TRUE /\ locked' = locked /\ next' = next
        BY <1>5, <3>1 DEF TakeCancelForPage
      <4>2. NoPrompt \in SequenceNumbers
        BY DEF MirrorAssumption, NoPrompt, SequenceNumbers
      <4>3. ControllerTypes'
        BY <1>1, <4>1, <4>2 DEF ControllerTypes, RestStates, PublicState
      <4>4. StaysPublic
        BY <4>1 DEF StaysPublic, IsPublic, Watermark
      <4> QED BY <4>1, <4>3, <4>4
    <3>2. CASE ~InTransaction(client)
      <4>1. UNCHANGED publicVars
        BY <1>5, <3>2 DEF TakeCancelForPage
      <4> QED BY <1>1, <4>1, NothingPublic
    <3> QED BY <3>1, <3>2
  <2> QED BY <1>2, <2>1, <2>2, <2>3 DEF IsRequest
<1> QED BY <1>3, <1>4, <1>5
-----------------------------------------------------------------------------
(* What a step of the controller thread preserves.                         *)

\* A step of the controller thread keeps every variable within its type.
LEMMA TypesWorker ==
  ASSUME MirrorAssumption, MirrorTypes, WorkerSummary
  PROVE  MirrorTypes'
<1>1. QueueTypes'
  <2>1. cmds \in Seq(CommandTypes) /\ Len(cmds) <= CommandCapacity /\ cmds # <<>>
        /\ views \subseteq Views /\ CommandCapacity \in Nat
    BY DEF MirrorTypes, QueueTypes, WorkerSummary, MirrorAssumption
  <2>2. cmds' \in Seq(CommandTypes) /\ Len(cmds') <= CommandCapacity
    <3>1. CASE cmds' = Tail(cmds)
      <4>1. Len(cmds) \in Nat \ {0} /\ Tail(cmds) \in Seq(CommandTypes) /\ Len(Tail(cmds)) = Len(cmds) - 1
        BY <2>1, TailAt
      <4> QED BY <2>1, <3>1, <4>1
    <3>2. CASE cmds' = <<>>
      <4>1. <<>> \in Seq(CommandTypes) /\ Len(<<>>) = 0
        BY EmptySeq
      <4> QED BY <2>1, <3>2, <4>1
    <3> QED BY <3>1, <3>2 DEF WorkerSummary
  <2>3. running' \in BOOLEAN /\ views' \subseteq Views
    BY <2>1 DEF WorkerSummary, MirrorTypes, QueueTypes
  <2> QED BY <2>2, <2>3 DEF QueueTypes
<1>2. OutTypes'
  <2>1. ASSUME NEW v \in Views
        PROVE  out'[v] \in Seq(OutputTypes) /\ Len(out'[v]) <= OutputCapacity
    <3>1. out[v] \in Seq(OutputTypes) /\ Len(out[v]) <= OutputCapacity /\ OutputCapacity \in Nat
      BY DEF MirrorTypes, OutTypes, MirrorAssumption
    <3>2. CASE out'[v] = out[v]
      BY <3>1, <3>2
    <3>3. CASE \E o \in OutputTypes : Emitted(v, o)
      <4>1. PICK o \in OutputTypes : out'[v] = Append(out[v], o) /\ Len(out[v]) < OutputCapacity
        BY <3>3 DEF Emitted
      <4>2. /\ Append(out[v], o) \in Seq(OutputTypes) /\ Len(out[v]) \in Nat
            /\ Len(Append(out[v], o)) = Len(out[v]) + 1
        BY <3>1, AppendAt
      <4> QED BY <3>1, <4>1, <4>2
    <3>4. CASE \E o \in OutputTypes : Dismissed(v, o)
      <4>1. PICK o \in OutputTypes : /\ out'[v] = Append(Append(out[v], o), Fatal)
                                     /\ Len(out[v]) + 1 < OutputCapacity
        BY <3>4 DEF Dismissed
      <4>2. PICK q : /\ q = Append(out[v], o) /\ q \in Seq(OutputTypes)
                     /\ Len(q) = Len(out[v]) + 1
        <5>1. /\ Append(out[v], o) \in Seq(OutputTypes)
              /\ Len(Append(out[v], o)) = Len(out[v]) + 1
          BY <3>1, AppendAt
        <5> QED BY <5>1
      <4>3. /\ Append(q, Fatal) \in Seq(OutputTypes) /\ Len(out[v]) \in Nat
            /\ Len(Append(q, Fatal)) = Len(q) + 1
        BY <3>1, <4>2, AppendAt, FatalAt
      <4> QED BY <3>1, <4>1, <4>2, <4>3
    <3> QED BY <3>2, <3>3, <3>4 DEF WorkerSummary, Served
  <2>2. out' = [v \in Views |-> out'[v]]
    BY DEF WorkerSummary
  <2>3. out' \in [Views -> Seq(OutputTypes)]
    BY <2>1, <2>2
  <2> QED BY <2>1, <2>3 DEF OutTypes
<1>3. PageTypesOK'
  BY DEF MirrorTypes, PageTypesOK, WorkerSummary, hostVars
<1> QED BY <1>1, <1>2, <1>3 DEF MirrorTypes, WorkerSummary

\* How the queue and a view's outputs differ after a step, by position.
LEMMA WorkerAt ==
  ASSUME MirrorTypes, WorkerSummary, NEW v \in Views
  PROVE  /\ DOMAIN cmds = 1 .. Len(cmds) /\ Len(cmds) \in Nat \ {0}
         /\ \A i \in DOMAIN cmds' : i \in Nat \ {0} /\ i + 1 \in DOMAIN cmds /\ cmds'[i] = cmds[i + 1]
         /\ running' => \A i \in DOMAIN cmds : i # 1 =>
                          i \in Nat /\ i - 1 \in DOMAIN cmds' /\ cmds'[i - 1] = cmds[i]
         /\ page'[v] = page[v] /\ pending'[v] = pending[v] /\ page_epoch'[v] = page_epoch[v]
         /\ views' \subseteq views
<1>1. cmds \in Seq(CommandTypes) /\ cmds # <<>>
  BY DEF MirrorTypes, QueueTypes, WorkerSummary
<1>2. /\ Len(cmds) \in Nat \ {0} /\ DOMAIN cmds = 1 .. Len(cmds)
      /\ DOMAIN Tail(cmds) = 1 .. (Len(cmds) - 1)
      /\ \A i \in 1 .. (Len(cmds) - 1) : Tail(cmds)[i] = cmds[i + 1]
  BY <1>1, TailAt
<1>3. page' = page /\ pending' = pending /\ page_epoch' = page_epoch /\ views' \subseteq views
  BY DEF WorkerSummary, hostVars
<1>4. CASE cmds' = Tail(cmds)
  <2>1. \A i \in DOMAIN cmds' : i \in Nat \ {0} /\ i + 1 \in DOMAIN cmds /\ cmds'[i] = cmds[i + 1]
    BY <1>2, <1>4
  <2>2. \A i \in DOMAIN cmds : i # 1 =>
          i \in Nat /\ i - 1 \in DOMAIN cmds' /\ cmds'[i - 1] = cmds[i]
    BY <1>2, <1>4
  <2> QED BY <1>2, <1>3, <2>1, <2>2
<1>5. CASE cmds' = <<>> /\ running' = FALSE
  <2>1. DOMAIN cmds' = {}
    BY <1>5
  <2> QED BY <1>2, <1>3, <1>5, <2>1
<1> QED BY <1>4, <1>5 DEF WorkerSummary

\* A queue of outputs that one more output follows, and perhaps the end of the view.
Lengthened(v, o, n, m) ==
  /\ DOMAIN out[v] = 1 .. n /\ DOMAIN out'[v] = 1 .. m
  /\ \A i \in 1 .. n : out'[v][i] = out[v][i]
  /\ out'[v][n + 1] = o
  /\ m # n + 1 => v \notin views' /\ out'[v][m] = Fatal
  /\ v \in views
  /\ Answers(v, o)
  /\ (v \in views' /\ IsRequest(cmds[1], v)) => o.kind = "Batch"

\* ... and that of its outputs, of which there may be more.
LEMMA ServedAt ==
  ASSUME MirrorAssumption, MirrorTypes, WorkerSummary, NEW v \in Views
  PROVE  \/ out'[v] = out[v] /\ (v \in views' => ~IsRequest(cmds[1], v))
         \/ \E o \in OutputTypes, n \in Nat : \E m \in {n + 1, n + 2} : Lengthened(v, o, n, m)
<1>1. out[v] \in Seq(OutputTypes) /\ Fatal \in OutputTypes
  BY FatalAt DEF MirrorTypes, OutTypes
<1>2. Served(v)
  BY DEF WorkerSummary
<1>3. CASE \E o \in OutputTypes : /\ Emitted(v, o) /\ Answers(v, o)
                                  /\ (v \in views' /\ IsRequest(cmds[1], v)) => o.kind = "Batch"
  <2>1. PICK o \in OutputTypes : /\ Emitted(v, o) /\ Answers(v, o)
                                 /\ (v \in views' /\ IsRequest(cmds[1], v)) => o.kind = "Batch"
    BY <1>3
  <2>2. PICK n \in Nat : n = Len(out[v])
    BY <1>1, LenProperties
  <2>3. /\ DOMAIN out[v] = 1 .. n /\ DOMAIN Append(out[v], o) = 1 .. (n + 1)
        /\ \A i \in 1 .. n : Append(out[v], o)[i] = out[v][i]
        /\ Append(out[v], o)[n + 1] = o
    BY <1>1, <2>2, AppendAt
  <2>4. v \in views /\ out'[v] = Append(out[v], o)
    BY <2>1 DEF Emitted
  <2>5. Lengthened(v, o, n, n + 1)
    BY <2>1, <2>3, <2>4 DEF Lengthened
  <2> QED BY <2>5
<1>4. CASE \E o \in OutputTypes : Dismissed(v, o) /\ Answers(v, o)
  <2>1. PICK o \in OutputTypes : Dismissed(v, o) /\ Answers(v, o)
    BY <1>4
  <2>2. PICK n \in Nat : n = Len(out[v])
    BY <1>1, LenProperties
  <2>3. PICK q : /\ q = Append(out[v], o) /\ q \in Seq(OutputTypes) /\ Len(q) = n + 1
                 /\ DOMAIN out[v] = 1 .. n /\ \A i \in 1 .. n : q[i] = out[v][i]
                 /\ q[n + 1] = o
    <3>1. /\ Append(out[v], o) \in Seq(OutputTypes) /\ Len(Append(out[v], o)) = n + 1
          /\ DOMAIN out[v] = 1 .. n /\ \A i \in 1 .. n : Append(out[v], o)[i] = out[v][i]
          /\ Append(out[v], o)[n + 1] = o
      BY <1>1, <2>2, AppendAt
    <3> QED BY <3>1
  <2>4. /\ DOMAIN Append(q, Fatal) = 1 .. (n + 1 + 1)
        /\ \A i \in 1 .. (n + 1) : Append(q, Fatal)[i] = q[i]
        /\ Append(q, Fatal)[n + 1 + 1] = Fatal
    BY <1>1, <2>3, AppendAt
  <2>5. /\ \A i \in 1 .. n : i \in 1 .. (n + 1)
        /\ n + 1 \in 1 .. (n + 1) /\ n + 1 + 1 = n + 2
    BY <2>2
  <2>6. v \in views /\ v \notin views' /\ out'[v] = Append(q, Fatal)
    BY <2>1, <2>3 DEF Dismissed
  <2>7. Lengthened(v, o, n, n + 2)
    BY <2>1, <2>3, <2>4, <2>5, <2>6 DEF Lengthened
  <2> QED BY <2>7
<1> QED BY <1>2, <1>3, <1>4 DEF Served

\* What is new in such a queue is that output, and no further batch.
LengthenedBy(v, o, n) ==
  /\ DOMAIN out[v] = 1 .. n /\ n + 1 \in DOMAIN out'[v]
  /\ \A i \in 1 .. n : out'[v][i] = out[v][i]
  /\ out'[v][n + 1] = o
  /\ \A i \in DOMAIN out'[v] : out'[v][i].kind = "Batch" => i \in 1 .. n \/ i = n + 1
  /\ Answers(v, o)

\* A queue that one or two outputs made longer has the first of them as its only new batch.
LEMMA LengthenedAt ==
  ASSUME MirrorAssumption, NEW v \in Views,
         NEW o \in OutputTypes, NEW n \in Nat, NEW m \in {n + 1, n + 2}, Lengthened(v, o, n, m)
  PROVE  LengthenedBy(v, o, n)
<1>1. Fatal.kind = "Fatal"
  BY FatalAt
<1>2. /\ DOMAIN out[v] = 1 .. n /\ DOMAIN out'[v] = 1 .. m
      /\ \A i \in 1 .. n : out'[v][i] = out[v][i]
      /\ out'[v][n + 1] = o /\ Answers(v, o)
      /\ m # n + 1 => out'[v][m] = Fatal
  BY DEF Lengthened
<1>3. ASSUME NEW i \in DOMAIN out'[v]
      PROVE  i \in 1 .. n \/ i = n + 1 \/ out'[v][i] = Fatal
  <2>1. i \in 1 .. m
    BY <1>2
  <2>2. i \in 1 .. n \/ i = n + 1 \/ (m # n + 1 /\ i = m)
    BY <2>1
  <2> QED BY <1>2, <2>2
<1>4. n + 1 \in 1 .. m
  OBVIOUS
<1>5. \A i \in DOMAIN out'[v] : out'[v][i].kind = "Batch" => i \in 1 .. n \/ i = n + 1
  BY <1>1, <1>3
<1> QED BY <1>2, <1>4, <1>5 DEF LengthenedBy

\* An output that was not there before answers the command that was taken, if it is a reply.
LEMMA NewOutputsAt ==
  ASSUME MirrorAssumption, MirrorTypes, WorkerSummary, NEW v \in Views
  PROVE  \A i \in DOMAIN out'[v] :
           \/ i \in DOMAIN out[v] /\ out'[v][i] = out[v][i]
           \/ /\ out'[v][i] \in OutputTypes
              /\ out'[v][i].kind = "Batch" =>
                   /\ IsRequest(cmds[1], v) /\ out'[v][i].epoch = cmds[1].epoch
                   /\ cmds[1].request = "get" <=> out'[v][i].reply # NoSnapshot
<1>1. CASE out'[v] = out[v]
  BY <1>1
<1>2. CASE \E o \in OutputTypes, n \in Nat : \E m \in {n + 1, n + 2} : Lengthened(v, o, n, m)
  <2>1. PICK o \in OutputTypes, n \in Nat : \E m \in {n + 1, n + 2} : Lengthened(v, o, n, m)
    BY <1>2
  <2>2. PICK m \in {n + 1, n + 2} : Lengthened(v, o, n, m)
    BY <2>1
  <2>3. /\ DOMAIN out[v] = 1 .. n /\ \A i \in 1 .. n : out'[v][i] = out[v][i]
        /\ out'[v][n + 1] = o
        /\ o.kind = "Batch" => /\ IsRequest(cmds[1], v) /\ o.epoch = cmds[1].epoch
                               /\ cmds[1].request = "get" <=> o.reply # NoSnapshot
    BY <2>2 DEF Lengthened, Answers
  <2>4. Fatal \in OutputTypes /\ Fatal.kind = "Fatal"
    BY FatalAt
  <2>5. ASSUME NEW i \in DOMAIN out'[v]
        PROVE  i \in 1 .. n \/ i = n + 1 \/ out'[v][i] = Fatal
    <3>1. i \in 1 .. m /\ (m # n + 1 => out'[v][m] = Fatal)
      BY <2>2 DEF Lengthened
    <3>2. i \in 1 .. n \/ i = n + 1 \/ (m # n + 1 /\ i = m)
      BY <3>1
    <3> QED BY <3>1, <3>2
  <2> QED BY <2>3, <2>4, <2>5
<1> QED BY <1>1, <1>2, ServedAt

\* ... a registration before what it registers,
LEMMA RegisterWorker ==
  ASSUME MirrorAssumption, MirrorTypes, WorkerSummary, NEW v \in Views, RegisterInv(v)
  PROVE  RegisterInv(v)'
<1>1. /\ \A i \in DOMAIN cmds' : i \in Nat \ {0} /\ i + 1 \in DOMAIN cmds /\ cmds'[i] = cmds[i + 1]
      /\ page'[v] = page[v] /\ views' \subseteq views
  BY WorkerAt
<1>2. v \notin views => out'[v] = out[v]
  BY ServedAt DEF Lengthened
<1>3. /\ Has(cmds', "Register", v) => Has(cmds, "Register", v)
      /\ Has(cmds', "Request", v) => Has(cmds, "Request", v)
  BY <1>1 DEF Has
<1>4. ASSUME NEW i \in DOMAIN cmds', NEW j \in DOMAIN cmds',
             cmds'[i].kind = "Register", cmds'[i].view = v,
             cmds'[j].kind = "Register", cmds'[j].view = v
      PROVE  i = j
  <2>1. i + 1 = j + 1
    BY <1>1, <1>4 DEF RegisterInv
  <2> QED BY <1>1, <2>1
<1>5. ASSUME NEW i \in DOMAIN cmds', NEW j \in DOMAIN cmds',
             cmds'[i].kind = "Register", cmds'[i].view = v, IsRequest(cmds'[j], v)
      PROVE  i < j
  <2>1. i + 1 < j + 1
    BY <1>1, <1>5 DEF RegisterInv
  <2> QED BY <1>1, <2>1
<1>6. Has(cmds', "Register", v) =>
       /\ v \notin views' /\ out'[v] = <<>>
       /\ page'[v].phase \in {"blank", "loading", "connecting", "failed"}
       /\ page'[v].last = 0
  BY <1>1, <1>2, <1>3 DEF RegisterInv
<1>7. page'[v].phase = "unused" =>
       ~Has(cmds', "Register", v) /\ ~Has(cmds', "Request", v) /\ v \notin views' /\ out'[v] = <<>>
  BY <1>1, <1>2, <1>3 DEF RegisterInv
<1> QED BY <1>4, <1>5, <1>6, <1>7 DEF RegisterInv

\* ... the answers behind the questions, none of a page to come,
LEMMA OrderWorker ==
  ASSUME MirrorAssumption, MirrorTypes, WorkerSummary, NEW v \in Views, OrderInv(v)
  PROVE  OrderInv(v)'
<1>1. /\ DOMAIN cmds = 1 .. Len(cmds) /\ Len(cmds) \in Nat \ {0}
      /\ \A i \in DOMAIN cmds' : i \in Nat \ {0} /\ i + 1 \in DOMAIN cmds /\ cmds'[i] = cmds[i + 1]
      /\ page_epoch'[v] = page_epoch[v]
  BY WorkerAt
<1>2. 1 \in DOMAIN cmds
  BY <1>1
<1>3. Has(cmds', "Request", v) => Has(cmds, "Request", v)
  BY <1>1 DEF Has
<1>4. \A i \in DOMAIN cmds' : IsRequest(cmds'[i], v) => cmds'[i].epoch <= page_epoch'[v]
  BY <1>1 DEF OrderInv
<1>5. ASSUME NEW i \in DOMAIN cmds', NEW j \in DOMAIN cmds', i < j, CurrentRequest(cmds[i + 1], v)
      PROVE  ~IsRequest(cmds'[j], v)
  <2>1. i + 1 \in DOMAIN cmds /\ j + 1 \in DOMAIN cmds /\ i + 1 < j + 1 /\ cmds'[j] = cmds[j + 1]
    BY <1>1, <1>5
  <2> QED BY <1>5, <2>1 DEF OrderInv
<1>6. \A i, j \in DOMAIN cmds' :
        i < j /\ (IsRequest(cmds'[i], v) /\ cmds'[i].epoch = page_epoch'[v]) => ~IsRequest(cmds'[j], v)
  BY <1>1, <1>5 DEF CurrentRequest
<1>7. CASE out'[v] = out[v]
  BY <1>1, <1>3, <1>4, <1>6, <1>7 DEF OrderInv, CurrentBatch, CurrentRequest
<1>8. CASE \E o \in OutputTypes, n \in Nat : \E m \in {n + 1, n + 2} : Lengthened(v, o, n, m)
  <2>0. PICK o \in OutputTypes, n \in Nat : LengthenedBy(v, o, n)
    <3>1. PICK o \in OutputTypes, n \in Nat : \E m \in {n + 1, n + 2} : Lengthened(v, o, n, m)
      BY <1>8
    <3>2. PICK m \in {n + 1, n + 2} : Lengthened(v, o, n, m)
      BY <3>1
    <3>3. LengthenedBy(v, o, n)
      BY <3>2, LengthenedAt
    <3> QED BY <3>3
  <2>1. /\ DOMAIN out[v] = 1 .. n /\ n + 1 \in DOMAIN out'[v]
        /\ \A i \in 1 .. n : out'[v][i] = out[v][i]
        /\ out'[v][n + 1] = o
        /\ \A i \in DOMAIN out'[v] : out'[v][i].kind = "Batch" => i \in 1 .. n \/ i = n + 1
        /\ Answers(v, o)
    BY <2>0 DEF LengthenedBy
  <2>2. o.kind = "Batch" => IsRequest(cmds[1], v) /\ o.epoch = cmds[1].epoch
    BY <2>1 DEF Answers
  <2>3. o.kind = "Batch" => Has(cmds, "Request", v)
    BY <1>2, <2>2 DEF Has, IsRequest
  <2>4. ASSUME NEW i \in DOMAIN out'[v], out'[v][i].kind = "Batch"
        PROVE  out'[v][i].epoch <= page_epoch[v]
    <3>1. CASE i = n + 1
      BY <1>2, <2>1, <2>2, <2>4, <3>1 DEF OrderInv
    <3>2. CASE i # n + 1
      <4>1. i \in 1 .. n
        BY <2>1, <2>4, <3>2
      <4> QED BY <2>1, <2>4, <4>1 DEF OrderInv
    <3> QED BY <3>1, <3>2
  <2>5. ASSUME NEW i \in DOMAIN out'[v], NEW j \in DOMAIN out'[v], i < j,
               CurrentBatch(out'[v][i], v)
        PROVE  out'[v][j].kind # "Batch"
    <3> SUFFICES ASSUME out'[v][j].kind = "Batch" PROVE FALSE
      OBVIOUS
    <3>1. i \in 1 .. n
      BY <2>1, <2>5 DEF CurrentBatch
    <3>2. i \in DOMAIN out[v] /\ CurrentBatch(out[v][i], v)
      BY <2>1, <2>5, <3>1 DEF CurrentBatch
    <3>3. CASE j = n + 1
      <4>1. ~Has(cmds, "Request", v)
        BY <3>2 DEF OrderInv
      <4> QED BY <2>1, <2>3, <3>3, <4>1
    <3>4. CASE j # n + 1
      <4>1. j \in 1 .. n
        BY <2>1, <3>4
      <4> QED BY <2>1, <2>5, <3>2, <4>1 DEF OrderInv
    <3> QED BY <3>3, <3>4
  <2>6. ASSUME NEW i \in DOMAIN out'[v], CurrentBatch(out'[v][i], v)
        PROVE  ~Has(cmds', "Request", v)
    <3>1. CASE i = n + 1
      <4>1. CurrentRequest(cmds[1], v)
        BY <2>1, <2>2, <2>6, <3>1 DEF CurrentBatch, CurrentRequest
      <4>2. \A j \in DOMAIN cmds : 1 < j => ~IsRequest(cmds[j], v)
        BY <1>2, <4>1 DEF OrderInv
      <4>3. ASSUME NEW j \in DOMAIN cmds' PROVE ~IsRequest(cmds'[j], v)
        <5>1. j + 1 \in DOMAIN cmds /\ 1 < j + 1 /\ cmds'[j] = cmds[j + 1]
          BY <1>1
        <5> QED BY <4>2, <5>1
      <4> QED BY <4>3 DEF Has, IsRequest
    <3>2. CASE i # n + 1
      <4>1. i \in DOMAIN out[v] /\ out'[v][i] = out[v][i]
        BY <2>1, <2>6, <3>2 DEF CurrentBatch
      <4> QED BY <1>3, <2>6, <4>1 DEF OrderInv, CurrentBatch
    <3> QED BY <3>1, <3>2
  <2> QED BY <1>1, <1>4, <1>6, <2>4, <2>5, <2>6 DEF OrderInv, CurrentBatch, CurrentRequest
<1> QED BY <1>7, <1>8, ServedAt

\* ... each page awaiting exactly what is under way,
LEMMA AwaitWorker ==
  ASSUME MirrorAssumption, MirrorTypes, WorkerSummary, NEW v \in Views, RegisterInv(v), OrderInv(v), AwaitInv(v)
  PROVE  AwaitInv(v)'
<1> DEFINE ph == page[v].phase
<1>1. /\ DOMAIN cmds = 1 .. Len(cmds) /\ Len(cmds) \in Nat \ {0}
      /\ \A i \in DOMAIN cmds' : i \in Nat \ {0} /\ i + 1 \in DOMAIN cmds /\ cmds'[i] = cmds[i + 1]
      /\ running' => \A i \in DOMAIN cmds : i # 1 =>
                       i \in Nat /\ i - 1 \in DOMAIN cmds' /\ cmds'[i - 1] = cmds[i]
      /\ page'[v] = page[v] /\ pending'[v] = pending[v] /\ page_epoch'[v] = page_epoch[v]
      /\ views' \subseteq views
  BY WorkerAt
<1>2. 1 \in DOMAIN cmds /\ (running' => running)
  BY <1>1 DEF WorkerSummary
\* what an output that was not there before says of the command that was taken
<1>3. \A i \in DOMAIN out'[v] :
        \/ i \in DOMAIN out[v] /\ out'[v][i] = out[v][i]
        \/ /\ out'[v][i] \in OutputTypes
           /\ out'[v][i].kind = "Batch" =>
                /\ IsRequest(cmds[1], v) /\ out'[v][i].epoch = cmds[1].epoch
                /\ cmds[1].request = "get" <=> out'[v][i].reply # NoSnapshot
  BY NewOutputsAt
\* nothing that was there is lost
<1>4. \A i \in DOMAIN out[v] : i \in DOMAIN out'[v] /\ out'[v][i] = out[v][i]
  <2>1. CASE out'[v] = out[v]
    BY <2>1
  <2>2. CASE \E o \in OutputTypes, n \in Nat : \E m \in {n + 1, n + 2} : Lengthened(v, o, n, m)
    BY <2>2 DEF Lengthened
  <2> QED BY <2>1, <2>2, ServedAt
\* and a request is answered unless its view is dropped
<1>5. v \in views' /\ IsRequest(cmds[1], v) =>
        \E i \in DOMAIN out'[v] : out'[v][i].kind = "Batch" /\ out'[v][i].epoch = cmds[1].epoch
  <2> SUFFICES ASSUME v \in views', IsRequest(cmds[1], v)
               PROVE  \E i \in DOMAIN out'[v] :
                         out'[v][i].kind = "Batch" /\ out'[v][i].epoch = cmds[1].epoch
    OBVIOUS
  <2>1. PICK o \in OutputTypes, n \in Nat :
              /\ n + 1 \in DOMAIN out'[v]
              /\ out'[v][n + 1] = o
              /\ Answers(v, o)
              /\ o.kind = "Batch"
    BY ServedAt DEF Lengthened
  <2>2. o.epoch = cmds[1].epoch
    BY <2>1 DEF Answers
  <2> QED BY <2>1, <2>2
<1>6. ph \in {"unused", "blank", "loading", "bootstrapped", "failed"} => ~pending'[v]
  BY <1>1 DEF AwaitInv
<1>7. ASSUME Alive(v), ~pending[v]
      PROVE  /\ \A i \in DOMAIN cmds' : ~CurrentRequest(cmds'[i], v)
             /\ \A i \in DOMAIN out'[v] : ~CurrentBatch(out'[v][i], v)
  <2>1. /\ \A i \in DOMAIN cmds : ~CurrentRequest(cmds[i], v)
        /\ \A i \in DOMAIN out[v] : ~CurrentBatch(out[v][i], v)
    BY <1>7 DEF AwaitInv
  <2>2. ~CurrentRequest(cmds[1], v)
    BY <1>2, <2>1
  <2> QED BY <1>1, <1>3, <2>1, <2>2 DEF CurrentRequest, CurrentBatch
<1>8. ASSUME pending[v], running', v \in views' \/ Has(cmds', "Register", v)
      PROVE  \/ \E i \in DOMAIN cmds' : CurrentRequest(cmds'[i], v)
             \/ \E i \in DOMAIN out'[v] : CurrentBatch(out'[v][i], v)
  <2>1. running /\ (v \in views \/ Has(cmds, "Register", v))
    BY <1>1, <1>2, <1>8 DEF Has
  <2>2. CASE \E i \in DOMAIN out[v] : CurrentBatch(out[v][i], v)
    BY <1>4, <2>2
  <2>3. CASE \E i \in DOMAIN cmds : CurrentRequest(cmds[i], v)
    <3>1. PICK i \in DOMAIN cmds : CurrentRequest(cmds[i], v)
      BY <2>3
    <3>2. CASE i # 1
      BY <1>1, <1>8, <3>1, <3>2
    <3>3. CASE i = 1
      <4>1. IsRequest(cmds[1], v) /\ cmds[1].epoch = page_epoch[v]
        BY <3>1, <3>3 DEF CurrentRequest
      <4>2. ~Has(cmds', "Register", v)
        <5> SUFFICES ASSUME NEW j \in DOMAIN cmds', cmds'[j].kind = "Register", cmds'[j].view = v
                     PROVE  FALSE
          BY DEF Has
        <5>1. j + 1 \in DOMAIN cmds /\ cmds'[j] = cmds[j + 1] /\ j \in Nat \ {0}
          BY <1>1
        <5>2. j + 1 < 1
          BY <1>2, <4>1, <5>1 DEF RegisterInv
        <5> QED BY <5>1, <5>2
      <4>3. \E k \in DOMAIN out'[v] : out'[v][k].kind = "Batch" /\ out'[v][k].epoch = page_epoch[v]
        BY <1>5, <1>8, <4>1, <4>2
      <4> QED BY <4>3 DEF CurrentBatch
    <3> QED BY <3>2, <3>3
  <2> QED BY <1>8, <2>1, <2>2, <2>3 DEF AwaitInv
<1>9. ASSUME ph \in {"connecting", "initializing"}
      PROVE  /\ \A i \in DOMAIN cmds' : CurrentRequest(cmds'[i], v) => cmds'[i].request = "get"
             /\ \A i \in DOMAIN out'[v] : CurrentBatch(out'[v][i], v) => out'[v][i].reply # NoSnapshot
  <2>1. /\ \A i \in DOMAIN cmds : CurrentRequest(cmds[i], v) => cmds[i].request = "get"
        /\ \A i \in DOMAIN out[v] : CurrentBatch(out[v][i], v) => out[v][i].reply # NoSnapshot
    BY <1>9 DEF AwaitInv
  <2>2. CurrentRequest(cmds[1], v) => cmds[1].request = "get"
    BY <1>2, <2>1
  <2> QED BY <1>1, <1>3, <2>1, <2>2 DEF CurrentRequest, CurrentBatch
<1>10. ASSUME ph \in {"bootstrapped", "initializing", "ready"}
       PROVE  /\ \A i \in DOMAIN cmds' : IsRequest(cmds'[i], v) => cmds'[i].epoch = page_epoch[v]
              /\ \A i \in DOMAIN out'[v] : out'[v][i].kind = "Batch" => out'[v][i].epoch = page_epoch[v]
  <2>1. /\ \A i \in DOMAIN cmds : IsRequest(cmds[i], v) => cmds[i].epoch = page_epoch[v]
        /\ \A i \in DOMAIN out[v] : out[v][i].kind = "Batch" => out[v][i].epoch = page_epoch[v]
    BY <1>10 DEF AwaitInv
  <2>2. IsRequest(cmds[1], v) => cmds[1].epoch = page_epoch[v]
    BY <1>2, <2>1
  <2> QED BY <1>1, <1>3, <2>1, <2>2
<1>11. ASSUME ph = "ready"
       PROVE  /\ \A i \in DOMAIN cmds' : IsRequest(cmds'[i], v) => cmds'[i].request # "get"
              /\ \A i \in DOMAIN out'[v] : out'[v][i].reply = NoSnapshot
  <2>1. /\ \A i \in DOMAIN cmds : IsRequest(cmds[i], v) => cmds[i].request # "get"
        /\ \A i \in DOMAIN out[v] : out[v][i].reply = NoSnapshot
    BY <1>11 DEF AwaitInv
  <2>2. IsRequest(cmds[1], v) => cmds[1].request # "get"
    BY <1>2, <2>1
  <2>3. \A o \in OutputTypes : o.kind # "Batch" => o.reply = NoSnapshot
    BY DEF OutputTypes
  <2> QED BY <1>1, <1>3, <2>1, <2>2, <2>3
<1>12. Alive(v)' = Alive(v)
  BY <1>1 DEF Alive
<1>13. \A c : CurrentRequest(c, v)' <=> IsRequest(c, v) /\ c.epoch = page_epoch[v]
  BY <1>1 DEF CurrentRequest, IsRequest
<1>14. ph = page'[v].phase
  BY <1>1
<1> HIDE DEF ph
<1> QED BY <1>1, <1>6, <1>7, <1>8, <1>9, <1>10, <1>11, <1>12, <1>14, Zenon
      DEF AwaitInv, CurrentRequest, CurrentBatch

\* ... and each stream leading to the public state.
LEMMA StreamWorker ==
  ASSUME MirrorTypes, StreamInv, WorkerSummary
  PROVE  StreamInv'
<1>1. /\ silent' => client' = "Idle"
      /\ page' = page /\ views' \subseteq views /\ views \subseteq Views
  BY DEF WorkerSummary, hostVars, MirrorTypes, QueueTypes
<1>2. ASSUME NEW v \in views'
      PROVE  Streams(out[v], page[v])'
  <2>1. v \in Views /\ Streams(out[v], page[v]) /\ out[v] \in Seq(OutputTypes)
    BY <1>1, <1>2 DEF StreamInv, MirrorTypes, OutTypes
  <2>2. CASE out'[v] = out[v] /\ StaysPublic
    BY <1>1, <2>1, <2>2, StreamKeeps DEF StaysPublic
  <2>3. CASE \E o \in OutputTypes : Emitted(v, o) /\ MovesPublic(o)
    <3>1. PICK o \in OutputTypes : out'[v] = Append(out[v], o) /\ MovesPublic(o)
      BY <2>3 DEF Emitted
    <3>2. PICK q \in Seq(OutputTypes) : q = out[v]
      BY <2>1
    <3>3. PICK p : p = page[v]
      OBVIOUS
    <3>4. Streams(Append(q, o), p)'
      BY <2>1, <3>1, <3>2, <3>3, StreamEmits DEF MovesPublic
    <3>5. out'[v] = Append(q, o) /\ page'[v] = p
      BY <1>1, <3>1, <3>2, <3>3
    <3> QED BY <3>4, <3>5
  <2> QED BY <1>2, <2>1, <2>2, <2>3 DEF WorkerSummary, Served, Dismissed
<1>3. \A v \in Views : page'[v].phase # "ready" => ~page'[v].missed
  BY <1>1 DEF StreamInv
<1> QED BY <1>1, <1>2, <1>3 DEF StreamInv
-----------------------------------------------------------------------------
(* A registration.                                                         *)

\* A view that is registered begins its stream with the public state as its only image.
LEMMA RegisterStep ==
  ASSUME MirrorAssumption, MirrorInv, TakeRegister
  PROVE  MirrorInv'
<1> DEFINE w == cmds[1].view
           ready == Output("Ready", 0, NoSnapshot, <<>>)
<1>1. /\ Takes("Register") /\ Continues /\ UNCHANGED publicVars /\ UNCHANGED hostVars
      /\ running /\ cmds # <<>> /\ cmds[1].kind = "Register" /\ w \in Views
      /\ IF page[w].phase = "failed"
         THEN UNCHANGED <<views, out>>
         ELSE views' = views \cup {w} /\ out' = [out EXCEPT ![w] = <<ready>>]
  <2>1. Takes("Register") /\ MirrorTypes
    BY DEF TakeRegister, MirrorInv
  <2>2. Head(cmds) = cmds[1]
    BY <2>1, TakesAt
  <2> QED BY <2>1, <2>2, TakesAt DEF TakeRegister
<1>2. /\ MirrorTypes /\ ControllerTypes /\ (silent => client = "Idle")
      /\ views \subseteq Views /\ out \in [Views -> Seq(OutputTypes)]
      /\ cmds \in Seq(CommandTypes) /\ page \in [Views -> PageTypes]
  BY DEF MirrorInv, MirrorTypes, QueueTypes, OutTypes, PageTypesOK, StreamInv
<1>3. ControllerTypes' /\ StaysPublic /\ (silent' => client' = "Idle")
  BY <1>1, <1>2, NothingPublic
<1>4. \A v \in Views : ~IsRequest(cmds[1], v)
  BY <1>1 DEF IsRequest
<1>5. CASE page[w].phase = "failed"
  <2>1. UNCHANGED <<views, out>>
    BY <1>1, <1>5
  <2>2. \A v \in Views : Served(v)
    BY <1>3, <1>4, <2>1 DEF Served
  <2>3. out' = [v \in Views |-> out'[v]]
    BY <1>2, <2>1
  <2>4. cmds' = Tail(cmds) /\ running' = running
    BY <1>1 DEF Continues
  <2>5. WorkerSummary
    BY <1>1, <1>3, <2>1, <2>2, <2>3, <2>4 DEF WorkerSummary
  <2>6. MirrorTypes'
    BY <1>2, <2>5, TypesWorker
  <2>7. FlightInv'
    BY <1>2, <2>5, RegisterWorker, OrderWorker, AwaitWorker DEF MirrorInv, FlightInv
  <2>8. StreamInv'
    BY <1>2, <2>5, StreamWorker DEF MirrorInv
  <2> QED BY <2>6, <2>7, <2>8 DEF MirrorInv
<1>6. CASE page[w].phase # "failed"
  <2>1. views' = views \cup {w} /\ out' = [out EXCEPT ![w] = <<ready>>]
    BY <1>1, <1>6
  <2>2. cmds' = Tail(cmds) /\ running' = running
    BY <1>1 DEF Continues
  <2>3. page' = page /\ pending' = pending /\ page_epoch' = page_epoch /\ sleep_preparing' = sleep_preparing
    BY <1>1 DEF hostVars
  <2>4. /\ ready \in OutputTypes /\ ready.kind = "Ready" /\ ready.reply = NoSnapshot
        /\ ready.events = <<>>
    <3>1. NoSnapshot \in Replies /\ <<>> \in Batches /\ 0 \in 0 .. MaxPageEpoch
      BY NoSnapshotType DEF MirrorAssumption
    <3> QED BY <3>1, OutputAt
  <2> HIDE DEF ready
  <2>5. /\ out'[w] = <<ready>> /\ \A v \in Views : v # w => out'[v] = out[v]
        /\ <<ready>> \in Seq(OutputTypes) /\ Len(<<ready>>) = 1 /\ DOMAIN <<ready>> = 1 .. 1
        /\ <<ready>>[1] = ready
    BY <1>1, <1>2, <2>1, <2>4, OneAt
  <2>6. /\ Len(cmds) \in Nat \ {0} /\ DOMAIN cmds = 1 .. Len(cmds)
        /\ Tail(cmds) \in Seq(CommandTypes) /\ Len(Tail(cmds)) = Len(cmds) - 1
        /\ \A i \in DOMAIN cmds' : i \in Nat \ {0} /\ i + 1 \in DOMAIN cmds /\ cmds'[i] = cmds[i + 1]
        /\ \A i \in DOMAIN cmds : i # 1 =>
              i \in Nat /\ i - 1 \in DOMAIN cmds' /\ cmds'[i - 1] = cmds[i]
    <3>1. /\ Len(cmds) \in Nat \ {0} /\ DOMAIN cmds = 1 .. Len(cmds)
          /\ Tail(cmds) \in Seq(CommandTypes) /\ Len(Tail(cmds)) = Len(cmds) - 1
          /\ DOMAIN Tail(cmds) = 1 .. (Len(cmds) - 1)
          /\ \A i \in 1 .. (Len(cmds) - 1) : Tail(cmds)[i] = cmds[i + 1]
      BY <1>1, <1>2, TailAt
    <3> QED BY <2>2, <3>1
  <2>7. 1 \in DOMAIN cmds
    BY <2>6
  <2>8. /\ RegisterInv(w) /\ Has(cmds, "Register", w)
        /\ w \notin views /\ out[w] = <<>>
        /\ page[w].phase \in {"blank", "loading", "connecting", "failed"}
        /\ page[w].last = 0
    <3>1. RegisterInv(w) /\ Has(cmds, "Register", w)
      BY <1>1, <2>7 DEF MirrorInv, FlightInv, Has
    <3> QED BY <3>1 DEF RegisterInv
  <2>9. MirrorTypes'
    <3>1. QueueTypes'
      <4>1. Len(cmds) <= CommandCapacity /\ CommandCapacity \in Nat /\ running \in BOOLEAN
        BY <1>2 DEF MirrorTypes, QueueTypes, MirrorAssumption
      <4>2. Len(cmds') <= CommandCapacity /\ cmds' \in Seq(CommandTypes)
        BY <2>2, <2>6, <4>1
      <4>3. views' \subseteq Views
        BY <1>1, <1>2, <2>1
      <4> QED BY <2>2, <4>1, <4>2, <4>3 DEF QueueTypes
    <3>2. OutTypes'
      <4>1. out' \in [Views -> Seq(OutputTypes)]
        BY <1>2, <2>1, <2>5
      <4>2. ASSUME NEW v \in Views PROVE Len(out'[v]) <= OutputCapacity
        <5>1. OutputCapacity \in Nat \ {0} /\ Len(out[v]) <= OutputCapacity
          BY <1>2 DEF MirrorTypes, OutTypes, MirrorAssumption
        <5>2. CASE v = w
          <6>1. out'[v] = <<ready>> /\ Len(<<ready>>) = 1
            BY <2>5, <5>2
          <6>2. 1 <= OutputCapacity
            BY <5>1
          <6> QED BY <6>1, <6>2
        <5>3. CASE v # w
          BY <2>5, <5>1, <5>3
        <5> QED BY <5>2, <5>3
      <4> QED BY <4>1, <4>2 DEF OutTypes
    <3>3. PageTypesOK'
      BY <1>2, <2>3 DEF MirrorTypes, PageTypesOK
    <3> QED BY <1>3, <3>1, <3>2, <3>3 DEF MirrorTypes
  <2>10. ASSUME NEW v \in Views
         PROVE  RegisterInv(v)' /\ OrderInv(v)' /\ AwaitInv(v)'
    <3>1. RegisterInv(v) /\ OrderInv(v) /\ AwaitInv(v)
      BY DEF MirrorInv, FlightInv
    <3>2. /\ Has(cmds', "Register", v) => Has(cmds, "Register", v)
          /\ Has(cmds', "Request", v) => Has(cmds, "Request", v)
      BY <2>6 DEF Has
    <3>3. ~Has(cmds', "Register", w)
      <4> SUFFICES ASSUME NEW j \in DOMAIN cmds', cmds'[j].kind = "Register", cmds'[j].view = w
                   PROVE  FALSE
        BY DEF Has
      <4>1. j \in Nat \ {0} /\ j + 1 \in DOMAIN cmds /\ cmds'[j] = cmds[j + 1]
        BY <2>6
      <4>2. j + 1 = 1
        BY <1>1, <2>7, <2>8, <4>1 DEF RegisterInv
      <4> QED BY <4>1, <4>2
    <3>4. page'[v] = page[v] /\ pending'[v] = pending[v] /\ page_epoch'[v] = page_epoch[v]
      BY <2>3
    <3>5. \A i \in DOMAIN out'[v] : \/ v # w /\ out'[v] = out[v] /\ i \in DOMAIN out[v]
                                    \/ out'[v][i].kind = "Ready" /\ out'[v][i].reply = NoSnapshot
      <4>1. CASE v = w
        BY <2>4, <2>5, <4>1
      <4>2. CASE v # w
        BY <2>5, <4>2
      <4> QED BY <4>1, <4>2
    <3>6. RegisterInv(v)'
      <4>1. ASSUME NEW i \in DOMAIN cmds', NEW j \in DOMAIN cmds',
                   cmds'[i].kind = "Register", cmds'[i].view = v,
                   cmds'[j].kind = "Register", cmds'[j].view = v
            PROVE  i = j
        <5>1. i + 1 = j + 1
          BY <2>6, <3>1, <4>1 DEF RegisterInv
        <5> QED BY <2>6, <5>1
      <4>2. ASSUME NEW i \in DOMAIN cmds', NEW j \in DOMAIN cmds',
                   cmds'[i].kind = "Register", cmds'[i].view = v, IsRequest(cmds'[j], v)
            PROVE  i < j
        <5>1. i + 1 < j + 1
          BY <2>6, <3>1, <4>2 DEF RegisterInv
        <5> QED BY <2>6, <5>1
      <4>3. ASSUME Has(cmds', "Register", v)
            PROVE  /\ v \notin views' /\ out'[v] = <<>>
                   /\ page'[v].phase \in {"blank", "loading", "connecting", "failed"}
                   /\ page'[v].last = 0
        <5>1. v # w
          BY <3>3, <4>3
        <5> QED BY <2>1, <2>5, <3>1, <3>2, <3>4, <4>3, <5>1 DEF RegisterInv
      <4>4. ASSUME page'[v].phase = "unused"
            PROVE  ~Has(cmds', "Register", v) /\ ~Has(cmds', "Request", v) /\ v \notin views' /\ out'[v] = <<>>
        <5>1. v # w
          BY <2>8, <3>4, <4>4
        <5> QED BY <2>1, <2>5, <3>1, <3>2, <3>4, <4>4, <5>1 DEF RegisterInv
      <4> QED BY <4>1, <4>2, <4>3, <4>4 DEF RegisterInv
    <3>7. OrderInv(v)'
      <4>1. \A i \in DOMAIN cmds' : IsRequest(cmds'[i], v) => cmds'[i].epoch <= page_epoch'[v]
        BY <2>6, <3>1, <3>4 DEF OrderInv
      <4>2. \A i \in DOMAIN out'[v] : out'[v][i].kind = "Batch" => out'[v][i].epoch <= page_epoch'[v]
        BY <3>1, <3>4, <3>5 DEF OrderInv
      <4>3. ASSUME NEW i \in DOMAIN cmds', NEW j \in DOMAIN cmds', i < j,
                   IsRequest(cmds'[i], v), cmds'[i].epoch = page_epoch'[v]
            PROVE  ~IsRequest(cmds'[j], v)
        <5>1. i + 1 \in DOMAIN cmds /\ j + 1 \in DOMAIN cmds /\ i + 1 < j + 1
              /\ cmds'[i] = cmds[i + 1] /\ cmds'[j] = cmds[j + 1]
          BY <2>6, <4>3
        <5>2. CurrentRequest(cmds[i + 1], v)
          BY <3>4, <4>3, <5>1 DEF CurrentRequest
        <5> QED BY <3>1, <5>1, <5>2 DEF OrderInv
      <4>4. \A i, j \in DOMAIN out'[v] :
              i < j /\ (out'[v][i].kind = "Batch" /\ out'[v][i].epoch = page_epoch'[v])
                => out'[v][j].kind # "Batch"
        BY <3>1, <3>4, <3>5 DEF OrderInv, CurrentBatch
      <4>5. \A i \in DOMAIN out'[v] :
              (out'[v][i].kind = "Batch" /\ out'[v][i].epoch = page_epoch'[v])
                => ~Has(cmds', "Request", v)
        BY <3>1, <3>2, <3>4, <3>5 DEF OrderInv, CurrentBatch
      <4> QED BY <4>1, <4>2, <4>3, <4>4, <4>5 DEF OrderInv, CurrentRequest, CurrentBatch
    <3>8. AwaitInv(v)'
      <4> DEFINE ph == page[v].phase
                 Current(c) == IsRequest(c, v) /\ c.epoch = page_epoch[v]
                 Batch(o) == o.kind = "Batch" /\ o.epoch = page_epoch[v]
      <4>1. /\ \A c : CurrentRequest(c, v) <=> Current(c)
            /\ \A c : CurrentRequest(c, v)' <=> Current(c)
            /\ \A o : CurrentBatch(o, v) <=> Batch(o)
            /\ \A o : CurrentBatch(o, v)' <=> Batch(o)
            /\ Alive(v)' <=> Alive(v)
            /\ page'[v].phase = ph
        BY <3>4 DEF CurrentRequest, CurrentBatch, IsRequest, Alive
      <4>2. \A i \in DOMAIN cmds' : \E j \in DOMAIN cmds : cmds'[i] = cmds[j]
        BY <2>6
      <4>3. ASSUME pending[v], running', v \in views' \/ Has(cmds', "Register", v)
            PROVE  \/ \E i \in DOMAIN cmds' : Current(cmds'[i])
                   \/ \E i \in DOMAIN out'[v] : Batch(out'[v][i])
        <5>1. running /\ (v \in views \/ Has(cmds, "Register", v))
          BY <1>1, <2>1, <2>8, <3>2, <4>3
        <5>2. \/ \E i \in DOMAIN cmds : CurrentRequest(cmds[i], v)
              \/ \E i \in DOMAIN out[v] : CurrentBatch(out[v][i], v)
          BY <3>1, <4>3, <5>1 DEF AwaitInv
        <5>3. CASE \E i \in DOMAIN cmds : CurrentRequest(cmds[i], v)
          <6>1. PICK i \in DOMAIN cmds : CurrentRequest(cmds[i], v)
            BY <5>3
          <6>2. i # 1
            BY <1>4, <6>1 DEF CurrentRequest
          <6> QED BY <2>6, <4>1, <6>1, <6>2
        <5>4. CASE \E i \in DOMAIN out[v] : CurrentBatch(out[v][i], v)
          <6>1. PICK i \in DOMAIN out[v] : CurrentBatch(out[v][i], v)
            BY <5>4
          <6>2. v # w
            <7>1. DOMAIN << >> = {}
              OBVIOUS
            <7> QED BY <2>8, <6>1, <7>1
          <6>3. out'[v] = out[v]
            BY <2>5, <6>2
          <6> QED BY <4>1, <6>1, <6>3
        <5> QED BY <5>2, <5>3, <5>4
      <4>4. ph = "ready" => v # w
        BY <2>8
      <4> HIDE DEF ph, Current, Batch
      <4>5. ph \in {"unused", "blank", "loading", "bootstrapped", "failed"} => ~pending'[v]
        BY <3>1, <3>4 DEF AwaitInv, ph
      <4>6. Alive(v) /\ ~pending[v] =>
              /\ \A i \in DOMAIN cmds' : ~Current(cmds'[i])
              /\ \A i \in DOMAIN out'[v] : ~Batch(out'[v][i])
        <5> SUFFICES ASSUME Alive(v), ~pending[v]
                     PROVE  /\ \A i \in DOMAIN cmds' : ~Current(cmds'[i])
                            /\ \A i \in DOMAIN out'[v] : ~Batch(out'[v][i])
          OBVIOUS
        <5>1. /\ \A i \in DOMAIN cmds : ~Current(cmds[i])
              /\ \A i \in DOMAIN out[v] : ~Batch(out[v][i])
          BY <3>1, <4>1 DEF AwaitInv
        <5> QED BY <3>5, <4>2, <5>1 DEF Batch
      <4>7. ph \in {"connecting", "initializing"} =>
              /\ \A i \in DOMAIN cmds' : Current(cmds'[i]) => cmds'[i].request = "get"
              /\ \A i \in DOMAIN out'[v] : Batch(out'[v][i]) => out'[v][i].reply # NoSnapshot
        <5> SUFFICES ASSUME ph \in {"connecting", "initializing"}
              PROVE  /\ \A i \in DOMAIN cmds' : Current(cmds'[i]) => cmds'[i].request = "get"
                     /\ \A i \in DOMAIN out'[v] : Batch(out'[v][i]) => out'[v][i].reply # NoSnapshot
          OBVIOUS
        <5>1. /\ \A i \in DOMAIN cmds : Current(cmds[i]) => cmds[i].request = "get"
              /\ \A i \in DOMAIN out[v] : Batch(out[v][i]) => out[v][i].reply # NoSnapshot
          BY <3>1, <4>1 DEF AwaitInv, ph
        <5> QED BY <3>5, <4>2, <5>1 DEF Batch
      <4>8. ph \in {"bootstrapped", "initializing", "ready"} =>
              /\ \A i \in DOMAIN cmds' : IsRequest(cmds'[i], v) => cmds'[i].epoch = page_epoch'[v]
              /\ \A i \in DOMAIN out'[v] : out'[v][i].kind = "Batch" => out'[v][i].epoch = page_epoch'[v]
        <5> SUFFICES ASSUME ph \in {"bootstrapped", "initializing", "ready"}
              PROVE /\ \A i \in DOMAIN cmds' : IsRequest(cmds'[i], v) => cmds'[i].epoch = page_epoch'[v]
                    /\ \A i \in DOMAIN out'[v] : out'[v][i].kind = "Batch" => out'[v][i].epoch = page_epoch'[v]
          OBVIOUS
        <5>1. /\ \A i \in DOMAIN cmds : IsRequest(cmds[i], v) => cmds[i].epoch = page_epoch[v]
              /\ \A i \in DOMAIN out[v] : out[v][i].kind = "Batch" => out[v][i].epoch = page_epoch[v]
          BY <3>1 DEF AwaitInv, ph
        <5> QED BY <3>4, <3>5, <4>2, <5>1
      <4>9. ph = "ready" =>
              /\ \A i \in DOMAIN cmds' : IsRequest(cmds'[i], v) => cmds'[i].request # "get"
              /\ \A i \in DOMAIN out'[v] : out'[v][i].reply = NoSnapshot
        <5> SUFFICES ASSUME ph = "ready"
              PROVE /\ \A i \in DOMAIN cmds' : IsRequest(cmds'[i], v) => cmds'[i].request # "get"
                    /\ \A i \in DOMAIN out'[v] : out'[v][i].reply = NoSnapshot
          OBVIOUS
        <5>1. /\ \A i \in DOMAIN cmds : IsRequest(cmds[i], v) => cmds[i].request # "get"
              /\ \A i \in DOMAIN out[v] : out[v][i].reply = NoSnapshot
          BY <3>1 DEF AwaitInv, ph
        <5> QED BY <3>5, <4>2, <5>1
      <4>10. pending'[v] = pending[v]
        BY <3>4
      <4> QED BY <4>1, <4>3, <4>5, <4>6, <4>7, <4>8, <4>9, <4>10, Zenon DEF AwaitInv
    <3> QED BY <3>6, <3>7, <3>8
  <2>11. StreamInv'
    <3>1. ASSUME NEW v \in views'
          PROVE  Streams(out[v], page[v])'
      <4>1. CASE v # w
        <5>1. v \in views /\ v \in Views /\ out'[v] = out[v] /\ page'[v] = page[v]
          BY <1>2, <2>1, <2>3, <2>5, <3>1, <4>1
        <5>2. Streams(out[v], page[v]) /\ out[v] \in Seq(OutputTypes)
          BY <1>2, <5>1 DEF MirrorInv, StreamInv
        <5> QED BY <1>3, <5>1, <5>2, StreamKeeps DEF StaysPublic
      <4>2. CASE v = w
        <5>1. PICK p \in PageTypes : p = page[w]
          BY <1>1, <1>2
        <5>2. PICK o \in OutputTypes : o = ready
          BY <2>4
        <5>3. PICK k \in Images : /\ k.last = Watermark /\ k.authentication = authentication
                                  /\ k.prompt = prompt
          <6>1. Watermark \in SequenceNumbers /\ authentication \in Shown /\ prompt \in SequenceNumbers
            <7>1. next \in 1 .. (MaxSequence + 1) /\ MaxSequence \in Nat
              BY <1>2 DEF ControllerTypes, MirrorAssumption
            <7> QED BY <1>2, <7>1, PublicStateType DEF ControllerTypes, Watermark, SequenceNumbers
          <6>2. [last |-> Watermark, authentication |-> authentication, prompt |-> prompt] \in Images
            BY <6>1 DEF Images
          <6> QED BY <6>2
        <5>4. IsPublic(k)'
          <6>1. IsPublic(k)
            BY <5>3 DEF IsPublic
          <6> QED BY <1>3, <6>1 DEF StaysPublic
        <5>5. Shows(p, k)
          <6>1. ~page[w].missed /\ p.phase # "ready" /\ p.last = 0
            BY <1>1, <2>8, <5>1 DEF MirrorInv, StreamInv
          <6>2. k.last \in Nat
            BY DEF Images, SequenceNumbers
          <6>3. p.last <= k.last
            BY <6>1, <6>2
          <6> QED BY <5>1, <6>1, <6>3 DEF Shows
        <5>6. Step(k, o, k)
          <6>1. o.reply = NoSnapshot /\ o.events = <<>>
            BY <2>4, <5>2
          <6>2. k.last + Len(<<>>) = k.last
            <7>1. Len(<<>>) = 0 /\ k.last \in Nat
              BY EmptySeq DEF Images, SequenceNumbers
            <7> QED BY <7>1
          <6>3. Continued(<<>>, k.last, k.authentication) /\ Announced(<<>>, k.authentication) = k.authentication
            <7>1. DOMAIN << >> = {}
              OBVIOUS
            <7> QED BY <7>1 DEF Continued, Announced
          <6> QED BY <6>1, <6>2, <6>3 DEF Step
        <5>7. Streams(<<o>>, p)'
          BY <5>4, <5>5, <5>6, StreamBegins
        <5>8. out'[v] = <<o>> /\ page'[v] = p
          BY <2>3, <2>5, <4>2, <5>1, <5>2
        <5> QED BY <5>7, <5>8
      <4> QED BY <4>1, <4>2
    <3>2. \A v \in Views : page'[v].phase # "ready" => ~page'[v].missed
      BY <2>3 DEF MirrorInv, StreamInv
    <3> QED BY <1>3, <3>1, <3>2 DEF StreamInv
  <2> QED BY <2>9, <2>10, <2>11 DEF MirrorInv, FlightInv
<1> QED BY <1>5, <1>6
-----------------------------------------------------------------------------
(* The GTK main thread.                                                    *)

\* A queue that may have one more command, by position.
LEMMA QueueAt ==
  ASSUME NEW S, NEW q \in Seq(S), NEW c \in S, NEW r, r = q \/ r = Append(q, c)
  PROVE  /\ r \in Seq(S) /\ Len(q) \in Nat /\ DOMAIN q = 1 .. Len(q)
         /\ \A i \in DOMAIN q : i \in Nat /\ i <= Len(q) /\ i \in DOMAIN r /\ r[i] = q[i]
         /\ \A i \in DOMAIN r : i \in Nat /\ (i \in DOMAIN q \/ (i = Len(q) + 1 /\ r[i] = c))
         /\ r = Append(q, c) => Len(q) + 1 \in DOMAIN r /\ r[Len(q) + 1] = c /\ Len(r) = Len(q) + 1
<1>1. /\ Len(q) \in Nat /\ DOMAIN q = 1 .. Len(q)
      /\ Append(q, c) \in Seq(S) /\ Len(Append(q, c)) = Len(q) + 1
      /\ DOMAIN Append(q, c) = 1 .. (Len(q) + 1)
      /\ \A i \in 1 .. Len(q) : Append(q, c)[i] = q[i]
      /\ Append(q, c)[Len(q) + 1] = c
  BY AppendAt
<1>2. CASE r = q
  <2>1. \A n \in Nat : n # n + 1
    OBVIOUS
  <2>2. r # Append(q, c)
    BY <1>1, <1>2, <2>1, Zenon
  <2>3. r \in Seq(S) /\ \A i \in DOMAIN q : i \in Nat /\ i <= Len(q) /\ i \in DOMAIN r /\ r[i] = q[i]
    BY <1>1, <1>2
  <2>4. \A i \in DOMAIN r : i \in Nat /\ i \in DOMAIN q
    BY <1>1, <1>2
  <2> QED BY <1>1, <2>2, <2>3, <2>4
<1>3. CASE r = Append(q, c)
  BY <1>1, <1>3
<1> QED BY <1>2, <1>3

\* A command that a view waits behind or for.
Concerns(c, v) == c.kind \in {"Register", "Request"} /\ c.view = v

\* A command about another view, and nothing of this one.
LEMMA FlightOther ==
  ASSUME MirrorTypes, NEW u \in Views, NEW c \in CommandTypes, ~Concerns(c, u),
         cmds' = cmds \/ cmds' = Append(cmds, c),
         page'[u] = page[u], pending'[u] = pending[u], page_epoch'[u] = page_epoch[u],
         out'[u] = out[u], views' = views, running' = running,
         RegisterInv(u), OrderInv(u), AwaitInv(u)
  PROVE  RegisterInv(u)' /\ OrderInv(u)' /\ AwaitInv(u)'
<1>1. /\ \A i \in DOMAIN cmds : i \in DOMAIN cmds' /\ cmds'[i] = cmds[i]
      /\ \A i \in DOMAIN cmds' : i \in DOMAIN cmds \/ cmds'[i] = c
  <2>1. cmds \in Seq(CommandTypes)
    BY DEF MirrorTypes, QueueTypes
  <2> QED BY <2>1, QueueAt
<1>2. ~(c.kind = "Register" /\ c.view = u) /\ ~IsRequest(c, u)
  BY DEF Concerns, IsRequest
<1>3. \A i \in DOMAIN cmds' :
        /\ cmds'[i].kind = "Register" /\ cmds'[i].view = u => i \in DOMAIN cmds /\ cmds'[i] = cmds[i]
        /\ IsRequest(cmds'[i], u) => i \in DOMAIN cmds /\ cmds'[i] = cmds[i]
  BY <1>1, <1>2
<1>4. /\ Has(cmds', "Register", u) <=> Has(cmds, "Register", u)
      /\ Has(cmds', "Request", u) <=> Has(cmds, "Request", u)
  BY <1>1, <1>3 DEF Has, IsRequest
<1>5. RegisterInv(u)'
  BY <1>3, <1>4 DEF RegisterInv
<1>6. OrderInv(u)'
  <2>1. \A i \in DOMAIN cmds' : IsRequest(cmds'[i], u) => cmds'[i].epoch <= page_epoch'[u]
    BY <1>3 DEF OrderInv
  <2>2. \A i, j \in DOMAIN cmds' :
          i < j /\ (IsRequest(cmds'[i], u) /\ cmds'[i].epoch = page_epoch[u]) => ~IsRequest(cmds'[j], u)
    BY <1>3 DEF OrderInv, CurrentRequest
  <2> QED BY <1>4, <2>1, <2>2 DEF OrderInv, CurrentRequest, CurrentBatch
<1>7. AwaitInv(u)'
  <2>1. (\E i \in DOMAIN cmds : CurrentRequest(cmds[i], u)) =>
          \E i \in DOMAIN cmds' : IsRequest(cmds'[i], u) /\ cmds'[i].epoch = page_epoch[u]
    BY <1>1 DEF CurrentRequest
  <2>2. \A i \in DOMAIN cmds' : IsRequest(cmds'[i], u) => \E j \in DOMAIN cmds : cmds'[i] = cmds[j]
    BY <1>3
  <2> QED BY <1>4, <2>1, <2>2 DEF AwaitInv, CurrentRequest, CurrentBatch, Alive
<1> QED BY <1>5, <1>6, <1>7

\* A page that fails awaits nothing any more.
LEMMA FlightFails ==
  ASSUME MirrorAssumption, MirrorTypes, NEW v \in Views, ViewFails(v), UNCHANGED controllerVars,
         page_epoch'[v] \in {page_epoch[v], page_epoch[v] + 1},
         out'[v] = out[v] \/ (out[v] # <<>> /\ out'[v] = Tail(out[v])),
         RegisterInv(v), OrderInv(v), AwaitInv(v)
  PROVE  RegisterInv(v)' /\ OrderInv(v)' /\ AwaitInv(v)'
<1> DEFINE c == Command("Detach", v, 0, "none", NoPrompt)
<1>1. /\ page'[v].phase = "failed" /\ page'[v].last = 0 /\ pending'[v] = FALSE
      /\ cmds' = cmds \/ cmds' = Append(cmds, c)
      /\ views' = views
  BY DEF ViewFails, Page, controllerVars, MirrorTypes, PageTypesOK
<1>2. c \in CommandTypes /\ c.kind = "Detach"
  BY DEF MirrorAssumption, Command, CommandTypes, NoPrompt, SequenceNumbers
<1> HIDE DEF c
<1>3. cmds \in Seq(CommandTypes) /\ out[v] \in Seq(OutputTypes) /\ page_epoch[v] \in Nat
  BY DEF MirrorTypes, QueueTypes, OutTypes, PageTypesOK
<1>4. \A i \in DOMAIN cmds' :
        /\ cmds'[i].kind = "Register" /\ cmds'[i].view = v => i \in DOMAIN cmds /\ cmds'[i] = cmds[i]
        /\ IsRequest(cmds'[i], v) => i \in DOMAIN cmds /\ cmds'[i] = cmds[i]
  <2>1. \A i \in DOMAIN cmds' : (i \in DOMAIN cmds /\ cmds'[i] = cmds[i]) \/ cmds'[i] = c
    BY <1>1, <1>2, <1>3, QueueAt
  <2> QED BY <1>2, <2>1 DEF IsRequest
<1>5. /\ Has(cmds', "Register", v) => Has(cmds, "Register", v)
      /\ Has(cmds', "Request", v) => Has(cmds, "Request", v)
  BY <1>4 DEF Has, IsRequest
<1>6. /\ out[v] = <<>> => out'[v] = <<>>
      /\ \A i \in DOMAIN out'[v] : \E d \in {0, 1} :
           /\ i \in Nat /\ i + d \in DOMAIN out[v] /\ out'[v][i] = out[v][i + d]
           /\ \A j \in DOMAIN out'[v] : j \in Nat /\ j + d \in DOMAIN out[v] /\ out'[v][j] = out[v][j + d]
  <2>1. CASE out'[v] = out[v]
    <3>1. DOMAIN out[v] = 1 .. Len(out[v]) /\ Len(out[v]) \in Nat
      BY <1>3, LenProperties
    <3>2. \A i \in DOMAIN out'[v] : i \in Nat /\ i + 0 \in DOMAIN out[v] /\ out'[v][i] = out[v][i + 0]
      BY <2>1, <3>1
    <3> QED BY <2>1, <3>2
  <2>2. CASE out[v] # <<>> /\ out'[v] = Tail(out[v])
    <3>1. /\ Len(out[v]) \in Nat \ {0} /\ DOMAIN out[v] = 1 .. Len(out[v])
          /\ DOMAIN out'[v] = 1 .. (Len(out[v]) - 1)
          /\ \A i \in 1 .. (Len(out[v]) - 1) : out'[v][i] = out[v][i + 1]
      BY <1>3, <2>2, TailAt
    <3>2. \A i \in DOMAIN out'[v] : i \in Nat /\ i + 1 \in DOMAIN out[v] /\ out'[v][i] = out[v][i + 1]
      BY <3>1
    <3> QED BY <2>2, <3>2
  <2> QED BY <2>1, <2>2
<1>7. RegisterInv(v)'
  BY <1>1, <1>4, <1>5, <1>6 DEF RegisterInv
<1>8. \A i \in DOMAIN cmds : IsRequest(cmds[i], v) => cmds[i].epoch \in Nat /\ cmds[i].epoch <= page_epoch[v]
  <2>1. \A i \in DOMAIN cmds : cmds[i] \in CommandTypes
    BY <1>3, LenProperties, ElementOfSeq
  <2>2. \A x \in CommandTypes : x.epoch \in Nat
    BY DEF CommandTypes, MirrorAssumption
  <2> QED BY <2>1, <2>2 DEF OrderInv
<1>9. \A i \in DOMAIN out[v] : out[v][i].kind = "Batch" => out[v][i].epoch \in Nat /\ out[v][i].epoch <= page_epoch[v]
  <2>1. \A i \in DOMAIN out[v] : out[v][i] \in OutputTypes
    BY <1>3, LenProperties, ElementOfSeq
  <2>2. \A x \in OutputTypes : x.epoch \in Nat
    BY DEF OutputTypes, MirrorAssumption
  <2> QED BY <2>1, <2>2 DEF OrderInv
<1>10. OrderInv(v)'
  <2>1. \A i \in DOMAIN cmds' : IsRequest(cmds'[i], v) => cmds'[i].epoch <= page_epoch'[v]
    BY <1>3, <1>4, <1>8
  <2>2. \A i \in DOMAIN out'[v] : out'[v][i].kind = "Batch" => out'[v][i].epoch <= page_epoch'[v]
    <3>1. ASSUME NEW i \in DOMAIN out'[v], out'[v][i].kind = "Batch"
          PROVE  out'[v][i].epoch <= page_epoch'[v]
      <4>1. PICK d \in {0, 1} : i + d \in DOMAIN out[v] /\ out'[v][i] = out[v][i + d]
        BY <1>6, <3>1
      <4>2. out'[v][i].epoch \in Nat /\ out'[v][i].epoch <= page_epoch[v]
        BY <1>9, <3>1, <4>1
      <4> QED BY <1>3, <4>2
    <3> QED BY <3>1
  <2>3. ASSUME NEW i \in DOMAIN cmds', NEW j \in DOMAIN cmds', i < j,
               IsRequest(cmds'[i], v), cmds'[i].epoch = page_epoch'[v], IsRequest(cmds'[j], v)
        PROVE  FALSE
    <3>1. i \in DOMAIN cmds /\ j \in DOMAIN cmds /\ cmds'[i] = cmds[i] /\ cmds'[j] = cmds[j]
      BY <1>4, <2>3
    <3>2. cmds[i].epoch = page_epoch[v]
      BY <1>3, <1>8, <2>3, <3>1
    <3> QED BY <2>3, <3>1, <3>2 DEF OrderInv, CurrentRequest
  <2>4. ASSUME NEW i \in DOMAIN out'[v], out'[v][i].kind = "Batch", out'[v][i].epoch = page_epoch'[v]
        PROVE  /\ ~Has(cmds', "Request", v)
               /\ \A j \in DOMAIN out'[v] : i < j => out'[v][j].kind # "Batch"
    <3>1. PICK d \in {0, 1} :
           /\ i \in Nat /\ i + d \in DOMAIN out[v] /\ out'[v][i] = out[v][i + d]
           /\ \A j \in DOMAIN out'[v] : j \in Nat /\ j + d \in DOMAIN out[v] /\ out'[v][j] = out[v][j + d]
      BY <1>6
    <3>2. CurrentBatch(out[v][i + d], v)
      BY <1>3, <1>9, <2>4, <3>1 DEF CurrentBatch
    <3>3. ~Has(cmds', "Request", v)
      BY <1>5, <3>1, <3>2 DEF OrderInv
    <3>4. ASSUME NEW j \in DOMAIN out'[v], i < j PROVE out'[v][j].kind # "Batch"
      <4>1. j + d \in DOMAIN out[v] /\ i + d < j + d /\ out'[v][j] = out[v][j + d]
        BY <3>1, <3>4
      <4> QED BY <3>1, <3>2, <4>1 DEF OrderInv
    <3> QED BY <3>3, <3>4
  <2> QED BY <2>1, <2>2, <2>3, <2>4 DEF OrderInv, CurrentRequest, CurrentBatch
<1>11. AwaitInv(v)'
  BY <1>1 DEF AwaitInv, Alive
<1> QED BY <1>7, <1>10, <1>11
\* A page that starts to load is owed nothing: what is in flight is of the page before it.
LEMMA FlightLoads ==
  ASSUME MirrorAssumption, MirrorTypes, NEW v \in Views, NEW c \in CommandTypes, ~Concerns(c, v),
         cmds' = Append(cmds, c), UNCHANGED controllerVars, out'[v] = out[v],
         Alive(v), page'[v] = Page("loading"), pending'[v] = FALSE,
         page_epoch'[v] = page_epoch[v] + 1,
         RegisterInv(v), OrderInv(v), AwaitInv(v)
  PROVE  RegisterInv(v)' /\ OrderInv(v)' /\ AwaitInv(v)'
<1>1. page'[v].phase = "loading" /\ page'[v].last = 0 /\ views' = views
  BY DEF Page, controllerVars
<1>2. cmds \in Seq(CommandTypes) /\ out[v] \in Seq(OutputTypes) /\ page_epoch[v] \in Nat
  BY DEF MirrorTypes, QueueTypes, OutTypes, PageTypesOK
<1>3. \A i \in DOMAIN cmds' :
        /\ cmds'[i].kind = "Register" /\ cmds'[i].view = v => i \in DOMAIN cmds /\ cmds'[i] = cmds[i]
        /\ IsRequest(cmds'[i], v) => i \in DOMAIN cmds /\ cmds'[i] = cmds[i]
  <2>1. ~(c.kind = "Register" /\ c.view = v) /\ ~IsRequest(c, v)
    BY DEF Concerns, IsRequest
  <2>2. \A i \in DOMAIN cmds' : (i \in DOMAIN cmds /\ cmds'[i] = cmds[i]) \/ cmds'[i] = c
    BY <1>2, QueueAt
  <2> QED BY <2>1, <2>2
<1>4. Has(cmds', "Register", v) => Has(cmds, "Register", v)
  BY <1>3 DEF Has
<1>5. RegisterInv(v)'
  BY <1>1, <1>3, <1>4 DEF RegisterInv, Alive
<1>6. ASSUME NEW i \in DOMAIN cmds', IsRequest(cmds'[i], v)
      PROVE  cmds'[i].epoch <= page_epoch'[v] /\ cmds'[i].epoch # page_epoch'[v]
  <2>1. i \in DOMAIN cmds /\ cmds'[i] = cmds[i] /\ cmds[i] \in CommandTypes
    BY <1>2, <1>3, <1>6, LenProperties, ElementOfSeq
  <2>2. cmds[i].epoch <= page_epoch[v] /\ cmds[i].epoch \in Nat
    BY <1>6, <2>1 DEF OrderInv, CommandTypes, MirrorAssumption
  <2> QED BY <1>2, <2>1, <2>2
<1>7. ASSUME NEW i \in DOMAIN out'[v], out'[v][i].kind = "Batch"
      PROVE  out'[v][i].epoch <= page_epoch'[v] /\ out'[v][i].epoch # page_epoch'[v]
  <2>1. i \in DOMAIN out[v] /\ out[v][i] \in OutputTypes
    BY <1>2, LenProperties, ElementOfSeq
  <2>2. out[v][i].epoch <= page_epoch[v] /\ out[v][i].epoch \in Nat
    BY <1>7, <2>1 DEF OrderInv, OutputTypes, MirrorAssumption
  <2> QED BY <1>2, <2>2
<1>8. OrderInv(v)'
  BY <1>6, <1>7 DEF OrderInv, CurrentRequest, CurrentBatch
<1>9. AwaitInv(v)'
  BY <1>1, <1>6, <1>7 DEF AwaitInv, CurrentRequest, CurrentBatch, Alive
<1> QED BY <1>5, <1>8, <1>9

\* A page asks: the queue holds the one request that it awaits.
LEMMA FlightAsks ==
  ASSUME MirrorAssumption, MirrorTypes, NEW v \in Views,
         NEW request \in RequestKinds, NEW p \in SequenceNumbers, Requests(v, request, p),
         page[v].phase \in {"loading", "bootstrapped", "ready"},
         page'[v].last = page[v].last,
         page[v].phase = "loading" => page'[v].phase = "connecting" /\ request = "get",
         page[v].phase = "bootstrapped" => page'[v].phase = "initializing" /\ request = "get",
         page[v].phase = "ready" => page'[v].phase = "ready" /\ request # "get",
         RegisterInv(v), OrderInv(v), AwaitInv(v)
  PROVE  RegisterInv(v)' /\ OrderInv(v)' /\ AwaitInv(v)'
<1> DEFINE c == Command("Request", v, page_epoch[v], request, p)
           n == Len(cmds) + 1
<1>1. /\ ~pending[v] /\ cmds' = Append(cmds, c) /\ pending'[v] = TRUE
      /\ page_epoch' = page_epoch /\ out' = out /\ views' = views /\ running' = running
      /\ pending \in [Views -> BOOLEAN]
  BY DEF Requests, Queues, HostStep, controllerVars, MirrorTypes, PageTypesOK
<1>2. cmds \in Seq(CommandTypes) /\ page_epoch[v] \in 0 .. MaxPageEpoch
  BY DEF MirrorTypes, QueueTypes, PageTypesOK
<1>3. /\ c \in CommandTypes /\ c.kind = "Request" /\ c.view = v /\ c.epoch = page_epoch[v]
      /\ c.request = request
  BY <1>2 DEF Command, CommandTypes
<1> HIDE DEF c
<1>4. /\ \A i \in DOMAIN cmds : i \in Nat /\ i < n /\ i \in DOMAIN cmds' /\ cmds'[i] = cmds[i]
      /\ \A i \in DOMAIN cmds' : i \in DOMAIN cmds \/ (i = n /\ cmds'[i] = c)
      /\ n \in DOMAIN cmds' /\ cmds'[n] = c /\ n \in Nat
  <2>1. /\ Len(cmds) \in Nat
        /\ \A i \in DOMAIN cmds : i \in Nat /\ i <= Len(cmds) /\ i \in DOMAIN cmds' /\ cmds'[i] = cmds[i]
        /\ \A i \in DOMAIN cmds' : i \in Nat /\ (i \in DOMAIN cmds \/ (i = Len(cmds) + 1 /\ cmds'[i] = c))
        /\ cmds' = Append(cmds, c) => Len(cmds) + 1 \in DOMAIN cmds' /\ cmds'[Len(cmds) + 1] = c
    BY <1>1, <1>2, <1>3, QueueAt
  <2> QED BY <1>1, <2>1
<1> HIDE DEF n
<1>5. c.kind # "Register" /\ IsRequest(c, v)
  BY <1>3 DEF IsRequest
<1>6. Has(cmds', "Register", v) => Has(cmds, "Register", v)
  BY <1>4, <1>5 DEF Has
<1>7. Alive(v)
  BY DEF Alive
<1>8. /\ \A i \in DOMAIN cmds : ~CurrentRequest(cmds[i], v)
      /\ \A i \in DOMAIN out[v] : ~CurrentBatch(out[v][i], v)
  BY <1>1, <1>7 DEF AwaitInv
<1>9. RegisterInv(v)'
  <2>1. ASSUME NEW i \in DOMAIN cmds', NEW j \in DOMAIN cmds',
               cmds'[i].kind = "Register", cmds'[i].view = v
        PROVE  /\ cmds'[j].kind = "Register" /\ cmds'[j].view = v => i = j
               /\ IsRequest(cmds'[j], v) => i < j
    <3>1. i \in DOMAIN cmds /\ cmds'[i] = cmds[i] /\ i < n
      BY <1>4, <1>5, <2>1
    <3>2. CASE j \in DOMAIN cmds
      <4>1. cmds'[j] = cmds[j]
        BY <1>4, <3>2
      <4> QED BY <2>1, <3>1, <3>2, <4>1 DEF RegisterInv
    <3>3. CASE j \notin DOMAIN cmds
      BY <1>4, <1>5, <3>1, <3>3
    <3> QED BY <3>2, <3>3
  <2>2. Has(cmds', "Register", v) =>
       /\ v \notin views' /\ out'[v] = <<>>
       /\ page'[v].phase \in {"blank", "loading", "connecting", "failed"}
       /\ page'[v].last = 0
    BY <1>1, <1>6 DEF RegisterInv
  <2>3. page'[v].phase # "unused"
    OBVIOUS
  <2> QED BY <2>1, <2>2, <2>3 DEF RegisterInv
<1>10. OrderInv(v)'
  <2>1. ASSUME NEW i \in DOMAIN cmds', IsRequest(cmds'[i], v)
        PROVE  cmds'[i].epoch <= page_epoch[v]
    <3>1. CASE i \in DOMAIN cmds
      BY <1>4, <2>1, <3>1 DEF OrderInv
    <3>2. CASE i \notin DOMAIN cmds
      <4>1. cmds'[i].epoch = page_epoch[v] /\ page_epoch[v] \in Nat
        BY <1>2, <1>3, <1>4, <3>2
      <4> QED BY <4>1
    <3> QED BY <3>1, <3>2
  <2>2. ASSUME NEW i \in DOMAIN cmds', NEW j \in DOMAIN cmds', i < j,
               IsRequest(cmds'[i], v), cmds'[i].epoch = page_epoch[v]
        PROVE  FALSE
    <3>1. CASE i \in DOMAIN cmds
      BY <1>4, <1>8, <2>2, <3>1 DEF CurrentRequest
    <3>2. CASE i \notin DOMAIN cmds
      <4>1. i = n /\ n < j
        BY <1>4, <2>2, <3>2
      <4>2. j \in DOMAIN cmds \/ j = n
        BY <1>4
      <4>3. \A x \in Nat : ~(n < x /\ x < n) /\ ~(n < n)
        BY <1>4
      <4> QED BY <1>4, <4>1, <4>2, <4>3
    <3> QED BY <3>1, <3>2
  <2>3. \A i \in DOMAIN out'[v] : ~(out'[v][i].kind = "Batch" /\ out'[v][i].epoch = page_epoch'[v])
    BY <1>1, <1>8 DEF CurrentBatch
  <2>4. \A i \in DOMAIN out'[v] : out'[v][i].kind = "Batch" => out'[v][i].epoch <= page_epoch'[v]
    BY <1>1 DEF OrderInv
  <2> QED BY <1>1, <2>1, <2>2, <2>3, <2>4 DEF OrderInv, CurrentRequest, CurrentBatch
<1>11. AwaitInv(v)'
  <2>1. /\ pending'[v]
        /\ page'[v].phase \in {"connecting", "initializing", "ready"}
    BY <1>1
  <2>2. \E i \in DOMAIN cmds' : IsRequest(cmds'[i], v) /\ cmds'[i].epoch = page_epoch'[v]
    BY <1>1, <1>3, <1>4, <1>5
  <2>3. \A i \in DOMAIN cmds' : (i \in DOMAIN cmds /\ cmds'[i] = cmds[i]) \/ cmds'[i] = c
    BY <1>4
  <2>4. page'[v].phase \in {"connecting", "initializing"} =>
          \A i \in DOMAIN cmds' :
            IsRequest(cmds'[i], v) /\ cmds'[i].epoch = page_epoch'[v] => cmds'[i].request = "get"
    BY <1>1, <1>3, <1>8, <2>3 DEF CurrentRequest
  <2>5. \A i \in DOMAIN out'[v] : ~(out'[v][i].kind = "Batch" /\ out'[v][i].epoch = page_epoch'[v])
    BY <1>1, <1>8 DEF CurrentBatch
  <2>6. page'[v].phase \in {"initializing", "ready"} =>
          /\ \A i \in DOMAIN cmds' : IsRequest(cmds'[i], v) => cmds'[i].epoch = page_epoch'[v]
          /\ \A i \in DOMAIN out'[v] : out'[v][i].kind = "Batch" => out'[v][i].epoch = page_epoch'[v]
    <3> SUFFICES ASSUME page'[v].phase \in {"initializing", "ready"}
                 PROVE  /\ \A i \in DOMAIN cmds' : IsRequest(cmds'[i], v) => cmds'[i].epoch = page_epoch[v]
                        /\ \A i \in DOMAIN out[v] : out[v][i].kind = "Batch" => out[v][i].epoch = page_epoch[v]
      BY <1>1
    <3>1. page[v].phase \in {"bootstrapped", "ready"}
      OBVIOUS
    <3> QED BY <1>3, <2>3, <3>1 DEF AwaitInv
  <2>7. page'[v].phase = "ready" =>
          /\ \A i \in DOMAIN cmds' : IsRequest(cmds'[i], v) => cmds'[i].request # "get"
          /\ \A i \in DOMAIN out'[v] : out'[v][i].reply = NoSnapshot
    <3> SUFFICES ASSUME page'[v].phase = "ready"
                 PROVE  /\ \A i \in DOMAIN cmds' : IsRequest(cmds'[i], v) => cmds'[i].request # "get"
                        /\ \A i \in DOMAIN out[v] : out[v][i].reply = NoSnapshot
      BY <1>1
    <3>1. page[v].phase = "ready" /\ request # "get"
      OBVIOUS
    <3> QED BY <1>3, <2>3, <3>1 DEF AwaitInv
  <2> QED BY <2>1, <2>2, <2>4, <2>5, <2>6, <2>7 DEF AwaitInv, CurrentRequest, CurrentBatch
<1> QED BY <1>9, <1>10, <1>11
\* A view is added and its registration queued.
LEMMA FlightAdds ==
  ASSUME MirrorAssumption, MirrorTypes, NEW v \in Views, AddMonitor(v),
         RegisterInv(v), OrderInv(v), AwaitInv(v)
  PROVE  RegisterInv(v)' /\ OrderInv(v)' /\ AwaitInv(v)'
<1> DEFINE c == Command("Register", v, 0, "none", NoPrompt)
           n == Len(cmds) + 1
<1>1. /\ page[v].phase = "unused" /\ cmds' = Append(cmds, c) /\ page' = [page EXCEPT ![v] = Page("blank")]
      /\ page_epoch' = page_epoch /\ pending' = pending /\ out' = out /\ views' = views
  BY DEF AddMonitor, Queues, HostStep, controllerVars
<1>2. cmds \in Seq(CommandTypes) /\ page \in [Views -> PageTypes]
  BY DEF MirrorTypes, QueueTypes, PageTypesOK
<1>3. page'[v].phase = "blank" /\ page'[v].last = 0
  BY <1>1, <1>2 DEF Page
<1>4. c \in CommandTypes /\ c.kind = "Register" /\ c.view = v
  BY DEF MirrorAssumption, Command, CommandTypes, NoPrompt, SequenceNumbers
<1> HIDE DEF c
<1>5. /\ \A i \in DOMAIN cmds : i \in DOMAIN cmds' /\ cmds'[i] = cmds[i]
      /\ \A i \in DOMAIN cmds' : i \in DOMAIN cmds \/ (i = n /\ cmds'[i] = c)
  BY <1>1, <1>2, <1>4, QueueAt
<1> HIDE DEF n
<1>6. /\ ~Has(cmds, "Register", v) /\ ~Has(cmds, "Request", v) /\ v \notin views /\ out[v] = <<>>
      /\ ~pending[v]
  BY <1>1 DEF RegisterInv, AwaitInv
<1>7. DOMAIN out'[v] = {}
  <2>1. DOMAIN << >> = {}
    OBVIOUS
  <2> QED BY <1>1, <1>6, <2>1
<1>8. \A i \in DOMAIN cmds' : ~IsRequest(cmds'[i], v)
  <2>1. \A i \in DOMAIN cmds : ~IsRequest(cmds[i], v)
    BY <1>6 DEF Has, IsRequest
  <2> QED BY <1>4, <1>5, <2>1 DEF IsRequest
<1>9. \A i \in DOMAIN cmds' : cmds'[i].kind = "Register" /\ cmds'[i].view = v => i = n
  BY <1>5, <1>6 DEF Has
<1>10. RegisterInv(v)'
  BY <1>1, <1>3, <1>6, <1>8, <1>9 DEF RegisterInv
<1>11. OrderInv(v)'
  BY <1>7, <1>8 DEF OrderInv, CurrentRequest
<1>12. AwaitInv(v)'
  BY <1>1, <1>3, <1>6, <1>7, <1>8 DEF AwaitInv, CurrentRequest
<1> QED BY <1>10, <1>11, <1>12

\* The first output is taken: it answers the page, or it is not an answer to it.
LEMMA FlightTakes ==
  ASSUME MirrorTypes, NEW v \in Views, out[v] # <<>>, out'[v] = Tail(out[v]),
         UNCHANGED <<cmds, controllerVars, page_epoch>>, Alive(v),
         \/ /\ pending[v] /\ CurrentBatch(out[v][1], v) /\ pending'[v] = FALSE
            /\ page[v].phase = "connecting" => page'[v].phase = "bootstrapped"
            /\ page[v].phase = "initializing" => page'[v].phase = "ready"
            /\ page[v].phase = "ready" => page'[v].phase = "ready"
         \/ /\ ~CurrentBatch(out[v][1], v) /\ pending'[v] = pending[v]
            /\ page'[v].phase = page[v].phase,
         RegisterInv(v), OrderInv(v), AwaitInv(v)
  PROVE  RegisterInv(v)' /\ OrderInv(v)' /\ AwaitInv(v)'
<1>1. /\ cmds' = cmds /\ page_epoch' = page_epoch /\ views' = views /\ running' = running
      /\ out[v] \in Seq(OutputTypes)
  BY DEF controllerVars, MirrorTypes, OutTypes
<1>2. /\ 1 \in DOMAIN out[v]
      /\ \A i \in DOMAIN out'[v] : i \in Nat \ {0} /\ i + 1 \in DOMAIN out[v] /\ out'[v][i] = out[v][i + 1]
      /\ \A i \in DOMAIN out[v] : i # 1 => i - 1 \in DOMAIN out'[v] /\ out'[v][i - 1] = out[v][i]
  <2>1. /\ Len(out[v]) \in Nat \ {0} /\ DOMAIN out[v] = 1 .. Len(out[v])
        /\ DOMAIN out'[v] = 1 .. (Len(out[v]) - 1)
        /\ \A i \in 1 .. (Len(out[v]) - 1) : out'[v][i] = out[v][i + 1]
    BY <1>1, TailAt
  <2> QED BY <2>1
<1>3. ~Has(cmds, "Register", v)
  BY DEF RegisterInv
<1>4. page[v].phase # "unused" /\ page[v].phase # "failed"
  BY DEF Alive
<1>5. page'[v].phase # "unused" /\ page'[v].phase # "failed"
  BY <1>4 DEF AwaitInv, MirrorTypes, PageTypesOK, PageTypes, Phases
<1>6. RegisterInv(v)'
  BY <1>1, <1>3, <1>5 DEF RegisterInv, Has
<1>7. OrderInv(v)'
  <2>1. ASSUME NEW i \in DOMAIN out'[v], NEW j \in DOMAIN out'[v], i < j,
               out'[v][i].kind = "Batch", out'[v][i].epoch = page_epoch[v]
        PROVE  out'[v][j].kind # "Batch"
    <3>1. /\ i + 1 \in DOMAIN out[v] /\ out'[v][i] = out[v][i + 1]
          /\ j + 1 \in DOMAIN out[v] /\ out'[v][j] = out[v][j + 1] /\ i + 1 < j + 1
      BY <1>2, <2>1
    <3>2. CurrentBatch(out[v][i + 1], v)
      BY <2>1, <3>1 DEF CurrentBatch
    <3> QED BY <3>1, <3>2 DEF OrderInv
  <2>2. \A i \in DOMAIN out'[v] : out'[v][i].kind = "Batch" => out'[v][i].epoch <= page_epoch[v]
    BY <1>2 DEF OrderInv
  <2>3. \A i \in DOMAIN out'[v] :
          out'[v][i].kind = "Batch" /\ out'[v][i].epoch = page_epoch[v] => ~Has(cmds, "Request", v)
    BY <1>2 DEF OrderInv, CurrentBatch
  <2>4. /\ \A i \in DOMAIN cmds : IsRequest(cmds[i], v) => cmds[i].epoch <= page_epoch[v]
        /\ \A i, j \in DOMAIN cmds : i < j /\ CurrentRequest(cmds[i], v) => ~IsRequest(cmds[j], v)
    BY DEF OrderInv
  <2> QED BY <1>1, <2>1, <2>2, <2>3, <2>4 DEF OrderInv, CurrentRequest, CurrentBatch
<1>8. CASE /\ pending[v] /\ CurrentBatch(out[v][1], v) /\ pending'[v] = FALSE
           /\ page[v].phase = "connecting" => page'[v].phase = "bootstrapped"
           /\ page[v].phase = "initializing" => page'[v].phase = "ready"
           /\ page[v].phase = "ready" => page'[v].phase = "ready"
  <2>1. page[v].phase \in {"connecting", "initializing", "ready"}
    BY <1>8 DEF AwaitInv, MirrorTypes, PageTypesOK, PageTypes, Phases
  <2>2. page'[v].phase \in {"bootstrapped", "ready"}
    BY <1>8, <2>1
  <2>3. \A i \in DOMAIN cmds' : ~IsRequest(cmds'[i], v)
    <3>1. ~Has(cmds, "Request", v)
      BY <1>2, <1>8 DEF OrderInv
    <3> QED BY <1>1, <3>1 DEF Has, IsRequest
  <2>4. \A i \in DOMAIN out'[v] : out'[v][i].kind # "Batch" /\ out'[v][i].reply = NoSnapshot
    <3>1. ASSUME NEW i \in DOMAIN out'[v]
          PROVE  out'[v][i].kind # "Batch" /\ out'[v][i].reply = NoSnapshot
      <4>1. i + 1 \in DOMAIN out[v] /\ out'[v][i] = out[v][i + 1] /\ 1 < i + 1
        BY <1>2
      <4>2. out[v][i + 1].kind # "Batch"
        BY <1>2, <1>8, <4>1 DEF OrderInv
      <4>3. out[v][i + 1] \in OutputTypes
        BY <1>1, <4>1, LenProperties, ElementOfSeq
      <4> QED BY <4>1, <4>2, <4>3 DEF OutputTypes
    <3> QED BY <3>1
  <2>5. AwaitInv(v)'
    BY <1>8, <2>2, <2>3, <2>4 DEF AwaitInv, CurrentRequest, CurrentBatch
  <2> QED BY <1>6, <1>7, <2>5
<1>9. CASE /\ ~CurrentBatch(out[v][1], v) /\ pending'[v] = pending[v]
           /\ page'[v].phase = page[v].phase
  <2>1. (\E i \in DOMAIN out[v] : CurrentBatch(out[v][i], v)) =>
          \E i \in DOMAIN out'[v] : out'[v][i].kind = "Batch" /\ out'[v][i].epoch = page_epoch[v]
    BY <1>2, <1>9 DEF CurrentBatch
  <2>2. \A i \in DOMAIN out'[v] : \E j \in DOMAIN out[v] : out'[v][i] = out[v][j]
    BY <1>2
  <2>3. AwaitInv(v)'
    BY <1>1, <1>9, <2>1, <2>2 DEF AwaitInv, CurrentRequest, CurrentBatch, Alive
  <2> QED BY <1>6, <1>7, <2>3
<1> QED BY <1>8, <1>9
-----------------------------------------------------------------------------
(* What one step of the main thread does to one view.                      *)

\* The page follows its stream: as it was, or one output further.
StaysOnStream(v) ==
  \/ /\ out' = out
     /\ \A k \in Images : Shows(page[v], k) => Shows(page'[v], k)
  \/ /\ out[v] # <<>> /\ out' = [out EXCEPT ![v] = Tail(@)]
     /\ \A k, l \in Images : Shows(page[v], k) /\ Step(k, out[v][1], l) => Shows(page'[v], l)

HostSummary(v) ==
  /\ UNCHANGED controllerVars /\ UNCHANGED sleep_preparing
  /\ \E c \in CommandTypes :
       /\ \A u \in Views \ {v} : ~Concerns(c, u)
       /\ cmds' = cmds \/ (cmds' = Append(cmds, c) /\ Len(cmds) < CommandCapacity)
  /\ \E r \in PageTypes : page' = [page EXCEPT ![v] = r]
  /\ \E b \in BOOLEAN : pending' = [pending EXCEPT ![v] = b]
  /\ \E e \in 0 .. MaxPageEpoch : page_epoch' = [page_epoch EXCEPT ![v] = e]
  /\ page'[v].phase # "ready" => ~page'[v].missed
  /\ StaysOnStream(v)
  /\ RegisterInv(v)' /\ OrderInv(v)' /\ AwaitInv(v)'

\* Nothing public changes on the main thread.
LEMMA HostPublic ==
  ASSUME MirrorTypes, UNCHANGED controllerVars
  PROVE  /\ ControllerTypes' /\ views' = views /\ running' = running
         /\ client' = client /\ silent' = silent
         /\ \A k \in Images : IsPublic(k) => IsPublic(k)'
  BY DEF controllerVars, publicVars, MirrorTypes, ControllerTypes, IsPublic, Watermark

\* The main thread adds a command only where there is room.
LEMMA QueueTypesHost ==
  ASSUME MirrorAssumption, MirrorTypes, UNCHANGED controllerVars, NEW c \in CommandTypes,
         cmds' = cmds \/ (cmds' = Append(cmds, c) /\ Len(cmds) < CommandCapacity)
  PROVE  QueueTypes'
<1>1. /\ cmds \in Seq(CommandTypes) /\ Len(cmds) <= CommandCapacity /\ CommandCapacity \in Nat
      /\ views \in SUBSET Views /\ running \in BOOLEAN
  BY DEF MirrorTypes, QueueTypes, MirrorAssumption
<1>2. cmds' \in Seq(CommandTypes) /\ Len(cmds') <= CommandCapacity
  <2>1. CASE cmds' = cmds
    BY <1>1, <2>1
  <2>2. CASE cmds' = Append(cmds, c) /\ Len(cmds) < CommandCapacity
    <3>1. /\ Append(cmds, c) \in Seq(CommandTypes) /\ Len(Append(cmds, c)) = Len(cmds) + 1
          /\ Len(cmds) \in Nat
      BY <1>1, AppendAt
    <3> QED BY <1>1, <2>2, <3>1
  <2> QED BY <2>1, <2>2
<1> QED BY <1>1, <1>2, HostPublic DEF QueueTypes

\* A step of the main thread, summarised, preserves the invariant.
LEMMA HostPreserves ==
  ASSUME MirrorAssumption, MirrorInv, NEW v \in Views, HostSummary(v)
  PROVE  MirrorInv'
<1>1. /\ MirrorTypes /\ UNCHANGED controllerVars /\ sleep_preparing' = sleep_preparing
      /\ StaysOnStream(v)
      /\ page'[v].phase # "ready" => ~page'[v].missed
  BY DEF MirrorInv, HostSummary
<1>2. /\ ControllerTypes' /\ views' = views /\ running' = running
      /\ client' = client /\ silent' = silent
      /\ \A k \in Images : IsPublic(k) => IsPublic(k)'
  BY <1>1, HostPublic
<1>3. PICK c \in CommandTypes :
       /\ \A u \in Views \ {v} : ~Concerns(c, u)
       /\ cmds' = cmds \/ (cmds' = Append(cmds, c) /\ Len(cmds) < CommandCapacity)
  BY DEF HostSummary
<1>4. PICK r \in PageTypes, b \in BOOLEAN, e \in 0 .. MaxPageEpoch :
        /\ page' = [page EXCEPT ![v] = r] /\ pending' = [pending EXCEPT ![v] = b]
        /\ page_epoch' = [page_epoch EXCEPT ![v] = e]
  BY DEF HostSummary
<1>5. /\ page \in [Views -> PageTypes] /\ pending \in [Views -> BOOLEAN]
      /\ page_epoch \in [Views -> 0 .. MaxPageEpoch] /\ out \in [Views -> Seq(OutputTypes)]
      /\ views \subseteq Views
      /\ \A u \in Views : Len(out[u]) <= OutputCapacity
  BY <1>1 DEF MirrorTypes, PageTypesOK, OutTypes, QueueTypes
<1>6. \A u \in Views \ {v} : /\ page'[u] = page[u] /\ pending'[u] = pending[u]
                             /\ page_epoch'[u] = page_epoch[u] /\ out'[u] = out[u]
  BY <1>1, <1>4, <1>5 DEF StaysOnStream
<1>7. out'[v] = out[v] \/ (out[v] # <<>> /\ out'[v] = Tail(out[v]))
  BY <1>1, <1>5 DEF StaysOnStream
<1>8. out' = [u \in Views |-> out'[u]]
  BY <1>1, <1>5 DEF StaysOnStream
<1>9. MirrorTypes'
  <2>1. QueueTypes'
    BY <1>1, <1>3, QueueTypesHost
  <2>2. OutTypes'
    <3>1. ASSUME NEW u \in Views
          PROVE  out'[u] \in Seq(OutputTypes) /\ Len(out'[u]) <= OutputCapacity
      <4>1. out[u] \in Seq(OutputTypes) /\ Len(out[u]) <= OutputCapacity /\ OutputCapacity \in Nat
        BY <1>5 DEF MirrorAssumption
      <4>2. CASE out'[u] = out[u]
        BY <4>1, <4>2
      <4>3. CASE out[u] # <<>> /\ out'[u] = Tail(out[u])
        <5>1. Tail(out[u]) \in Seq(OutputTypes) /\ Len(out[u]) \in Nat /\ Len(Tail(out[u])) = Len(out[u]) - 1
          BY <4>1, <4>3, TailAt
        <5> QED BY <4>1, <4>3, <5>1
      <4> QED BY <1>6, <1>7, <4>2, <4>3
    <3>2. out' \in [Views -> Seq(OutputTypes)]
      BY <1>8, <3>1
    <3> QED BY <3>1, <3>2 DEF OutTypes
  <2>3. PageTypesOK'
    <3>1. /\ page' \in [Views -> PageTypes] /\ pending' \in [Views -> BOOLEAN]
          /\ page_epoch' \in [Views -> 0 .. MaxPageEpoch]
      BY <1>4, <1>5
    <3>2. sleep_preparing' \in BOOLEAN
      BY <1>1 DEF MirrorTypes, PageTypesOK
    <3> QED BY <3>1, <3>2 DEF PageTypesOK
  <2> QED BY <1>2, <2>1, <2>2, <2>3 DEF MirrorTypes
<1>10. FlightInv'
  <2>1. ASSUME NEW u \in Views \ {v}
        PROVE  RegisterInv(u)' /\ OrderInv(u)' /\ AwaitInv(u)'
    <3>1. RegisterInv(u) /\ OrderInv(u) /\ AwaitInv(u)
      BY DEF MirrorInv, FlightInv
    <3>2. ~Concerns(c, u) /\ (cmds' = cmds \/ cmds' = Append(cmds, c))
      BY <1>3
    <3> QED BY <1>1, <1>2, <1>6, <3>1, <3>2, FlightOther
  <2> QED BY <2>1 DEF FlightInv, HostSummary
<1>11. StreamInv'
  <2>1. silent' => client' = "Idle"
    BY <1>2 DEF MirrorInv, StreamInv
  <2>2. \A u \in Views : page'[u].phase # "ready" => ~page'[u].missed
    BY <1>1, <1>6 DEF MirrorInv, StreamInv
  <2>3. ASSUME NEW u \in views'
        PROVE  Streams(out[u], page[u])'
    <3>1. u \in Views /\ u \in views /\ Streams(out[u], page[u]) /\ out[u] \in Seq(OutputTypes)
      BY <1>2, <1>5, <2>3 DEF MirrorInv, StreamInv
    <3>2. PICK q \in Seq(OutputTypes) : q = out[u]
      BY <3>1
    <3>3. PICK p, s : p = page[u] /\ s = page'[u]
      OBVIOUS
    <3>4. Streams(q, p)
      BY <3>1, <3>2, <3>3
    <3>5. CASE u # v
      <4>1. q = out'[u] /\ s = p
        BY <1>6, <3>1, <3>2, <3>3, <3>5
      <4>2. Streams(q, s)'
        BY <1>2, <3>4, <4>1, StreamKeeps
      <4> QED BY <3>3, <4>1, <4>2
    <3>6. CASE u = v /\ out' = out /\ \A k \in Images : Shows(page[v], k) => Shows(page'[v], k)
      <4>1. Streams(q, s)'
        BY <1>2, <3>3, <3>4, <3>6, StreamKeeps
      <4> QED BY <3>2, <3>3, <3>6, <4>1
    <3>7. CASE /\ u = v /\ out[v] # <<>> /\ out' = [out EXCEPT ![v] = Tail(@)]
               /\ \A k, l \in Images : Shows(page[v], k) /\ Step(k, out[v][1], l) => Shows(page'[v], l)
      <4>1. \A k, l \in Images : Shows(p, k) /\ Step(k, q[1], l) => Shows(s, l)
        BY <3>2, <3>3, <3>7
      <4>2. Streams(Tail(q), s)'
        BY <1>2, <3>2, <3>4, <3>7, <4>1, StreamTakes
      <4>3. out'[u] = Tail(q) /\ page'[u] = s
        BY <1>5, <3>2, <3>3, <3>7
      <4> QED BY <4>2, <4>3
    <3> QED BY <1>1, <3>5, <3>6, <3>7 DEF StaysOnStream
  <2> QED BY <2>1, <2>2, <2>3 DEF StreamInv
<1> QED BY <1>9, <1>10, <1>11 DEF MirrorInv
-----------------------------------------------------------------------------
(* Each step of the main thread does what HostSummary says.                *)

\* A page that was replaced has seen nothing, so it can miss nothing.
LEMMA BlankAt ==
  ASSUME MirrorAssumption, NEW phase \in Phases
  PROVE  /\ Page(phase) \in PageTypes /\ Page(phase).phase = phase /\ Page(phase).last = 0
         /\ ~Page(phase).missed
         /\ phase # "ready" => \A p, k : Shows(p, k) /\ k \in Images => Shows(Page(phase), k)
<1>1. /\ Page(phase) \in PageTypes /\ Page(phase).phase = phase /\ Page(phase).last = 0
      /\ ~Page(phase).missed
  BY DEF Page, PageTypes, MirrorAssumption, SequenceNumbers, NoPrompt
<1>2. ASSUME phase # "ready", NEW k \in Images
      PROVE  Shows(Page(phase), k)
  <2>1. k.last \in Nat
    BY DEF Images, SequenceNumbers
  <2>2. 0 <= k.last
    BY <2>1
  <2> QED BY <1>1, <1>2, <2>2 DEF Shows
<1> QED BY <1>1, <1>2

\* The commands that the main thread queues, and the views that they concern.
LEMMA NoticeAt ==
  ASSUME MirrorAssumption, NEW v \in Views, NEW e \in 0 .. MaxPageEpoch,
         NEW kind \in {"CancelForPage", "PrepareForSleep", "ResumeAfterSleep"},
         NEW p \in SequenceNumbers, NEW request \in RequestKinds
  PROVE  /\ Notice(kind) \in CommandTypes /\ \A u : ~Concerns(Notice(kind), u)
         /\ Command("Detach", v, 0, "none", NoPrompt) \in CommandTypes
         /\ \A u : ~Concerns(Command("Detach", v, 0, "none", NoPrompt), u)
         /\ Command("Register", v, 0, "none", NoPrompt) \in CommandTypes
         /\ \A u \in Views \ {v} : ~Concerns(Command("Register", v, 0, "none", NoPrompt), u)
         /\ Command("Request", v, e, request, p) \in CommandTypes
         /\ \A u \in Views \ {v} : ~Concerns(Command("Request", v, e, request, p), u)
<1>1. 0 \in 0 .. MaxPageEpoch /\ NoPrompt \in SequenceNumbers
  BY DEF MirrorAssumption, NoPrompt, SequenceNumbers
<1>2. Notice(kind) \in CommandTypes /\ \A u : ~Concerns(Notice(kind), u)
  BY <1>1 DEF Notice, Command, CommandTypes, Concerns
<1>3. /\ Command("Detach", v, 0, "none", NoPrompt) \in CommandTypes
      /\ \A u : ~Concerns(Command("Detach", v, 0, "none", NoPrompt), u)
  BY <1>1 DEF Command, CommandTypes, Concerns
<1>4. /\ Command("Register", v, 0, "none", NoPrompt) \in CommandTypes
      /\ \A u \in Views \ {v} : ~Concerns(Command("Register", v, 0, "none", NoPrompt), u)
  BY <1>1 DEF Command, CommandTypes, Concerns
<1>5. /\ Command("Request", v, e, request, p) \in CommandTypes
      /\ \A u \in Views \ {v} : ~Concerns(Command("Request", v, e, request, p), u)
  BY <1>1 DEF Command, CommandTypes, Concerns
<1> QED BY <1>2, <1>3, <1>4, <1>5

\* A page that fails, whatever made it fail.
LEMMA FailsSummary ==
  ASSUME MirrorAssumption, MirrorInv, NEW v \in Views, ViewFails(v),
         UNCHANGED controllerVars, UNCHANGED sleep_preparing,
         NEW e \in 0 .. MaxPageEpoch, page_epoch' = [page_epoch EXCEPT ![v] = e],
         e \in {page_epoch[v], page_epoch[v] + 1},
         out' = out \/ (out[v] # <<>> /\ out' = [out EXCEPT ![v] = Tail(@)])
  PROVE  HostSummary(v)
<1> DEFINE r == Page("failed")
           c == Command("Detach", v, 0, "none", NoPrompt)
<1>1. /\ MirrorTypes /\ RegisterInv(v) /\ OrderInv(v) /\ AwaitInv(v)
      /\ page \in [Views -> PageTypes] /\ out \in [Views -> Seq(OutputTypes)]
      /\ page_epoch \in [Views -> 0 .. MaxPageEpoch]
  BY DEF MirrorInv, FlightInv, MirrorTypes, PageTypesOK, OutTypes
<1>2. /\ page' = [page EXCEPT ![v] = r] /\ pending' = [pending EXCEPT ![v] = FALSE]
      /\ cmds' = cmds \/ (cmds' = Append(cmds, c) /\ Len(cmds) < CommandCapacity)
  BY DEF ViewFails, CanSend
<1>3. /\ r \in PageTypes /\ r.phase = "failed" /\ ~r.missed
      /\ \A p, k : Shows(p, k) /\ k \in Images => Shows(r, k)
      /\ c \in CommandTypes /\ \A u : ~Concerns(c, u)
  <2>1. "failed" \in Phases /\ 0 \in 0 .. MaxPageEpoch /\ NoPrompt \in SequenceNumbers
        /\ "get" \in RequestKinds
    BY DEF Phases, MirrorAssumption, RequestKinds, NoPrompt, SequenceNumbers
  <2> QED BY <2>1, BlankAt, NoticeAt
<1> HIDE DEF r, c
<1>4. page'[v] = r /\ page_epoch'[v] = e
  BY <1>1, <1>2
<1>5. out'[v] = out[v] \/ (out[v] # <<>> /\ out'[v] = Tail(out[v]))
  BY <1>1
<1>6. RegisterInv(v)' /\ OrderInv(v)' /\ AwaitInv(v)'
  BY <1>1, <1>4, <1>5, FlightFails
<1>7. StaysOnStream(v)
  <2>1. \A k \in Images : Shows(page[v], k) => Shows(page'[v], k)
    BY <1>3, <1>4
  <2>2. \A k, l \in Images : Shows(page[v], k) /\ Step(k, out[v][1], l) => Shows(page'[v], l)
    <3>1. \A l \in Images : Shows(r, l)
      <4> SUFFICES ASSUME NEW l \in Images PROVE Shows(r, l)
        OBVIOUS
      <4>1. l.last \in Nat /\ 0 <= l.last /\ r.last = 0
        BY DEF Images, SequenceNumbers, r, Page
      <4> QED BY <1>3, <4>1 DEF Shows
    <3> QED BY <1>4, <3>1
  <2> QED BY <2>1, <2>2 DEF StaysOnStream
<1> QED BY <1>2, <1>3, <1>4, <1>6, <1>7 DEF HostSummary
\* A page takes what its queue has for it.
LEMMA TakesSummary ==
  ASSUME MirrorAssumption, MirrorInv, NEW v \in Views, ReceiveOutput(v)
  PROVE  HostSummary(v)
<1> DEFINE o == out[v][1]
           p == page[v]
<1>1. /\ MirrorTypes /\ RegisterInv(v) /\ OrderInv(v) /\ AwaitInv(v)
      /\ page \in [Views -> PageTypes] /\ out \in [Views -> Seq(OutputTypes)]
      /\ pending \in [Views -> BOOLEAN]
      /\ page_epoch \in [Views -> 0 .. MaxPageEpoch] /\ MaxSequence \in Nat
      /\ page[v].phase # "ready" => ~page[v].missed
  BY DEF MirrorInv, FlightInv, StreamInv, MirrorTypes, PageTypesOK, OutTypes, MirrorAssumption
<1>2. /\ Alive(v) /\ out[v] # <<>> /\ out' = [out EXCEPT ![v] = Tail(@)]
      /\ page_epoch' = page_epoch /\ sleep_preparing' = sleep_preparing
      /\ UNCHANGED controllerVars
  BY DEF ReceiveOutput
<1>3. /\ Head(out[v]) = o /\ o \in OutputTypes /\ o.events \in Batches /\ o.reply \in Replies
      /\ o.kind \in {"Ready", "Batch", "Events", "Fatal"}
      /\ o.kind \in {"Ready", "Fatal"} => o.events = <<>>
      /\ o.kind # "Batch" => o.reply = NoSnapshot
      /\ 1 \in DOMAIN out[v]
  <2>1. Head(out[v]) = o /\ o \in OutputTypes /\ 1 \in DOMAIN out[v]
    BY <1>1, <1>2, TailAt
  <2> QED BY <2>1 DEF OutputTypes
<1>4. p \in PageTypes /\ p.phase # "unused" /\ p.phase # "failed"
  BY <1>1, <1>2 DEF Alive
<1>5. \A i \in DOMAIN o.events : o.events[i].sequence <= MaxSequence
  <2>1. o.events \in Seq(EventTypes)
    BY <1>3 DEF Batches
  <2>2. \A i \in DOMAIN o.events : o.events[i] \in EventTypes
    BY <2>1, LenProperties, ElementOfSeq
  <2>3. \A e \in EventTypes : e.sequence <= MaxSequence
    BY <1>1 DEF EventTypes
  <2> QED BY <2>2, <2>3
<1> HIDE DEF o, p
\* what is common to the outputs that the page survives
<1>6. ASSUME NEW r \in PageTypes, NEW b \in BOOLEAN,
             page' = [page EXCEPT ![v] = r], pending' = [pending EXCEPT ![v] = b], cmds' = cmds,
             r.phase # "ready" => ~r.missed,
             \A k, l \in Images : Shows(p, k) /\ Step(k, o, l) => Shows(r, l),
             \/ /\ pending[v] /\ CurrentBatch(o, v) /\ b = FALSE
                /\ p.phase = "connecting" => r.phase = "bootstrapped"
                /\ p.phase = "initializing" => r.phase = "ready"
                /\ p.phase = "ready" => r.phase = "ready"
             \/ /\ ~CurrentBatch(o, v) /\ b = pending[v] /\ r.phase = p.phase
      PROVE  HostSummary(v)
  <2>1. page'[v] = r /\ pending'[v] = b /\ out'[v] = Tail(out[v])
    BY <1>1, <1>2, <1>6
  <2>2. RegisterInv(v)' /\ OrderInv(v)' /\ AwaitInv(v)'
    <3>1. UNCHANGED <<cmds, controllerVars, page_epoch>>
      BY <1>2, <1>6
    <3>2. \/ /\ pending[v] /\ CurrentBatch(out[v][1], v) /\ pending'[v] = FALSE
             /\ page[v].phase = "connecting" => page'[v].phase = "bootstrapped"
             /\ page[v].phase = "initializing" => page'[v].phase = "ready"
             /\ page[v].phase = "ready" => page'[v].phase = "ready"
          \/ /\ ~CurrentBatch(out[v][1], v) /\ pending'[v] = pending[v]
             /\ page'[v].phase = page[v].phase
      BY <1>6, <2>1 DEF o, p
    <3> QED BY <1>1, <1>2, <2>1, <3>1, <3>2, FlightTakes
  <2>3. StaysOnStream(v)
    BY <1>2, <1>6, <2>1 DEF StaysOnStream, o, p
  <2>4. page_epoch' = [page_epoch EXCEPT ![v] = page_epoch[v]] /\ page_epoch[v] \in 0 .. MaxPageEpoch
    BY <1>1, <1>2
  <2>5. PICK c \in CommandTypes : \A u \in Views \ {v} : ~Concerns(c, u)
    <3>1. "get" \in RequestKinds /\ NoPrompt \in SequenceNumbers /\ 0 \in 0 .. MaxPageEpoch
      BY DEF MirrorAssumption, RequestKinds, NoPrompt, SequenceNumbers
    <3> QED BY <3>1, NoticeAt
  <2> QED BY <1>2, <1>6, <2>1, <2>2, <2>3, <2>4, <2>5 DEF HostSummary
<1>7. CASE ViewFails(v)
  <2>1. page_epoch' = [page_epoch EXCEPT ![v] = page_epoch[v]] /\ page_epoch[v] \in 0 .. MaxPageEpoch
    BY <1>1, <1>2
  <2> QED BY <1>2, <1>7, <2>1, FailsSummary
<1>8. CASE o.kind = "Batch" /\ o.epoch = page_epoch[v] /\ pending[v]
  <2> DEFINE q == ReceiveReply(p, o.reply)
             r == ReceiveAll(q, o.events)
  <2>1. /\ pending' = [pending EXCEPT ![v] = FALSE] /\ cmds' = cmds
        /\ page' = [page EXCEPT ![v] = ReceiveAll(ReceiveReply(@, o.reply), o.events)]
    BY <1>3, <1>8 DEF ReceiveOutput
  <2>2. page' = [page EXCEPT ![v] = r]
    BY <2>1 DEF p
  <2>3. CurrentBatch(o, v) /\ p.phase \in {"connecting", "initializing", "ready"}
    BY <1>1, <1>4, <1>8 DEF CurrentBatch, AwaitInv, PageTypes, Phases, p
  <2>4. /\ p.phase \in {"connecting", "initializing"} => o.reply # NoSnapshot
        /\ p.phase = "ready" => o.reply = NoSnapshot
    BY <1>1, <1>3, <2>3 DEF AwaitInv, o, p
  <2>5. /\ q \in PageTypes
        /\ p.phase = "connecting" => q.phase = "bootstrapped" /\ q.missed = p.missed
        /\ p.phase = "initializing" => q.phase = "ready"
        /\ p.phase = "ready" => q = p
    BY <1>3, <1>4, ReceiveReplyAt
  <2> HIDE DEF q
  <2>6. /\ r \in PageTypes /\ r.phase = q.phase
        /\ q.phase # "ready" => r.missed = q.missed
    <3>1. q.last <= MaxSequence
      BY <1>1, <2>5 DEF PageTypes, SequenceNumbers
    <3> QED BY <1>1, <1>3, <1>5, <2>5, <3>1, ReceiveAllAt
  <2>7. \A k, l \in Images : Shows(p, k) /\ Step(k, o, l) => Shows(r, l)
    <3> SUFFICES ASSUME NEW k \in Images, NEW l \in Images, Shows(p, k), Step(k, o, l)
                 PROVE  Shows(r, l)
      OBVIOUS
    <3>1. /\ o.reply = NoSnapshot => Shows(ReceiveAll(p, o.events), l)
          /\ o.reply # NoSnapshot /\ p.phase \in {"connecting", "initializing"} =>
               Shows(ReceiveAll(ReceiveReply(p, o.reply), o.events), l)
      BY <1>1, <1>3, <1>4, ShowsNext
    <3>2. CASE p.phase = "ready"
      <4>1. q = p /\ o.reply = NoSnapshot
        BY <2>4, <2>5, <3>2
      <4> QED BY <3>1, <4>1
    <3>3. CASE p.phase \in {"connecting", "initializing"}
      BY <2>4, <3>1, <3>3 DEF q
    <3> QED BY <2>3, <3>2, <3>3
  <2> HIDE DEF r
  <2>8. r.phase # "ready" => ~r.missed
    BY <1>1, <2>3, <2>5, <2>6 DEF p
  <2>9. /\ p.phase = "connecting" => r.phase = "bootstrapped"
        /\ p.phase = "initializing" => r.phase = "ready"
        /\ p.phase = "ready" => r.phase = "ready"
    BY <2>5, <2>6
  <2> QED BY <1>6, <1>8, <2>1, <2>2, <2>3, <2>6, <2>7, <2>8, <2>9
<1>9. CASE o.kind = "Events"
  <2> DEFINE r == ReceiveAll(p, o.events)
  <2>1. /\ pending' = pending /\ cmds' = cmds
        /\ page' = [page EXCEPT ![v] = ReceiveAll(@, o.events)]
    BY <1>3, <1>9 DEF ReceiveOutput
  <2>2. page' = [page EXCEPT ![v] = r] /\ pending' = [pending EXCEPT ![v] = pending[v]]
        /\ pending[v] \in BOOLEAN
    BY <1>1, <2>1 DEF p
  <2>3. /\ r \in PageTypes /\ r.phase = p.phase
        /\ p.phase # "ready" => r.missed = p.missed
    <3>1. p.last <= MaxSequence
      BY <1>1, <1>4 DEF PageTypes, SequenceNumbers
    <3> QED BY <1>1, <1>3, <1>4, <1>5, <3>1, ReceiveAllAt
  <2>4. \A k, l \in Images : Shows(p, k) /\ Step(k, o, l) => Shows(r, l)
    BY <1>1, <1>3, <1>4, <1>9, ShowsNext
  <2> HIDE DEF r
  <2>5. r.phase # "ready" => ~r.missed
    BY <1>1, <2>3 DEF p
  <2>6. ~CurrentBatch(o, v)
    BY <1>9 DEF CurrentBatch
  <2> QED BY <1>6, <2>1, <2>2, <2>3, <2>4, <2>5, <2>6
<1>10. CASE /\ o.kind \notin {"Fatal", "Events"} /\ ~(o.kind = "Batch" /\ o.epoch = page_epoch[v])
  <2>1. pending' = pending /\ cmds' = cmds /\ page' = page
    BY <1>3, <1>10 DEF ReceiveOutput
  <2>2. page' = [page EXCEPT ![v] = p] /\ pending' = [pending EXCEPT ![v] = pending[v]]
        /\ pending[v] \in BOOLEAN
    BY <1>1, <2>1 DEF p
  <2>3. ~CurrentBatch(o, v)
    BY <1>10 DEF CurrentBatch
  <2>4. \A k, l \in Images : Shows(p, k) /\ Step(k, o, l) => Shows(p, l)
    <3> SUFFICES ASSUME NEW k \in Images, NEW l \in Images, Shows(p, k), Step(k, o, l)
                 PROVE  Shows(p, l)
      OBVIOUS
    <3>1. /\ p.phase # "ready" => Shows(p, l)
          /\ o.reply = NoSnapshot => Shows(ReceiveAll(p, o.events), l)
      BY <1>1, <1>3, <1>4, ShowsNext
    <3>2. CASE p.phase = "ready"
      <4>1. o.kind = "Ready"
        <5>1. out[v][1].kind = "Batch" => out[v][1].epoch = page_epoch[v]
          BY <1>1, <1>3, <3>2 DEF AwaitInv, p
        <5> QED BY <1>3, <1>10, <5>1 DEF o
      <4>2. o.events = <<>> /\ o.reply = NoSnapshot
        BY <1>3, <4>1
      <4>3. ReceiveAll(p, o.events) = p
        BY <4>2, ReceiveNothing
      <4> QED BY <3>1, <4>2, <4>3
    <3> QED BY <3>1, <3>2
  <2>5. p.phase # "ready" => ~p.missed
    BY <1>1 DEF p
  <2> QED BY <1>4, <1>6, <2>1, <2>2, <2>3, <2>4, <2>5
<1>11. o.kind = "Fatal" => ViewFails(v)
  BY <1>3 DEF ReceiveOutput
<1>12. o.kind = "Batch" /\ o.epoch = page_epoch[v] /\ ~pending[v] => ViewFails(v)
  BY <1>3 DEF ReceiveOutput
<1> QED BY <1>3, <1>7, <1>8, <1>9, <1>10, <1>11, <1>12
\* A page learns that the controller dropped its view.
LEMMA DroppedSummary ==
  ASSUME MirrorAssumption, MirrorInv, NEW v \in Views, NoticeDisconnected(v)
  PROVE  HostSummary(v)
<1>1. page_epoch \in [Views -> 0 .. MaxPageEpoch]
  BY DEF MirrorInv, MirrorTypes, PageTypesOK
<1>2. /\ ViewFails(v) /\ UNCHANGED controllerVars /\ UNCHANGED sleep_preparing /\ out' = out
      /\ page_epoch' = page_epoch
  BY DEF NoticeDisconnected
<1>3. page_epoch' = [page_epoch EXCEPT ![v] = page_epoch[v]] /\ page_epoch[v] \in 0 .. MaxPageEpoch
  BY <1>1, <1>2
<1> QED BY <1>2, <1>3, FailsSummary

\* A monitor is added.
LEMMA AddSummary ==
  ASSUME MirrorAssumption, MirrorInv, NEW v \in Views, AddMonitor(v)
  PROVE  HostSummary(v)
<1> DEFINE r == Page("blank")
           c == Command("Register", v, 0, "none", NoPrompt)
<1>1. /\ MirrorTypes /\ RegisterInv(v) /\ OrderInv(v) /\ AwaitInv(v)
      /\ page \in [Views -> PageTypes] /\ pending \in [Views -> BOOLEAN]
      /\ page_epoch \in [Views -> 0 .. MaxPageEpoch]
  BY DEF MirrorInv, FlightInv, MirrorTypes, PageTypesOK
<1>2. /\ cmds' = Append(cmds, c) /\ Len(cmds) < CommandCapacity
      /\ page' = [page EXCEPT ![v] = r] /\ page_epoch' = page_epoch /\ pending' = pending
      /\ out' = out /\ UNCHANGED controllerVars /\ UNCHANGED sleep_preparing
  BY DEF AddMonitor, Queues, CanSend, HostStep
<1>3. /\ r \in PageTypes /\ ~r.missed
      /\ \A p, k : Shows(p, k) /\ k \in Images => Shows(r, k)
      /\ c \in CommandTypes /\ \A u \in Views \ {v} : ~Concerns(c, u)
  <2>1. "blank" \in Phases /\ 0 \in 0 .. MaxPageEpoch /\ NoPrompt \in SequenceNumbers
        /\ "get" \in RequestKinds
    BY DEF Phases, MirrorAssumption, RequestKinds, NoPrompt, SequenceNumbers
  <2> QED BY <2>1, BlankAt, NoticeAt
<1> HIDE DEF r, c
<1>4. page'[v] = r
  BY <1>1, <1>2
<1>5. RegisterInv(v)' /\ OrderInv(v)' /\ AwaitInv(v)'
  BY <1>1, FlightAdds
<1>6. StaysOnStream(v)
  BY <1>2, <1>3, <1>4 DEF StaysOnStream
<1>7. /\ pending' = [pending EXCEPT ![v] = pending[v]] /\ pending[v] \in BOOLEAN
      /\ page_epoch' = [page_epoch EXCEPT ![v] = page_epoch[v]]
      /\ page_epoch[v] \in 0 .. MaxPageEpoch
  BY <1>1, <1>2
<1> QED BY <1>2, <1>3, <1>4, <1>5, <1>6, <1>7 DEF HostSummary

\* A page starts to load, or fails because the controller cannot be told.
LEMMA LoadSummary ==
  ASSUME MirrorAssumption, MirrorInv, NEW v \in Views, LoadStarted(v)
  PROVE  HostSummary(v)
<1> DEFINE r == Page("loading")
           c == Notice("CancelForPage")
           e == page_epoch[v] + 1
<1>1. /\ MirrorTypes /\ RegisterInv(v) /\ OrderInv(v) /\ AwaitInv(v)
      /\ page \in [Views -> PageTypes] /\ pending \in [Views -> BOOLEAN]
      /\ page_epoch \in [Views -> 0 .. MaxPageEpoch] /\ MaxPageEpoch \in Nat
  BY DEF MirrorInv, FlightInv, MirrorTypes, PageTypesOK, MirrorAssumption
<1>2. /\ Alive(v) /\ page_epoch' = [page_epoch EXCEPT ![v] = e] /\ page_epoch[v] < MaxPageEpoch
      /\ out' = out /\ UNCHANGED controllerVars /\ UNCHANGED sleep_preparing
  BY DEF LoadStarted, HostStep
<1>3. e \in 0 .. MaxPageEpoch /\ page_epoch'[v] = e
  BY <1>1, <1>2
<1>4. CASE ~CanSend /\ ViewFails(v)
  BY <1>2, <1>3, <1>4, FailsSummary
<1>5. CASE /\ Queues(Notice("CancelForPage")) /\ page' = [page EXCEPT ![v] = Page("loading")]
           /\ pending' = [pending EXCEPT ![v] = FALSE]
  <2>1. /\ cmds' = Append(cmds, c) /\ Len(cmds) < CommandCapacity
        /\ page' = [page EXCEPT ![v] = r] /\ pending' = [pending EXCEPT ![v] = FALSE]
    BY <1>5 DEF Queues, CanSend
  <2>2. /\ r \in PageTypes /\ ~r.missed
        /\ \A p, k : Shows(p, k) /\ k \in Images => Shows(r, k)
        /\ c \in CommandTypes /\ \A u : ~Concerns(c, u)
    <3>1. "loading" \in Phases /\ 0 \in 0 .. MaxPageEpoch /\ NoPrompt \in SequenceNumbers
          /\ "get" \in RequestKinds
      BY DEF Phases, MirrorAssumption, RequestKinds, NoPrompt, SequenceNumbers
    <3> QED BY <3>1, BlankAt, NoticeAt
  <2> HIDE DEF r, c
  <2>3. page'[v] = r /\ pending'[v] = FALSE /\ out'[v] = out[v]
    BY <1>1, <1>2, <2>1
  <2>4. RegisterInv(v)' /\ OrderInv(v)' /\ AwaitInv(v)'
    BY <1>1, <1>2, <1>3, <2>1, <2>2, <2>3, FlightLoads DEF r
  <2>5. StaysOnStream(v)
    BY <1>2, <2>2, <2>3 DEF StaysOnStream
  <2> QED BY <1>2, <1>3, <2>1, <2>2, <2>3, <2>4, <2>5 DEF HostSummary
<1> QED BY <1>4, <1>5 DEF LoadStarted

\* A page that asks shows what it did, or has cleared a prompt that it no longer showed.
LEMMA AskSummary ==
  ASSUME MirrorAssumption, MirrorInv, NEW v \in Views, NEW request \in RequestKinds,
         NEW p \in SequenceNumbers, Requests(v, request, p), NEW r \in PageTypes,
         page' = [page EXCEPT ![v] = r],
         page[v].phase \in {"loading", "bootstrapped", "ready"},
         r.last = page[v].last, r.missed = page[v].missed,
         r.authentication = page[v].authentication,
         r.authentication = "Waiting" => r.prompt = page[v].prompt,
         page[v].phase = "loading" => r.phase = "connecting" /\ request = "get",
         page[v].phase = "bootstrapped" => r.phase = "initializing" /\ request = "get",
         page[v].phase = "ready" => r.phase = "ready" /\ request # "get"
  PROVE  HostSummary(v)
<1> DEFINE c == Command("Request", v, page_epoch[v], request, p)
<1>1. /\ MirrorTypes /\ RegisterInv(v) /\ OrderInv(v) /\ AwaitInv(v)
      /\ page \in [Views -> PageTypes] /\ pending \in [Views -> BOOLEAN]
      /\ page_epoch \in [Views -> 0 .. MaxPageEpoch]
      /\ page[v].phase # "ready" => ~page[v].missed
  BY DEF MirrorInv, FlightInv, StreamInv, MirrorTypes, PageTypesOK
<1>2. /\ cmds' = Append(cmds, c) /\ Len(cmds) < CommandCapacity
      /\ pending' = [pending EXCEPT ![v] = TRUE] /\ page_epoch' = page_epoch
      /\ out' = out /\ UNCHANGED controllerVars /\ UNCHANGED sleep_preparing
  BY DEF Requests, Queues, CanSend, HostStep
<1>3. c \in CommandTypes /\ \A u \in Views \ {v} : ~Concerns(c, u)
  BY <1>1, NoticeAt
<1> HIDE DEF c
<1>4. page'[v] = r
  BY <1>1
<1>5. RegisterInv(v)' /\ OrderInv(v)' /\ AwaitInv(v)'
  BY <1>1, <1>4, FlightAsks
<1>6. StaysOnStream(v)
  <2>1. \A k \in Images : Shows(page[v], k) => Shows(r, k)
    BY DEF Shows
  <2> QED BY <1>2, <1>4, <2>1 DEF StaysOnStream
<1>7. page_epoch' = [page_epoch EXCEPT ![v] = page_epoch[v]] /\ page_epoch[v] \in 0 .. MaxPageEpoch
  BY <1>1, <1>2
<1>8. r.phase # "ready" => ~r.missed
  BY <1>1
<1> QED BY <1>2, <1>3, <1>4, <1>5, <1>6, <1>7, <1>8 DEF HostSummary

\* Every request that a page makes is of that kind.
LEMMA RequestsSummary ==
  ASSUME MirrorAssumption, MirrorInv, NEW v \in Views,
         \/ Connect(v) \/ Initialize(v) \/ RetryAuthentication(v)
         \/ RespondToPrompt(v) \/ CancelOrPower(v)
  PROVE  HostSummary(v)
<1>1. /\ page \in [Views -> PageTypes] /\ page[v] \in PageTypes
      /\ NoPrompt \in SequenceNumbers
      /\ \A request \in {"get", "begin", "respond", "cancel", "power"} : request \in RequestKinds
  BY DEF MirrorInv, MirrorTypes, PageTypesOK, MirrorAssumption, NoPrompt, SequenceNumbers,
         RequestKinds
<1>2. PICK q \in PageTypes : q = page[v]
  BY <1>1
<1>3. /\ q.phase \in Phases /\ q.last \in SequenceNumbers
      /\ q.authentication \in Shown \cup {"none"} /\ q.prompt \in SequenceNumbers
      /\ q.missed \in BOOLEAN
  BY DEF PageTypes
<1>4. \A phase \in Phases :
        LET r == [q EXCEPT !.phase = phase]
        IN /\ r \in PageTypes /\ r.phase = phase /\ r.last = q.last /\ r.missed = q.missed
           /\ r.authentication = q.authentication /\ r.prompt = q.prompt
  BY DEF PageTypes
<1>5. CASE Connect(v)
  <2> DEFINE r == [q EXCEPT !.phase = "connecting"]
  <2>1. /\ page[v].phase = "loading" /\ Requests(v, "get", NoPrompt)
        /\ page' = [page EXCEPT ![v] = r]
    BY <1>2, <1>5 DEF Connect
  <2>2. /\ r \in PageTypes /\ r.phase = "connecting" /\ r.last = q.last /\ r.missed = q.missed
        /\ r.authentication = q.authentication /\ r.prompt = q.prompt
    <3>1. "connecting" \in Phases
      BY DEF Phases
    <3> QED BY <1>4, <3>1
  <2> HIDE DEF r
  <2> QED BY <1>1, <1>2, <2>1, <2>2, AskSummary
<1>6. CASE Initialize(v)
  <2> DEFINE r == [q EXCEPT !.phase = "initializing"]
  <2>1. /\ page[v].phase = "bootstrapped" /\ Requests(v, "get", NoPrompt)
        /\ page' = [page EXCEPT ![v] = r]
    BY <1>2, <1>6 DEF Initialize, Bootstrapped
  <2>2. /\ r \in PageTypes /\ r.phase = "initializing" /\ r.last = q.last /\ r.missed = q.missed
        /\ r.authentication = q.authentication /\ r.prompt = q.prompt
    <3>1. "initializing" \in Phases
      BY DEF Phases
    <3> QED BY <1>4, <3>1
  <2> HIDE DEF r
  <2> QED BY <1>1, <1>2, <2>1, <2>2, AskSummary
<1>7. CASE RetryAuthentication(v)
  <2> DEFINE r == [q EXCEPT !.prompt = NoPrompt]
  <2>1. /\ page[v].phase = "ready" /\ page[v].authentication \in {"Idle", "Failed"}
        /\ Requests(v, "begin", NoPrompt) /\ page' = [page EXCEPT ![v] = r]
    BY <1>2, <1>7 DEF RetryAuthentication
  <2>2. /\ r \in PageTypes /\ r.phase = q.phase /\ r.last = q.last /\ r.missed = q.missed
        /\ r.authentication = q.authentication
    BY <1>1, <1>3 DEF PageTypes
  <2> HIDE DEF r
  <2>3. r.authentication # "Waiting"
    BY <1>2, <2>1, <2>2
  <2> QED BY <1>1, <1>2, <2>1, <2>2, <2>3, AskSummary
<1>8. CASE RespondToPrompt(v)
  <2>1. /\ page[v].phase = "ready" /\ Requests(v, "respond", page[v].prompt) /\ page' = page
    BY <1>8 DEF RespondToPrompt
  <2>2. page' = [page EXCEPT ![v] = q] /\ page[v].prompt \in SequenceNumbers
    BY <1>1, <1>2, <1>3, <2>1
  <2> QED BY <1>1, <1>2, <2>1, <2>2, AskSummary
<1>9. CASE CancelOrPower(v)
  <2>1. /\ page[v].phase = "ready" /\ page' = page
        /\ Requests(v, "cancel", NoPrompt) \/ Requests(v, "power", NoPrompt)
    BY <1>9 DEF CancelOrPower
  <2>2. page' = [page EXCEPT ![v] = q]
    BY <1>1, <1>2, <2>1
  <2>3. CASE Requests(v, "cancel", NoPrompt)
    BY <1>1, <1>2, <2>1, <2>2, <2>3, AskSummary
  <2>4. CASE Requests(v, "power", NoPrompt)
    BY <1>1, <1>2, <2>1, <2>2, <2>4, AskSummary
  <2> QED BY <2>1, <2>3, <2>4
<1> QED BY <1>5, <1>6, <1>7, <1>8, <1>9
-----------------------------------------------------------------------------
(* The invariant.                                                          *)

\* Login1 signals the preparation for sleep or its end: no view is concerned.
LEMMA SleepSignalStep ==
  ASSUME MirrorAssumption, MirrorInv, SleepSignal
  PROVE  MirrorInv'
<1>1. PICK kind \in {"PrepareForSleep", "ResumeAfterSleep"} :
        cmds' = Append(cmds, Notice(kind)) /\ Len(cmds) < CommandCapacity
  BY DEF SleepSignal, Queues, CanSend
<1>2. /\ sleep_preparing' = ~sleep_preparing /\ out' = out /\ page_epoch' = page_epoch
      /\ pending' = pending /\ page' = page /\ UNCHANGED controllerVars
  BY DEF SleepSignal
<1>3. Notice(kind) \in CommandTypes /\ \A u : ~Concerns(Notice(kind), u)
  BY DEF MirrorAssumption, Notice, Command, CommandTypes, NoPrompt, SequenceNumbers, Concerns
<1>4. MirrorTypes
  BY DEF MirrorInv
<1>5. /\ ControllerTypes' /\ views' = views /\ running' = running
      /\ client' = client /\ silent' = silent
      /\ \A k \in Images : IsPublic(k) => IsPublic(k)'
  BY <1>2, <1>4, HostPublic
<1>6. MirrorTypes'
  <2>1. QueueTypes'
    BY <1>1, <1>2, <1>3, <1>4, QueueTypesHost
  <2>2. OutTypes'
    BY <1>2, <1>4 DEF MirrorTypes, OutTypes
  <2>3. PageTypesOK'
    BY <1>2, <1>4 DEF MirrorTypes, PageTypesOK
  <2> QED BY <1>5, <2>1, <2>2, <2>3 DEF MirrorTypes
<1>7. ASSUME NEW u \in Views
      PROVE  RegisterInv(u)' /\ OrderInv(u)' /\ AwaitInv(u)'
  <2>1. RegisterInv(u) /\ OrderInv(u) /\ AwaitInv(u)
    BY DEF MirrorInv, FlightInv
  <2> QED BY <1>1, <1>2, <1>3, <1>4, <1>5, <2>1, FlightOther
<1>8. StreamInv'
  <2>1. ASSUME NEW u \in views'
        PROVE  Streams(out[u], page[u])'
    <3>1. u \in Views /\ Streams(out[u], page[u]) /\ out[u] \in Seq(OutputTypes)
      BY <1>4, <1>5, <2>1 DEF MirrorInv, StreamInv, MirrorTypes, QueueTypes, OutTypes
    <3>2. PICK q \in Seq(OutputTypes) : q = out[u]
      BY <3>1
    <3>3. PICK p : p = page[u]
      OBVIOUS
    <3>4. Streams(q, p)'
      BY <1>5, <3>1, <3>2, <3>3, StreamKeeps
    <3> QED BY <1>2, <3>2, <3>3, <3>4
  <2>2. /\ silent' => client' = "Idle"
        /\ \A u \in Views : page'[u].phase # "ready" => ~page'[u].missed
    BY <1>2, <1>5 DEF MirrorInv, StreamInv
  <2> QED BY <2>1, <2>2 DEF StreamInv
<1> QED BY <1>6, <1>7, <1>8 DEF MirrorInv, FlightInv

\* Whatever command the controller thread takes.
LEMMA WorkerPreserves ==
  ASSUME MirrorAssumption, MirrorInv, WorkerStep
  PROVE  MirrorInv'
<1>1. MirrorTypes /\ StreamInv /\ (silent => client = "Idle")
  BY DEF MirrorInv, StreamInv
<1>2. CASE TakeRegister
  BY <1>2, RegisterStep
<1>3. CASE WorkerSummary
  <2>1. MirrorTypes'
    BY <1>1, <1>3, TypesWorker
  <2>2. ASSUME NEW v \in Views
        PROVE  RegisterInv(v)' /\ OrderInv(v)' /\ AwaitInv(v)'
    <3>1. RegisterInv(v) /\ OrderInv(v) /\ AwaitInv(v)
      BY DEF MirrorInv, FlightInv
    <3>2. RegisterInv(v)'
      BY <1>1, <1>3, <3>1, RegisterWorker
    <3>3. OrderInv(v)'
      BY <1>1, <1>3, <3>1, OrderWorker
    <3>4. AwaitInv(v)'
      BY <1>1, <1>3, <3>1, AwaitWorker
    <3> QED BY <3>2, <3>3, <3>4
  <2>3. StreamInv'
    BY <1>1, <1>3, StreamWorker
  <2> QED BY <2>1, <2>2, <2>3 DEF MirrorInv, FlightInv
<1>4. CASE TakeRequest
  BY <1>1, <1>3, <1>4, RequestSummary
<1>5. CASE TakeStateGet
  BY <1>1, <1>3, <1>5, StateGetSummary
<1>6. CASE TakePrepareForSleep \/ TakeResumeAfterSleep
  BY <1>1, <1>3, <1>6, SleepSummary
<1>7. CASE TakeDetach \/ TakeRequestOfLostView \/ TakeCancelForPage
  BY <1>1, <1>3, <1>7, SilentSummary
<1> QED BY <1>2, <1>4, <1>5, <1>6, <1>7 DEF WorkerStep

\* Before any monitor was added nothing is in flight and nobody follows.
LEMMA MirrorInit ==
  ASSUME MirrorAssumption, Init
  PROVE  MirrorInv
<1>1. ControllerTypes
  <2>1. MaxSequence \in Nat
    BY DEF MirrorAssumption
  <2>2. 0 \in 0 .. MaxSequence /\ 1 \in 1 .. (MaxSequence + 1)
    BY <2>1
  <2>3. "Idle" \in RestStates /\ PublicState("Idle") = "Idle"
    BY DEF RestStates, PublicState
  <2>4. /\ client = "Idle" /\ locked = TRUE /\ authentication = "Idle" /\ prompt = 0
        /\ next = 1 /\ silent = FALSE
    BY DEF Init, NoPrompt
  <2> QED BY <2>2, <2>3, <2>4 DEF ControllerTypes, SequenceNumbers
<1>2. QueueTypes
  <2>1. <<>> \in Seq(CommandTypes) /\ Len(<<>>) = 0
    BY EmptySeq
  <2> QED BY <2>1 DEF MirrorAssumption, Init, QueueTypes
<1>3. OutTypes
  <2>1. <<>> \in Seq(OutputTypes) /\ Len(<<>>) = 0
    BY EmptySeq
  <2> QED BY <2>1 DEF MirrorAssumption, Init, OutTypes
<1>4. PageTypesOK
  <2>1. Page("unused") \in PageTypes
    BY BlankAt DEF Phases
  <2>2. 0 \in 0 .. MaxPageEpoch
    BY DEF MirrorAssumption
  <2>3. /\ page_epoch = [v \in Views |-> 0] /\ pending = [v \in Views |-> FALSE]
        /\ page = [v \in Views |-> Page("unused")] /\ sleep_preparing = FALSE
    BY DEF Init
  <2> QED BY <2>1, <2>2, <2>3 DEF PageTypesOK
<1>5. ASSUME NEW v \in Views
      PROVE  RegisterInv(v) /\ OrderInv(v) /\ AwaitInv(v)
  <2>1. /\ cmds = <<>> /\ DOMAIN cmds = {} /\ out[v] = <<>> /\ DOMAIN out[v] = {}
        /\ views = {} /\ page[v].phase = "unused" /\ pending[v] = FALSE
    BY DEF Init, Page
  <2>2. ~Has(cmds, "Register", v) /\ ~Has(cmds, "Request", v)
    BY <2>1 DEF Has
  <2> QED BY <2>1, <2>2 DEF RegisterInv, OrderInv, AwaitInv
<1>6. StreamInv
  BY DEF Init, StreamInv, Page
<1> QED BY <1>1, <1>2, <1>3, <1>4, <1>5, <1>6 DEF MirrorInv, MirrorTypes, FlightInv

\* A step that changes nothing.
LEMMA MirrorStutters ==
  ASSUME MirrorInv, UNCHANGED vars
  PROVE  MirrorInv'
<1>1. /\ UNCHANGED <<client, locked, authentication, prompt, next, silent, running, cmds, views,
                     out, page_epoch, pending, page, sleep_preparing>>
  BY DEF vars, publicVars, hostVars
<1>2. MirrorTypes'
  BY <1>1 DEF MirrorInv, MirrorTypes, ControllerTypes, QueueTypes, OutTypes, PageTypesOK
<1>3. FlightInv'
  BY <1>1 DEF MirrorInv, FlightInv, RegisterInv, OrderInv, AwaitInv, CurrentRequest, CurrentBatch,
              Alive
<1>4. StreamInv'
  BY <1>1 DEF MirrorInv, StreamInv, Streams, IsPublic, Watermark
<1> QED BY <1>2, <1>3, <1>4 DEF MirrorInv

\* The invariant of the mirror: nothing is in flight that the page does not expect, and what
\* waits for it leads from what it shows to the controller's public state.
THEOREM MirrorInvariant == Spec => []MirrorInv
<1>1. Init => MirrorInv
  BY MirrorAssumption, MirrorInit
<1>2. MirrorInv /\ [Next]_vars => MirrorInv'
  <2> SUFFICES ASSUME MirrorInv, [Next]_vars PROVE MirrorInv'
    OBVIOUS
  <2>1. CASE WorkerStep
    BY <2>1, MirrorAssumption, WorkerPreserves
  <2>2. CASE SleepSignal
    BY <2>2, MirrorAssumption, SleepSignalStep
  <2>3. CASE \E v \in Views : Poll(v) \/ PageStep(v)
    <3>1. PICK v \in Views : Poll(v) \/ PageStep(v)
      BY <2>3
    <3>2. HostSummary(v)
      BY <3>1, MirrorAssumption, TakesSummary, DroppedSummary, AddSummary, LoadSummary,
         RequestsSummary DEF Poll, PageStep
    <3> QED BY <3>2, MirrorAssumption, HostPreserves
  <2>4. CASE UNCHANGED vars
    BY <2>4, MirrorStutters
  <2> QED BY <2>1, <2>2, <2>3, <2>4 DEF Next
<1> QED BY <1>1, <1>2, PTL DEF Spec
-----------------------------------------------------------------------------
(* What follows from it.                                                   *)

\* The state is of its types, the queues within the capacities of the channels and the
\* sequence numbers within MAX_SAFE_INTEGER, whatever the capacities are.
THEOREM MirrorTypeCorrect == Spec => []TypeOK
<1>1. MirrorInv => TypeOK
  <2> SUFFICES ASSUME MirrorInv PROVE TypeOK
    OBVIOUS
  <2>1. ControllerTypes /\ QueueTypes /\ OutTypes /\ PageTypesOK
    BY DEF MirrorInv, MirrorTypes
  <2>2. authentication \in RestStates \ {"Disconnected"}
    BY <2>1, PublicStateType DEF ControllerTypes, Shown
  <2>3. \A v \in Views : page[v].phase \in Phases /\ page[v].last \in 0 .. MaxSequence
    BY <2>1 DEF PageTypesOK, PageTypes, SequenceNumbers
  <2> QED BY <2>1, <2>2, <2>3 DEF ControllerTypes, QueueTypes, OutTypes, PageTypesOK, TypeOK,
                                  SequenceNumbers
<1> QED BY <1>1, MirrorInvariant, PTL

\* A page that follows the controller received every event after its snapshot, once and in
\* the order of their sequence numbers (Client.#lastSequence, client.ts).
THEOREM NoEventIsMissed == Spec => []NoEventMissed
<1>1. MirrorInv => NoEventMissed
  BY DEF MirrorInv, StreamInv, NoEventMissed, Follows, Streams, Shows
<1> QED BY <1>1, MirrorInvariant, PTL

\* A page to which everything was delivered shows the controller's public state, unless the
\* last change published nothing (cancel_for_lifecycle).
THEOREM MirrorsConverge == Spec => []MirrorConverges
<1>1. MirrorInv => MirrorConverges
  <2> SUFFICES ASSUME MirrorInv, NEW v \in Views, Follows(v), out[v] = <<>>, ~silent
               PROVE  UpToDate(v)
    BY DEF MirrorConverges
  <2>1. Streams(<<>>, page[v]) /\ page[v].phase = "ready"
    BY DEF MirrorInv, StreamInv, Follows
  <2>2. PICK K \in [1 .. (Len(<<>>) + 1) -> Images] :
          Shows(page[v], K[1]) /\ IsPublic(K[Len(<<>>) + 1])
    BY <2>1, Zenon DEF Streams
  <2>3. Len(<<>>) + 1 = 1
    OBVIOUS
  <2>4. IsPublic(K[1])
    BY <2>2, <2>3
  <2> QED BY <2>1, <2>2, <2>4 DEF Shows, IsPublic, UpToDate
<1> QED BY <1>1, MirrorInvariant, PTL

\* While the controller runs, the reply that a page awaits is under way, unless its view was
\* dropped and its host is about to learn it.
THEOREM RepliesAreUnderWay == Spec => []ReplyUnderWay
<1>1. MirrorInv => ReplyUnderWay
  <2> SUFFICES ASSUME MirrorInv, NEW v \in Views, pending[v], running, v \in views
               PROVE  UnderWay(v)
    BY DEF ReplyUnderWay
  <2>1. AwaitInv(v)
    BY DEF MirrorInv, FlightInv
  <2>2. \/ \E i \in DOMAIN cmds : CurrentRequest(cmds[i], v)
        \/ \E i \in DOMAIN out[v] : CurrentBatch(out[v][i], v)
    BY <2>1 DEF AwaitInv
  <2> QED BY <2>2 DEF UnderWay, CurrentRequest, CurrentBatch, IsRequest
<1> QED BY <1>1, MirrorInvariant, PTL
=============================================================================
