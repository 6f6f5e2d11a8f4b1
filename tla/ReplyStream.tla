---------------------------- MODULE ReplyStream ----------------------------
(***************************************************************************)
(* How a reply gets from ChatService to the browser (chat() of             *)
(* chat/routes.py and disconnect_aware of chat/outbound_provider.py): the  *)
(* server's thread asks generate() for frames; if the provider is the      *)
(* outbound worker, a pump thread runs ChatService and hands its events    *)
(* over through a bounded queue; otherwise the server's thread runs it     *)
(* itself.  A slot of admission control is taken before and given back     *)
(* after.                                                                  *)
(*                                                                         *)
(* ChatService is here what ReplyContract says of it, which it implements. *)
(***************************************************************************)
EXTENDS Integers, Sequences, FiniteSets, SequencesExt

CONSTANTS
    Requests,
    Pumped,      \* requests served by OutboundWorkerProvider
    ReplySlots,  \* slots
    QueueSize,   \* 8 in the code
    MaxTexts     \* bound: texts of one reply

ASSUME ReplyAssumption ==
    /\ Pumped \subseteq Requests
    /\ ReplySlots \in Nat \ {0} /\ QueueSize \in Nat \ {0} /\ MaxTexts \in Nat \ {0}

VARIABLES
    held, past,  \* the slots (SlotPool.tla)
    web,         \* where the server's thread stands
    pump,        \* where the pump thread stands
    queue,       \* events, and at last the sentinel, between the two
    stop,        \* set when the server's thread leaves
    hand,        \* what the pump holds and has not queued
    yielded,     \* what ChatService has yielded
    sent,        \* what generate() has yielded, without the idle frames
    gone         \* history: the server closed the response early

Pool == INSTANCE SlotPool WITH Calls <- Requests, Size <- ReplySlots

slots == <<held, past>>
pipe  == <<queue, stop, hand>>
replyVars == <<slots, web, pump, pipe, yielded, sent, gone>>

Sentinel == <<"sentinel">>

ReplyInit ==
    /\ Pool!Init
    /\ web = [r \in Requests |-> "idle"] /\ pump = [r \in Requests |-> "none"]
    /\ queue = [r \in Requests |-> <<>>] /\ hand = [r \in Requests |-> <<>>]
    /\ stop = [r \in Requests |-> FALSE] /\ gone = [r \in Requests |-> FALSE]
    /\ yielded = [r \in Requests |-> <<>>] /\ sent = [r \in Requests |-> <<>>]

WebGoes(r, stage) == web' = [web EXCEPT ![r] = stage]
PumpGoes(r, stage) == pump' = [pump EXCEPT ![r] = stage]

----------------------------------------------------------------------------
(* ChatService.stream, as the contract it implements says.                  *)

\* Of the contract only what it says of sequences of events is used.
Chat   == INSTANCE ReplyContract WITH said <- yielded, left <- stop
Events == Chat!Events

Yields(r, e) == Chat!May(yielded[r], e) /\ yielded' = [yielded EXCEPT ![r] = Append(@, e)]
Exhausted(r) == Chat!Ended(yielded[r])

----------------------------------------------------------------------------
(* chat() and generate(), on the server's thread.                          *)

Admit(r) ==
    /\ web[r] = "idle"
    /\ Pool!Acquire(r)
    /\ WebGoes(r, "admitted")
    /\ UNCHANGED <<pump, pipe, yielded, sent, gone>>

\* release() is idempotent: closing the response may call it again.
GiveBack(r) == held' = held \ {r} /\ past' = past \cup {r}

\* The provider factory raises.
ProviderFails(r) ==
    /\ web[r] = "admitted"
    /\ GiveBack(r) /\ WebGoes(r, "over")
    /\ UNCHANGED <<pump, pipe, yielded, sent, gone>>

Respond(r) ==
    /\ web[r] = "admitted"
    /\ WebGoes(r, "response")
    /\ UNCHANGED <<slots, pump, pipe, yielded, sent, gone>>

\* A response closed before its first frame never enters generate().
CloseUnstarted(r) ==
    /\ web[r] = "response"
    /\ GiveBack(r) /\ WebGoes(r, "over")
    /\ UNCHANGED <<pump, pipe, yielded, sent, gone>>

Generate(r) ==
    /\ web[r] = "response"
    /\ WebGoes(r, "serving")
    /\ IF r \in Pumped THEN PumpGoes(r, "working") ELSE UNCHANGED pump
    /\ UNCHANGED <<slots, pipe, yielded, sent, gone>>

\* The next frame comes from ChatService itself.
InlineEvent(r) ==
    /\ web[r] = "serving" /\ r \notin Pumped
    /\ \E e \in Events : Yields(r, e) /\ sent' = [sent EXCEPT ![r] = Append(@, e)]
    /\ WebGoes(r, "writing")
    /\ UNCHANGED <<slots, pump, pipe, gone>>

InlineEnd(r) ==
    /\ web[r] = "serving" /\ r \notin Pumped /\ Exhausted(r)
    /\ WebGoes(r, "closing")
    /\ UNCHANGED <<slots, pump, pipe, yielded, sent, gone>>

\* events.get returns an event, or the sentinel.
TakeEvent(r) ==
    /\ web[r] = "serving" /\ queue[r] # <<>> /\ Head(queue[r]) \in Events
    /\ queue' = [queue EXCEPT ![r] = Tail(@)]
    /\ sent' = [sent EXCEPT ![r] = Append(@, Head(queue[r]))]
    /\ WebGoes(r, "writing")
    /\ UNCHANGED <<slots, pump, stop, hand, yielded, gone>>

TakeSentinel(r) ==
    /\ web[r] = "serving" /\ queue[r] # <<>> /\ Head(queue[r]) \notin Events
    /\ queue' = [queue EXCEPT ![r] = Tail(@)]
    /\ WebGoes(r, "leaving")
    /\ UNCHANGED <<slots, pump, stop, hand, yielded, sent, gone>>

\* Two seconds of silence: an empty start frame keeps the connection moving.
IdleFrame(r) ==
    /\ web[r] = "serving" /\ r \in Pumped /\ queue[r] = <<>>
    /\ WebGoes(r, "writing")
    /\ UNCHANGED <<slots, pump, pipe, yielded, sent, gone>>

\* The server has written the frame and asks for the next.
Written(r) ==
    /\ web[r] = "writing"
    /\ WebGoes(r, "serving")
    /\ UNCHANGED <<slots, pump, pipe, yielded, sent, gone>>

\* The write failed: the server closes the generators at their yield.
Disconnect(r) ==
    /\ web[r] = "writing"
    /\ gone' = [gone EXCEPT ![r] = TRUE]
    /\ WebGoes(r, IF r \in Pumped THEN "leaving" ELSE "closing")
    /\ UNCHANGED <<slots, pump, pipe, yielded, sent>>

\* The `finally' of disconnect_aware: stop.set(), provider.cancel() (Cancel of
\* Relay.tla: ChatService yields the sooner) and join(1).
StopPump(r) ==
    /\ web[r] = "leaving"
    /\ stop' = [stop EXCEPT ![r] = TRUE]
    /\ WebGoes(r, "joining")
    /\ UNCHANGED <<slots, pump, queue, hand, yielded, sent, gone>>

\* The pump has ended, or the second is over.
Join(r) ==
    /\ web[r] = "joining"
    /\ WebGoes(r, "closing")
    /\ UNCHANGED <<slots, pump, pipe, yielded, sent, gone>>

\* The `finally' of generate(): close what it iterated, then release.
GenerateEnds(r) ==
    /\ web[r] = "closing"
    /\ GiveBack(r) /\ WebGoes(r, "over")
    /\ UNCHANGED <<pump, pipe, yielded, sent, gone>>

----------------------------------------------------------------------------
(* pump(), on a thread of its own.                                         *)

\* The pump looks at `stop' when ChatService has yielded.
Pull(r) ==
    /\ pump[r] = "working"
    /\ \E e \in Events :
          /\ Yields(r, e)
          /\ IF stop[r] THEN PumpGoes(r, "closing") /\ UNCHANGED hand
                        ELSE PumpGoes(r, "putting") /\ hand' = [hand EXCEPT ![r] = <<e>>]
    /\ UNCHANGED <<slots, web, queue, stop, sent, gone>>

PullEnd(r) ==
    /\ pump[r] = "working" /\ Exhausted(r)
    /\ PumpGoes(r, "closing")
    /\ UNCHANGED <<slots, web, pipe, yielded, sent, gone>>

\* stream.close() runs what ChatService has left in its `finally'; the sentinel follows.
PumpCloses(r) ==
    /\ pump[r] = "closing"
    /\ PumpGoes(r, "putting") /\ hand' = [hand EXCEPT ![r] = Sentinel]
    /\ UNCHANGED <<slots, web, queue, stop, yielded, sent, gone>>

\* put() returns: to the loop, or to the end of the thread.
PutReturns(r) ==
    /\ PumpGoes(r, IF hand[r] = Sentinel THEN "over" ELSE "working")
    /\ hand' = [hand EXCEPT ![r] = <<>>]

\* The loop of put(): look at `stop', then wait a quarter of a second for room.
Offer(r) ==
    /\ pump[r] = "putting" /\ ~stop[r]
    /\ PumpGoes(r, "waiting")
    /\ UNCHANGED <<slots, web, pipe, yielded, sent, gone>>

Put(r) ==
    /\ pump[r] = "waiting" /\ Len(queue[r]) < QueueSize
    /\ queue' = [queue EXCEPT ![r] = @ \o hand[r]]
    /\ PutReturns(r)
    /\ UNCHANGED <<slots, web, stop, yielded, sent, gone>>

\* Mutant: an event that finds the queue full is dropped.
FullDrops(r) ==
    /\ pump[r] = "waiting" /\ Len(queue[r]) = QueueSize
    /\ PutReturns(r)
    /\ UNCHANGED <<slots, web, queue, stop, yielded, sent, gone>>

\* Mutant: put() waits for room however long it takes.
FullWaits(r) ==
    /\ pump[r] = "waiting" /\ Len(queue[r]) = QueueSize
    /\ UNCHANGED replyVars

Full(r) ==
    /\ pump[r] = "waiting" /\ Len(queue[r]) = QueueSize
    /\ PumpGoes(r, "putting")
    /\ UNCHANGED <<slots, web, pipe, yielded, sent, gone>>

\* put() returns without having put anything once `stop' is set.
GiveUp(r) ==
    /\ pump[r] = "putting" /\ stop[r]
    /\ PutReturns(r)
    /\ UNCHANGED <<slots, web, queue, stop, yielded, sent, gone>>

----------------------------------------------------------------------------
WebStep(r) ==
    \/ InlineEvent(r) \/ InlineEnd(r) \/ TakeEvent(r) \/ TakeSentinel(r) \/ IdleFrame(r)
    \/ StopPump(r) \/ Join(r) \/ GenerateEnds(r)

PumpStep(r) ==
    \/ Pull(r) \/ PullEnd(r) \/ PumpCloses(r)
    \/ Offer(r) \/ Put(r) \/ Full(r) \/ GiveUp(r)

ReplyNext == \E r \in Requests :
    \/ Admit(r) \/ ProviderFails(r) \/ Respond(r)
    \/ CloseUnstarted(r) \/ Generate(r)
    \/ Written(r) \/ Disconnect(r)
    \/ WebStep(r) \/ PumpStep(r)

ReplySpec == ReplyInit /\ [][ReplyNext]_replyVars

(* Both threads run: a call into ChatService comes back (its provider ends,  *)
(* StreamEnds of Relay.tla), and the server's thread takes its next step.    *)
(* The server writes or fails to, and iterates or closes, as it likes.       *)
ReplyFairness == \A r \in Requests :
    /\ WF_replyVars(PumpStep(r)) /\ WF_replyVars(WebStep(r))
    /\ WF_replyVars(ProviderFails(r) \/ Respond(r))
    /\ WF_replyVars(CloseUnstarted(r) \/ Generate(r))
    /\ WF_replyVars(Written(r) \/ Disconnect(r))

ReplyFairSpec == ReplySpec /\ ReplyFairness

----------------------------------------------------------------------------
WebStages == {"idle", "admitted", "response", "serving", "writing", "leaving",
              "joining", "closing", "over"}
PumpStages == {"none", "working", "putting", "waiting", "closing", "over"}

\* Values keep their types, and the queue its bound.
ReplyTypeOK ==
    /\ held \subseteq Requests /\ past \subseteq Requests
    /\ web \in [Requests -> WebStages] /\ pump \in [Requests -> PumpStages]
    /\ queue \in [Requests -> Seq(Events \cup {"sentinel"})]
    /\ hand \in [Requests -> Seq(Events \cup {"sentinel"})]
    /\ \A r \in Requests : Len(queue[r]) <= QueueSize
    /\ yielded \in [Requests -> Seq(Events)] /\ sent \in [Requests -> Seq(Events)]
    /\ stop \in [Requests -> BOOLEAN] /\ gone \in [Requests -> BOOLEAN]

\* What the browser gets is a beginning of what ChatService yielded, in order; and
\* until the server leaves, the rest is in the queue and the pump's hand, before the
\* sentinel: nothing lost and nothing twice, full queue or not (pump, put,
\* disconnect_aware).
FramesInOrder == \A r \in Requests :
    /\ IsPrefix(sent[r], yielded[r])
    /\ r \in Pumped /\ ~stop[r] =>
          sent[r] \o queue[r] \o hand[r] \in {yielded[r], yielded[r] \o Sentinel}

\* A reply that the server neither closed early nor left unstarted ends with
\* ChatService's own end or error (generate, disconnect_aware).
FramesComplete == \A r \in Requests :
    web[r] \in {"leaving", "joining", "closing"} /\ ~gone[r] =>
        Exhausted(r) /\ sent[r] = yielded[r]

\* The browser gets what ChatService yielded, through a full queue, silence and a slow
\* reader: in order, once, and to its end unless it leaves.
Delivered == FramesInOrder /\ FramesComplete

\* A request leaves nothing behind, however the response ends: finished, abandoned, never
\* started, or without a provider.  Its pump thread ends once its server thread has left,
\* even if nobody will ever take from its full queue again, and its slot is given back
\* (put, chat, generate).
NothingLeftBehind == \A r \in Requests :
    /\ stop[r] ~> pump[r] = "over"
    /\ r \in held ~> r \notin held

\* What chat/README.md says of a slot: it is held through retries and streaming
\* cleanup.  The join of disconnect_aware gives up after a second; the pump may
\* still be in ChatService (a public lookup takes up to eight) when generate()
\* releases the slot.
SlotHeldThroughCleanup == \A r \in Requests : pump[r] \in {"working", "closing"} => r \in held
=============================================================================
