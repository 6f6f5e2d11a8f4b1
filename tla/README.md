# Specifications of the OES website

These modules specify the parts of the repository whose correctness depends on
order, concurrency and failure. They are written in TLA+, checked with TLC on
small instances and, where a result should hold for every size, proved with
TLAPS.

## The system

A visitor's browser talks to a Flask application. The application decides by
policy what to answer and, for generated text, asks a language model that runs
on a private machine. That machine accepts no connections: a worker process on
it polls the application over HTTPS.

    visitor --> section-awareness.js, oes-core.js (one line of text, two writers)
            --> eyeball-observations.js (invitation)
            --> eyeball-chat.js (drawer)
                    | /api/chat
                    v
    application: routes --> Admission, ChatService
                                            | disconnect_aware (pump thread)
                                            v
                            OutboundWorkerProvider.stream
                                            |
                                       WorkerRelay   <-- poll, heartbeat, result -- OutboundWorker --> Ollama
                                       (one session,                                 (run thread,
                                        one job slot)                                 heartbeat thread)
                                                                                           |
    Core launcher: CoreController --- starts, stops, watches the worker --------------- TelemetryStore

### Inventory

| Component | State | Operations | What is hard | What makes it correct |
| --- | --- | --- | --- | --- |
| WorkerRelay, `chat/worker_relay.py` | session (lease), job slot, waiting poll, epoch | connect, poll, heartbeat, result, stream, status, expiry | requests delayed, repeated, from dead workers; expiry inside any call; a generator that ends in a later stay in the lock | one lease, one job, exact busy marker, ordered and complete delivery, every stream ends |
| TelemetryBuffer, same file, `oes_telemetry.py` | bounded queue of events | emit, batch, acknowledge | overflow against delivery in progress | at least once or counted as lost |
| Request authentication, same file | nonce cache | authenticate | clock, capacity, restart | a request is accepted once |
| OutboundWorker, `worker/client.py` | owner, job, ready, cancelled event | probe, connect, poll, infer, send, heartbeat | two threads, calls that time out while still under way | a job is inferred once, its text is neither doubled nor torn, the worker finds back |
| Worker control, `worker/__main__.py` | stop event | STOP | | orderly end |
| Worker protocol, `chat/worker_protocol.py` | none | canonical form, signature, validation | texts | pure functions |
| Outbound provider, `chat/outbound_provider.py` | cancelled event, pump queue | stream, cancel, disconnect_aware | consumer leaves while the pump works | no slot reused early |
| Admission, `chat/runtime.py` | clients, windows, active slots | request_allowed, acquire, release | eviction against windows, double release | no window exceeded, slots balance |
| ChatService, `chat/service.py` | one request's attempts | stream | second attempt fails after a safe first | one terminal event, only validated text |
| Routes, `chat/routes.py`, `app.py` | none | chat, invitation, health | release on every path | |
| Providers, `chat/providers.py` | none | stream | deadline against trickled lines | |
| Lookup continuity, `chat/capabilities.py` | tokens | issue, consume | single use, lifetime, capacity | a token works once |
| Clarification, `chat/clarification.py` | tokens | issue, consume | oldest evicted, clock before lock | a token works once |
| Observations, initiative, situation, policy, localisation | none | decisions on texts | | pure functions |
| Product intelligence, `product_intelligence.py` | anonymous sessions | open, record | capacity, duplicates | a session starts once |
| Telemetry store, `oes_core_launcher/telemetry.py` | SQLite tables | insert, record, report | repeated delivery | insertion is idempotent |
| CoreController, `oes_core_launcher/controller.py` | process, status | start, stop, restart, watch | watch threads act outside the lock; a worker that does not stop | every command returns, no worker is left running |
| Launcher shell | operating system objects | | | |
| Browser chat, `static/js/eyeball-chat.js` | active request, continuation, clarification, history | submit, stop, close, choose, read | awaits, aborts, a timeout, late chunks | a superseded request changes nothing, a token is used for what it was given for |
| Browser observations, `static/js/eyeball-observations.js` | section, product, signals, visits, one timer, one evaluation | visit, interact, open, dismiss, evaluate | two awaits before an invitation is shown | an invitation is permitted and about what the visitor does now |
| Browser attention, `static/js/section-awareness.js`, `static/js/oes-core.js` | section, two interests, eight timers, one line of text | scroll, hover, focus, click, drag, timers | two controllers write one line | it comes to rest on the truth |
| Rendering in the browser, native renderer | geometry | | | |

Components interact by direct calls inside the application (chat service, provider
and relay share one process and the relay's condition variable), by signed HTTPS
requests between worker and relay, by standard input and error between controller
and worker, and by server-sent events to the browser. In the page they interact by
events on the document and by the calls `opened`, `sent` and `closed`.

## Modules

| Module | Of | Role |
| --- | --- | --- |
| `InferenceChannel` | what `stream()` promises its consumer | abstract specification |
| `Relay` | `chat/worker_relay.py`, cancel of `chat/outbound_provider.py` | detailed specification; implements `InferenceChannel` |
| `RelayProofs` | | theorems about `Relay` |
| `OutboundWorker` | `worker/client.py` | the worker's two threads |
| `RelayWorker` | network between the two | composition; implements `Relay` |
| `RelayWorkerProofs` | | theorems about the composition; extends `RelayProofs` |
| `SlotPool` | what admission promises about concurrency | abstract specification |
| `Admission` | `chat/runtime.py` | detailed specification; implements `SlotPool` |
| `ReplyStream` | `chat()` of `chat/routes.py`, `disconnect_aware` of `chat/outbound_provider.py` | the two threads of a reply, over `SlotPool` |
| `ReplyContract` | what `ChatService.stream` promises the routes | abstract specification |
| `ChatService` | `chat/service.py` | detailed specification; implements `ReplyContract` |
| `ReplyProofs` | | theorems about `ChatService` and `ReplyStream` |
| `TokenStore` | stores of `chat/clarification.py`, `chat/capabilities.py` | single-use tokens |
| `ServerProofs` | | theorems about `Admission`, `TokenStore` and `MCServer` |
| `Telemetry` | telemetry of `chat/worker_relay.py`, `worker/client.py`, `oes_core_launcher/telemetry.py` | an event's way from the website to the database |
| `CoreController` | `oes_core_launcher/controller.py` | commands and watch threads around one worker process |
| `ConsoleProofs` | | theorems about `Telemetry`, `CoreController` and `MCConsole` |
| `Observations` | `static/js/eyeball-observations.js` | session, evaluation, invitation |
| `ChatClient` | `static/js/eyeball-chat.js` and its two helpers | drawer and requests |
| `Attention` | `static/js/section-awareness.js`, `static/js/oes-core.js` | interests and the line under the Core |
| `ObservationsProofs`, `ChatClientProofs` | | theorems about `Observations`, about `ChatClient` |
| `BrowserProofs` | | theorems about `Attention` and `MCBrowser` |
| `MCServer` | `Admission`, `ReplyStream`, `ChatService`, `TokenStore` | instance for TLC |
| `MCBrowser` | `Observations`, `ChatClient`, `Attention` | instance for TLC |
| `MCConsole` | `Telemetry`, `CoreController` | instance for TLC |
| `MCRelay`, `MCRelayWorker`, `MCReplyStream`, `MCChoice`, `MCController` | one module each | instances for TLC |

The parts of `MCServer`, `MCBrowser` and `MCConsole` meet only in what they promise each
other, which is stated and checked on its own: `SlotPool` stands for `Admission` in `ReplyStream`,
`ReplyContract` for `ChatService`; the calls `opened`, `sent`, `closed` and the section
come in every order in `Observations`; `WorkerRestart` is all `Telemetry` knows of the launcher. So
these instances are sums: a behaviour chooses one part and runs it, and one run
answers for all. Clients, calls and commands that differ only in their names are taken in the order of
their numbers (`InTurn`), which is sound with the liveness properties where a `SYMMETRY` is not.

### Relay

One action is one stay inside `with self.cv`. `_expire`, which every operation
calls first, is not an action of its own followed by the operation: the operators
`Alive` and `JobNow` are the session and the job after it, and every action
starts from them. The `Expire` action alone is `status()`, `health_model()` and every
request that fails in `_owner`.

| Code | Action |
| --- | --- |
| `dispatch` connect | `ConnectNew`, `ConnectAgain` |
| `dispatch` poll | `PollBusy`, `PollClaim`, `PollWait` |
| the loop of a waiting poll | `WakeObsolete`, `WakeClaim`, `WakeEmpty`, `WakeWait` |
| `dispatch` heartbeat | `Heartbeat` with `Active`, `Clears`, `Stops` for its three conditions |
| `dispatch` result | `ResultObsolete`, `ResultTooLong`, `ResultFull`, `ResultAccept` |
| `stream` admission | `StreamOpen`, `StreamRefuse` |
| `stream` loop | `StreamFail`, `StreamTake`, then `StreamResume` or `StreamAbandon` at a yield |
| `stream` finally | `StreamClose` |
| `OutboundWorkerProvider.cancel` | `Cancel` |
| the clock | `LeaseElapse`, `JobDue` |
| a new process | `Restart` |

The environment is open: any owner triple ever issued may make any request at any
time, with any job, sequence number and readiness. That is more than worker and
network do, so what holds here holds whatever they do. A text is its length.
A result is whatever passes the relay's own
check of it (`Results`): an error has no text and is the last, and anything else may have text
or none, though no worker of this repository sends a result that has none and is not the last.
`accepted` and `taken` are histories: the events accepted for a request and
the events its stream has popped, forgotten when the request fails. `Job.lease` is
a history too, the lease under which the job was dispatched.

`TypeOK` is the type invariant. `JobHasOwner`, `BusyMarker`, `OneStream`, `InOrder`,
`Complete` are safety invariants, `LeaseKept` an action property, `ChannelSpec` the
refinement of `InferenceChannel`, `StreamEnds` the liveness property.

### OutboundWorker and RelayWorker

`OutboundWorker` follows the run thread from call to call. `run.at` is where it stands:
`top` (probe and read of the owner), `connect`, `legacy` (the second, compatible
connect), `poll`, `infer`, `generating`, `sending`, `finished`, `giveUp` and `lastBeat` (the
last heartbeat after a failed inference), `reset`, `clear`. The heartbeat thread is
`beat`: what it captured before it sent. Owners are compared by identity in the code
(`is`); here the identity is the field `made`. Ollama answers every prompt with the
sequence `Answer` and may fail before any part of it.

`RelayWorker` puts a call into the relay's hands (`Deliver`, `DeliverWaits`,
`WakeAndReply`), and lets things fail: `LoseCall` (call or answer lost), `OvertakeCall`
(the caller's 27 seconds are over and the call still arrives, as a ghost, at any time
or never), `WorkerCrash`, `RelayRestart`, `Elapse` (a lease runs out although somebody
could have renewed it) and the worker's own failures `RunFails`. Each kind can be
switched on by the constant `Faults`; `MaxFaults` bounds their number. `StreamRefuse`,
`StreamAbandon` and `Expire` are left to the run of `Relay` alone, where they occur.

### Admission and SlotPool

Each operation of `Admission` reads the clock and works under one lock, so each is one
action: `Allow` and `Deny` are `request_allowed`, `Acquire` and `Refuse` are `acquire`,
`Release` is the function `acquire` hands out. All begin with `_client`, which is
`Kept` (who is not forgotten), `HasRoom` (capacity) and `Entry` (the client's
windows without what is too old); a refused call still does this work (`Visit`).
A deque of time stamps is here the set of the calls that put them there, and
`calls`, a history, holds the stamp: stamps are read under the lock, so a deque is
sorted and popping its front removes exactly what is too old. `released` is the
flag each closure keeps.

`WindowsHold` speaks about that history and not about the deques: in no window that ever
ended were more calls counted than allowed, although clients are forgotten and come
back. `ActiveCounts` relates the counter to the calls that hold a slot. `SlotSpec`
is the refinement of `SlotPool`, where a slot is taken once and given back once.

### ReplyStream

`web[r]` is where the server's thread stands in `chat()`: admitted, response made, inside
`generate()` (`serving`), writing a frame, then `leaving`, `joining` and `closing`, the two
`finally` blocks. `pump[r]` is where the pump thread stands: in ChatService (`working`), in
the loop of `put` (`putting`, `waiting`), in `stream.close()` (`closing`). A request whose
provider is not the outbound worker has no pump; its frames are `InlineEvent`. ChatService is
reduced to `ReplyContract`: a start, then an error, or texts and the end, or a
clarification and the end. What it yields is chosen when it is pulled, so a call into it
takes any time. `provider.cancel()` has no effect of its own here; `Cancel` of `Relay`
is its effect, and without it ChatService only takes longer.

`Delivered` says that the browser gets what ChatService yielded, in order and to its end;
`NothingLeftBehind` that no thread stays behind a full queue and that each way out of a request
gives its slot back.

### ChatService and ReplyContract

`ReplyContract` is the grammar of the events and the promise that a terminal one comes unless the
consumer leaves. `ChatService` is `stream()`: `route` is the branch that answers, `stage` where
the generator stands.

| Code | Action |
| --- | --- |
| invalid clarification token | `InvalidChoice` |
| ambiguity, card | `AskBack`, `Clarify` |
| deterministic replies | `Fixed` |
| situation analysis, first event | `Begin` |
| public lookup and its limitation | `Lookup` |
| `fit_messages` | `Fit`, `FitFails` |
| `provider_candidate` | `Text`, `Complete`, `ReadFails` |
| review, correction, best safe candidate | `Accept`, `Retry`, `Exhaust` |
| `emit` | `Delta`, `Done` |
| `except`, `finally` | `Error`, `Leave` |

A candidate is how many pieces it came in, whether it fails a hard check and how many soft ones. A
generator can be closed where it is suspended and nowhere else: `atYield`. `AnswerStands` joins two
claims. What leaves is of one source, complete, and reviewed, although the ordinary route lets out
`last_chunks`, a variable that outlives an attempt (`lastChunks`); and the comment of the style route
("Style is a best-effort quality pass and can never make a completed safe response unavailable")
holds whatever befalls the second attempt: in the model, in fitting its longer prompt, or in review.
`ServiceIsContract` is the refinement.

### TokenStore

One module for both stores, since their difference is the point: `store` says which one a behaviour is
about. `_expire` is `Unexpired`: `ClarificationStore` scans from the oldest and stops at the first record
that is still good, `LookupContinuityStore` looks at all. At its capacity the first drops the oldest
(`DropOldest`), the second issues nothing (`IssueNone`). A thread reads the clock (`ReadClock`) and takes the
lock later (`Issue`, `Consume`), so times can arrive in the wrong order, and then the first record that is
good may hide one that is not. `HonouredInTime` says that this does no harm when the token's life is
counted from the moment it was put in; `GoneForAReason` and `HandedOut` that a token works until it was
used, is out of date or was displaced by newer ones, and never again. `TokensHold` is the three together.
The language a continuation was issued in only decides what a token that is taken out is answered with.

### Telemetry

The n-th emitted event is `{n}`, and a `telemetry_gap` is the set of the events it counts as lost, so
that nothing can be counted twice or forgotten unseen. `Emit` is the two loops of `emit`: a full buffer
gives up two, for the gap and for the event. A worker thread is in one call (`calls[t]`): asked, at the
relay, answered, stored; between the commit (`Insert`) and the assignment of `telemetry_ack` (`Stored`) the
other thread may come in between. `Refused` is a call with an owner of another life, `Lost` a call or
answer that does not arrive, `InsertFails` a transaction that fails.

`NothingSilent`: each emitted event is stored, waits, or is counted by a gap that is stored or waits,
unless a restarted relay forgot it. `StoredOnce`: nothing is acknowledged that is not in the
database, and nothing is counted twice. `Drains`: the two threads do not overwrite each other's
acknowledgements for ever.

### CoreController

`at[c]` is where a command's thread stands, `lock` who holds `self._lock`, `todo` the calls it has
still to make (a restart is a stop and a start, with the lock given up between). `watch[w]` is the
thread that watches worker w: it captures `self.process` (`WatchBegins`), leaves its loop
(`WatchEnds`), compares (`WatchCompares`) and clears (`WatchClears`), each a step of its own since it
holds no lock. `start` reads `self.process` and asks it whether it runs in two steps
(`StartLooks`, then `StartRefused` or `StartBegins`), between which a watch thread may clear it. The status is left out: nothing in the program reads it.

`StopIsFinal` says that a stop returns only when the process it took has ended or was killed, whatever
the watch threads clear meanwhile; `CommandsReturn` that every command returns.

### Observations, ChatClient, Attention

JavaScript runs a handler to its end, so one action is one handler, or the part of an asynchronous
one between two awaits.

`Observations`: the page's events (`SectionChange`, `VisibilityChange`, `ObserveProduct`,
`OpenedDetails`, `InvitationDismiss`, `Opened`, `Sent`, `Closed`) change the session and call `Schedule`
or `Cancel`; `Evaluate` is the timer, `Decided`, `Worded` and `Failed` are what follows each await of
`evaluate()`. `Tick` is a second. An aborted or overtaken evaluation goes on until its answer, and
`StillWanted` is the condition under which it may still show something.

`ChatClient`: `requests[r]` is the coroutine of the r-th submit. `Send` is the handler up to `fetch`, then
`Response`, `Delta`, `Clarification`, `Done`, `Broken` and `Timeout`; `Stale` and `StaleChunk` are the
early returns of a request that is no longer the active one, `Finish` is the `finally` clause. `Select` is the
choice of a card, which submits from a timer (`SubmitTimer`). `Stop` aborts, and so does the close event
(`CloseEvent`), which the browser queues when the drawer closes (`CloseDrawer`): a timer or an answer may come
in between, the visitor's next click may not.

`Attention`: what the pointer and the focus do, what the awareness module makes of it
(`currentInterest`, its message with a delay, a reset), what the Core makes of the events it
is sent (`activeInterest`, writes 90 ms later that nothing cancels, a restoring timer, a release timer,
two engagement messages, an activation), and the one line `text` both write. Any timer that is set may
be the next to fire. An interest is one both tables list, each with a message; of a card that stands for
none of them only the loss of the focus matters (`FocusOut`). `LineIsTrue` says where the line comes to rest; `InterestIsHeld` that no interest
is left without something to end it; `Settles` that the two do not answer each other for ever.

## Runs

| Run | Question | Bounds |
| --- | --- | --- |
| `relay` | Is delivery right whatever its clients do? | 2 requests, 1 lease, texts of length 0 or 1, 1 in all, 3 results of a job, queue of 2 |
| `leases` | Is ownership right whatever its clients do? | 2 requests, 2 workers with 2 leases each, 1 restart, no text in all, 2 results of a job, queue of 1 |
| `late_calls` | Is a job inferred twice because a call was late? | 2 requests, 1 fault of kinds late, elapse; answers of one result |
| `worker_faults` | Does the worker use the relay as `Relay` assumes, and does the relay hold what Ollama said? | 1 request, 2 workers, answers of two results through a queue of one, 1 fault of kinds late, crash, model, restart |
| `recovery` | Does everything end and recover? | 1 request, 1 fault of kinds lost, crash, restart, liveness under fairness |
| `early_reassign` | May work be reassigned while the old inference runs? | 2 requests, no fault; violated |
| `server` | Do limits and slots hold, does a reply arrive whole, is only reviewed text let out, does everything end, does a token work once and in its time? | admission: 3 clients with room for 2, 4 calls, windows of 1 and 2 ticks, 2 ticks; replies: 1 request with and 1 without a pump, 1 slot, queue of 1, replies of up to 4 events; service: 3 pieces, 2 soft failures; tokens: 2 threads, 3 tokens with room for 2, a life of 2 ticks, 2 ticks; liveness under fairness |
| `browser` | Are superseded requests silent, invitations true, and does the line tell the truth? | observations: 2 sections, 2 products, 1 unsettled evaluation; drawer: 3 messages, one answered with a card, a history of 2 exchanges; attention: 2 sections, 1 interest; liveness under fairness |
| `console` | Is telemetry stored once or counted as lost, does every command return, and a stop not before its process has ended or was killed? | buffer of 2, batch of 1, 4 events, 1 fault, 1 restart; 3 commands, 2 workers; liveness under fairness |
| `slot_held` | Is a slot held until ChatService has been closed? | as the replies of `server`; violated |
| `choice_label` | Does a card's token go out with the card's label? | 2 messages; violated |
| `close_orphans` | Is no worker left running when the launcher has closed? | 2 commands, 1 worker; violated |

Why the bounds are enough: the relay has one slot, one session and one poll, so two
requests and two owners show every pairing of an old and a new one; a queue of
two, three results and one character in all show full, not full and too long; two leases show a stale and
a current one. Faults are one at a time because each alone already reaches the
recovery paths. Three clients with room for two fill the map and bring a forgotten client back; four calls
exceed each limit of one, two and three; the limits differ so that each is the one that
refuses in some state. A queue of one and a reply of four events make the pump wait twice,
and requests meet only at the slot, so one slot and two requests suffice. The theorems
below remove the bounds from every safety property.

Tokens: the third token finds the store full, a life of two ends within the two ticks, two threads are one that
is late and one that is not. Service: three pieces tell the chunks of two attempts apart, two soft failures order two candidates.
Telemetry: the third event into a buffer of two makes a gap, the fourth a gap that counts a gap; a batch of
one leaves events behind. Controller: three commands are one that holds the lock and two that wait for it
or follow each other, and two workers are an old one whose watch thread is still about and a new one.
Observations: the shorter threshold, the longer one and the moments before each differ; a section can be
left and entered again at once or after the time that makes a new visit, and an offer can be followed by
another. Drawer: three messages are one with a card, one that is superseded and the next one. Attention: one interest and two sections show every disagreement between
what is left and what is current.

Larger instances were run once, without an error: `Observations` with two unsettled evaluations (four
minutes), `Attention` with two interests (473,940 states), admission with windows of 2 and 3 and three ticks
(553,743 states), `Telemetry` with a buffer of three, batches of two and five events
(1,269,318 states with the controller), `TokenStore` with four tokens and three ticks (147,423 states).

Deadlock is not checked: requests are used up and the system then rests.

Fairness. `FairSpec` and `AllFairSpec` ask only for what the code's scheduling gives: a
thread that can take a step takes it, a call under way is handled or fails, a waiting
poll wakes (its wait is at most a second at a time and ten in all), the deadline
of a job comes, and a lease nobody renews runs out. Nothing is assumed about faults,
about late calls, about consumers, or about a crashed worker being started again.

In `ReplyStream` each thread that can take a step takes it, a call into ChatService comes back
(that is `StreamEnds` of `Relay` for the worker, and a timeout for the lookup), and a frame is
written or its write fails. Whether the browser stays is left open.

In `ChatService` the generator is asked for its next event or closed, and a call it makes returns
(the deadline of a job, the timeout of the lookup). In the page, time passes and a timer that is set
fires: JavaScript's timers do. No fetch is assumed to return: only the timeout of the request makes it end
(`RequestEnds`). In `Telemetry` both threads loop, the relay answers, and faults are bounded in number; nothing is
assumed about the order of the two threads. In `CoreController` each thread runs and gets the lock in the
end, and a killed process dies; a worker that is only asked or terminated may go on for ever.

`early_reassign` shows a disagreement between `chat/OUTBOUND_WORKER.md` (lines 132 to 134)
and the code. A heartbeat is read before a job is taken and handled after that job's
stream was cancelled and closed: it reports no job, the slot is empty, so the marker is
cleared and the next request is dispatched to a worker that still generates
for the old one. The new job then waits until the worker polls again. `NoEarlyReassign` asks no more
than the document: the job was cancelled, no terminal result of it has been sent, the worker
has not been told to stop, and no heartbeat about the job, which might tell it, is under way (`Inferring`). With a
heartbeat branch in which the absence of a job clears nothing, the property holds: that was checked once for this
run's instance (127 thousand states) and for one with answers of two results and two leases (251 thousand).

`slot_held` shows a disagreement between `chat/README.md` (line 234: a slot is "held through
retries and streaming cleanup") and the code. `disconnect_aware` joins its pump for one second
and `generate()` then releases the slot. A pump in a public lookup, which has a timeout of
eight seconds and does not hear the cancellation, is still in ChatService then. The limit
of concurrent generations can so be exceeded by requests nobody reads any more; the
counter itself stays exact (`ActiveCounts`).

`choice_label` shows an error of `eyeball-chat.js`. A chosen card sets `pendingClarification` and submits its
label. If a request is active the submit is refused, and if the message is stopped or fails before
its headers the assignment that clears the token is not reached. The token then goes out with the next
message the visitor types, and the server, which trusts the token and not the text, answers the card.

`close_orphans` shows a disagreement between `oes_core_launcher/README.md` (lines 21 to 23) and the code.
`close()` wakes the watch threads before it stops the worker; a watch thread then clears
`self.process`, and if it comes before `stop()` reads it, the worker is never asked to stop and
outlives the launcher. That is a matter of microseconds, or of half a minute when `close()` waits for a
`start` that waits for Ollama under the lock.

## Proofs

Each theorem holds for every value of the constants that the named assumption of its module
admits: bounds are positive (or natural numbers, where zero means that nothing happens), `None` and
`Nobody` are none of the values they stand beside, and `AnswerAssumption` of `RelayWorker` says
of what Ollama answers that it ends with the part that is marked as the last, and only that, and that
its parts can be numbered up to `MaxResults`, the number up to which the environment of `Relay` counts.
Every safety property a passing run checks is stated by a theorem.

| Module | Theorem | States |
| --- | --- | --- |
| `RelayProofs` | `Typed` | `TypeOK` |
| | `JobsHaveOwners`, `MarkerIsExact`, `StreamsAreExclusive` | `JobHasOwner`, `BusyMarker`, `OneStream` |
| | `DeliveryIsInOrder`, `AnswersAreComplete` | `InOrder`, `Complete` |
| | `LeasesAreKept` | `LeaseKept` |
| | `RelayImplementsChannel` | `Relay` implements `InferenceChannel` |
| `RelayWorkerProofs` | `NetworkIsEnvironment` | the composition implements `Relay` |
| | `InferredAtMostOnce` | `InferredOnce` |
| | `AnswerNeverTorn` | `AnswerKept` |
| `ServerProofs` | `AdmissionTyped`, `LimitsHold`, `SlotsBalance` | `TypeOK`, `WindowsHold`, `ActiveCounts` |
| | `AdmissionImplementsSlots` | `Admission` implements `SlotPool` |
| | `TokenTyped`, `TokensAreKept` | `TokenTypeOK`, `TokensHold` |
| | `ServerTyped` | `PartsTypeOK` of `MCServer` |
| `ReplyProofs` | `ServiceTyped`, `AnswersStand` | `ServiceTypeOK`, `AnswerStands` |
| | `ServiceKeepsContract` | `ChatService` implements `ReplyContract`, without its liveness |
| | `ReplyTyped`, `RepliesDelivered` | `ReplyTypeOK`, `Delivered` |
| | `RepliesUseSlots` | `ReplyStream` implements `SlotPool` |
| `ChatClientProofs` | `ChatTyped`, `ButtonsMatch`, `ContinuationUsedOnce` | `ChatTypeOK`, `BusyMatches`, `ContinuationFresh` |
| | `HistoryTrue`, `SupersededIsSilent` | `HistoryFaithful`, `NoLateWrites` |
| `ObservationsProofs` | `ObsTyped`, `InvitationPermitted`, `InvitationUpToDate` | `ObsTypeOK`, `InvitationStands`, `InvitationMatches` |
| `BrowserProofs` | `AttTyped`, `InterestHeld`, `LineTold` | `AttTypeOK`, `InterestIsHeld`, `LineIsTrue` |
| | `BrowserTyped` | `TypeOK` of `MCBrowser` |
| `ConsoleProofs` | `TelemetryTyped`, `PersistedFirst`, `NoSilentLoss` | `TelemetryTypeOK`, `StoredOnce`, `NothingSilent` |
| | `CoreTyped`, `StopsEnd` | `CoreTypeOK`, `StopIsFinal` |
| | `ConsoleTyped` | `PartsTypeOK` of `MCConsole` |

How the arguments go:

*Relay.* Three layers. `TypeOK` is inductive alone. `Owning`
is the conjunction of the three ownership invariants; they need each other: a
heartbeat that clears the marker is harmless only because a live job belongs to this
session and its marker is exact. `Delivering` adds to `InOrder` and `Complete` the parts
`TerminalLast` (only the last accepted event is terminal, and `job.done` says so) and
`StageMatches` (a generator past its last event has read all of a successful answer):
without them a stream could be thought finished with events outstanding. The refinement
maps the stages of a generator to the four states of a channel; expiry, leases and polls
become stuttering, and acceptance, taking, closing become send, receive, finish
or fail.

*The composition.* A call that reaches the relay is a step `Relay` allows its environment only if
its content is: the lease it names was issued (`Honest`), and a result is one the relay would look at, with a
number no answer exceeds. That holds of a result a worker has given up as well, which may
still arrive: `PartOfAnswer` says which part of the answer every result is. `Calling` is `Honest` for calls with and
without a caller, `Working` says which call the run thread waits for at each of its stages.
With the relay's own invariant, which holds because every step is one of `Relay`'s, these are inductive,
and `NetworkIsEnvironment` follows. `InferredOnce` needs `Once`: what the relay has still to
give out was neither inferred nor handed over, and what was handed over was not inferred. A poll whose caller
has gone hands its job to nobody: that job stays claimed and is never inferred.
`AnswerKept` follows from `PartOfAnswer` too, since the relay accepts numbers in order.

*Admission.* The invariant behind `LimitsHold` is `Remembered`: a call still in a window of its kind is in
the deque of its client's entry, and a client without an entry has made no call for
the longest window. That is the reason why forgetting a client forgives nothing; it needs
`Past`, that stamps are never later than the clock. From it, the deque a new call is
measured against contains the calls of every window the new call falls into. Calls may be infinitely many.

*Tokens.* `Punctual` (no thread has a time from the future) and `InOrderOfEntry`
(later tokens were put in later, whatever their expiry).

*Chat service.* `BestIsBest` (`best` is the best of the safe candidates seen), `SourceIsSafe` (what is let
out is safe), `Progress` (the number of candidates reviewed follows from attempt and stage) and
`Endings` (the stage determines which event was the last); `ChunksAreCurrent` (`last_chunks` are of the attempt
under review). Without `Endings`
the refinement fails: nothing else excludes a text after a card.

*Replies.* `Flow`: what the browser has, what is under way in the pump's hand and in the queue, and what the service
yielded agree, and the sentinel is the last of it; once the stop flag is set only the browser's prefix is kept. `ThreadsMeet`
says how far the two threads can be apart, `SlotHeld` that a request between its admission and its end
holds its slot. Without the pump the frames are the events (`InlineOK`).

*The page.* In `ChatClient`, `Numbered` (exactly the submits so far have begun, and the active one is the last)
and `Issued` (only a request that has ended is complete, and a continuation is the last one's). In
`Observations`, `RunsMatch` (an evaluation whose revision is still the session's is about the present
section and product). In `Attention` the types suffice for `InterestIsHeld`; `LineIsTrue` needs
`SaidIsCurrent` (the message awareness is about to write is about its present interest) and `LastIsTrue`, which speaks of
the last of the texts on their way, so that any number of them may be.

*Telemetry.* `StoredOnce` and `NothingSilent` are inductive with the types. What `acknowledge()` leaves of
the buffer is the result of a loop; it is a recursive function, and what it returns is
proved by induction on its argument, stated with the least number at which the claim fails.

*Controller.* `Locked` (the command inside a call is the one that holds the lock), `CallsLeft` (the calls a command
has still to make, and that one which only stops has taken no process before it is inside) and
`Owned` (`self.process` and the process a stop works on were started and not killed). That the watch threads
clear `self.process` without the lock disturbs none of it: a stop works on what it took.

The composed instances need nothing beyond the invariants of their parts, since each step is one part's. The types of
the page's parts are only proved (`BrowserTyped`), those of the other parts are also checked by a run.

Only model-checked, because liveness is outside the prover's reach: `StreamEnds`, `BusyEnds`, `Recovers`,
`NothingLeftBehind`, `QualifiedIsAsked`, `RequestEnds`, `Settles`, `Drains`, `CommandsReturn` and the second half of
`ServiceIsContract`.

## Plan

Done: relay, worker, their composition, admission, replies, chat service, tokens, telemetry, controller, the
page's three parts. Left, in this order:

1. The nonces of request authentication.
2. Product intelligence sessions.
3. Further theorems about the composition of relay and worker, as action properties: what a worker
   that lost its lease may still change.

## Not modelled

Signatures and canonical JSON, the validation of message fields, prompts and heuristics
on text, the parsing of model output, rendering in browser and native renderer, the
Windows launcher shell. These are pure functions, cryptography or input and output; they
have no interleavings for a model to explore. Configuration is fixed (`live()` is true).
The list in `PROJECT.json` gives the reason for each component.

More than four fifths of the repository's lines of script are a vendored copy of Three.js
(`static/js/three/`, 79,617 lines) and most of the rest draws: geometry, gaze, scenes. The share of all lines
that the modules account for is therefore small and stays so; of the files that decide
something (`chat/`, `worker/`, `oes_core_launcher/controller.py`, `eyeball-chat.js`,
`eyeball-observations.js`, `section-awareness.js`) they account for most of the control.
