----------------------------- MODULE Telemetry -----------------------------
(***************************************************************************)
(* The way of an event from the website to the console's database:         *)
(* TelemetryBuffer and the telemetry of WorkerRelay (chat/worker_relay.py),*)
(* _telemetry_response, _session_body and _clear_session of the worker     *)
(* (worker/client.py) and TelemetryStore.insert_events                     *)
(* (oes_core_launcher/telemetry.py).                                       *)
(*                                                                         *)
(* The n-th emitted event is {n}.  An event of type telemetry_gap is the   *)
(* set of the events it counts as lost: its value is their number (which   *)
(* stops at a million in the code), and it always counts two at least.     *)
(* Leases are Relay's matter: here a session lasts as long as the relay's  *)
(* life, and any call may fail.                                            *)
(***************************************************************************)
EXTENDS Naturals, Sequences, FiniteSets, Functions

CONSTANTS
    Capacity,      \* MAX_BUFFER_EVENTS, 512
    MaxBatch,      \* MAX_BATCH_EVENTS, 24
    MaxEvents,     \* bound: emitted events
    MaxFaults,     \* bound: lost calls and failed transactions
    MaxRestarts,   \* bound: restarts of the relay and of the worker
    None           \* null

ASSUME TelemetryAssumption ==
    /\ Capacity \in Nat /\ Capacity >= 2 /\ MaxBatch \in Nat \ {0}
    /\ {MaxEvents, MaxFaults, MaxRestarts} \subseteq Nat /\ None \notin Nat

Threads == {"run", "beat"}

VARIABLES
    emitted,         \* how many events there were
    buffer,          \* TelemetryBuffer.events
    life,            \* the relay's epoch, and with it the session it granted
    calls,           \* the call each worker thread is in
    owner,           \* the epoch of the worker's owner, or null
    telemetry_ack,   \* what the worker acknowledges with its next call
    store,           \* table events
    metrics,         \* daily_metrics: how often each event was counted
    forgotten,       \* events that a relay took with it
    faults, restarts

relay    == <<emitted, buffer, life, forgotten>>
worker   == <<calls, owner, telemetry_ack>>
database == <<store, metrics>>
bounds   == <<faults, restarts>>
vars     == <<relay, worker, database, bounds>>

Event == (SUBSET (1..MaxEvents)) \ {{}}

Call == [at: {"idle", "connect", "heartbeat", "poll", "waiting", "answered", "stored"},
         life: 0..MaxRestarts,
         current: BOOLEAN,       \* its owner is still the worker's
         connecting: BOOLEAN,
         events: SUBSET Event]   \* acknowledged by the request, then answered

Idle == [at |-> "idle", life |-> 0, current |-> FALSE, connecting |-> FALSE, events |-> {}]

TelemetryTypeOK ==
    /\ emitted \in 0..MaxEvents /\ life \in 0..MaxRestarts
    /\ buffer \in Seq(Event) /\ Len(buffer) <= Capacity
    /\ calls \in [Threads -> Call]
    /\ owner \in 0..MaxRestarts \cup {None}
    /\ {telemetry_ack, store} \subseteq SUBSET Event
    /\ DOMAIN metrics = store /\ \A x \in store: metrics[x] \in Nat
    /\ forgotten \subseteq 1..MaxEvents
    /\ faults \in 0..MaxFaults /\ restarts \in 0..MaxRestarts

TelemetryInit ==
    /\ emitted = 0 /\ buffer = <<>> /\ life = 0 /\ forgotten = {}
    /\ calls = [t \in Threads |-> Idle] /\ owner = None /\ telemetry_ack = {}
    /\ store = {} /\ metrics = [x \in {} |-> 0]
    /\ faults = 0 /\ restarts = 0

(***************************************************************************)
(* The relay.                                                              *)
(***************************************************************************)
Min2(m, n) == IF m < n THEN m ELSE n

\* The gap counts the event that made room for the new one, and not the one that made
\* room for the gap.
EmitShort ==
    /\ emitted < MaxEvents /\ emitted' = emitted + 1
    /\ buffer' = IF Len(buffer) < Capacity
                 THEN Append(buffer, {emitted + 1})
                 ELSE SubSeq(buffer, 3, Len(buffer)) \o <<buffer[1], {emitted + 1}>>
    /\ UNCHANGED <<life, forgotten, worker, database, bounds>>

\* No room is made for the gap.
EmitLong ==
    /\ emitted < MaxEvents /\ emitted' = emitted + 1
    /\ buffer' = IF Len(buffer) < Capacity
                 THEN Append(buffer, {emitted + 1})
                 ELSE Tail(buffer) \o <<buffer[1], {emitted + 1}>>
    /\ UNCHANGED <<life, forgotten, worker, database, bounds>>

\* emit(): a full buffer gives up its two oldest, for the gap and for the event.
Emit ==
    /\ emitted < MaxEvents /\ emitted' = emitted + 1
    /\ buffer' = IF Len(buffer) < Capacity
                 THEN Append(buffer, {emitted + 1})
                 ELSE SubSeq(buffer, 3, Len(buffer))
                          \o <<buffer[1] \cup buffer[2], {emitted + 1}>>
    /\ UNCHANGED <<life, forgotten, worker, database, bounds>>

\* acknowledge(event_ids): a new deque of those that are left.
Unacknowledged(events) ==
    LET left[n \in 0..Len(buffer)] ==
            IF n = 0 THEN <<>>
            ELSE IF buffer[n] \in events THEN left[n - 1] ELSE Append(left[n - 1], buffer[n])
    IN left[Len(buffer)]

\* batch() of a buffer
Batch(events) == Range(SubSeq(events, 1, Min2(MaxBatch, Len(events))))

Answer(t, events) ==
    calls' = [calls EXCEPT ![t].at = "answered", ![t].life = life, ![t].events = events]

ConnectAnswered(t) ==
    /\ calls[t].at = "connect"
    /\ Answer(t, Batch(buffer))
    /\ UNCHANGED <<relay, owner, telemetry_ack, database, bounds>>

HeartbeatAnswered(t) ==
    /\ calls[t].at = "heartbeat" /\ calls[t].life = life
    /\ buffer' = Unacknowledged(calls[t].events)
    /\ Answer(t, Batch(buffer'))
    /\ UNCHANGED <<emitted, life, forgotten, owner, telemetry_ack, database, bounds>>

\* A poll acknowledges when it arrives and is answered up to 25 s later, ...
PollArrives(t) ==
    /\ calls[t].at = "poll" /\ calls[t].life = life
    /\ buffer' = Unacknowledged(calls[t].events)
    /\ calls' = [calls EXCEPT ![t].at = "waiting", ![t].events = {}]
    /\ UNCHANGED <<emitted, life, forgotten, owner, telemetry_ack, database, bounds>>

\* ... empty, with events, or with a job, which leaves no room for them.
PollAnswered(t) ==
    /\ calls[t].at = "waiting" /\ calls[t].life = life
    /\ Answer(t, Batch(buffer)) \/ calls' = [calls EXCEPT ![t] = Idle]
    /\ UNCHANGED <<relay, owner, telemetry_ack, database, bounds>>

\* The buffer is in memory.
RelayRestart ==
    /\ restarts < MaxRestarts /\ restarts' = restarts + 1
    /\ life' = life + 1 /\ buffer' = <<>>
    /\ forgotten' = forgotten \cup UNION Range(buffer)
    /\ UNCHANGED <<emitted, worker, database, faults>>

(***************************************************************************)
(* The worker.                                                             *)
(***************************************************************************)
\* Only the run thread connects; a connect acknowledges nothing.
Connect ==
    /\ calls["run"].at = "idle" /\ owner = None
    /\ calls' = [calls EXCEPT !["run"] = [Idle EXCEPT !.at = "connect", !.connecting = TRUE]]
    /\ UNCHANGED <<relay, owner, telemetry_ack, database, bounds>>

\* Polls are the run thread's; a failed inference makes it send a heartbeat too.
Ask(t, what) ==
    /\ calls[t].at = "idle" /\ owner # None
    /\ what = "poll" => t = "run"
    /\ calls' = [calls EXCEPT ![t] = [Idle EXCEPT !.at = what, !.life = owner,
                                          !.current = TRUE, !.events = telemetry_ack]]
    /\ UNCHANGED <<relay, owner, telemetry_ack, database, bounds>>

\* The call raised: the heartbeat thread clears the owner it used, the run thread any.
Clear(t) ==
    LET clears == t = "run" \/ calls[t].current
    IN /\ owner' = IF clears THEN None ELSE owner
       /\ calls' = [u \in Threads |-> IF u = t THEN Idle
                                      ELSE [calls[u] EXCEPT !.current = @ /\ ~clears]]
       /\ UNCHANGED <<relay, telemetry_ack, database, restarts>>

\* An owner of another life.
Refused(t) ==
    /\ calls[t].at \in {"heartbeat", "poll", "waiting"} /\ calls[t].life # life
    /\ Clear(t)
    /\ UNCHANGED faults

\* Request or answer do not arrive, or not in time.
Lost(t) ==
    /\ calls[t].at \in {"connect", "heartbeat", "poll", "waiting", "answered"}
    /\ faults < MaxFaults /\ faults' = faults + 1
    /\ Clear(t)

\* The end of _telemetry_response; a connect goes on to set the owner.
Return(t, ack) ==
    /\ telemetry_ack' = ack
    /\ owner' = IF calls[t].connecting THEN calls[t].life ELSE owner
    /\ UNCHANGED <<relay, restarts>>

\* Only the identifiers that were new are returned.
InsertReportsNew(t) ==
    /\ calls[t].at = "answered"
    /\ calls' = [calls EXCEPT ![t].at = "stored", ![t].events = @ \ store]
    /\ store' = store \cup calls[t].events
    /\ metrics' = [x \in store' |-> IF x \in store THEN metrics[x] ELSE 1]
    /\ UNCHANGED <<relay, owner, telemetry_ack, bounds>>

\* insert_events: one transaction, which ignores the identifiers it has.
Insert(t) ==
    /\ calls[t].at = "answered"
    /\ calls' = [calls EXCEPT ![t].at = "stored"]
    /\ store' = store \cup calls[t].events
    /\ metrics' = [x \in store' |-> IF x \in store THEN metrics[x] ELSE 1]
    /\ UNCHANGED <<relay, owner, telemetry_ack, bounds>>

\* The assignment of its result, which the other thread may have overtaken.
Stored(t) ==
    /\ calls[t].at = "stored"
    /\ calls' = [calls EXCEPT ![t] = Idle]
    /\ Return(t, calls[t].events)
    /\ UNCHANGED <<database, faults>>

\* What was to be stored is acknowledged.
InsertFailsAcked(t) ==
    /\ calls[t].at = "answered"
    /\ faults < MaxFaults /\ faults' = faults + 1
    /\ calls' = [calls EXCEPT ![t] = Idle]
    /\ Return(t, calls[t].events)
    /\ UNCHANGED database

\* The transaction fails: nothing is acknowledged, and work goes on.
InsertFails(t) ==
    /\ calls[t].at = "answered"
    /\ faults < MaxFaults /\ faults' = faults + 1
    /\ calls' = [calls EXCEPT ![t] = Idle]
    /\ Return(t, {})
    /\ UNCHANGED database

\* OES Core starts a new worker process; the database stays.
WorkerRestart ==
    /\ restarts < MaxRestarts /\ restarts' = restarts + 1
    /\ calls' = [t \in Threads |-> Idle] /\ owner' = None /\ telemetry_ack' = {}
    /\ UNCHANGED <<relay, database, faults>>

Progress(t) ==
    \/ ConnectAnswered(t) \/ HeartbeatAnswered(t) \/ PollArrives(t) \/ PollAnswered(t)
    \/ Refused(t) \/ Insert(t) \/ Stored(t)

TelemetryNext ==
    \/ Emit \/ RelayRestart \/ WorkerRestart
    \/ Connect
    \/ \E t \in Threads: \/ Ask(t, "heartbeat") \/ Ask(t, "poll")
                         \/ Progress(t)
                         \/ Lost(t) \/ InsertFails(t)

\* Both threads loop, the relay answers, SQLite commits: bounded faults aside.
TelemetryFairness ==
    /\ WF_vars(Connect)
    /\ \A t \in Threads: WF_vars(Progress(t))
    /\ WF_vars(Ask("run", "poll")) /\ WF_vars(Ask("beat", "heartbeat"))

TelemetrySpec == TelemetryInit /\ [][TelemetryNext]_vars /\ TelemetryFairness
----------------------------------------------------------------------------
(***************************************************************************)
(* Properties.                                                             *)
(***************************************************************************)
\* Nothing disappears silently: an emitted event is stored, or waits at the relay, or a
\* gap that is stored or waits counts it, unless a relay was restarted with it.
NothingSilent ==
    \A e \in 1..emitted:
        e \in forgotten \/ \E x \in store \cup Range(buffer): e \in x

\* Persist before acknowledging, and count once: whatever the worker acknowledges, from
\* either thread and after any overtaking, is in the database (_telemetry_response), and
\* an event delivered twice, because its acknowledgement was lost or overwritten, is
\* counted once (insert_events).
StoredOnce ==
    /\ telemetry_ack \subseteq store
    /\ \A t \in Threads:
           calls[t].at \in {"heartbeat", "poll", "stored"} => calls[t].events \subseteq store
    /\ \A x \in store: metrics[x] = 1

\* The two threads may overwrite each other's acknowledgement but do not do so for ever:
\* the buffer drains, and each event arrives or is reported.
Drains == []<>(buffer = <<>>)
=============================================================================
