------------------------------- MODULE Relay -------------------------------
(***************************************************************************)
(* The in-memory relay of chat/worker_relay.py: one worker session (a      *)
(* lease), one job slot, one long poll, and the generator that streams a   *)
(* job's events to the chat service.                                       *)
(*                                                                         *)
(* Every action is one stay inside "with self.cv".  The authenticated      *)
(* worker requests come from an open environment: any owner triple the     *)
(* relay ever issued may be used again at any time, in any order, which    *)
(* covers delayed, repeated and stale requests of a living or dead worker. *)
(*                                                                         *)
(* Time is the passing of the two deadlines: `elapsed' says the clock has  *)
(* reached session['expires'], `due' that it has reached job['deadline'].  *)
(* A text is its length.  live() is TRUE: the configuration is fixed.      *)
(***************************************************************************)
EXTENDS Integers, Sequences

CONSTANTS
    Requests,   \* the calls of stream(), one job each; a job's id is its request
    Boots,      \* worker process incarnations (self.boot of the worker)
    None,       \* no session, no job, no poll, no marker
    MaxChunk,   \* longest text of one result (1024)
    MaxOutput,  \* MAX_OUTPUT
    MaxEvents,  \* undelivered events a job may hold (8)
    MaxResults, \* bound: the highest number a result may have
    MaxLease,   \* bound: leases issued
    MaxEpoch    \* bound: relay incarnations

VARIABLES
    session,    \* self.session
    job,        \* self.job
    polling,    \* the owner whose poll is waiting in dispatch, self.polling
    epoch,      \* self.epoch
    leases,     \* number of leases issued, the source of fresh lease tokens
    issued,     \* owner triples answered to connect
    pc,         \* where each call of stream() stands
    cancelled,  \* the provider's cancelled event of each call
    accepted,   \* history: events accepted for each request (of no failed one)
    taken       \* history: events the stream has popped (of no failed one)

vars == <<session, job, polling, epoch, leases, issued, pc, cancelled, accepted, taken>>

----------------------------------------------------------------------------
Owner   == [epoch : Nat, boot : Boots, lease : Nat]

Session == [boot : Boots, lease : Nat, elapsed : BOOLEAN, ready : BOOLEAN,
            job : Requests \cup {None}]

Event   == [text : 0..MaxChunk, done : BOOLEAN, error : BOOLEAN]

\* `lease' is a history field: the lease that held the session at dispatch.
Job     == [id : Requests, lease : Nat, due : BOOLEAN, claimed : BOOLEAN,
            error : BOOLEAN, done : BOOLEAN, seq : Nat, total : Nat,
            events : Seq(Event)]

\* A stream is open from the dispatch of its job to its `finally'.
Open    == {"reading", "text", "lastText", "done", "finishing", "failing"}
Ended   == {"finished", "failed", "refused"}
Stages  == Open \cup Ended \cup {"idle"}

ASSUME RelayAssumption ==
    /\ MaxChunk \in Nat \ {0} /\ MaxOutput \in Nat /\ MaxEvents \in Nat \ {0}
    /\ MaxResults \in Nat \ {0} /\ MaxLease \in Nat /\ MaxEpoch \in Nat
    /\ None \notin Requests /\ None \notin Session /\ None \notin Job /\ None \notin Owner

TypeOK ==
    /\ session \in Session \cup {None}
    /\ job \in Job \cup {None}
    /\ polling \in Owner \cup {None}
    /\ epoch \in Nat
    /\ leases \in Nat
    /\ issued \subseteq Owner
    /\ pc \in [Requests -> Stages]
    /\ cancelled \in [Requests -> BOOLEAN]
    /\ accepted \in [Requests -> Seq(Event)]
    /\ taken \in [Requests -> Seq(Event)]

----------------------------------------------------------------------------
(* _expire, which every operation calls first.                             *)

\* Mutant: the deadline of a session is not looked at.
AliveForever == session

Alive == IF session # None /\ session.elapsed THEN None ELSE session

\* Mutant: the job outlives its session.
JobNowOrphaned == IF job # None /\ job.due THEN [job EXCEPT !.error = TRUE] ELSE job

\* Mutant: the deadline of a job is not looked at.
JobNowUndated == IF job # None /\ Alive = None THEN [job EXCEPT !.error = TRUE] ELSE job

JobNow == IF job # None /\ (Alive = None \/ job.due)
          THEN [job EXCEPT !.error = TRUE] ELSE job

\* _owner accepts a request of b, and renews the lease.
Owns(b) == /\ Alive # None
           /\ b.epoch = epoch /\ b.boot = Alive.boot /\ b.lease = Alive.lease

Renewed == [Alive EXCEPT !.elapsed = FALSE]

\* Mutant: the marker is cleared like the flag self.polling.
IdleFalse(s) == [s EXCEPT !.job = FALSE]

Idle(s) == [s EXCEPT !.job = None]

\* Mutant: a claimed job is given out again.
ClaimableTwice == JobNow # None /\ ~JobNow.error

Claimable == JobNow # None /\ ~JobNow.error /\ ~JobNow.claimed

Histories == <<pc, cancelled, accepted, taken>>
Issuance  == <<epoch, leases, issued>>

----------------------------------------------------------------------------
Init ==
    /\ session = None /\ job = None /\ polling = None
    /\ epoch = 0 /\ leases = 0 /\ issued = {}
    /\ pc = [r \in Requests |-> "idle"]
    /\ cancelled = [r \in Requests |-> FALSE]
    /\ accepted = [r \in Requests |-> <<>>]
    /\ taken = [r \in Requests |-> <<>>]

\* status, health_model, and every request that fails in _owner.
Expire ==
    /\ session' = Alive /\ job' = JobNow
    /\ UNCHANGED <<polling, Issuance, Histories>>

Obsolete(b) == ~Owns(b) /\ Expire

\* Mutant: a new worker takes the lease over.
ConnectTakesOver(boot, ready) ==
    /\ leases < MaxLease
    /\ session' = [boot |-> boot, lease |-> leases + 1, elapsed |-> FALSE,
                   ready |-> ready, job |-> None]
    /\ job' = JobNow
    /\ leases' = leases + 1
    /\ issued' = issued \cup {[epoch |-> epoch, boot |-> boot, lease |-> leases + 1]}
    /\ UNCHANGED <<polling, epoch, Histories>>

ConnectNew(boot, ready) ==
    /\ Alive = None
    /\ leases < MaxLease
    /\ session' = [boot |-> boot, lease |-> leases + 1, elapsed |-> FALSE,
                   ready |-> ready, job |-> None]
    /\ job' = JobNow
    /\ leases' = leases + 1
    /\ issued' = issued \cup {[epoch |-> epoch, boot |-> boot, lease |-> leases + 1]}
    /\ UNCHANGED <<polling, epoch, Histories>>

\* The same boot connects again: the answer repeats the lease and renews nothing.
\* Another boot is refused.  Either way only _expire has changed anything.
ConnectAgain(boot) == Alive # None /\ Expire

\* A second poll fails after _owner has renewed the lease.
PollBusy(b) ==
    /\ Owns(b) /\ polling # None
    /\ session' = Renewed /\ job' = JobNow
    /\ UNCHANGED <<polling, Issuance, Histories>>

Claim(s) ==
    /\ Claimable
    /\ session' = [s EXCEPT !.job = JobNow.id]
    /\ job' = [JobNow EXCEPT !.claimed = TRUE]
    /\ polling' = None
    /\ UNCHANGED <<Issuance, Histories>>

\* A poll says that the worker has nothing left to do.
PollClaim(b) == Owns(b) /\ polling = None /\ Claim(Renewed)

PollWait(b) ==
    /\ Owns(b) /\ polling = None /\ ~Claimable
    /\ session' = IF JobNow = None THEN Idle(Renewed) ELSE Renewed
    /\ job' = JobNow
    /\ polling' = b
    /\ UNCHANGED <<Issuance, Histories>>

\* The waiting poll wakes: it is obsolete, it claims, its time is over, or it
\* waits on.  Each time round the loop it renews the lease.
WakeObsolete ==
    /\ polling # None /\ ~Owns(polling)
    /\ session' = Alive /\ job' = JobNow /\ polling' = None
    /\ UNCHANGED <<Issuance, Histories>>

WakeClaim == polling # None /\ Owns(polling) /\ Claim(Renewed)

WakeEmpty ==
    /\ polling # None /\ Owns(polling) /\ ~Claimable
    /\ session' = Renewed /\ job' = JobNow
    /\ polling' = None
    /\ UNCHANGED <<Issuance, Histories>>

WakeWait ==
    /\ polling # None /\ Owns(polling) /\ ~Claimable
    /\ session' = Renewed /\ job' = JobNow
    /\ UNCHANGED <<polling, Issuance, Histories>>

----------------------------------------------------------------------------
\* The heartbeat of b reports `running' (a job or None) and the model's readiness.
Active(j, running) == j # None /\ ~j.error /\ ~j.done /\ j.claimed /\ j.id = running

\* Mutant: a heartbeat without a job clears any marker.
ClearsAny(j, running) ==
    running = None \/ (j # None /\ j.id = running /\ (j.done \/ j.error))

Clears(j, running) ==
    \/ j # None /\ j.id = running /\ (j.done \/ j.error)
    \/ j = None /\ running = None

Stops(j, running, ready) == /\ ~ready /\ j # None
                            /\ ~j.done /\ ~j.error /\ j.id = running

Heartbeat(b, running, ready) ==
    /\ Owns(b)
    /\ session' = [Renewed EXCEPT !.ready = ready,
                                  !.job = IF Active(JobNow, running) THEN running
                                          ELSE IF Clears(JobNow, running) THEN None
                                          ELSE @]
    /\ job' = IF Stops(JobNow, running, ready)
              THEN [JobNow EXCEPT !.error = TRUE] ELSE JobNow
    /\ UNCHANGED <<polling, Issuance, Histories>>

----------------------------------------------------------------------------
\* The results dispatch lets in: text, even an empty one, the last text, or a failure.
Results == {e \in Event : e.error => e.text = 0 /\ e.done}

\* Mutant: results after the terminal one are let in.
ExpectedAfterEnd(r, seq) == /\ JobNow # None /\ ~JobNow.error /\ JobNow.claimed
                            /\ JobNow.id = r /\ JobNow.seq = seq

Expected(r, seq) ==
    /\ JobNow # None /\ ~JobNow.error /\ JobNow.claimed
    /\ JobNow.id = r /\ JobNow.seq = seq /\ ~JobNow.done

\* Mutant: the limit is looked at before the text is counted.
TooLongBefore(e) == JobNow.total > MaxOutput

TooLong(e) == JobNow.total + e.text > MaxOutput

ResultObsolete(b, r, seq) ==
    /\ Owns(b) /\ ~Expected(r, seq)
    /\ session' = Renewed /\ job' = JobNow
    /\ UNCHANGED <<polling, Issuance, Histories>>

ResultTooLong(b, r, seq, e) ==
    /\ Owns(b) /\ Expected(r, seq) /\ TooLong(e)
    /\ session' = Renewed
    /\ job' = [JobNow EXCEPT !.error = TRUE]
    /\ UNCHANGED <<polling, Issuance, Histories>>

\* Answered accepted: False; the worker sends the same result again.
ResultFull(b, r, seq, e) ==
    /\ Owns(b) /\ Expected(r, seq) /\ ~TooLong(e)
    /\ Len(JobNow.events) >= MaxEvents
    /\ session' = Renewed /\ job' = JobNow
    /\ UNCHANGED <<polling, Issuance, Histories>>

ResultAccept(b, r, seq, e) ==
    /\ Owns(b) /\ Expected(r, seq) /\ ~TooLong(e)
    /\ Len(JobNow.events) < MaxEvents
    /\ job' = [JobNow EXCEPT !.seq = @ + 1, !.total = @ + e.text,
                             !.events = Append(@, e), !.done = e.done]
    /\ session' = IF e.done THEN Idle(Renewed) ELSE Renewed
    /\ accepted' = [accepted EXCEPT ![r] = Append(@, e)]
    /\ UNCHANGED <<polling, Issuance, pc, cancelled, taken>>

----------------------------------------------------------------------------
(* stream(), a generator driven by its consumer.                           *)

\* Mutant: the job slot is not looked at.
AdmitsBusy(r) == /\ Alive # None /\ Alive.ready /\ Alive.job = None /\ ~cancelled[r]

Admits(r) ==
    /\ JobNow = None /\ Alive # None
    /\ Alive.ready /\ Alive.job = None /\ ~cancelled[r]

StreamOpen(r) ==
    /\ pc[r] = "idle" /\ Admits(r)
    /\ session' = Alive
    /\ job' = [id |-> r, lease |-> Alive.lease, due |-> FALSE, claimed |-> FALSE,
               error |-> FALSE, done |-> FALSE, seq |-> 0, total |-> 0, events |-> <<>>]
    /\ pc' = [pc EXCEPT ![r] = "reading"]
    /\ UNCHANGED <<polling, Issuance, cancelled, accepted, taken>>

StreamRefuse(r) ==
    /\ pc[r] = "idle" /\ ~Admits(r)
    /\ session' = Alive /\ job' = JobNow
    /\ pc' = [pc EXCEPT ![r] = "refused"]
    /\ UNCHANGED <<polling, Issuance, cancelled, accepted, taken>>

\* The generator keeps its job in a local variable, which OneStream shows to be
\* self.job for as long as it reads.
Mine(r) == job # None /\ job.id = r

StreamFail(r) ==
    /\ pc[r] = "reading" /\ Mine(r)
    /\ JobNow.error \/ cancelled[r]
    /\ session' = Alive /\ job' = JobNow
    /\ pc' = [pc EXCEPT ![r] = "failing"]
    /\ UNCHANGED <<polling, Issuance, cancelled, accepted, taken>>

\* Mutant: the error flag of a terminal event is not looked at.
AfterEventBlind(e) == CASE e.text > 0 /\ ~e.done -> "text"
                        [] e.text > 0 /\ e.done -> "lastText"
                        [] e.text = 0 /\ e.done -> "done"
                        [] e.text = 0 /\ ~e.done -> "reading"

\* What the generator does with a popped event: raise, yield its text, or
\* yield the end of the stream.
AfterEvent(e) == CASE e.error -> "failing"
                   [] ~e.error /\ e.text > 0 /\ ~e.done -> "text"
                   [] ~e.error /\ e.text > 0 /\ e.done -> "lastText"
                   [] ~e.error /\ e.text = 0 /\ e.done -> "done"
                   [] ~e.error /\ e.text = 0 /\ ~e.done -> "reading"

StreamTake(r) ==
    /\ pc[r] = "reading" /\ Mine(r)
    /\ ~JobNow.error /\ ~cancelled[r] /\ JobNow.events # <<>>
    /\ session' = Alive
    /\ job' = [JobNow EXCEPT !.events = Tail(@)]
    /\ pc' = [pc EXCEPT ![r] = AfterEvent(Head(job.events))]
    /\ taken' = [taken EXCEPT ![r] = Append(@, Head(job.events))]
    /\ UNCHANGED <<polling, Issuance, cancelled, accepted>>

\* The consumer asks for the next event.
StreamResume(r) ==
    /\ pc[r] \in {"text", "lastText", "done"}
    /\ pc' = [pc EXCEPT ![r] = CASE @ = "text" -> "reading"
                                 [] @ = "lastText" -> "done"
                                 [] @ = "done" -> "finishing"]
    /\ UNCHANGED <<session, job, polling, Issuance, cancelled, accepted, taken>>

\* The consumer closes the generator at a yield of text.
StreamAbandon(r) ==
    /\ pc[r] \in {"text", "lastText"}
    /\ pc' = [pc EXCEPT ![r] = "failing"]
    /\ UNCHANGED <<session, job, polling, Issuance, cancelled, accepted, taken>>

\* Mutant: the job stays in its slot.
StreamCloseLeaves(r) ==
    /\ pc[r] \in {"finishing", "failing"}
    /\ \/ /\ pc[r] = "finishing"
          /\ pc' = [pc EXCEPT ![r] = "finished"]
          /\ UNCHANGED <<accepted, taken>>
       \/ /\ pc[r] = "failing"
          /\ pc' = [pc EXCEPT ![r] = "failed"]
          /\ accepted' = [accepted EXCEPT ![r] = <<>>]
          /\ taken' = [taken EXCEPT ![r] = <<>>]
    /\ UNCHANGED <<session, job, polling, Issuance, cancelled>>

\* The generator's `finally', a later stay in the lock than the raise.
StreamClose(r) ==
    /\ pc[r] \in {"finishing", "failing"}
    /\ job' = IF Mine(r) THEN None ELSE job
    /\ \/ /\ pc[r] = "finishing"
          /\ pc' = [pc EXCEPT ![r] = "finished"]
          /\ UNCHANGED <<accepted, taken>>
       \/ /\ pc[r] = "failing"
          /\ pc' = [pc EXCEPT ![r] = "failed"]
          /\ accepted' = [accepted EXCEPT ![r] = <<>>]
          /\ taken' = [taken EXCEPT ![r] = <<>>]
    /\ UNCHANGED <<session, polling, Issuance, cancelled>>

\* OutboundWorkerProvider.cancel, at any time; once the stream has ended it
\* changes nothing any more.
Cancel(r) ==
    /\ ~cancelled[r] /\ pc[r] \notin Ended
    /\ cancelled' = [cancelled EXCEPT ![r] = TRUE]
    /\ UNCHANGED <<session, job, polling, Issuance, pc, accepted, taken>>

----------------------------------------------------------------------------
LeaseElapse ==
    /\ session # None /\ ~session.elapsed
    /\ session' = [session EXCEPT !.elapsed = TRUE]
    /\ UNCHANGED <<job, polling, Issuance, Histories>>

JobDue ==
    /\ job # None /\ ~job.due
    /\ job' = [job EXCEPT !.due = TRUE]
    /\ UNCHANGED <<session, polling, Issuance, Histories>>

\* The process ends and a new one starts: nothing of the relay is persistent.
Restart ==
    /\ epoch < MaxEpoch
    /\ epoch' = epoch + 1
    /\ session' = None /\ job' = None /\ polling' = None
    /\ pc' = [r \in Requests |-> IF pc[r] \in Open THEN "failed" ELSE pc[r]]
    /\ accepted' = [r \in Requests |-> IF pc[r] \in Open THEN <<>> ELSE accepted[r]]
    /\ taken' = [r \in Requests |-> IF pc[r] \in Open THEN <<>> ELSE taken[r]]
    /\ UNCHANGED <<leases, issued, cancelled>>

----------------------------------------------------------------------------
WorkerRequest(b) ==
    \/ Obsolete(b)
    \/ PollBusy(b) \/ PollClaim(b) \/ PollWait(b)
    \/ \E running \in Requests \cup {None}, ready \in BOOLEAN : Heartbeat(b, running, ready)
    \/ \E r \in Requests, seq \in 0..MaxResults :
          \/ ResultObsolete(b, r, seq)
          \/ \E e \in Results : \/ ResultTooLong(b, r, seq, e)
                                \/ ResultFull(b, r, seq, e)
                                \/ ResultAccept(b, r, seq, e)

Wake == WakeObsolete \/ WakeClaim \/ WakeEmpty \/ WakeWait

StreamStep(r) == StreamFail(r) \/ StreamTake(r) \/ StreamResume(r) \/ StreamClose(r)

Next ==
    \/ Expire
    \/ \E boot \in Boots : ConnectAgain(boot) \/ \E ready \in BOOLEAN : ConnectNew(boot, ready)
    \/ \E b \in issued : WorkerRequest(b)
    \/ Wake
    \/ \E r \in Requests : \/ StreamOpen(r) \/ StreamRefuse(r) \/ StreamStep(r)
                           \/ StreamAbandon(r) \/ Cancel(r)
    \/ LeaseElapse \/ JobDue \/ Restart

Spec == Init /\ [][Next]_vars

(* The generator's thread runs while its consumer drains it, and the clock  *)
(* reaches the deadline of a job that stays.  Nothing is assumed of workers.*)
Fairness == /\ \A r \in Requests : WF_vars(StreamStep(r))
            /\ WF_vars(JobDue)

FairSpec == Spec /\ Fairness

----------------------------------------------------------------------------
Status(stage) == CASE stage = "idle"     -> "none"
                   [] stage \in Open     -> "open"
                   [] stage = "finished" -> "finished"
                   [] stage \in {"failed", "refused"} -> "failed"

Channel == INSTANCE InferenceChannel
               WITH status <- [r \in Requests |-> Status(pc[r])],
                    sent <- accepted, got <- taken

\* The relay is, to the chat service, the channel of InferenceChannel.tla.
ChannelSpec == Channel!Spec

Live(j) == j # None /\ ~j.error

\* A job that has not failed belongs to the session in place: an expired
\* session takes its job down with it, and the next lease never inherits one
\* (_expire, ConnectNew).
JobHasOwner == Live(job) => session # None /\ session.lease = job.lease

\* The session's busy marker names exactly the job the worker has claimed and
\* not finished; stale heartbeats and polls neither raise it again nor clear it
\* while the job lives (dispatch, heartbeat and poll branches).
BusyMarker ==
    Live(job) => session.job = IF job.claimed /\ ~job.done THEN job.id ELSE None

\* The job slot belongs to the one stream that is open.
OneStream == \A r \in Requests : pc[r] \in Open <=> job # None /\ job.id = r

\* What a stream has read and what still waits are, in order and without gaps
\* or repeats, what the relay accepted; the worker's next sequence number counts
\* them; and the queue and the text stay within their limits.
InOrder ==
    job # None => /\ accepted[job.id] = taken[job.id] \o job.events
                  /\ job.seq = Len(accepted[job.id])
                  /\ Len(job.events) <= MaxEvents
                  /\ job.total <= MaxOutput

LastIsDone(s) == s # <<>> /\ s[Len(s)].done /\ ~s[Len(s)].error

(***************************************************************************)
(* The parts that make these inductive.                                    *)
(***************************************************************************)
\* Only the last event accepted may be terminal, and job.done says whether it is.
TerminalLast ==
    job # None => LET a == accepted[job.id]
                  IN  /\ \A i \in 1..Len(a) : a[i].done => i = Len(a)
                      /\ job.done <=> a # <<>> /\ a[Len(a)].done

\* A stream past its last event has read all of a successful answer.
StageMatches == \A r \in Requests :
    pc[r] \in {"lastText", "done", "finishing"} =>
        taken[r] = accepted[r] /\ LastIsDone(accepted[r])

\* A stream that ends well has handed over everything accepted for it, up to
\* and including a successful terminal result.
Complete == \A r \in Requests :
    pc[r] = "finished" => taken[r] = accepted[r] /\ LastIsDone(accepted[r])

\* A lease in force is replaced only after it elapsed or the relay restarted:
\* no connect of another worker takes it over.
LeaseKept == [][session # None /\ ~session.elapsed /\ epoch' = epoch
                => session' # None /\ session'.lease = session.lease]_vars

\* Every dispatched stream ends, whatever workers do: its own loop applies the
\* deadline.
StreamEnds == \A r \in Requests : pc[r] = "reading" ~> pc[r] \in Ended
=============================================================================
