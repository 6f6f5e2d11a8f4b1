----------------------------- MODULE RelayWorker -----------------------------
(***************************************************************************)
(* The relay of Relay.tla served by the worker of OutboundWorker.tla over  *)
(* a network that loses calls and answers, delays calls past the caller's  *)
(* patience, and lets relay and worker crash.                              *)
(*                                                                         *)
(* A call a thread waits for is in calls[thread]; a call its thread has    *)
(* given up, but which still reaches the relay, is a ghost.  A poll that   *)
(* waits in the relay has at = "waiting"; when its caller has gone the     *)
(* relay's `polling' stays behind without one.  A thread never waits for   *)
(* more than one call, so the two slots of rpc() refuse only a caller that *)
(* has given up before: that is a lost call here.                          *)
(*                                                                         *)
(* Everything that goes wrong without a cause in the model counts as one   *)
(* of MaxFaults.                                                           *)
(***************************************************************************)
EXTENDS Relay

CONSTANTS
    Answer,      \* what Ollama answers to every prompt
    Faults,      \* the kinds of faults that may occur
    MaxFaults    \* bound: faults

\* The owner object of the worker: `made' is its identity.
OwnerObj == [epoch : Nat, boot : Boots, lease : Nat, made : 1..3]

ReplySet == [outcome : {"ok", "rejected", "lost"}, own : Owner \cup {None},
             job : Requests \cup {None}, yes : BOOLEAN]

CallSet == [kind : {"connect", "poll", "heartbeat", "result"}, boot : Boots,
            own : Owner \cup {None}, job : Requests \cup {None}, ready : BOOLEAN, seq : Nat,
            event : Event, at : {"sent", "waiting", "answered"}, reply : ReplySet \cup {None}]

ASSUME NoneAssumption == None \notin Boots /\ None \notin OwnerObj /\ None \notin CallSet

\* What infer() sends when nothing fails: texts, of which the last is marked done.
ASSUME AnswerAssumption ==
    /\ Answer \in Seq(Results) /\ Len(Answer) \in 1..(MaxResults + 1)
    /\ \A i \in 1..Len(Answer) : ~Answer[i].error /\ (Answer[i].done <=> i = Len(Answer))

VARIABLES
    boot, owner, ready, running, stopping, run, beat, calls, inferred,
    ghosts,      \* calls travelling without a caller
    faults       \* faults so far

W == INSTANCE OutboundWorker

workerVars == <<boot, owner, ready, running, stopping, run, beat, calls, inferred>>
allVars == <<vars, workerVars, ghosts, faults>>

AllInit == Init /\ W!Init /\ ghosts = {} /\ faults = 0

Fault(kind) == kind \in Faults /\ faults < MaxFaults /\ faults' = faults + 1
NoFault == faults' = faults

----------------------------------------------------------------------------
(* How the relay handles call c, and what it answers to thread t.          *)

Ok(own, job_, yes) == W!Reply("ok", own, job_, yes)
Rejected == W!Reply("rejected", None, None, FALSE)
Lost == W!Reply("lost", None, None, FALSE)

\* The answer of a call reaches the thread that waits for it, if one does.
Nobody == "nobody"

Reply(t, reply) ==
    calls' = IF t = Nobody THEN calls
             ELSE [calls EXCEPT ![t] = [@ EXCEPT !.at = "answered", !.reply = reply]]

HandleConnect(c, t) ==
    \/ /\ ConnectNew(c.boot, c.ready)
       /\ Reply(t, Ok([epoch |-> epoch, boot |-> c.boot, lease |-> leases + 1], None, FALSE))
    \/ /\ ConnectAgain(c.boot)
       /\ IF session.boot = c.boot
          THEN Reply(t, Ok([epoch |-> epoch, boot |-> c.boot, lease |-> session.lease], None, FALSE))
          ELSE Reply(t, Rejected)

\* A poll that waits is answered later.
HandlePoll(c, t) ==
    \/ Obsolete(c.own) /\ Reply(t, Rejected)
    \/ PollBusy(c.own) /\ Reply(t, Rejected)
    \/ PollClaim(c.own) /\ Reply(t, Ok(None, job.id, FALSE))

HandleHeartbeat(c, t) ==
    \/ Obsolete(c.own) /\ Reply(t, Rejected)
    \/ /\ Heartbeat(c.own, c.job, c.ready)
       /\ Reply(t, Ok(None, None, Active(JobNow, c.job) /\ ~Stops(JobNow, c.job, c.ready)))

HandleResult(c, t) ==
    \/ Obsolete(c.own) /\ Reply(t, Rejected)
    \/ ResultObsolete(c.own, c.job, c.seq) /\ Reply(t, Rejected)
    \/ ResultTooLong(c.own, c.job, c.seq, c.event) /\ Reply(t, Rejected)
    \/ ResultFull(c.own, c.job, c.seq, c.event) /\ Reply(t, Ok(None, None, FALSE))
    \/ ResultAccept(c.own, c.job, c.seq, c.event) /\ Reply(t, Ok(None, None, TRUE))

Handle(c, t) ==
    \/ c.kind = "connect" /\ HandleConnect(c, t)
    \/ c.kind = "poll" /\ HandlePoll(c, t)
    \/ c.kind = "heartbeat" /\ HandleHeartbeat(c, t)
    \/ c.kind = "result" /\ HandleResult(c, t)

OnlyCalls == UNCHANGED <<boot, owner, ready, running, stopping, run, beat, inferred>>

\* The relay handles the call thread t waits for.
Deliver(t) ==
    /\ calls[t] # None /\ calls[t].at = "sent"
    /\ Handle(calls[t], t)
    /\ OnlyCalls /\ NoFault /\ UNCHANGED ghosts

DeliverWaits ==
    /\ calls["run"] # None /\ calls["run"].at = "sent" /\ calls["run"].kind = "poll"
    /\ PollWait(calls["run"].own)
    /\ calls' = [calls EXCEPT !["run"].at = "waiting"]
    /\ OnlyCalls /\ NoFault /\ UNCHANGED ghosts

\* A ghost arrives; nobody reads the answer.
Haunt(c) ==
    /\ c \in ghosts
    /\ ghosts' = ghosts \ {c}
    /\ \/ Handle(c, Nobody)
       \/ c.kind = "poll" /\ PollWait(c.own) /\ UNCHANGED calls
    /\ OnlyCalls /\ NoFault

\* The waiting poll wakes; its answer goes to the run thread if that still waits.
Waiting == calls["run"] # None /\ calls["run"].at = "waiting"

WakeReply(reply) == Reply(IF Waiting THEN "run" ELSE Nobody, reply)

WakeAndReply ==
    /\ \/ WakeObsolete /\ WakeReply(Rejected)
       \/ WakeClaim /\ WakeReply(Ok(None, job.id, FALSE))
       \/ WakeEmpty /\ WakeReply(Ok(None, None, FALSE))
    /\ OnlyCalls /\ NoFault /\ UNCHANGED ghosts

----------------------------------------------------------------------------
(* What may go wrong.                                                      *)

Fails(t) == Reply(t, Lost) /\ OnlyCalls /\ UNCHANGED vars

\* The call or its answer is lost.  At the relay a poll may wait on, without a caller.
LoseCall(t) ==
    /\ calls[t] # None /\ Fails(t)
    /\ Fault("lost") /\ UNCHANGED ghosts

\* The caller's time is over while the call is under way; it may still arrive, at
\* any time or never.
OvertakeCall(t) ==
    /\ calls[t] # None /\ calls[t].at = "sent" /\ Fails(t)
    /\ Fault("late") /\ ghosts' = ghosts \cup {calls[t]}

\* The calls of the dying process may also be late.
WorkerCrash ==
    /\ W!Crash
    /\ ghosts' = IF "late" \in Faults
                 THEN ghosts \cup {calls[t] : t \in {u \in W!Threads :
                                       calls[u] # None /\ calls[u].at = "sent"}}
                 ELSE ghosts
    /\ Fault("crash") /\ UNCHANGED vars

\* A lease may elapse only by chance while somebody could still renew it, and
\* surely when nobody can.
Renewable == \/ polling # None
             \/ boot # None /\ session # None /\ session.boot = boot

Elapse == /\ LeaseElapse /\ UNCHANGED <<workerVars, ghosts>>
          /\ IF Renewable THEN Fault("elapse") ELSE NoFault

RelayRestart ==
    /\ Restart
    /\ WakeReply(Lost)
    /\ OnlyCalls /\ Fault("restart") /\ UNCHANGED ghosts

----------------------------------------------------------------------------
RelayAlone == UNCHANGED <<workerVars, ghosts>> /\ NoFault
WorkerAlone == UNCHANGED <<vars, ghosts>>

RunThread == W!RunStep /\ WorkerAlone /\ NoFault
BeatThread == W!BeatStep /\ WorkerAlone /\ NoFault
RunFails == W!RunFault /\ WorkerAlone /\ Fault("model")
WorkerStart ==
    /\ \E b \in Boots :
          /\ \A o \in issued : o.boot # b
          /\ \A c \in ghosts : c.boot # b
          /\ W!Start(b)
    /\ WorkerAlone /\ NoFault

StreamThread(r) == StreamStep(r) /\ RelayAlone
\* The consumer opens a stream and may cancel it while it is open; refused calls
\* and abandoned generators are left to Relay.tla's own run.
Consumer(r) == RelayAlone /\ \/ StreamOpen(r)
                             \/ pc[r] \in Open /\ Cancel(r)
JobDeadline == JobDue /\ RelayAlone

AllNext ==
    \/ RunThread \/ BeatThread \/ RunFails \/ WorkerStart \/ WorkerCrash
    \/ \E t \in W!Threads : Deliver(t) \/ LoseCall(t) \/ OvertakeCall(t)
    \/ DeliverWaits \/ WakeAndReply
    \/ \E c \in ghosts : Haunt(c)
    \/ \E r \in Requests : StreamThread(r) \/ Consumer(r)
    \/ JobDeadline \/ Elapse \/ RelayRestart

AllSpec == AllInit /\ [][AllNext]_allVars

(* Threads of both processes run, calls arrive, a waiting poll wakes within  *)
(* its ten seconds, deadlines pass, and a lease nobody can renew elapses.    *)
AllFairness ==
    /\ WF_allVars(RunThread) /\ WF_allVars(BeatThread)
    /\ WF_allVars(Deliver("beat")) /\ WF_allVars(Deliver("run") \/ DeliverWaits)
    /\ WF_allVars(WakeAndReply)
    /\ \A r \in Requests : WF_allVars(StreamThread(r))
    /\ WF_allVars(JobDeadline) /\ WF_allVars(Elapse /\ ~Renewable)

AllFairSpec == AllSpec /\ AllFairness

----------------------------------------------------------------------------
\* The network and the worker stay within what Relay.tla lets its environment
\* do, so everything shown of the relay holds here.
RelaySpec == Spec

\* However polls and heartbeats cross, are lost, are late or are repeated after
\* a crash or reconnect, Ollama is asked for a job at most once.
InferredOnce == \A r \in Requests : inferred[r] <= 1

IsPrefixOf(s, t) == Len(s) <= Len(t) /\ s = SubSeq(t, 1, Len(s))

\* The relay holds for each request a beginning of Ollama's answer, perhaps ended
\* by a failure report: lost answers and repeated results neither leave out nor
\* double a piece of text.
AnswerKept == \A r \in Requests :
    \/ IsPrefixOf(accepted[r], Answer)
    \/ /\ accepted[r] # <<>> /\ accepted[r][Len(accepted[r])] = W!Failure
       /\ IsPrefixOf(SubSeq(accepted[r], 1, Len(accepted[r]) - 1), Answer)

\* A worker process that stays up is the holder of a lease in force again and
\* again, whatever faults occurred: no dead poll, stale owner or old lease shuts
\* it out for good.
Serving == /\ owner # None /\ Alive # None
           /\ W!Wire(owner) = [epoch |-> epoch, boot |-> Alive.boot, lease |-> Alive.lease]
Recovers == []<>(boot = None \/ Serving)

\* The session does not stay busy for good: the marker of a claimed job is
\* cleared by its result, a poll or a heartbeat, or the session goes.
BusyEnds == session # None /\ session.job # None
            ~> Alive = None \/ Alive.job = None

\* The inference of the job goes on: no terminal result of it has been sent, nobody
\* has told the worker to stop, and no heartbeat about the job is under way that could.
Inferring == /\ \/ run.at = "generating"
                \/ run.at = "sending" /\ ~calls["run"].event.done
             /\ ~stopping
             /\ beat = None \/ beat.job # running

\* What chat/OUTBOUND_WORKER.md promises of a cancelled job: without a terminal result
\* of it, the relay gives the session no other job while its inference goes on.  A
\* heartbeat captured before the job was taken, and answered after its stream was
\* closed, clears the busy marker all the same (dispatch, heartbeat branch).
NoEarlyReassign ==
    Inferring /\ cancelled[running] /\ session # None /\ session.boot = boot /\ job # None
        => job.id = running
=============================================================================
