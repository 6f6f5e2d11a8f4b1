------------------------- MODULE RelayWorkerProofs -------------------------
(***************************************************************************)
(* The relay, its worker and the network between them, for every set of    *)
(* requests and processes, every answer and every number and kind of       *)
(* faults.  First every step is shown to be one that Relay.tla lets its    *)
(* environment take, so what RelayProofs says of the relay holds here;     *)
(* then a request is inferred at most once and its answer kept.            *)
(***************************************************************************)
EXTENDS RelayWorker, RelayProofs

RunStages == {"off", "top", "connect", "legacy", "poll", "infer", "generating", "sending",
              "giveUp", "lastBeat", "finished", "reset", "clear"}

WorkerTypes ==
    /\ boot \in Boots \cup {None} /\ owner \in OwnerObj \cup {None}
    /\ ready \in BOOLEAN /\ running \in Requests \cup {None} /\ stopping \in BOOLEAN
    /\ run \in [at : RunStages, own : OwnerObj \cup {None}, pos : Nat, seq : Nat]
    /\ beat \in [own : OwnerObj, job : Requests \cup {None}] \cup {None}
    /\ calls \in [W!Threads -> CallSet \cup {None}]
    /\ inferred \in [Requests -> Nat]
    /\ ghosts \subseteq CallSet

\* A result carries the event of Ollama's answer its number stands for, or a failure.
PartOfAnswer(c) ==
    /\ c.seq < Len(Answer)
    /\ c.event = W!Failure \/ c.event = Answer[c.seq + 1]

\* What a call may contain, and the answer of a connect; only polls wait.
Honest(c) ==
    /\ c.at = "waiting" => c.kind = "poll"
    /\ c.kind # "connect" => c.own \in issued
    /\ c.kind = "result" => c.job \in Requests /\ PartOfAnswer(c)
    /\ c.at = "answered" => c.reply \in ReplySet
    /\ c.at = "answered" /\ c.kind = "connect" /\ c.reply.outcome = "ok" => c.reply.own \in issued

Calling ==
    /\ \A t \in W!Threads : calls[t] # None => Honest(calls[t])
    /\ \A c \in ghosts : Honest(c)
    /\ calls["beat"] # None => calls["beat"].kind = "heartbeat"

\* Where the run thread stands, and the call it waits for.
Working ==
    /\ run.at # "off" \/ owner # None => boot \in Boots
    /\ owner # None => W!Wire(owner) \in issued
    /\ run.at \in {"poll", "infer", "generating", "sending", "giveUp"} =>
          run.own # None /\ W!Wire(run.own) \in issued
    /\ run.at \in {"infer", "generating", "sending", "giveUp", "lastBeat"} => running \in Requests
    /\ run.at \in {"connect", "legacy"} => calls["run"] # None /\ calls["run"].kind = "connect"
    /\ run.at = "poll" => calls["run"] # None /\ calls["run"].kind = "poll"
    /\ run.at = "sending" =>
          /\ calls["run"] # None /\ calls["run"].kind = "result" /\ calls["run"].seq = run.seq
          /\ calls["run"].event = W!Failure \/ run.pos = run.seq + 1
    /\ run.at = "lastBeat" => calls["run"] # None /\ calls["run"].kind = "heartbeat"
    /\ run.at \in {"off", "top", "infer", "generating", "giveUp", "finished", "reset", "clear"} =>
          calls["run"] = None
    /\ run.at = "generating" => run.pos = run.seq /\ run.seq < Len(Answer)

\* The run thread has been given r and has not begun to infer it.
Handed(r) ==
    \/ /\ calls["run"] # None /\ calls["run"].kind = "poll" /\ calls["run"].at = "answered"
       /\ calls["run"].reply.job = r
    \/ run.at = "infer" /\ running = r

\* The relay has yet to give r out.
Ahead(r) == pc[r] = "idle" \/ (job # None /\ job.id = r /\ ~job.claimed)

Once == \A r \in Requests :
    /\ inferred[r] <= 1
    /\ Ahead(r) => inferred[r] = 0 /\ ~Handed(r)
    /\ Handed(r) => inferred[r] = 0

----------------------------------------------------------------------------
(* One more part of the relay's own invariant.                              *)

\* The lease in place was answered to a connect.
SessionIssued == session # None =>
    [epoch |-> epoch, boot |-> session.boot, lease |-> session.lease] \in issued

RelayInv == TypeOK /\ Owning /\ Delivering /\ SessionIssued

USE RelayAssumption

\* A step that leaves boot and lease of the session alone keeps it issued.
LEMMA IssuedKept ==
  ASSUME TypeOK, SessionIssued, epoch' = epoch, issued' = issued,
         session' # None => /\ session # None /\ session'.boot = session.boot
                            /\ session'.lease = session.lease
  PROVE  SessionIssued' /\ issued \subseteq issued'
  BY DEF SessionIssued

LEMMA RenewedIssued ==
  ASSUME TypeOK, SessionIssued, UNCHANGED Issuance,
         \/ session' = session \/ session' = Alive
         \/ /\ Alive # None
            /\ \/ session' = Renewed \/ \E j : session' = [Renewed EXCEPT !.job = j]
               \/ \E j, verified : session' = [Renewed EXCEPT !.ready = verified, !.job = j]
  PROVE  SessionIssued' /\ issued \subseteq issued'
  <1>1. session' # None => /\ session # None /\ session'.boot = session.boot
                           /\ session'.lease = session.lease
    <2>0. Alive # None => session = Alive
      BY DEF Alive
    <2>1. CASE session' = session \/ session' = Alive
      <3>1. session' # None => session' = session
        BY <2>0, <2>1
      <3> QED BY <3>1
    <2>2. CASE Alive # None /\ session' = Renewed
      BY <2>2, ExpireTypes, RenewedType
    <2>3. ASSUME NEW j, Alive # None, session' = [Renewed EXCEPT !.job = j]
          PROVE  /\ session # None /\ session'.boot = session.boot
                 /\ session'.lease = session.lease
      BY <2>3, ExpireTypes, RenewedType DEF Session
    <2>4. ASSUME NEW j, NEW verified, Alive # None,
                 session' = [Renewed EXCEPT !.ready = verified, !.job = j]
          PROVE  /\ session # None /\ session'.boot = session.boot
                 /\ session'.lease = session.lease
      BY <2>4, ExpireTypes, RenewedType DEF Session
    <2> QED BY <2>1, <2>2, <2>3, <2>4
  <1> QED BY <1>1, IssuedKept DEF Issuance

LEMMA IssuedStep == TypeOK /\ SessionIssued /\ [Next]_vars => SessionIssued' /\ issued \subseteq issued'
  <1> SUFFICES ASSUME TypeOK, SessionIssued, [Next]_vars
               PROVE  SessionIssued' /\ issued \subseteq issued'
    OBVIOUS
  <1>1. CASE Expire
    BY <1>1, RenewedIssued DEF Expire
  <1>2. ASSUME NEW b \in Boots, ConnectAgain(b) PROVE SessionIssued' /\ issued \subseteq issued'
    BY <1>2, RenewedIssued DEF ConnectAgain, Expire
  <1>3. ASSUME NEW b \in Boots, NEW verified \in BOOLEAN, ConnectNew(b, verified)
        PROVE  SessionIssued' /\ issued \subseteq issued'
    BY <1>3 DEF ConnectNew, SessionIssued
  <1>4. ASSUME NEW b \in issued, WorkerRequest(b) PROVE SessionIssued' /\ issued \subseteq issued'
    <2>0. Owns(b) => Alive # None
      BY DEF Owns
    <2>1. CASE Obsolete(b)
      BY <2>1, RenewedIssued DEF Obsolete, Expire
    <2>2. CASE PollBusy(b) \/ PollClaim(b)
      BY <2>0, <2>2, RenewedIssued DEF PollBusy, PollClaim, Claim
    <2>3. CASE PollWait(b)
      BY <2>0, <2>3, RenewedIssued DEF PollWait, Idle
    <2>4. ASSUME NEW j \in Requests \cup {None}, NEW verified \in BOOLEAN, Heartbeat(b, j, verified)
          PROVE  SessionIssued' /\ issued \subseteq issued'
      <3> DEFINE marker == IF Active(JobNow, j) THEN j
                           ELSE IF Clears(JobNow, j) THEN None ELSE Renewed.job
      <3>1. session' = [Renewed EXCEPT !.ready = verified, !.job = marker]
        BY <2>4 DEF Heartbeat
      <3> HIDE DEF marker
      <3> QED BY <2>0, <2>4, <3>1, RenewedIssued DEF Heartbeat
    <2>5. ASSUME NEW r \in Requests, NEW seq \in 0..MaxResults, NEW e \in Results,
                 \/ ResultTooLong(b, r, seq, e) \/ ResultFull(b, r, seq, e)
                 \/ ResultAccept(b, r, seq, e)
          PROVE  SessionIssued' /\ issued \subseteq issued'
      BY <2>0, <2>5, RenewedIssued DEF ResultTooLong, ResultFull, ResultAccept, Idle
    <2>6. ASSUME NEW r \in Requests, NEW seq \in 0..MaxResults, ResultObsolete(b, r, seq)
          PROVE  SessionIssued' /\ issued \subseteq issued'
      BY <2>0, <2>6, RenewedIssued DEF ResultObsolete
    <2> QED BY <1>4, <2>1, <2>2, <2>3, <2>4, <2>5, <2>6 DEF WorkerRequest
  <1>5. CASE Wake
    BY <1>5, RenewedIssued DEF Wake, WakeObsolete, WakeClaim, WakeEmpty, WakeWait, Claim, Owns
  <1>6. ASSUME NEW r \in Requests,
               \/ StreamOpen(r) \/ StreamRefuse(r) \/ StreamStep(r) \/ StreamAbandon(r) \/ Cancel(r)
        PROVE  SessionIssued' /\ issued \subseteq issued'
    BY <1>6, RenewedIssued DEF StreamOpen, StreamRefuse, StreamStep, StreamFail, StreamTake,
       StreamResume, StreamClose, StreamAbandon, Cancel
  <1>7. CASE LeaseElapse
    BY <1>7, IssuedKept DEF LeaseElapse, Issuance, TypeOK, Session
  <1>8. CASE JobDue \/ UNCHANGED vars
    BY <1>8, RenewedIssued DEF JobDue, vars, Issuance
  <1>9. CASE Restart
    BY <1>9 DEF Restart, SessionIssued
  <1> QED BY <1>1, <1>2, <1>3, <1>4, <1>5, <1>6, <1>7, <1>8, <1>9 DEF Next

\* The relay's invariant with this part added.
LEMMA RelayKeeps == RelayInv /\ [Next]_vars => RelayInv' /\ issued \subseteq issued'
  BY TypeStep, OwningStep, DeliveringStep, IssuedStep DEF RelayInv

----------------------------------------------------------------------------
(* The relay sees nothing of the network but steps of its own.               *)

\* What honest calls hold is what Relay.tla's requests hold.
LEMMA FailureTypes == W!Failure \in Results /\ W!Quiet \in Event
  BY DEF W!Failure, W!Quiet, Results, Event

LEMMA PartTypes ==
  ASSUME NEW c \in CallSet, PartOfAnswer(c)
  PROVE  c.event \in Results /\ c.seq \in 0..MaxResults
  <1>1. /\ c.seq \in Nat /\ c.seq + 1 \in 1..Len(Answer)
        /\ Len(Answer) \in Nat /\ Len(Answer) <= MaxResults + 1
    BY AnswerAssumption DEF CallSet, PartOfAnswer
  <1>2. c.seq \in 0..MaxResults
    BY <1>1
  <1>3. Answer[c.seq + 1] \in Results
    BY <1>1, AnswerAssumption
  <1> QED BY <1>2, <1>3, FailureTypes DEF PartOfAnswer

\* Whatever number a refused result has, another within the bounds is refused too.
LEMMA ObsoleteNumber ==
  ASSUME TypeOK, NEW b, NEW r, NEW seq, ResultObsolete(b, r, seq)
  PROVE  \E s \in 0..MaxResults : ResultObsolete(b, r, s)
  <1>1. 0 \in 0..MaxResults /\ 1 \in 0..MaxResults
    OBVIOUS
  <1>2. ~Expected(r, 0) \/ ~Expected(r, 1)
    BY DEF Expected
  <1> QED BY <1>1, <1>2 DEF ResultObsolete

LEMMA HandleIsStep ==
  ASSUME RelayInv, NEW c \in CallSet, Honest(c), NEW t, Handle(c, t)
  PROVE  Next
  <1>0. TypeOK
    BY DEF RelayInv
  <1>1. CASE c.kind = "connect" /\ HandleConnect(c, t)
    <2>1. c.boot \in Boots /\ c.ready \in BOOLEAN
      BY DEF CallSet
    <2> QED BY <1>1, <2>1 DEF HandleConnect, Next
  <1>2. CASE c.kind = "poll" /\ HandlePoll(c, t)
    <2>1. c.own \in issued
      BY <1>2 DEF Honest
    <2> QED BY <1>2, <2>1 DEF HandlePoll, Next, WorkerRequest
  <1>3. CASE c.kind = "heartbeat" /\ HandleHeartbeat(c, t)
    <2>1. c.own \in issued /\ c.job \in Requests \cup {None} /\ c.ready \in BOOLEAN
      BY <1>3 DEF Honest, CallSet
    <2> QED BY <1>3, <2>1 DEF HandleHeartbeat, Next, WorkerRequest
  <1>4. CASE c.kind = "result" /\ HandleResult(c, t)
    <2>1. /\ c.own \in issued /\ c.job \in Requests /\ c.event \in Results
          /\ c.seq \in 0..MaxResults
      BY <1>4, PartTypes DEF Honest
    <2> SUFFICES WorkerRequest(c.own)
      BY <2>1 DEF Next
    <2>2. CASE Obsolete(c.own)
      BY <2>2 DEF WorkerRequest
    <2>3. CASE ResultObsolete(c.own, c.job, c.seq)
      BY <1>0, <2>1, <2>3, ObsoleteNumber DEF WorkerRequest
    <2>4. CASE \/ ResultTooLong(c.own, c.job, c.seq, c.event)
               \/ ResultFull(c.own, c.job, c.seq, c.event)
               \/ ResultAccept(c.own, c.job, c.seq, c.event)
      BY <2>1, <2>4 DEF WorkerRequest
    <2> QED BY <1>4, <2>2, <2>3, <2>4 DEF HandleResult
  <1> QED BY <1>1, <1>2, <1>3, <1>4 DEF Handle

LEMMA PollWaitIsStep == ASSUME NEW b \in issued, PollWait(b) PROVE Next
  BY DEF Next, WorkerRequest

WorkerInv == WorkerTypes /\ Calling /\ Working

LEMMA AllIsStep == RelayInv /\ WorkerInv /\ AllNext => [Next]_vars
  <1> SUFFICES ASSUME RelayInv, WorkerInv, AllNext PROVE [Next]_vars
    OBVIOUS
  <1>1. CASE RunThread \/ BeatThread \/ RunFails \/ WorkerStart \/ WorkerCrash
    BY <1>1 DEF RunThread, BeatThread, RunFails, WorkerStart, WorkerCrash, WorkerAlone
  <1>2. ASSUME NEW t \in W!Threads, Deliver(t) PROVE Next
    <2>1. calls[t] \in CallSet /\ Honest(calls[t])
      BY <1>2 DEF WorkerInv, WorkerTypes, Calling, Deliver
    <2> QED BY <1>2, <2>1, HandleIsStep DEF Deliver
  <1>3. ASSUME NEW t \in W!Threads, LoseCall(t) \/ OvertakeCall(t) PROVE UNCHANGED vars
    BY <1>3 DEF LoseCall, OvertakeCall, Fails
  <1>4. CASE DeliverWaits
    <2>1. calls["run"].own \in issued
      BY <1>4 DEF WorkerInv, WorkerTypes, Calling, DeliverWaits, W!Threads, Honest
    <2> QED BY <1>4, <2>1, PollWaitIsStep DEF DeliverWaits
  <1>5. CASE WakeAndReply
    BY <1>5 DEF WakeAndReply, Next, Wake
  <1>6. ASSUME NEW c \in ghosts, Haunt(c) PROVE Next
    <2>1. c \in CallSet /\ Honest(c)
      BY DEF WorkerInv, WorkerTypes, Calling
    <2>2. CASE Handle(c, Nobody)
      BY <2>1, <2>2, HandleIsStep
    <2>3. CASE c.kind = "poll" /\ PollWait(c.own)
      <3>1. c.own \in issued
        BY <2>1, <2>3 DEF Honest
      <3> QED BY <2>3, <3>1, PollWaitIsStep
    <2> QED BY <1>6, <2>2, <2>3 DEF Haunt
  <1>7. ASSUME NEW r \in Requests, StreamThread(r) \/ Consumer(r) PROVE Next
    BY <1>7 DEF StreamThread, Consumer, Next
  <1>8. CASE JobDeadline \/ Elapse \/ RelayRestart
    BY <1>8 DEF JobDeadline, Elapse, RelayRestart, Next
  <1> QED BY <1>1, <1>2, <1>3, <1>4, <1>5, <1>6, <1>7, <1>8 DEF AllNext

LEMMA WorkerInit == AllInit => WorkerInv
  <1> SUFFICES ASSUME AllInit PROVE WorkerInv
    OBVIOUS
  <1>1. run = [at |-> "off", own |-> None, pos |-> 0, seq |-> 0]
    BY DEF AllInit, W!Init, W!Off
  <1>2. /\ boot = None /\ owner = None /\ beat = None /\ running = None /\ ghosts = {}
        /\ ready = FALSE /\ stopping = FALSE /\ calls = [t \in W!Threads |-> None]
        /\ inferred = [r \in Requests |-> 0]
    BY DEF AllInit, W!Init
  <1>3. run \in [at : RunStages, own : OwnerObj \cup {None}, pos : Nat, seq : Nat]
    BY <1>1 DEF RunStages
  <1>4. WorkerTypes
    BY <1>2, <1>3 DEF WorkerTypes
  <1>5. calls["run"] = None /\ calls["beat"] = None
    BY <1>2 DEF W!Threads
  <1>6. Calling
    <2>1. \A t \in W!Threads : calls[t] = None
      BY <1>2
    <2>2. ghosts = {}
      BY <1>2
    <2> QED BY <1>5, <2>1, <2>2 DEF Calling
  <1>7. Working
    BY <1>1, <1>2, <1>5 DEF Working
  <1> QED BY <1>4, <1>6, <1>7 DEF WorkerInv

----------------------------------------------------------------------------
(* What the network does to the calls keeps what is known of the worker.     *)

LEMMA HonestKept ==
  ASSUME issued \subseteq issued', NEW c, Honest(c)
  PROVE  Honest(c)'
  BY DEF Honest

\* A call that is answered keeps what it asked.
Follows(new, old) ==
  /\ new \in CallSet /\ old \in CallSet
  /\ new.kind = old.kind /\ new.own = old.own /\ new.job = old.job
  /\ new.seq = old.seq /\ new.event = old.event

LEMMA CallsFollow ==
  ASSUME WorkerInv, OnlyCalls, issued \subseteq issued',
         calls' \in [W!Threads -> CallSet \cup {None}],
         \A u \in W!Threads : \/ calls'[u] = calls[u]
                              \/ /\ calls[u] # None /\ Follows(calls'[u], calls[u])
                                 /\ Honest(calls[u])',
         \A c \in ghosts' : c \in CallSet /\ Honest(c)
  PROVE  WorkerInv'
  <1>1. WorkerTypes'
    BY DEF WorkerInv, WorkerTypes, OnlyCalls
  <1>2. \A u \in W!Threads : /\ calls'[u] = None <=> calls[u] = None
                             /\ calls'[u] # None => Follows(calls'[u], calls[u])
    BY NoneAssumption DEF Follows, WorkerInv, WorkerTypes
  <1>3. Calling'
    <2>1. \A u \in W!Threads : calls'[u] # None => Honest(calls[u])'
      <3> SUFFICES ASSUME NEW u \in W!Threads, calls'[u] # None PROVE Honest(calls[u])'
        OBVIOUS
      <3>1. CASE calls'[u] = calls[u]
        <4>1. Honest(calls[u])
          BY <3>1 DEF WorkerInv, Calling
        <4> QED BY <3>1, <4>1 DEF Honest
      <3> QED BY <3>1
    <2>2. \A c \in ghosts' : Honest(c)'
      BY HonestKept
    <2>3. calls'["beat"] # None => calls'["beat"].kind = "heartbeat"
      BY <1>2 DEF WorkerInv, Calling, W!Threads, Follows
    <2> QED BY <2>1, <2>2, <2>3 DEF Calling
  <1>4. Working'
    <2>1. /\ calls'["run"] = None <=> calls["run"] = None
          /\ calls'["run"] # None => /\ calls'["run"].kind = calls["run"].kind
                                     /\ calls'["run"].seq = calls["run"].seq
                                     /\ calls'["run"].event = calls["run"].event
      BY <1>2 DEF W!Threads, Follows
    <2>2. /\ boot' = boot /\ owner' = owner /\ running' = running /\ run' = run
      BY DEF OnlyCalls
    <2> QED BY <2>1, <2>2 DEF WorkerInv, Working, W!Wire
  <1> QED BY <1>1, <1>3, <1>4 DEF WorkerInv

LEMMA ReplyFollows ==
  ASSUME WorkerInv, OnlyCalls, issued \subseteq issued', NEW t, NEW reply, Reply(t, reply),
         \/ t = Nobody
         \/ t \in W!Threads /\ calls[t] # None /\ reply \in ReplySet
            /\ (calls[t].kind = "connect" /\ reply.outcome = "ok" => reply.own \in issued'),
         \A c \in ghosts' : c \in CallSet /\ Honest(c)
  PROVE  WorkerInv'
  <1>1. CASE t = Nobody
    <2>1. calls' = calls
      BY <1>1 DEF Reply
    <2> QED BY <2>1, CallsFollow DEF WorkerInv, WorkerTypes
  <1>2. CASE t \in W!Threads /\ calls[t] # None /\ reply \in ReplySet
             /\ (calls[t].kind = "connect" /\ reply.outcome = "ok" => reply.own \in issued')
    <2> DEFINE new == [calls[t] EXCEPT !.at = "answered", !.reply = reply]
    <2>1. /\ t # Nobody /\ calls[t] \in CallSet /\ Honest(calls[t])
          /\ calls \in [W!Threads -> CallSet \cup {None}]
      BY <1>2 DEF Nobody, W!Threads, WorkerInv, WorkerTypes, Calling
    <2>2. calls' = [calls EXCEPT ![t] = new]
      BY <2>1 DEF Reply
    <2>3. /\ new \in CallSet /\ new.kind = calls[t].kind /\ new.own = calls[t].own
          /\ new.job = calls[t].job /\ new.seq = calls[t].seq /\ new.event = calls[t].event
          /\ new.at = "answered" /\ new.reply = reply
      BY <1>2, <2>1 DEF CallSet
    <2> HIDE DEF new
    <2>4. calls'[t] = new /\ \A u \in W!Threads : u # t => calls'[u] = calls[u]
      BY <1>2, <2>1, <2>2
    <2>5. calls' \in [W!Threads -> CallSet \cup {None}]
      BY <2>1, <2>2, <2>3
    <2>6. Honest(calls[t])'
      BY <1>2, <2>1, <2>3, <2>4 DEF Honest, PartOfAnswer
    <2>7. Follows(calls'[t], calls[t])
      BY <2>1, <2>3, <2>4 DEF Follows
    <2> QED BY <1>2, <2>4, <2>5, <2>6, <2>7, CallsFollow
  <1> QED BY <1>1, <1>2

\* What the relay tells a caller: an owner it has issued, or the job it has just
\* given out.
LEMMA HandleAnswers ==
  ASSUME RelayInv, [Next]_vars, NEW c \in CallSet, Honest(c), NEW t, Handle(c, t)
  PROVE  \E reply \in ReplySet :
           /\ Reply(t, reply)
           /\ c.kind = "connect" /\ reply.outcome = "ok" => reply.own \in issued'
           /\ reply.job # None => /\ c.kind = "poll" /\ PollClaim(c.own)
                                  /\ reply.outcome = "ok" /\ reply.job = job.id
  <1> DEFINE Told(reply) ==
           /\ Reply(t, reply)
           /\ c.kind = "connect" /\ reply.outcome = "ok" => reply.own \in issued'
           /\ reply.job # None => /\ c.kind = "poll" /\ PollClaim(c.own)
                                  /\ reply.outcome = "ok" /\ reply.job = job.id
  <1>0. TypeOK
    BY DEF RelayInv
  <1>1. /\ Rejected \in ReplySet /\ Rejected.outcome = "rejected" /\ Rejected.job = None
        /\ \A yes \in BOOLEAN : /\ Ok(None, None, yes) \in ReplySet
                                /\ Ok(None, None, yes).job = None
        /\ \A r \in Requests : /\ Ok(None, r, FALSE) \in ReplySet /\ Ok(None, r, FALSE).job = r
                               /\ Ok(None, r, FALSE).outcome = "ok"
        /\ \A own \in Owner : /\ Ok(own, None, FALSE) \in ReplySet
                              /\ Ok(own, None, FALSE).own = own /\ Ok(own, None, FALSE).job = None
    BY DEF Rejected, Ok, W!Reply, ReplySet
  <1>2. Reply(t, Rejected) => Told(Rejected)
    BY <1>1
  <1>3. \A yes \in BOOLEAN : c.kind # "connect" /\ Reply(t, Ok(None, None, yes))
                              => Told(Ok(None, None, yes))
    BY <1>1
  <1>4. CASE c.kind = "connect" /\ HandleConnect(c, t)
    <2>1. CASE ConnectNew(c.boot, c.ready)
      <3> DEFINE own == [epoch |-> epoch, boot |-> c.boot, lease |-> leases + 1]
      <3>1. own \in Owner /\ own \in issued'
        BY <1>0, <2>1 DEF ConnectNew, CallSet, Owner, TypeOK
      <3>2. CASE Reply(t, Ok(own, None, FALSE))
        <4>1. Told(Ok(own, None, FALSE))
          BY <1>1, <3>1, <3>2
        <4> QED BY <1>1, <3>1, <4>1
      <3>3. CASE ~Reply(t, Ok(own, None, FALSE))
        <4>1. ConnectAgain(c.boot)
          BY <1>4, <3>3 DEF HandleConnect
        <4> QED BY <2>1, <4>1 DEF ConnectNew, ConnectAgain
      <3> QED BY <3>2, <3>3
    <2>2. CASE ConnectAgain(c.boot)
      <3> DEFINE own == [epoch |-> epoch, boot |-> c.boot, lease |-> session.lease]
      <3>1. session # None /\ issued' = issued /\ session \in Session
        BY <1>0, <2>2, ExpireTypes DEF ConnectAgain, Expire, Issuance
      <3>2. CASE session.boot = c.boot /\ Reply(t, Ok(own, None, FALSE))
        <4>1. own \in issued
          BY <3>1, <3>2 DEF RelayInv, SessionIssued
        <4>2. own \in Owner /\ own \in issued'
          BY <1>0, <3>1, <4>1 DEF TypeOK
        <4>3. Told(Ok(own, None, FALSE))
          BY <1>1, <3>2, <4>2
        <4> QED BY <1>1, <4>2, <4>3
      <3>3. CASE Reply(t, Rejected)
        BY <1>1, <1>2, <3>3
      <3>4. ~ConnectNew(c.boot, c.ready)
        BY <2>2 DEF ConnectNew, ConnectAgain
      <3> QED BY <1>4, <3>2, <3>3, <3>4 DEF HandleConnect
    <2> QED BY <1>4, <2>1, <2>2 DEF HandleConnect
  <1>5. CASE c.kind = "poll" /\ HandlePoll(c, t)
    <2>1. CASE Reply(t, Rejected)
      BY <1>1, <1>2, <2>1
    <2>2. CASE PollClaim(c.own) /\ Reply(t, Ok(None, job.id, FALSE))
      <3>1. job.id \in Requests
        BY <1>0, <2>2, ExpireTypes DEF PollClaim, Claim, Claimable, TypeOK, Job
      <3>2. Told(Ok(None, job.id, FALSE))
        BY <1>1, <1>5, <2>2, <3>1
      <3> QED BY <1>1, <3>1, <3>2
    <2> QED BY <1>5, <2>1, <2>2 DEF HandlePoll
  <1>6. CASE c.kind = "heartbeat" /\ HandleHeartbeat(c, t)
    <2>1. CASE Reply(t, Rejected)
      BY <1>1, <1>2, <2>1
    <2>2. CASE Reply(t, Ok(None, None, Active(JobNow, c.job) /\ ~Stops(JobNow, c.job, c.ready)))
      <3> DEFINE yes == Active(JobNow, c.job) /\ ~Stops(JobNow, c.job, c.ready)
      <3>1. yes \in BOOLEAN
        BY <1>0, ExpireTypes DEF Active, Stops, Job, CallSet
      <3> HIDE DEF yes
      <3>2. Reply(t, Ok(None, None, yes))
        BY <2>2 DEF yes
      <3>3. Told(Ok(None, None, yes))
        BY <1>3, <1>6, <3>1, <3>2
      <3> QED BY <1>1, <3>1, <3>3
    <2> QED BY <1>6, <2>1, <2>2 DEF HandleHeartbeat
  <1>7. CASE c.kind = "result" /\ HandleResult(c, t)
    <2>1. CASE Reply(t, Rejected)
      BY <1>1, <1>2, <2>1
    <2>2. CASE \E yes \in BOOLEAN : Reply(t, Ok(None, None, yes))
      BY <1>1, <1>3, <1>7, <2>2
    <2> QED BY <1>7, <2>1, <2>2 DEF HandleResult
  <1> QED BY <1>4, <1>5, <1>6, <1>7 DEF Handle

NetworkStep ==
  \/ \E t \in W!Threads : Deliver(t) \/ LoseCall(t) \/ OvertakeCall(t)
  \/ DeliverWaits \/ WakeAndReply
  \/ \E c \in ghosts : Haunt(c)
  \/ RelayRestart

LEMMA NetworkKeeps ==
  ASSUME RelayInv, WorkerInv, NetworkStep, [Next]_vars
  PROVE  WorkerInv'
  <1>0. issued \subseteq issued'
    BY RelayKeeps
  <1>1. /\ \A c \in ghosts : c \in CallSet /\ Honest(c)
        /\ \A t \in W!Threads : calls[t] # None => calls[t] \in CallSet /\ Honest(calls[t])
        /\ calls \in [W!Threads -> CallSet \cup {None}]
    BY DEF WorkerInv, WorkerTypes, Calling
  <1>2. /\ Rejected \in ReplySet /\ Rejected.outcome # "ok"
        /\ Lost \in ReplySet /\ Lost.outcome # "ok"
    BY DEF Rejected, Lost, W!Reply, ReplySet
  <1>3. ASSUME NEW t \in W!Threads, Deliver(t) PROVE WorkerInv'
    <2>1. PICK reply \in ReplySet :
             /\ Reply(t, reply)
             /\ calls[t].kind = "connect" /\ reply.outcome = "ok" => reply.own \in issued'
      BY <1>1, <1>3, HandleAnswers DEF Deliver
    <2> QED BY <1>0, <1>1, <1>3, <2>1, ReplyFollows DEF Deliver
  <1>4. ASSUME NEW t \in W!Threads, LoseCall(t) \/ OvertakeCall(t) PROVE WorkerInv'
    <2>1. OnlyCalls /\ Reply(t, Lost) /\ calls[t] # None
      BY <1>4 DEF LoseCall, OvertakeCall, Fails
    <2>2. \A c \in ghosts' : c \in CallSet /\ Honest(c)
      BY <1>1, <1>4 DEF LoseCall, OvertakeCall
    <2> QED BY <1>0, <1>2, <2>1, <2>2, ReplyFollows
  <1>5. CASE DeliverWaits
    <2> DEFINE new == [calls["run"] EXCEPT !.at = "waiting"]
    <2>1. calls["run"] # None /\ calls["run"] \in CallSet /\ Honest(calls["run"])
      BY <1>1, <1>5 DEF DeliverWaits, W!Threads
    <2>2. Follows(new, calls["run"]) /\ new \in CallSet /\ new.at = "waiting"
      BY <2>1 DEF Follows, CallSet
    <2>3. calls' = [calls EXCEPT !["run"] = new]
      BY <1>5 DEF DeliverWaits
    <2>7. calls["run"].kind = "poll"
      BY <1>5 DEF DeliverWaits
    <2> HIDE DEF new
    <2>4. /\ calls' \in [W!Threads -> CallSet \cup {None}] /\ calls'["run"] = new
          /\ calls'["beat"] = calls["beat"]
      BY <1>1, <2>2, <2>3 DEF W!Threads
    <2>5. Honest(calls["run"])'
      BY <1>0, <2>1, <2>2, <2>4, <2>7 DEF Honest, PartOfAnswer, Follows
    <2>6. OnlyCalls /\ ghosts' = ghosts
      BY <1>5 DEF DeliverWaits
    <2> QED BY <1>0, <1>1, <2>1, <2>2, <2>4, <2>5, <2>6, CallsFollow DEF W!Threads
  <1>6. CASE WakeAndReply
    <2>1. Ok(None, None, FALSE) \in ReplySet /\ (WakeClaim => Ok(None, job.id, FALSE) \in ReplySet)
      BY ExpireTypes DEF Ok, W!Reply, ReplySet, WakeClaim, Claim, Claimable, RelayInv, TypeOK, Job
    <2>2. PICK reply \in ReplySet : WakeReply(reply)
      BY <1>2, <1>6, <2>1 DEF WakeAndReply
    <2>3. Waiting => calls["run"] # None /\ calls["run"].kind = "poll"
      BY <1>1 DEF Waiting, Honest, W!Threads
    <2>4. OnlyCalls /\ ghosts' = ghosts
      BY <1>6 DEF WakeAndReply
    <2> QED BY <1>0, <1>1, <2>2, <2>3, <2>4, ReplyFollows DEF WakeReply, W!Threads
  <1>7. ASSUME NEW c \in ghosts, Haunt(c) PROVE WorkerInv'
    <2>1. OnlyCalls /\ ghosts' \subseteq ghosts
      BY <1>7 DEF Haunt
    <2>2. CASE Handle(c, Nobody)
      <3>1. PICK reply \in ReplySet : Reply(Nobody, reply)
        BY <1>1, <2>2, HandleAnswers
      <3> QED BY <1>0, <1>1, <2>1, <3>1, ReplyFollows
    <2>3. CASE calls' = calls
      BY <1>0, <1>1, <2>1, <2>3, CallsFollow
    <2> QED BY <1>7, <2>2, <2>3 DEF Haunt
  <1>8. CASE RelayRestart
    <2>1. WakeReply(Lost) /\ OnlyCalls /\ ghosts' = ghosts
      BY <1>8 DEF RelayRestart
    <2> QED BY <1>0, <1>1, <1>2, <2>1, ReplyFollows DEF WakeReply, Waiting, W!Threads
  <1> QED BY <1>3, <1>4, <1>5, <1>6, <1>7, <1>8 DEF NetworkStep

----------------------------------------------------------------------------
(* What the worker does by itself.                                           *)

LEMMA WireTypes ==
  ASSUME NEW o \in OwnerObj
  PROVE  W!Wire(o) \in Owner
  BY DEF W!Wire, OwnerObj, Owner

LEMMA PollTypes ==
  ASSUME boot \in Boots, NEW o \in OwnerObj, W!Wire(o) \in issued
  PROVE  LET c == W!Call("poll", W!Wire(o))
         IN  c \in CallSet /\ c.kind = "poll" /\ Honest(c)
  BY WireTypes, FailureTypes DEF W!Call, CallSet, Honest

LEMMA ConnectTypes ==
  ASSUME boot \in Boots, NEW verified \in BOOLEAN
  PROVE  LET c == [W!Call("connect", None) EXCEPT !.ready = verified]
         IN  c \in CallSet /\ c.kind = "connect" /\ Honest(c)
  BY FailureTypes DEF W!Call, CallSet, Honest

LEMMA BeatTypes ==
  ASSUME boot \in Boots, NEW o \in OwnerObj, W!Wire(o) \in issued,
         NEW j \in Requests \cup {None}, NEW yes \in BOOLEAN
  PROVE  LET c == W!Beat(o, j, yes)
         IN  c \in CallSet /\ c.kind = "heartbeat" /\ Honest(c)
  BY WireTypes, FailureTypes DEF W!Call, W!Beat, CallSet, Honest

LEMMA ResultTypes ==
  ASSUME boot \in Boots, NEW o \in OwnerObj, W!Wire(o) \in issued,
         NEW j \in Requests, NEW seq \in Nat, NEW e \in Event,
         seq < Len(Answer), e = W!Failure \/ e = Answer[seq + 1]
  PROVE  LET c == W!Result(o, j, seq, e)
         IN  c \in CallSet /\ c.kind = "result" /\ c.seq = seq /\ c.event = e /\ Honest(c)
  BY WireTypes, FailureTypes DEF W!Call, W!Result, CallSet, Honest, PartOfAnswer

LEMMA PutCall ==
  ASSUME WorkerInv, UNCHANGED <<ghosts, issued>>, NEW t \in W!Threads,
         NEW c \in CallSet, Honest(c), t = "beat" => c.kind = "heartbeat",
         calls' = [calls EXCEPT ![t] = c]
  PROVE  /\ Calling' /\ calls' \in [W!Threads -> CallSet \cup {None}]
         /\ calls'[t] = c /\ calls'[t] # None
         /\ \A u \in W!Threads : u # t => calls'[u] = calls[u]
  <1>1. calls \in [W!Threads -> CallSet \cup {None}]
    BY DEF WorkerInv, WorkerTypes
  <1>2. /\ calls' \in [W!Threads -> CallSet \cup {None}] /\ calls'[t] = c /\ calls'[t] # None
        /\ \A u \in W!Threads : u # t => calls'[u] = calls[u]
    BY <1>1, NoneAssumption
  <1>3. \A u \in W!Threads : calls'[u] # None => Honest(calls[u])'
    BY <1>2 DEF WorkerInv, Calling, Honest
  <1>4. \A d \in ghosts' : Honest(d)'
    BY DEF WorkerInv, Calling, Honest
  <1>5. calls'["beat"] # None => calls'["beat"].kind = "heartbeat"
    BY <1>2 DEF WorkerInv, Calling, W!Threads
  <1> QED BY <1>2, <1>3, <1>4, <1>5 DEF Calling

LEMMA DropCall ==
  ASSUME WorkerInv, UNCHANGED <<ghosts, issued>>, NEW t \in W!Threads,
         calls' = [calls EXCEPT ![t] = None]
  PROVE  /\ Calling' /\ calls' \in [W!Threads -> CallSet \cup {None}] /\ calls'[t] = None
         /\ \A u \in W!Threads : u # t => calls'[u] = calls[u]
  <1>1. calls \in [W!Threads -> CallSet \cup {None}]
    BY DEF WorkerInv, WorkerTypes
  <1>2. /\ calls' \in [W!Threads -> CallSet \cup {None}] /\ calls'[t] = None
        /\ \A u \in W!Threads : u # t => calls'[u] = calls[u]
    BY <1>1
  <1>3. \A u \in W!Threads : calls'[u] # None => Honest(calls[u])'
    BY <1>2 DEF WorkerInv, Calling, Honest
  <1>4. \A d \in ghosts' : Honest(d)'
    BY DEF WorkerInv, Calling, Honest
  <1>5. calls'["beat"] # None => calls'["beat"].kind = "heartbeat"
    BY <1>2 DEF WorkerInv, Calling, W!Threads
  <1> QED BY <1>2, <1>3, <1>4, <1>5 DEF Calling

LEMMA KeepCalls ==
  ASSUME WorkerInv, UNCHANGED <<ghosts, issued, calls>>
  PROVE  Calling' /\ calls' \in [W!Threads -> CallSet \cup {None}]
  BY DEF WorkerInv, WorkerTypes, Calling, Honest

LEMMA FreshType == WorkerTypes => W!Fresh \in 1..3
  <1> SUFFICES ASSUME WorkerTypes PROVE W!Fresh \in 1..3
    OBVIOUS
  <1>1. \A a, b \in 1..3 : \E n \in 1..3 : a # n /\ b # n
    OBVIOUS
  <1>2. /\ owner # None => owner.made \in 1..3
        /\ beat # None => beat.own.made \in 1..3
    BY DEF WorkerTypes, OwnerObj
  <1>3. \E n \in 1..3 : /\ owner # None => owner.made # n
                        /\ beat # None => beat.own.made # n
    <2> DEFINE a == IF owner # None THEN owner.made ELSE 1
               b == IF beat # None THEN beat.own.made ELSE 1
    <2>1. a \in 1..3 /\ b \in 1..3
      BY <1>2
    <2>2. PICK n \in 1..3 : a # n /\ b # n
      BY <1>1, <2>1
    <2> QED BY <2>2
  <1> QED BY <1>3 DEF W!Fresh

LEMMA GoToTypes ==
  ASSUME WorkerTypes, NEW stage \in RunStages, run' = [run EXCEPT !.at = stage]
  PROVE  /\ run' \in [at : RunStages, own : OwnerObj \cup {None}, pos : Nat, seq : Nat]
         /\ run'.at = stage /\ run'.own = run.own /\ run'.pos = run.pos /\ run'.seq = run.seq
  BY DEF WorkerTypes

LEMMA TopTypes ==
  ASSUME run' = [W!Off EXCEPT !.at = "top"]
  PROVE  /\ run' \in [at : RunStages, own : OwnerObj \cup {None}, pos : Nat, seq : Nat]
         /\ run'.at = "top"
  BY DEF W!Off, RunStages

\* The run thread waits for nothing at a stage without a call.
Idling == {"off", "top", "infer", "generating", "giveUp", "finished", "reset", "clear"}

LEMMA LoopKeeps ==
  ASSUME WorkerInv, WorkerAlone, NEW verified \in BOOLEAN, W!Loop(verified)
  PROVE  WorkerInv'
  <1>0. /\ boot \in Boots /\ UNCHANGED <<boot, owner, running, stopping, beat, inferred>>
        /\ UNCHANGED <<ghosts, issued>> /\ ready' = verified /\ "run" \in W!Threads
    BY DEF W!Loop, WorkerInv, Working, WorkerAlone, vars, W!Threads
  <1>1. CASE owner = None
    <2> DEFINE c == [W!Call("connect", None) EXCEPT !.ready = verified]
    <2>1. c \in CallSet /\ c.kind = "connect" /\ Honest(c)
      BY <1>0, ConnectTypes
    <2>2. calls' = [calls EXCEPT !["run"] = c]
      BY <1>1 DEF W!Loop
    <2>3. run' = [run EXCEPT !.at = "connect"]
      BY <1>1 DEF W!Loop, W!GoTo
    <2>4. /\ run' \in [at : RunStages, own : OwnerObj \cup {None}, pos : Nat, seq : Nat]
          /\ run'.at = "connect"
      BY <2>3, GoToTypes DEF WorkerInv, RunStages
    <2> HIDE DEF c
    <2>5. /\ Calling' /\ calls' \in [W!Threads -> CallSet \cup {None}]
          /\ calls'["run"] = c /\ calls'["run"] # None
      BY <1>0, <2>1, <2>2, PutCall
    <2>6. WorkerTypes'
      BY <1>0, <2>4, <2>5 DEF WorkerInv, WorkerTypes
    <2>7. Working'
      BY <1>0, <1>1, <2>1, <2>4, <2>5 DEF Working
    <2> QED BY <2>5, <2>6, <2>7 DEF WorkerInv
  <1>2. CASE owner # None
    <2> DEFINE c == W!Call("poll", W!Wire(owner))
    <2>1. owner \in OwnerObj /\ W!Wire(owner) \in issued
      BY <1>2 DEF WorkerInv, WorkerTypes, Working
    <2>2. c \in CallSet /\ c.kind = "poll" /\ Honest(c)
      BY <1>0, <2>1, PollTypes
    <2>3. calls' = [calls EXCEPT !["run"] = c] /\ run' = [run EXCEPT !.at = "poll", !.own = owner]
      BY <1>2 DEF W!Loop
    <2>4. /\ run' \in [at : RunStages, own : OwnerObj \cup {None}, pos : Nat, seq : Nat]
          /\ run'.at = "poll" /\ run'.own = owner
      BY <2>1, <2>3 DEF WorkerInv, WorkerTypes, RunStages
    <2> HIDE DEF c
    <2>5. /\ Calling' /\ calls' \in [W!Threads -> CallSet \cup {None}]
          /\ calls'["run"] = c /\ calls'["run"] # None
      BY <1>0, <2>2, <2>3, PutCall
    <2>6. WorkerTypes'
      BY <1>0, <2>4, <2>5 DEF WorkerInv, WorkerTypes
    <2>7. W!Wire(owner)' = W!Wire(owner) /\ W!Wire(run.own)' = W!Wire(owner)
      BY <1>0, <2>4 DEF W!Wire
    <2>8. Working'
      BY <1>0, <1>2, <2>1, <2>2, <2>4, <2>5, <2>7 DEF Working
    <2> QED BY <2>5, <2>6, <2>8 DEF WorkerInv
  <1> QED BY <1>1, <1>2

LEMMA ConnectedKeeps ==
  ASSUME TypeOK, WorkerInv, WorkerAlone, W!Connected
  PROVE  WorkerInv'
  <1> DEFINE own == W!ReplyTo("run").own
             o == [epoch |-> own.epoch, boot |-> own.boot, lease |-> own.lease, made |-> W!Fresh]
             c == W!Call("poll", W!Wire(o))
  <1>0. /\ boot \in Boots /\ UNCHANGED <<boot, ready, running, stopping, beat, inferred>>
        /\ UNCHANGED <<ghosts, issued>> /\ "run" \in W!Threads
    BY DEF W!Connected, WorkerInv, Working, WorkerAlone, vars, W!Threads
  <1>1. own \in issued /\ own \in Owner
    <2>1. calls["run"] # None /\ calls["run"].kind = "connect" /\ calls["run"].at = "answered"
      BY DEF W!Connected, W!Answered, WorkerInv, Working
    <2>2. Honest(calls["run"]) /\ calls["run"] \in CallSet
      BY <1>0, <2>1 DEF WorkerInv, WorkerTypes, Calling
    <2>3. calls["run"].reply.outcome = "ok"
      BY DEF W!Connected, W!ReplyTo
    <2>4. own \in issued /\ calls["run"].reply \in ReplySet
      BY <2>1, <2>2, <2>3 DEF Honest, W!ReplyTo
    <2>5. issued \subseteq Owner
      BY DEF TypeOK
    <2> QED BY <2>4, <2>5
  <1>2. o \in OwnerObj /\ W!Wire(o) = own
    BY <1>1, FreshType DEF Owner, OwnerObj, W!Wire, WorkerInv
  <1>3. c \in CallSet /\ c.kind = "poll" /\ Honest(c)
    BY <1>0, <1>1, <1>2, PollTypes
  <1>4. /\ owner' = o /\ calls' = [calls EXCEPT !["run"] = c]
        /\ run' = [run EXCEPT !.at = "poll", !.own = o]
    BY DEF W!Connected
  <1>5. /\ run' \in [at : RunStages, own : OwnerObj \cup {None}, pos : Nat, seq : Nat]
        /\ run'.at = "poll" /\ run'.own = o
    BY <1>2, <1>4 DEF WorkerInv, WorkerTypes, RunStages
  <1> HIDE DEF c, o, own
  <1>6. /\ Calling' /\ calls' \in [W!Threads -> CallSet \cup {None}]
        /\ calls'["run"] = c /\ calls'["run"] # None
    BY <1>0, <1>3, <1>4, PutCall
  <1>7. WorkerTypes'
    BY <1>0, <1>2, <1>4, <1>5, <1>6 DEF WorkerInv, WorkerTypes
  <1>8. W!Wire(owner)' = own /\ W!Wire(run.own)' = own
    BY <1>2, <1>4, <1>5 DEF W!Wire
  <1>9. Working'
    BY <1>0, <1>1, <1>2, <1>3, <1>4, <1>5, <1>6, <1>8, NoneAssumption DEF Working
  <1> QED BY <1>6, <1>7, <1>9 DEF WorkerInv

\* The run thread comes to a stage at which it waits for nothing.
LEMMA IdlingKeeps ==
  ASSUME WorkerInv, UNCHANGED <<ghosts, issued, boot, beat>>, owner' \in {owner, None},
         \/ calls' = [calls EXCEPT !["run"] = None]
         \/ calls' = calls /\ run.at \in Idling,
         run' \in [at : RunStages, own : OwnerObj \cup {None}, pos : Nat, seq : Nat],
         run'.at \in Idling, run.at # "off",
         run'.at \in {"infer", "generating", "giveUp"} =>
             run'.own # None /\ W!Wire(run'.own) \in issued /\ running' \in Requests,
         run'.at = "generating" => run'.pos = run'.seq /\ run'.seq < Len(Answer),
         running' \in Requests \cup {None}, stopping' \in BOOLEAN, ready' \in BOOLEAN,
         inferred' \in [Requests -> Nat]
  PROVE  WorkerInv'
  <1>1. Calling' /\ calls' \in [W!Threads -> CallSet \cup {None}] /\ calls'["run"] = None
    <2>1. CASE calls' = [calls EXCEPT !["run"] = None]
      BY <2>1, DropCall DEF W!Threads
    <2>2. CASE calls' = calls /\ run.at \in Idling
      BY <2>2, KeepCalls DEF Idling, WorkerInv, Working
    <2> QED BY <2>1, <2>2
  <1>2. WorkerTypes'
    BY <1>1 DEF WorkerInv, WorkerTypes
  <1>3. boot' \in Boots /\ (owner' # None => W!Wire(owner)' \in issued')
    BY DEF WorkerInv, Working, W!Wire
  <1>4. Working'
    BY <1>1, <1>3 DEF Working, Idling, W!Wire
  <1> QED BY <1>1, <1>2, <1>4 DEF WorkerInv

\* The poll and what precedes it.
LEMMA PollKeeps ==
  ASSUME WorkerInv, WorkerAlone,
         \/ W!ConnectFailed \/ W!PollEmpty \/ W!PollJob \/ W!PollFailed
  PROVE  WorkerInv'
  <1>0. /\ UNCHANGED <<ghosts, issued>> /\ WorkerTypes
        /\ running \in Requests \cup {None} /\ stopping \in BOOLEAN /\ ready \in BOOLEAN
        /\ inferred \in [Requests -> Nat] /\ WorkerInv
        /\ {"reset", "infer", "top"} \subseteq RunStages \cap Idling
    BY DEF WorkerAlone, vars, WorkerInv, WorkerTypes, RunStages, Idling
  <1>1. CASE W!ConnectFailed \/ W!PollFailed
    <2>1. run' = [run EXCEPT !.at = "reset"] /\ calls' = [calls EXCEPT !["run"] = None]
      BY <1>1 DEF W!ConnectFailed, W!PollFailed, W!GoTo
    <2>2. UNCHANGED <<boot, owner, ready, running, stopping, beat, inferred>> /\ run.at # "off"
      BY <1>1 DEF W!ConnectFailed, W!PollFailed
    <2>3. /\ run' \in [at : RunStages, own : OwnerObj \cup {None}, pos : Nat, seq : Nat]
          /\ run'.at = "reset"
      BY <1>0, <2>1, GoToTypes
    <2> QED BY <1>0, <2>1, <2>2, <2>3, IdlingKeeps
  <1>2. CASE W!PollEmpty
    <2>1. run' = [W!Off EXCEPT !.at = "top"] /\ calls' = [calls EXCEPT !["run"] = None]
      BY <1>2 DEF W!PollEmpty
    <2>2. UNCHANGED <<boot, owner, ready, running, stopping, beat, inferred>> /\ run.at # "off"
      BY <1>2 DEF W!PollEmpty
    <2>3. /\ run' \in [at : RunStages, own : OwnerObj \cup {None}, pos : Nat, seq : Nat]
          /\ run'.at = "top"
      BY <2>1, TopTypes
    <2> QED BY <1>0, <2>1, <2>2, <2>3, IdlingKeeps
  <1>3. CASE W!PollJob
    <2>1. /\ calls' = [calls EXCEPT !["run"] = None] /\ run.at = "poll"
          /\ UNCHANGED <<boot, owner, ready, beat, inferred>>
      BY <1>3 DEF W!PollJob
    <2>2. run.own # None /\ W!Wire(run.own) \in issued
      BY <2>1 DEF WorkerInv, Working
    <2>3. W!ReplyTo("run").job \in Requests
      <3>1. calls["run"] \in CallSet /\ Honest(calls["run"]) /\ calls["run"].at = "answered"
        BY <1>3 DEF W!PollJob, W!Answered, W!Threads, WorkerInv, WorkerTypes, Calling
      <3>2. calls["run"].reply \in ReplySet /\ calls["run"].reply.job # None
        BY <1>3, <3>1 DEF Honest, W!PollJob, W!ReplyTo
      <3> QED BY <3>2 DEF ReplySet, W!ReplyTo
    <2>4. CASE owner = run.own /\ running' = W!ReplyTo("run").job /\ stopping' = FALSE /\ W!GoTo("infer")
      <3>1. /\ run' \in [at : RunStages, own : OwnerObj \cup {None}, pos : Nat, seq : Nat]
            /\ run'.at = "infer" /\ run'.own = run.own
        BY <1>0, <2>4, GoToTypes DEF W!GoTo
      <3> QED BY <1>0, <2>1, <2>2, <2>3, <2>4, <3>1, IdlingKeeps
    <2>5. CASE W!GoTo("reset") /\ UNCHANGED <<running, stopping>>
      <3>1. /\ run' \in [at : RunStages, own : OwnerObj \cup {None}, pos : Nat, seq : Nat]
            /\ run'.at = "reset"
        BY <1>0, <2>5, GoToTypes DEF W!GoTo
      <3> QED BY <1>0, <2>1, <2>5, <3>1, IdlingKeeps
    <2> QED BY <1>3, <2>4, <2>5 DEF W!PollJob
  <1> QED BY <1>1, <1>2, <1>3

LEMMA ConnectRejectedKeeps ==
  ASSUME WorkerInv, WorkerAlone, W!ConnectRejected
  PROVE  WorkerInv'
  <1> DEFINE c == [W!Call("connect", None) EXCEPT !.ready = ready]
  <1>0. /\ boot \in Boots /\ UNCHANGED <<boot, owner, ready, running, stopping, beat, inferred>>
        /\ UNCHANGED <<ghosts, issued>> /\ "run" \in W!Threads /\ ready \in BOOLEAN
    BY DEF W!ConnectRejected, WorkerInv, WorkerTypes, Working, WorkerAlone, vars, W!Threads
  <1>1. c \in CallSet /\ c.kind = "connect" /\ Honest(c)
    BY <1>0, ConnectTypes
  <1>2. calls' = [calls EXCEPT !["run"] = c] /\ run' = [run EXCEPT !.at = "legacy"]
    BY DEF W!ConnectRejected, W!GoTo
  <1>3. /\ run' \in [at : RunStages, own : OwnerObj \cup {None}, pos : Nat, seq : Nat]
        /\ run'.at = "legacy"
    BY <1>2, GoToTypes DEF WorkerInv, RunStages
  <1> HIDE DEF c
  <1>4. /\ Calling' /\ calls' \in [W!Threads -> CallSet \cup {None}]
        /\ calls'["run"] = c /\ calls'["run"] # None
    BY <1>0, <1>1, <1>2, PutCall
  <1>5. WorkerTypes'
    BY <1>0, <1>3, <1>4 DEF WorkerInv, WorkerTypes
  <1>6. W!Wire(owner)' = W!Wire(owner)
    BY <1>0 DEF W!Wire
  <1>7. Working'
    BY <1>0, <1>1, <1>3, <1>4, <1>6 DEF WorkerInv, Working
  <1> QED BY <1>4, <1>5, <1>7 DEF WorkerInv

\* A result is sent, or refused locally.
LEMMA SendKeeps ==
  ASSUME WorkerInv, WorkerAlone, run.at \in {"generating", "sending"},
         NEW pos \in Nat, NEW e \in Event, W!SendAt(pos, e),
         run.seq < Len(Answer),
         e = W!Failure \/ (e = Answer[run.seq + 1] /\ pos = run.seq + 1),
         UNCHANGED <<boot, owner, ready, running, stopping, beat, inferred>>
  PROVE  WorkerInv'
  <1>0. /\ boot \in Boots /\ UNCHANGED <<ghosts, issued>> /\ "run" \in W!Threads
        /\ running \in Requests /\ stopping \in BOOLEAN /\ ready \in BOOLEAN
        /\ run.own # None /\ run.own \in OwnerObj /\ W!Wire(run.own) \in issued
        /\ run.seq \in Nat /\ inferred \in [Requests -> Nat] /\ run.at # "off"
    BY DEF WorkerInv, WorkerTypes, Working, WorkerAlone, vars, W!Threads
  <1>1. CASE stopping
    <2>1. calls' = [calls EXCEPT !["run"] = None] /\ run' = [run EXCEPT !.at = "giveUp", !.pos = pos]
      BY <1>1 DEF W!SendAt
    <2>2. /\ run' \in [at : RunStages, own : OwnerObj \cup {None}, pos : Nat, seq : Nat]
          /\ run'.at = "giveUp" /\ run'.own = run.own
      BY <2>1 DEF WorkerInv, WorkerTypes, RunStages
    <2> QED BY <1>0, <2>1, <2>2, IdlingKeeps DEF Idling
  <1>2. CASE ~stopping
    <2> DEFINE c == W!Result(run.own, running, run.seq, e)
    <2>1. c \in CallSet /\ c.kind = "result" /\ c.seq = run.seq /\ c.event = e /\ Honest(c)
      BY <1>0, ResultTypes
    <2>2. calls' = [calls EXCEPT !["run"] = c] /\ run' = [run EXCEPT !.at = "sending", !.pos = pos]
      BY <1>2 DEF W!SendAt
    <2>3. /\ run' \in [at : RunStages, own : OwnerObj \cup {None}, pos : Nat, seq : Nat]
          /\ run'.at = "sending" /\ run'.own = run.own /\ run'.pos = pos /\ run'.seq = run.seq
      BY <2>2 DEF WorkerInv, WorkerTypes, RunStages
    <2> HIDE DEF c
    <2>4. /\ Calling' /\ calls' \in [W!Threads -> CallSet \cup {None}]
          /\ calls'["run"] = c /\ calls'["run"] # None
      BY <1>0, <2>1, <2>2, PutCall
    <2>5. WorkerTypes'
      BY <1>0, <2>3, <2>4 DEF WorkerInv, WorkerTypes
    <2>6. W!Wire(owner)' = W!Wire(owner) /\ W!Wire(run.own)' = W!Wire(run.own)
      BY <1>0, <2>3 DEF W!Wire
    <2>7. W!Failure' = W!Failure
      BY DEF W!Failure
    <2>8. Working'
      BY <1>0, <2>1, <2>3, <2>4, <2>6, <2>7 DEF WorkerInv, Working
    <2> QED BY <2>4, <2>5, <2>8 DEF WorkerInv
  <1> QED BY <1>0, <1>1, <1>2

LEMMA InferKeeps ==
  ASSUME WorkerInv, WorkerAlone,
         \/ W!InferRefuse \/ W!InferOpen \/ W!Generate \/ W!GenerateFails
         \/ W!SendAccepted \/ W!SendFull \/ W!OutOfTime \/ W!SendFailed
  PROVE  WorkerInv'
  <1>0. /\ UNCHANGED <<ghosts, issued>> /\ WorkerTypes /\ WorkerInv
        /\ running \in Requests \cup {None} /\ stopping \in BOOLEAN /\ ready \in BOOLEAN
        /\ inferred \in [Requests -> Nat]
        /\ {"generating", "giveUp", "finished"} \subseteq RunStages \cap Idling
        /\ run \in [at : RunStages, own : OwnerObj \cup {None}, pos : Nat, seq : Nat]
        /\ W!Failure \in Event
    BY FailureTypes DEF WorkerAlone, vars, WorkerInv, WorkerTypes, RunStages, Idling, Results
  <1>1. run.at \in {"infer", "generating", "sending"} =>
           run.own # None /\ W!Wire(run.own) \in issued /\ running \in Requests
    BY DEF WorkerInv, Working
  <1>2. run.at = "sending" =>
           /\ calls["run"] # None /\ calls["run"].seq = run.seq /\ PartOfAnswer(calls["run"])
           /\ calls["run"] \in CallSet /\ calls["run"].event \in Event
           /\ calls["run"].event = W!Failure \/ run.pos = run.seq + 1
    BY DEF WorkerInv, WorkerTypes, Calling, Working, Honest, W!Threads, CallSet
  <1>3. run.at = "generating" =>
           /\ run.pos = run.seq /\ run.seq < Len(Answer) /\ Answer[run.pos + 1] \in Event
           /\ calls["run"] = None
    <2>1. run.pos \in Nat /\ Len(Answer) \in Nat
      BY <1>0, AnswerAssumption
    <2>2. \A i \in 1..Len(Answer) : Answer[i] \in Event
      BY AnswerAssumption DEF Results
    <2> QED BY <2>1, <2>2 DEF WorkerInv, Working
  <1>4. CASE W!InferRefuse
    <2>1. /\ run' = [run EXCEPT !.at = "giveUp"] /\ run.at = "infer" /\ calls' = calls
          /\ UNCHANGED <<boot, owner, ready, running, stopping, beat, inferred>>
      BY <1>4 DEF W!InferRefuse, W!GoTo
    <2>2. /\ run' \in [at : RunStages, own : OwnerObj \cup {None}, pos : Nat, seq : Nat]
          /\ run'.at = "giveUp" /\ run'.own = run.own
      BY <1>0, <2>1, GoToTypes
    <2> QED BY <1>0, <1>1, <2>1, <2>2, IdlingKeeps DEF Idling
  <1>5. CASE W!InferOpen
    <2>1. /\ run' = [run EXCEPT !.at = "generating", !.pos = 0, !.seq = 0]
          /\ run.at = "infer" /\ calls' = calls
          /\ UNCHANGED <<boot, owner, ready, running, stopping, beat>>
          /\ inferred' = [inferred EXCEPT ![running] = @ + 1]
      BY <1>5 DEF W!InferOpen
    <2>2. /\ run' \in [at : RunStages, own : OwnerObj \cup {None}, pos : Nat, seq : Nat]
          /\ run'.at = "generating" /\ run'.own = run.own /\ run'.pos = 0 /\ run'.seq = 0
      BY <1>0, <2>1
    <2>3. inferred' \in [Requests -> Nat]
      BY <1>0, <1>1, <2>1
    <2>4. 0 < Len(Answer)
      BY AnswerAssumption
    <2> QED BY <1>0, <1>1, <2>1, <2>2, <2>3, <2>4, IdlingKeeps DEF Idling
  <1>6. CASE W!Generate
    BY <1>0, <1>3, <1>6, SendKeeps DEF W!Generate
  <1>7. CASE W!GenerateFails
    BY <1>0, <1>3, <1>7, SendKeeps DEF W!GenerateFails, W!Send
  <1>8. CASE W!SendFull
    <2>1. /\ run.at = "sending" /\ W!SendAt(run.pos, calls["run"].event)
          /\ UNCHANGED <<boot, owner, ready, running, stopping, beat, inferred>>
      BY <1>8 DEF W!SendFull, W!Send, W!Sent
    <2> QED BY <1>0, <1>2, <2>1, SendKeeps DEF PartOfAnswer
  <1>9. CASE W!OutOfTime
    <2>1. /\ run' = [run EXCEPT !.at = "giveUp"] /\ run.at \in {"generating", "sending"}
          /\ calls' = [calls EXCEPT !["run"] = None]
          /\ UNCHANGED <<boot, owner, ready, running, stopping, beat, inferred>>
      BY <1>9 DEF W!OutOfTime, W!GoTo
    <2>2. /\ run' \in [at : RunStages, own : OwnerObj \cup {None}, pos : Nat, seq : Nat]
          /\ run'.at = "giveUp" /\ run'.own = run.own
      BY <1>0, <2>1, GoToTypes
    <2> QED BY <1>0, <1>1, <2>1, <2>2, IdlingKeeps
  <1>10. CASE W!SendFailed
    <2>1. /\ run.at = "sending"
          /\ UNCHANGED <<boot, owner, ready, running, stopping, beat, inferred>>
      BY <1>10 DEF W!SendFailed
    <2>2. CASE W!GoTo("giveUp") /\ calls' = [calls EXCEPT !["run"] = None]
      <3>1. /\ run' \in [at : RunStages, own : OwnerObj \cup {None}, pos : Nat, seq : Nat]
            /\ run'.at = "giveUp" /\ run'.own = run.own
        BY <1>0, <2>2, GoToTypes DEF W!GoTo
      <3> QED BY <1>0, <1>1, <2>1, <2>2, <3>1, IdlingKeeps
    <2>3. CASE W!Send(W!Failure)
      BY <1>0, <1>2, <2>1, <2>3, SendKeeps DEF W!Send, PartOfAnswer
    <2> QED BY <1>10, <2>2, <2>3 DEF W!SendFailed
  <1>11. CASE W!SendAccepted
    <2> DEFINE sent == calls["run"].event
               stage == CASE ~sent.done -> "generating"
                          [] sent.done /\ ~sent.error -> "finished"
                          [] sent.done /\ sent.error -> "giveUp"
    <2>1. /\ run.at = "sending" /\ calls' = [calls EXCEPT !["run"] = None]
          /\ UNCHANGED <<boot, owner, ready, running, stopping, beat, inferred>>
          /\ run' = [run EXCEPT !.seq = @ + 1, !.at = stage]
      BY <1>11 DEF W!SendAccepted, W!Sent
    <2>2. sent.done \in BOOLEAN /\ sent.error \in BOOLEAN
      BY <1>2, <2>1 DEF Event
    <2>3. stage \in {"generating", "finished", "giveUp"} /\ (stage = "generating" => ~sent.done)
      BY <2>2
    <2>4. ~sent.done => run.pos = run.seq + 1 /\ run.seq + 1 < Len(Answer)
      <3>1. SUFFICES ASSUME ~sent.done PROVE run.pos = run.seq + 1 /\ run.seq + 1 < Len(Answer)
        OBVIOUS
      <3>2. sent # W!Failure
        BY <3>1 DEF W!Failure
      <3>3. run.pos = run.seq + 1 /\ run.seq < Len(Answer) /\ sent = Answer[run.seq + 1]
        BY <1>2, <2>1, <3>2 DEF PartOfAnswer
      <3>4. run.seq + 1 \in 1..Len(Answer) /\ Len(Answer) \in Nat /\ run.seq \in Nat
        BY <1>0, <3>3, AnswerAssumption
      <3>5. run.seq + 1 # Len(Answer)
        BY <3>1, <3>3, <3>4, AnswerAssumption
      <3> QED BY <3>3, <3>4, <3>5
    <2> HIDE DEF stage, sent
    <2>5. /\ run' \in [at : RunStages, own : OwnerObj \cup {None}, pos : Nat, seq : Nat]
          /\ run'.at = stage /\ run'.own = run.own /\ run'.pos = run.pos /\ run'.seq = run.seq + 1
      <3>1. stage \in RunStages
        BY <2>3 DEF RunStages
      <3>2. run.seq \in Nat /\ run.seq + 1 \in Nat
        BY <1>0
      <3> QED BY <1>0, <2>1, <3>1, <3>2
    <2> QED BY <1>0, <1>1, <2>1, <2>3, <2>4, <2>5, IdlingKeeps
  <1> QED BY <1>4, <1>5, <1>6, <1>7, <1>8, <1>9, <1>10, <1>11

LEMMA EndKeeps ==
  ASSUME WorkerInv, WorkerAlone,
         W!Finish \/ W!GiveUp \/ W!LastBeatDone \/ W!Reset \/ W!ClearSession
  PROVE  WorkerInv'
  <1>0. /\ UNCHANGED <<ghosts, issued>> /\ WorkerTypes /\ WorkerInv
        /\ running \in Requests \cup {None} /\ stopping \in BOOLEAN /\ ready \in BOOLEAN
        /\ inferred \in [Requests -> Nat] /\ None \in Requests \cup {None}
        /\ {"reset", "clear", "top"} \subseteq RunStages \cap Idling
    BY DEF WorkerAlone, vars, WorkerInv, WorkerTypes, RunStages, Idling
  <1>1. CASE W!Finish
    <2>1. /\ run' = [W!Off EXCEPT !.at = "top"] /\ run.at = "finished" /\ running' = None
          /\ UNCHANGED <<boot, owner, ready, stopping, beat, calls, inferred>>
      BY <1>1 DEF W!Finish
    <2>2. /\ run' \in [at : RunStages, own : OwnerObj \cup {None}, pos : Nat, seq : Nat]
          /\ run'.at = "top"
      BY <2>1, TopTypes
    <2> QED BY <1>0, <2>1, <2>2, IdlingKeeps DEF Idling
  <1>2. CASE W!LastBeatDone
    <2>1. /\ run' = [run EXCEPT !.at = "reset"] /\ run.at = "lastBeat" /\ running' = None
          /\ calls' = [calls EXCEPT !["run"] = None]
          /\ UNCHANGED <<boot, owner, ready, stopping, beat, inferred>>
      BY <1>2 DEF W!LastBeatDone, W!GoTo
    <2>2. /\ run' \in [at : RunStages, own : OwnerObj \cup {None}, pos : Nat, seq : Nat]
          /\ run'.at = "reset"
      BY <1>0, <2>1, GoToTypes
    <2> QED BY <1>0, <2>1, <2>2, IdlingKeeps
  <1>3. CASE W!Reset
    <2>1. /\ run' = [run EXCEPT !.at = "clear"] /\ run.at = "reset"
          /\ stopping' = TRUE /\ ready' = FALSE
          /\ UNCHANGED <<boot, owner, running, beat, calls, inferred>>
      BY <1>3 DEF W!Reset, W!GoTo
    <2>2. /\ run' \in [at : RunStages, own : OwnerObj \cup {None}, pos : Nat, seq : Nat]
          /\ run'.at = "clear"
      BY <1>0, <2>1, GoToTypes
    <2> QED BY <1>0, <2>1, <2>2, IdlingKeeps DEF Idling
  <1>4. CASE W!ClearSession
    <2>1. /\ run' = [W!Off EXCEPT !.at = "top"] /\ run.at = "clear" /\ owner' = None
          /\ UNCHANGED <<boot, ready, running, stopping, beat, calls, inferred>>
      BY <1>4 DEF W!ClearSession
    <2>2. /\ run' \in [at : RunStages, own : OwnerObj \cup {None}, pos : Nat, seq : Nat]
          /\ run'.at = "top"
      BY <2>1, TopTypes
    <2> QED BY <1>0, <2>1, <2>2, IdlingKeeps DEF Idling
  <1>5. CASE W!GiveUp
    <2> DEFINE c == W!Beat(run.own, running, FALSE)
    <2>0. /\ boot \in Boots /\ run.own \in OwnerObj /\ W!Wire(run.own) \in issued
          /\ running \in Requests /\ "run" \in W!Threads
          /\ UNCHANGED <<boot, owner, ready, running, stopping, beat, inferred>>
      BY <1>0, <1>5 DEF W!GiveUp, WorkerInv, WorkerTypes, Working, W!Threads
    <2>1. c \in CallSet /\ c.kind = "heartbeat" /\ Honest(c)
      BY <2>0, BeatTypes
    <2>2. calls' = [calls EXCEPT !["run"] = c] /\ run' = [run EXCEPT !.at = "lastBeat"]
      BY <1>5 DEF W!GiveUp, W!GoTo
    <2>3. /\ run' \in [at : RunStages, own : OwnerObj \cup {None}, pos : Nat, seq : Nat]
          /\ run'.at = "lastBeat"
      BY <1>0, <2>2, GoToTypes DEF RunStages
    <2> HIDE DEF c
    <2>4. /\ Calling' /\ calls' \in [W!Threads -> CallSet \cup {None}]
          /\ calls'["run"] = c /\ calls'["run"] # None
      BY <1>0, <2>0, <2>1, <2>2, PutCall
    <2>5. WorkerTypes'
      BY <1>0, <2>0, <2>3, <2>4 DEF WorkerTypes
    <2>6. W!Wire(owner)' = W!Wire(owner)
      BY <2>0 DEF W!Wire
    <2>7. Working'
      BY <1>0, <2>0, <2>1, <2>3, <2>4, <2>6 DEF WorkerInv, Working
    <2> QED BY <2>4, <2>5, <2>7 DEF WorkerInv
  <1> QED BY <1>1, <1>2, <1>3, <1>4, <1>5

\* The heartbeat thread touches neither the run thread nor its call.
LEMMA BeatKeeps ==
  ASSUME WorkerInv, WorkerAlone, W!BeatStep
  PROVE  WorkerInv'
  <1>0. /\ UNCHANGED <<ghosts, issued, boot, run, running, ready, inferred>> /\ WorkerInv
        /\ WorkerTypes /\ "beat" \in W!Threads /\ "run" \in W!Threads /\ "run" # "beat"
    BY DEF WorkerAlone, vars, WorkerInv, W!BeatStep, W!BeatSend, W!BeatAnswered, W!BeatFailed,
       W!BeatClears, W!Threads
  <1>1. ASSUME calls'["run"] = calls["run"], owner' \in {owner, None} PROVE Working'
    <2>1. W!Wire(run.own)' = W!Wire(run.own) /\ (owner' # None => W!Wire(owner)' = W!Wire(owner))
      BY <1>0, <1>1 DEF W!Wire
    <2> QED BY <1>0, <1>1, <2>1 DEF WorkerInv, Working
  <1>2. CASE W!BeatSend
    <2> DEFINE c == W!Beat(owner, running, ready)
    <2>0. /\ boot \in Boots /\ owner \in OwnerObj /\ W!Wire(owner) \in issued
          /\ running \in Requests \cup {None} /\ ready \in BOOLEAN
          /\ owner' = owner /\ stopping' = stopping /\ beat' = [own |-> owner, job |-> running]
      BY <1>0, <1>2 DEF W!BeatSend, WorkerInv, WorkerTypes, Working
    <2>1. c \in CallSet /\ c.kind = "heartbeat" /\ Honest(c)
      BY <2>0, BeatTypes
    <2>2. calls' = [calls EXCEPT !["beat"] = c]
      BY <1>2 DEF W!BeatSend
    <2> HIDE DEF c
    <2>3. /\ Calling' /\ calls' \in [W!Threads -> CallSet \cup {None}]
          /\ calls'["run"] = calls["run"]
      BY <1>0, <2>1, <2>2, PutCall
    <2>4. WorkerTypes'
      BY <1>0, <2>0, <2>3 DEF WorkerTypes
    <2> QED BY <1>1, <2>0, <2>3, <2>4 DEF WorkerInv
  <1>3. CASE W!BeatAnswered \/ W!BeatFailed
    <2>1. /\ calls' = [calls EXCEPT !["beat"] = None] /\ owner' = owner
          /\ beat' \in {beat, None} /\ beat # None
      BY <1>3 DEF W!BeatAnswered, W!BeatFailed
    <2>2. stopping' \in BOOLEAN
      <3>1. CASE stopping' = TRUE
        BY <3>1
      <3>2. CASE stopping' = (stopping \/ (beat.job # None /\ ~W!ReplyTo("beat").yes))
        <4>1. calls["beat"] # None /\ calls["beat"].at = "answered" /\ Honest(calls["beat"])
          BY <1>0, <1>3 DEF W!BeatAnswered, W!BeatFailed, W!Answered, WorkerInv, Calling
        <4>2. W!ReplyTo("beat").yes \in BOOLEAN
          BY <4>1 DEF Honest, ReplySet, W!ReplyTo
        <4>3. stopping \in BOOLEAN
          BY <1>0 DEF WorkerTypes
        <4> QED BY <3>2, <4>2, <4>3
      <3> QED BY <1>3, <3>1, <3>2 DEF W!BeatAnswered, W!BeatFailed
    <2>3. /\ Calling' /\ calls' \in [W!Threads -> CallSet \cup {None}]
          /\ calls'["run"] = calls["run"]
      BY <1>0, <2>1, DropCall
    <2>4. WorkerTypes'
      BY <1>0, <2>1, <2>2, <2>3 DEF WorkerTypes
    <2> QED BY <1>1, <2>1, <2>3, <2>4 DEF WorkerInv
  <1>4. CASE W!BeatClears
    <2>1. calls' = calls /\ stopping' = stopping /\ beat' = None /\ owner' \in {owner, None}
      BY <1>4 DEF W!BeatClears
    <2>2. Calling' /\ calls' \in [W!Threads -> CallSet \cup {None}]
      BY <1>0, <2>1, KeepCalls
    <2>3. WorkerTypes'
      BY <1>0, <2>1, <2>2 DEF WorkerTypes
    <2> QED BY <1>1, <2>1, <2>2, <2>3 DEF WorkerInv
  <1> QED BY <1>2, <1>3, <1>4 DEF W!BeatStep

LEMMA StartKeeps ==
  ASSUME WorkerInv, WorkerAlone, NEW b \in Boots, W!Start(b)
  PROVE  WorkerInv'
  <1>0. /\ UNCHANGED <<ghosts, issued, owner, ready, running, stopping, beat, calls, inferred>>
        /\ boot = None /\ boot' = b /\ run' = [W!Off EXCEPT !.at = "top"] /\ WorkerTypes
    BY DEF WorkerAlone, vars, W!Start, WorkerInv
  <1>1. /\ run' \in [at : RunStages, own : OwnerObj \cup {None}, pos : Nat, seq : Nat]
        /\ run'.at = "top"
    BY <1>0, TopTypes
  <1>2. Calling' /\ calls' \in [W!Threads -> CallSet \cup {None}]
    BY <1>0, KeepCalls
  <1>3. WorkerTypes'
    BY <1>0, <1>1, <1>2 DEF WorkerTypes
  <1>4. run.at = "off" /\ owner = None /\ calls["run"] = None
    BY <1>0, NoneAssumption DEF WorkerInv, Working
  <1>5. Working'
    BY <1>0, <1>1, <1>4 DEF Working
  <1> QED BY <1>2, <1>3, <1>5 DEF WorkerInv

LEMMA CrashKeeps ==
  ASSUME WorkerInv, WorkerCrash
  PROVE  WorkerInv'
  <1>0. /\ boot' = None /\ owner' = None /\ ready' = FALSE /\ running' = None /\ stopping' = FALSE
        /\ run' = W!Off /\ beat' = None /\ calls' = [t \in W!Threads |-> None]
        /\ inferred' = inferred /\ issued' = issued
    BY DEF WorkerCrash, W!Crash, vars
  <1>1. \A c \in ghosts' : c \in CallSet /\ Honest(c)
    BY DEF WorkerCrash, WorkerInv, WorkerTypes, Calling
  <1>2. /\ run' \in [at : RunStages, own : OwnerObj \cup {None}, pos : Nat, seq : Nat]
        /\ run'.at = "off"
    BY <1>0 DEF W!Off, RunStages
  <1>3. /\ calls' \in [W!Threads -> CallSet \cup {None}] /\ \A t \in W!Threads : calls'[t] = None
        /\ calls'["run"] = None /\ calls'["beat"] = None
    BY <1>0 DEF W!Threads
  <1>4. WorkerTypes'
    BY <1>0, <1>1, <1>2, <1>3 DEF WorkerInv, WorkerTypes
  <1>5. Calling'
    <2>1. \A c \in ghosts' : Honest(c)'
      BY <1>0, <1>1 DEF Honest
    <2> QED BY <1>3, <2>1 DEF Calling
  <1>6. Working'
    BY <1>0, <1>2, <1>3 DEF Working
  <1> QED BY <1>4, <1>5, <1>6 DEF WorkerInv

\* The relay's own steps leave the worker and the calls alone.
LEMMA AloneKeeps ==
  ASSUME WorkerInv, issued \subseteq issued', UNCHANGED <<workerVars, ghosts>>
  PROVE  WorkerInv'
  <1>1. OnlyCalls /\ calls' = calls /\ ghosts' = ghosts
    BY DEF workerVars, OnlyCalls
  <1> QED BY <1>1, CallsFollow DEF WorkerInv, WorkerTypes, Calling

\* The relay's invariant and the worker's, together.
Inv == RelayInv /\ WorkerInv

LEMMA InvInit == AllInit => Inv
  <1> SUFFICES ASSUME AllInit PROVE Inv
    OBVIOUS
  <1>1. Init
    BY DEF AllInit
  <1>2. SessionIssued
    BY <1>1 DEF Init, SessionIssued
  <1> QED BY <1>1, <1>2, TypeInit, OwningInit, DeliveringInit, WorkerInit DEF Inv, RelayInv

LEMMA InvStep == Inv /\ [AllNext]_allVars => Inv' /\ [Next]_vars
  <1> SUFFICES ASSUME Inv, [AllNext]_allVars PROVE Inv' /\ [Next]_vars
    OBVIOUS
  <1>0. RelayInv /\ WorkerInv /\ TypeOK
    BY DEF Inv, RelayInv
  <1>1. [Next]_vars
    <2>1. CASE AllNext
      BY <1>0, <2>1, AllIsStep
    <2>2. CASE UNCHANGED allVars
      BY <2>2 DEF allVars
    <2> QED BY <2>1, <2>2
  <1>2. RelayInv' /\ issued \subseteq issued'
    BY <1>0, <1>1, RelayKeeps
  <1>3. WorkerInv'
    <2>1. CASE RunThread
      BY <1>0, <2>1, LoopKeeps, ConnectedKeeps, ConnectRejectedKeeps, PollKeeps, InferKeeps, EndKeeps
         DEF RunThread, W!RunStep, W!InferStep
    <2>2. CASE BeatThread
      BY <1>0, <2>2, BeatKeeps DEF BeatThread
    <2>3. CASE RunFails
      BY <1>0, <2>3, LoopKeeps, InferKeeps DEF RunFails, W!RunFault
    <2>4. CASE WorkerStart
      BY <1>0, <2>4, StartKeeps DEF WorkerStart
    <2>5. CASE WorkerCrash
      BY <1>0, <2>5, CrashKeeps
    <2>6. CASE NetworkStep
      BY <1>0, <1>1, <2>6, NetworkKeeps
    <2>7. ASSUME NEW r \in Requests, StreamThread(r) \/ Consumer(r) PROVE WorkerInv'
      BY <1>0, <1>2, <2>7, AloneKeeps DEF StreamThread, Consumer, RelayAlone
    <2>8. CASE JobDeadline \/ Elapse \/ UNCHANGED allVars
      BY <1>0, <1>2, <2>8, AloneKeeps DEF JobDeadline, Elapse, RelayAlone, allVars
    <2> QED BY <2>1, <2>2, <2>3, <2>4, <2>5, <2>6, <2>7, <2>8 DEF AllNext, NetworkStep
  <1> QED BY <1>0, <1>1, <1>2, <1>3 DEF Inv

\* Over any network, and with workers that crash and restart, the relay takes only
\* steps Relay.tla allows it: what is proved of Relay.tla's open environment is proved
\* of this worker and this network (worker_relay.py and worker/client.py).
THEOREM NetworkIsEnvironment == AllSpec => RelaySpec
  <1>1. AllInit => Init
    BY DEF AllInit
  <1> QED BY <1>1, InvInit, InvStep, PTL DEF AllSpec, RelaySpec, Spec

----------------------------------------------------------------------------
(* Nothing is inferred twice.                                                *)

\* A job that is out of the relay's hands never comes back into them.
LEMMA AheadKept ==
  ASSUME pc' = pc,
         job' # None => /\ job # None /\ job'.id = job.id /\ (job.claimed => job'.claimed)
  PROVE  \A r \in Requests : Ahead(r)' => Ahead(r)
  BY DEF Ahead

LEMMA MarkedAhead ==
  ASSUME TypeOK, pc' = pc,
         job' = JobNow \/ (JobNow # None /\ job' = [JobNow EXCEPT !.error = TRUE])
  PROVE  \A r \in Requests : Ahead(r)' => Ahead(r)
  <1>1. job' # None => /\ job # None /\ job'.id = job.id /\ (job.claimed => job'.claimed)
    BY ExpireTypes DEF Job
  <1> QED BY <1>1, AheadKept

\* The job given out was ahead, and is not any more.
LEMMA ClaimAhead ==
  ASSUME TypeOK, OneStream, NEW s, Claim(s)
  PROVE  /\ \A r \in Requests : Ahead(r)' => Ahead(r)
         /\ \A r \in Requests : r = job.id => Ahead(r) /\ ~Ahead(r)'
  <1>1. JobNow \in Job /\ job # None /\ JobNow.id = job.id /\ job.id \in Requests /\ ~job.claimed
    BY ExpireTypes DEF Claim, Claimable, Job
  <1>2. job'.id = job.id /\ job'.claimed /\ pc' = pc
    BY <1>1 DEF Claim, Job, Histories
  <1>3. pc[job.id] # "idle"
    BY <1>1 DEF OneStream, Open
  <1>4. \A r \in Requests : Ahead(r)' => Ahead(r)
    BY <1>1, <1>2, AheadKept
  <1> QED BY <1>1, <1>2, <1>3, <1>4 DEF Ahead

LEMMA StreamAhead ==
  ASSUME TypeOK, NEW r \in Requests,
         \/ StreamOpen(r) \/ StreamRefuse(r) \/ StreamStep(r) \/ StreamAbandon(r) \/ Cancel(r)
  PROVE  \A q \in Requests : Ahead(q)' => Ahead(q)
  <1>0. pc \in [Requests -> Stages]
    BY DEF TypeOK
  <1>1. CASE StreamOpen(r)
    BY <1>0, <1>1 DEF StreamOpen, Ahead
  <1>2. CASE StreamRefuse(r) \/ StreamFail(r)
    <2>1. \A q \in Requests : pc'[q] = "idle" => pc[q] = "idle"
      BY <1>0, <1>2 DEF StreamRefuse, StreamFail
    <2>2. job' # None => /\ job # None /\ job'.id = job.id /\ (job.claimed => job'.claimed)
      BY <1>2, ExpireTypes DEF StreamRefuse, StreamFail
    <2> QED BY <2>1, <2>2 DEF Ahead
  <1>3. CASE StreamTake(r)
    <2>1. \A q \in Requests : pc'[q] = "idle" => pc[q] = "idle"
      <3>2. AfterEvent(Head(job.events)) # "idle"
        BY <1>3, TakeTypes DEF Open
      <3> QED BY <1>0, <1>3, <3>2 DEF StreamTake
    <2>2. job # None /\ JobNow \in Job /\ job'.id = job.id /\ job'.claimed = job.claimed
      BY <1>3, ExpireTypes DEF StreamTake, Mine, Job
    <2> QED BY <2>1, <2>2 DEF Ahead
  <1>4. CASE StreamResume(r) \/ StreamAbandon(r) \/ StreamClose(r) \/ Cancel(r)
    <2>1. \A q \in Requests : pc'[q] = "idle" => pc[q] = "idle"
      BY <1>0, <1>4 DEF StreamResume, StreamAbandon, StreamClose, Cancel
    <2>2. job' = job \/ job' = None
      BY <1>4 DEF StreamResume, StreamAbandon, StreamClose, Cancel
    <2> QED BY <2>1, <2>2 DEF Ahead
  <1> QED BY <1>1, <1>2, <1>3, <1>4 DEF StreamStep

LEMMA AheadStep ==
  ASSUME TypeOK, OneStream, [Next]_vars
  PROVE  \A r \in Requests : Ahead(r)' => Ahead(r)
  <1> DEFINE Kept == \A r \in Requests : Ahead(r)' => Ahead(r)
  <1>1. CASE Expire
    BY <1>1, MarkedAhead DEF Expire, Histories
  <1>2. ASSUME NEW b \in Boots, ConnectAgain(b) \/ \E verified \in BOOLEAN : ConnectNew(b, verified)
        PROVE  Kept
    BY <1>2, MarkedAhead DEF ConnectAgain, Expire, ConnectNew, Histories
  <1>3. ASSUME NEW b \in issued, WorkerRequest(b) PROVE Kept
    <2>1. CASE Obsolete(b) \/ PollBusy(b) \/ PollWait(b)
      BY <2>1, MarkedAhead DEF Obsolete, Expire, PollBusy, PollWait, Histories
    <2>2. CASE PollClaim(b)
      BY <2>2, ClaimAhead DEF PollClaim
    <2>3. ASSUME NEW j \in Requests \cup {None}, NEW verified \in BOOLEAN, Heartbeat(b, j, verified)
          PROVE  Kept
      BY <2>3, MarkedAhead DEF Heartbeat, Stops, Histories
    <2>4. ASSUME NEW r \in Requests, NEW seq \in 0..MaxResults, ResultObsolete(b, r, seq)
          PROVE  Kept
      BY <2>4, MarkedAhead DEF ResultObsolete, Histories
    <2>5. ASSUME NEW r \in Requests, NEW seq \in 0..MaxResults, NEW e \in Results,
                 ResultTooLong(b, r, seq, e) \/ ResultFull(b, r, seq, e)
          PROVE  Kept
      BY <2>5, MarkedAhead DEF ResultTooLong, ResultFull, Expected, Histories
    <2>6. ASSUME NEW r \in Requests, NEW seq \in 0..MaxResults, NEW e \in Results,
                 ResultAccept(b, r, seq, e)
          PROVE  Kept
      <3>1. JobNow \in Job /\ job # None
        BY <2>6, ExpireTypes DEF ResultAccept, Expected
      <3>2. job'.id = job.id /\ job'.claimed = job.claimed /\ pc' = pc
        BY <2>6, <3>1, ExpireTypes DEF ResultAccept, Job
      <3> QED BY <3>1, <3>2, AheadKept
    <2> QED BY <1>3, <2>1, <2>2, <2>3, <2>4, <2>5, <2>6 DEF WorkerRequest
  <1>4. CASE Wake
    BY <1>4, MarkedAhead, ClaimAhead DEF Wake, WakeObsolete, WakeClaim, WakeEmpty, WakeWait, Histories
  <1>5. ASSUME NEW r \in Requests,
               \/ StreamOpen(r) \/ StreamRefuse(r) \/ StreamStep(r) \/ StreamAbandon(r) \/ Cancel(r)
        PROVE  Kept
    BY <1>5, StreamAhead
  <1>6. CASE LeaseElapse \/ UNCHANGED vars
    BY <1>6, AheadKept DEF LeaseElapse, vars, Histories
  <1>7. CASE JobDue
    <2>1. job # None /\ job \in Job /\ job' = [job EXCEPT !.due = TRUE] /\ pc' = pc
      BY <1>7 DEF JobDue, Histories, TypeOK
    <2>2. job'.id = job.id /\ job'.claimed = job.claimed
      BY <2>1 DEF Job
    <2> QED BY <2>1, <2>2, AheadKept
  <1>8. CASE Restart
    BY <1>8 DEF Restart, Ahead
  <1> QED BY <1>1, <1>2, <1>3, <1>4, <1>5, <1>6, <1>7, <1>8 DEF Next

\* Steps that infer nothing and hand nothing new to the run thread.
LEMMA OnceQuiet ==
  ASSUME Once, inferred' = inferred, \A r \in Requests : Ahead(r)' => Ahead(r),
         \A r \in Requests : Handed(r)' => Handed(r)
  PROVE  Once'
  BY DEF Once

\* A job is given out, perhaps to the run thread.
LEMMA OnceClaim ==
  ASSUME TypeOK, OneStream, Once, inferred' = inferred, NEW s, Claim(s),
         \A r \in Requests : Handed(r)' => Handed(r) \/ r = job.id
  PROVE  Once'
  <1>1. /\ \A r \in Requests : Ahead(r)' => Ahead(r)
        /\ \A r \in Requests : r = job.id => Ahead(r) /\ ~Ahead(r)'
    BY ClaimAhead
  <1> QED BY <1>1 DEF Once

\* The run thread leaves its poll, or waits for a call not yet answered.
LEMMA NotHanded ==
  ASSUME WorkerInv, NEW c, calls' = [calls EXCEPT !["run"] = c], c = None \/ c.at = "sent",
         run'.at # "infer"
  PROVE  \A r \in Requests : ~Handed(r)'
  <1>1. calls'["run"] = c
    BY DEF WorkerInv, WorkerTypes, W!Threads
  <1> QED BY <1>1 DEF Handed

LEMMA NotHandedLater ==
  ASSUME calls' = calls, run'.at # "infer"
  PROVE  \A r \in Requests : Handed(r)' => Handed(r)
  BY DEF Handed

LEMMA CallSent ==
  /\ \A kind, own : W!Call(kind, own).at = "sent"
  /\ \A kind, own, yes : [W!Call(kind, own) EXCEPT !.ready = yes].at = "sent"
  /\ \A o, j, yes : W!Beat(o, j, yes).at = "sent"
  /\ \A o, j, seq, e : W!Result(o, j, seq, e).at = "sent"
  BY DEF W!Call, W!Beat, W!Result

LEMMA RunHands ==
  ASSUME WorkerInv, W!RunStep \/ W!RunFault
  PROVE  \A r \in Requests : Handed(r)' => Handed(r)
  <1> DEFINE Kept == \A r \in Requests : Handed(r)' => Handed(r)
  <1>0. run \in [at : RunStages, own : OwnerObj \cup {None}, pos : Nat, seq : Nat]
    BY DEF WorkerInv, WorkerTypes
  <1>a. \A stage \in RunStages : W!GoTo(stage) => run'.at = stage
    BY <1>0 DEF W!GoTo
  <1>b. [W!Off EXCEPT !.at = "top"].at = "top"
    BY DEF W!Off
  <1>c. \A pos, e : run.at \in {"generating", "sending"} /\ W!SendAt(pos, e) => Kept
    <2>1. SUFFICES ASSUME NEW pos, NEW e, run.at \in {"generating", "sending"}, W!SendAt(pos, e)
                   PROVE  Kept
      OBVIOUS
    <2>2. run'.at \in {"giveUp", "sending"}
      BY <1>0, <2>1 DEF W!SendAt
    <2> QED BY <2>1, <2>2, NotHanded, CallSent DEF W!SendAt
  <1>1. ASSUME NEW verified \in BOOLEAN, W!Loop(verified) PROVE Kept
    <2>1. run'.at \in {"connect", "poll"}
      BY <1>0, <1>1 DEF W!Loop, W!GoTo
    <2>2. CASE owner = None
      <3> DEFINE c == [W!Call("connect", None) EXCEPT !.ready = verified]
      <3>1. calls' = [calls EXCEPT !["run"] = c] /\ c.at = "sent"
        BY <1>1, <2>2, CallSent DEF W!Loop
      <3> QED BY <2>1, <3>1, NotHanded
    <2>3. CASE owner # None
      <3> DEFINE c == W!Call("poll", W!Wire(owner))
      <3>1. calls' = [calls EXCEPT !["run"] = c] /\ c.at = "sent"
        BY <1>1, <2>3, CallSent DEF W!Loop
      <3> QED BY <2>1, <3>1, NotHanded
    <2> QED BY <2>2, <2>3
  <1>2. CASE W!Connected
    <2>1. run'.at = "poll"
      BY <1>0, <1>2 DEF W!Connected
    <2> DEFINE own == W!ReplyTo("run").own
               o == [epoch |-> own.epoch, boot |-> own.boot, lease |-> own.lease,
                     made |-> W!Fresh]
               c == W!Call("poll", W!Wire(o))
    <2>2. calls' = [calls EXCEPT !["run"] = c] /\ c.at = "sent"
      BY <1>2, CallSent DEF W!Connected
    <2> QED BY <2>1, <2>2, NotHanded
  <1>3. CASE W!ConnectRejected
    <2>1. run'.at = "legacy"
      BY <1>a, <1>3 DEF W!ConnectRejected, RunStages
    <2> DEFINE c == [W!Call("connect", None) EXCEPT !.ready = ready]
    <2>2. calls' = [calls EXCEPT !["run"] = c] /\ c.at = "sent"
      BY <1>3, CallSent DEF W!ConnectRejected
    <2> QED BY <2>1, <2>2, NotHanded
  <1>4. CASE \/ W!ConnectFailed \/ W!PollEmpty \/ W!PollFailed \/ W!OutOfTime \/ W!LastBeatDone
             \/ W!GoTo("reset") /\ calls' = [calls EXCEPT !["run"] = None]
    <2>1. run'.at \in {"reset", "top", "giveUp"}
      BY <1>a, <1>b, <1>4 DEF W!ConnectFailed, W!PollEmpty, W!PollFailed, W!OutOfTime,
         W!LastBeatDone, RunStages
    <2>2. calls' = [calls EXCEPT !["run"] = None]
      BY <1>4 DEF W!ConnectFailed, W!PollEmpty, W!PollFailed, W!OutOfTime, W!LastBeatDone
    <2> QED BY <2>1, <2>2, NotHanded
  <1>5. CASE W!PollJob
    <2>1. /\ calls["run"] # None /\ calls["run"].kind = "poll" /\ calls["run"].at = "answered"
          /\ calls' = [calls EXCEPT !["run"] = None]
      BY <1>5 DEF W!PollJob, W!Answered, WorkerInv, Working
    <2>2. calls'["run"] = None
      BY <2>1 DEF WorkerInv, WorkerTypes, W!Threads
    <2>3. CASE running' = calls["run"].reply.job
      BY <2>1, <2>2, <2>3 DEF Handed
    <2>4. CASE W!GoTo("reset")
      BY <1>4, <2>1, <2>4
    <2> QED BY <1>5, <2>3, <2>4 DEF W!PollJob, W!ReplyTo
  <1>6. CASE W!InferOpen \/ W!InferRefuse \/ W!Finish \/ W!Reset \/ W!ClearSession
    <2>1. run'.at \in {"generating", "giveUp", "top", "clear"}
      BY <1>0, <1>a, <1>b, <1>6 DEF W!InferOpen, W!InferRefuse, W!Finish, W!Reset, W!ClearSession,
         RunStages
    <2> QED BY <1>6, <2>1, NotHandedLater DEF W!InferOpen, W!InferRefuse, W!Finish, W!Reset,
            W!ClearSession
  <1>7. CASE W!Generate \/ W!GenerateFails \/ W!SendFull
    BY <1>c, <1>7 DEF W!Generate, W!GenerateFails, W!SendFull, W!Send
  <1>8. CASE W!SendFailed
    <2>1. CASE W!GoTo("giveUp") /\ calls' = [calls EXCEPT !["run"] = None]
      <3>1. run'.at = "giveUp"
        BY <1>a, <2>1 DEF RunStages
      <3> QED BY <2>1, <3>1, NotHanded
    <2> QED BY <1>c, <1>8, <2>1 DEF W!SendFailed, W!Send
  <1>9. CASE W!SendAccepted
    <2>1. /\ calls' = [calls EXCEPT !["run"] = None]
          /\ W!Sent.done \in BOOLEAN /\ W!Sent.error \in BOOLEAN
      BY <1>9 DEF W!SendAccepted, W!Answered, W!Sent, W!Threads, WorkerInv, WorkerTypes, CallSet, Event
    <2>2. run'.at \in {"generating", "finished", "giveUp"}
      BY <1>0, <1>9, <2>1 DEF W!SendAccepted
    <2> QED BY <2>1, <2>2, NotHanded
  <1>10. CASE W!GiveUp
    <2>1. run'.at = "lastBeat"
      BY <1>a, <1>10 DEF W!GiveUp, RunStages
    <2> DEFINE c == W!Beat(run.own, running, FALSE)
    <2>2. calls' = [calls EXCEPT !["run"] = c] /\ c.at = "sent"
      BY <1>10, CallSent DEF W!GiveUp
    <2> QED BY <2>1, <2>2, NotHanded
  <1> QED BY <1>1, <1>2, <1>3, <1>4, <1>5, <1>6, <1>7, <1>8, <1>9, <1>10
          DEF W!RunStep, W!RunFault, W!InferStep

\* Inferring a job takes it from the run thread.
LEMMA OnceOpen ==
  ASSUME WorkerInv, Once, UNCHANGED vars, W!InferOpen
  PROVE  Once'
  <1>1. /\ run.at = "infer" /\ running \in Requests /\ calls["run"] = None /\ calls' = calls
        /\ run'.at = "generating" /\ inferred \in [Requests -> Nat]
        /\ inferred' = [inferred EXCEPT ![running] = @ + 1]
    BY DEF W!InferOpen, WorkerInv, WorkerTypes, Working
  <1>2. Handed(running) /\ \A r \in Requests : ~Handed(r)'
    BY <1>1 DEF Handed
  <1>3. inferred[running] = 0 /\ ~Ahead(running)
    BY <1>1, <1>2 DEF Once
  <1>4. \A r \in Requests : Ahead(r)' => Ahead(r) /\ r # running
    BY <1>3, AheadKept DEF vars
  <1> QED BY <1>1, <1>2, <1>3, <1>4 DEF Once

\* An answer hands the run thread at most the job it names.
LEMMA ReplyHands ==
  ASSUME WorkerInv, OnlyCalls, NEW t, t = Nobody \/ (t \in W!Threads /\ calls[t] # None),
         NEW reply, Reply(t, reply)
  PROVE  \A r \in Requests : Handed(r)' => Handed(r) \/ reply.job = r
  <1>0. run' = run /\ running' = running
    BY DEF OnlyCalls
  <1>1. CASE t = Nobody \/ t = "beat"
    <2>1. calls'["run"] = calls["run"]
      BY <1>1 DEF Reply, Nobody, WorkerInv, WorkerTypes, W!Threads
    <2> QED BY <1>0, <2>1 DEF Handed
  <1>2. CASE t = "run" /\ calls["run"] # None
    <2>1. calls["run"] \in CallSet /\ "run" # Nobody
      BY <1>2 DEF WorkerInv, WorkerTypes, W!Threads, Nobody
    <2>2. calls'["run"] = [calls["run"] EXCEPT !.at = "answered", !.reply = reply]
      BY <1>2, <2>1 DEF Reply, WorkerInv, WorkerTypes, W!Threads
    <2>3. calls'["run"].reply = reply
      BY <2>1, <2>2 DEF CallSet
    <2> QED BY <1>0, <2>3 DEF Handed
  <1> QED BY <1>1, <1>2 DEF W!Threads

\* An answer without a job hands over nothing; one with a job comes of a claim.
LEMMA OnceReply ==
  ASSUME Inv, Once, [Next]_vars, OnlyCalls, NEW t,
         t = Nobody \/ (t \in W!Threads /\ calls[t] # None),
         NEW reply, Reply(t, reply),
         \/ reply.job = None
         \/ reply.job = job.id /\ \E s : Claim(s)
  PROVE  Once'
  <1>0. TypeOK /\ OneStream /\ WorkerInv /\ inferred' = inferred
    BY DEF Inv, RelayInv, Owning, OnlyCalls
  <1>1. \A r \in Requests : Handed(r)' => Handed(r) \/ reply.job = r
    BY <1>0, ReplyHands
  <1>2. \A r \in Requests : Ahead(r)' => Ahead(r)
    BY <1>0, AheadStep
  <1>3. CASE reply.job = None
    BY <1>0, <1>1, <1>2, <1>3, OnceQuiet
  <1>4. CASE reply.job = job.id /\ \E s : Claim(s)
    BY <1>0, <1>1, <1>4, OnceClaim
  <1> QED BY <1>3, <1>4

LEMMA OnceNetwork ==
  ASSUME Inv, Once, [Next]_vars, NetworkStep
  PROVE  Once'
  <1>0. /\ TypeOK /\ OneStream /\ RelayInv /\ WorkerInv
        /\ \A c \in ghosts : c \in CallSet /\ Honest(c)
        /\ \A t \in W!Threads : calls[t] # None => calls[t] \in CallSet /\ Honest(calls[t])
        /\ "run" \in W!Threads
    BY DEF Inv, RelayInv, Owning, WorkerInv, WorkerTypes, Calling, W!Threads
  <1>1. Rejected.job = None /\ Lost.job = None /\ Ok(None, None, FALSE).job = None
    BY DEF Rejected, Lost, Ok, W!Reply
  <1>2. ASSUME NEW c \in CallSet, Honest(c), NEW t, Handle(c, t), OnlyCalls,
               t = Nobody \/ (t \in W!Threads /\ calls[t] # None)
        PROVE  Once'
    <2>1. PICK reply \in ReplySet :
             /\ Reply(t, reply)
             /\ reply.job # None => PollClaim(c.own) /\ reply.job = job.id
      BY <1>0, <1>2, HandleAnswers
    <2>2. reply.job = None \/ (reply.job = job.id /\ \E s : Claim(s))
      BY <2>1 DEF PollClaim
    <2> QED BY <1>2, <2>1, <2>2, OnceReply
  <1>3. ASSUME NEW t \in W!Threads, Deliver(t) PROVE Once'
    BY <1>0, <1>2, <1>3 DEF Deliver
  <1>4. ASSUME NEW t \in W!Threads, LoseCall(t) \/ OvertakeCall(t) PROVE Once'
    BY <1>1, <1>4, OnceReply DEF LoseCall, OvertakeCall, Fails
  <1>5. CASE DeliverWaits
    <2>1. /\ calls["run"] \in CallSet /\ OnlyCalls
          /\ calls'["run"] = [calls["run"] EXCEPT !.at = "waiting"]
      BY <1>0, <1>5 DEF DeliverWaits, WorkerInv, WorkerTypes
    <2>2. calls'["run"].at = "waiting"
      BY <2>1 DEF CallSet
    <2>3. \A r \in Requests : Handed(r)' => Handed(r)
      BY <2>1, <2>2 DEF Handed, OnlyCalls
    <2> QED BY <1>0, <2>1, <2>3, AheadStep, OnceQuiet DEF OnlyCalls
  <1>6. CASE WakeAndReply
    <2>1. OnlyCalls
      BY <1>6 DEF WakeAndReply
    <2>2. ASSUME NEW reply, WakeReply(reply),
                 reply.job = None \/ (reply.job = job.id /\ \E s : Claim(s))
          PROVE  Once'
      <3> DEFINE t == IF Waiting THEN "run" ELSE Nobody
      <3>1. t = Nobody \/ (t \in W!Threads /\ calls[t] # None)
        BY <1>0 DEF Waiting
      <3>2. Reply(t, reply)
        BY <2>2 DEF WakeReply
      <3> HIDE DEF t
      <3> QED BY <2>1, <2>2, <3>1, <3>2, OnceReply
    <2>3. WakeClaim /\ WakeReply(Ok(None, job.id, FALSE)) => Once'
      <3>1. Ok(None, job.id, FALSE).job = job.id
        BY DEF Ok, W!Reply
      <3> QED BY <2>2, <3>1 DEF WakeClaim
    <2> QED BY <1>1, <1>6, <2>2, <2>3 DEF WakeAndReply
  <1>7. ASSUME NEW c \in ghosts, Haunt(c) PROVE Once'
    <2>1. OnlyCalls
      BY <1>7 DEF Haunt
    <2>2. CASE Handle(c, Nobody)
      BY <1>0, <1>2, <2>1, <2>2
    <2>3. CASE calls' = calls
      <3>1. \A r \in Requests : Handed(r)' => Handed(r)
        BY <2>1, <2>3 DEF Handed, OnlyCalls
      <3> QED BY <1>0, <2>1, <3>1, AheadStep, OnceQuiet DEF OnlyCalls
    <2> QED BY <1>7, <2>2, <2>3 DEF Haunt
  <1>8. CASE RelayRestart
    <2> DEFINE t == IF Waiting THEN "run" ELSE Nobody
    <2>1. t = Nobody \/ (t \in W!Threads /\ calls[t] # None)
      BY <1>0 DEF Waiting
    <2>2. Reply(t, Lost) /\ OnlyCalls
      BY <1>8 DEF RelayRestart, WakeReply
    <2> HIDE DEF t
    <2> QED BY <1>1, <2>1, <2>2, OnceReply
  <1> QED BY <1>3, <1>4, <1>5, <1>6, <1>7, <1>8 DEF NetworkStep

LEMMA OnceStep == Inv /\ Once /\ [AllNext]_allVars => Once'
  <1> SUFFICES ASSUME Inv, Once, [AllNext]_allVars PROVE Once'
    OBVIOUS
  <1>0. [Next]_vars /\ TypeOK /\ OneStream /\ WorkerInv
    BY InvStep DEF Inv, RelayInv, Owning
  <1>1. \A r \in Requests : Ahead(r)' => Ahead(r)
    BY <1>0, AheadStep
  <1>2. ASSUME inferred' = inferred, \A r \in Requests : Handed(r)' => Handed(r) PROVE Once'
    BY <1>1, <1>2, OnceQuiet
  <1>3. CASE RunThread \/ RunFails
    <2>1. \A r \in Requests : Handed(r)' => Handed(r)
      BY <1>0, <1>3, RunHands DEF RunThread, RunFails
    <2>2. CASE W!InferOpen
      BY <1>0, <1>3, <2>2, OnceOpen DEF RunThread, RunFails, WorkerAlone
    <2>3. CASE ~W!InferOpen
      <3>1. inferred' = inferred
        BY <1>3, <2>3 DEF RunThread, RunFails, W!RunStep, W!RunFault, W!InferStep, W!Loop,
           W!Connected, W!ConnectRejected, W!ConnectFailed, W!PollEmpty, W!PollJob, W!PollFailed,
           W!Generate, W!SendAccepted, W!SendFull, W!SendFailed, W!Finish, W!GiveUp,
           W!LastBeatDone, W!Reset, W!ClearSession, W!InferRefuse, W!GenerateFails, W!OutOfTime
      <3> QED BY <1>2, <2>1, <3>1
    <2> QED BY <2>2, <2>3
  <1>4. CASE BeatThread
    <2>1. /\ run' = run /\ running' = running /\ inferred' = inferred
          /\ calls'["run"] = calls["run"]
      BY <1>0, <1>4 DEF BeatThread, W!BeatStep, W!BeatSend, W!BeatAnswered, W!BeatFailed,
         W!BeatClears, WorkerInv, WorkerTypes, W!Threads
    <2> QED BY <1>2, <2>1 DEF Handed
  <1>5. CASE WorkerStart
    <2>1. run'.at = "top" /\ calls' = calls /\ inferred' = inferred
      BY <1>5 DEF WorkerStart, W!Start, W!Off
    <2> QED BY <1>2, <2>1, NotHandedLater
  <1>6. CASE WorkerCrash
    <2>1. /\ run'.at = "off" /\ calls'["run"] = None /\ inferred' = inferred
      BY <1>6 DEF WorkerCrash, W!Crash, W!Off, W!Threads
    <2> QED BY <1>2, <2>1 DEF Handed
  <1>7. CASE NetworkStep
    BY <1>0, <1>7, OnceNetwork
  <1>8. ASSUME UNCHANGED workerVars PROVE Once'
    BY <1>2, <1>8 DEF workerVars, Handed
  <1>9. CASE (\E r \in Requests : StreamThread(r) \/ Consumer(r)) \/ JobDeadline \/ Elapse
             \/ UNCHANGED allVars
    BY <1>8, <1>9 DEF StreamThread, Consumer, JobDeadline, Elapse, RelayAlone, allVars
  <1> QED BY <1>3, <1>4, <1>5, <1>6, <1>7, <1>9 DEF AllNext, NetworkStep

LEMMA OnceInit == AllInit => Once
  <1> SUFFICES ASSUME AllInit PROVE Once
    OBVIOUS
  <1>1. /\ calls["run"] = None /\ run.at = "off" /\ \A r \in Requests : inferred[r] = 0
    BY DEF AllInit, W!Init, W!Off, W!Threads
  <1>2. \A r \in Requests : ~Handed(r)
    BY <1>1 DEF Handed
  <1>3. \A r \in Requests : inferred[r] = 0 /\ inferred[r] <= 1
    <2>1. \A n : n = 0 => n <= 1
      OBVIOUS
    <2> QED BY <1>1, <2>1, Zenon
  <1> QED BY <1>2, <1>3, Zenon DEF Once

\* Polls that cross, wait without a caller, are repeated after a reconnect or reach
\* the relay late never make the worker ask Ollama twice for one job: a job leaves
\* the relay once (Claim) and the run thread begins it once (infer).
THEOREM InferredAtMostOnce == AllSpec => []InferredOnce
  <1>1. Once => InferredOnce
    BY DEF Once, InferredOnce
  <1> QED BY <1>1, InvInit, OnceInit, InvStep, OnceStep, PTL DEF AllSpec

----------------------------------------------------------------------------
(* What is accepted is a beginning of the answer, perhaps with a failure.    *)

LEMMA NoPrefix == ASSUME NEW S, NEW t \in Seq(S) PROVE IsPrefixOf(<<>>, t)
  <1>1. SubSeq(t, 1, 0) = <<>>
    BY SubSeqEmpty
  <1> QED BY <1>1, EmptySeq, LenProperties DEF IsPrefixOf

LEMMA PrefixAppend ==
  ASSUME NEW S, NEW s \in Seq(S), NEW t \in Seq(S), Len(s) < Len(t), IsPrefixOf(s, t)
  PROVE  IsPrefixOf(Append(s, t[Len(s) + 1]), t)
  <1> DEFINE n == Len(s)
             u == Append(s, t[n + 1])
             v == SubSeq(t, 1, n + 1)
  <1>1. n \in Nat /\ Len(t) \in Nat /\ n + 1 \in 1..Len(t) /\ n + 1 \in Nat
    BY LenProperties
  <1>2. t[n + 1] \in S
    BY <1>1, ElementOfSeq
  <1>3. u \in Seq(S) /\ Len(u) = n + 1 /\ \A i \in 1..(n + 1) : u[i] = IF i <= n THEN s[i] ELSE t[n + 1]
    BY <1>1, <1>2, AppendProperties
  <1>4. v \in Seq(S) /\ Len(v) = n + 1 /\ \A i \in 1..(n + 1) : v[i] = t[i]
    BY <1>1, SubSeqProperties
  <1>5. \A i \in 1..n : s[i] = t[i]
    <2>1. s = SubSeq(t, 1, n)
      BY DEF IsPrefixOf
    <2> QED BY <1>1, <2>1, SubSeqProperties
  <1>6. \A i \in 1..(n + 1) : u[i] = v[i]
    BY <1>1, <1>3, <1>4, <1>5
  <1>7. u = v
    BY <1>3, <1>4, <1>6, SeqEqual
  <1> QED BY <1>1, <1>3, <1>7 DEF IsPrefixOf

LEMMA FrontAppend ==
  ASSUME NEW S, NEW s \in Seq(S), NEW e \in S
  PROVE  LET u == Append(s, e)
         IN  u # <<>> /\ u[Len(u)] = e /\ SubSeq(u, 1, Len(u) - 1) = s
  <1> DEFINE u == Append(s, e)
             n == Len(s)
             v == SubSeq(u, 1, n)
  <1>1. n \in Nat /\ u \in Seq(S) /\ Len(u) = n + 1 /\ u[n + 1] = e
        /\ \A i \in 1..n : u[i] = s[i]
    BY LenProperties, AppendProperties
  <1>2. v \in Seq(S) /\ Len(v) = n /\ \A i \in 1..n : v[i] = u[i]
    BY <1>1, SubSeqProperties
  <1>3. v = s
    BY <1>1, <1>2, SeqEqual
  <1> QED BY <1>1, <1>3, EmptySeq

\* A result that is accepted continues the answer or ends it.
LEMMA AcceptKeeps ==
  ASSUME RelayInv, AnswerKept, NEW b, NEW r \in Requests, NEW seq \in Nat, NEW e,
         e = W!Failure \/ (seq < Len(Answer) /\ e = Answer[seq + 1]),
         ResultAccept(b, r, seq, e)
  PROVE  AnswerKept'
  <1> DEFINE a == accepted[r]
  <1>0. e \in Event /\ Answer \in Seq(Event) /\ accepted \in [Requests -> Seq(Event)]
    <2>1. Results \subseteq Event
      BY DEF Results
    <2>2. Answer \in Seq(Event)
      BY <2>1, AnswerAssumption
    <2>3. W!Failure \in Event
      BY <2>1, FailureTypes
    <2> QED BY <2>2, <2>3, ElementOfSeq DEF RelayInv, TypeOK
  <1>1. job # None /\ job.id = r /\ job.seq = seq /\ ~job.done
    BY ExpireTypes DEF ResultAccept, Expected, RelayInv
  <1>2. a \in Seq(Event) /\ seq = Len(a) /\ (a # <<>> => ~a[Len(a)].done)
    BY <1>0, <1>1 DEF RelayInv, Delivering, InOrder, TerminalLast
  <1>3. IsPrefixOf(a, Answer)
    <2>1. W!Failure.done
      BY DEF W!Failure
    <2> QED BY <1>2, <2>1 DEF AnswerKept
  <1>4. accepted' = [accepted EXCEPT ![r] = Append(a, e)]
    BY DEF ResultAccept
  <1> HIDE DEF a
  <1>5. accepted'[r] = Append(a, e) /\ \A q \in Requests : q # r => accepted'[q] = accepted[q]
    BY <1>0, <1>4
  <1>6. \/ IsPrefixOf(Append(a, e), Answer)
        \/ /\ Append(a, e) # <<>> /\ Append(a, e)[Len(Append(a, e))] = W!Failure
           /\ IsPrefixOf(SubSeq(Append(a, e), 1, Len(Append(a, e)) - 1), Answer)
    <2>1. CASE e = W!Failure
      <3>1. /\ Append(a, e) # <<>> /\ Append(a, e)[Len(Append(a, e))] = e
            /\ SubSeq(Append(a, e), 1, Len(Append(a, e)) - 1) = a
        BY <1>0, <1>2, FrontAppend
      <3> HIDE DEF IsPrefixOf
      <3> QED BY <1>3, <2>1, <3>1
    <2>2. CASE seq < Len(Answer) /\ e = Answer[seq + 1]
      BY <1>0, <1>2, <1>3, <2>2, PrefixAppend
    <2> QED BY <2>1, <2>2
  <1>7. W!Failure' = W!Failure
    BY DEF W!Failure
  <1> QED BY <1>5, <1>6, <1>7 DEF AnswerKept

\* Any other step accepts nothing, or forgets all that a failed request had.
LEMMA ForgetKeeps ==
  ASSUME AnswerKept, \A r \in Requests : accepted'[r] \in {accepted[r], <<>>}
  PROVE  AnswerKept'
  <1>1. IsPrefixOf(<<>>, Answer)
    BY NoPrefix, AnswerAssumption
  <1>2. W!Failure' = W!Failure
    BY DEF W!Failure
  <1> QED BY <1>1, <1>2 DEF AnswerKept

LEMMA HandleAccepts ==
  ASSUME RelayInv, AnswerKept, NEW c \in CallSet, Honest(c), NEW t, Handle(c, t)
  PROVE  AnswerKept'
  <1>1. CASE accepted' = accepted
    BY <1>1, ForgetKeeps
  <1>2. CASE c.kind = "result" /\ ResultAccept(c.own, c.job, c.seq, c.event)
    <2>1. c.job \in Requests /\ c.seq \in Nat /\ PartOfAnswer(c)
      BY <1>2 DEF Honest, CallSet
    <2> QED BY <1>2, <2>1, AcceptKeeps DEF PartOfAnswer
  <1> QED BY <1>1, <1>2 DEF Handle, HandleConnect, HandlePoll, HandleHeartbeat, HandleResult,
          ConnectNew, ConnectAgain, Expire, Obsolete, PollBusy, PollClaim, Claim, Heartbeat,
          ResultObsolete, ResultTooLong, ResultFull, Histories

LEMMA AnswerStep == Inv /\ AnswerKept /\ [AllNext]_allVars => AnswerKept'
  <1> SUFFICES ASSUME Inv, AnswerKept, [AllNext]_allVars PROVE AnswerKept'
    OBVIOUS
  <1>0. /\ RelayInv /\ WorkerInv /\ accepted \in [Requests -> Seq(Event)]
        /\ \A c \in ghosts : c \in CallSet /\ Honest(c)
        /\ \A t \in W!Threads : calls[t] # None => calls[t] \in CallSet /\ Honest(calls[t])
    BY DEF Inv, RelayInv, TypeOK, WorkerInv, WorkerTypes, Calling
  <1>1. ASSUME accepted' = accepted PROVE AnswerKept'
    BY <1>1, ForgetKeeps
  <1>2. CASE RunThread \/ BeatThread \/ RunFails \/ WorkerStart \/ WorkerCrash \/ UNCHANGED allVars
    BY <1>1, <1>2 DEF RunThread, BeatThread, RunFails, WorkerStart, WorkerCrash, WorkerAlone, allVars, vars
  <1>3. ASSUME NEW t \in W!Threads, Deliver(t) PROVE AnswerKept'
    BY <1>0, <1>3, HandleAccepts DEF Deliver
  <1>4. ASSUME NEW t \in W!Threads, LoseCall(t) \/ OvertakeCall(t) PROVE AnswerKept'
    BY <1>1, <1>4 DEF LoseCall, OvertakeCall, Fails, vars
  <1>5. CASE DeliverWaits \/ WakeAndReply \/ JobDeadline \/ Elapse
    BY <1>1, <1>5 DEF DeliverWaits, PollWait, WakeAndReply, WakeObsolete, WakeClaim, Claim, WakeEmpty,
       JobDeadline, JobDue, Elapse, LeaseElapse, Histories
  <1>6. ASSUME NEW c \in ghosts, Haunt(c) PROVE AnswerKept'
    <2>1. CASE Handle(c, Nobody)
      BY <1>0, <2>1, HandleAccepts
    <2>2. CASE PollWait(c.own)
      BY <1>1, <2>2 DEF PollWait, Histories
    <2> QED BY <1>6, <2>1, <2>2 DEF Haunt
  <1>7. ASSUME NEW r \in Requests, StreamThread(r) \/ Consumer(r) PROVE AnswerKept'
    <2>1. accepted' = accepted \/ accepted' = [accepted EXCEPT ![r] = <<>>]
      BY <1>7 DEF StreamThread, StreamStep, StreamFail, StreamTake, StreamResume, StreamClose,
         Consumer, StreamOpen, Cancel
    <2> QED BY <1>0, <2>1, ForgetKeeps
  <1>8. CASE RelayRestart
    <2>1. \A r \in Requests : accepted'[r] \in {accepted[r], <<>>}
      BY <1>8 DEF RelayRestart, Restart
    <2> QED BY <2>1, ForgetKeeps
  <1> QED BY <1>2, <1>3, <1>4, <1>5, <1>6, <1>7, <1>8 DEF AllNext

LEMMA AnswerInit == AllInit => AnswerKept
  <1> SUFFICES ASSUME AllInit PROVE AnswerKept
    OBVIOUS
  <1>1. \A r \in Requests : accepted[r] = <<>>
    BY DEF AllInit, Init
  <1>2. IsPrefixOf(<<>>, Answer)
    BY NoPrefix, AnswerAssumption
  <1> QED BY <1>1, <1>2 DEF AnswerKept

\* Lost and late answers, results sent again after "accepted: False" and failure
\* reports with the number of the call that failed leave in the relay a beginning of
\* Ollama's answer, at most followed by the failure report (dispatch, result branch,
\* with infer and its send).
THEOREM AnswerNeverTorn == AllSpec => []AnswerKept
  BY InvInit, AnswerInit, InvStep, AnswerStep, PTL DEF AllSpec
=============================================================================
