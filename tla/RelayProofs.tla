----------------------------- MODULE RelayProofs -----------------------------
(* The relay of Relay.tla keeps its types, its ownership and its order for   *)
(* every set of requests and workers and every limit.                        *)
EXTENDS Relay, SequenceTheorems, TLAPS

USE RelayAssumption

----------------------------------------------------------------------------
(* What _expire may do: drop the session, mark the job failed, nothing more. *)
LEMMA ExpireTypes ==
    ASSUME TypeOK
    PROVE  /\ Alive \in Session \cup {None}
           /\ Alive # None => Alive = session /\ session \in Session /\ ~session.elapsed
           /\ JobNow \in Job \cup {None}
           /\ JobNow = None <=> job = None
           /\ JobNow # None => /\ JobNow.id = job.id /\ JobNow.lease = job.lease
                               /\ JobNow.due = job.due /\ JobNow.claimed = job.claimed
                               /\ JobNow.done = job.done /\ JobNow.seq = job.seq
                               /\ JobNow.total = job.total /\ JobNow.events = job.events
           /\ Live(JobNow) => JobNow = job /\ Alive # None
  <1>1. /\ Alive \in Session \cup {None}
        /\ Alive # None => Alive = session /\ session \in Session /\ ~session.elapsed
    BY DEF TypeOK, Alive, Session
  <1>2. CASE job = None
    BY <1>1, <1>2 DEF JobNow, Live
  <1>3. CASE job # None
    <2>1. job \in Job
      BY <1>3 DEF TypeOK
    <2>2. [job EXCEPT !.error = TRUE] \in Job
      BY <2>1 DEF Job
    <2>3. JobNow \in Job /\ JobNow # None
      BY <2>1, <2>2 DEF JobNow
    <2>4. /\ JobNow.id = job.id /\ JobNow.lease = job.lease
          /\ JobNow.due = job.due /\ JobNow.claimed = job.claimed
          /\ JobNow.done = job.done /\ JobNow.seq = job.seq
          /\ JobNow.total = job.total /\ JobNow.events = job.events
      BY <2>1 DEF JobNow, Job
    <2>5. Live(JobNow) => JobNow = job /\ Alive # None
      BY <2>1 DEF JobNow, Job, Live
    <2>6. QED
      BY <1>1, <1>3, <2>3, <2>4, <2>5
  <1>4. QED
    BY <1>2, <1>3

LEMMA RenewedType ==
    ASSUME TypeOK, Alive # None
    PROVE  /\ Renewed \in Session
           /\ Renewed.boot = session.boot /\ Renewed.lease = session.lease
           /\ Renewed.ready = session.ready /\ Renewed.job = session.job
           /\ ~Renewed.elapsed /\ ~session.elapsed
  BY ExpireTypes DEF Renewed, Session

LEMMA ClaimType ==
    ASSUME TypeOK, NEW s \in Session, Claim(s)
    PROVE  TypeOK'
  <1>1. JobNow \in Job
    BY ExpireTypes DEF Claim, Claimable
  <1>2. session' \in Session
    BY <1>1 DEF Claim, Session, Job
  <1>3. job' \in Job
    BY <1>1 DEF Claim, Job
  <1>4. QED
    BY <1>2, <1>3 DEF Claim, TypeOK, Issuance, Histories

\* What popping the first event leaves behind.
LEMMA TakeTypes ==
    ASSUME TypeOK, NEW r \in Requests, StreamTake(r)
    PROVE  /\ job \in Job /\ JobNow \in Job
           /\ Head(job.events) \in Event /\ Tail(job.events) \in Seq(Event)
           /\ job.events # <<>> /\ JobNow.events = job.events
           /\ AfterEvent(Head(job.events)) \in Open
           /\ JobNow = job /\ Live(job) /\ Alive = session /\ job.id = r
           /\ job' \in Job /\ job' = [job EXCEPT !.events = Tail(@)]
           /\ job'.id = job.id /\ job'.lease = job.lease /\ job'.claimed = job.claimed
           /\ job'.done = job.done /\ job'.error = job.error /\ job'.seq = job.seq
           /\ job'.total = job.total /\ job'.events = Tail(job.events)
  <1>1. job # None
    BY DEF Mine, StreamTake
  <1>2. job \in Job /\ JobNow \in Job /\ JobNow.events = job.events
    BY <1>1, ExpireTypes DEF TypeOK
  <1>3. job.events \in Seq(Event) /\ job.events # <<>>
    BY <1>2 DEF StreamTake, Job
  <1>4. Head(job.events) \in Event /\ Tail(job.events) \in Seq(Event)
    BY <1>3
  <1>5. AfterEvent(Head(job.events)) \in Open
    BY <1>4 DEF AfterEvent, Open, Event
  <1>6. JobNow = job /\ Live(job) /\ Alive = session /\ job.id = r
    BY <1>1, ExpireTypes DEF StreamTake, Live, Mine
  <1>7. job' = [job EXCEPT !.events = Tail(@)]
    BY <1>6 DEF StreamTake
  <1>8. job' \in Job
    BY <1>2, <1>4, <1>7 DEF Job
  <1>9. QED
    BY <1>2, <1>3, <1>4, <1>5, <1>6, <1>7, <1>8 DEF Job

\* The job of a stream just dispatched.
LEMMA OpenTypes ==
    ASSUME TypeOK, NEW r \in Requests, StreamOpen(r)
    PROVE  /\ job' \in Job /\ job'.id = r /\ job'.lease = session.lease
           /\ ~job'.claimed /\ ~job'.done /\ ~job'.error
           /\ job'.seq = 0 /\ job'.total = 0 /\ job'.events = <<>>
           /\ Alive = session /\ session # None /\ session.job = None /\ job = None
  <1>1. Alive = session /\ session \in Session /\ session.job = None /\ job = None
    BY ExpireTypes DEF StreamOpen, Admits
  <1>2. <<>> \in Seq(Event)
    OBVIOUS
  <1>3. QED
    BY <1>1, <1>2 DEF StreamOpen, Job, Session

\* The job after a result was accepted.
LEMMA AcceptTypes ==
    ASSUME TypeOK, NEW b, NEW r \in Requests, NEW seq, NEW e \in Results,
           ResultAccept(b, r, seq, e)
    PROVE  /\ Live(job) /\ JobNow = job /\ job \in Job /\ job' \in Job
           /\ job.claimed /\ ~job.done /\ job.id = r /\ job.seq = seq
           /\ e \in Event /\ e.text \in Nat /\ e.done \in BOOLEAN
           /\ job'.id = job.id /\ job'.lease = job.lease /\ job'.claimed
           /\ job'.done = e.done /\ job'.error = job.error
           /\ job'.seq = job.seq + 1 /\ job'.total = job.total + e.text
           /\ job'.events = Append(job.events, e)
  <1>1. /\ Live(job) /\ JobNow = job /\ job \in Job
        /\ job.claimed /\ ~job.done /\ job.id = r /\ job.seq = seq
    BY ExpireTypes DEF ResultAccept, Expected, Live
  <1>2. e \in Event /\ e.text \in Nat /\ e.done \in BOOLEAN
    BY DEF Results, Event
  <1>3. /\ Append(job.events, e) \in Seq(Event)
        /\ job.seq + 1 \in Nat /\ job.total + e.text \in Nat
    BY <1>1, <1>2 DEF Job
  <1>4. job' = [job EXCEPT !.seq = job.seq + 1, !.total = job.total + e.text,
                           !.events = Append(job.events, e), !.done = e.done]
    BY <1>1 DEF ResultAccept
  <1>5. job' \in Job
    BY <1>1, <1>2, <1>3, <1>4 DEF Job
  <1>6. QED
    BY <1>1, <1>2, <1>3, <1>4, <1>5 DEF Job

----------------------------------------------------------------------------
(* Types.                                                                   *)

LEMMA TypeInit == Init => TypeOK
  BY DEF Init, TypeOK, Stages

LEMMA TypeStep == TypeOK /\ [Next]_vars => TypeOK'
  <1> SUFFICES ASSUME TypeOK, [Next]_vars PROVE TypeOK'
    OBVIOUS
  <1> USE DEF Issuance, Histories
  <1>1. CASE Expire
    BY <1>1, ExpireTypes DEF Expire, TypeOK
  <1>2. ASSUME NEW boot \in Boots, ConnectAgain(boot) PROVE TypeOK'
    BY <1>2, ExpireTypes DEF ConnectAgain, Expire, TypeOK
  <1>3. ASSUME NEW boot \in Boots, NEW ready \in BOOLEAN, ConnectNew(boot, ready)
        PROVE  TypeOK'
    <2>1. /\ [boot |-> boot, lease |-> leases + 1, elapsed |-> FALSE,
              ready |-> ready, job |-> None] \in Session
          /\ [epoch |-> epoch, boot |-> boot, lease |-> leases + 1] \in Owner
      BY DEF TypeOK, Session, Owner
    <2>2. QED
      BY <1>3, <2>1, ExpireTypes DEF ConnectNew, TypeOK
  <1>4. ASSUME NEW b \in issued, WorkerRequest(b) PROVE TypeOK'
    <2>0. b \in Owner
      BY DEF TypeOK
    <2>1. CASE Obsolete(b)
      BY <2>1, ExpireTypes DEF Obsolete, Expire, TypeOK
    <2> SUFFICES ASSUME Alive # None PROVE TypeOK'
      BY <1>4, <2>1 DEF WorkerRequest, PollBusy, PollClaim, PollWait, Heartbeat, Owns,
         ResultObsolete, ResultTooLong, ResultFull, ResultAccept
    <2> USE RenewedType, ExpireTypes
    <2>2. CASE PollBusy(b)
      BY <2>2 DEF PollBusy, TypeOK
    <2>3. CASE PollClaim(b)
      <3>1. Claim(Renewed)
        BY <2>3 DEF PollClaim
      <3>2. QED
        BY <3>1, ClaimType
    <2>4. CASE PollWait(b)
      <3>1. Idle(Renewed) \in Session
        BY DEF Idle, Session
      <3>2. QED
        BY <2>0, <2>4, <3>1 DEF PollWait, TypeOK
    <2>5. ASSUME NEW running \in Requests \cup {None}, NEW ready \in BOOLEAN,
                 Heartbeat(b, running, ready)
          PROVE  TypeOK'
      <3>1. session' \in Session
        BY <2>5 DEF Heartbeat, Session
      <3>2. job' \in Job \cup {None}
        BY <2>5 DEF Heartbeat, Stops, Job
      <3>3. QED
        BY <2>5, <3>1, <3>2 DEF Heartbeat, TypeOK
    <2>6. ASSUME NEW r \in Requests, NEW seq \in 0..MaxResults,
                 ResultObsolete(b, r, seq)
          PROVE  TypeOK'
      BY <2>6 DEF ResultObsolete, TypeOK
    <2>7. ASSUME NEW r \in Requests, NEW seq \in 0..MaxResults, NEW e \in Results,
                 ResultTooLong(b, r, seq, e)
          PROVE  TypeOK'
      <3>1. job' \in Job
        BY <2>7 DEF ResultTooLong, Expected, Job
      <3>2. QED
        BY <2>7, <3>1 DEF ResultTooLong, TypeOK
    <2>8. ASSUME NEW r \in Requests, NEW seq \in 0..MaxResults, NEW e \in Results,
                 ResultFull(b, r, seq, e)
          PROVE  TypeOK'
      BY <2>8 DEF ResultFull, TypeOK
    <2>9. ASSUME NEW r \in Requests, NEW seq \in 0..MaxResults, NEW e \in Results,
                 ResultAccept(b, r, seq, e)
          PROVE  TypeOK'
      <3>1. e \in Event /\ job' \in Job
        BY <2>9, AcceptTypes
      <3>3. session' \in Session
        BY <2>9 DEF ResultAccept, Idle, Session
      <3>4. accepted' \in [Requests -> Seq(Event)]
        BY <2>9, <3>1 DEF ResultAccept, TypeOK
      <3>5. QED
        BY <2>9, <3>1, <3>3, <3>4 DEF ResultAccept, TypeOK
    <2>10. QED
      BY <1>4, <2>1, <2>2, <2>3, <2>4, <2>5, <2>6, <2>7, <2>8, <2>9 DEF WorkerRequest
  <1>5. CASE Wake
    <2> USE RenewedType, ExpireTypes
    <2>1. CASE WakeObsolete
      BY <2>1 DEF WakeObsolete, TypeOK
    <2>2. CASE WakeClaim
      BY <2>2, ClaimType DEF WakeClaim, Owns
    <2>3. CASE WakeEmpty
      BY <2>3 DEF WakeEmpty, Owns, TypeOK
    <2>4. CASE WakeWait
      BY <2>4 DEF WakeWait, Owns, TypeOK
    <2>5. QED
      BY <1>5, <2>1, <2>2, <2>3, <2>4 DEF Wake
  <1>6. ASSUME NEW r \in Requests, StreamOpen(r) PROVE TypeOK'
    <2>1. job' \in Job
      BY <1>6, OpenTypes
    <2>2. QED
      BY <1>6, <2>1, ExpireTypes DEF StreamOpen, TypeOK, Stages, Open
  <1>7. ASSUME NEW r \in Requests, StreamRefuse(r) PROVE TypeOK'
    BY <1>7, ExpireTypes DEF StreamRefuse, TypeOK, Stages, Ended
  <1>8. ASSUME NEW r \in Requests, StreamFail(r) PROVE TypeOK'
    BY <1>8, ExpireTypes DEF StreamFail, TypeOK, Stages, Open
  <1>9. ASSUME NEW r \in Requests, StreamTake(r) PROVE TypeOK'
    <2>1. job' \in Job
      BY <1>9, TakeTypes
    <2>2. /\ pc' \in [Requests -> Stages]
          /\ taken' \in [Requests -> Seq(Event)]
      <3>1. /\ AfterEvent(Head(job.events)) \in Stages
            /\ Append(taken[r], Head(job.events)) \in Seq(Event)
        BY <1>9, TakeTypes DEF TypeOK, Stages
      <3>2. QED
        BY <1>9, <3>1 DEF StreamTake, TypeOK
    <2>3. QED
      BY <1>9, <2>1, <2>2, ExpireTypes DEF StreamTake, TypeOK
  <1>10. ASSUME NEW r \in Requests, StreamResume(r) PROVE TypeOK'
    BY <1>10 DEF StreamResume, TypeOK, Stages, Open
  <1>11. ASSUME NEW r \in Requests, StreamClose(r) PROVE TypeOK'
    <2>1. job' \in Job \cup {None}
      BY <1>11 DEF StreamClose, TypeOK
    <2>2. pc' \in [Requests -> Stages]
      BY <1>11 DEF StreamClose, TypeOK, Stages, Ended
    <2>3. /\ accepted' \in [Requests -> Seq(Event)]
          /\ taken' \in [Requests -> Seq(Event)]
      <3>1. <<>> \in Seq(Event)
        OBVIOUS
      <3>2. CASE pc[r] = "finishing"
        BY <1>11, <3>2 DEF StreamClose, TypeOK
      <3>3. CASE pc[r] = "failing"
        <4>1. /\ [accepted EXCEPT ![r] = <<>>] \in [Requests -> Seq(Event)]
              /\ [taken EXCEPT ![r] = <<>>] \in [Requests -> Seq(Event)]
          BY <3>1 DEF TypeOK
        <4>2. QED
          BY <1>11, <3>3, <4>1 DEF StreamClose
      <3>4. QED
        BY <1>11, <3>2, <3>3 DEF StreamClose
    <2>4. QED
      BY <1>11, <2>1, <2>2, <2>3 DEF StreamClose, TypeOK
  <1>12. ASSUME NEW r \in Requests, StreamAbandon(r) PROVE TypeOK'
    BY <1>12 DEF StreamAbandon, TypeOK, Stages, Open
  <1>13. ASSUME NEW r \in Requests, Cancel(r) PROVE TypeOK'
    BY <1>13 DEF Cancel, TypeOK
  <1>14. CASE LeaseElapse
    BY <1>14 DEF LeaseElapse, TypeOK, Session
  <1>15. CASE JobDue
    BY <1>15 DEF JobDue, TypeOK, Job
  <1>16. CASE Restart
    BY <1>16 DEF Restart, TypeOK, Stages, Ended
  <1>17. CASE UNCHANGED vars
    BY <1>17 DEF vars, TypeOK
  <1>18. QED
    BY <1>1, <1>2, <1>3, <1>4, <1>5, <1>6, <1>7, <1>8, <1>9, <1>10, <1>11, <1>12,
       <1>13, <1>14, <1>15, <1>16, <1>17 DEF Next, StreamStep

(* Theorem: no operation of the relay leaves its state out of shape, whatever *)
(* authenticated workers send and however requests interleave.                *)
THEOREM Typed == Spec => []TypeOK
  <1>1. QED
    BY TypeInit, TypeStep, PTL DEF Spec

----------------------------------------------------------------------------
(* Ownership: which session a job belongs to, what the marker says, and which *)
(* stream holds the slot.                                                     *)

\* Only a claimed job gets results.
DoneWasClaimed == job # None /\ job.done => job.claimed

Owning == JobHasOwner /\ BusyMarker /\ OneStream /\ DoneWasClaimed

\* Expiry and lease renewal keep it, for whatever reason they happen.
LEMMA QuietOwning ==
    ASSUME TypeOK, Owning, job' = JobNow, pc' = pc,
           session' = Alive \/ (Alive # None /\ session' = Renewed)
    PROVE  Owning'
  <1> USE ExpireTypes, RenewedType
  <1>1. JobHasOwner' /\ BusyMarker'
    <2>1. CASE Live(JobNow)
      <3>1. /\ job' = job /\ Live(job) /\ Alive # None /\ session # None
            /\ session' # None /\ session'.lease = session.lease
            /\ session'.job = session.job
        BY <2>1
      <3>2. QED
        BY <3>1 DEF Owning, JobHasOwner, BusyMarker, Live
    <2>2. CASE ~Live(JobNow)
      BY <2>2 DEF JobHasOwner, BusyMarker, Live
    <2>3. QED
      BY <2>1, <2>2
  <1>2. OneStream' /\ DoneWasClaimed'
    BY DEF Owning, OneStream, DoneWasClaimed
  <1>3. QED
    BY <1>1, <1>2 DEF Owning

\* The same when a stream's stage changes, for the parts about session and job.
LEMMA SilentOwning ==
    ASSUME TypeOK, Owning, job' = JobNow, session' = Alive, OneStream'
    PROVE  Owning'
  <1>1. CASE Live(JobNow)
    BY <1>1, ExpireTypes DEF Owning, JobHasOwner, BusyMarker, DoneWasClaimed, Live
  <1>2. CASE ~Live(JobNow)
    BY <1>2, ExpireTypes DEF Owning, JobHasOwner, BusyMarker, DoneWasClaimed, Live
  <1>3. QED
    BY <1>1, <1>2

\* Claiming raises the marker of the claimed job.
LEMMA ClaimOwning ==
    ASSUME TypeOK, Owning, Alive # None, Claim(Renewed)
    PROVE  Owning'
  <1> USE ExpireTypes, RenewedType
  <1>1. /\ Live(JobNow) /\ JobNow = job /\ job \in Job /\ ~job.claimed
    BY DEF Claim, Claimable, Live
  <1>2. /\ job' \in Job /\ job'.claimed /\ job'.id = job.id /\ job'.error = job.error
        /\ job'.lease = job.lease /\ job'.done = job.done /\ job' # None
    BY <1>1 DEF Claim, Job
  <1>3. /\ session' \in Session /\ session'.job = job.id /\ session'.lease = session.lease
    BY <1>1 DEF Claim, Session, Job
  <1>4. ~job.done
    BY <1>1 DEF Owning, DoneWasClaimed
  <1>5. JobHasOwner' /\ BusyMarker' /\ DoneWasClaimed'
    BY <1>1, <1>2, <1>3, <1>4
       DEF Owning, JobHasOwner, BusyMarker, DoneWasClaimed, Live
  <1>6. OneStream'
    BY <1>1, <1>2 DEF Owning, OneStream, Claim, Histories
  <1>7. QED
    BY <1>5, <1>6 DEF Owning

LEMMA OwningInit == Init => Owning
  BY DEF Init, Owning, JobHasOwner, BusyMarker, OneStream, DoneWasClaimed, Live, Open

LEMMA OwningStep == TypeOK /\ Owning /\ [Next]_vars => Owning'
  <1> SUFFICES ASSUME TypeOK, Owning, [Next]_vars PROVE Owning'
    OBVIOUS
  <1> USE DEF Issuance, Histories
  <1>1. CASE Expire
    BY <1>1, QuietOwning DEF Expire
  <1>2. ASSUME NEW boot \in Boots, ConnectAgain(boot) PROVE Owning'
    BY <1>2, QuietOwning DEF ConnectAgain, Expire
  <1>3. ASSUME NEW boot \in Boots, NEW ready \in BOOLEAN, ConnectNew(boot, ready)
        PROVE  Owning'
    <2>1. ~Live(job')
      BY <1>3, ExpireTypes DEF ConnectNew
    <2>2. JobHasOwner' /\ BusyMarker'
      BY <2>1 DEF JobHasOwner, BusyMarker, Live
    <2>3. OneStream' /\ DoneWasClaimed'
      BY <1>3, ExpireTypes DEF ConnectNew, Owning, OneStream, DoneWasClaimed
    <2>4. QED
      BY <2>2, <2>3 DEF Owning
  <1>4. ASSUME NEW b \in issued, WorkerRequest(b) PROVE Owning'
    <2>1. CASE Obsolete(b)
      BY <2>1, QuietOwning DEF Obsolete, Expire
    <2> SUFFICES ASSUME Alive # None PROVE Owning'
      BY <1>4, <2>1 DEF WorkerRequest, PollBusy, PollClaim, PollWait, Heartbeat, Owns,
         ResultObsolete, ResultTooLong, ResultFull, ResultAccept
    <2>2. CASE PollBusy(b)
      BY <2>2, QuietOwning DEF PollBusy
    <2>3. CASE PollClaim(b)
      BY <2>3, ClaimOwning DEF PollClaim
    <2>4. CASE PollWait(b)
      <3>1. CASE JobNow = None
        BY <2>4, <3>1, ExpireTypes DEF PollWait, Owning, JobHasOwner, BusyMarker,
           OneStream, DoneWasClaimed, Live
      <3>2. CASE JobNow # None
        BY <2>4, <3>2, QuietOwning DEF PollWait
      <3>3. QED
        BY <3>1, <3>2
    <2>5. ASSUME NEW running \in Requests \cup {None}, NEW ready \in BOOLEAN,
                 Heartbeat(b, running, ready)
          PROVE  Owning'
      <3>1. /\ session' # None /\ session'.lease = session.lease
            /\ session'.job = IF Active(JobNow, running) THEN running
                              ELSE IF Clears(JobNow, running) THEN None ELSE session.job
        <4>1. Renewed \in Session
          BY RenewedType
        <4>2. session' \in Session
          BY <2>5, <4>1 DEF Heartbeat, Session
        <4>3. QED
          BY <2>5, <4>1, <4>2, RenewedType DEF Heartbeat, Session
      <3>2. CASE Stops(JobNow, running, ready)
        <4>1. JobNow # None /\ JobNow \in Job
          BY <3>2, ExpireTypes DEF Stops
        <4>2. /\ job' # None /\ job'.error /\ job'.id = job.id
              /\ job'.done = job.done /\ job'.claimed = job.claimed
          BY <2>5, <3>2, <4>1, ExpireTypes DEF Heartbeat, Job
        <4>3. QED
          BY <2>5, <4>1, <4>2, ExpireTypes DEF Heartbeat, Owning, JobHasOwner, BusyMarker,
             OneStream, DoneWasClaimed, Live
      <3>3. CASE ~Stops(JobNow, running, ready)
        <4>1. job' = JobNow
          BY <2>5, <3>3 DEF Heartbeat
        <4>2. JobHasOwner' /\ BusyMarker'
          <5>1. CASE ~Live(JobNow)
            BY <4>1, <5>1 DEF JobHasOwner, BusyMarker, Live
          <5>2. CASE Live(JobNow)
            <6>1. JobNow = job /\ job \in Job /\ Live(job)
              BY <5>2, ExpireTypes DEF Live
            <6>2. session' # None /\ session'.lease = job.lease
              BY <3>1, <6>1 DEF Owning, JobHasOwner
            <6>3. session'.job = IF job.claimed /\ ~job.done THEN job.id ELSE None
              BY <3>1, <6>1 DEF Active, Clears, Owning, BusyMarker, Live
            <6>4. QED
              BY <4>1, <6>1, <6>2, <6>3 DEF JobHasOwner, BusyMarker
          <5>3. QED
            BY <5>1, <5>2
        <4>3. OneStream' /\ DoneWasClaimed'
          BY <2>5, <4>1, ExpireTypes DEF Heartbeat, Owning, OneStream, DoneWasClaimed
        <4>4. QED
          BY <4>2, <4>3 DEF Owning
      <3>4. QED
        BY <3>2, <3>3
    <2>6. ASSUME NEW r \in Requests, NEW seq \in 0..MaxResults,
                 ResultObsolete(b, r, seq)
          PROVE  Owning'
      BY <2>6, QuietOwning DEF ResultObsolete
    <2>7. ASSUME NEW r \in Requests, NEW seq \in 0..MaxResults, NEW e \in Results,
                 ResultTooLong(b, r, seq, e)
          PROVE  Owning'
      <3>1. JobNow # None /\ JobNow \in Job
        BY <2>7, ExpireTypes DEF ResultTooLong, Expected
      <3>2. /\ job' # None /\ job'.error /\ job'.id = job.id
            /\ job'.done = job.done /\ job'.claimed = job.claimed
        BY <2>7, <3>1, ExpireTypes DEF ResultTooLong, Job
      <3>3. QED
        BY <2>7, <3>1, <3>2, ExpireTypes DEF ResultTooLong, Owning, JobHasOwner,
           BusyMarker, OneStream, DoneWasClaimed, Live
    <2>8. ASSUME NEW r \in Requests, NEW seq \in 0..MaxResults, NEW e \in Results,
                 ResultFull(b, r, seq, e)
          PROVE  Owning'
      BY <2>8, QuietOwning DEF ResultFull
    <2>9. ASSUME NEW r \in Requests, NEW seq \in 0..MaxResults, NEW e \in Results,
                 ResultAccept(b, r, seq, e)
          PROVE  Owning'
      <3>1. /\ Live(job) /\ JobNow = job /\ job \in Job
            /\ job.claimed /\ ~job.done /\ e.done \in BOOLEAN
            /\ job' # None /\ job'.id = job.id /\ job'.lease = job.lease
            /\ job'.claimed /\ job'.done = e.done /\ job'.error = job.error
        BY <2>9, AcceptTypes
      <3>4. /\ session' # None /\ session'.lease = session.lease
            /\ session'.job = IF e.done THEN None ELSE session.job
        BY <2>9, <3>1, RenewedType DEF ResultAccept, Idle, Session
      <3>5. JobHasOwner' /\ BusyMarker' /\ DoneWasClaimed'
        BY <3>1, <3>4 DEF Owning, JobHasOwner, BusyMarker, DoneWasClaimed, Live
      <3>6. OneStream'
        BY <2>9, <3>1 DEF ResultAccept, Owning, OneStream
      <3>7. QED
        BY <3>5, <3>6 DEF Owning
    <2>10. QED
      BY <1>4, <2>1, <2>2, <2>3, <2>4, <2>5, <2>6, <2>7, <2>8, <2>9 DEF WorkerRequest
  <1>5. CASE Wake
    <2>1. CASE WakeObsolete
      BY <2>1, QuietOwning DEF WakeObsolete
    <2>2. CASE WakeClaim
      BY <2>2, ClaimOwning DEF WakeClaim, Owns
    <2>3. CASE WakeEmpty
      BY <2>3, QuietOwning DEF WakeEmpty, Owns
    <2>4. CASE WakeWait
      BY <2>4, QuietOwning DEF WakeWait, Owns
    <2>5. QED
      BY <1>5, <2>1, <2>2, <2>3, <2>4 DEF Wake
  <1>6. ASSUME NEW r \in Requests, StreamOpen(r) PROVE Owning'
    <2>1. /\ session # None /\ session.job = None /\ job = None /\ session' = session
          /\ job' # None /\ job'.id = r /\ job'.lease = session.lease
          /\ ~job'.claimed /\ ~job'.done
      BY <1>6, OpenTypes DEF StreamOpen
    <2>3. JobHasOwner' /\ BusyMarker' /\ DoneWasClaimed'
      BY <2>1 DEF JobHasOwner, BusyMarker, DoneWasClaimed, Live
    <2>4. OneStream'
      BY <1>6, <2>1 DEF StreamOpen, Owning, OneStream, Open, TypeOK
    <2>5. QED
      BY <2>3, <2>4 DEF Owning
  <1>7. ASSUME NEW r \in Requests, StreamRefuse(r) PROVE Owning'
    <2>1. OneStream'
      BY <1>7, ExpireTypes DEF StreamRefuse, Owning, OneStream, Open, TypeOK
    <2>2. QED
      BY <1>7, <2>1, SilentOwning DEF StreamRefuse
  <1>8. ASSUME NEW r \in Requests, StreamFail(r) PROVE Owning'
    <2>1. OneStream'
      BY <1>8, ExpireTypes DEF StreamFail, Owning, OneStream, Open, TypeOK
    <2>2. QED
      BY <1>8, <2>1, SilentOwning DEF StreamFail
  <1>9. ASSUME NEW r \in Requests, StreamTake(r) PROVE Owning'
    <2>1. /\ Live(job) /\ Alive = session /\ job' # None
          /\ job'.id = job.id /\ job'.lease = job.lease
          /\ job'.claimed = job.claimed /\ job'.done = job.done /\ job'.error = job.error
      BY <1>9, TakeTypes
    <2>2. AfterEvent(Head(job.events)) \in Open
      BY <1>9, TakeTypes
    <2>3. JobHasOwner' /\ BusyMarker' /\ DoneWasClaimed'
      BY <1>9, <2>1
         DEF StreamTake, Owning, JobHasOwner, BusyMarker, DoneWasClaimed, Live
    <2>4. OneStream'
      BY <1>9, <2>1, <2>2 DEF StreamTake, Owning, OneStream, Open, TypeOK, Live
    <2>5. QED
      BY <2>3, <2>4 DEF Owning
  <1>10. ASSUME NEW r \in Requests, StreamResume(r) PROVE Owning'
    BY <1>10 DEF StreamResume, Owning, JobHasOwner, BusyMarker, OneStream,
       DoneWasClaimed, Live, Open, TypeOK
  <1>11. ASSUME NEW r \in Requests, StreamClose(r) PROVE Owning'
    <2>1. job # None /\ job.id = r /\ job' = None
      BY <1>11 DEF StreamClose, Mine, Owning, OneStream, Open
    <2>2. JobHasOwner' /\ BusyMarker' /\ DoneWasClaimed'
      BY <2>1 DEF JobHasOwner, BusyMarker, DoneWasClaimed, Live
    <2>3. OneStream'
      BY <1>11, <2>1 DEF StreamClose, Owning, OneStream, Open, TypeOK
    <2>4. QED
      BY <2>2, <2>3 DEF Owning
  <1>12. ASSUME NEW r \in Requests, StreamAbandon(r) PROVE Owning'
    BY <1>12 DEF StreamAbandon, Owning, JobHasOwner, BusyMarker, OneStream,
       DoneWasClaimed, Live, Open, TypeOK
  <1>13. ASSUME NEW r \in Requests, Cancel(r) PROVE Owning'
    BY <1>13 DEF Cancel, Owning, JobHasOwner, BusyMarker, OneStream, DoneWasClaimed, Live
  <1>14. CASE LeaseElapse
    <2>1. session \in Session /\ session' \in Session
      BY <1>14 DEF LeaseElapse, TypeOK, Session
    <2>2. session'.lease = session.lease /\ session'.job = session.job
      BY <1>14, <2>1 DEF LeaseElapse, Session
    <2>3. QED
      BY <1>14, <2>1, <2>2 DEF LeaseElapse, Owning, JobHasOwner, BusyMarker, OneStream,
         DoneWasClaimed, Live
  <1>15. CASE JobDue
    <2>1. job \in Job /\ job' \in Job /\ job' = [job EXCEPT !.due = TRUE]
      BY <1>15 DEF JobDue, TypeOK, Job
    <2>2. /\ job'.id = job.id /\ job'.lease = job.lease /\ job'.claimed = job.claimed
          /\ job'.done = job.done /\ job'.error = job.error
      BY <2>1 DEF Job
    <2>3. QED
      BY <1>15, <2>1, <2>2 DEF JobDue, Owning, JobHasOwner, BusyMarker, OneStream,
         DoneWasClaimed, Live
  <1>16. CASE Restart
    BY <1>16 DEF Restart, Owning, JobHasOwner, BusyMarker, OneStream, DoneWasClaimed,
       Live, Open
  <1>17. CASE UNCHANGED vars
    BY <1>17 DEF vars, Owning, JobHasOwner, BusyMarker, OneStream, DoneWasClaimed, Live
  <1>18. QED
    BY <1>1, <1>2, <1>3, <1>4, <1>5, <1>6, <1>7, <1>8, <1>9, <1>10, <1>11, <1>12,
       <1>13, <1>14, <1>15, <1>16, <1>17 DEF Next, StreamStep

(* Theorem: a job that has not failed belongs to the session in place, so no  *)
(* expired session's job passes to the next lease (_expire, connect).         *)
THEOREM JobsHaveOwners == Spec => []JobHasOwner
  <1>1. TypeOK /\ Owning => JobHasOwner
    BY DEF Owning
  <1>2. QED
    BY <1>1, TypeInit, TypeStep, OwningInit, OwningStep, PTL DEF Spec

(* Theorem: whatever stale, repeated or crossed polls, heartbeats and results *)
(* arrive, the marker of the session names exactly the live claimed job.      *)
THEOREM MarkerIsExact == Spec => []BusyMarker
  <1>1. TypeOK /\ Owning => BusyMarker
    BY DEF Owning
  <1>2. QED
    BY <1>1, TypeInit, TypeStep, OwningInit, OwningStep, PTL DEF Spec

(* Theorem: the job slot and the open stream always match, so two calls of    *)
(* stream() are never dispatched at once.                                     *)
THEOREM StreamsAreExclusive == Spec => []OneStream
  <1>1. TypeOK /\ Owning => OneStream
    BY DEF Owning
  <1>2. QED
    BY <1>1, TypeInit, TypeStep, OwningInit, OwningStep, PTL DEF Spec

----------------------------------------------------------------------------
(* Delivery: what a stream reads is what was accepted for it, in order.       *)

LEMMA EmptyIsEmpty ==
    ASSUME NEW S, NEW q \in Seq(S)
    PROVE  /\ Len(q) \in Nat
           /\ Len(q) = 0 <=> q = <<>>
           /\ q # <<>> => Len(q) \in 1..Len(q)
           /\ \A i \in 1..Len(q) : q # <<>>
  OBVIOUS

LEMMA EventAppend ==
    \A t, q \in Seq(Event), e \in Event : Append(t \o q, e) = t \o Append(q, e)
  <1>1. TAKE t, q \in Seq(Event), e \in Event
  <1> QED OBVIOUS

LEMMA QueueTake ==
    ASSUME NEW S, NEW t \in Seq(S), NEW q \in Seq(S), q # <<>>
    PROVE  t \o q = Append(t, Head(q)) \o Tail(q)
  OBVIOUS

LEMMA QueueHead ==
    ASSUME NEW S, NEW t \in Seq(S), NEW q \in Seq(S), q # <<>>
    PROVE  Len(t) + 1 \in 1..Len(t \o q) /\ (t \o q)[Len(t) + 1] = Head(q)
  <1>1. Len(q) \in Nat \ {0}
    OBVIOUS
  <1>2. QED
    BY <1>1

LEMMA QueueEnd ==
    ASSUME NEW S, NEW t \in Seq(S), NEW q \in Seq(S), q # <<>>,
           Len(t) + 1 = Len(t \o q)
    PROVE  Append(t, Head(q)) = t \o q
  <1>0. \A m, n \in Nat : m + 1 = m + n => n = 1
    OBVIOUS
  <1>a. Len(t) + 1 = Len(t) + Len(q) /\ Len(t) \in Nat /\ Len(q) \in Nat
    BY ConcatProperties, LenProperties
  <1>1. Len(q) = 1
    BY <1>0, <1>a, Zenon
  <1>2. Tail(q) \in Seq(S) /\ Len(Tail(q)) = 0
    BY <1>1, HeadTailProperties
  <1>3. Tail(q) = <<>>
    BY <1>2, EmptyIsEmpty
  <1>4. Append(t, Head(q)) \in Seq(S)
    BY HeadTailProperties
  <1>5. QED
    BY <1>3, <1>4, QueueTake, ConcatEmptySeq

\* A request without an open or finished stream has no events.
Untouched == \A r \in Requests :
    pc[r] \in {"idle", "failed", "refused"} => accepted[r] = <<>> /\ taken[r] = <<>>

Delivering == InOrder /\ TerminalLast /\ StageMatches /\ Complete /\ Untouched

\* Steps that touch neither the events of the job nor the streams keep it.
LEMMA QuietDelivering ==
    ASSUME TypeOK, Delivering, UNCHANGED <<pc, accepted, taken>>,
           job' # None => /\ job # None /\ job'.id = job.id /\ job'.seq = job.seq
                          /\ job'.total = job.total /\ job'.events = job.events
                          /\ job'.done = job.done
    PROVE  Delivering'
  <1>1. InOrder' /\ TerminalLast'
    BY DEF Delivering, InOrder, TerminalLast
  <1>2. StageMatches' /\ Complete' /\ Untouched'
    BY DEF Delivering, StageMatches, Complete, Untouched
  <1>3. QED
    BY <1>1, <1>2 DEF Delivering

\* Marking the job failed is such a step, and so is claiming it.
LEMMA MarkedDelivering ==
    ASSUME TypeOK, Delivering, UNCHANGED <<pc, accepted, taken>>,
           job' = JobNow \/ (JobNow # None /\ job' = [JobNow EXCEPT !.error = TRUE])
    PROVE  Delivering'
  <1>1. CASE job' = JobNow
    BY <1>1, ExpireTypes, QuietDelivering
  <1>2. CASE JobNow # None /\ job' = [JobNow EXCEPT !.error = TRUE]
    <2>1. JobNow \in Job /\ job # None
      BY <1>2, ExpireTypes
    <2>2. /\ job'.id = JobNow.id /\ job'.seq = JobNow.seq /\ job'.total = JobNow.total
          /\ job'.events = JobNow.events /\ job'.done = JobNow.done
      BY <1>2, <2>1 DEF Job
    <2>3. QED
      BY <1>2, <2>1, <2>2, ExpireTypes, QuietDelivering
  <1>3. QED
    BY <1>1, <1>2

LEMMA ClaimDelivering ==
    ASSUME TypeOK, Delivering, NEW s, Claim(s)
    PROVE  Delivering'
  <1>1. JobNow \in Job /\ job # None /\ job' = [JobNow EXCEPT !.claimed = TRUE]
    BY ExpireTypes DEF Claim, Claimable
  <1>2. /\ job'.id = JobNow.id /\ job'.seq = JobNow.seq /\ job'.total = JobNow.total
        /\ job'.events = JobNow.events /\ job'.done = JobNow.done
    BY <1>1 DEF Job
  <1>3. QED
    BY <1>1, <1>2, ExpireTypes, QuietDelivering DEF Claim, Histories

LEMMA DeliveringInit == Init => Delivering
  BY DEF Init, Delivering, InOrder, TerminalLast, StageMatches, Complete, Untouched

\* An accepted result is appended to the queue and to the history alike.
LEMMA AcceptDelivering ==
    ASSUME TypeOK, Owning, Delivering, NEW b, NEW r \in Requests, NEW seq,
           NEW e \in Results, ResultAccept(b, r, seq, e)
    PROVE  Delivering'
  <1>1. /\ JobNow = job /\ job \in Job /\ job' # None /\ ~job.done /\ job.id = r
        /\ e \in Event /\ e.text \in Nat /\ e.done \in BOOLEAN /\ job'.id = r
        /\ job'.done = e.done /\ job'.seq = job.seq + 1 /\ job'.total = job.total + e.text
        /\ job'.events = Append(job.events, e)
    BY AcceptTypes
  <1>2. /\ accepted' = [accepted EXCEPT ![r] = Append(accepted[r], e)]
        /\ taken' = taken /\ pc' = pc
        /\ Len(job.events) < MaxEvents /\ job.total + e.text <= MaxOutput
    BY <1>1 DEF ResultAccept, TooLong, Job
  <1>3. /\ accepted[r] \in Seq(Event) /\ taken[r] \in Seq(Event) /\ job.events \in Seq(Event)
        /\ accepted[r] = taken[r] \o job.events /\ job.seq = Len(accepted[r]) /\ job # None
        /\ e \in Event
    BY <1>1 DEF TypeOK, Job, Delivering, InOrder
  <1>4. accepted'[r] = Append(accepted[r], e) /\ \A q \in Requests \ {r} : accepted'[q] = accepted[q]
    BY <1>2 DEF TypeOK
  <1>5. InOrder'
    <2>1. accepted'[r] = taken[r] \o job'.events
      <3>1. Append(taken[r] \o job.events, e) = taken[r] \o Append(job.events, e)
        BY <1>3, EventAppend, Zenon
      <3>2. QED
        BY <3>1, <1>1, <1>3, <1>4
    <2>2. Len(accepted'[r]) = job.seq + 1 /\ Len(job'.events) = Len(job.events) + 1
      BY <1>1, <1>3, <1>4
    <2>3. Len(job'.events) <= MaxEvents
      BY <1>2, <1>3, <2>2
    <2>4. QED
      BY <1>1, <1>2, <2>1, <2>2, <2>3 DEF InOrder
  <1>6. \A i \in 1..Len(accepted[r]) : ~accepted[r][i].done
    <2>1. \A i \in 1..Len(accepted[r]) : accepted[r][i].done => i = Len(accepted[r])
      BY <1>1, <1>3 DEF Delivering, TerminalLast
    <2>2. ~(accepted[r] # <<>> /\ accepted[r][Len(accepted[r])].done)
      BY <1>1, <1>3 DEF Delivering, TerminalLast
    <2>3. \A i \in 1..Len(accepted[r]) : accepted[r] # <<>>
      BY <1>3, EmptyIsEmpty, Zenon
    <2>4. QED
      BY <2>1, <2>2, <2>3
  <1>7. TerminalLast'
    <2>1. /\ Len(accepted'[r]) = Len(accepted[r]) + 1 /\ accepted'[r] # <<>>
          /\ accepted'[r][Len(accepted[r]) + 1] = e
          /\ \A i \in 1..Len(accepted[r]) : accepted'[r][i] = accepted[r][i]
      <3>1. accepted[r] \in Seq(Event) /\ e \in Event
        BY <1>1, <1>3
      <3>2. QED
        BY <3>1, <1>4, AppendProperties
    <2>2. Len(accepted[r]) \in Nat
      BY <1>3, LenProperties
    <2>3. \A i \in 1..Len(accepted'[r]) : accepted'[r][i].done => i = Len(accepted'[r])
      BY <1>6, <2>1, <2>2
    <2>4. QED
      BY <1>1, <2>1, <2>3 DEF TerminalLast
  <1>8. pc[r] \in Open /\ ~LastIsDone(accepted[r])
    <2>1. pc[r] \in Open
      BY <1>1, <1>3 DEF Owning, OneStream
    <2>2. accepted[r] # <<>> => Len(accepted[r]) \in 1..Len(accepted[r])
      BY <1>3, EmptyIsEmpty, Zenon
    <2>3. QED
      BY <1>6, <2>1, <2>2 DEF LastIsDone
  <1>9. StageMatches' /\ Complete' /\ Untouched'
    BY <1>2, <1>4, <1>8 DEF Delivering, StageMatches, Complete, Untouched, Open
  <1>10. QED
    BY <1>5, <1>7, <1>9 DEF Delivering

\* Reading an event moves it from the queue to the history of what was read; the
\* event that ends the answer is the last one.
LEMMA TakeDelivering ==
    ASSUME TypeOK, Owning, Delivering, NEW r \in Requests, StreamTake(r)
    PROVE  Delivering'
  <1> DEFINE e == Head(job.events)
  <1>1. /\ job \in Job /\ job # None /\ job.id = r /\ job.events # <<>>
        /\ job' # None /\ job'.id = r /\ job'.done = job.done /\ job'.seq = job.seq
        /\ job'.total = job.total /\ job'.events = Tail(job.events)
        /\ e \in Event /\ AfterEvent(e) \in Open
    BY TakeTypes
  <1>2. /\ accepted' = accepted /\ taken' = [taken EXCEPT ![r] = Append(taken[r], e)]
        /\ pc' = [pc EXCEPT ![r] = AfterEvent(e)] /\ pc[r] = "reading"
    BY DEF StreamTake
  <1>3. /\ accepted[r] \in Seq(Event) /\ taken[r] \in Seq(Event) /\ job.events \in Seq(Event)
        /\ accepted[r] = taken[r] \o job.events /\ job.events # <<>>
    BY <1>1 DEF TypeOK, Job, Delivering, InOrder
  <1>4. /\ taken'[r] = Append(taken[r], e) /\ pc'[r] = AfterEvent(e)
        /\ \A q \in Requests \ {r} : taken'[q] = taken[q] /\ pc'[q] = pc[q]
    BY <1>2 DEF TypeOK
  <1>5. InOrder'
    <2>1. accepted[r] = taken'[r] \o job'.events
      <3>1. taken[r] \o job.events = Append(taken[r], e) \o Tail(job.events)
        BY <1>3, QueueTake
      <3>2. QED
        BY <3>1, <1>1, <1>3, <1>4
    <2>2. Len(job'.events) <= MaxEvents
      BY <1>1, <1>3 DEF Delivering, InOrder
    <2>3. QED
      BY <1>1, <1>2, <2>1, <2>2 DEF Delivering, InOrder
  <1>6. TerminalLast'
    BY <1>1, <1>2 DEF Delivering, TerminalLast
  <1>7. ASSUME e.done, ~e.error PROVE taken'[r] = accepted[r] /\ LastIsDone(accepted[r])
    <2>1. /\ Len(taken[r]) + 1 \in 1..Len(accepted[r])
          /\ accepted[r][Len(taken[r]) + 1] = e
          /\ Len(taken[r]) + 1 = Len(accepted[r]) => Append(taken[r], e) = accepted[r]
      <3>1. /\ Len(taken[r]) + 1 \in 1..Len(taken[r] \o job.events)
            /\ (taken[r] \o job.events)[Len(taken[r]) + 1] = e
        <4>1. \A t, q \in Seq(Event) : q # <<>>
              => Len(t) + 1 \in 1..Len(t \o q) /\ (t \o q)[Len(t) + 1] = Head(q)
          BY QueueHead
        <4>2. taken[r] \in Seq(Event) /\ job.events \in Seq(Event) /\ job.events # <<>>
          BY <1>3
        <4>3. QED
          BY <4>1, <4>2, Zenon
      <3>2. Len(taken[r]) + 1 = Len(taken[r] \o job.events)
            => Append(taken[r], e) = taken[r] \o job.events
        BY <1>3, QueueEnd
      <3>3. QED
        BY <3>1, <3>2, <1>3
    <2>2. Len(taken[r]) + 1 = Len(accepted[r])
      BY <1>1, <1>7, <2>1 DEF Delivering, TerminalLast
    <2>3. Append(taken[r], e) = accepted[r]
      BY <2>1, <2>2
    <2>4. accepted[r] # <<>>
      BY <1>3, <2>1, EmptyIsEmpty, Zenon
    <2>5. QED
      BY <1>4, <1>7, <2>1, <2>2, <2>3, <2>4 DEF LastIsDone
  <1>8. AfterEvent(e) \in {"lastText", "done", "finishing"} => e.done /\ ~e.error
    BY <1>1 DEF AfterEvent, Event
  <1>9. StageMatches'
    BY <1>2, <1>4, <1>7, <1>8 DEF Delivering, StageMatches
  <1>10. Complete' /\ Untouched'
    BY <1>1, <1>2, <1>4 DEF Delivering, Complete, Untouched, Open
  <1>11. QED
    BY <1>5, <1>6, <1>9, <1>10 DEF Delivering

LEMMA DeliveringStep == TypeOK /\ Owning /\ Delivering /\ [Next]_vars => Delivering'
  <1> SUFFICES ASSUME TypeOK, Owning, Delivering, [Next]_vars PROVE Delivering'
    OBVIOUS
  <1> USE DEF Issuance, Histories
  <1>1. CASE Expire
    BY <1>1, ExpireTypes, QuietDelivering DEF Expire
  <1>2. ASSUME NEW boot \in Boots, ConnectAgain(boot) PROVE Delivering'
    BY <1>2, ExpireTypes, QuietDelivering DEF ConnectAgain, Expire
  <1>3. ASSUME NEW boot \in Boots, NEW ready \in BOOLEAN, ConnectNew(boot, ready)
        PROVE  Delivering'
    BY <1>3, ExpireTypes, QuietDelivering DEF ConnectNew
  <1>4. ASSUME NEW b \in issued, WorkerRequest(b) PROVE Delivering'
    <2>1. CASE Obsolete(b)
      BY <2>1, ExpireTypes, QuietDelivering DEF Obsolete, Expire
    <2>2. CASE PollBusy(b)
      BY <2>2, ExpireTypes, QuietDelivering DEF PollBusy
    <2>3. CASE PollClaim(b)
      BY <2>3, ClaimDelivering DEF PollClaim
    <2>4. CASE PollWait(b)
      BY <2>4, ExpireTypes, QuietDelivering DEF PollWait
    <2>5. ASSUME NEW running \in Requests \cup {None}, NEW ready \in BOOLEAN,
                 Heartbeat(b, running, ready)
          PROVE  Delivering'
      <3>1. job' = JobNow \/ (JobNow # None /\ job' = [JobNow EXCEPT !.error = TRUE])
        BY <2>5 DEF Heartbeat, Stops
      <3>2. QED
        BY <2>5, <3>1, MarkedDelivering DEF Heartbeat
    <2>6. ASSUME NEW r \in Requests, NEW seq \in 0..MaxResults,
                 ResultObsolete(b, r, seq)
          PROVE  Delivering'
      BY <2>6, ExpireTypes, QuietDelivering DEF ResultObsolete
    <2>7. ASSUME NEW r \in Requests, NEW seq \in 0..MaxResults, NEW e \in Results,
                 ResultTooLong(b, r, seq, e)
          PROVE  Delivering'
      BY <2>7, MarkedDelivering DEF ResultTooLong, Expected
    <2>8. ASSUME NEW r \in Requests, NEW seq \in 0..MaxResults, NEW e \in Results,
                 ResultFull(b, r, seq, e)
          PROVE  Delivering'
      BY <2>8, ExpireTypes, QuietDelivering DEF ResultFull
    <2>9. ASSUME NEW r \in Requests, NEW seq \in 0..MaxResults, NEW e \in Results,
                 ResultAccept(b, r, seq, e)
          PROVE  Delivering'
      BY <2>9, AcceptDelivering
    <2>10. QED
      BY <1>4, <2>1, <2>2, <2>3, <2>4, <2>5, <2>6, <2>7, <2>8, <2>9 DEF WorkerRequest
  <1>5. CASE Wake
    <2>1. CASE WakeObsolete
      BY <2>1, ExpireTypes, QuietDelivering DEF WakeObsolete
    <2>2. CASE WakeClaim
      BY <2>2, ClaimDelivering DEF WakeClaim
    <2>3. CASE WakeEmpty
      BY <2>3, ExpireTypes, QuietDelivering DEF WakeEmpty
    <2>4. CASE WakeWait
      BY <2>4, ExpireTypes, QuietDelivering DEF WakeWait
    <2>5. QED
      BY <1>5, <2>1, <2>2, <2>3, <2>4 DEF Wake
  <1>6. ASSUME NEW r \in Requests, StreamOpen(r) PROVE Delivering'
    <2>1. /\ job' # None /\ job'.id = r /\ ~job'.done /\ job'.seq = 0
          /\ job'.total = 0 /\ job'.events = <<>>
      BY <1>6, OpenTypes
    <2>2. accepted'[r] = <<>> /\ taken'[r] = <<>>
      BY <1>6 DEF StreamOpen, Delivering, Untouched
    <2>3. InOrder' /\ TerminalLast'
      <3>1. <<>> \o <<>> = <<>> /\ Len(<<>>) = 0
        OBVIOUS
      <3>2. QED
        BY <2>1, <2>2, <3>1 DEF InOrder, TerminalLast
    <2>4. StageMatches' /\ Complete' /\ Untouched'
      BY <1>6 DEF StreamOpen, Delivering, StageMatches, Complete, Untouched, TypeOK
    <2>5. QED
      BY <2>3, <2>4 DEF Delivering
  <1>7. ASSUME NEW r \in Requests, StreamRefuse(r) PROVE Delivering'
    <2>1. InOrder' /\ TerminalLast'
      BY <1>7, ExpireTypes DEF StreamRefuse, Delivering, InOrder, TerminalLast
    <2>2. StageMatches' /\ Complete' /\ Untouched'
      BY <1>7 DEF StreamRefuse, Delivering, StageMatches, Complete, Untouched, TypeOK
    <2>3. QED
      BY <2>1, <2>2 DEF Delivering
  <1>8. ASSUME NEW r \in Requests, StreamFail(r) PROVE Delivering'
    <2>1. InOrder' /\ TerminalLast'
      BY <1>8, ExpireTypes DEF StreamFail, Delivering, InOrder, TerminalLast
    <2>2. StageMatches' /\ Complete' /\ Untouched'
      BY <1>8 DEF StreamFail, Delivering, StageMatches, Complete, Untouched, TypeOK
    <2>3. QED
      BY <2>1, <2>2 DEF Delivering
  <1>9. ASSUME NEW r \in Requests, StreamTake(r) PROVE Delivering'
    BY <1>9, TakeDelivering
  <1>10. ASSUME NEW r \in Requests, StreamResume(r) PROVE Delivering'
    BY <1>10 DEF StreamResume, Delivering, InOrder, TerminalLast, StageMatches, Complete,
       Untouched, TypeOK
  <1>11. ASSUME NEW r \in Requests, StreamClose(r) PROVE Delivering'
    <2>1. job' = None
      BY <1>11 DEF StreamClose, Mine, Owning, OneStream, Open
    <2>2. InOrder' /\ TerminalLast'
      BY <2>1 DEF InOrder, TerminalLast
    <2>3. CASE pc[r] = "finishing"
      BY <1>11, <2>2, <2>3 DEF StreamClose, Delivering, StageMatches, Complete, Untouched,
         TypeOK
    <2>4. CASE pc[r] = "failing"
      BY <1>11, <2>2, <2>4 DEF StreamClose, Delivering, StageMatches, Complete, Untouched,
         TypeOK
    <2>5. QED
      BY <1>11, <2>3, <2>4 DEF StreamClose
  <1>12. ASSUME NEW r \in Requests, StreamAbandon(r) PROVE Delivering'
    BY <1>12 DEF StreamAbandon, Delivering, InOrder, TerminalLast, StageMatches, Complete,
       Untouched, TypeOK
  <1>13. ASSUME NEW r \in Requests, Cancel(r) PROVE Delivering'
    BY <1>13, QuietDelivering DEF Cancel
  <1>14. CASE LeaseElapse
    BY <1>14, QuietDelivering DEF LeaseElapse
  <1>15. CASE JobDue
    <2>1. /\ job \in Job /\ job # None /\ job' = [job EXCEPT !.due = TRUE]
      BY <1>15 DEF JobDue, TypeOK
    <2>2. /\ job'.id = job.id /\ job'.seq = job.seq /\ job'.total = job.total
          /\ job'.events = job.events /\ job'.done = job.done
      BY <2>1 DEF Job
    <2>3. QED
      BY <1>15, <2>1, <2>2, QuietDelivering DEF JobDue
  <1>16. CASE Restart
    <2>1. InOrder' /\ TerminalLast'
      BY <1>16 DEF Restart, InOrder, TerminalLast
    <2>2. StageMatches' /\ Complete' /\ Untouched'
      BY <1>16 DEF Restart, Delivering, StageMatches, Complete, Untouched, Open
    <2>3. QED
      BY <2>1, <2>2 DEF Delivering
  <1>17. CASE UNCHANGED vars
    BY <1>17, QuietDelivering DEF vars
  <1>18. QED
    BY <1>1, <1>2, <1>3, <1>4, <1>5, <1>6, <1>7, <1>8, <1>9, <1>10, <1>11, <1>12,
       <1>13, <1>14, <1>15, <1>16, <1>17 DEF Next, StreamStep

(* Theorem: what a stream has read followed by what waits for it is what the  *)
(* relay accepted, within the queue and output limits (dispatch, stream).     *)
THEOREM DeliveryIsInOrder == Spec => []InOrder
  <1>1. TypeOK /\ Owning /\ Delivering => InOrder
    BY DEF Delivering
  <1>2. QED
    BY <1>1, TypeInit, TypeStep, OwningInit, OwningStep, DeliveringInit, DeliveringStep,
       PTL DEF Spec

(* Theorem: a stream that ends well has read everything accepted for it, up   *)
(* to a successful terminal result (stream).                                  *)
THEOREM AnswersAreComplete == Spec => []Complete
  <1>1. TypeOK /\ Owning /\ Delivering => Complete
    BY DEF Delivering
  <1>2. QED
    BY <1>1, TypeInit, TypeStep, OwningInit, OwningStep, DeliveringInit, DeliveringStep,
       PTL DEF Spec

----------------------------------------------------------------------------
(* Leases are not stolen.                                                     *)

LEMMA KeptStep ==
    ASSUME TypeOK, [Next]_vars, session # None, ~session.elapsed, epoch' = epoch
    PROVE  session' # None /\ session'.lease = session.lease
  <1> DEFINE Kept == session' # None /\ session'.lease = session.lease
  <1>a. /\ Alive = session /\ session \in Session /\ Alive # None
        /\ Renewed \in Session /\ Renewed.lease = session.lease
    BY RenewedType DEF Alive, TypeOK
  <1>b. ASSUME session' = session \/ session' = Renewed PROVE Kept
    BY <1>a, <1>b
  <1>c. ASSUME NEW v \in Requests \cup {None}, session' = [Renewed EXCEPT !.job = v]
        PROVE  Kept
    BY <1>a, <1>c DEF Session
  <1>d. ASSUME Claim(Renewed) PROVE Kept
    <2>1. JobNow.id \in Requests
      BY <1>d, ExpireTypes DEF Claim, Claimable, Job
    <2>2. QED
      BY <1>c, <1>d, <2>1 DEF Claim
  <1>1. CASE Expire
    BY <1>1, <1>a, <1>b DEF Expire
  <1>2. ASSUME NEW boot \in Boots, ConnectAgain(boot) PROVE Kept
    BY <1>2, <1>a, <1>b DEF ConnectAgain, Expire
  <1>3. ASSUME NEW boot \in Boots, NEW ready \in BOOLEAN, ConnectNew(boot, ready)
        PROVE  Kept
    BY <1>3, <1>a DEF ConnectNew
  <1>4. ASSUME NEW b \in issued, WorkerRequest(b) PROVE Kept
    <2>1. CASE Obsolete(b) \/ PollBusy(b)
      BY <2>1, <1>a, <1>b DEF Obsolete, Expire, PollBusy
    <2>2. CASE PollClaim(b)
      BY <2>2, <1>d DEF PollClaim
    <2>3. CASE PollWait(b)
      BY <2>3, <1>b, <1>c DEF PollWait, Idle
    <2>4. ASSUME NEW running \in Requests \cup {None}, NEW ready \in BOOLEAN,
                 Heartbeat(b, running, ready)
          PROVE  Kept
      <3>1. session' \in Session /\ session'.lease = Renewed.lease
        BY <2>4, <1>a DEF Heartbeat, Session
      <3>2. QED
        BY <3>1, <1>a
    <2>5. ASSUME NEW r \in Requests, NEW seq \in 0..MaxResults,
                 ResultObsolete(b, r, seq)
          PROVE  Kept
      BY <2>5, <1>b DEF ResultObsolete
    <2>6. ASSUME NEW r \in Requests, NEW seq \in 0..MaxResults, NEW e \in Results,
                 \/ ResultTooLong(b, r, seq, e) \/ ResultFull(b, r, seq, e)
                 \/ ResultAccept(b, r, seq, e)
          PROVE  Kept
      BY <2>6, <1>b, <1>c DEF ResultTooLong, ResultFull, ResultAccept, Idle
    <2>7. QED
      BY <1>4, <2>1, <2>2, <2>3, <2>4, <2>5, <2>6 DEF WorkerRequest
  <1>5. CASE Wake
    BY <1>5, <1>a, <1>b, <1>d DEF Wake, WakeObsolete, WakeClaim, WakeEmpty, WakeWait
  <1>6. ASSUME NEW r \in Requests,
               StreamOpen(r) \/ StreamRefuse(r) \/ StreamFail(r) \/ StreamTake(r)
        PROVE  Kept
    BY <1>6, <1>a, <1>b DEF StreamOpen, StreamRefuse, StreamFail, StreamTake
  <1>7. ASSUME NEW r \in Requests,
               StreamResume(r) \/ StreamClose(r) \/ StreamAbandon(r) \/ Cancel(r)
        PROVE  Kept
    BY <1>7, <1>b DEF StreamResume, StreamClose, StreamAbandon, Cancel
  <1>8. CASE LeaseElapse
    BY <1>8, <1>a DEF LeaseElapse, Session
  <1>9. CASE JobDue
    BY <1>9, <1>b DEF JobDue
  <1>10. CASE Restart
    BY <1>10 DEF Restart, TypeOK
  <1>11. CASE UNCHANGED vars
    BY <1>11, <1>b DEF vars
  <1>12. QED
    BY <1>1, <1>2, <1>3, <1>4, <1>5, <1>6, <1>7, <1>8, <1>9, <1>10, <1>11
       DEF Next, StreamStep

(* Theorem: while the relay runs, a lease in force stays with its worker      *)
(* until it elapses (dispatch connect branch, _expire).                       *)
THEOREM LeasesAreKept == Spec => LeaseKept
  <1>1. TypeOK /\ [Next]_vars
        => [session # None /\ ~session.elapsed /\ epoch' = epoch
            => session' # None /\ session'.lease = session.lease]_vars
    BY KeptStep
  <1>2. QED
    BY <1>1, TypeInit, TypeStep, PTL DEF Spec, LeaseKept

----------------------------------------------------------------------------
(* The relay implements the channel of InferenceChannel.tla.                  *)

\* What a step means to the channel when no request changes status.
LEMMA SameStatus ==
    ASSUME \A r \in Requests : Status(pc'[r]) = Status(pc[r])
    PROVE  [r \in Requests |-> Status(pc[r])]' = [r \in Requests |-> Status(pc[r])]
  OBVIOUS

LEMMA StatusOpen == \A stage \in Stages : Status(stage) = "open" <=> stage \in Open
  BY DEF Status, Stages, Open, Ended

LEMMA StreamRefines ==
    ASSUME TypeOK, Owning, Delivering, NEW r \in Requests,
           \/ StreamOpen(r) \/ StreamRefuse(r) \/ StreamStep(r)
           \/ StreamAbandon(r) \/ Cancel(r)
    PROVE  [Channel!Next]_(Channel!vars)
  <1> DEFINE status == [q \in Requests |-> Status(pc[q])]
  <1>a. /\ pc \in [Requests -> Stages]
        /\ accepted \in [Requests -> Seq(Event)] /\ taken \in [Requests -> Seq(Event)]
    BY DEF TypeOK
  <1>b. ASSUME NEW s, pc' = [pc EXCEPT ![r] = s], Status(s) = Status(pc[r]),
               UNCHANGED <<accepted, taken>>
        PROVE  UNCHANGED Channel!vars
    <2>1. \A q \in Requests : Status(pc'[q]) = Status(pc[q])
      BY <1>a, <1>b
    <2>2. QED
      BY <1>b, <2>1, SameStatus DEF Channel!vars
  <1>1. CASE StreamOpen(r)
    <2>1. pc[r] = "idle" /\ pc' = [pc EXCEPT ![r] = "reading"] /\ UNCHANGED <<accepted, taken>>
      BY <1>1 DEF StreamOpen
    <2>2. \A q \in Requests : pc[q] \notin Open
      BY <1>1, OpenTypes DEF Owning, OneStream
    <2>3. \A q \in Requests : status[q] # "open"
      BY <1>a, <2>2, StatusOpen
    <2>4. Status("idle") = "none" /\ Status("reading") = "open"
      BY DEF Status, Open
    <2>5. status' = [status EXCEPT ![r] = "open"]
      BY <1>a, <2>1, <2>4
    <2>6. Channel!Begin(r)
      BY <2>1, <2>3, <2>4, <2>5 DEF Channel!Begin
    <2>7. QED
      BY <2>6 DEF Channel!Next
  <1>2. CASE StreamRefuse(r)
    <2>1. pc[r] = "idle" /\ pc' = [pc EXCEPT ![r] = "refused"] /\ UNCHANGED <<accepted, taken>>
      BY <1>2 DEF StreamRefuse
    <2>2. Status("idle") = "none" /\ Status("refused") = "failed"
      BY DEF Status, Open
    <2>3. status' = [status EXCEPT ![r] = "failed"]
      BY <1>a, <2>1, <2>2
    <2>4. Channel!Refuse(r)
      BY <2>1, <2>2, <2>3 DEF Channel!Refuse
    <2>5. QED
      BY <2>4 DEF Channel!Next
  <1>3. CASE StreamFail(r)
    <2>1. Status("failing") = "open" /\ Status("reading") = "open"
      BY DEF Status, Open
    <2>2. pc' = [pc EXCEPT ![r] = "failing"] /\ UNCHANGED <<accepted, taken>> /\ pc[r] = "reading"
      BY <1>3 DEF StreamFail
    <2>3. QED
      BY <1>b, <2>1, <2>2
  <1>4. CASE StreamTake(r)
    <2>1. /\ job.id = r /\ job # None /\ job.events \in Seq(Event) /\ job.events # <<>>
          /\ AfterEvent(Head(job.events)) \in Open
      BY <1>4, TakeTypes DEF Job
    <2>2. /\ pc[r] = "reading" /\ pc' = [pc EXCEPT ![r] = AfterEvent(Head(job.events))]
          /\ accepted' = accepted
          /\ taken' = [taken EXCEPT ![r] = Append(taken[r], Head(job.events))]
      BY <1>4 DEF StreamTake
    <2>3. /\ Status(AfterEvent(Head(job.events))) = "open" /\ Status("reading") = "open"
      BY <2>1 DEF Status, Open
    <2>4. status' = status
      BY <1>a, <2>2, <2>3
    <2>5. accepted[r] = taken[r] \o job.events /\ taken[r] \in Seq(Event)
      BY <1>a, <2>1 DEF Delivering, InOrder
    <2>6. /\ Len(taken[r]) + 1 \in 1..Len(accepted[r])
          /\ accepted[r][Len(taken[r]) + 1] = Head(job.events)
      <3>1. /\ Len(taken[r]) + 1 \in 1..Len(taken[r] \o job.events)
            /\ (taken[r] \o job.events)[Len(taken[r]) + 1] = Head(job.events)
        <4>1. \A t, q \in Seq(Event) : q # <<>>
              => Len(t) + 1 \in 1..Len(t \o q) /\ (t \o q)[Len(t) + 1] = Head(q)
          BY QueueHead
        <4>2. taken[r] \in Seq(Event) /\ job.events \in Seq(Event) /\ job.events # <<>>
          BY <2>1, <2>5
        <4>3. QED
          BY <4>1, <4>2, Zenon
      <3>2. QED
        BY <3>1, <2>5
    <2>7. Len(taken[r]) < Len(accepted[r])
      <3>1. Len(taken[r]) \in Nat /\ Len(accepted[r]) \in Nat
        BY <1>a, LenProperties
      <3>2. QED
        BY <3>1, <2>6
    <2>8. Channel!Receive(r)
      BY <2>2, <2>3, <2>4, <2>6, <2>7 DEF Channel!Receive
    <2>9. QED
      BY <2>8 DEF Channel!Next
  <1>5. CASE StreamResume(r)
    <2>1. /\ Status("text") = "open" /\ Status("lastText") = "open" /\ Status("done") = "open"
          /\ Status("reading") = "open" /\ Status("finishing") = "open"
      BY DEF Status, Open
    <2>2. UNCHANGED <<accepted, taken>>
      BY <1>5 DEF StreamResume
    <2>3. CASE pc[r] = "text"
      <3>1. pc' = [pc EXCEPT ![r] = "reading"]
        BY <1>5, <2>3 DEF StreamResume
      <3>2. QED
        BY <1>b, <2>1, <2>2, <2>3, <3>1
    <2>4. CASE pc[r] = "lastText"
      <3>1. pc' = [pc EXCEPT ![r] = "done"]
        BY <1>5, <2>4 DEF StreamResume
      <3>2. QED
        BY <1>b, <2>1, <2>2, <2>4, <3>1
    <2>5. CASE pc[r] = "done"
      <3>1. pc' = [pc EXCEPT ![r] = "finishing"]
        BY <1>5, <2>5 DEF StreamResume
      <3>2. QED
        BY <1>b, <2>1, <2>2, <2>5, <3>1
    <2>6. QED
      BY <1>5, <2>3, <2>4, <2>5 DEF StreamResume
  <1>6. CASE StreamClose(r)
    <2>1. Status(pc[r]) = "open"
      BY <1>6 DEF StreamClose, Status, Open
    <2>2. CASE pc[r] = "finishing"
      <3>1. taken[r] = accepted[r] /\ LastIsDone(accepted[r])
        BY <2>2 DEF Delivering, StageMatches
      <3>2. pc' = [pc EXCEPT ![r] = "finished"] /\ UNCHANGED <<accepted, taken>>
        BY <1>6, <2>2 DEF StreamClose
      <3>3. Status("finished") = "finished"
        BY DEF Status, Open
      <3>4. status' = [status EXCEPT ![r] = "finished"]
        BY <1>a, <3>2, <3>3
      <3>5. Channel!Finish(r)
        BY <2>1, <3>1, <3>2, <3>4 DEF Channel!Finish, LastIsDone
      <3>6. QED
        BY <3>5 DEF Channel!Next
    <2>3. CASE pc[r] = "failing"
      <3>1. /\ pc' = [pc EXCEPT ![r] = "failed"]
            /\ accepted' = [accepted EXCEPT ![r] = <<>>] /\ taken' = [taken EXCEPT ![r] = <<>>]
        BY <1>6, <2>3 DEF StreamClose
      <3>2. Status("failed") = "failed"
        BY DEF Status, Open
      <3>3. status' = [status EXCEPT ![r] = "failed"]
        BY <1>a, <3>1, <3>2
      <3>4. Channel!Fail(r)
        BY <2>1, <3>1, <3>3 DEF Channel!Fail
      <3>5. QED
        BY <3>4 DEF Channel!Next
    <2>4. QED
      BY <1>6, <2>2, <2>3 DEF StreamClose
  <1>7. CASE StreamAbandon(r)
    <2>1. Status("text") = "open" /\ Status("lastText") = "open" /\ Status("failing") = "open"
      BY DEF Status, Open
    <2>2. /\ pc' = [pc EXCEPT ![r] = "failing"] /\ UNCHANGED <<accepted, taken>>
          /\ pc[r] = "text" \/ pc[r] = "lastText"
      BY <1>7 DEF StreamAbandon
    <2>3. QED
      BY <1>b, <2>1, <2>2
  <1>8. CASE Cancel(r)
    BY <1>8 DEF Cancel, Channel!vars
  <1>9. QED
    BY <1>1, <1>2, <1>3, <1>4, <1>5, <1>6, <1>7, <1>8 DEF StreamStep

\* The relay's restart fails the one open request, if there is one.
LEMMA RestartRefines ==
    ASSUME TypeOK, Owning, Delivering, Restart
    PROVE  [Channel!Next]_(Channel!vars)
  <1> DEFINE status == [q \in Requests |-> Status(pc[q])]
  <1>a. /\ pc \in [Requests -> Stages]
        /\ accepted \in [Requests -> Seq(Event)] /\ taken \in [Requests -> Seq(Event)]
    BY DEF TypeOK
  <1>b. /\ pc' = [q \in Requests |-> IF pc[q] \in Open THEN "failed" ELSE pc[q]]
        /\ accepted' = [q \in Requests |-> IF pc[q] \in Open THEN <<>> ELSE accepted[q]]
        /\ taken' = [q \in Requests |-> IF pc[q] \in Open THEN <<>> ELSE taken[q]]
    BY DEF Restart
  <1>1. CASE \A q \in Requests : pc[q] \notin Open
    <2>1. pc' = pc /\ accepted' = accepted /\ taken' = taken
      BY <1>a, <1>b, <1>1
    <2>2. QED
      BY <2>1 DEF Channel!vars
  <1>2. CASE \E q \in Requests : pc[q] \in Open
    <2>1. PICK r \in Requests : pc[r] \in Open
      BY <1>2
    <2>2. \A q \in Requests : pc[q] \in Open => q = r
      BY <2>1 DEF Owning, OneStream
    <2>3. /\ pc' = [pc EXCEPT ![r] = "failed"]
          /\ accepted' = [accepted EXCEPT ![r] = <<>>] /\ taken' = [taken EXCEPT ![r] = <<>>]
      BY <1>a, <1>b, <2>1, <2>2
    <2>4. Status("failed") = "failed" /\ Status(pc[r]) = "open"
      BY <1>a, <2>1, StatusOpen DEF Status, Open
    <2>5. status' = [status EXCEPT ![r] = "failed"]
      BY <1>a, <2>3, <2>4
    <2>6. Channel!Fail(r)
      BY <2>3, <2>4, <2>5 DEF Channel!Fail
    <2>7. QED
      BY <2>6 DEF Channel!Next
  <1>3. QED
    BY <1>1, <1>2

\* An accepted result is a send of the open request.
LEMMA AcceptRefines ==
    ASSUME TypeOK, Owning, Delivering, NEW b, NEW r \in Requests, NEW seq,
           NEW e \in Results, ResultAccept(b, r, seq, e)
    PROVE  Channel!Next
  <1>1. job # None /\ job.id = r /\ ~job.done /\ job \in Job /\ e \in Event
    BY AcceptTypes
  <1>2. pc[r] \in Open /\ pc \in [Requests -> Stages]
    BY <1>1 DEF Owning, OneStream, TypeOK
  <1>3. Status(pc[r]) = "open"
    BY <1>2, StatusOpen
  <1>4. accepted[r] # <<>> => ~accepted[r][Len(accepted[r])].done
    BY <1>1 DEF Delivering, TerminalLast
  <1>5. accepted' = [accepted EXCEPT ![r] = Append(accepted[r], e)] /\ pc' = pc /\ taken' = taken
    BY DEF ResultAccept
  <1>6. e \in Channel!Event
    BY <1>1 DEF Event, Channel!Event
  <1>7. Channel!Send(r)
    BY <1>3, <1>4, <1>5, <1>6 DEF Channel!Send
  <1>8. QED
    BY <1>7 DEF Channel!Next

LEMMA RefinementStep ==
    TypeOK /\ Owning /\ Delivering /\ [Next]_vars => [Channel!Next]_(Channel!vars)
  <1> SUFFICES ASSUME TypeOK, Owning, Delivering, [Next]_vars
               PROVE  [Channel!Next]_(Channel!vars)
    OBVIOUS
  <1>a. ASSUME UNCHANGED <<pc, accepted, taken>> PROVE UNCHANGED Channel!vars
    BY <1>a DEF Channel!vars
  <1>1. CASE Expire
    BY <1>1, <1>a DEF Expire, Histories
  <1>2. ASSUME NEW boot \in Boots,
               ConnectAgain(boot) \/ \E ready \in BOOLEAN : ConnectNew(boot, ready)
        PROVE  UNCHANGED Channel!vars
    BY <1>2, <1>a DEF ConnectAgain, Expire, ConnectNew, Histories
  <1>3. ASSUME NEW b \in issued, WorkerRequest(b) PROVE [Channel!Next]_(Channel!vars)
    <2>1. CASE Obsolete(b) \/ PollBusy(b) \/ PollClaim(b) \/ PollWait(b)
      BY <2>1, <1>a DEF Obsolete, Expire, PollBusy, PollClaim, Claim, PollWait, Histories
    <2>2. ASSUME NEW running \in Requests \cup {None}, NEW ready \in BOOLEAN,
                 Heartbeat(b, running, ready)
          PROVE  UNCHANGED Channel!vars
      BY <2>2, <1>a DEF Heartbeat, Histories
    <2>3. ASSUME NEW r \in Requests, NEW seq \in 0..MaxResults, NEW e \in Results,
                 \/ ResultTooLong(b, r, seq, e) \/ ResultFull(b, r, seq, e)
                 \/ ResultAccept(b, r, seq, e)
          PROVE  [Channel!Next]_(Channel!vars)
      BY <2>3, <1>a, AcceptRefines DEF ResultTooLong, ResultFull, Histories
    <2>4. ASSUME NEW r \in Requests, NEW seq \in 0..MaxResults,
                 ResultObsolete(b, r, seq)
          PROVE  UNCHANGED Channel!vars
      BY <2>4, <1>a DEF ResultObsolete, Histories
    <2>5. QED
      BY <1>3, <2>1, <2>2, <2>3, <2>4 DEF WorkerRequest
  <1>4. CASE Wake
    BY <1>4, <1>a DEF Wake, WakeObsolete, WakeClaim, Claim, WakeEmpty, WakeWait, Histories
  <1>5. ASSUME NEW r \in Requests,
               \/ StreamOpen(r) \/ StreamRefuse(r) \/ StreamStep(r)
               \/ StreamAbandon(r) \/ Cancel(r)
        PROVE  [Channel!Next]_(Channel!vars)
    BY <1>5, StreamRefines
  <1>6. CASE LeaseElapse \/ JobDue
    BY <1>6, <1>a DEF LeaseElapse, JobDue, Histories
  <1>7. CASE Restart
    BY <1>7, RestartRefines
  <1>8. CASE UNCHANGED vars
    BY <1>8, <1>a DEF vars
  <1>9. QED
    BY <1>1, <1>2, <1>3, <1>4, <1>5, <1>6, <1>7, <1>8 DEF Next

(* Theorem: to the chat service the relay is the channel of                   *)
(* InferenceChannel.tla, for any number of requests, workers, leases and      *)
(* restarts, and whatever the workers send.                                   *)
THEOREM RelayImplementsChannel == Spec => ChannelSpec
  <1>1. Init => Channel!Init
    <2>1. Status("idle") = "none"
      BY DEF Status, Open
    <2>2. Init => [r \in Requests |-> Status(pc[r])] = [r \in Requests |-> "none"]
      BY <2>1 DEF Init
    <2>3. QED
      BY <2>2 DEF Init, Channel!Init
  <1>2. QED
    BY <1>1, TypeInit, TypeStep, OwningInit, OwningStep, DeliveringInit, DeliveringStep,
       RefinementStep, PTL DEF Spec, ChannelSpec, Channel!Spec
=============================================================================
