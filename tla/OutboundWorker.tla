--------------------------- MODULE OutboundWorker ---------------------------
(***************************************************************************)
(* The outbound worker process of worker/client.py: the run thread (probe, *)
(* connect, poll, infer) and the heartbeat thread, which share owner, job, *)
(* ready and the cancelled event.                                          *)
(*                                                                         *)
(* A remote call is a record in calls[thread]; RelayWorker.tla carries it  *)
(* to the relay and answers it.  Ollama's answer to every prompt is the    *)
(* sequence Answer; an inference may fail at any point of it.              *)
(***************************************************************************)
EXTENDS Integers, Sequences

CONSTANTS
    Requests,    \* job ids
    Boots,       \* process incarnations
    None,
    Answer       \* the events a complete inference sends

VARIABLES
    boot,        \* self.boot of the running process, None when none runs
    owner,       \* self.owner; the code compares owners by identity, here `made'
    ready,       \* self.ready
    running,     \* self.job
    stopping,    \* self.cancelled.is_set()
    run,         \* the run thread: its stage and its local variables: the owner, how
                 \* much Ollama has answered, and the next sequence number
    beat,        \* the heartbeat thread: None, or the owner and job it captured
    calls,       \* the call each thread waits for
    inferred     \* history: how often an inference of each job was opened

wvars == <<boot, owner, ready, running, stopping, run, beat, calls, inferred>>

Threads == {"run", "beat"}

Quiet == [text |-> 0, done |-> FALSE, error |-> FALSE]

\* Mutant: the failure report is not marked terminal.
FailureNotDone == [text |-> 0, done |-> FALSE, error |-> TRUE]

Failure == [text |-> 0, done |-> TRUE, error |-> TRUE]

\* A call, before it is answered.
Call(kind, own) == [kind |-> kind, boot |-> boot, own |-> own, job |-> None,
                    ready |-> FALSE, seq |-> 0, event |-> Quiet,
                    at |-> "sent", reply |-> None]

\* What the caller gets: "ok", "rejected" (HTTP 409) or "lost" (any other failure).
Reply(outcome, own, job, yes) == [outcome |-> outcome, own |-> own, job |-> job, yes |-> yes]

\* The body fields of an owner, without the identity of the object.
Wire(o) == [epoch |-> o.epoch, boot |-> o.boot, lease |-> o.lease]

Beat(o, job, isReady) == [Call("heartbeat", Wire(o)) EXCEPT !.job = job, !.ready = isReady]

Result(o, job, seq, e) ==
    [Call("result", Wire(o)) EXCEPT !.job = job, !.seq = seq, !.event = e]

Answered(t) == calls[t] # None /\ calls[t].at = "answered"
ReplyTo(t) == calls[t].reply

Off == [at |-> "off", own |-> None, pos |-> 0, seq |-> 0]

\* The identity of a new owner object: none that the session or a heartbeat holds.
Fresh == CHOOSE n \in 1..3 :
    /\ owner # None => owner.made # n
    /\ beat # None => beat.own.made # n

----------------------------------------------------------------------------
Init ==
    /\ boot = None /\ owner = None
    /\ ready = FALSE /\ running = None /\ stopping = FALSE
    /\ run = Off /\ beat = None
    /\ calls = [t \in Threads |-> None]
    /\ inferred = [r \in Requests |-> 0]

Start(b) ==
    /\ boot = None
    /\ boot' = b
    /\ run' = [Off EXCEPT !.at = "top"]
    /\ UNCHANGED <<owner, ready, running, stopping, beat, calls, inferred>>

\* The process dies; what it had sent is not its own any more.
Crash ==
    /\ boot # None
    /\ boot' = None /\ owner' = None /\ ready' = FALSE
    /\ running' = None /\ stopping' = FALSE
    /\ run' = Off /\ beat' = None
    /\ calls' = [t \in Threads |-> None]
    /\ UNCHANGED inferred

----------------------------------------------------------------------------
(* The run thread.                                                         *)

GoTo(stage) == run' = [run EXCEPT !.at = stage]

\* The head of the loop: the model is probed, then the owner is read and a
\* connect or a poll is sent.
Loop(verified) ==
    /\ run.at = "top"
    /\ ready' = verified
    /\ \/ /\ owner = None
          /\ GoTo("connect")
          /\ calls' = [calls EXCEPT !["run"] = [Call("connect", None) EXCEPT !.ready = verified]]
       \/ /\ owner # None
          /\ run' = [run EXCEPT !.at = "poll", !.own = owner]
          /\ calls' = [calls EXCEPT !["run"] = Call("poll", Wire(owner))]
    /\ UNCHANGED <<boot, owner, running, stopping, beat, inferred>>

\* _connect got an answer: the new owner object is installed and polled with.
Connected ==
    /\ run.at \in {"connect", "legacy"} /\ Answered("run") /\ ReplyTo("run").outcome = "ok"
    /\ LET own == ReplyTo("run").own
           o   == [epoch |-> own.epoch, boot |-> own.boot, lease |-> own.lease,
                   made |-> Fresh]
       IN  /\ owner' = o
           /\ run' = [run EXCEPT !.at = "poll", !.own = o]
           /\ calls' = [calls EXCEPT !["run"] = Call("poll", Wire(o))]
    /\ UNCHANGED <<boot, ready, running, stopping, beat, inferred>>

\* A refused connect is repeated once with the legacy body.
ConnectRejected ==
    /\ run.at = "connect" /\ Answered("run") /\ ReplyTo("run").outcome = "rejected"
    /\ GoTo("legacy")
    /\ calls' = [calls EXCEPT !["run"] = [Call("connect", None) EXCEPT !.ready = ready]]
    /\ UNCHANGED <<boot, owner, ready, running, stopping, beat, inferred>>

ConnectFailed ==
    /\ Answered("run")
    /\ \/ run.at = "connect" /\ ReplyTo("run").outcome = "lost"
       \/ run.at = "legacy" /\ ReplyTo("run").outcome # "ok"
    /\ GoTo("reset")
    /\ calls' = [calls EXCEPT !["run"] = None]
    /\ UNCHANGED <<boot, owner, ready, running, stopping, beat, inferred>>

PollEmpty ==
    /\ run.at = "poll" /\ Answered("run")
    /\ ReplyTo("run").outcome = "ok" /\ ReplyTo("run").job = None
    /\ run' = [Off EXCEPT !.at = "top"]
    /\ calls' = [calls EXCEPT !["run"] = None]
    /\ UNCHANGED <<boot, owner, ready, running, stopping, beat, inferred>>

\* A job arrives; it is taken only if the owner is still the object polled with.
PollJob ==
    /\ run.at = "poll" /\ Answered("run")
    /\ ReplyTo("run").outcome = "ok" /\ ReplyTo("run").job # None
    /\ calls' = [calls EXCEPT !["run"] = None]
    /\ \/ /\ owner = run.own
          /\ running' = ReplyTo("run").job
          /\ stopping' = FALSE
          /\ GoTo("infer")
       \/ /\ owner # run.own
          /\ GoTo("reset")
          /\ UNCHANGED <<running, stopping>>
    /\ UNCHANGED <<boot, owner, ready, beat, inferred>>

PollFailed ==
    /\ run.at = "poll" /\ Answered("run") /\ ReplyTo("run").outcome # "ok"
    /\ GoTo("reset")
    /\ calls' = [calls EXCEPT !["run"] = None]
    /\ UNCHANGED <<boot, owner, ready, running, stopping, beat, inferred>>

----------------------------------------------------------------------------
(* infer                                                                   *)

\* The checks before Ollama is opened: bounds, budget, model digest.
InferRefuse ==
    /\ run.at = "infer"
    /\ GoTo("giveUp")
    /\ UNCHANGED <<boot, owner, ready, running, stopping, beat, calls, inferred>>

InferOpen ==
    /\ run.at = "infer"
    /\ run' = [run EXCEPT !.at = "generating", !.pos = 0, !.seq = 0]
    /\ inferred' = [inferred EXCEPT ![running] = @ + 1]
    /\ UNCHANGED <<boot, owner, ready, running, stopping, beat, calls>>

\* send: refused locally once cancelled, otherwise a result call.
SendAt(pos, e) ==
    IF stopping
    THEN /\ run' = [run EXCEPT !.at = "giveUp", !.pos = pos]
         /\ calls' = [calls EXCEPT !["run"] = None]
    ELSE /\ run' = [run EXCEPT !.at = "sending", !.pos = pos]
         /\ calls' = [calls EXCEPT !["run"] = Result(run.own, running, run.seq, e)]

Send(e) == SendAt(run.pos, e)

\* A cancelled inference raises at the next line or send, and its failure report
\* is refused by the same event.
Generate ==
    /\ run.at = "generating"
    /\ SendAt(run.pos + 1, Answer[run.pos + 1])
    /\ UNCHANGED <<boot, owner, ready, running, stopping, beat, inferred>>

\* Ollama fails: a connection error, a bad event, a time limit.
GenerateFails ==
    /\ run.at = "generating"
    /\ Send(Failure)
    /\ UNCHANGED <<boot, owner, ready, running, stopping, beat, inferred>>

Sent == calls["run"].event

SendAccepted ==
    /\ run.at = "sending" /\ Answered("run")
    /\ ReplyTo("run").outcome = "ok" /\ ReplyTo("run").yes
    /\ run' = [run EXCEPT !.seq = @ + 1,
                          !.at = CASE ~Sent.done -> "generating"
                                   [] Sent.done /\ ~Sent.error -> "finished"
                                   [] Sent.done /\ Sent.error -> "giveUp"]
    /\ calls' = [calls EXCEPT !["run"] = None]
    /\ UNCHANGED <<boot, owner, ready, running, stopping, beat, inferred>>

\* accepted: False is the only answer after which the same result is sent again.
SendFull ==
    /\ run.at = "sending" /\ Answered("run")
    /\ ReplyTo("run").outcome = "ok" /\ ~ReplyTo("run").yes
    /\ Send(Sent)
    /\ UNCHANGED <<boot, owner, ready, running, stopping, beat, inferred>>

\* The job's seconds are over: neither the text nor a failure report is sent.
OutOfTime ==
    /\ \/ run.at = "generating"
       \/ /\ run.at = "sending" /\ Answered("run")
          /\ ReplyTo("run").outcome = "ok" /\ ~ReplyTo("run").yes
    /\ GoTo("giveUp")
    /\ calls' = [calls EXCEPT !["run"] = None]
    /\ UNCHANGED <<boot, owner, ready, running, stopping, beat, inferred>>

\* Mutant: a text whose call failed is taken for sent.
SendFailedSkips ==
    /\ run.at = "sending" /\ Answered("run") /\ ReplyTo("run").outcome # "ok"
    /\ GoTo(IF Sent.done THEN "finished" ELSE "generating")
    /\ calls' = [calls EXCEPT !["run"] = None]
    /\ UNCHANGED <<boot, owner, ready, running, stopping, beat, inferred>>

\* A failed or ambiguous call ends the inference; one failure report follows,
\* with the sequence number of the call that failed.
SendFailed ==
    /\ run.at = "sending" /\ Answered("run") /\ ReplyTo("run").outcome # "ok"
    /\ IF Sent.error
       THEN /\ GoTo("giveUp")
            /\ calls' = [calls EXCEPT !["run"] = None]
       ELSE Send(Failure)
    /\ UNCHANGED <<boot, owner, ready, running, stopping, beat, inferred>>

----------------------------------------------------------------------------
(* The end of an iteration.                                                *)

\* infer returned: `finally' clears the job and the loop goes on.
Finish ==
    /\ run.at = "finished"
    /\ running' = None
    /\ run' = [Off EXCEPT !.at = "top"]
    /\ UNCHANGED <<boot, owner, ready, stopping, beat, calls, inferred>>

\* infer raised: a last heartbeat reports the job with the model unavailable.
GiveUp ==
    /\ run.at = "giveUp"
    /\ GoTo("lastBeat")
    /\ calls' = [calls EXCEPT !["run"] = Beat(run.own, running, FALSE)]
    /\ UNCHANGED <<boot, owner, ready, running, stopping, beat, inferred>>

\* Whatever came of it, `finally' clears the job.
LastBeatDone ==
    /\ run.at = "lastBeat" /\ Answered("run")
    /\ running' = None
    /\ GoTo("reset")
    /\ calls' = [calls EXCEPT !["run"] = None]
    /\ UNCHANGED <<boot, owner, ready, stopping, beat, inferred>>

Reset ==
    /\ run.at = "reset"
    /\ stopping' = TRUE /\ ready' = FALSE
    /\ GoTo("clear")
    /\ UNCHANGED <<boot, owner, running, beat, calls, inferred>>

\* _clear_session, whoever owns the session now.
ClearSession ==
    /\ run.at = "clear"
    /\ owner' = None
    /\ run' = [Off EXCEPT !.at = "top"]
    /\ UNCHANGED <<boot, ready, running, stopping, beat, calls, inferred>>

----------------------------------------------------------------------------
(* The heartbeat thread.                                                   *)

BeatSend ==
    /\ beat = None /\ owner # None
    /\ beat' = [own |-> owner, job |-> running]
    /\ calls' = [calls EXCEPT !["beat"] = Beat(owner, running, ready)]
    /\ UNCHANGED <<boot, owner, ready, running, stopping, run, inferred>>

\* The answer concerns the job captured when the heartbeat was sent.
BeatAnswered ==
    /\ beat # None /\ Answered("beat") /\ ReplyTo("beat").outcome = "ok"
    /\ stopping' = (stopping \/ (beat.job # None /\ ~ReplyTo("beat").yes))
    /\ beat' = None
    /\ calls' = [calls EXCEPT !["beat"] = None]
    /\ UNCHANGED <<boot, owner, ready, running, run, inferred>>

\* A failed heartbeat cancels the inference,
BeatFailed ==
    /\ beat # None /\ Answered("beat") /\ ReplyTo("beat").outcome # "ok"
    /\ stopping' = TRUE
    /\ calls' = [calls EXCEPT !["beat"] = None]
    /\ UNCHANGED <<boot, owner, ready, running, run, beat, inferred>>

\* and then drops the owner it was sent for, unless another has taken its place.
BeatClears ==
    /\ beat # None /\ calls["beat"] = None
    /\ owner' = IF owner = beat.own THEN None ELSE owner
    /\ beat' = None
    /\ UNCHANGED <<boot, ready, running, stopping, run, calls, inferred>>

----------------------------------------------------------------------------
InferStep == InferOpen \/ Generate \/ SendAccepted \/ SendFull \/ SendFailed \/ Finish

RunStep == \/ Loop(TRUE)
           \/ Connected \/ ConnectRejected \/ ConnectFailed
           \/ PollEmpty \/ PollJob \/ PollFailed
           \/ InferStep
           \/ GiveUp \/ LastBeatDone \/ Reset \/ ClearSession

BeatStep == BeatSend \/ BeatAnswered \/ BeatFailed \/ BeatClears

\* The worker's own failures.
RunFault == Loop(FALSE) \/ InferRefuse \/ GenerateFails \/ OutOfTime
=============================================================================
