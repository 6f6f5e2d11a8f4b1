--------------------------- MODULE CoreController ---------------------------
(***************************************************************************)
(* CoreController of oes_core_launcher/controller.py: the launcher starts, *)
(* stops and restarts the worker process.  Each command of the window runs *)
(* on a thread of its own, and start and stop work under one lock; but     *)
(* each worker also has a thread that watches it, which compares and       *)
(* clears self.process without the lock.                                   *)
(*                                                                         *)
(* The status shown in the window is left out: nothing here reads it.      *)
(***************************************************************************)
EXTENDS Integers, Sequences

CONSTANTS
    Commands,    \* bound: the commands given, each on a thread of its own
    MaxWorkers,  \* bound: worker processes started
    Nobody       \* None

ASSUME ControllerAssumption == MaxWorkers \in Nat /\ Nobody \notin Nat \cup Commands

VARIABLES
    process,     \* self.process
    workers,     \* the condition of every worker process
    closing,     \* self._closing
    lock,        \* the command that holds self._lock
    todo,        \* the calls that a command has still to make
    at,          \* where a command stands
    took,        \* the process that a command is stopping
    watch,       \* where the watch thread of each worker stands
    sees,        \* the process a watch thread captured
    given        \* the method a command calls

threads == <<todo, at, took>>
watches == <<watch, sees>>
coreVars == <<process, workers, closing, lock, threads, watches, given>>

Workers == 1 .. MaxWorkers
Alive(w) == w # Nobody /\ workers[w] \notin {"unborn", "dead"}

CoreInit ==
    /\ process = Nobody /\ closing = FALSE /\ lock = Nobody
    /\ workers = [w \in Workers |-> "unborn"]
    /\ todo = [c \in Commands |-> <<>>] /\ at = [c \in Commands |-> "idle"]
    /\ took = [c \in Commands |-> Nobody] /\ given = [c \in Commands |-> "none"]
    /\ watch = [w \in Workers |-> "none"] /\ sees = [w \in Workers |-> Nobody]

Goes(c, place) == at' = [at EXCEPT ![c] = place]
Becomes(w, condition) == workers' = [workers EXCEPT ![w] = condition]

----------------------------------------------------------------------------
(* The commands.                                                           *)

\* start, stop, restart = stop then start, close = closing.set() then stop.
Calls == [start |-> <<"start">>, stop |-> <<"stop">>,
          restart |-> <<"stop", "start">>, close |-> <<"stop">>]

Command(c, what) ==
    /\ at[c] = "idle"
    /\ todo' = [todo EXCEPT ![c] = Calls[what]]
    /\ closing' = (closing \/ what = "close")
    /\ given' = [given EXCEPT ![c] = what]
    /\ Goes(c, "entering")
    /\ UNCHANGED <<process, workers, lock, took, watches>>

Enters(c, call) ==
    /\ at[c] = "entering" /\ lock = Nobody /\ Head(todo[c]) = call

\* A call returns; a restart goes on with its start.
Returns(c) ==
    /\ todo' = [todo EXCEPT ![c] = Tail(@)]
    /\ Goes(c, IF Len(todo[c]) = 1 THEN "done" ELSE "entering")

\* self.process = None, and out of the lock.
ClearProcess(c) == process' = Nobody /\ lock' = Nobody /\ Returns(c)

\* start reads self.process twice, and a watch thread may clear it in between.
StartLooks(c) ==
    /\ Enters(c, "start") /\ process # Nobody
    /\ lock' = c /\ Goes(c, "looking")
    /\ UNCHANGED <<process, workers, closing, todo, took, watches, given>>

\* The worker runs; or None has no poll, and start raises.
StartRefused(c) ==
    /\ at[c] = "looking" /\ (Alive(process) \/ process = Nobody)
    /\ lock' = Nobody /\ Returns(c)
    /\ UNCHANGED <<process, workers, closing, took, watches, given>>

\* Configuration, secret, Ollama: up to half a minute under the lock.
StartBegins(c) ==
    /\ \/ Enters(c, "start") /\ process = Nobody
       \/ at[c] = "looking" /\ process # Nobody /\ ~Alive(process)
    /\ lock' = c /\ Goes(c, "readying")
    /\ UNCHANGED <<process, workers, closing, todo, took, watches, given>>

StartFails(c) ==
    /\ at[c] = "readying"
    /\ ClearProcess(c)
    /\ UNCHANGED <<workers, closing, took, watches, given>>

Spawn(c, w) ==
    /\ at[c] = "readying" /\ workers[w] = "unborn" /\ \A v \in 1 .. w - 1 : workers[v] # "unborn"
    /\ Becomes(w, "up") /\ process' = w
    /\ took' = [took EXCEPT ![c] = w]
    /\ Goes(c, "spawned")
    /\ UNCHANGED <<closing, lock, todo, watches, given>>

\* The watch thread is started and start returns.
Monitor(c) ==
    /\ at[c] = "spawned"
    /\ watch' = [watch EXCEPT ![took[c]] = "born"]
    /\ lock' = Nobody /\ Returns(c)
    /\ UNCHANGED <<process, workers, closing, took, sees, given>>

\* Publishing, or starting the thread, raises: the `except' of start.
MonitorFails(c) ==
    /\ at[c] = "spawned"
    /\ took' = [took EXCEPT ![c] = process]
    /\ IF process = Nobody THEN ClearProcess(c)
       ELSE Goes(c, "asking") /\ UNCHANGED <<process, lock, todo>>
    /\ UNCHANGED <<workers, closing, watches, given>>

StopIdle(c) ==
    /\ Enters(c, "stop") /\ ~Alive(process)
    /\ process' = Nobody
    /\ Returns(c)
    /\ UNCHANGED <<workers, closing, lock, took, watches, given>>

StopBegins(c) ==
    /\ Enters(c, "stop") /\ Alive(process)
    /\ lock' = c /\ took' = [took EXCEPT ![c] = process]
    /\ Goes(c, "asking")
    /\ UNCHANGED <<process, workers, closing, todo, watches, given>>

----------------------------------------------------------------------------
(* _stop_owned_process, under the lock.                                    *)

\* STOP is written and the worker has fifteen seconds.
AskToStop(c) ==
    /\ at[c] = "asking" /\ Alive(took[c])
    /\ Becomes(took[c], IF workers[took[c]] = "up" THEN "asked" ELSE workers[took[c]])
    /\ Goes(c, "waiting")
    /\ UNCHANGED <<process, closing, lock, todo, took, watches, given>>

\* It has ended, before it was asked or in time.
Ended(c) ==
    /\ at[c] \in {"asking", "waiting", "terminating"} /\ ~Alive(took[c])
    /\ ClearProcess(c)
    /\ UNCHANGED <<workers, closing, took, watches, given>>

\* Mutant: wait without a timeout.
NeverTerminates(c) ==
    /\ at[c] = "waiting" /\ Alive(took[c])
    /\ UNCHANGED coreVars

\* Mutant: terminated, but not waited for.
TerminateLeaves(c) ==
    /\ at[c] \in {"asking", "waiting"} /\ Alive(took[c])
    /\ Becomes(took[c], "terminated")
    /\ ClearProcess(c)
    /\ UNCHANGED <<closing, took, watches, given>>

\* The pipe is broken, or the fifteen seconds are over.
Terminate(c) ==
    /\ at[c] \in {"asking", "waiting"} /\ Alive(took[c])
    /\ Becomes(took[c], "terminated")
    /\ Goes(c, "terminating")
    /\ UNCHANGED <<process, closing, lock, todo, took, watches, given>>

\* Three more seconds are over.
Kill(c) ==
    /\ at[c] = "terminating" /\ Alive(took[c])
    /\ Becomes(took[c], "killed")
    /\ ClearProcess(c)
    /\ UNCHANGED <<closing, took, watches, given>>

----------------------------------------------------------------------------
(* _watch, without the lock.                                               *)

\* It captures self.process, which may have been cleared: then it raises.
WatchBegins(w) ==
    /\ watch[w] = "born"
    /\ sees' = [sees EXCEPT ![w] = process]
    /\ watch' = [watch EXCEPT ![w] = IF process = Nobody THEN "over" ELSE "watching"]
    /\ UNCHANGED <<process, workers, closing, lock, threads, given>>

\* The loop ends with its process or with the launcher.
WatchEnds(w) ==
    /\ watch[w] = "watching" /\ (closing \/ ~Alive(sees[w]))
    /\ watch' = [watch EXCEPT ![w] = "ended"]
    /\ UNCHANGED <<process, workers, closing, lock, threads, sees, given>>

\* if self.process is process: ...
WatchCompares(w) ==
    /\ watch[w] = "ended"
    /\ watch' = [watch EXCEPT ![w] = IF process = sees[w] THEN "clearing" ELSE "over"]
    /\ UNCHANGED <<process, workers, closing, lock, threads, sees, given>>

\* ... self.process = None
WatchClears(w) ==
    /\ watch[w] = "clearing"
    /\ process' = Nobody
    /\ watch' = [watch EXCEPT ![w] = "over"]
    /\ UNCHANGED <<workers, closing, lock, threads, sees, given>>

----------------------------------------------------------------------------
\* A worker ends: by itself, because it was asked to, or by force.
Dies(w) ==
    /\ Alive(w)
    /\ Becomes(w, "dead")
    /\ UNCHANGED <<process, closing, lock, threads, watches, given>>

CommandStep(c) ==
    \/ StartLooks(c) \/ StartRefused(c) \/ StartBegins(c) \/ StartFails(c)
    \/ \E w \in Workers : Spawn(c, w)
    \/ Monitor(c) \/ MonitorFails(c) \/ StopIdle(c) \/ StopBegins(c)
    \/ AskToStop(c) \/ Ended(c) \/ Terminate(c) \/ Kill(c)

WatchStep(w) == WatchBegins(w) \/ WatchEnds(w) \/ WatchCompares(w) \/ WatchClears(w)

CoreNext ==
    \/ \E c \in Commands : CommandStep(c) \/ \E what \in DOMAIN Calls : Command(c, what)
    \/ \E w \in Workers : WatchStep(w) \/ Dies(w)

\* Threads run and get the lock in the end; a killed process dies.  A worker that is
\* asked or terminated may go on for ever.
CoreFairness ==
    /\ \A c \in Commands : WF_coreVars(CommandStep(c))
    /\ \A w \in Workers : WF_coreVars(WatchStep(w))
    /\ \A w \in Workers : WF_coreVars(Dies(w) /\ workers[w] = "killed")

CoreSpec == CoreInit /\ [][CoreNext]_coreVars /\ CoreFairness

----------------------------------------------------------------------------
CoreTypeOK ==
    /\ process \in Workers \cup {Nobody} /\ closing \in BOOLEAN
    /\ lock \in Commands \cup {Nobody}
    /\ workers \in [Workers -> {"unborn", "up", "asked", "terminated", "killed", "dead"}]
    /\ todo \in [Commands -> {<<>>, <<"start">>, <<"stop">>, <<"stop", "start">>}]
    /\ at \in [Commands -> {"idle", "entering", "looking", "readying", "spawned", "asking",
                            "waiting", "terminating", "done"}]
    /\ took \in [Commands -> Workers \cup {Nobody}]
    /\ watch \in [Workers -> {"none", "born", "watching", "ended", "clearing", "over"}]
    /\ sees \in [Workers -> Workers \cup {Nobody}]
    /\ given \in [Commands -> DOMAIN Calls \cup {"none"}]

\* A stop returns only when the process it took has ended or was killed, whatever other
\* commands, the watch threads and the worker do meanwhile (stop, _stop_owned_process).
StopIsFinal == \A c \in Commands :
    at[c] = "done" /\ given[c] \in {"stop", "close"} /\ took[c] # Nobody =>
        workers[took[c]] \in {"killed", "dead"}

\* Every command returns although the worker ignores STOP and termination, and other
\* commands wait for the same lock; and the process that a stop took ends
\* (_stop_owned_process).  No command is given twice, so that none is under way again and
\* again means that each one returns.
CommandsReturn == []<>(\A c \in Commands :
    /\ at[c] \in {"idle", "done"}
    /\ given[c] \in {"stop", "close"} => ~Alive(took[c]))

\* What oes_core_launcher/README.md says of the way a worker is stopped: it is sent STOP,
\* and terminated as a fallback.  So when close() returns, no worker runs on unasked.
ClosedIsStopped == [][\A c \in Commands :
    given[c] = "close" /\ at[c] # "done" /\ at'[c] = "done" =>
        \A w \in Workers : workers'[w] # "up"]_coreVars
=============================================================================
