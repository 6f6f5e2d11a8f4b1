------------------------------ MODULE MCConsole ------------------------------
(* Two parts of the operator's machine: the telemetry that the worker process *)
(* stores, and the controller that starts and stops that process.  All that   *)
(* the one knows of the other is WorkerRestart, so a behaviour runs one part. *)
(*                                                                            *)
(* Commands differ in nothing but their names: they are given in turn.        *)
EXTENDS Telemetry, CoreController, TLC
VARIABLE part

MCCommands == 1 .. 3

Storing     == part = "telemetry"
Controlling == part = "controller"

InTurn == \A c \in Commands : at'[c] # "idle" => \A b \in 1 .. c : at'[b] # "idle"

MCInit ==
    /\ part \in {"telemetry", "controller"}
    /\ TelemetryInit /\ CoreInit
MCNext ==
    \/ Storing /\ TelemetryNext /\ UNCHANGED <<part, coreVars>>
    \/ Controlling /\ CoreNext /\ InTurn /\ UNCHANGED <<part, vars>>

\* TelemetryFairness and CoreFairness: each of the part that runs.
MCFairness ==
    /\ WF_vars(Storing /\ Connect)
    /\ \A t \in Threads : WF_vars(Storing /\ Progress(t))
    /\ WF_vars(Storing /\ Ask("run", "poll"))
    /\ WF_vars(Storing /\ Ask("beat", "heartbeat"))
    /\ \A c \in Commands : WF_coreVars(Controlling /\ CommandStep(c))
    /\ \A w \in Workers : WF_coreVars(Controlling /\ WatchStep(w))
    /\ \A w \in Workers : WF_coreVars(Controlling /\ Dies(w) /\ workers[w] = "killed")

MCSpec == MCInit /\ [][MCNext]_<<part, vars, coreVars>> /\ MCFairness

\* The types of both parts.
PartsTypeOK == TelemetryTypeOK /\ CoreTypeOK
=============================================================================
