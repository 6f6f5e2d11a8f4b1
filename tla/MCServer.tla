------------------------------ MODULE MCServer ------------------------------
(* Four parts of the server process.  They meet in what they promise each    *)
(* other and nowhere else: Admission is the SlotPool that ReplyStream takes  *)
(* slots from, ChatService the ReplyContract whose events it carries, and a  *)
(* TokenStore is asked before and after a reply.  So a behaviour runs one    *)
(* part and one run checks them all.                                         *)
(*                                                                           *)
(* Clients and calls differ in nothing but their names, so of those not yet  *)
(* seen the first is taken.                                                  *)
EXTENDS Admission, ReplyStream, ChatService, TokenStore, TLC
CONSTANTS viaWorker, direct
VARIABLE part

MCClients  == 1 .. 3
MCCalls    == 1 .. 4
MCRequests == {viaWorker, direct}
MCPumped   == {viaWorker}
MCThreads  == 1 .. 2

SeenClients == DOMAIN clients \cup {calls[k].client : k \in {j \in Calls : calls[j] # None}}
SeenCalls   == {k \in Calls : calls[k] # None}
TakenFirst(new, seen, all) == \A x \in new \ seen, y \in all \ seen : x <= y
InTurn ==
    /\ TakenFirst(SeenClients', SeenClients, Clients)
    /\ TakenFirst(SeenCalls', SeenCalls, Calls)

Admitting == part = "admission"
Replying  == part = "replies"
Serving   == part = "service"
Handing   == part = "tokens"

MCInit ==
    /\ part \in {"admission", "replies", "service", "tokens"}
    /\ Init /\ ReplyInit /\ ServiceInit /\ TokenInit
    /\ Handing \/ store = "continuity"
MCNext ==
    \/ Admitting /\ Next /\ InTurn /\ UNCHANGED <<part, replyVars, serviceVars, tokenVars>>
    \/ Replying /\ ReplyNext /\ UNCHANGED <<part, vars, serviceVars, tokenVars>>
    \/ Serving /\ ServiceNext /\ UNCHANGED <<part, vars, replyVars, tokenVars>>
    \/ Handing /\ TokenNext /\ UNCHANGED <<part, vars, replyVars, serviceVars>>

\* ReplyFairness and that of ServiceSpec: each of the part that runs.
MCFairness ==
    /\ \A r \in Requests :
          /\ WF_replyVars(Replying /\ PumpStep(r)) /\ WF_replyVars(Replying /\ WebStep(r))
          /\ WF_replyVars(Replying /\ (ProviderFails(r) \/ Respond(r)))
          /\ WF_replyVars(Replying /\ (CloseUnstarted(r) \/ Generate(r)))
          /\ WF_replyVars(Replying /\ (Written(r) \/ Disconnect(r)))
    /\ WF_serviceVars(Serving /\ ServiceStep)

MCSpec == MCInit /\ [][MCNext]_<<part, vars, replyVars, serviceVars, tokenVars>> /\ MCFairness

\* The types of the four parts.
PartsTypeOK == TypeOK /\ ReplyTypeOK /\ ServiceTypeOK /\ TokenTypeOK

\* The browser gets exactly one reply in the form ReplyStream is built on, whatever
\* fails on the way, and its end comes unless the browser leaves: in the form that
\* TLC takes, ChatService implements Reply!Spec (ChatService.stream).
ServiceIsContract == Reply!Ordered /\ (Serving => Reply!Ends)
=============================================================================
