-------------------------- MODULE InferenceChannel --------------------------
(***************************************************************************)
(* What the chat service may rely on when it asks the relay for an answer: *)
(* one answer at a time; its events arrive in the order they were sent,    *)
(* none lost, none twice, none after the terminal one; and an answer that  *)
(* ends well is complete.  Leases, polls, retries and deadlines of         *)
(* chat/worker_relay.py are invisible here: they can only make a request   *)
(* fail.                                                                   *)
(***************************************************************************)
EXTENDS Integers, Sequences

CONSTANTS
    Requests,  \* calls of stream()
    MaxChunk   \* longest text of one event

VARIABLES
    status,  \* "none", "open", "finished" or "failed", for each request
    sent,    \* events the worker has handed over (of no failed request)
    got      \* events the chat service has received (of no failed request)

vars == <<status, sent, got>>

Event == [text : 0..MaxChunk, done : BOOLEAN, error : BOOLEAN]

Init == /\ status = [r \in Requests |-> "none"]
        /\ sent = [r \in Requests |-> <<>>]
        /\ got = [r \in Requests |-> <<>>]

Begin(r) ==
    /\ status[r] = "none" /\ \A q \in Requests : status[q] # "open"
    /\ status' = [status EXCEPT ![r] = "open"]
    /\ UNCHANGED <<sent, got>>

Refuse(r) ==
    /\ status[r] = "none"
    /\ status' = [status EXCEPT ![r] = "failed"]
    /\ UNCHANGED <<sent, got>>

Send(r) ==
    /\ status[r] = "open"
    /\ sent[r] # <<>> => ~sent[r][Len(sent[r])].done
    /\ \E e \in Event : sent' = [sent EXCEPT ![r] = Append(@, e)]
    /\ UNCHANGED <<status, got>>

Receive(r) ==
    /\ status[r] = "open" /\ Len(got[r]) < Len(sent[r])
    /\ got' = [got EXCEPT ![r] = Append(@, sent[r][Len(@) + 1])]
    /\ UNCHANGED <<status, sent>>

Finish(r) ==
    /\ status[r] = "open" /\ got[r] = sent[r]
    /\ got[r] # <<>> /\ got[r][Len(got[r])].done /\ ~got[r][Len(got[r])].error
    /\ status' = [status EXCEPT ![r] = "finished"]
    /\ UNCHANGED <<sent, got>>

Fail(r) ==
    /\ status[r] = "open"
    /\ status' = [status EXCEPT ![r] = "failed"]
    /\ sent' = [sent EXCEPT ![r] = <<>>]
    /\ got' = [got EXCEPT ![r] = <<>>]

Next == \E r \in Requests : \/ Begin(r) \/ Refuse(r) \/ Send(r)
                            \/ Receive(r) \/ Finish(r) \/ Fail(r)

Spec == Init /\ [][Next]_vars
=============================================================================
