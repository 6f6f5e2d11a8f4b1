----------------------------- MODULE TokenStore -----------------------------
(***************************************************************************)
(* The two stores of tokens that the server hands to the browser:          *)
(* ClarificationStore of chat/clarification.py, whose token stands for a   *)
(* card's choice, and LookupContinuityStore of chat/capabilities.py, whose *)
(* token lets the next message follow up a lookup.  They differ in how     *)
(* they forget: the first goes through its records from the oldest and     *)
(* stops at one that is still good, and makes room by dropping the oldest; *)
(* the second looks at each, and when full issues no token.                *)
(*                                                                         *)
(* Both read the clock before they take their lock, so a thread may work   *)
(* with an older time than the one before it.  Tokens are numbered in the  *)
(* order in which they were put in.                                        *)
(***************************************************************************)
EXTENDS Integers, FiniteSets

CONSTANTS
    Threads,     \* of the server
    Lifetime,    \* ttl, CONTINUITY_TTL_SECONDS
    Maximum,     \* maximum, MAX_CONTINUITY_RECORDS
    MaxTokens,   \* bound: tokens issued
    MaxClock     \* bound: the clock

ASSUME TokenAssumption ==
    Lifetime \in Nat \ {0} /\ Maximum \in Nat \ {0} /\ MaxTokens \in Nat /\ MaxClock \in Nat

VARIABLES
    store,       \* which of the two it is
    clock,
    issued,      \* how many tokens were put in
    records,     \* the records of the tokens that are in it
    thread       \* what each thread is about to do, with the time it has read

tokenVars == <<store, clock, issued, records, thread>>

Record == [expires : Nat,
           putAt : Nat]    \* history: when it was put in
Intent == [does : {"nothing", "issue", "consume"}, token : 0 .. MaxTokens, now : Nat]
Idle   == [does |-> "nothing", token |-> 0, now |-> 0]

In     == DOMAIN records

TokenInit ==
    /\ store \in {"clarification", "continuity"}
    /\ clock = 0 /\ issued = 0
    /\ records = [k \in {} |-> Idle]
    /\ thread = [t \in Threads |-> Idle]

\* now = self.clock(); a token that was never issued is found in no store.
ReadClock(t, what, k) ==
    /\ thread[t] = Idle
    /\ thread' = [thread EXCEPT ![t] = [does |-> what, token |-> k, now |-> clock]]
    /\ UNCHANGED <<store, clock, issued, records>>

\* _expire(now): the tokens that stay.
StillGood(k, now) == records[k].expires > now
Unexpired(now) ==
    {k \in In : \/ StillGood(k, now)
                \/ store = "clarification" /\ \E j \in In : j < k /\ StillGood(j, now)}

\* Mutant: popitem() without last=False.
DropNewest(S) == {k \in S : Cardinality({j \in S : j < k}) < Maximum}

\* popitem(last=False) while there are too many.
DropOldest(S) == {k \in S : Cardinality({j \in S : j > k}) < Maximum}

Leaves(t) == thread' = [thread EXCEPT ![t] = Idle] /\ UNCHANGED <<store, clock>>
Keeps(S) == records' = [k \in S |-> records[k]]

\* issue(): the continuity store refuses when it is full, the other never does.
Issue(t) ==
    LET now == thread[t].now
        new == issued + 1
        S   == Unexpired(now)
    IN /\ thread[t].does = "issue" /\ issued < MaxTokens
       /\ store = "continuity" => Cardinality(S) < Maximum
       /\ issued' = new
       /\ records' = [k \in DropOldest(S \cup {new}) |->
                         IF k = new THEN [expires |-> now + Lifetime, putAt |-> clock]
                                    ELSE records[k]]
       /\ Leaves(t)

IssueNone(t) ==
    LET S == Unexpired(thread[t].now)
    IN /\ thread[t].does = "issue" /\ store = "continuity"
       /\ Cardinality(S) >= Maximum
       /\ Keeps(S) /\ Leaves(t) /\ UNCHANGED issued

\* consume(): the token is taken out if it is there, by the continuity store also when it
\* finds that it was issued in another language and answers as if there were none.
Consume(t) ==
    /\ thread[t].does = "consume"
    /\ Keeps(Unexpired(thread[t].now) \ {thread[t].token})
    /\ Leaves(t) /\ UNCHANGED issued

ClockTicks ==
    /\ clock < MaxClock /\ clock' = clock + 1
    /\ UNCHANGED <<store, issued, records, thread>>

TokenNext ==
    \/ \E t \in Threads :
          \/ ReadClock(t, "issue", 0)
          \/ \E k \in 1 .. issued : ReadClock(t, "consume", k)
          \/ Issue(t) \/ IssueNone(t) \/ Consume(t)
    \/ ClockTicks

TokenSpec == TokenInit /\ [][TokenNext]_tokenVars
----------------------------------------------------------------------------
TokenTypeOK ==
    /\ store \in {"clarification", "continuity"} /\ clock \in Nat
    /\ issued \in 0 .. MaxTokens
    /\ In \subseteq 1 .. issued /\ records \in [In -> Record]
    /\ thread \in [Threads -> Intent]

\* Whoever read the clock at `now' finds no token that is out of date, counted from when it
\* was put in, although a late thread can put an earlier expiry behind a later one, and
\* the clarification store stops looking at the first record that is good (_expire).
HonouredInTime == \A now \in 0 .. clock : \A k \in Unexpired(now) :
    now < records[k].putAt + Lifetime

\* A token goes only by being consumed, by being out of date, or, in the clarification
\* store, when as many newer ones have come as it holds (_expire, issue, consume).
GoneForAReason == \A k \in In \ In' :
    \/ \E t \in Threads : thread[t].does = "consume" /\ thread[t].token = k
    \/ records[k].expires <= clock
    \/ store = "clarification" /\ k + Maximum <= issued'

\* The token handed out is in the store, though making room may drop one, and what has
\* gone, because it was used once, does not come back (issue, consume).
HandedOut == In' \ In = issued + 1 .. issued'

\* A token in the browser's hands works while it is in date, and then no more, and once
\* (ClarificationStore, LookupContinuityStore).
TokensHold == []HonouredInTime /\ [][GoneForAReason /\ HandedOut]_tokenVars
=============================================================================
