----------------------------- MODULE Admission -----------------------------
(***************************************************************************)
(* Admission control of chat/runtime.py: a window of recent calls per      *)
(* client and kind, one window for the process, and slots for generations  *)
(* under way.  Every operation reads the clock and does all its work under *)
(* one lock, so it is one action.                                          *)
(*                                                                         *)
(* A deque of time stamps is a set of calls here; calls[k].at is the stamp *)
(* of k.  Stamps are taken under the lock, so a deque is in order and what *)
(* is popped from its front is what is too old.                            *)
(***************************************************************************)
EXTENDS Integers, FiniteSets

CONSTANTS
    Clients,         \* addresses (keyed hashes in the code)
    Calls,           \* bound: identities of counted calls
    None,
    ApiLimit, ChatLimit, ProactiveLimit, GlobalLimit,
    MaxActive,       \* OES_AI_MAX_CONCURRENCY
    MaxClients,      \* 2048 in the code
    Short, Long,     \* 60 and 600 seconds in the code
    MaxTime          \* bound: the clock

ASSUME AdmissionAssumption ==
    /\ {ApiLimit, ChatLimit, ProactiveLimit, GlobalLimit, MaxActive} \subseteq Nat \ {0}
    /\ MaxClients \in Nat \ {0} /\ MaxTime \in Nat
    /\ Short \in Nat \ {0} /\ Long \in Nat /\ Short <= Long
    /\ None \notin [client : Clients, at : Nat, kind : {"api", "chat", "proactive"}]

VARIABLES
    now,          \* the clock
    clients,      \* the entries of recently active clients
    globalCalls,  \* generations counted for the process
    active,       \* the counter of slots in use
    released,     \* calls whose release() has run: the closure's flag
    calls         \* history: who made each counted call, when, of which kind

vars == <<now, clients, globalCalls, active, released, calls>>

Kinds == {"api", "chat", "proactive"}
Generations == {"chat", "proactive"}
Call == [client : Clients, at : Nat, kind : Kinds]
Entries == [last : Nat, api : SUBSET Calls, chat : SUBSET Calls, proactive : SUBSET Calls]

Init ==
    /\ now = 0 /\ clients = [c \in {} |-> None] /\ globalCalls = {}
    /\ active = 0 /\ released = {} /\ calls = [k \in Calls |-> None]

----------------------------------------------------------------------------
(* _client                                                                 *)

NewEntry == [last |-> now, api |-> {}, chat |-> {}, proactive |-> {}]

\* Mutant: a client is forgotten after the short window.
KeptShort == {c \in DOMAIN clients : now - clients[c].last < Short}

\* Clients not forgotten after the long window without a request.
Kept == {c \in DOMAIN clients : now - clients[c].last < Long}

\* Mutant: off by one at capacity.
HasRoomForOneMore(c) == c \in Kept \/ Cardinality(Kept) <= MaxClients

\* Full capacity refuses a new client rather than forgetting an active one.
HasRoom(c) == c \in Kept \/ Cardinality(Kept) < MaxClients

Recent(S, window) == {k \in S : calls[k].at > now - window}

Entry(c) ==
    LET e == IF c \in Kept THEN clients[c] ELSE NewEntry
    IN  [last |-> now, api |-> Recent(e.api, Short), chat |-> Recent(e.chat, Short),
         proactive |-> Recent(e.proactive, Long)]

Save(c, e) == clients' = [d \in Kept \cup {c} |-> IF d = c THEN e ELSE clients[d]]

\* What a refused call leaves: old entries are gone, this client's is fresh.
Visit(c) == IF HasRoom(c) THEN Save(c, Entry(c))
                          ELSE clients' = [d \in Kept |-> clients[d]]

Count(c, k, kind) == calls' = [calls EXCEPT ![k] = [client |-> c, at |-> now, kind |-> kind]]

----------------------------------------------------------------------------
(* request_allowed                                                         *)

ApiFull(c) == ~HasRoom(c) \/ Cardinality(Entry(c).api) >= ApiLimit

Allow(c, k) ==
    /\ calls[k] = None /\ ~ApiFull(c)
    /\ Save(c, [Entry(c) EXCEPT !.api = @ \cup {k}])
    /\ Count(c, k, "api")
    /\ UNCHANGED <<now, globalCalls, active, released>>

Deny(c) ==
    /\ ApiFull(c)
    /\ Visit(c)
    /\ UNCHANGED <<now, globalCalls, active, released, calls>>

----------------------------------------------------------------------------
(* acquire                                                                 *)

RecentGlobal == Recent(globalCalls, Short)

\* The call is answered with 429.
TooMany(c, kind) ==
    \/ ~HasRoom(c)
    \/ Cardinality(Entry(c).chat) >= ChatLimit
    \/ Cardinality(RecentGlobal) >= GlobalLimit
    \/ kind = "proactive" /\ Cardinality(Entry(c).proactive) >= ProactiveLimit

\* Mutant: off by one at the limit.
BusyAboveLimit == active > MaxActive

\* The call is answered with 503.
Busy == active >= MaxActive

Acquire(c, k, kind) ==
    /\ calls[k] = None /\ ~TooMany(c, kind) /\ ~Busy
    /\ Save(c, [Entry(c) EXCEPT !.chat = @ \cup {k},
                                !.proactive = IF kind = "proactive" THEN @ \cup {k} ELSE @])
    /\ globalCalls' = RecentGlobal \cup {k}
    /\ active' = active + 1
    /\ Count(c, k, kind)
    /\ UNCHANGED <<now, released>>

Refuse(c, kind) ==
    /\ TooMany(c, kind) \/ Busy
    /\ Visit(c)
    /\ globalCalls' = RecentGlobal
    /\ UNCHANGED <<now, active, released, calls>>

----------------------------------------------------------------------------
(* release(), handed out by acquire; it may be called again.               *)

Admitted(k) == calls[k] # None /\ calls[k].kind \in Generations

\* Mutant: the closure forgets that it has run.
ReleaseTwice(k) ==
    /\ Admitted(k)
    /\ active' = active - 1
    /\ released' = released \cup {k}
    /\ UNCHANGED <<now, clients, globalCalls, calls>>

Release(k) ==
    /\ Admitted(k)
    /\ active' = IF k \in released THEN active ELSE active - 1
    /\ released' = released \cup {k}
    /\ UNCHANGED <<now, clients, globalCalls, calls>>

Tick == /\ now < MaxTime
        /\ now' = now + 1
        /\ UNCHANGED <<clients, globalCalls, active, released, calls>>

----------------------------------------------------------------------------
Next ==
    \/ \E c \in Clients : \/ Deny(c)
                          \/ \E k \in Calls : Allow(c, k)
                          \/ \E kind \in Generations : \/ Refuse(c, kind)
                                                       \/ \E k \in Calls : Acquire(c, k, kind)
    \/ \E k \in Calls : Release(k)
    \/ Tick

Spec == Init /\ [][Next]_vars

----------------------------------------------------------------------------
\* The types; and the map of clients stays within its capacity although nobody
\* is forgotten before the longest window has passed (_client).
TypeOK ==
    /\ now \in Nat
    /\ clients = [c \in DOMAIN clients |-> clients[c]] /\ DOMAIN clients \subseteq Clients
    /\ \A c \in DOMAIN clients : clients[c] \in Entries
    /\ Cardinality(DOMAIN clients) <= MaxClients
    /\ globalCalls \subseteq Calls
    /\ active \in Int
    /\ released \subseteq Calls
    /\ calls \in [Calls -> Call \cup {None}]

MadeByAny(kinds, t, window) ==
    {k \in Calls : /\ calls[k] # None /\ calls[k].kind \in kinds
                   /\ t - window < calls[k].at /\ calls[k].at <= t}

Made(c, kinds, t, window) == {k \in MadeByAny(kinds, t, window) : calls[k].client = c}

\* In no window that ever ended is a limit exceeded, whatever requests were
\* refused in between and however often a client was forgotten and came back
\* (chat/README.md, the limits of runtime.py).
WindowsHold ==
    \A t \in 0..now :
        /\ \A c \in Clients :
              /\ Cardinality(Made(c, {"api"}, t, Short)) <= ApiLimit
              /\ Cardinality(Made(c, Generations, t, Short)) <= ChatLimit
              /\ Cardinality(Made(c, {"proactive"}, t, Long)) <= ProactiveLimit
        /\ Cardinality(MadeByAny(Generations, t, Short)) <= GlobalLimit

Held == {k \in Calls : Admitted(k)} \ released

\* The counter counts the calls that have been admitted and not yet released,
\* however often their release() is called (acquire, release).
ActiveCounts == active = Cardinality(Held)

\* Admission is the pool of slots the routes rely on.
Slots == INSTANCE SlotPool WITH Size <- MaxActive, held <- Held, past <- released
SlotSpec == Slots!Spec
=============================================================================
