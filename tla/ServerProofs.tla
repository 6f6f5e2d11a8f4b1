---------------------------- MODULE ServerProofs ----------------------------
(***************************************************************************)
(* What the server keeps in memory between requests, for every bound.      *)
(* First Admission.tla, for any number of clients and calls, any limits    *)
(* and any two windows of which Long is not the shorter; then              *)
(* TokenStore.tla, for any threads, lifetime and capacity; then the parts  *)
(* of the server together.                                                 *)
(***************************************************************************)
EXTENDS MCServer, ReplyProofs, FiniteSetTheorems, TLAPS

(***************************************************************************)
(* Admission: the windows and the slots.                                   *)
(***************************************************************************)
Used == {k \in Calls : calls[k] # None}

ClientsOK ==
    /\ clients = [c \in DOMAIN clients |-> clients[c]] /\ DOMAIN clients \subseteq Clients
    /\ \A c \in DOMAIN clients : clients[c] \in Entries
    /\ Cardinality(DOMAIN clients) <= MaxClients

ClientsPast ==
    /\ IsFiniteSet(DOMAIN clients)
    /\ \A c \in DOMAIN clients : /\ clients[c].last <= now
                                 /\ clients[c].api \subseteq Used
                                 /\ clients[c].chat \subseteq Used
                                 /\ clients[c].proactive \subseteq Used

\* Calls are finitely many, stamped in the past, and what is kept was counted.
Past ==
    /\ IsFiniteSet(Used)
    /\ \A k \in Used : calls[k].at <= now
    /\ ClientsPast
    /\ globalCalls \subseteq Used

\* Entry e holds call k if k is still in a window of its kind.
Holds(e, k) ==
    /\ calls[k].at <= e.last
    /\ calls[k].kind = "api" /\ now - Short < calls[k].at => k \in e.api
    /\ calls[k].kind \in Generations /\ now - Short < calls[k].at => k \in e.chat
    /\ calls[k].kind = "proactive" /\ now - Long < calls[k].at => k \in e.proactive

\* A call still in a window is held by its client's entry, and a client without
\* an entry has none; the same for the process.
ClientsRemember ==
    \A k \in Used : IF calls[k].client \in DOMAIN clients
                    THEN Holds(clients[calls[k].client], k)
                    ELSE calls[k].at <= now - Long

GlobalRemembers ==
    \A k \in Used : calls[k].kind \in Generations /\ now - Short < calls[k].at
                       => k \in globalCalls

Remembered == ClientsRemember /\ GlobalRemembers

WInv == TypeOK /\ Past /\ Remembered /\ WindowsHold

LEMMA KindFacts == /\ Generations \subseteq Kinds /\ "api" \in Kinds /\ "api" \notin Generations
                   /\ "proactive" \in Generations
  BY DEF Kinds, Generations

\* A counted call is a record of what was counted, and its stamp is a time.
LEMMA CallFacts ==
  ASSUME TypeOK
  PROVE  /\ \A k \in Used : /\ k \in Calls /\ calls[k] # None /\ calls[k] \in Call
                            /\ calls[k].client \in Clients /\ calls[k].at \in Nat
                            /\ calls[k].kind \in Kinds
         /\ now \in Nat /\ Short \in Nat \ {0} /\ Long \in Nat /\ Short <= Long
  BY AdmissionAssumption DEF TypeOK, Used, Call

LEMMA RecentFacts ==
  ASSUME TypeOK, NEW S, S \subseteq Used, NEW w \in Nat
  PROVE  /\ Recent(S, w) \subseteq S
         /\ \A k \in S : now - w < calls[k].at => k \in Recent(S, w)
  BY CallFacts DEF Recent

\* A client that is forgotten has no call left in any window.
LEMMA ForgottenIsIdle ==
  ASSUME TypeOK, Past, Remembered, NEW k \in Used, calls[k].client \notin Kept
  PROVE  calls[k].at <= now - Long
  <1> DEFINE c == calls[k].client
  <1>1. CASE c \in DOMAIN clients
    <2>1. calls[k].at <= clients[c].last
      BY <1>1 DEF Remembered, ClientsRemember, Holds
    <2>2. clients[c].last \in Nat /\ ~(now - clients[c].last < Long)
      BY <1>1 DEF Kept, TypeOK, Entries
    <2> QED BY <2>1, <2>2, CallFacts
  <1>2. CASE c \notin DOMAIN clients
    BY <1>2 DEF Remembered, ClientsRemember
  <1> QED BY <1>1, <1>2

\* Whatever client asks, its entry as brought up to date holds what it must.
LEMMA EntryHolds ==
  ASSUME TypeOK, Past, Remembered, NEW c \in Clients
  PROVE  /\ Entry(c) \in Entries /\ Entry(c).last = now
         /\ Entry(c).api \subseteq Used /\ Entry(c).chat \subseteq Used
         /\ Entry(c).proactive \subseteq Used
         /\ \A k \in Used : calls[k].client = c => Holds(Entry(c), k)
  <1> DEFINE e == IF c \in Kept THEN clients[c] ELSE NewEntry
  <1>1. /\ e.api \subseteq Used /\ e.chat \subseteq Used /\ e.proactive \subseteq Used
    BY DEF NewEntry, Kept, Past, ClientsPast
  <1>2. Entry(c) = [last |-> now, api |-> Recent(e.api, Short), chat |-> Recent(e.chat, Short),
                    proactive |-> Recent(e.proactive, Long)]
    BY DEF Entry
  <1> HIDE DEF e
  <1>3. /\ Recent(e.api, Short) \subseteq Used /\ Recent(e.chat, Short) \subseteq Used
        /\ Recent(e.proactive, Long) \subseteq Used
    BY <1>1, RecentFacts, CallFacts
  <1>4. Used \subseteq Calls /\ now \in Nat
    BY DEF Used, TypeOK
  <1>5. /\ Entry(c) \in Entries /\ Entry(c).last = now
        /\ Entry(c).api \subseteq Used /\ Entry(c).chat \subseteq Used
        /\ Entry(c).proactive \subseteq Used
    BY <1>2, <1>3, <1>4 DEF Entries
  <1>6. ASSUME NEW k \in Used, calls[k].client = c
        PROVE  Holds(Entry(c), k)
    <2>1. calls[k].at <= now /\ calls[k].at \in Nat
      BY CallFacts DEF Past
    <2>2. /\ calls[k].kind = "api" /\ now - Short < calls[k].at => k \in e.api
          /\ calls[k].kind \in Generations /\ now - Short < calls[k].at => k \in e.chat
          /\ calls[k].kind = "proactive" /\ now - Long < calls[k].at => k \in e.proactive
      <3>1. CASE c \in Kept
        BY <1>6, <3>1 DEF Remembered, ClientsRemember, Holds, Kept, e
      <3>2. CASE c \notin Kept
        <4>1. calls[k].at <= now - Long
          BY <1>6, <3>2, ForgottenIsIdle
        <4> QED BY <4>1, <2>1, CallFacts
      <3> QED BY <3>1, <3>2
    <2>3. now - Short < calls[k].at /\ k \in e.api => k \in Entry(c).api
      BY <1>1, <1>2, RecentFacts, CallFacts
    <2>4. now - Short < calls[k].at /\ k \in e.chat => k \in Entry(c).chat
      BY <1>1, <1>2, RecentFacts, CallFacts
    <2>5. now - Long < calls[k].at /\ k \in e.proactive => k \in Entry(c).proactive
      BY <1>1, <1>2, RecentFacts, CallFacts
    <2> QED BY <1>5, <2>1, <2>2, <2>3, <2>4, <2>5 DEF Holds
  <1> QED BY <1>5, <1>6

----------------------------------------------------------------------------
\* A step that saves entry e for client c and counts the calls K keeps the map of
\* clients sound and complete, if e is.
LEMMA SaveKeeps ==
  ASSUME TypeOK, Past, Remembered, NEW c \in Clients, HasRoom(c), NEW e \in Entries,
         Save(c, e), now' = now, e.last = now, NEW K,
         Used' = Used \cup K,
         e.api \subseteq Used', e.chat \subseteq Used', e.proactive \subseteq Used',
         \A k \in Used : calls'[k] = calls[k] /\ (calls[k].client = c => Holds(e, k)),
         \A k \in K : calls'[k].client = c /\ Holds(e, k)'
  PROVE  ClientsOK' /\ ClientsPast' /\ ClientsRemember'
  <1>1. /\ DOMAIN clients' = Kept \cup {c} /\ clients'[c] = e
        /\ clients' = [d \in DOMAIN clients' |-> clients'[d]]
        /\ \A d \in Kept \ {c} : clients'[d] = clients[d]
    BY DEF Save
  <1>2. Kept \subseteq DOMAIN clients /\ IsFiniteSet(DOMAIN clients)
    BY DEF Kept, Past, ClientsPast
  <1>3. IsFiniteSet(Kept) /\ Cardinality(Kept) \in Nat /\ Cardinality(Kept) <= MaxClients
    BY <1>2, FS_Subset, FS_CardinalityType, AdmissionAssumption DEF TypeOK
  <1>4. IsFiniteSet(DOMAIN clients') /\ Cardinality(DOMAIN clients') <= MaxClients
    <2>1. CASE c \in Kept
      <3>1. DOMAIN clients' = Kept
        BY <1>1, <2>1
      <3> QED BY <3>1, <1>3
    <2>2. CASE c \notin Kept
      <3>1. Cardinality(Kept) < MaxClients
        BY <2>2 DEF HasRoom
      <3>2. IsFiniteSet(Kept \cup {c}) /\ Cardinality(Kept \cup {c}) = Cardinality(Kept) + 1
        BY <1>3, <2>2, FS_AddElement
      <3> QED BY <1>1, <1>3, <3>1, <3>2, AdmissionAssumption
    <2> QED BY <2>1, <2>2
  <1>5. ClientsOK'
    BY <1>1, <1>2, <1>4 DEF ClientsOK, TypeOK, Entries
  <1>6. ClientsPast'
    <2>1. \A d \in Kept : /\ clients[d].last <= now /\ clients[d].api \subseteq Used
                         /\ clients[d].chat \subseteq Used /\ clients[d].proactive \subseteq Used
      BY <1>2 DEF Past, ClientsPast
    <2> QED BY <1>1, <1>4, <2>1, CallFacts DEF ClientsPast
  <1>7. ASSUME NEW k \in Used'
        PROVE  IF calls'[k].client \in DOMAIN clients'
               THEN Holds(clients[calls[k].client], k)'
               ELSE calls'[k].at <= now' - Long
    <2>1. CASE k \in K
      BY <1>1, <2>1 DEF Holds
    <2>2. CASE k \in Used
      <3>1. calls'[k] = calls[k]
        BY <2>2
      <3>2. CASE calls[k].client = c
        BY <1>1, <2>2, <3>1, <3>2 DEF Holds
      <3>3. CASE calls[k].client # c /\ calls[k].client \in Kept
        <4>1. Holds(clients[calls[k].client], k)
          BY <1>2, <2>2, <3>3 DEF Remembered, ClientsRemember
        <4> QED BY <1>1, <3>1, <3>3, <4>1 DEF Holds
      <3>4. CASE calls[k].client # c /\ calls[k].client \notin Kept
        <4>1. calls[k].at <= now - Long
          BY <2>2, <3>4, ForgottenIsIdle
        <4> QED BY <1>1, <3>1, <3>4, <4>1
      <3> QED BY <3>2, <3>3, <3>4
    <2> QED BY <2>1, <2>2
  <1>8. ClientsRemember'
    BY <1>7 DEF ClientsRemember
  <1> QED BY <1>5, <1>6, <1>8

\* A refused call leaves the map of clients sound and complete.
LEMMA VisitKeeps ==
  ASSUME TypeOK, Past, Remembered, NEW c \in Clients, Visit(c), UNCHANGED <<now, calls>>
  PROVE  ClientsOK' /\ ClientsPast' /\ ClientsRemember'
  <1>0. Used' = Used
    BY DEF Used
  <1>1. CASE HasRoom(c)
    <2>1. Save(c, Entry(c))
      BY <1>1 DEF Visit
    <2>2. PICK e : e = Entry(c)
      OBVIOUS
    <2>3. /\ e \in Entries /\ e.last = now /\ Save(c, e)
          /\ e.api \subseteq Used' /\ e.chat \subseteq Used' /\ e.proactive \subseteq Used'
          /\ \A k \in Used : calls'[k] = calls[k] /\ (calls[k].client = c => Holds(e, k))
      BY <1>0, <2>1, <2>2, EntryHolds
    <2> PICK K : K = {}
      OBVIOUS
    <2>4. Used' = Used \cup K /\ now' = now
      BY <1>0
    <2>5. \A k \in K : calls'[k].client = c /\ Holds(e, k)'
      OBVIOUS
    <2> QED BY <1>1, <2>3, <2>4, <2>5, SaveKeeps
  <1>2. CASE ~HasRoom(c)
    <2>1. clients' = [d \in Kept |-> clients[d]]
      BY <1>2 DEF Visit
    <2>2. Kept \subseteq DOMAIN clients
      BY DEF Kept
    <2>3. IsFiniteSet(Kept) /\ Cardinality(Kept) <= MaxClients
      BY <2>2, FS_Subset, FS_CardinalityType, AdmissionAssumption DEF TypeOK, Past, ClientsPast
    <2>4. ClientsOK' /\ ClientsPast'
      BY <1>0, <2>1, <2>2, <2>3 DEF ClientsOK, ClientsPast, TypeOK, Past, Entries
    <2>5. ASSUME NEW k \in Used
          PROVE  IF calls[k].client \in Kept THEN Holds(clients[calls[k].client], k)
                                            ELSE calls[k].at <= now - Long
      BY <2>2, ForgottenIsIdle DEF Remembered, ClientsRemember
    <2> QED BY <1>0, <2>1, <2>4, <2>5 DEF ClientsRemember, Holds
  <1> QED BY <1>1, <1>2

----------------------------------------------------------------------------
(* Counting.                                                               *)

LEMMA NewCall ==
  ASSUME TypeOK, Past, NEW c \in Clients, NEW k \in Calls, calls[k] = None,
         NEW kind \in Kinds, Count(c, k, kind)
  PROVE  /\ Used' = Used \cup {k} /\ k \notin Used /\ Used \subseteq Used'
         /\ calls' \in [Calls -> Call \cup {None}]
         /\ calls'[k] = [client |-> c, at |-> now, kind |-> kind]
         /\ \A j \in Used : calls'[j] = calls[j]
         /\ \A j \in Calls \ {k} : calls'[j] = calls[j]
  <1>1. [client |-> c, at |-> now, kind |-> kind] \in Call
    BY CallFacts DEF Call
  <1>2. [client |-> c, at |-> now, kind |-> kind] # None
    BY <1>1, AdmissionAssumption DEF Call, Kinds
  <1> QED BY <1>1, <1>2 DEF TypeOK, Count, Used

\* In a window of kinds a new call may be added, at the present moment only.
LEMMA NewInWindow ==
  ASSUME TypeOK, Past, NEW c \in Clients, NEW k \in Calls, calls[k] = None,
         NEW kind \in Kinds, Count(c, k, kind),
         NEW kinds, NEW w \in Nat, NEW t \in 0..now, NEW d \in Clients
  PROVE  /\ MadeByAny(kinds, t, w)' \subseteq MadeByAny(kinds, t, w) \cup {k}
         /\ Made(d, kinds, t, w)' \subseteq Made(d, kinds, t, w) \cup {k}
         /\ t < now \/ kind \notin kinds =>
              /\ MadeByAny(kinds, t, w)' \subseteq MadeByAny(kinds, t, w)
              /\ Made(d, kinds, t, w)' \subseteq Made(d, kinds, t, w)
         /\ d # c => Made(d, kinds, t, w)' \subseteq Made(d, kinds, t, w)
  <1>1. \A j \in Calls \ {k} : calls'[j] = calls[j]
    BY NewCall
  <1>2. calls'[k] = [client |-> c, at |-> now, kind |-> kind]
    BY NewCall
  <1>3. now \in Nat /\ t \in Nat /\ t <= now
    BY CallFacts
  <1> QED BY <1>1, <1>2, <1>3 DEF MadeByAny, Made

LEMMA MadeIsUsed ==
  ASSUME NEW kinds, NEW t, NEW w, NEW c
  PROVE  /\ MadeByAny(kinds, t, w) \subseteq Used
         /\ Made(c, kinds, t, w) \subseteq MadeByAny(kinds, t, w)
  BY DEF MadeByAny, Made, Used

LEMMA Fewer ==
  ASSUME NEW A, NEW B, IsFiniteSet(B), A \subseteq B, NEW n \in Nat, Cardinality(B) <= n
  PROVE  Cardinality(A) <= n
  <1>1. IsFiniteSet(A) /\ Cardinality(A) <= Cardinality(B)
    BY FS_Subset
  <1>2. Cardinality(A) \in Nat /\ Cardinality(B) \in Nat
    BY <1>1, FS_CardinalityType
  <1> QED BY <1>1, <1>2

LEMMA OneMore ==
  ASSUME NEW A, NEW B, NEW k, IsFiniteSet(B), A \subseteq B \cup {k},
         NEW n \in Nat, ~(Cardinality(B) >= n)
  PROVE  Cardinality(A) <= n
  <1>1. Cardinality(B) \in Nat
    BY FS_CardinalityType
  <1>2. IsFiniteSet(B \cup {k}) /\ Cardinality(B \cup {k}) <= Cardinality(B) + 1
    BY <1>1, FS_AddElement
  <1>3. Cardinality(B \cup {k}) \in Nat
    BY <1>2, FS_CardinalityType
  <1> QED BY <1>1, <1>2, <1>3, Fewer

\* A step that counts no call changes no window.
LEMMA WindowsKept ==
  ASSUME TypeOK, WindowsHold, UNCHANGED <<now, calls>>
  PROVE  WindowsHold'
  BY DEF WindowsHold, MadeByAny, Made

\* A moment later every window has lost calls and gained none.
LEMMA WindowsMove ==
  ASSUME TypeOK, Past, WindowsHold, Tick
  PROVE  WindowsHold'
  <1>1. now \in Nat /\ now' = now + 1 /\ calls' = calls
    BY CallFacts DEF Tick
  <1>2. ASSUME NEW t \in 0..now, NEW c \in Clients
        PROVE  /\ Cardinality(Made(c, {"api"}, t, Short)) <= ApiLimit
               /\ Cardinality(Made(c, Generations, t, Short)) <= ChatLimit
               /\ Cardinality(Made(c, {"proactive"}, t, Long)) <= ProactiveLimit
    BY DEF WindowsHold
  <1>3. ASSUME NEW kinds, NEW w \in Nat, NEW c
        PROVE  /\ MadeByAny(kinds, now + 1, w) \subseteq MadeByAny(kinds, now, w)
               /\ Made(c, kinds, now + 1, w) \subseteq Made(c, kinds, now, w)
    <2>1. \A k \in Used : calls[k].at \in Nat /\ calls[k].at <= now
      BY CallFacts DEF Past
    <2>2. MadeByAny(kinds, now + 1, w) \subseteq MadeByAny(kinds, now, w)
      BY <1>1, <2>1 DEF MadeByAny, Used
    <2> QED BY <2>2 DEF Made
  <1>4. ASSUME NEW kinds, NEW w \in Nat, NEW c
        PROVE  IsFiniteSet(Made(c, kinds, now, w)) /\ IsFiniteSet(MadeByAny(kinds, now, w))
    BY MadeIsUsed, FS_Subset DEF Past
  <1>5. ASSUME NEW c \in Clients
        PROVE  /\ Cardinality(Made(c, {"api"}, now + 1, Short)) <= ApiLimit
               /\ Cardinality(Made(c, Generations, now + 1, Short)) <= ChatLimit
               /\ Cardinality(Made(c, {"proactive"}, now + 1, Long)) <= ProactiveLimit
    <2>1. now \in 0..now
      BY <1>1
    <2>2. Cardinality(Made(c, {"api"}, now + 1, Short)) <= ApiLimit
      <3>1. /\ Made(c, {"api"}, now + 1, Short) \subseteq Made(c, {"api"}, now, Short)
            /\ IsFiniteSet(Made(c, {"api"}, now, Short))
        BY <1>3, <1>4, AdmissionAssumption
      <3>2. Cardinality(Made(c, {"api"}, now, Short)) <= ApiLimit /\ ApiLimit \in Nat
        BY <1>2, <2>1, AdmissionAssumption
      <3> QED BY <3>1, <3>2, Fewer
    <2>3. Cardinality(Made(c, Generations, now + 1, Short)) <= ChatLimit
      <3>1. /\ Made(c, Generations, now + 1, Short) \subseteq Made(c, Generations, now, Short)
            /\ IsFiniteSet(Made(c, Generations, now, Short))
        BY <1>3, <1>4, AdmissionAssumption
      <3>2. Cardinality(Made(c, Generations, now, Short)) <= ChatLimit /\ ChatLimit \in Nat
        BY <1>2, <2>1, AdmissionAssumption
      <3> QED BY <3>1, <3>2, Fewer
    <2>4. Cardinality(Made(c, {"proactive"}, now + 1, Long)) <= ProactiveLimit
      <3>1. /\ Made(c, {"proactive"}, now + 1, Long) \subseteq Made(c, {"proactive"}, now, Long)
            /\ IsFiniteSet(Made(c, {"proactive"}, now, Long))
        BY <1>3, <1>4, AdmissionAssumption
      <3>2. Cardinality(Made(c, {"proactive"}, now, Long)) <= ProactiveLimit /\ ProactiveLimit \in Nat
        BY <1>2, <2>1, AdmissionAssumption
      <3> QED BY <3>1, <3>2, Fewer
    <2> QED BY <2>2, <2>3, <2>4
  <1>6. Cardinality(MadeByAny(Generations, now + 1, Short)) <= GlobalLimit
    <2>1. Cardinality(MadeByAny(Generations, now, Short)) <= GlobalLimit
      BY <1>1 DEF WindowsHold
    <2> QED BY <1>3, <1>4, <2>1, Fewer, AdmissionAssumption
  <1>7. \A t \in 0..(now + 1) : t \in 0..now \/ t = now + 1
    BY <1>1
  <1>8. \A t \in 0..(now + 1) :
           /\ \A c \in Clients :
                 /\ Cardinality(Made(c, {"api"}, t, Short)) <= ApiLimit
                 /\ Cardinality(Made(c, Generations, t, Short)) <= ChatLimit
                 /\ Cardinality(Made(c, {"proactive"}, t, Long)) <= ProactiveLimit
           /\ Cardinality(MadeByAny(Generations, t, Short)) <= GlobalLimit
    BY <1>5, <1>6, <1>7 DEF WindowsHold
  <1>9. \A kinds, t, w : /\ MadeByAny(kinds, t, w)' = MadeByAny(kinds, t, w)
                        /\ \A c : Made(c, kinds, t, w)' = Made(c, kinds, t, w)
    BY <1>1 DEF MadeByAny, Made
  <1> HIDE DEF MadeByAny, Made
  <1>10. WindowsHold' <=> \A t \in 0..(now + 1) :
           /\ \A c \in Clients :
                 /\ Cardinality(Made(c, {"api"}, t, Short)') <= ApiLimit
                 /\ Cardinality(Made(c, Generations, t, Short)') <= ChatLimit
                 /\ Cardinality(Made(c, {"proactive"}, t, Long)') <= ProactiveLimit
           /\ Cardinality(MadeByAny(Generations, t, Short)') <= GlobalLimit
    BY <1>1 DEF WindowsHold
  <1> QED BY <1>8, <1>9, <1>10

\* What a client did in a window that ends now is in its entry.
LEMMA EntryCovers ==
  ASSUME TypeOK, Past, Remembered, NEW c \in Clients
  PROVE  /\ Made(c, {"api"}, now, Short) \subseteq Entry(c).api
         /\ Made(c, Generations, now, Short) \subseteq Entry(c).chat
         /\ Made(c, {"proactive"}, now, Long) \subseteq Entry(c).proactive
         /\ MadeByAny(Generations, now, Short) \subseteq RecentGlobal
         /\ IsFiniteSet(Entry(c).api) /\ IsFiniteSet(Entry(c).chat)
         /\ IsFiniteSet(Entry(c).proactive) /\ IsFiniteSet(RecentGlobal)
  <1>1. \A k \in Used : calls[k].client = c => Holds(Entry(c), k)
    BY EntryHolds
  <1>2. /\ Entry(c).api \subseteq Used /\ Entry(c).chat \subseteq Used
        /\ Entry(c).proactive \subseteq Used
    BY EntryHolds
  <1>3. /\ Made(c, {"api"}, now, Short) \subseteq Entry(c).api
        /\ Made(c, Generations, now, Short) \subseteq Entry(c).chat
        /\ Made(c, {"proactive"}, now, Long) \subseteq Entry(c).proactive
    BY <1>1, CallFacts DEF Made, MadeByAny, Holds, Used
  <1>4. RecentGlobal \subseteq Used
    BY DEF RecentGlobal, Recent, Past
  <1>5. MadeByAny(Generations, now, Short) \subseteq RecentGlobal
    BY CallFacts DEF MadeByAny, RecentGlobal, Recent, Used, Remembered, GlobalRemembers
  <1> QED BY <1>2, <1>3, <1>4, <1>5, FS_Subset DEF Past

LEMMA KeptFinite ==
  ASSUME Past, NEW kinds, NEW t, NEW w, NEW c
  PROVE  IsFiniteSet(Made(c, kinds, t, w)) /\ IsFiniteSet(MadeByAny(kinds, t, w))
  BY MadeIsUsed, FS_Subset DEF Past

LEMMA AllowKeepsWindows ==
  ASSUME TypeOK, Past, Remembered, WindowsHold, NEW c \in Clients, NEW k \in Calls, Allow(c, k)
  PROVE  WindowsHold'
  <1>1. /\ calls[k] = None /\ Count(c, k, "api") /\ now' = now /\ ~ApiFull(c) /\ "api" \in Kinds
    BY DEF Allow, Kinds
  <1>2. ASSUME NEW t \in 0..now, NEW d \in Clients
        PROVE  /\ Cardinality(Made(d, {"api"}, t, Short)') <= ApiLimit
               /\ Cardinality(Made(d, Generations, t, Short)') <= ChatLimit
               /\ Cardinality(Made(d, {"proactive"}, t, Long)') <= ProactiveLimit
    <2>1. /\ Cardinality(Made(d, {"api"}, t, Short)) <= ApiLimit
          /\ Cardinality(Made(d, Generations, t, Short)) <= ChatLimit
          /\ Cardinality(Made(d, {"proactive"}, t, Long)) <= ProactiveLimit
      BY DEF WindowsHold
    <2>2. /\ Made(d, Generations, t, Short)' \subseteq Made(d, Generations, t, Short)
          /\ Made(d, {"proactive"}, t, Long)' \subseteq Made(d, {"proactive"}, t, Long)
      <3>1. "api" \notin Generations /\ "api" \notin {"proactive"}
        BY KindFacts
      <3>2. Made(d, Generations, t, Short)' \subseteq Made(d, Generations, t, Short)
        BY <1>1, <3>1, NewInWindow, CallFacts
      <3>3. Made(d, {"proactive"}, t, Long)' \subseteq Made(d, {"proactive"}, t, Long)
        BY <1>1, <3>1, NewInWindow, CallFacts
      <3> QED BY <3>2, <3>3
    <2>3. /\ Cardinality(Made(d, Generations, t, Short)') <= ChatLimit
          /\ Cardinality(Made(d, {"proactive"}, t, Long)') <= ProactiveLimit
      BY <2>1, <2>2, KeptFinite, Fewer, AdmissionAssumption
    <2>4. Cardinality(Made(d, {"api"}, t, Short)') <= ApiLimit
      <3>1. CASE d = c /\ t = now
        <4>1. Made(d, {"api"}, t, Short)' \subseteq Made(d, {"api"}, t, Short) \cup {k}
          BY <1>1, NewInWindow, CallFacts
        <4>2. Made(d, {"api"}, t, Short)' \subseteq Entry(c).api \cup {k}
          BY <3>1, <4>1, EntryCovers
        <4>3. ~(Cardinality(Entry(c).api) >= ApiLimit) /\ IsFiniteSet(Entry(c).api)
          BY <1>1, EntryCovers DEF ApiFull
        <4> QED BY <4>2, <4>3, OneMore, AdmissionAssumption
      <3>2. CASE d # c \/ t < now
        <4>1. Made(d, {"api"}, t, Short)' \subseteq Made(d, {"api"}, t, Short)
          BY <1>1, <3>2, NewInWindow, CallFacts
        <4> QED BY <2>1, <4>1, KeptFinite, Fewer, AdmissionAssumption
      <3> QED BY <3>1, <3>2, CallFacts
    <2> QED BY <2>3, <2>4
  <1>3. ASSUME NEW t \in 0..now
        PROVE  Cardinality(MadeByAny(Generations, t, Short)') <= GlobalLimit
    <2>1. Cardinality(MadeByAny(Generations, t, Short)) <= GlobalLimit
      BY DEF WindowsHold
    <2>2. MadeByAny(Generations, t, Short)' \subseteq MadeByAny(Generations, t, Short)
      BY <1>1, NewInWindow, KindFacts, CallFacts
    <2> QED BY <2>1, <2>2, KeptFinite, Fewer, AdmissionAssumption
  <1> QED BY <1>1, <1>2, <1>3 DEF WindowsHold

LEMMA AcquireKeepsWindows ==
  ASSUME TypeOK, Past, Remembered, WindowsHold, NEW c \in Clients, NEW k \in Calls,
         NEW kind \in Generations, Acquire(c, k, kind)
  PROVE  WindowsHold'
  <1>1. /\ calls[k] = None /\ Count(c, k, kind) /\ now' = now /\ ~TooMany(c, kind)
        /\ kind \in Kinds /\ kind \notin {"api"}
    BY KindFacts DEF Acquire
  <1>2. ASSUME NEW t \in 0..now, NEW d \in Clients
        PROVE  /\ Cardinality(Made(d, {"api"}, t, Short)') <= ApiLimit
               /\ Cardinality(Made(d, Generations, t, Short)') <= ChatLimit
               /\ Cardinality(Made(d, {"proactive"}, t, Long)') <= ProactiveLimit
    <2>1. /\ Cardinality(Made(d, {"api"}, t, Short)) <= ApiLimit
          /\ Cardinality(Made(d, Generations, t, Short)) <= ChatLimit
          /\ Cardinality(Made(d, {"proactive"}, t, Long)) <= ProactiveLimit
      BY DEF WindowsHold
    <2>2. Cardinality(Made(d, {"api"}, t, Short)') <= ApiLimit
      <3>1. Made(d, {"api"}, t, Short)' \subseteq Made(d, {"api"}, t, Short)
        BY <1>1, NewInWindow, CallFacts
      <3> QED BY <2>1, <3>1, KeptFinite, Fewer, AdmissionAssumption
    <2>3. Cardinality(Made(d, Generations, t, Short)') <= ChatLimit
      <3>1. CASE d = c /\ t = now
        <4>1. Made(d, Generations, t, Short)' \subseteq Made(d, Generations, t, Short) \cup {k}
          BY <1>1, NewInWindow, CallFacts
        <4>2. Made(d, Generations, t, Short)' \subseteq Entry(c).chat \cup {k}
          BY <3>1, <4>1, EntryCovers
        <4>3. ~(Cardinality(Entry(c).chat) >= ChatLimit) /\ IsFiniteSet(Entry(c).chat)
          BY <1>1, EntryCovers DEF TooMany
        <4> QED BY <4>2, <4>3, OneMore, AdmissionAssumption
      <3>2. CASE d # c \/ t < now
        <4>1. Made(d, Generations, t, Short)' \subseteq Made(d, Generations, t, Short)
          BY <1>1, <3>2, NewInWindow, CallFacts
        <4> QED BY <2>1, <4>1, KeptFinite, Fewer, AdmissionAssumption
      <3> QED BY <3>1, <3>2, CallFacts
    <2>4. Cardinality(Made(d, {"proactive"}, t, Long)') <= ProactiveLimit
      <3>1. CASE d = c /\ t = now /\ kind = "proactive"
        <4>1. Made(d, {"proactive"}, t, Long)' \subseteq Made(d, {"proactive"}, t, Long) \cup {k}
          BY <1>1, NewInWindow, CallFacts
        <4>2. Made(d, {"proactive"}, t, Long)' \subseteq Entry(c).proactive \cup {k}
          BY <3>1, <4>1, EntryCovers
        <4>3. /\ ~(Cardinality(Entry(c).proactive) >= ProactiveLimit)
              /\ IsFiniteSet(Entry(c).proactive)
          BY <1>1, <3>1, EntryCovers DEF TooMany
        <4> QED BY <4>2, <4>3, OneMore, AdmissionAssumption
      <3>2. CASE d # c \/ t < now \/ kind # "proactive"
        <4>0. t < now \/ kind \notin {"proactive"} \/ d # c
          BY <3>2
        <4>1. Made(d, {"proactive"}, t, Long)' \subseteq Made(d, {"proactive"}, t, Long)
          <5>1. CASE d # c
            BY <1>1, <5>1, NewInWindow, CallFacts
          <5>2. CASE t < now \/ kind \notin {"proactive"}
            BY <1>1, <5>2, NewInWindow, CallFacts
          <5> QED BY <4>0, <5>1, <5>2
        <4> QED BY <2>1, <4>1, KeptFinite, Fewer, AdmissionAssumption
      <3> QED BY <3>1, <3>2, CallFacts
    <2> QED BY <2>2, <2>3, <2>4
  <1>3. ASSUME NEW t \in 0..now
        PROVE  Cardinality(MadeByAny(Generations, t, Short)') <= GlobalLimit
    <2>1. Cardinality(MadeByAny(Generations, t, Short)) <= GlobalLimit
      BY DEF WindowsHold
    <2>2. CASE t = now
      <3>1. MadeByAny(Generations, t, Short)' \subseteq RecentGlobal \cup {k}
        BY <1>1, <2>2, NewInWindow, EntryCovers, CallFacts
      <3>2. ~(Cardinality(RecentGlobal) >= GlobalLimit) /\ IsFiniteSet(RecentGlobal)
        BY <1>1, EntryCovers DEF TooMany
      <3> QED BY <3>1, <3>2, OneMore, AdmissionAssumption
    <2>3. CASE t < now
      <3>1. MadeByAny(Generations, t, Short)' \subseteq MadeByAny(Generations, t, Short)
        BY <1>1, <2>3, NewInWindow, CallFacts
      <3> QED BY <2>1, <3>1, KeptFinite, Fewer, AdmissionAssumption
    <2> QED BY <2>2, <2>3, CallFacts
  <1> QED BY <1>1, <1>2, <1>3 DEF WindowsHold

----------------------------------------------------------------------------
(* The invariant of the windows.                                           *)

LEMMA InitWindows == Init => WInv
  <1> SUFFICES ASSUME Init PROVE WInv
    OBVIOUS
  <1>1. Used = {} /\ DOMAIN clients = {} /\ now = 0 /\ IsFiniteSet({}) /\ Cardinality({}) = 0
    BY FS_EmptySet DEF Init, Used
  <1>2. TypeOK
    BY <1>1, AdmissionAssumption DEF Init, TypeOK
  <1>3. Past
    BY <1>1 DEF Init, Past, ClientsPast
  <1>4. Remembered
    BY <1>1 DEF Remembered, ClientsRemember, GlobalRemembers
  <1>5. WindowsHold
    <2>1. \A kinds, t, w : MadeByAny(kinds, t, w) = {}
      BY <1>1 DEF MadeByAny, Used
    <2>2. \A c, kinds, t, w : Made(c, kinds, t, w) = {}
      BY <2>1 DEF Made
    <2>3. /\ 0 <= ApiLimit /\ 0 <= ChatLimit /\ 0 <= ProactiveLimit /\ 0 <= GlobalLimit
      BY AdmissionAssumption
    <2> QED BY <1>1, <2>1, <2>2, <2>3 DEF WindowsHold
  <1> QED BY <1>2, <1>3, <1>4, <1>5 DEF WInv

LEMMA NextWindows == WInv /\ [Next]_vars => WInv'
  <1> SUFFICES ASSUME WInv, [Next]_vars PROVE WInv'
    OBVIOUS
  <1> USE DEF WInv
  <1>1. ASSUME NEW c \in Clients, Deny(c) PROVE WInv'
    <2>1. ClientsOK' /\ ClientsPast' /\ ClientsRemember'
      BY <1>1, VisitKeeps DEF Deny
    <2>2. Used' = Used /\ WindowsHold'
      BY <1>1, WindowsKept DEF Deny, Used
    <2>3. TypeOK'
      BY <1>1, <2>1 DEF Deny, TypeOK, ClientsOK
    <2>4. Past'
      BY <1>1, <2>1, <2>2 DEF Deny, Past
    <2>5. Remembered'
      BY <1>1, <2>1, <2>2 DEF Deny, Remembered, GlobalRemembers
    <2> QED BY <2>2, <2>3, <2>4, <2>5
  <1>2. ASSUME NEW c \in Clients, NEW k \in Calls, Allow(c, k) PROVE WInv'
    <2>1. /\ calls[k] = None /\ Count(c, k, "api") /\ "api" \in Kinds /\ HasRoom(c)
          /\ now' = now /\ globalCalls' = globalCalls /\ active' = active /\ released' = released
          /\ Save(c, [Entry(c) EXCEPT !.api = @ \cup {k}])
      BY <1>2 DEF Allow, ApiFull, Kinds
    <2>2. PICK e : e = [Entry(c) EXCEPT !.api = @ \cup {k}]
      OBVIOUS
    <2>3. /\ e \in Entries /\ e.last = now
          /\ e.api = Entry(c).api \cup {k} /\ e.chat = Entry(c).chat
          /\ e.proactive = Entry(c).proactive
      BY <2>2, EntryHolds DEF Entries
    <2>4. /\ Used' = Used \cup {k} /\ k \notin Used
          /\ calls' \in [Calls -> Call \cup {None}]
          /\ calls'[k] = [client |-> c, at |-> now, kind |-> "api"]
          /\ \A j \in Used : calls'[j] = calls[j]
      BY <2>1, NewCall
    <2>5. /\ e.api \subseteq Used' /\ e.chat \subseteq Used' /\ e.proactive \subseteq Used'
      BY <2>3, <2>4, EntryHolds
    <2>6. \A j \in Used : calls'[j] = calls[j] /\ (calls[j].client = c => Holds(e, j))
      BY <2>3, <2>4, EntryHolds DEF Holds
    <2>7. \A j \in {k} : calls'[j].client = c /\ Holds(e, j)'
      BY <2>1, <2>3, <2>4, KindFacts, CallFacts DEF Holds
    <2>8. ClientsOK' /\ ClientsPast' /\ ClientsRemember'
      <3>1. Save(c, e) /\ now' = now /\ HasRoom(c)
        BY <2>1, <2>2
      <3> QED BY <2>3, <2>4, <2>5, <2>6, <2>7, <3>1, SaveKeeps
    <2>9. TypeOK'
      BY <2>1, <2>4, <2>8 DEF TypeOK, ClientsOK
    <2>10. Past'
      BY <2>1, <2>4, <2>8, FS_AddElement, CallFacts DEF Past
    <2>11. Remembered'
      BY <2>1, <2>4, <2>8, KindFacts DEF Remembered, GlobalRemembers
    <2>12. WindowsHold'
      BY <1>2, AllowKeepsWindows
    <2> QED BY <2>9, <2>10, <2>11, <2>12
  <1>3. ASSUME NEW c \in Clients, NEW kind \in Generations, Refuse(c, kind) PROVE WInv'
    <2>1. ClientsOK' /\ ClientsPast' /\ ClientsRemember'
      BY <1>3, VisitKeeps DEF Refuse
    <2>2. Used' = Used /\ WindowsHold'
      BY <1>3, WindowsKept DEF Refuse, Used
    <2>3. /\ globalCalls' \subseteq globalCalls
          /\ \A k \in globalCalls : now - Short < calls[k].at => k \in globalCalls'
      BY <1>3, RecentFacts, CallFacts DEF Refuse, RecentGlobal, Past
    <2>4. TypeOK'
      BY <1>3, <2>1, <2>3 DEF Refuse, TypeOK, ClientsOK
    <2>5. Past'
      BY <1>3, <2>1, <2>2, <2>3 DEF Refuse, Past
    <2>6. Remembered'
      BY <1>3, <2>1, <2>2, <2>3 DEF Refuse, Remembered, GlobalRemembers
    <2> QED BY <2>2, <2>4, <2>5, <2>6
  <1>4. ASSUME NEW c \in Clients, NEW kind \in Generations, NEW k \in Calls, Acquire(c, k, kind)
        PROVE WInv'
    <2>1. /\ calls[k] = None /\ Count(c, k, kind) /\ kind \in Kinds /\ HasRoom(c)
          /\ now' = now /\ globalCalls' = RecentGlobal \cup {k} /\ active' = active + 1
          /\ released' = released
          /\ Save(c, [Entry(c) EXCEPT !.chat = @ \cup {k},
                                      !.proactive = IF kind = "proactive" THEN @ \cup {k} ELSE @])
      BY <1>4, KindFacts DEF Acquire, TooMany
    <2>2. PICK e : e = [Entry(c) EXCEPT !.chat = @ \cup {k},
                                      !.proactive = IF kind = "proactive" THEN @ \cup {k} ELSE @]
      OBVIOUS
    <2>3. /\ e \in Entries /\ e.last = now
          /\ e.api = Entry(c).api /\ e.chat = Entry(c).chat \cup {k}
          /\ e.proactive = IF kind = "proactive" THEN Entry(c).proactive \cup {k}
                                                 ELSE Entry(c).proactive
      BY <2>2, EntryHolds DEF Entries
    <2>4. /\ Used' = Used \cup {k} /\ k \notin Used
          /\ calls' \in [Calls -> Call \cup {None}]
          /\ calls'[k] = [client |-> c, at |-> now, kind |-> kind]
          /\ \A j \in Used : calls'[j] = calls[j]
      BY <2>1, NewCall
    <2>5. /\ e.api \subseteq Used' /\ e.chat \subseteq Used' /\ e.proactive \subseteq Used'
      BY <2>3, <2>4, EntryHolds
    <2>6. \A j \in Used : calls'[j] = calls[j] /\ (calls[j].client = c => Holds(e, j))
      BY <2>3, <2>4, EntryHolds DEF Holds
    <2>7. \A j \in {k} : calls'[j].client = c /\ Holds(e, j)'
      BY <2>1, <2>3, <2>4, KindFacts, CallFacts DEF Holds
    <2>8. ClientsOK' /\ ClientsPast' /\ ClientsRemember'
      <3>1. Save(c, e) /\ now' = now /\ HasRoom(c)
        BY <2>1, <2>2
      <3> QED BY <2>3, <2>4, <2>5, <2>6, <2>7, <3>1, SaveKeeps
    <2>9. RecentGlobal \subseteq globalCalls
      BY DEF RecentGlobal, Recent
    <2>10. \A j \in globalCalls : now - Short < calls[j].at => j \in RecentGlobal
      BY DEF RecentGlobal, Recent
    <2>11. TypeOK'
      BY <2>1, <2>4, <2>8, <2>9 DEF TypeOK, ClientsOK
    <2>12. Past'
      BY <2>1, <2>4, <2>8, <2>9, FS_AddElement, CallFacts DEF Past
    <2>13. Remembered'
      BY <2>1, <2>4, <2>8, <2>10 DEF Remembered, GlobalRemembers
    <2>14. WindowsHold'
      BY <1>4, AcquireKeepsWindows
    <2> QED BY <2>11, <2>12, <2>13, <2>14
  <1>5. ASSUME NEW k \in Calls, Release(k) PROVE WInv'
    <2>1. /\ UNCHANGED <<now, clients, globalCalls, calls>> /\ active' \in Int
          /\ released' \subseteq Calls /\ Used' = Used
      BY <1>5 DEF Release, TypeOK, Used
    <2>2. TypeOK'
      BY <2>1 DEF TypeOK
    <2>3. Past'
      BY <2>1 DEF Past, ClientsPast
    <2>4. Remembered'
      BY <2>1 DEF Remembered, ClientsRemember, GlobalRemembers, Holds
    <2> QED BY <2>1, <2>2, <2>3, <2>4, WindowsKept
  <1>6. ASSUME Tick PROVE WInv'
    <2>1. /\ UNCHANGED <<clients, globalCalls, active, released, calls>> /\ now' = now + 1
          /\ now \in Nat /\ Used' = Used
      BY <1>6, CallFacts DEF Tick, Used
    <2>2. TypeOK'
      BY <2>1 DEF TypeOK
    <2>3. Past'
      <3>1. \A c \in DOMAIN clients : clients[c].last \in Nat
        BY DEF TypeOK, Entries
      <3> QED BY <2>1, <3>1, CallFacts DEF Past, ClientsPast
    <2>4. Remembered'
      BY <2>1, CallFacts DEF Remembered, ClientsRemember, GlobalRemembers, Holds
    <2> QED BY <1>6, <2>2, <2>3, <2>4, WindowsMove
  <1>7. ASSUME UNCHANGED vars PROVE WInv'
    <2>1. Used' = Used /\ UNCHANGED <<now, clients, globalCalls, active, released, calls>>
      BY <1>7 DEF Used, vars
    <2>2. TypeOK'
      BY <2>1 DEF TypeOK
    <2>3. Past'
      BY <2>1 DEF Past, ClientsPast
    <2>4. Remembered'
      BY <2>1 DEF Remembered, ClientsRemember, GlobalRemembers, Holds
    <2> QED BY <2>1, <2>2, <2>3, <2>4, WindowsKept
  <1> QED BY <1>1, <1>2, <1>3, <1>4, <1>5, <1>6, <1>7 DEF Next

\* Values keep their types and the map of clients its capacity.
THEOREM AdmissionTyped == Spec => []TypeOK
  BY InitWindows, NextWindows, PTL DEF Spec, WInv

\* No window of any client, nor the process's, ever holds more calls than its limit
\* (request_allowed, acquire, _client).
THEOREM LimitsHold == Spec => []WindowsHold
  BY InitWindows, NextWindows, PTL DEF Spec, WInv

----------------------------------------------------------------------------
(* The slots.                                                              *)

\* Only calls that were admitted are released, and the slots in use are within
\* the limit.
Balanced == /\ ActiveCounts
            /\ released \subseteq {k \in Calls : Admitted(k)}
            /\ active <= MaxActive

SInv == WInv /\ Balanced

LEMMA HeldFinite == Past => IsFiniteSet(Held)
  <1>1. Held \subseteq Used
    BY DEF Held, Admitted, Used
  <1> QED BY <1>1, FS_Subset DEF Past

LEMMA AcquireHolds ==
  ASSUME SInv, NEW c \in Clients, NEW kind \in Generations, NEW k \in Calls, Acquire(c, k, kind)
  PROVE  /\ k \notin Held /\ k \notin released
         /\ Held' = Held \cup {k}
         /\ released' = released /\ active' = active + 1 /\ ~Busy
         /\ Balanced'
  <1>1. /\ calls[k] = None /\ Count(c, k, kind) /\ kind \in Kinds /\ released' = released
        /\ active' = active + 1 /\ ~Busy
    BY KindFacts DEF Acquire
  <1>2. k \notin Held /\ k \notin released
    BY <1>1 DEF Held, Admitted, SInv, Balanced
  <1>3. /\ calls'[k] = [client |-> c, at |-> now, kind |-> kind] /\ calls'[k] # None
        /\ \A j \in Calls \ {k} : calls'[j] = calls[j]
    BY <1>1, NewCall DEF SInv, WInv, Used
  <1>4. \A j \in Calls : Admitted(j)' <=> Admitted(j) \/ j = k
    BY <1>1, <1>3 DEF Admitted
  <1>5. Held' = Held \cup {k}
    BY <1>1, <1>2, <1>4 DEF Held
  <1>6. ActiveCounts'
    BY <1>1, <1>2, <1>5, HeldFinite, FS_AddElement DEF SInv, WInv, Balanced, ActiveCounts
  <1>7. Balanced'
    BY <1>1, <1>4, <1>6, AdmissionAssumption DEF SInv, WInv, TypeOK, Balanced, Busy
  <1> QED BY <1>1, <1>2, <1>5, <1>7

LEMMA ReleaseReturns ==
  ASSUME SInv, NEW k \in Calls, Release(k)
  PROVE  /\ IF k \in released THEN Held' = Held /\ released' = released
                             ELSE /\ k \in Held /\ Held' = Held \ {k}
                                  /\ released' = released \cup {k}
         /\ Balanced'
  <1>1. /\ Admitted(k) /\ released' = released \cup {k} /\ calls' = calls
        /\ active' = IF k \in released THEN active ELSE active - 1
    BY DEF Release
  <1>2. Held' = Held \ {k} /\ (k \notin released => k \in Held) /\ (k \in released => k \notin Held)
    BY <1>1 DEF Held, Admitted
  <1>3. ActiveCounts'
    BY <1>1, <1>2, HeldFinite, FS_RemoveElement DEF SInv, WInv, Balanced, ActiveCounts
  <1>4. Balanced'
    BY <1>1, <1>3, AdmissionAssumption DEF SInv, WInv, TypeOK, Balanced, Admitted
  <1> QED BY <1>1, <1>2, <1>4

\* The other operations neither take nor return a slot.
LEMMA OthersKeepSlots ==
  ASSUME SInv, NEW c \in Clients,
         \/ Deny(c)
         \/ \E k \in Calls : Allow(c, k)
         \/ \E kind \in Generations : Refuse(c, kind)
  PROVE  Held' = Held /\ released' = released /\ active' = active /\ Balanced'
  <1>1. released' = released /\ active' = active
    BY DEF Deny, Allow, Refuse
  <1>2. \A j \in Calls : Admitted(j)' <=> Admitted(j)
    <2>1. ASSUME NEW k \in Calls, Allow(c, k) PROVE \A j \in Calls : Admitted(j)' <=> Admitted(j)
      <3>1. calls[k] = None /\ Count(c, k, "api") /\ "api" \in Kinds
        BY <2>1 DEF Allow, Kinds
      <3>2. /\ calls'[k] = [client |-> c, at |-> now, kind |-> "api"]
            /\ \A j \in Calls \ {k} : calls'[j] = calls[j]
        <4>1. TypeOK /\ Past
          BY DEF SInv, WInv
        <4> QED BY <3>1, <4>1, NewCall
      <3> QED BY <3>1, <3>2, KindFacts DEF Admitted
    <2>2. CASE calls' = calls
      BY <2>2 DEF Admitted
    <2> QED BY <2>1, <2>2 DEF Deny, Refuse
  <1>3. Held' = Held
    BY <1>1, <1>2 DEF Held
  <1> QED BY <1>1, <1>2, <1>3 DEF SInv, Balanced, ActiveCounts

LEMMA InitSlots == Init => SInv
  <1> SUFFICES ASSUME Init PROVE Balanced
    BY InitWindows DEF SInv
  <1>1. Held = {} /\ active = 0 /\ released = {}
    BY DEF Init, Held, Admitted
  <1> QED BY <1>1, FS_EmptySet, AdmissionAssumption DEF Balanced, ActiveCounts

LEMMA NextSlots == SInv /\ [Next]_vars => SInv'
  <1> SUFFICES ASSUME SInv, [Next]_vars PROVE Balanced'
    BY NextWindows DEF SInv
  <1>1. ASSUME NEW c \in Clients, NEW kind \in Generations, NEW k \in Calls, Acquire(c, k, kind)
        PROVE  Balanced'
    BY <1>1, AcquireHolds
  <1>2. ASSUME NEW k \in Calls, Release(k) PROVE Balanced'
    BY <1>2, ReleaseReturns
  <1>3. CASE Tick \/ UNCHANGED vars
    <2>1. calls' = calls /\ released' = released /\ active' = active
      BY <1>3 DEF Tick, vars
    <2> QED BY <2>1 DEF SInv, Balanced, ActiveCounts, Held, Admitted
  <1>4. ASSUME NEW c \in Clients, Deny(c) PROVE Balanced'
    BY <1>4, OthersKeepSlots
  <1>5. ASSUME NEW c \in Clients, NEW k \in Calls, Allow(c, k) PROVE Balanced'
    BY <1>5, OthersKeepSlots
  <1>6. ASSUME NEW c \in Clients, NEW kind \in Generations, Refuse(c, kind) PROVE Balanced'
    BY <1>6, OthersKeepSlots
  <1> QED BY <1>1, <1>2, <1>3, <1>4, <1>5, <1>6 DEF Next

\* The counter of slots is the number of calls admitted and not yet released,
\* however often a release() is called (acquire, release).
THEOREM SlotsBalance == Spec => []ActiveCounts
  BY InitSlots, NextSlots, PTL DEF Spec, SInv, Balanced

\* Admission implements the pool of slots of SlotPool.tla: never more than
\* OES_AI_MAX_CONCURRENCY at once, each taken and returned at most once.
THEOREM AdmissionImplementsSlots == Spec => SlotSpec
  <1>1. Init => Slots!Init
    BY DEF Init, Slots!Init, Held, Admitted
  <1>2. SInv /\ [Next]_vars => [Slots!Next]_<<Held, released>>
    <2> SUFFICES ASSUME SInv, [Next]_vars PROVE [Slots!Next]_<<Held, released>>
      OBVIOUS
    <2>1. ASSUME NEW c \in Clients, NEW kind \in Generations, NEW k \in Calls, Acquire(c, k, kind)
          PROVE  Slots!Next
      <3>1. Cardinality(Held) < MaxActive
        <4>1. active = Cardinality(Held) /\ active \in Int /\ ~(active >= MaxActive)
          BY <2>1, AcquireHolds DEF SInv, Balanced, ActiveCounts, WInv, TypeOK, Busy
        <4> QED BY <4>1, AdmissionAssumption
      <3>2. Slots!Cardinality(Held) = Cardinality(Held)
        BY DEF Slots!Cardinality, Cardinality, Slots!IsFiniteSet, IsFiniteSet
      <3>3. Slots!Acquire(k)
        BY <2>1, <3>1, <3>2, AcquireHolds DEF Slots!Acquire
      <3> QED BY <3>3 DEF Slots!Next
    <2>2. ASSUME NEW k \in Calls, Release(k) PROVE [Slots!Next]_<<Held, released>>
      <3>1. CASE k \in released
        BY <2>2, <3>1, ReleaseReturns
      <3>2. CASE k \notin released
        <4>1. Slots!Release(k)
          BY <2>2, <3>2, ReleaseReturns DEF Slots!Release
        <4> QED BY <4>1 DEF Slots!Next
      <3> QED BY <3>1, <3>2
    <2>3. CASE Tick \/ UNCHANGED vars
      <3>1. calls' = calls /\ released' = released
        BY <2>3 DEF Tick, vars
      <3> QED BY <3>1 DEF Held, Admitted
    <2>4. ASSUME NEW c \in Clients, Deny(c) PROVE UNCHANGED <<Held, released>>
      BY <2>4, OthersKeepSlots
    <2>5. ASSUME NEW c \in Clients, NEW k \in Calls, Allow(c, k) PROVE UNCHANGED <<Held, released>>
      BY <2>5, OthersKeepSlots
    <2>6. ASSUME NEW c \in Clients, NEW kind \in Generations, Refuse(c, kind)
          PROVE  UNCHANGED <<Held, released>>
      BY <2>6, OthersKeepSlots
    <2> QED BY <2>1, <2>2, <2>3, <2>4, <2>5, <2>6 DEF Next
  <1>3. Spec => []SInv
    BY InitSlots, NextSlots, PTL DEF Spec
  <1> QED BY <1>1, <1>2, <1>3, PTL DEF Spec, SlotSpec, Slots!Spec

(***************************************************************************)
(* TokenStore: the tokens.                                                 *)
(***************************************************************************)
\* No thread has a time from the future.
Punctual == \A t \in Threads : thread[t].now <= clock

\* A token expires no later than a lifetime after it was put in, and later tokens were put
\* in later, whatever their expiry.
InOrderOfEntry ==
    /\ \A k \in In : /\ records[k].putAt <= clock
                     /\ records[k].expires <= records[k].putAt + Lifetime
    /\ \A j, k \in In : j < k => records[j].putAt <= records[k].putAt

TokenInv == TokenTypeOK /\ Punctual /\ InOrderOfEntry

LEMMA IdleIntent == Idle \in Intent
  BY TokenAssumption DEF Idle, Intent

LEMMA UnexpiredIn ==
  ASSUME NEW at PROVE Unexpired(at) \subseteq In
  BY DEF Unexpired

\* What keeps some of the records keeps what is known of them.
LEMMA KeepsFacts ==
  ASSUME TokenTypeOK, InOrderOfEntry, NEW S, S \subseteq In, Keeps(S),
         clock' \in Nat, clock <= clock', issued' = issued
  PROVE  /\ In' = S /\ In' \subseteq 1 .. issued' /\ records' \in [In' -> Record]
         /\ InOrderOfEntry'
  <1>1. In' = S /\ \A k \in S : records'[k] = records[k]
    BY DEF Keeps, In
  <1>2. records' \in [In' -> Record]
    BY <1>1 DEF Keeps, In, TokenTypeOK
  <1>3. In' \subseteq 1 .. issued'
    BY <1>1 DEF TokenTypeOK
  <1>4. \A k \in S : records[k].putAt \in Nat /\ records[k].putAt <= clock'
    BY DEF TokenTypeOK, InOrderOfEntry, Record
  <1>5. InOrderOfEntry'
    BY <1>1, <1>4 DEF InOrderOfEntry
  <1> QED BY <1>1, <1>2, <1>3, <1>5

\* A thread that leaves has no intent, and the others have theirs.
LEMMA LeavesFacts ==
  ASSUME TokenTypeOK, Punctual, NEW t \in Threads, Leaves(t)
  PROVE  /\ thread' \in [Threads -> Intent] /\ Punctual'
         /\ store' = store /\ clock' = clock
  <1>1. store' = store /\ clock' = clock /\ thread' = [thread EXCEPT ![t] = Idle]
    BY DEF Leaves
  <1>2. thread' \in [Threads -> Intent]
    BY <1>1, IdleIntent DEF TokenTypeOK
  <1>3. Punctual'
    BY <1>1 DEF Punctual, TokenTypeOK, Idle
  <1> QED BY <1>1, <1>2, <1>3

\* The token just issued is put in, and what makes room for it is the oldest.
LEMMA IssueFacts ==
  ASSUME TokenTypeOK, NEW t \in Threads, Issue(t)
  PROVE  /\ issued' = issued + 1 /\ issued' \in 1 .. MaxTokens
         /\ issued' \in In' /\ In' \subseteq Unexpired(thread[t].now) \cup {issued'}
         /\ records'[issued'] = [expires |-> thread[t].now + Lifetime, putAt |-> clock]
         /\ \A k \in In' \ {issued'} : records'[k] = records[k]
         /\ records' = [k \in In' |-> records'[k]]
         /\ \A k \in Unexpired(thread[t].now) \ In' :
               store = "clarification" /\ k + Maximum <= issued'
  <1> DEFINE S     == Unexpired(thread[t].now)
             new   == issued + 1
             All   == S \cup {new}
             After(k) == {j \in All : j > k}
  <1>1. issued' = new /\ new \in 1 .. MaxTokens
    BY TokenAssumption DEF Issue, TokenTypeOK
  <1>2. /\ In' = DropOldest(All)
        /\ records' = [k \in DropOldest(All) |->
              IF k = new THEN [expires |-> thread[t].now + Lifetime, putAt |-> clock]
                         ELSE records[k]]
    BY DEF Issue, In
  <1>3. S \subseteq 1 .. issued /\ issued \in Nat
    <2>1. S \subseteq In
      BY UnexpiredIn
    <2>2. In \subseteq 1 .. issued /\ issued \in Nat
      BY DEF TokenTypeOK
    <2> QED BY <2>1, <2>2
  <1>4. DropOldest(All) = {k \in All : Cardinality(After(k)) < Maximum}
    BY DEF DropOldest
  <1>5. new \in DropOldest(All)
    <2>1. After(new) = {}
      BY <1>3
    <2>2. Cardinality(After(new)) = 0
      BY <2>1, FS_EmptySet
    <2> QED BY <1>4, <2>2, TokenAssumption
  <1>6. ASSUME NEW k \in S, k \notin DropOldest(All)
        PROVE  store = "clarification" /\ k + Maximum <= new
    <2>1. k \in 1 .. issued /\ ~(Cardinality(After(k)) < Maximum)
      BY <1>3, <1>4, <1>6
    <2>2. /\ IsFiniteSet(k + 1 .. new) /\ Cardinality(k + 1 .. new) = new - k
      <3>1. k + 1 \in Int /\ new \in Int /\ ~(k + 1 > new) /\ new - (k + 1) + 1 = new - k
        BY <1>3, <2>1
      <3> QED BY <3>1, FS_Interval
    <2>3. After(k) \subseteq k + 1 .. new
      BY <1>3, <2>1
    <2>4. IsFiniteSet(After(k)) /\ Cardinality(After(k)) <= new - k
          /\ Cardinality(After(k)) \in Nat
      <3>1. IsFiniteSet(After(k)) /\ Cardinality(After(k)) <= Cardinality(k + 1 .. new)
        BY <2>2, <2>3, FS_Subset
      <3> QED BY <2>2, <3>1, FS_CardinalityType
    <2>5. k + Maximum <= new
      BY <1>3, <2>1, <2>4, TokenAssumption
    <2>6. store # "continuity"
      <3>1. IsFiniteSet(1 .. issued)
        BY <1>3, FS_Interval
      <3>2. IsFiniteSet(S) /\ Cardinality(S) \in Nat
        BY <1>3, <3>1, FS_Subset, FS_CardinalityType
      <3>3. IsFiniteSet(S \ {k}) /\ Cardinality(S \ {k}) = Cardinality(S) - 1
        BY <3>2, FS_RemoveElement
      <3>4. new \notin S \ {k}
        BY <1>3
      <3>5. /\ IsFiniteSet((S \ {k}) \cup {new})
            /\ Cardinality((S \ {k}) \cup {new}) = Cardinality(S)
        <4>1. Cardinality((S \ {k}) \cup {new}) = Cardinality(S \ {k}) + 1
              /\ IsFiniteSet((S \ {k}) \cup {new})
          BY <3>3, <3>4, FS_AddElement
        <4> QED BY <4>1, <3>2, <3>3
      <3>6. After(k) \subseteq (S \ {k}) \cup {new}
        BY <1>3, <2>1
      <3>7. Cardinality(After(k)) <= Cardinality(S)
        BY <3>5, <3>6, FS_Subset
      <3>8. ~(Cardinality(S) < Maximum)
        BY <2>1, <2>4, <3>2, <3>7, TokenAssumption
      <3> QED BY <3>8 DEF Issue
    <2> QED BY <2>5, <2>6 DEF TokenTypeOK
  <1> HIDE DEF All, After
  <1>7. In' \subseteq S \cup {new}
    BY <1>2 DEF DropOldest, All
  <1> QED BY <1>1, <1>2, <1>5, <1>6, <1>7

LEMMA TokenInitOK == TokenInit => TokenInv
  BY TokenAssumption, IdleIntent
  DEF TokenInit, TokenInv, TokenTypeOK, Punctual, InOrderOfEntry, In, Idle

\* Issuing keeps the order of entry, since the new token is put in now.
LEMMA IssueKeepsInv ==
  ASSUME TokenInv, NEW t \in Threads, Issue(t)
  PROVE  TokenInv'
  <1> USE DEF TokenInv
  <1> DEFINE new == issued'
  <1>1. /\ thread' \in [Threads -> Intent] /\ Punctual' /\ store' = store /\ clock' = clock
    BY LeavesFacts DEF Issue
  <1>2. /\ clock \in Nat /\ issued \in Nat /\ thread[t].now \in Nat /\ thread[t].now <= clock
        /\ new = issued + 1 /\ new \in 1 .. MaxTokens
    <2>1. new = issued + 1 /\ new \in 1 .. MaxTokens
      BY IssueFacts
    <2> QED BY <2>1 DEF TokenTypeOK, Intent, Punctual
  <1>3. \A k \in In' \ {new} : k \in In /\ k \in 1 .. issued /\ records'[k] = records[k]
    BY IssueFacts, UnexpiredIn DEF TokenTypeOK
  <1>4. /\ records'[new].expires = thread[t].now + Lifetime /\ records'[new].putAt = clock
        /\ records'[new] \in Record
    <2>1. records'[new] = [expires |-> thread[t].now + Lifetime, putAt |-> clock]
      BY IssueFacts
    <2> QED BY <1>2, <2>1, TokenAssumption DEF Record
  <1>5. \A k \in In' : records'[k] \in Record
    BY <1>3, <1>4 DEF TokenTypeOK
  <1>6. records' \in [In' -> Record]
    BY <1>5, IssueFacts
  <1>7. TokenTypeOK'
    BY <1>1, <1>2, <1>3, <1>6, TokenAssumption DEF TokenTypeOK
  <1>8. \A k \in In' : /\ records'[k].putAt \in Nat /\ records'[k].putAt <= clock
                       /\ records'[k].expires <= records'[k].putAt + Lifetime
    BY <1>2, <1>3, <1>4, <1>5, TokenAssumption DEF InOrderOfEntry, Record
  <1>9. ASSUME NEW j \in In', NEW k \in In', j < k
        PROVE  records'[j].putAt <= records'[k].putAt
    <2>1. j # new
      BY <1>2, <1>3, <1>9
    <2>2. CASE k = new
      BY <1>4, <1>8, <2>2
    <2>3. CASE k # new
      BY <1>3, <1>9, <2>1, <2>3 DEF InOrderOfEntry
    <2> QED BY <2>2, <2>3
  <1> QED BY <1>1, <1>7, <1>8, <1>9 DEF InOrderOfEntry

LEMMA TokenStepOK == TokenInv /\ [TokenNext]_tokenVars => TokenInv'
  <1> SUFFICES ASSUME TokenInv, [TokenNext]_tokenVars PROVE TokenInv'
    OBVIOUS
  <1> USE DEF TokenInv
  <1>1. ASSUME NEW t \in Threads, NEW what \in {"issue", "consume"},
               NEW k \in 0 .. issued, ReadClock(t, what, k)
        PROVE  TokenInv'
    <2>1. [does |-> what, token |-> k, now |-> clock] \in Intent
      BY TokenAssumption DEF TokenTypeOK, Intent
    <2>2. /\ thread' \in [Threads -> Intent]
          /\ \A u \in Threads : thread'[u] = thread[u] \/ thread'[u].now = clock
      BY <1>1, <2>1 DEF ReadClock, TokenTypeOK
    <2> QED BY <1>1, <2>2
            DEF ReadClock, TokenTypeOK, Punctual, InOrderOfEntry, In
  <1>2. ASSUME NEW t \in Threads, Issue(t) PROVE TokenInv'
    BY <1>2, IssueKeepsInv
  <1>3. ASSUME NEW t \in Threads, IssueNone(t) \/ Consume(t) PROVE TokenInv'
    <2>1. PICK S \in SUBSET In : Keeps(S)
      BY <1>3, UnexpiredIn DEF IssueNone, Consume
    <2>2. Leaves(t) /\ issued' = issued
      BY <1>3 DEF IssueNone, Consume
    <2>3. /\ thread' \in [Threads -> Intent] /\ Punctual' /\ store' = store /\ clock' = clock
      BY <2>2, LeavesFacts
    <2>4. /\ In' \subseteq 1 .. issued' /\ records' \in [In' -> Record] /\ InOrderOfEntry'
      <3>1. clock \in Nat /\ clock' \in Nat /\ clock <= clock'
        BY <2>3 DEF TokenTypeOK
      <3> QED BY <2>1, <2>2, <3>1, KeepsFacts
    <2> QED BY <2>2, <2>3, <2>4 DEF TokenTypeOK
  <1>4. CASE ClockTicks
    <2>1. clock' \in Nat /\ clock < clock'
      BY <1>4 DEF ClockTicks, TokenTypeOK
    <2> QED BY <1>4, <2>1
            DEF ClockTicks, TokenTypeOK, Punctual, InOrderOfEntry, In, Intent, Record
  <1>5. CASE UNCHANGED tokenVars
    BY <1>5 DEF tokenVars, TokenTypeOK, Punctual, InOrderOfEntry, In
  <1> QED BY <1>1, <1>2, <1>3, <1>4, <1>5 DEF TokenNext, TokenTypeOK

LEMMA TokenAlways == TokenSpec => []TokenInv
  BY TokenInitOK, TokenStepOK, PTL DEF TokenSpec

\* The stores keep their types, and their tokens are numbered by their issue.
THEOREM TokenTyped == TokenSpec => []TokenTypeOK
  BY TokenAlways, PTL DEF TokenInv

\* A token that stays only because a good one is before it was put in after that one, so it
\* is within its life too.
LEMMA InTime == TokenInv => HonouredInTime
  <1> SUFFICES ASSUME TokenInv, NEW at \in 0 .. clock, NEW k \in Unexpired(at)
               PROVE  at < records[k].putAt + Lifetime
    BY DEF HonouredInTime
  <1>1. k \in In /\ clock \in Nat /\ In \subseteq 1 .. issued /\ issued \in Nat
        /\ \A j \in In : /\ records[j].putAt \in Nat /\ records[j].expires \in Nat
                         /\ records[j].expires <= records[j].putAt + Lifetime
    BY UnexpiredIn DEF TokenInv, TokenTypeOK, InOrderOfEntry, Record
  <1>2. CASE StillGood(k, at)
    BY <1>1, <1>2, TokenAssumption DEF StillGood
  <1>3. CASE ~StillGood(k, at)
    <2>1. PICK j \in In : j < k /\ StillGood(j, at)
      BY <1>3 DEF Unexpired
    <2>2. records[j].putAt <= records[k].putAt
      BY <1>1, <2>1 DEF TokenInv, InOrderOfEntry
    <2> QED BY <1>1, <2>1, <2>2, TokenAssumption DEF StillGood
  <1> QED BY <1>2, <1>3

LEMMA GoesAndComes == TokenInv /\ [TokenNext]_tokenVars
                         => [GoneForAReason /\ HandedOut]_tokenVars
  <1> SUFFICES ASSUME TokenInv, TokenNext PROVE GoneForAReason /\ HandedOut
    OBVIOUS
  <1> USE DEF TokenInv
  <1>1. \A t \in Threads : \A k \in In \ Unexpired(thread[t].now) : records[k].expires <= clock
    <2> TAKE t \in Threads
    <2> TAKE k \in In \ Unexpired(thread[t].now)
    <2>1. ~StillGood(k, thread[t].now)
      BY DEF Unexpired
    <2>2. /\ records[k].expires \in Nat /\ thread[t].now \in Nat /\ clock \in Nat
          /\ thread[t].now <= clock
      BY DEF TokenTypeOK, Record, Intent, Punctual
    <2> QED BY <2>1, <2>2 DEF StillGood
  <1>2. issued \in Nat
    BY DEF TokenTypeOK
  <1>3. CASE In' = In /\ issued' = issued
    BY <1>2, <1>3 DEF GoneForAReason, HandedOut
  <1>4. ASSUME NEW t \in Threads, Issue(t) PROVE GoneForAReason /\ HandedOut
    <2>1. /\ issued' = issued + 1 /\ issued' \in In'
          /\ In' \subseteq Unexpired(thread[t].now) \cup {issued'}
      BY <1>4, IssueFacts
    <2>2. \A k \in Unexpired(thread[t].now) \ In' :
             store = "clarification" /\ k + Maximum <= issued'
      BY <1>4, IssueFacts
    <2>3. GoneForAReason
      BY <1>1, <2>2 DEF GoneForAReason
    <2>4. In \subseteq 1 .. issued
      BY DEF TokenTypeOK
    <2>5. issued + 1 .. issued' = {issued'} /\ issued' \notin In
      BY <1>2, <2>1, <2>4
    <2>6. In' \ In = {issued'}
      BY <2>1, <2>5, UnexpiredIn
    <2> QED BY <2>3, <2>5, <2>6 DEF HandedOut
  <1>5. ASSUME NEW t \in Threads, IssueNone(t) PROVE GoneForAReason /\ HandedOut
    <2>1. In' = Unexpired(thread[t].now) /\ issued' = issued
      BY <1>5 DEF IssueNone, Keeps, In
    <2>2. issued + 1 .. issued' = {} /\ In' \ In = {}
      BY <1>2, <2>1, UnexpiredIn
    <2> QED BY <1>1, <2>1, <2>2 DEF GoneForAReason, HandedOut
  <1>6. ASSUME NEW t \in Threads, Consume(t) PROVE GoneForAReason /\ HandedOut
    <2>1. /\ In' = Unexpired(thread[t].now) \ {thread[t].token} /\ issued' = issued
          /\ thread[t].does = "consume"
      BY <1>6 DEF Consume, Keeps, In
    <2>2. issued + 1 .. issued' = {} /\ In' \ In = {}
      BY <1>2, <2>1, UnexpiredIn
    <2> QED BY <1>1, <2>1, <2>2 DEF GoneForAReason, HandedOut
  <1> QED BY <1>3, <1>4, <1>5, <1>6 DEF TokenNext, ReadClock, ClockTicks, In

\* A token in the browser's hands works while it is in date and then no more, and once.
THEOREM TokensAreKept == TokenSpec => TokensHold
  <1>1. TokenInv /\ [TokenNext]_tokenVars => [GoneForAReason /\ HandedOut]_tokenVars
    BY GoesAndComes
  <1> QED BY <1>1, InTime, TokenAlways, PTL DEF TokenSpec, TokensHold

----------------------------------------------------------------------------
(* MCServer.tla: the four parts side by side.                                *)

ServerInv == WInv /\ ReplyInv /\ ServiceInv /\ TokenInv

\* Every part keeps its types when all run side by side.
THEOREM ServerTyped == MCSpec => []PartsTypeOK
  <1>1. MCInit => ServerInv
    BY InitWindows, ReplyStarts, ServiceStarts, TokenInitOK DEF MCInit, ServerInv
  <1>2. ServerInv /\ [MCNext]_<<part, vars, replyVars, serviceVars, tokenVars>> => ServerInv'
    BY NextWindows, ReplyKeeps, ServiceKeeps, TokenStepOK DEF MCNext, ServerInv
  <1>3. ServerInv => PartsTypeOK
    BY DEF ServerInv, WInv, ReplyInv, ServiceInv, TokenInv, PartsTypeOK
  <1> QED BY <1>1, <1>2, <1>3, PTL DEF MCSpec
=============================================================================
