--------------------------- MODULE ConsoleProofs ---------------------------
(***************************************************************************)
(* Theorems about Telemetry.tla, for any capacity, batch and number of     *)
(* events, faults and restarts, and about CoreController.tla, for any      *)
(* number of commands and workers.                                         *)
(***************************************************************************)
EXTENDS MCConsole, SequenceTheorems, WellFoundedInduction, TLAPS

(***************************************************************************)
(* acknowledge() goes through the buffer; what it leaves is shown by       *)
(* induction on how far it has come, stated with sets.                     *)
(***************************************************************************)
LEMMA LeastNumber ==
  ASSUME NEW T, T \subseteq Nat, T # {}
  PROVE  \E x \in T : \A y \in T : x <= y
  <1> DEFINE R == OpToRel(<, Nat)
  <1>1. IsWellFoundedOn(R, Nat)
    BY NatLessThanWellFounded
  <1>2. \A x, y \in Nat : y < x => <<y, x>> \in R
    BY DEF OpToRel
  <1> HIDE DEF R
  <1>3. PICK x \in T : \A y \in T : ~(<<y, x>> \in R)
    BY <1>1, WFMin
  <1>4. ASSUME NEW y \in T PROVE x <= y
    <2>1. x \in Nat /\ y \in Nat
      OBVIOUS
    <2>2. ~(y < x)
      BY <1>2, <1>3, <2>1
    <2> QED BY <2>1, <2>2
  <1> QED BY <1>4

LEMMA Inductive ==
  ASSUME NEW T, T \subseteq Nat, 0 \in T, \A n \in T : n + 1 \in T
  PROVE  T = Nat
  <1> SUFFICES ASSUME Nat \ T # {} PROVE FALSE
    OBVIOUS
  <1>1. PICK x \in Nat \ T : \A y \in Nat \ T : x <= y
    BY LeastNumber
  <1>2. x - 1 \in T
    BY <1>1
  <1> QED BY <1>1, <1>2

Elements(s) == {s[i] : i \in 1..Len(s)}

LEMMA RangeElements ==
  ASSUME NEW S, NEW s \in Seq(S)
  PROVE  Range(s) = Elements(s)
  BY LenProperties DEF Range, Elements

\* One event further.
Further(events, s, x) == IF x \in events THEN s ELSE Append(s, x)

\* The sequences that acknowledge() has built after the first m events.
Steps(events, s, m, f) ==
    f = [n \in 0..m |-> IF n = 0 THEN <<>> ELSE Further(events, f[n - 1], s[n])]

LEMMA StepsExist ==
  ASSUME NEW S, NEW s \in Seq(S), NEW events
  PROVE  \E f : Steps(events, s, Len(s), f)
  <1> DEFINE T == {m \in Nat : \E f : Steps(events, s, m, f)}
  <1>1. 0 \in T
    <2>1. Steps(events, s, 0, [n \in 0..0 |-> <<>>])
      BY DEF Steps
    <2> QED BY <2>1
  <1>2. ASSUME NEW m \in T PROVE m + 1 \in T
    <2>1. PICK f : Steps(events, s, m, f)
      OBVIOUS
    <2> DEFINE g == [n \in 0..m + 1 |-> IF n = m + 1 THEN Further(events, f[m], s[m + 1])
                                                    ELSE f[n]]
    <2>2. \A n \in 0..m : f[n] = IF n = 0 THEN <<>> ELSE Further(events, f[n - 1], s[n])
      BY <2>1 DEF Steps
    <2>3. \A n \in 0..m + 1 :
             g[n] = IF n = 0 THEN <<>> ELSE Further(events, g[n - 1], s[n])
      <3> TAKE n \in 0..m + 1
      <3>1. CASE n = m + 1
        <4>1. n # 0 /\ n - 1 = m /\ m \in 0..m + 1 /\ m # m + 1
          BY <3>1
        <4> QED BY <3>1, <4>1
      <3>2. CASE n # m + 1
        <4>1. n \in 0..m
          BY <3>2
        <4>2. CASE n = 0
          BY <2>2, <3>2, <4>1, <4>2
        <4>3. CASE n # 0
          <5>1. n - 1 \in 0..m + 1 /\ n - 1 # m + 1
            BY <4>1, <4>3
          <5> QED BY <2>2, <3>2, <4>1, <4>3, <5>1
        <4> QED BY <4>2, <4>3
      <3> QED BY <3>1, <3>2
    <2>4. g = [n \in 0..m + 1 |-> g[n]]
      OBVIOUS
    <2> HIDE DEF g
    <2>5. Steps(events, s, m + 1, g)
      BY <2>3, <2>4 DEF Steps
    <2> QED BY <2>5
  <1> HIDE DEF T
  <1>3. T = Nat
    <2>1. T \subseteq Nat
      BY DEF T
    <2> QED BY <1>1, <1>2, <2>1, Inductive
  <1>4. Len(s) \in Nat
    BY LenProperties
  <1> QED BY <1>3, <1>4 DEF T

LEMMA AppendElements ==
  ASSUME NEW S, NEW s \in Seq(S), NEW x \in S
  PROVE  /\ Append(s, x) \in Seq(S) /\ Len(Append(s, x)) = Len(s) + 1
         /\ Elements(Append(s, x)) = Elements(s) \cup {x}
  <1>1. /\ Append(s, x) \in Seq(S) /\ Len(s) \in Nat /\ Len(Append(s, x)) = Len(s) + 1
        /\ \A i \in 1..Len(s) : Append(s, x)[i] = s[i]
        /\ Append(s, x)[Len(s) + 1] = x
    BY AppendProperties, LenProperties
  <1>2. 1..Len(s) + 1 = 1..Len(s) \cup {Len(s) + 1}
    BY <1>1
  <1> QED BY <1>1, <1>2 DEF Elements

\* What is left are the events that are not acknowledged, in no more places than before.
LEMMA UnacknowledgedFacts ==
  ASSUME NEW S, buffer \in Seq(S), NEW events
  PROVE  /\ Unacknowledged(events) \in Seq(S)
         /\ Len(Unacknowledged(events)) <= Len(buffer)
         /\ Elements(Unacknowledged(events)) = Elements(buffer) \ events
  <1> DEFINE left == CHOOSE f : Steps(events, buffer, Len(buffer), f)
             Some(m) == {buffer[i] : i \in 1..m}
             T == {m \in Nat : m <= Len(buffer) =>
                     /\ left[m] \in Seq(S) /\ Len(left[m]) <= m
                     /\ Elements(left[m]) = Some(m) \ events}
  <1>1. Unacknowledged(events) = left[Len(buffer)]
    BY DEF Unacknowledged, Steps, Further
  <1>2. Steps(events, buffer, Len(buffer), left)
    BY StepsExist
  <1> HIDE DEF left
  <1>3. /\ Len(buffer) \in Nat
        /\ \A i \in 1..Len(buffer) : buffer[i] \in S
    BY LenProperties, ElementOfSeq
  <1>4. left[0] = <<>>
    BY <1>2, <1>3 DEF Steps
  <1>5. \A n \in 1..Len(buffer) : left[n] = Further(events, left[n - 1], buffer[n])
    BY <1>2, <1>3 DEF Steps
  <1>6. 0 \in T
    <2>1. <<>> \in Seq(S) /\ Len(<<>>) = 0
      BY EmptySeq
    <2>2. Elements(<<>>) = {}
      BY <2>1 DEF Elements
    <2>3. Some(0) = {}
      OBVIOUS
    <2> HIDE DEF Some
    <2>4. left[0] \in Seq(S) /\ Len(left[0]) <= 0 /\ Elements(left[0]) = Some(0) \ events
      BY <1>4, <2>1, <2>2, <2>3
    <2> QED BY <2>4
  <1>7. ASSUME NEW m \in T PROVE m + 1 \in T
    <2> SUFFICES ASSUME m + 1 <= Len(buffer)
                 PROVE  /\ left[m + 1] \in Seq(S) /\ Len(left[m + 1]) <= m + 1
                        /\ Elements(left[m + 1]) = Some(m + 1) \ events
      OBVIOUS
    <2>1. /\ m \in Nat /\ m + 1 \in 1..Len(buffer) /\ buffer[m + 1] \in S
          /\ left[m] \in Seq(S) /\ Len(left[m]) \in Nat /\ Len(left[m]) <= m
          /\ Elements(left[m]) = Some(m) \ events
      BY <1>3, LenProperties
    <2>2. left[m + 1] = Further(events, left[m], buffer[m + 1])
      BY <1>5, <2>1
    <2>3. Some(m + 1) = Some(m) \cup {buffer[m + 1]}
      BY <2>1
    <2> HIDE DEF Some
    <2>4. CASE buffer[m + 1] \in events
      BY <2>1, <2>2, <2>3, <2>4 DEF Further
    <2>5. CASE buffer[m + 1] \notin events
      <3>1. left[m + 1] = Append(left[m], buffer[m + 1])
        BY <2>2, <2>5 DEF Further
      <3>2. /\ left[m + 1] \in Seq(S) /\ Len(left[m + 1]) = Len(left[m]) + 1
            /\ Elements(left[m + 1]) = Elements(left[m]) \cup {buffer[m + 1]}
        BY <2>1, <3>1, AppendElements
      <3> QED BY <2>1, <2>3, <2>5, <3>2
    <2> QED BY <2>4, <2>5
  <1>8. T = Nat
    <2> HIDE DEF T
    <2>1. T \subseteq Nat
      BY DEF T
    <2> QED BY <1>6, <1>7, <2>1, Inductive
  <1>9. Len(buffer) \in T
    BY <1>3, <1>8
  <1>10. Some(Len(buffer)) = Elements(buffer)
    BY DEF Elements
  <1> QED BY <1>1, <1>3, <1>9, <1>10

(***************************************************************************)
(* Types, part by part.                                                    *)
(***************************************************************************)
RelayOK ==
    /\ emitted \in 0..MaxEvents /\ forgotten \subseteq 1..MaxEvents
    /\ buffer \in Seq(Event) /\ Len(buffer) <= Capacity

CallsOK == calls \in [Threads -> Call]

WorkerOK == owner \in 0..MaxRestarts \cup {None} /\ telemetry_ack \subseteq Event

DatabaseOK ==
    store \subseteq Event /\ DOMAIN metrics = store /\ \A x \in store : metrics[x] \in Nat

\* A life of the relay begins with a restart.
BoundsOK ==
    /\ life \in 0..MaxRestarts /\ life <= restarts
    /\ faults \in 0..MaxFaults /\ restarts \in 0..MaxRestarts

TypesOK == RelayOK /\ CallsOK /\ WorkerOK /\ DatabaseOK /\ BoundsOK

LEMMA TypeParts == TypesOK => TelemetryTypeOK
  BY DEF TypesOK, RelayOK, CallsOK, WorkerOK, DatabaseOK, BoundsOK, TelemetryTypeOK

LEMMA IdleType == Idle \in Call
  BY TelemetryAssumption DEF Idle, Call

LEMMA AnswerType ==
  ASSUME TypesOK, NEW t \in Threads, NEW events \in SUBSET Event, Answer(t, events)
  PROVE  CallsOK' /\ calls' = [calls EXCEPT ![t] = [calls[t] EXCEPT !.at = "answered",
                                                      !.life = life, !.events = events]]
  <1>1. calls[t] \in Call /\ life \in 0..MaxRestarts
    BY DEF TypesOK, CallsOK, BoundsOK
  <1>2. [calls[t] EXCEPT !.at = "answered", !.life = life, !.events = events] \in Call
    BY <1>1 DEF Call
  <1>3. calls' = [calls EXCEPT ![t] = [calls[t] EXCEPT !.at = "answered", !.life = life,
                                                        !.events = events]]
    BY <1>1 DEF Answer, TypesOK, CallsOK, Call
  <1> QED BY <1>2, <1>3 DEF TypesOK, CallsOK

LEMMA BatchType ==
  ASSUME NEW s \in Seq(Event)
  PROVE  Batch(s) \in SUBSET Event
  <1> DEFINE n == Min2(MaxBatch, Len(s))
  <1>1. n \in 0..Len(s)
    BY LenProperties, TelemetryAssumption DEF Min2
  <1>2. SubSeq(s, 1, n) \in Seq(Event)
    BY <1>1
  <1>3. Elements(SubSeq(s, 1, n)) \subseteq Event
    BY <1>2, ElementOfSeq DEF Elements
  <1> QED BY <1>2, <1>3, RangeElements DEF Batch

\* Nothing an event stood for is lost by emit(), and the buffer keeps its bound.
LEMMA EmitFacts ==
  ASSUME RelayOK, Emit
  PROVE  /\ RelayOK' /\ {emitted'} \in Elements(buffer')
         /\ \A x \in Elements(buffer) : \E y \in Elements(buffer') : x \subseteq y
  <1> DEFINE new == {emitted + 1}
  <1>1. emitted' = emitted + 1 /\ emitted' \in 0..MaxEvents /\ forgotten' = forgotten
        /\ new \in Event
    <2>1. emitted < MaxEvents /\ emitted' = emitted + 1 /\ forgotten' = forgotten
      BY DEF Emit
    <2>2. emitted \in Nat /\ MaxEvents \in Nat /\ emitted + 1 \in 1..MaxEvents
      BY <2>1, TelemetryAssumption DEF RelayOK
    <2>3. new \in Event
      <3>1. \A x \in new : x \in 1..MaxEvents
        BY <2>2
      <3>2. emitted + 1 \in new
        OBVIOUS
      <3> HIDE DEF new
      <3>3. new \in SUBSET (1..MaxEvents) /\ new \notin {{}}
        BY <3>1, <3>2
      <3> QED BY <3>3 DEF Event
    <2> QED BY <2>1, <2>2, <2>3
  <1>2. buffer \in Seq(Event) /\ Len(buffer) \in Nat /\ Len(buffer) <= Capacity
        /\ \A i \in 1..Len(buffer) : buffer[i] \in Event
    BY LenProperties, ElementOfSeq DEF RelayOK
  <1> HIDE DEF new
  <1>3. CASE Len(buffer) < Capacity
    <2>1. buffer' = Append(buffer, new)
      BY <1>3 DEF Emit, new
    <2>2. /\ buffer' \in Seq(Event) /\ Len(buffer') = Len(buffer) + 1
          /\ Elements(buffer') = Elements(buffer) \cup {new}
      BY <1>1, <1>2, <2>1, AppendElements
    <2>3. Len(buffer') <= Capacity
      BY <1>2, <1>3, <2>2, TelemetryAssumption
    <2> QED BY <1>1, <2>2, <2>3 DEF RelayOK, new
  <1>4. CASE ~(Len(buffer) < Capacity)
    <2> DEFINE n    == Len(buffer)
               gap  == buffer[1] \cup buffer[2]
               rest == SubSeq(buffer, 3, n)
               last == <<gap, new>>
    <2>1. n = Capacity /\ n \in Nat /\ n >= 2
      BY <1>2, <1>4, TelemetryAssumption
    <2>2. buffer' = rest \o last
      BY <1>4 DEF Emit, new
    <2>3. buffer[1] \in Event /\ buffer[2] \in Event /\ gap \in Event
      BY <1>2, <2>1 DEF Event
    <2>4. last \in Seq(Event) /\ Len(last) = 2 /\ last[1] = gap /\ last[2] = new
      BY <1>1, <2>3
    <2>5. /\ rest \in Seq(Event) /\ Len(rest) = n - 2
          /\ \A i \in 1..n - 2 : rest[i] = buffer[i + 2]
      BY <1>2, <2>1
    <2> HIDE DEF n, gap, rest, last
    <2>6. /\ buffer' \in Seq(Event) /\ Len(buffer') = n
          /\ \A i \in 1..n - 2 : buffer'[i] = buffer[i + 2]
          /\ buffer'[n - 1] = gap /\ buffer'[n] = new
      <3>1. /\ rest \o last \in Seq(Event)
            /\ Len(rest \o last) = Len(rest) + Len(last)
            /\ \A i \in 1..Len(rest) + Len(last) :
                   (rest \o last)[i] = IF i <= Len(rest) THEN rest[i] ELSE last[i - Len(rest)]
        BY <2>4, <2>5, ConcatProperties
      <3>2. n - 1 - (n - 2) = 1 /\ n - (n - 2) = 2 /\ n - 2 + 2 = n
            /\ n - 2 \in Nat /\ n - 1 \in 1..n /\ n \in 1..n
        BY <2>1
      <3> QED BY <2>1, <2>2, <2>4, <2>5, <3>1, <3>2
    <2>7. gap \in Elements(buffer') /\ new \in Elements(buffer')
      BY <2>1, <2>6 DEF Elements
    <2>8. ASSUME NEW i \in 1..n PROVE \E y \in Elements(buffer') : buffer[i] \subseteq y
      <3>1. CASE i \in {1, 2}
        BY <2>7, <3>1 DEF gap
      <3>2. CASE i \notin {1, 2}
        <4>1. i - 2 \in 1..n - 2 /\ i - 2 \in 1..n /\ i - 2 + 2 = i
          BY <2>1, <3>2
        <4> QED BY <2>6, <4>1 DEF Elements
      <3> QED BY <3>1, <3>2
    <2>9. \A x \in Elements(buffer) : \E y \in Elements(buffer') : x \subseteq y
      BY <2>8 DEF Elements, n
    <2> QED BY <1>1, <2>1, <2>6, <2>7, <2>9, TelemetryAssumption DEF RelayOK, new
  <1> QED BY <1>3, <1>4

\* What the relay forgets when a call acknowledges it.
LEMMA AcknowledgeFacts ==
  ASSUME RelayOK, NEW events, buffer' = Unacknowledged(events),
         UNCHANGED <<emitted, forgotten>>
  PROVE  RelayOK' /\ Elements(buffer') = Elements(buffer) \ events
  <1>1. buffer \in Seq(Event) /\ Len(buffer) \in Nat /\ Len(buffer) <= Capacity
    BY LenProperties DEF RelayOK
  <1>2. /\ buffer' \in Seq(Event) /\ Len(buffer') <= Len(buffer)
        /\ Elements(buffer') = Elements(buffer) \ events
    BY <1>1, UnacknowledgedFacts
  <1>3. Len(buffer') \in Nat
    BY <1>2, LenProperties
  <1> QED BY <1>1, <1>2, <1>3, TelemetryAssumption DEF RelayOK

\* A call that failed is over.
LEMMA ClearFacts ==
  ASSUME TypesOK, NEW t \in Threads, Clear(t)
  PROVE  /\ CallsOK' /\ WorkerOK' /\ calls'[t] = Idle
         /\ \A u \in Threads \ {t} : calls'[u].at = calls[u].at /\ calls'[u].events = calls[u].events
         /\ UNCHANGED <<relay, telemetry_ack, database, restarts>>
  <1> DEFINE clears == t = "run" \/ calls[t].current
             rest(u) == [calls[u] EXCEPT !.current = @ /\ ~clears]
  <1>1. calls' = [u \in Threads |-> IF u = t THEN Idle ELSE rest(u)]
    BY DEF Clear
  <1>2. \A u \in Threads : calls[u] \in Call
    BY DEF TypesOK, CallsOK
  <1>3. ASSUME NEW u \in Threads
        PROVE  rest(u) \in Call /\ rest(u).at = calls[u].at /\ rest(u).events = calls[u].events
    <2>1. (calls[u].current /\ ~clears) \in BOOLEAN
      OBVIOUS
    <2>2. calls[u] \in Call
      BY <1>2
    <2> HIDE DEF clears
    <2> QED BY <2>1, <2>2 DEF Call
  <1> HIDE DEF rest
  <1>4. CallsOK'
    BY <1>1, <1>3, IdleType DEF CallsOK
  <1>5. owner' \in 0..MaxRestarts \cup {None}
    <2>1. owner' = owner \/ owner' = None
      BY DEF Clear
    <2> QED BY <2>1 DEF TypesOK, WorkerOK
  <1>6. UNCHANGED <<relay, telemetry_ack, database, restarts>>
    BY DEF Clear
  <1> QED BY <1>1, <1>3, <1>4, <1>5, <1>6 DEF TypesOK, WorkerOK

(***************************************************************************)
(* The steps.                                                              *)
(***************************************************************************)
TelemetryInv == TypesOK /\ StoredOnce /\ NothingSilent

\* An event that is covered stays so while the buffer gives up only what is stored.
LEMMA StaysCovered ==
  ASSUME RelayOK, RelayOK', NothingSilent, emitted' = emitted, forgotten' = forgotten,
         store \subseteq store', Elements(buffer) \subseteq Elements(buffer') \cup store'
  PROVE  NothingSilent'
  <1>1. Range(buffer) = Elements(buffer) /\ Range(buffer') = Elements(buffer')
    BY RangeElements DEF RelayOK
  <1> QED BY <1>1 DEF NothingSilent

LEMMA RelayKept ==
  ASSUME TypesOK, NothingSilent, UNCHANGED relay, store \subseteq store'
  PROVE  RelayOK' /\ NothingSilent'
  <1>1. /\ emitted' = emitted /\ forgotten' = forgotten /\ buffer' = buffer
    BY DEF relay
  <1>2. RelayOK'
    BY <1>1 DEF TypesOK, RelayOK
  <1> QED BY <1>1, <1>2 DEF NothingSilent

\* A step of one thread's call.
LEMMA CallMoves ==
  ASSUME TypesOK, StoredOnce, NEW t \in Threads, NEW c \in Call,
         calls' = [calls EXCEPT ![t] = c], UNCHANGED <<telemetry_ack, database>>,
         c.at \in {"heartbeat", "poll", "stored"} => c.events \subseteq store
  PROVE  CallsOK' /\ DatabaseOK' /\ StoredOnce'
  <1>1. CallsOK'
    BY DEF TypesOK, CallsOK
  <1>2. DatabaseOK'
    BY DEF TypesOK, DatabaseOK, database
  <1>3. \A u \in Threads : calls'[u] = IF u = t THEN c ELSE calls[u]
    BY DEF TypesOK, CallsOK
  <1> QED BY <1>1, <1>2, <1>3 DEF StoredOnce, database

LEMMA EmitStep ==
  ASSUME TelemetryInv, Emit
  PROVE  TelemetryInv'
  <1> USE DEF TelemetryInv
  <1>1. UNCHANGED <<life, forgotten, calls, owner, telemetry_ack, store, metrics, faults, restarts>>
        /\ emitted' = emitted + 1
    BY DEF Emit, worker, database, bounds
  <1>2. /\ RelayOK' /\ {emitted'} \in Elements(buffer')
        /\ \A x \in Elements(buffer) : \E y \in Elements(buffer') : x \subseteq y
    BY EmitFacts DEF TypesOK
  <1>3. TypesOK'
    BY <1>1, <1>2 DEF TypesOK, CallsOK, WorkerOK, DatabaseOK, BoundsOK
  <1>4. StoredOnce'
    BY <1>1 DEF StoredOnce
  <1>5. Range(buffer) = Elements(buffer) /\ Range(buffer') = Elements(buffer')
    BY <1>2, RangeElements DEF TypesOK, RelayOK
  <1>6. ASSUME NEW e \in 1..emitted'
        PROVE  e \in forgotten' \/ \E x \in store' \cup Elements(buffer') : e \in x
    <2>1. CASE e = emitted'
      BY <1>2, <2>1
    <2>2. CASE e # emitted'
      <3>1. e \in 1..emitted
        BY <1>1, <2>2 DEF TypesOK, RelayOK
      <3>2. e \in forgotten \/ \E x \in store \cup Elements(buffer) : e \in x
        BY <1>5, <3>1 DEF NothingSilent
      <3> QED BY <1>1, <1>2, <3>2
    <2> QED BY <2>1, <2>2
  <1>7. NothingSilent'
    BY <1>5, <1>6 DEF NothingSilent
  <1> QED BY <1>3, <1>4, <1>7

LEMMA RestartStep ==
  ASSUME TelemetryInv, RelayRestart \/ WorkerRestart
  PROVE  TelemetryInv'
  <1> USE DEF TelemetryInv
  <1>1. CASE RelayRestart
    <2>1. /\ UNCHANGED <<emitted, calls, owner, telemetry_ack, store, metrics, faults>>
          /\ restarts < MaxRestarts /\ restarts' = restarts + 1 /\ life' = life + 1
          /\ buffer' = <<>> /\ forgotten' = forgotten \cup UNION Range(buffer)
      BY <1>1 DEF RelayRestart, worker, database
    <2>2. Range(buffer) \subseteq Event
      <3>1. buffer \in Seq(Event)
        BY DEF TypesOK, RelayOK
      <3> QED BY <3>1, RangeElements, ElementOfSeq DEF Elements
    <2>3. forgotten' \subseteq 1..MaxEvents
      BY <2>1, <2>2 DEF TypesOK, RelayOK, Event
    <2>4. RelayOK'
      BY <2>1, <2>3, TelemetryAssumption DEF TypesOK, RelayOK
    <2>5. BoundsOK'
      BY <2>1, TelemetryAssumption DEF TypesOK, BoundsOK
    <2>6. TypesOK' /\ StoredOnce'
      BY <2>1, <2>4, <2>5 DEF TypesOK, CallsOK, WorkerOK, DatabaseOK, StoredOnce
    <2>7. NothingSilent'
      BY <2>1 DEF NothingSilent
    <2> QED BY <2>6, <2>7
  <1>2. CASE WorkerRestart
    <2>1. /\ UNCHANGED <<relay, database, faults>> /\ life' = life
          /\ restarts < MaxRestarts /\ restarts' = restarts + 1
          /\ calls' = [t \in Threads |-> Idle] /\ owner' = None /\ telemetry_ack' = {}
      BY <1>2 DEF WorkerRestart, relay
    <2>2. RelayOK' /\ NothingSilent'
      BY <2>1, RelayKept DEF database
    <2>3. BoundsOK'
      BY <2>1, TelemetryAssumption DEF TypesOK, BoundsOK
    <2>4. CallsOK' /\ WorkerOK' /\ DatabaseOK'
      BY <2>1, IdleType DEF CallsOK, WorkerOK, TypesOK, DatabaseOK, database
    <2>5. StoredOnce'
      BY <2>1 DEF StoredOnce, Idle, database
    <2> QED BY <2>2, <2>3, <2>4, <2>5 DEF TypesOK
  <1> QED BY <1>1, <1>2

\* A call begins: it acknowledges what is stored, or nothing.
LEMMA AskStep ==
  ASSUME TelemetryInv,
         Connect \/ \E t \in Threads : Ask(t, "heartbeat") \/ Ask(t, "poll")
  PROVE  TelemetryInv'
  <1> USE DEF TelemetryInv
  <1>1. UNCHANGED <<relay, owner, telemetry_ack, database, bounds>>
    BY DEF Connect, Ask
  <1>2. RelayOK' /\ NothingSilent' /\ WorkerOK' /\ BoundsOK'
    BY <1>1, RelayKept DEF TypesOK, WorkerOK, BoundsOK, relay, bounds, database
  <1>3. PICK t \in Threads, c \in Call :
            /\ calls' = [calls EXCEPT ![t] = c]
            /\ c.at \in {"heartbeat", "poll", "stored"} => c.events \subseteq store
    <2>1. CASE Connect
      <3> DEFINE c == [Idle EXCEPT !.at = "connect", !.connecting = TRUE]
      <3>1. c \in Call /\ c.at = "connect"
        <4>1. 0 \in 0..MaxRestarts /\ {} \in SUBSET Event
          BY TelemetryAssumption
        <4> QED BY <4>1 DEF Idle, Call
      <3>2. calls' = [calls EXCEPT !["run"] = c] /\ "run" \in Threads
        BY <2>1 DEF Connect, Threads
      <3> HIDE DEF c
      <3> QED BY <3>1, <3>2
    <2>2. ASSUME NEW t \in Threads, NEW what \in {"heartbeat", "poll"}, Ask(t, what)
          PROVE  \E u \in Threads, c \in Call :
                    /\ calls' = [calls EXCEPT ![u] = c]
                    /\ c.at \in {"heartbeat", "poll", "stored"} => c.events \subseteq store
      <3> DEFINE c == [Idle EXCEPT !.at = what, !.life = owner, !.current = TRUE,
                                   !.events = telemetry_ack]
      <3>1. owner \in 0..MaxRestarts /\ telemetry_ack \in SUBSET Event
        BY <2>2 DEF Ask, TypesOK, WorkerOK
      <3>2. c \in Call /\ c.events = telemetry_ack
        BY <3>1 DEF Idle, Call
      <3>3. calls' = [calls EXCEPT ![t] = c]
        BY <2>2 DEF Ask
      <3> HIDE DEF c
      <3> QED BY <3>2, <3>3 DEF StoredOnce
    <2> QED BY <2>1, <2>2
  <1>4. CallsOK' /\ DatabaseOK' /\ StoredOnce'
    BY <1>1, <1>3, CallMoves
  <1> QED BY <1>2, <1>4 DEF TypesOK

\* The relay answers, and forgets only what a call acknowledged, which is stored.
LEMMA AnswerStep ==
  ASSUME TelemetryInv, NEW t \in Threads,
         ConnectAnswered(t) \/ HeartbeatAnswered(t) \/ PollArrives(t) \/ PollAnswered(t)
  PROVE  TelemetryInv'
  <1> USE DEF TelemetryInv
  <1>1. /\ UNCHANGED <<emitted, life, forgotten, owner, telemetry_ack, store, metrics, faults, restarts>>
        /\ \/ buffer' = buffer
           \/ buffer' = Unacknowledged(calls[t].events) /\ calls[t].at \in {"heartbeat", "poll"}
    <2>1. CASE ConnectAnswered(t) \/ PollAnswered(t)
      BY <2>1 DEF ConnectAnswered, PollAnswered, relay, database, bounds
    <2>2. CASE HeartbeatAnswered(t) \/ PollArrives(t)
      BY <2>2 DEF HeartbeatAnswered, PollArrives, database, bounds
    <2> QED BY <2>1, <2>2
  <1>2. calls[t].at \in {"heartbeat", "poll"} => calls[t].events \subseteq store
    BY DEF StoredOnce
  <1>3. RelayOK' /\ NothingSilent'
    <2>1. CASE buffer' = buffer
      BY <1>1, <2>1, RelayKept DEF relay
    <2>2. CASE buffer' = Unacknowledged(calls[t].events) /\ calls[t].at \in {"heartbeat", "poll"}
      <3>1. RelayOK' /\ Elements(buffer') = Elements(buffer) \ calls[t].events
        BY <1>1, <2>2, AcknowledgeFacts DEF TypesOK
      <3> QED BY <1>1, <1>2, <2>2, <3>1, StaysCovered DEF TypesOK
    <2> QED BY <1>1, <2>1, <2>2
  <1>4. WorkerOK' /\ BoundsOK'
    BY <1>1 DEF TypesOK, WorkerOK, BoundsOK
  <1>5. PICK c \in Call : /\ calls' = [calls EXCEPT ![t] = c]
                         /\ c.at \notin {"heartbeat", "poll", "stored"}
    <2>1. calls[t] \in Call
      BY DEF TypesOK, CallsOK
    <2>2. ASSUME NEW events \in SUBSET Event, Answer(t, events)
          PROVE  \E c \in Call : /\ calls' = [calls EXCEPT ![t] = c]
                                 /\ c.at \notin {"heartbeat", "poll", "stored"}
      <3> DEFINE c == [calls[t] EXCEPT !.at = "answered", !.life = life, !.events = events]
      <3>1. c \in Call /\ c.at = "answered"
        BY <2>1 DEF Call, TypesOK, BoundsOK
      <3>2. calls' = [calls EXCEPT ![t] = c]
        BY <2>2, AnswerType
      <3> HIDE DEF c
      <3> QED BY <3>1, <3>2
    <2>3. Batch(buffer) \in SUBSET Event /\ Batch(buffer') \in SUBSET Event
      BY <1>3, BatchType DEF TypesOK, RelayOK
    <2>4. CASE PollArrives(t)
      <3> DEFINE c == [calls[t] EXCEPT !.at = "waiting", !.events = {}]
      <3>1. c \in Call /\ c.at = "waiting"
        BY <2>1 DEF Call
      <3>2. calls' = [calls EXCEPT ![t] = c]
        BY <2>4 DEF PollArrives, TypesOK, CallsOK
      <3> HIDE DEF c
      <3> QED BY <3>1, <3>2
    <2>5. CASE calls' = [calls EXCEPT ![t] = Idle]
      <3>1. Idle \in Call /\ Idle.at = "idle"
        BY IdleType DEF Idle
      <3> QED BY <2>5, <3>1
    <2> QED BY <2>2, <2>3, <2>4, <2>5
            DEF ConnectAnswered, HeartbeatAnswered, PollAnswered
  <1>6. CallsOK' /\ DatabaseOK' /\ StoredOnce'
    BY <1>1, <1>5, CallMoves DEF database
  <1> QED BY <1>3, <1>4, <1>6 DEF TypesOK

\* A call fails.
LEMMA ClearStep ==
  ASSUME TelemetryInv, NEW t \in Threads, Refused(t) \/ Lost(t)
  PROVE  TelemetryInv'
  <1> USE DEF TelemetryInv
  <1>1. Clear(t) /\ faults' \in 0..MaxFaults
    BY TelemetryAssumption DEF Refused, Lost, TypesOK, BoundsOK
  <1>2. /\ CallsOK' /\ WorkerOK' /\ calls'[t] = Idle
        /\ \A u \in Threads \ {t} : calls'[u].at = calls[u].at /\ calls'[u].events = calls[u].events
        /\ UNCHANGED <<relay, telemetry_ack, database, restarts>>
    BY <1>1, ClearFacts
  <1>3. RelayOK' /\ NothingSilent'
    BY <1>2, RelayKept DEF database
  <1>4. BoundsOK' /\ DatabaseOK'
    BY <1>1, <1>2 DEF TypesOK, BoundsOK, DatabaseOK, relay, database
  <1>5. StoredOnce'
    BY <1>2 DEF StoredOnce, Idle, database
  <1> QED BY <1>2, <1>3, <1>4, <1>5 DEF TypesOK

\* What was answered is stored, each event once.
LEMMA InsertStep ==
  ASSUME TelemetryInv, NEW t \in Threads, Insert(t)
  PROVE  TelemetryInv'
  <1> USE DEF TelemetryInv
  <1> DEFINE c == [calls[t] EXCEPT !.at = "stored"]
  <1>1. /\ UNCHANGED <<relay, owner, telemetry_ack, bounds>>
        /\ calls' = [calls EXCEPT ![t] = c]
        /\ store' = store \cup calls[t].events
        /\ metrics' = [x \in store' |-> IF x \in store THEN metrics[x] ELSE 1]
    BY DEF Insert, TypesOK, CallsOK
  <1>2. calls[t] \in Call /\ c \in Call /\ c.events = calls[t].events
        /\ calls[t].events \subseteq Event
    BY DEF TypesOK, CallsOK, Call
  <1> HIDE DEF c
  <1>3. RelayOK' /\ NothingSilent'
    BY <1>1, RelayKept
  <1>4. CallsOK' /\ WorkerOK' /\ BoundsOK'
    BY <1>1, <1>2 DEF TypesOK, CallsOK, WorkerOK, BoundsOK, relay, bounds
  <1>5. DatabaseOK'
    BY <1>1, <1>2 DEF TypesOK, DatabaseOK
  <1>6. \A u \in Threads : calls'[u] = IF u = t THEN c ELSE calls[u]
    BY <1>1 DEF TypesOK, CallsOK
  <1>7. \A x \in store' : metrics'[x] = 1
    BY <1>1 DEF StoredOnce
  <1>8. \A u \in Threads :
            calls'[u].at \in {"heartbeat", "poll", "stored"} => calls'[u].events \subseteq store'
    BY <1>1, <1>2, <1>6 DEF StoredOnce
  <1>9. telemetry_ack' \subseteq store'
    BY <1>1 DEF StoredOnce
  <1> QED BY <1>3, <1>4, <1>5, <1>7, <1>8, <1>9 DEF TypesOK, StoredOnce

\* A call ends; what it is to acknowledge next is in the database.
LEMMA ReturnStep ==
  ASSUME TelemetryInv, NEW t \in Threads, Stored(t) \/ InsertFails(t)
  PROVE  TelemetryInv'
  <1> USE DEF TelemetryInv
  <1>1. /\ calls[t] \in Call /\ calls[t].life \in 0..MaxRestarts
        /\ calls[t].events \subseteq Event
    BY DEF TypesOK, CallsOK, Call
  <1>2. PICK ack \in SUBSET store : Return(t, ack)
    <2>1. CASE Stored(t)
      BY <2>1 DEF Stored, StoredOnce
    <2>2. CASE InsertFails(t)
      BY <2>2 DEF InsertFails
    <2> QED BY <2>1, <2>2
  <1>3. /\ calls' = [calls EXCEPT ![t] = Idle] /\ UNCHANGED database
        /\ faults' \in 0..MaxFaults
    BY TelemetryAssumption DEF Stored, InsertFails, TypesOK, BoundsOK
  <1>4. UNCHANGED <<relay, restarts>> /\ telemetry_ack' = ack
        /\ owner' \in 0..MaxRestarts \cup {None}
    BY <1>1, <1>2 DEF Return, TypesOK, WorkerOK
  <1>5. RelayOK' /\ NothingSilent'
    BY <1>3, <1>4, RelayKept DEF database
  <1>6. CallsOK' /\ WorkerOK' /\ BoundsOK' /\ DatabaseOK'
    BY <1>3, <1>4, IdleType
       DEF TypesOK, CallsOK, WorkerOK, BoundsOK, DatabaseOK, relay, database
  <1>7. \A u \in Threads : calls'[u] = IF u = t THEN Idle ELSE calls[u]
    BY <1>3 DEF TypesOK, CallsOK
  <1>8. StoredOnce'
    BY <1>3, <1>4, <1>7 DEF StoredOnce, Idle, database
  <1> QED BY <1>5, <1>6, <1>8 DEF TypesOK

LEMMA TelemetryInitInv == TelemetryInit => TelemetryInv
  <1> SUFFICES ASSUME TelemetryInit PROVE TelemetryInv
    OBVIOUS
  <1> USE DEF TelemetryInit
  <1>1. RelayOK
    BY TelemetryAssumption DEF RelayOK
  <1>2. CallsOK /\ WorkerOK
    BY IdleType DEF CallsOK, WorkerOK
  <1>3. DatabaseOK
    BY DEF DatabaseOK
  <1>4. BoundsOK
    BY TelemetryAssumption DEF BoundsOK
  <1>5. StoredOnce
    BY DEF StoredOnce, Idle
  <1>6. NothingSilent
    BY DEF NothingSilent
  <1> QED BY <1>1, <1>2, <1>3, <1>4, <1>5, <1>6 DEF TelemetryInv, TypesOK

LEMMA TelemetryStepInv == TelemetryInv /\ [TelemetryNext]_vars => TelemetryInv'
  <1> SUFFICES ASSUME TelemetryInv, [TelemetryNext]_vars PROVE TelemetryInv'
    OBVIOUS
  <1>1. CASE TelemetryNext
    BY <1>1, EmitStep, RestartStep, AskStep, AnswerStep, ClearStep, InsertStep, ReturnStep
       DEF TelemetryNext, Progress
  <1>2. CASE UNCHANGED vars
    <2>1. UNCHANGED <<emitted, buffer, life, forgotten, calls, owner, telemetry_ack, store,
                      metrics, faults, restarts>>
      BY <1>2 DEF vars, relay, worker, database, bounds
    <2> QED BY <2>1 DEF TelemetryInv, TypesOK, RelayOK, CallsOK, WorkerOK, DatabaseOK,
                        BoundsOK, StoredOnce, NothingSilent
  <1> QED BY <1>1, <1>2

(***************************************************************************)
(* Theorems.                                                               *)
(***************************************************************************)
LEMMA TelemetryAlways == TelemetrySpec => []TelemetryInv
  BY TelemetryInitInv, TelemetryStepInv, PTL DEF TelemetrySpec

\* The variables keep their types, and the buffer its bound.
THEOREM TelemetryTyped == TelemetrySpec => []TelemetryTypeOK
  <1>1. TelemetryInv => TelemetryTypeOK
    BY TypeParts DEF TelemetryInv
  <1> QED BY <1>1, TelemetryAlways, PTL

\* Nothing is acknowledged before it is stored, and nothing is counted twice.
THEOREM PersistedFirst == TelemetrySpec => []StoredOnce
  <1>1. TelemetryInv => StoredOnce
    BY DEF TelemetryInv
  <1> QED BY <1>1, TelemetryAlways, PTL

\* Every event is stored, waits or is reported as lost, unless a relay took it with it.
THEOREM NoSilentLoss == TelemetrySpec => []NothingSilent
  <1>1. TelemetryInv => NothingSilent
    BY DEF TelemetryInv
  <1> QED BY <1>1, TelemetryAlways, PTL

----------------------------------------------------------------------------
(* CoreController.tla: what a stop achieves.                                 *)

USE ControllerAssumption

\* The stages of a call that holds the lock, and those of a stop among them.
Stopping == {"asking", "waiting", "terminating"}
Inside   == Stopping \cup {"looking", "readying", "spawned"}

\* The lock is held by the one command that is inside a call.
Locked == \A c \in Commands : at[c] \in Inside <=> lock = c

\* A command that has not returned has calls to make; one that only stops is never
\* inside a start, and has no process before it is inside its stop.
CallsLeft == \A c \in Commands :
    /\ at[c] \notin {"idle", "done"} => todo[c] # <<>>
    /\ at[c] \in {"looking", "readying", "spawned"} => todo[c] = <<"start">>
    /\ given[c] \in {"stop", "close"} => todo[c] \in {<<>>, <<"stop">>}
    /\ at[c] = "idle" => took[c] = Nobody
    /\ at[c] = "entering" /\ given[c] \in {"stop", "close"} => took[c] = Nobody

\* The process of the controller, and the one a stop works on, was started and not killed.
Stoppable(w) == w \in Workers /\ workers[w] \notin {"unborn", "killed"}

Owned ==
    /\ process # Nobody => Stoppable(process)
    /\ \A c \in Commands : at[c] \in Stopping => Stoppable(took[c])

CoreInv == CoreTypeOK /\ Locked /\ CallsLeft /\ Owned /\ StopIsFinal

Todos == {<<>>, <<"start">>, <<"stop">>, <<"stop", "start">>}

LEMMA TodoFacts ==
  \A q \in Todos : q # <<>> =>
     /\ Tail(q) \in Todos
     /\ Len(q) = 1 => Tail(q) = <<>>
     /\ Len(q) # 1 => q = <<"stop", "start">> /\ Tail(q) = <<"start">>
     /\ Head(q) = "start" => q = <<"start">>
     /\ q = <<"stop">> => Len(q) = 1
     /\ q = <<"start">> => Len(q) = 1
  <1>1. ASSUME NEW x PROVE Len(<<x>>) = 1 /\ Tail(<<x>>) = <<>> /\ Head(<<x>>) = x
    OBVIOUS
  <1>2. /\ Len(<<"stop", "start">>) = 2 /\ Head(<<"stop", "start">>) = "stop"
        /\ Tail(<<"stop", "start">>) = <<"start">>
    OBVIOUS
  <1>3. <<"stop", "start">> # <<"stop">> /\ <<"stop", "start">> # <<"start">>
    BY <1>1, <1>2
  <1>4. SUFFICES ASSUME NEW q \in Todos, q # <<>>
                 PROVE  /\ Tail(q) \in Todos
                        /\ Len(q) = 1 => Tail(q) = <<>>
                        /\ Len(q) # 1 => q = <<"stop", "start">> /\ Tail(q) = <<"start">>
                        /\ Head(q) = "start" => q = <<"start">>
                        /\ q = <<"stop">> => Len(q) = 1
                        /\ q = <<"start">> => Len(q) = 1
    OBVIOUS
  <1>5. CASE q = <<"start">>
    BY <1>1, <1>5 DEF Todos
  <1>6. CASE q = <<"stop">>
    BY <1>1, <1>6 DEF Todos
  <1>7. CASE q = <<"stop", "start">>
    BY <1>2, <1>3, <1>7 DEF Todos
  <1> QED BY <1>4, <1>5, <1>6, <1>7 DEF Todos

LEMMA CallsFacts ==
  /\ DOMAIN Calls = {"start", "stop", "restart", "close"}
  /\ \A what \in DOMAIN Calls :
        /\ Calls[what] \in Todos /\ Calls[what] # <<>>
        /\ what \in {"stop", "close"} => Calls[what] = <<"stop">>
  BY DEF Calls, Todos

LEMMA CoreInitInv == CoreInit => CoreInv
  <1> SUFFICES ASSUME CoreInit PROVE CoreInv
    OBVIOUS
  <1>1. /\ process = Nobody /\ closing = FALSE /\ lock = Nobody
        /\ \A c \in Commands : at[c] = "idle" /\ took[c] = Nobody /\ given[c] = "none"
    BY DEF CoreInit
  <1>2. CoreTypeOK
    BY DEF CoreInit, CoreTypeOK
  <1>3. Locked /\ Owned /\ StopIsFinal
    BY <1>1 DEF Locked, Owned, StopIsFinal, Inside, Stopping
  <1>4. CallsLeft
    BY <1>1 DEF CallsLeft
  <1> QED BY <1>2, <1>3, <1>4 DEF CoreInv

\* What returning from a call does to the command.
LEMMA ReturnFacts ==
  ASSUME CoreTypeOK, NEW c \in Commands, todo[c] # <<>>, Returns(c)
  PROVE  /\ todo' \in [Commands -> Todos] /\ at'[c] \in {"done", "entering"}
         /\ at' = [at EXCEPT ![c] = at'[c]]
         /\ \A d \in Commands : d # c => todo'[d] = todo[d] /\ at'[d] = at[d]
         /\ at'[c] = "entering" => todo[c] = <<"stop", "start">> /\ todo'[c] = <<"start">>
         /\ at'[c] = "done" => todo'[c] = <<>>
  <1>1. todo[c] \in Todos /\ todo \in [Commands -> Todos]
    BY DEF CoreTypeOK, Todos
  <1>2. todo' = [todo EXCEPT ![c] = Tail(todo[c])]
    BY DEF Returns
  <1>3. Tail(todo[c]) \in Todos
    BY <1>1, TodoFacts
  <1>4. /\ todo' \in [Commands -> Todos] /\ todo'[c] = Tail(todo[c])
        /\ \A d \in Commands : d # c => todo'[d] = todo[d]
    BY <1>1, <1>2, <1>3
  <1>5. /\ at'[c] = IF Len(todo[c]) = 1 THEN "done" ELSE "entering"
        /\ at' = [at EXCEPT ![c] = at'[c]]
        /\ \A d \in Commands : d # c => at'[d] = at[d]
    BY DEF Returns, Goes, CoreTypeOK
  <1> QED BY <1>1, <1>4, <1>5, TodoFacts

\* A command changes places without returning; it may take or make a process.
LEMMA PlaceKeeps ==
  ASSUME CoreInv, NEW c \in Commands, NEW place, Goes(c, place), UNCHANGED <<closing, todo, watches, given>>,
         at[c] \notin {"idle", "done"}, place \in Inside,
         place \in {"looking", "readying", "spawned"} => todo[c] = <<"start">>,
         lock' = c, lock = c \/ lock = Nobody,
         took' \in {took, [took EXCEPT ![c] = process']}, process' \in Workers \cup {Nobody},
         process' # Nobody => Stoppable(process)',
         place \in Stopping => Stoppable(took[c])',
         \A w \in Workers : workers'[w] = workers[w] \/ (Stoppable(w)' /\ workers[w] \notin {"killed", "dead"}),
         workers' \in [Workers -> {"unborn", "up", "asked", "terminated", "killed", "dead"}]
  PROVE  CoreInv'
  <1>1. /\ at'[c] = place /\ \A d \in Commands : d # c => at'[d] = at[d]
        /\ \A d \in Commands : d # c => took'[d] = took[d]
        /\ at' = [at EXCEPT ![c] = place]
    BY DEF Goes, CoreInv, CoreTypeOK
  <1>2. CoreTypeOK'
    BY <1>1 DEF CoreInv, CoreTypeOK, Inside, Stopping, watches
  <1>3. Locked'
    BY <1>1 DEF CoreInv, Locked
  <1>4. CallsLeft'
    BY <1>1 DEF CoreInv, CallsLeft, Inside, Stopping
  <1>5. Owned'
    <2>1. \A d \in Commands : d # c => at[d] \notin Stopping
      BY DEF CoreInv, Locked, Inside
    <2> QED BY <1>1, <2>1 DEF Owned
  <1>6. StopIsFinal'
    <2>1. ASSUME NEW d \in Commands, at'[d] = "done", given'[d] \in {"stop", "close"},
                 took'[d] # Nobody
          PROVE  workers'[took'[d]] \in {"killed", "dead"}
      <3>1. d # c /\ at[d] = "done" /\ took'[d] = took[d] /\ given[d] \in {"stop", "close"}
        BY <1>1, <2>1 DEF Inside, Stopping
      <3>2. workers[took[d]] \in {"killed", "dead"} /\ took[d] \in Workers
        BY <2>1, <3>1 DEF CoreInv, StopIsFinal, CoreTypeOK
      <3> QED BY <3>1, <3>2
    <2> QED BY <2>1 DEF StopIsFinal
  <1> QED BY <1>2, <1>3, <1>4, <1>5, <1>6 DEF CoreInv

\* What holds of the step with which a command returns from a call.
ReturnHolds(c) ==
    /\ took' \in {took, [took EXCEPT ![c] = Nobody]}
    /\ watch' \in [Workers -> {"none", "born", "watching", "ended", "clearing", "over"}]
    /\ sees' \in [Workers -> Workers \cup {Nobody}]
    /\ at[c] \in Inside \/ (at[c] = "entering" /\ lock = Nobody)
    /\ lock' = Nobody
    /\ process' \in {process, Nobody}
    /\ process' # Nobody => workers' = workers
    /\ at[c] \in Stopping => workers'[took[c]] \in {"killed", "dead"}
    /\ \A w \in Workers : \/ workers'[w] = workers[w]
                          \/ workers[w] # "dead" /\ workers'[w] = "killed"
    /\ workers' \in [Workers -> {"unborn", "up", "asked", "terminated", "killed", "dead"}]

\* A call returns: it leaves the lock free, and what it stopped ended or killed.
LEMMA ReturnKeeps ==
  ASSUME CoreInv, NEW c \in Commands, Returns(c), UNCHANGED <<closing, given>>,
         ReturnHolds(c)
  PROVE  CoreInv'
  <1> USE DEF ReturnHolds
  <1>0. /\ todo[c] # <<>> /\ CoreTypeOK /\ at[c] \in Inside \cup {"entering"}
        /\ at \in [Commands -> {"idle", "entering", "looking", "readying", "spawned", "asking", "waiting",
                                "terminating", "done"}]
    BY DEF CoreInv, CallsLeft, Inside, Stopping, CoreTypeOK
  <1>1. /\ todo' \in [Commands -> Todos] /\ at'[c] \in {"done", "entering"}
        /\ at' = [at EXCEPT ![c] = at'[c]]
        /\ \A d \in Commands : d # c => todo'[d] = todo[d] /\ at'[d] = at[d]
        /\ at'[c] = "entering" => todo[c] = <<"stop", "start">> /\ todo'[c] = <<"start">>
        /\ at'[c] = "done" => todo'[c] = <<>>
    BY <1>0, ReturnFacts
  <1>t. /\ took' \in [Commands -> Workers \cup {Nobody}]
        /\ \A d \in Commands : took'[d] \in {took[d], Nobody} /\ (d # c => took'[d] = took[d])
    BY <1>0 DEF CoreTypeOK
  <1>2. CoreTypeOK'
    <2>1. at' \in [Commands -> {"idle", "entering", "looking", "readying", "spawned", "asking", "waiting",
                                "terminating", "done"}]
      BY <1>0, <1>1
    <2> QED BY <1>0, <1>1, <1>t, <2>1 DEF CoreTypeOK, Todos
  <1>3. Locked'
    BY <1>1 DEF CoreInv, CoreTypeOK, Locked, Inside, Stopping
  <1>4. CallsLeft'
    <2>1. ASSUME at'[c] = "entering" PROVE given[c] \notin {"stop", "close"}
      <3>1. todo[c] = <<"stop", "start">>
        BY <1>1, <2>1
      <3>2. <<"stop", "start">> # <<>> /\ <<"stop", "start">> # <<"stop">>
        OBVIOUS
      <3> QED BY <3>1, <3>2 DEF CoreInv, CallsLeft
    <2>2. <<"start">> # <<>>
      OBVIOUS
    <2>3. ASSUME NEW d \in Commands
          PROVE  /\ at'[d] \notin {"idle", "done"} => todo'[d] # <<>>
                 /\ at'[d] \in {"looking", "readying", "spawned"} => todo'[d] = <<"start">>
                 /\ given'[d] \in {"stop", "close"} => todo'[d] \in {<<>>, <<"stop">>}
                 /\ at'[d] = "idle" => took'[d] = Nobody
                 /\ at'[d] = "entering" /\ given'[d] \in {"stop", "close"} => took'[d] = Nobody
      <3>1. CASE d = c
        BY <1>1, <1>t, <2>1, <2>2, <3>1
      <3>2. CASE d # c
        <4>1. /\ at'[d] = at[d] /\ todo'[d] = todo[d] /\ given'[d] = given[d] /\ took'[d] = took[d]
          BY <1>1, <1>t, <3>2
        <4> QED BY <4>1 DEF CoreInv, CallsLeft
      <3> QED BY <3>1, <3>2
    <2> QED BY <2>3 DEF CallsLeft
  <1>5. Owned'
    <2>1. \A d \in Commands : at'[d] \notin Stopping
      BY <1>1 DEF CoreInv, Locked, Inside, Stopping, CoreTypeOK
    <2>2. process' # Nobody => Stoppable(process)'
      BY DEF CoreInv, Owned, Stoppable
    <2> QED BY <2>1, <2>2 DEF Owned
  <1>6. StopIsFinal'
    <2>1. ASSUME NEW d \in Commands, at'[d] = "done", given'[d] \in {"stop", "close"},
                 took'[d] # Nobody
          PROVE  workers'[took'[d]] \in {"killed", "dead"}
      <3>1. CASE d = c
        <4>1. at[c] \notin {"entering", "looking", "readying", "spawned"}
          <5>1. <<"start">> # <<>> /\ <<"start">> # <<"stop">>
            OBVIOUS
          <5> QED BY <1>t, <2>1, <3>1, <5>1 DEF CoreInv, CallsLeft
        <4> QED BY <1>0, <1>t, <2>1, <3>1, <4>1 DEF Inside
      <3>2. CASE d # c
        <4>1. at[d] = "done" /\ took'[d] = took[d] /\ given[d] \in {"stop", "close"}
          BY <1>1, <1>t, <2>1, <3>2
        <4>2. workers[took[d]] \in {"killed", "dead"} /\ took[d] \in Workers
          BY <2>1, <4>1 DEF CoreInv, StopIsFinal, CoreTypeOK
        <4> QED BY <4>1, <4>2
      <3> QED BY <3>1, <3>2
    <2> QED BY <2>1 DEF StopIsFinal
  <1> QED BY <1>2, <1>3, <1>4, <1>5, <1>6 DEF CoreInv

\* The watch threads and the deaths of workers disturb no command.
LEMMA OutsideKeeps ==
  ASSUME CoreInv, UNCHANGED <<closing, lock, threads, given>>,
         process' \in {process, Nobody},
         \A w \in Workers : workers'[w] = workers[w] \/ workers'[w] = "dead",
         workers' \in [Workers -> {"unborn", "up", "asked", "terminated", "killed", "dead"}],
         watch' \in [Workers -> {"none", "born", "watching", "ended", "clearing", "over"}],
         sees' \in [Workers -> Workers \cup {Nobody}]
  PROVE  CoreInv'
  <1>0. UNCHANGED <<todo, at, took, given, lock>>
    BY DEF threads
  <1>1. CoreTypeOK'
    BY <1>0 DEF CoreInv, CoreTypeOK
  <1>2. Locked' /\ CallsLeft'
    BY <1>0 DEF CoreInv, Locked, CallsLeft
  <1>3. Owned'
    BY <1>0 DEF CoreInv, Owned, Stoppable
  <1>4. StopIsFinal'
    BY <1>0 DEF CoreInv, StopIsFinal, CoreTypeOK
  <1> QED BY <1>1, <1>2, <1>3, <1>4 DEF CoreInv

LEMMA CommandKeeps ==
  ASSUME CoreInv, NEW c \in Commands, NEW what \in DOMAIN Calls, Command(c, what)
  PROVE  CoreInv'
  <1>0. /\ at[c] = "idle" /\ CoreTypeOK /\ took[c] = Nobody
        /\ UNCHANGED <<process, workers, lock, took, watch, sees>>
    BY DEF Command, CoreInv, CallsLeft, watches
  <1>1. /\ at'[c] = "entering" /\ todo'[c] = Calls[what] /\ given'[c] = what
        /\ \A d \in Commands : d # c => at'[d] = at[d] /\ todo'[d] = todo[d] /\ given'[d] = given[d]
    BY <1>0 DEF Command, Goes, CoreTypeOK
  <1>2. CoreTypeOK'
    <2>1. /\ at' \in [Commands -> {"idle", "entering", "looking", "readying", "spawned", "asking", "waiting",
                                   "terminating", "done"}]
          /\ given' \in [Commands -> DOMAIN Calls \cup {"none"}] /\ closing' \in BOOLEAN
      BY <1>0 DEF Command, Goes, CoreTypeOK
    <2>2. todo' \in [Commands -> {<<>>, <<"start">>, <<"stop">>, <<"stop", "start">>}]
      BY <1>0, CallsFacts DEF Command, CoreTypeOK, Todos
    <2> QED BY <1>0, <2>1, <2>2 DEF CoreTypeOK
  <1>3. Locked' /\ Owned' /\ StopIsFinal'
    BY <1>0, <1>1 DEF CoreInv, Locked, Owned, StopIsFinal, Stoppable, Inside, Stopping
  <1>4. CallsLeft'
    <2>1. Calls[what] # <<>> /\ (what \in {"stop", "close"} => Calls[what] = <<"stop">>)
      BY CallsFacts
    <2>2. ASSUME NEW d \in Commands
          PROVE  /\ at'[d] \notin {"idle", "done"} => todo'[d] # <<>>
                 /\ at'[d] \in {"looking", "readying", "spawned"} => todo'[d] = <<"start">>
                 /\ given'[d] \in {"stop", "close"} => todo'[d] \in {<<>>, <<"stop">>}
                 /\ at'[d] = "idle" => took'[d] = Nobody
                 /\ at'[d] = "entering" /\ given'[d] \in {"stop", "close"} => took'[d] = Nobody
      <3>1. CASE d = c
        BY <1>0, <1>1, <2>1, <3>1
      <3>2. CASE d # c
        <4>1. /\ at'[d] = at[d] /\ todo'[d] = todo[d] /\ given'[d] = given[d] /\ took'[d] = took[d]
          BY <1>0, <1>1, <3>2
        <4> QED BY <4>1 DEF CoreInv, CallsLeft
      <3> QED BY <3>1, <3>2
    <2> QED BY <2>2 DEF CallsLeft
  <1> QED BY <1>2, <1>3, <1>4 DEF CoreInv

LEMMA EntersFacts ==
  ASSUME CoreInv, NEW c \in Commands, NEW call, Enters(c, call)
  PROVE  /\ at[c] = "entering" /\ lock = Nobody /\ todo[c] # <<>>
         /\ call = "start" => todo[c] = <<"start">>
  <1>1. at[c] = "entering" /\ lock = Nobody /\ Head(todo[c]) = call
    BY DEF Enters
  <1>2. todo[c] # <<>> /\ todo[c] \in Todos
    BY <1>1 DEF CoreInv, CallsLeft, CoreTypeOK, Todos
  <1> QED BY <1>1, <1>2, TodoFacts

\* Nothing of the workers but the condition of one changes.
LEMMA BecomesFacts ==
  ASSUME CoreTypeOK, NEW w \in Workers, NEW condition \in {"up", "asked", "terminated", "killed", "dead"},
         Becomes(w, condition)
  PROVE  /\ workers' \in [Workers -> {"unborn", "up", "asked", "terminated", "killed", "dead"}]
         /\ workers'[w] = condition /\ \A v \in Workers : v # w => workers'[v] = workers[v]
  BY DEF Becomes, CoreTypeOK

LEMMA StartKeeps ==
  ASSUME CoreInv, NEW c \in Commands,
         \/ StartLooks(c) \/ StartRefused(c) \/ StartBegins(c) \/ StartFails(c)
         \/ \E w \in Workers : Spawn(c, w)
         \/ Monitor(c) \/ MonitorFails(c)
  PROVE  CoreInv'
  <1>0. CoreTypeOK /\ Owned /\ Locked
    BY DEF CoreInv
  <1>1. CASE StartLooks(c)
    <2>1. /\ at[c] = "entering" /\ lock = Nobody /\ lock' = c /\ Goes(c, "looking")
          /\ todo[c] = <<"start">>
      BY <1>1, EntersFacts DEF StartLooks
    <2>2. UNCHANGED <<process, workers, closing, todo, took, watches, given>>
      BY <1>1 DEF StartLooks
    <2> QED BY <1>0, <2>1, <2>2, PlaceKeeps DEF CoreTypeOK, Owned, Stoppable, Inside, Stopping
  <1>2. CASE StartRefused(c)
    <2>1. /\ at[c] = "looking" /\ Returns(c) /\ lock' = Nobody
          /\ UNCHANGED <<process, workers, closing, took, watch, sees, given>>
      BY <1>2 DEF StartRefused, watches
    <2>2. at[c] \in Inside /\ at[c] \notin Stopping
      BY <2>1 DEF Inside, Stopping
    <2>3. ReturnHolds(c)
      BY <1>0, <2>1, <2>2 DEF ReturnHolds, CoreTypeOK
    <2> QED BY <2>1, <2>3, ReturnKeeps
  <1>r. CASE StartBegins(c)
    <2>1. /\ lock' = c /\ Goes(c, "readying")
          /\ UNCHANGED <<process, workers, closing, todo, took, watches, given>>
      BY <1>r DEF StartBegins
    <2>2. /\ at[c] \in {"entering", "looking"} /\ todo[c] = <<"start">>
          /\ lock = Nobody \/ lock = c
      <3>1. CASE Enters(c, "start")
        BY <3>1, EntersFacts
      <3>2. CASE at[c] = "looking"
        BY <3>2 DEF CoreInv, CallsLeft, Locked, Inside
      <3> QED BY <1>r, <3>1, <3>2 DEF StartBegins
    <2> QED BY <1>0, <2>1, <2>2, PlaceKeeps DEF CoreTypeOK, Owned, Stoppable, Inside, Stopping
  <1>3. CASE StartFails(c)
    <2>1. /\ at[c] = "readying" /\ Returns(c) /\ process' = Nobody /\ lock' = Nobody
          /\ UNCHANGED <<workers, closing, took, watch, sees, given>>
      BY <1>3 DEF StartFails, ClearProcess, watches
    <2>2. at[c] \in Inside /\ at[c] \notin Stopping
      BY <2>1 DEF Inside, Stopping
    <2>3. ReturnHolds(c)
      BY <1>0, <2>1, <2>2 DEF ReturnHolds, CoreTypeOK
    <2> QED BY <2>1, <2>3, ReturnKeeps
  <1>4. ASSUME NEW w \in Workers, Spawn(c, w) PROVE CoreInv'
    <2>1. /\ at[c] = "readying" /\ workers[w] = "unborn" /\ Becomes(w, "up") /\ process' = w
          /\ took' = [took EXCEPT ![c] = w] /\ Goes(c, "spawned")
          /\ UNCHANGED <<closing, lock, todo, watches, given>>
      BY <1>4 DEF Spawn
    <2>2. /\ workers' \in [Workers -> {"unborn", "up", "asked", "terminated", "killed", "dead"}]
          /\ workers'[w] = "up" /\ \A v \in Workers : v # w => workers'[v] = workers[v]
      BY <1>0, <2>1, BecomesFacts
    <2>3. lock = c /\ todo[c] = <<"start">>
      BY <2>1 DEF CoreInv, Locked, CallsLeft, Inside
    <2> QED BY <2>1, <2>2, <2>3, PlaceKeeps DEF Stoppable, Inside, Stopping
  <1>5. CASE Monitor(c)
    <2>1. /\ at[c] = "spawned" /\ Returns(c) /\ lock' = Nobody
          /\ UNCHANGED <<process, workers, closing, took, sees, given>>
          /\ watch' = [watch EXCEPT ![took[c]] = "born"]
      BY <1>5 DEF Monitor
    <2>2. watch' \in [Workers -> {"none", "born", "watching", "ended", "clearing", "over"}]
      BY <1>0, <2>1 DEF CoreTypeOK
    <2>3. at[c] \in Inside /\ at[c] \notin Stopping
      BY <2>1 DEF Inside, Stopping
    <2>4. ReturnHolds(c)
      BY <1>0, <2>1, <2>2, <2>3 DEF ReturnHolds, CoreTypeOK
    <2> QED BY <2>1, <2>4, ReturnKeeps
  <1>6. CASE MonitorFails(c)
    <2>1. /\ at[c] = "spawned" /\ took' = [took EXCEPT ![c] = process]
          /\ UNCHANGED <<workers, closing, watch, sees, watches, given>>
      BY <1>6 DEF MonitorFails, watches
    <2>2. CASE process = Nobody
      <3>1. ClearProcess(c)
        BY <1>6, <2>2 DEF MonitorFails
      <3>2. Returns(c) /\ process' = Nobody /\ lock' = Nobody
        BY <3>1 DEF ClearProcess
      <3>3. at[c] \in Inside /\ at[c] \notin Stopping
        BY <2>1 DEF Inside, Stopping
      <3>4. took' = [took EXCEPT ![c] = Nobody]
        BY <2>1, <2>2
      <3>5. ReturnHolds(c)
        BY <1>0, <2>1, <3>2, <3>3, <3>4 DEF ReturnHolds, CoreTypeOK
      <3> QED BY <2>1, <3>2, <3>5, ReturnKeeps
    <2>3. CASE process # Nobody
      <3>1. Goes(c, "asking") /\ UNCHANGED <<process, lock, todo>>
        BY <1>6, <2>3 DEF MonitorFails
      <3>2. lock = c /\ Stoppable(process) /\ process \in Workers
        BY <1>0, <2>1, <2>3 DEF Locked, Owned, Inside, Stoppable
      <3>3. took'[c] = process
        BY <1>0, <2>1 DEF CoreTypeOK
      <3>4. Stoppable(took[c])' /\ Stoppable(process)'
        BY <2>1, <3>1, <3>2, <3>3 DEF Stoppable
      <3> QED BY <1>0, <2>1, <3>1, <3>2, <3>4, PlaceKeeps DEF CoreTypeOK, Inside, Stopping
    <2> QED BY <2>2, <2>3
  <1> QED BY <1>1, <1>2, <1>r, <1>3, <1>4, <1>5, <1>6

LEMMA StopBeginsKeeps ==
  ASSUME CoreInv, NEW c \in Commands, StopIdle(c) \/ StopBegins(c)
  PROVE  CoreInv'
  <1>0. CoreTypeOK /\ Owned /\ Locked
    BY DEF CoreInv
  <1>1. CASE StopIdle(c)
    <2>1. Returns(c) /\ at[c] = "entering" /\ lock = Nobody
      BY <1>1, EntersFacts DEF StopIdle
    <2>2. process' = Nobody /\ UNCHANGED <<workers, closing, lock, took, watch, sees, given>>
      BY <1>1 DEF StopIdle, watches
    <2>3. ReturnHolds(c)
      BY <1>0, <2>1, <2>2 DEF ReturnHolds, CoreTypeOK, Stopping
    <2> QED BY <2>1, <2>2, <2>3, ReturnKeeps
  <1>2. CASE StopBegins(c)
    <2>1. /\ at[c] = "entering" /\ lock = Nobody /\ lock' = c /\ Goes(c, "asking")
          /\ process # Nobody /\ took' = [took EXCEPT ![c] = process]
      BY <1>2, EntersFacts DEF StopBegins, Alive
    <2>2. UNCHANGED <<process, workers, closing, todo, watches, given>>
      BY <1>2 DEF StopBegins
    <2>3. Stoppable(process) /\ process \in Workers /\ took'[c] = process
      BY <1>0, <2>1 DEF Owned, Stoppable, CoreTypeOK
    <2>4. Stoppable(took[c])' /\ Stoppable(process)'
      BY <2>2, <2>3 DEF Stoppable
    <2> QED BY <1>0, <2>1, <2>2, <2>3, <2>4, PlaceKeeps DEF CoreTypeOK, Inside, Stopping
  <1> QED BY <1>1, <1>2

\* Under the lock: the process is asked to end, terminated or killed, or has ended.
LEMMA StopOwnedKeeps ==
  ASSUME CoreInv, NEW c \in Commands, AskToStop(c) \/ Ended(c) \/ Terminate(c) \/ Kill(c)
  PROVE  CoreInv'
  <1>0. CoreTypeOK /\ Owned /\ Locked
    BY DEF CoreInv
  <1>1. /\ at[c] \in Stopping /\ lock = c /\ Stoppable(took[c]) /\ took[c] \in Workers
        /\ UNCHANGED <<closing, took, watch, sees, given>>
    <2>1. at[c] \in Stopping
      BY DEF AskToStop, Ended, Terminate, Kill, Stopping
    <2> QED BY <1>0, <2>1 DEF Owned, Locked, Stoppable, Inside,
                              AskToStop, Ended, Terminate, Kill, watches
  <1>5. at[c] \in Inside
    BY <1>1 DEF Inside
  <1>2. CASE AskToStop(c) \/ Terminate(c)
    <2>1. PICK condition \in {"asked", "terminated"} : Becomes(took[c], condition)
      BY <1>0, <1>1, <1>2 DEF AskToStop, Terminate, Alive, Stoppable, CoreTypeOK
    <2>2. /\ workers' \in [Workers -> {"unborn", "up", "asked", "terminated", "killed", "dead"}]
          /\ workers'[took[c]] = condition
          /\ \A v \in Workers : v # took[c] => workers'[v] = workers[v]
      BY <1>0, <1>1, <2>1, BecomesFacts
    <2>3. PICK place \in {"waiting", "terminating"} : Goes(c, place)
      BY <1>2 DEF AskToStop, Terminate
    <2>4. /\ UNCHANGED <<process, lock, todo>> /\ Alive(took[c])
      BY <1>2 DEF AskToStop, Terminate
    <2>5. Stoppable(took[c])' /\ (process' # Nobody => Stoppable(process)')
      BY <1>0, <1>1, <2>2, <2>4 DEF Owned, Stoppable
    <2>6. \A w \in Workers : \/ workers'[w] = workers[w]
                             \/ Stoppable(w)' /\ workers[w] \notin {"killed", "dead"}
      <3>1. workers[took[c]] \notin {"killed", "dead"}
        BY <1>1, <2>4 DEF Stoppable, Alive
      <3> QED BY <1>1, <2>2, <2>5, <3>1
    <2>7. /\ at[c] \notin {"idle", "done"} /\ place \in Inside /\ place \in Stopping
          /\ place \notin {"looking", "readying", "spawned"}
          /\ process' \in Workers \cup {Nobody} /\ UNCHANGED watches /\ took' = took
      BY <1>0, <1>1, <2>3, <2>4 DEF Inside, Stopping, CoreTypeOK, watches
    <2> QED BY <1>1, <2>2, <2>3, <2>4, <2>5, <2>6, <2>7, PlaceKeeps
  <1>3. CASE Ended(c)
    <2>1. Returns(c) /\ process' = Nobody /\ lock' = Nobody /\ workers' = workers /\ ~Alive(took[c])
      BY <1>3 DEF Ended, ClearProcess
    <2>2. workers[took[c]] = "dead"
      BY <1>0, <1>1, <2>1, ControllerAssumption DEF Alive, Stoppable, Workers
    <2>3. ReturnHolds(c)
      BY <1>0, <1>1, <1>5, <2>1, <2>2 DEF ReturnHolds, CoreTypeOK
    <2> QED BY <1>1, <2>1, <2>3, ReturnKeeps
  <1>4. CASE Kill(c)
    <2>1. /\ Returns(c) /\ process' = Nobody /\ lock' = Nobody
          /\ Becomes(took[c], "killed") /\ Alive(took[c])
      BY <1>4 DEF Kill, ClearProcess
    <2>2. /\ workers' \in [Workers -> {"unborn", "up", "asked", "terminated", "killed", "dead"}]
          /\ workers'[took[c]] = "killed"
          /\ \A v \in Workers : v # took[c] => workers'[v] = workers[v]
      BY <1>0, <1>1, <2>1, BecomesFacts
    <2>3. workers[took[c]] # "dead"
      BY <2>1 DEF Alive
    <2>4. ReturnHolds(c)
      BY <1>0, <1>1, <1>5, <2>1, <2>2, <2>3 DEF ReturnHolds, CoreTypeOK
    <2> QED BY <1>1, <2>1, <2>4, ReturnKeeps
  <1> QED BY <1>2, <1>3, <1>4

LEMMA WatchKeeps ==
  ASSUME CoreInv, NEW w \in Workers, WatchStep(w) \/ Dies(w)
  PROVE  CoreInv'
  <1>0. CoreTypeOK
    BY DEF CoreInv
  <1>1. /\ UNCHANGED <<closing, lock, threads, given>> /\ process' \in {process, Nobody}
    BY DEF WatchStep, WatchBegins, WatchEnds, WatchCompares, WatchClears, Dies
  <1>2. /\ workers' \in [Workers -> {"unborn", "up", "asked", "terminated", "killed", "dead"}]
        /\ \A v \in Workers : workers'[v] = workers[v] \/ workers'[v] = "dead"
    <2>1. CASE Dies(w)
      BY <1>0, <2>1, BecomesFacts DEF Dies
    <2>2. CASE WatchStep(w)
      <3>1. workers' = workers
        BY <2>2 DEF WatchStep, WatchBegins, WatchEnds, WatchCompares, WatchClears
      <3> QED BY <1>0, <3>1 DEF CoreTypeOK
    <2> QED BY <2>1, <2>2
  <1>3. /\ watch' \in [Workers -> {"none", "born", "watching", "ended", "clearing", "over"}]
        /\ sees' \in [Workers -> Workers \cup {Nobody}]
    BY <1>0 DEF CoreTypeOK, WatchStep, WatchBegins, WatchEnds, WatchCompares, WatchClears, Dies,
                watches
  <1> QED BY <1>1, <1>2, <1>3, OutsideKeeps

LEMMA CoreStepInv == CoreInv /\ [CoreNext]_coreVars => CoreInv'
  <1> SUFFICES ASSUME CoreInv, [CoreNext]_coreVars PROVE CoreInv'
    OBVIOUS
  <1>1. ASSUME NEW c \in Commands, NEW what \in DOMAIN Calls, Command(c, what) PROVE CoreInv'
    BY <1>1, CommandKeeps
  <1>2. ASSUME NEW c \in Commands, CommandStep(c) PROVE CoreInv'
    BY <1>2, StartKeeps, StopBeginsKeeps, StopOwnedKeeps DEF CommandStep
  <1>3. ASSUME NEW w \in Workers, WatchStep(w) \/ Dies(w) PROVE CoreInv'
    BY <1>3, WatchKeeps
  <1>4. CASE UNCHANGED coreVars
    BY <1>4 DEF coreVars, threads, watches, CoreInv, CoreTypeOK, Locked, CallsLeft, Owned,
                Stoppable, StopIsFinal
  <1> QED BY <1>1, <1>2, <1>3, <1>4 DEF CoreNext

LEMMA CoreAlways == CoreSpec => []CoreInv
  BY CoreInitInv, CoreStepInv, PTL DEF CoreSpec

\* The controller's state keeps its types, for every number of commands and workers.
THEOREM CoreTyped == CoreSpec => []CoreTypeOK
  <1>1. CoreInv => CoreTypeOK
    BY DEF CoreInv
  <1> QED BY <1>1, CoreAlways, PTL

\* What a stop took has ended or was killed when it returns, whatever the watch threads,
\* the other commands and the worker do (_stop_owned_process).
THEOREM StopsEnd == CoreSpec => []StopIsFinal
  <1>1. CoreInv => StopIsFinal
    BY DEF CoreInv
  <1> QED BY <1>1, CoreAlways, PTL


----------------------------------------------------------------------------
(* MCConsole.tla: the two parts side by side.                                *)

LEMMA ConsoleAlways == MCSpec => [](TelemetryInv /\ CoreInv)
  <1>1. MCInit => TelemetryInv /\ CoreInv
    BY TelemetryInitInv, CoreInitInv DEF MCInit
  <1>2. TelemetryInv /\ CoreInv /\ [MCNext]_<<part, vars, coreVars>> => (TelemetryInv /\ CoreInv)'
    BY TelemetryStepInv, CoreStepInv DEF MCNext
  <1> QED BY <1>1, <1>2, PTL DEF MCSpec

\* Both parts keep their types when they run side by side.
THEOREM ConsoleTyped == MCSpec => []PartsTypeOK
  <1>1. TelemetryInv /\ CoreInv => PartsTypeOK
    BY TypeParts DEF TelemetryInv, CoreInv, PartsTypeOK
  <1> QED BY <1>1, ConsoleAlways, PTL
=============================================================================
