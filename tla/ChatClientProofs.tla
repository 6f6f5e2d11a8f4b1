-------------------------- MODULE ChatClientProofs --------------------------
(***************************************************************************)
(* Theorems about ChatClient.tla, for any number of submits, any of them   *)
(* ambiguous, and any length of the history.                               *)
(***************************************************************************)
EXTENDS ChatClient, SequenceTheorems, TLAPS

\* The submits so far are the ones that left the initial state.
Numbered ==
    /\ \A r \in Submits : requests[r].at = "unused" <=> r > sent
    /\ activeRequest # None => activeRequest = sent

\* Only an ended request is complete, and a continuation is that of the last submit.
Issued ==
    /\ \A r \in Submits : requests[r].complete => requests[r].at = "over"
    /\ lookupContinuation # None =>
           /\ lookupContinuation = sent
           /\ requests[lookupContinuation].complete

\* What the history may hold: a finished exchange that said something.
Exchanged(r) ==
    /\ requests[r].complete /\ ~requests[r].aborted
    /\ requests[r].answered \/ cards[r] # "none"

\* Where a coroutine waits.
Running == {"fetch", "read"}

ChatInv ==
    /\ ChatTypeOK /\ Numbered /\ BusyMatches /\ Issued
    /\ ContinuationFresh /\ HistoryFaithful

LEMMA NoneIsNoSubmit == None \notin Submits
  BY ChatAssumption DEF Submits

\* The fields a step may change, one by one.
LEMMA FieldTypes ==
  ASSUME NEW x \in Request, NEW b \in BOOLEAN
  PROVE  /\ [x EXCEPT !.aborted = b] \in Request
         /\ [x EXCEPT !.timedOut = b] \in Request
         /\ [x EXCEPT !.answered = b] \in Request
         /\ [x EXCEPT !.at = "read"] \in Request
         /\ x.aborted \in BOOLEAN /\ x.timedOut \in BOOLEAN /\ x.answered \in BOOLEAN
         /\ x.complete \in BOOLEAN
  BY DEF Request

LEMMA FieldsKept ==
  ASSUME NEW x \in Request, NEW b \in BOOLEAN,
         NEW y \in {[x EXCEPT !.aborted = b], [x EXCEPT !.timedOut = b],
                    [x EXCEPT !.answered = b]}
  PROVE  y.at = x.at /\ y.complete = x.complete /\ y.continuation = x.continuation
  BY DEF Request

LEMMA ChatInitInv == ChatInit => ChatInv
  <1> SUFFICES ASSUME ChatInit PROVE ChatInv
    OBVIOUS
  <1> USE ChatAssumption DEF ChatInit, Submits
  <1>1. Unused \in Request
    BY DEF Unused, Request
  <1>2. ChatTypeOK
    <2>1. history \in Seq(Submits)
      OBVIOUS
    <2>2. cards \in [Submits -> {"none", "shown", "resolved"}] /\ requests \in [Submits -> Request]
      BY <1>1
    <2>3. sent \in 0..MaxSubmits
      OBVIOUS
    <2>4. {apology, lookupContinuation} \subseteq Submits \cup {None}
      OBVIOUS
    <2> QED BY <2>1, <2>2, <2>3, <2>4 DEF ChatTypeOK
  <1>3. Numbered /\ BusyMatches /\ Issued /\ ContinuationFresh /\ HistoryFaithful
    BY DEF Numbered, BusyMatches, Issued, ContinuationFresh, HistoryFaithful, Unused
  <1> QED BY <1>2, <1>3 DEF ChatInv

\* The history stays faithful where it stays and what it names does not change.
LEMMA HistoryStays ==
  ASSUME ChatTypeOK, HistoryFaithful, history' = history,
         \A r \in Submits : Exchanged(r) => Exchanged(r)'
  PROVE  HistoryFaithful'
  <1>1. history \in Seq(Submits)
    BY DEF ChatTypeOK
  <1>2. \A i \in DOMAIN history : history[i] \in Submits
    BY <1>1
  <1>3. \A i \in DOMAIN history : Exchanged(history[i]) => Exchanged(history[i])'
    BY <1>2
  <1> QED BY <1>3 DEF HistoryFaithful, Exchanged

\* So do the continuations where no request gives up its own or its completion.
LEMMA ContinuationStays ==
  ASSUME ContinuationFresh,
         \A r \in Submits : /\ requests'[r].continuation \in {None, requests[r].continuation}
                            /\ requests[r].complete => requests'[r].complete
  PROVE  ContinuationFresh'
  <1> SUFFICES ASSUME NEW r \in Submits, requests'[r].continuation # None
               PROVE  /\ r > 1 /\ requests'[r].continuation = r - 1
                      /\ requests'[r - 1].complete
    BY DEF ContinuationFresh
  <1>1. requests[r].continuation = requests'[r].continuation
    OBVIOUS
  <1>2. r > 1 /\ requests[r].continuation = r - 1 /\ requests[r - 1].complete
    BY <1>1 DEF ContinuationFresh
  <1>3. r - 1 \in Submits
    BY <1>2, ChatAssumption DEF Submits
  <1> QED BY <1>1, <1>2, <1>3

LEMMA DrawerStep == ChatInv /\ (ChatRequest \/ CloseDrawer) => ChatInv'
  BY ChatAssumption DEF ChatRequest, CloseDrawer, ChatInv, ChatTypeOK, Numbered, BusyMatches, Issued,
     ContinuationFresh, HistoryFaithful, composer, kept

LEMMA CancelStep ==
  ASSUME ChatInv, CancelResponse, drawer' \in {"open", "closing", "closed"},
         UNCHANGED <<sent, apology, cards, composer, kept>>
  PROVE  ChatInv'
  <1> USE DEF ChatInv, CancelResponse, composer, kept
  <1>0. activeRequest \in Submits \cup {None}
    BY DEF ChatTypeOK
  <1>1. ASSUME NEW r \in Submits
        PROVE  /\ requests'[r] \in Request
               /\ requests'[r].at = requests[r].at
               /\ requests'[r].complete = requests[r].complete
               /\ requests'[r].answered = requests[r].answered
               /\ requests'[r].continuation = requests[r].continuation
               /\ r # activeRequest => requests'[r].aborted = requests[r].aborted
    <2> DEFINE b == requests[r].aborted \/ r = activeRequest
    <2>1. requests[r] \in Request
      BY DEF ChatTypeOK
    <2>2. requests'[r] = [requests[r] EXCEPT !.aborted = b]
      <3>1. CASE activeRequest = None
        BY <3>1, <2>1, NoneIsNoSubmit DEF Request
      <3>2. CASE activeRequest # None /\ r = activeRequest
        BY <3>2, <2>1 DEF Request, ChatTypeOK
      <3>3. CASE activeRequest # None /\ r # activeRequest
        BY <3>3, <2>1 DEF Request, ChatTypeOK
      <3> QED BY <3>1, <3>2, <3>3
    <2>3. b \in BOOLEAN /\ (r # activeRequest => b = requests[r].aborted)
      BY <2>1, FieldTypes
    <2> HIDE DEF b
    <2>4. requests'[r] \in Request
      BY <2>1, <2>2, <2>3, FieldTypes
    <2> QED BY <2>1, <2>2, <2>3, <2>4 DEF Request
  <1>2. ChatTypeOK'
    BY <1>1 DEF ChatTypeOK
  <1>3. Numbered' /\ BusyMatches'
    BY <1>1 DEF ChatTypeOK, Numbered, BusyMatches
  <1>6. Issued'
    <2>1. lookupContinuation' = lookupContinuation /\ sent' = sent
      OBVIOUS
    <2>2. lookupContinuation # None => lookupContinuation \in Submits
      BY DEF ChatTypeOK
    <2> HIDE DEF CancelResponse
    <2> QED BY <1>1, <2>1, <2>2 DEF Issued
  <1>4. \A r \in Submits : Exchanged(r) => Exchanged(r)'
    BY <1>1, NoneIsNoSubmit DEF BusyMatches, Issued, Exchanged
  <1>5. ContinuationFresh'
    BY <1>1, ContinuationStays
  <1> QED BY <1>2, <1>3, <1>4, <1>5, <1>6, HistoryStays

LEMMA EditStep == \A text \in {Typed, Empty} : ChatInv /\ Edit(text) => ChatInv'
  BY ChatAssumption DEF Edit, ChatInv, ChatTypeOK, Numbered, BusyMatches, Issued,
     ContinuationFresh, HistoryFaithful, kept

LEMMA SelectStep ==
  ASSUME ChatInv, NEW r \in Submits, Select(r) \/ Rephrase(r)
  PROVE  ChatInv'
  <1> USE DEF ChatInv, Select, Rephrase, composer, kept
  <1>1. ChatTypeOK'
    BY DEF ChatTypeOK
  <1>3. Numbered' /\ BusyMatches' /\ Issued'
    <2>1. Numbered'
    BY DEF  Numbered
    <2>2. BusyMatches'
    BY DEF  BusyMatches
    <2>3. Issued'
    BY DEF  Issued
    <2> QED BY <2>1, <2>2, <2>3
  <1>5. ContinuationFresh'
    BY ContinuationStays
  <1>4. \A u \in Submits : Exchanged(u) => Exchanged(u)'
    BY DEF ChatTypeOK, Exchanged
  <1> QED BY <1>1, <1>3, <1>4, <1>5, HistoryStays

LEMMA SendStep ==
  ASSUME ChatInv, Accepted, Send, submitTimer' \in BOOLEAN
  PROVE  ChatInv'
  <1> DEFINE r == sent + 1
  <1> USE DEF ChatInv, Accepted, Send, kept
  <1>1. r \in Submits /\ sent \in Nat /\ sent' = r /\ sent' \in 0..MaxSubmits
    BY ChatAssumption DEF ChatTypeOK, Submits
  <1>2. /\ requests'[r] = [Unused EXCEPT !.at = "fetch", !.text = input,
              !.continuation = lookupContinuation, !.clarification = pendingClarification]
        /\ \A u \in Submits \ {r} : requests'[u] = requests[u]
    BY <1>1 DEF ChatTypeOK
  <1>3. /\ requests'[r] \in Request /\ requests'[r].at = "fetch" /\ ~requests'[r].complete
        /\ requests'[r].continuation = lookupContinuation
    <2>1. /\ input \in {Typed, Empty} \cup Submits
          /\ lookupContinuation \in Submits \cup {None}
          /\ pendingClarification \in Submits \cup {None}
      BY DEF ChatTypeOK
    <2> HIDE DEF ChatInv, Send, r
    <2> QED BY <2>1, <1>2 DEF Unused, Request
  <1>4. requests' \in [Submits -> Request]
    BY <1>1, <1>2, <1>3 DEF ChatTypeOK
  <1>5. ChatTypeOK'
    BY <1>1, <1>4 DEF ChatTypeOK
  <1>6. Numbered' /\ BusyMatches'
    BY <1>1, <1>2, <1>3, NoneIsNoSubmit DEF ChatTypeOK, Numbered, BusyMatches, Submits
  <1>7. Issued'
    BY <1>1, <1>2, <1>3, NoneIsNoSubmit DEF Issued
  <1>8. ContinuationFresh'
    <2> SUFFICES ASSUME NEW u \in Submits, requests'[u].continuation # None
                 PROVE  /\ u > 1 /\ requests'[u].continuation = u - 1
                        /\ requests'[u - 1].complete
      BY DEF ContinuationFresh
    <2>1. CASE u = r
      <3>1. lookupContinuation = sent /\ requests[sent].complete /\ sent \in Submits
        BY <2>1, <1>3 DEF Issued, ChatTypeOK
      <3> QED BY <3>1, <2>1, <1>1, <1>2, <1>3 DEF Submits
    <2>2. CASE u # r
      <3>1. u > 1 /\ requests[u].continuation = u - 1 /\ requests[u - 1].complete
        BY <2>2, <1>2 DEF ContinuationFresh
      <3>2. u - 1 \in Submits
        BY <3>1, ChatAssumption DEF Submits
      <3>3. u - 1 # r
        BY <3>1, <3>2, <1>1 DEF Issued, Numbered
      <3> QED BY <3>1, <3>2, <3>3, <2>2, <1>2
    <2> QED BY <2>1, <2>2
  <1>9. \A u \in Submits : Exchanged(u) => Exchanged(u)'
    BY <1>1, <1>2 DEF Numbered, Issued, Exchanged
  <1> QED BY <1>5, <1>6, <1>7, <1>8, <1>9, HistoryStays

LEMMA DeltaStep ==
  ASSUME ChatInv, NEW r \in Submits, Delta(r) \/ Clarification(r) \/ Timeout(r)
  PROVE  ChatInv'
  <1> USE DEF ChatInv, composer, kept
  <1>1. /\ requests[r].at \in {"fetch", "read"} /\ requests[r] \in Request
        /\ UNCHANGED <<drawer, sent, activeRequest, busy, apology, composer, kept>>
    BY DEF Delta, Clarification, Timeout, ChatTypeOK
  <1>2. /\ requests'[r] \in Request
        /\ requests'[r].at = requests[r].at
        /\ requests'[r].complete = requests[r].complete
        /\ requests'[r].continuation = requests[r].continuation
    <2>1. CASE Delta(r)
      <3>1. requests'[r] = [requests[r] EXCEPT !.answered = TRUE]
        BY <2>1 DEF Delta, ChatTypeOK
      <3> QED BY <3>1, <1>1, FieldTypes, FieldsKept
    <2>2. CASE Clarification(r)
      BY <2>2, <1>1 DEF Clarification
    <2>3. CASE Timeout(r)
      <3> DEFINE q == [requests[r] EXCEPT !.timedOut = TRUE]
      <3>1. requests'[r] = [q EXCEPT !.aborted = TRUE]
        BY <2>3 DEF Timeout, ChatTypeOK
      <3>2. q \in Request /\ q.at = requests[r].at /\ q.complete = requests[r].complete
            /\ q.continuation = requests[r].continuation
        BY <1>1, FieldTypes, FieldsKept
      <3> HIDE DEF q
      <3> QED BY <3>1, <3>2, FieldTypes, FieldsKept
    <2> QED BY <2>1, <2>2, <2>3
  <1>3. /\ \A u \in Submits \ {r} : requests'[u] = requests[u] /\ cards'[u] = cards[u]
        /\ cards' \in [Submits -> {"none", "shown", "resolved"}]
        /\ DOMAIN requests' = Submits /\ requests' = [u \in Submits |-> requests'[u]]
    BY DEF ChatTypeOK, Delta, Clarification, Timeout
  <1>4. ChatTypeOK'
    BY <1>1, <1>2, <1>3 DEF ChatTypeOK
  <1>5. Numbered' /\ BusyMatches' /\ Issued'
    BY <1>1, <1>2, <1>3 DEF ChatTypeOK, Numbered, BusyMatches, Issued
  <1>6. ContinuationFresh'
    BY <1>2, <1>3, ContinuationStays
  <1>7. \A u \in Submits : Exchanged(u) => Exchanged(u)'
    BY <1>1, <1>3 DEF Issued, Exchanged
  <1> QED BY <1>1, <1>4, <1>5, <1>6, <1>7, HistoryStays

\* The finally block, whatever comes before it.
LEMMA FinishStep ==
  ASSUME ChatInv, NEW r \in Submits, requests[r].at \in Running,
         NEW complete \in BOOLEAN, Finish(r, complete), sent' = sent
  PROVE  /\ requests' \in [Submits -> Request]
         /\ activeRequest' \in Submits \cup {None} /\ busy' \in BOOLEAN
         /\ \A u \in Submits \ {r} : requests'[u] = requests[u]
         /\ requests'[r].at = "over" /\ requests'[r].continuation = None
         /\ requests'[r].complete = complete
         /\ complete => /\ requests'[r].answered = requests[r].answered
                        /\ requests'[r].aborted = requests[r].aborted
         /\ Numbered' /\ BusyMatches'
  <1> USE DEF ChatInv
  <1>1. requests[r] \in Request /\ requests[r].answered \in BOOLEAN
        /\ requests[r].aborted \in BOOLEAN
    BY FieldTypes DEF ChatTypeOK
  <1>2. \A u \in Submits \ {r} : requests'[u] = requests[u]
    BY DEF Finish, ChatTypeOK
  <1>3. /\ requests'[r] \in Request
        /\ requests'[r].at = "over" /\ requests'[r].continuation = None
        /\ requests'[r].complete = complete
        /\ complete => /\ requests'[r].answered = requests[r].answered
                       /\ requests'[r].aborted = requests[r].aborted
    <2>1. CASE complete
      <3>1. requests'[r] = [Unused EXCEPT !.at = "over", !.complete = TRUE,
                !.answered = requests[r].answered, !.aborted = requests[r].aborted]
        BY <2>1 DEF Finish, ChatTypeOK
      <3> HIDE DEF ChatInv
      <3> QED BY <3>1, <2>1, <1>1 DEF Unused, Request
    <2>2. CASE ~complete
      <3>1. requests'[r] = [Unused EXCEPT !.at = "over"]
        BY <2>2 DEF Finish, ChatTypeOK
      <3> HIDE DEF ChatInv
      <3> QED BY <3>1, <2>2, <1>1 DEF Unused, Request
    <2> QED BY <2>1, <2>2
  <1>4. requests' \in [Submits -> Request]
    BY <1>2, <1>3 DEF Finish, ChatTypeOK
  <1>5. activeRequest' \in Submits \cup {None} /\ busy' \in BOOLEAN
    BY DEF Finish, ChatTypeOK
  <1>6. Numbered' /\ BusyMatches'
    BY <1>2, <1>3, NoneIsNoSubmit DEF Finish, ChatTypeOK, Numbered, BusyMatches, Running
  <1> QED BY <1>2, <1>3, <1>4, <1>5, <1>6

LEMMA EndStep ==
  ASSUME ChatInv, NEW r \in Submits, requests[r].at \in Running, Finish(r, FALSE),
         apology' \in {apology, r}, pendingClarification' \in Submits \cup {None},
         UNCHANGED <<drawer, sent, cards, input, submitTimer, kept>>
  PROVE  ChatInv'
  <1> USE DEF kept
  <1>1. /\ requests' \in [Submits -> Request]
        /\ activeRequest' \in Submits \cup {None} /\ busy' \in BOOLEAN
        /\ \A u \in Submits \ {r} : requests'[u] = requests[u]
        /\ requests'[r].at = "over" /\ requests'[r].continuation = None
        /\ ~requests'[r].complete
        /\ Numbered' /\ BusyMatches'
    BY FinishStep
  <1> HIDE DEF Finish
  <1>2. ChatTypeOK'
    BY <1>1 DEF ChatTypeOK, ChatInv
  <1>3. ~requests[r].complete
    BY DEF ChatInv, Issued, Running
  <1>4. Issued'
    <2>1. lookupContinuation # None => lookupContinuation \in Submits
      BY DEF ChatInv, ChatTypeOK
    <2> QED BY <1>1, <1>3, <2>1 DEF ChatInv, Issued
  <1>5. ContinuationFresh'
    BY <1>1, <1>3, ContinuationStays DEF ChatInv
  <1>6. \A u \in Submits : Exchanged(u) => Exchanged(u)'
    BY <1>1, <1>3 DEF Exchanged
  <1>7. HistoryFaithful'
    BY <1>6, HistoryStays DEF ChatInv
  <1> QED BY <1>1, <1>2, <1>4, <1>5, <1>7 DEF ChatInv

LEMMA ResponseStep ==
  ASSUME ChatInv, NEW r \in Submits, NEW ok \in BOOLEAN, Response(r, ok)
  PROVE  ChatInv'
  <1>1. /\ requests[r].at = "fetch" /\ pendingClarification' \in Submits \cup {None}
        /\ UNCHANGED <<drawer, sent, cards, input, submitTimer, kept>>
    BY DEF Response
  <1>2. CASE Finish(r, FALSE) /\ apology' \in {apology, r}
    BY <1>1, <1>2, EndStep DEF Running
  <1>3. CASE requests' = [requests EXCEPT ![r].at = "read"]
             /\ UNCHANGED <<activeRequest, busy, apology>>
    <2> USE DEF ChatInv, kept
    <2>1. requests[r] \in Request
      BY DEF ChatTypeOK
    <2>2. /\ \A u \in Submits \ {r} : requests'[u] = requests[u]
          /\ requests'[r] = [requests[r] EXCEPT !.at = "read"]
      BY <1>3 DEF ChatTypeOK
    <2>3. /\ requests'[r] \in Request /\ requests'[r].at = "read"
          /\ requests'[r].complete = requests[r].complete
          /\ requests'[r].continuation = requests[r].continuation
      BY <2>1, <2>2 DEF Request
    <2>4. ~requests[r].complete
      BY <1>1 DEF Issued
    <2>5. ChatTypeOK'
      BY <1>1, <1>3, <2>2, <2>3 DEF ChatTypeOK
    <2>6. Numbered' /\ BusyMatches'
      BY <1>1, <1>3, <2>2, <2>3 DEF ChatTypeOK, Numbered, BusyMatches
    <2>7. Issued'
      <3>1. lookupContinuation # None => lookupContinuation \in Submits
        BY DEF ChatTypeOK
      <3> QED BY <1>1, <2>2, <2>3, <2>4, <3>1 DEF Issued
    <2>8. ContinuationFresh'
      BY <2>2, <2>3, ContinuationStays
    <2>9. \A u \in Submits : Exchanged(u) => Exchanged(u)'
      BY <1>1, <2>2, <2>4 DEF Exchanged
    <2> QED BY <1>1, <2>5, <2>6, <2>7, <2>8, <2>9, HistoryStays
  <1> QED BY <1>2, <1>3 DEF Response, Fail

LEMMA BrokenStep ==
  ASSUME ChatInv, NEW r \in Submits, Broken(r) \/ StaleChunk(r)
  PROVE  ChatInv'
  <1>1. pendingClarification \in Submits \cup {None}
    BY DEF ChatInv, ChatTypeOK
  <1> QED BY <1>1, EndStep DEF Broken, StaleChunk, Fail, Running, composer
\* What Remember keeps: a suffix of the history with r at its end.
LEMMA RememberKeeps ==
  ASSUME history \in Seq(Submits), NEW r \in Submits, Remember(r)
  PROVE  /\ history' \in Seq(Submits) /\ Len(history') > 0
         /\ history'[Len(history')] = r
         /\ \A i \in 1..(Len(history') - 1) :
               \E j \in DOMAIN history :
                  /\ history'[i] = history[j]
                  /\ \A k \in 1..(Len(history') - 1) :
                        i < k => \E l \in DOMAIN history : j < l /\ history'[k] = history[l]
  <1> DEFINE all == Append(history, r)
  <1>1. PICK first \in 1..Len(all) : history' = SubSeq(all, first, Len(all))
    BY DEF Remember
  <1>2. /\ all \in Seq(Submits) /\ Len(all) = Len(history) + 1 /\ all[Len(all)] = r
        /\ \A i \in 1..Len(history) : all[i] = history[i]
        /\ Len(history) \in Nat /\ DOMAIN history = 1..Len(history)
    OBVIOUS
  <1> HIDE DEF all
  <1>3. \A i \in first..Len(all) : all[i] \in Submits
    BY <1>2
  <1>4. /\ history' \in Seq(Submits) /\ Len(history') = Len(all) - first + 1
        /\ \A i \in 1..(Len(all) - first + 1) : history'[i] = all[first + i - 1]
    BY <1>1, <1>2, <1>3, SubSeqProperties
  <1>5. \A i \in 1..(Len(history') - 1) : /\ first + i - 1 \in DOMAIN history
                                          /\ history'[i] = history[first + i - 1]
    BY <1>2, <1>4
  <1>6. history'[Len(history')] = r /\ Len(history') > 0
    BY <1>2, <1>4
  <1>7. ASSUME NEW i \in 1..(Len(history') - 1)
        PROVE  \E j \in DOMAIN history :
                  /\ history'[i] = history[j]
                  /\ \A k \in 1..(Len(history') - 1) :
                        i < k => \E l \in DOMAIN history : j < l /\ history'[k] = history[l]
    <2>1. \A k \in 1..(Len(history') - 1) :
             i < k => /\ first + i - 1 < first + k - 1 /\ first + k - 1 \in DOMAIN history
                      /\ history'[k] = history[first + k - 1]
      BY <1>5, <1>2, <1>4
    <2>2. first + i - 1 \in DOMAIN history /\ history'[i] = history[first + i - 1]
      BY <1>5
    <2> QED BY <2>1, <2>2
  <1> QED BY <1>4, <1>6, <1>7

LEMMA DoneStep ==
  ASSUME ChatInv, NEW r \in Submits, NEW issued \in BOOLEAN, NEW retain \in BOOLEAN,
         Done(r, issued, retain)
  PROVE  ChatInv'
  <1> DEFINE says == requests[r].answered \/ cards[r] # "none"
  <1>1. /\ requests[r].at = "read" /\ ~Stale(r) /\ Finish(r, TRUE)
        /\ lookupContinuation' = IF issued THEN r ELSE None
        /\ apology' = IF says THEN apology ELSE r
        /\ IF says /\ retain THEN Remember(r) ELSE UNCHANGED history
        /\ UNCHANGED <<drawer, sent, cards, composer>>
    BY DEF Done
  <1>2. /\ requests' \in [Submits -> Request]
        /\ activeRequest' \in Submits \cup {None} /\ busy' \in BOOLEAN
        /\ \A u \in Submits \ {r} : requests'[u] = requests[u]
        /\ requests'[r].at = "over" /\ requests'[r].continuation = None
        /\ requests'[r].complete
        /\ requests'[r].answered = requests[r].answered
        /\ requests'[r].aborted = requests[r].aborted
        /\ Numbered' /\ BusyMatches'
    BY <1>1, FinishStep DEF Running
  <1>3. /\ r = sent /\ ~requests[r].aborted /\ ~requests[r].complete
        /\ history \in Seq(Submits)
    BY <1>1, NoneIsNoSubmit DEF Stale, ChatInv, ChatTypeOK, Numbered, Issued
  <1>4. history' \in Seq(Submits)
    BY <1>1, <1>3, RememberKeeps
  <1>5. ChatTypeOK'
    BY <1>1, <1>2, <1>4 DEF ChatTypeOK, ChatInv, composer
  <1>6. Issued'
    BY <1>1, <1>2, <1>3 DEF ChatInv, Issued
  <1>7. ContinuationFresh'
    BY <1>2, ContinuationStays DEF ChatInv
  <1>8. \A u \in Submits : Exchanged(u) => Exchanged(u)'
    BY <1>1, <1>2 DEF Exchanged
  <1>9. HistoryFaithful'
    <2>1. CASE says /\ retain
      <3>1. Remember(r)
        BY <2>1, <1>1
      <3>2. Exchanged(r)'
        BY <2>1, <1>1, <1>2, <1>3 DEF Exchanged
      <3>3. \A j \in DOMAIN history : /\ history[j] \in Submits /\ Exchanged(history[j])
                                      /\ history[j] < r
        <4> SUFFICES ASSUME NEW j \in DOMAIN history
                     PROVE  history[j] \in Submits /\ Exchanged(history[j]) /\ history[j] < r
          OBVIOUS
        <4>1. history[j] \in Submits
          BY <1>3
        <4>2. Exchanged(history[j])
          BY DEF ChatInv, HistoryFaithful, Exchanged
        <4>3. requests[history[j]].complete /\ requests[history[j]].at = "over"
          BY <4>1, <4>2 DEF Exchanged, ChatInv, Issued
        <4>4. ~(history[j] > sent) /\ history[j] # r
          BY <4>1, <4>3, <1>3 DEF ChatInv, Numbered
        <4> QED BY <4>1, <4>2, <4>4, <1>3 DEF Submits
      <3>4. \A i \in DOMAIN history' : \A u \in Submits : u = history'[i] => Exchanged(u)'
        <4> SUFFICES ASSUME NEW i \in DOMAIN history', NEW u \in Submits, u = history'[i]
                     PROVE  Exchanged(u)'
          OBVIOUS
        <4>1. history' \in Seq(Submits) /\ DOMAIN history' = 1..Len(history')
              /\ Len(history') \in Nat
          BY <1>4
        <4>2. CASE i = Len(history')
          BY <4>2, <3>1, <3>2, <1>3, RememberKeeps
        <4>3. CASE i # Len(history')
          <5>1. i \in 1..(Len(history') - 1)
            BY <4>1, <4>3
          <5>2. \E j \in DOMAIN history : u = history[j]
            BY <5>1, <3>1, <1>3, RememberKeeps
          <5> QED BY <5>2, <3>3, <1>8
        <4> QED BY <4>2, <4>3
      <3>5. ASSUME NEW i \in DOMAIN history', NEW k \in DOMAIN history', i < k
            PROVE  history'[i] < history'[k]
        <4>1. history' \in Seq(Submits) /\ DOMAIN history' = 1..Len(history')
              /\ Len(history') \in Nat
          BY <1>4
        <4>2. i \in 1..(Len(history') - 1)
          BY <4>1, <3>5
        <4>3. PICK j \in DOMAIN history :
                 /\ history'[i] = history[j]
                 /\ \A m \in 1..(Len(history') - 1) :
                       i < m => \E l \in DOMAIN history : j < l /\ history'[m] = history[l]
          BY <4>2, <3>1, <1>3, RememberKeeps
        <4>4. CASE k = Len(history')
          BY <4>4, <4>3, <3>3, <3>1, <1>3, RememberKeeps
        <4>5. CASE k # Len(history')
          <5>1. PICK l \in DOMAIN history : j < l /\ history'[k] = history[l]
            BY <4>1, <4>3, <4>5, <3>5
          <5> QED BY <5>1, <4>3 DEF ChatInv, HistoryFaithful
        <4> QED BY <4>4, <4>5
      <3>6. \A i \in DOMAIN history' : history'[i] \in Submits
        BY <1>4
      <3> QED BY <3>4, <3>5, <3>6 DEF HistoryFaithful, Exchanged
    <2>2. CASE ~(says /\ retain)
      BY <2>2, <1>1, <1>8, HistoryStays DEF ChatInv
    <2> QED BY <2>1, <2>2
  <1> QED BY <1>2, <1>5, <1>6, <1>7, <1>9 DEF ChatInv

LEMMA ChatStepInv == ChatInv /\ [ChatNext]_chatVars => ChatInv'
  <1> SUFFICES ASSUME ChatInv, [ChatNext]_chatVars PROVE ChatInv'
    OBVIOUS
  <1> USE ChatInv
  <1>0. CASE UNCHANGED chatVars
    BY <1>0 DEF chatVars, composer, kept, ChatInv, ChatTypeOK, Numbered, BusyMatches, Issued,
        ContinuationFresh, HistoryFaithful
  <1>1. CASE ChatRequest \/ CloseDrawer
    BY <1>1, DrawerStep
  <1>2. CASE Stop \/ CloseEvent
    BY <1>2, CancelStep DEF Stop, CloseEvent, ChatInv, ChatTypeOK
  <1>3. CASE \E text \in {Typed, Empty} : Edit(text)
    BY <1>3, EditStep
  <1>4. CASE Submit
    BY <1>4, SendStep DEF Submit, ChatInv, ChatTypeOK
  <1>5. CASE SubmitTimer
    <2>1. CASE Accepted /\ Send
      BY <1>5, <2>1, SendStep DEF SubmitTimer
    <2>2. CASE UNCHANGED <<drawer, sent, activeRequest, busy, apology, cards, requests, input,
                           pendingClarification, kept>> /\ submitTimer' = FALSE
      BY <2>2 DEF kept, ChatInv, ChatTypeOK, Numbered, BusyMatches, Issued, ContinuationFresh,
          HistoryFaithful
    <2> QED BY <1>5, <2>1, <2>2 DEF SubmitTimer
  <1>6. ASSUME NEW r \in Submits, Select(r) \/ Rephrase(r)
        PROVE  ChatInv'
    BY <1>6, SelectStep
  <1>7. ASSUME NEW r \in Submits, Coroutine(r)
        PROVE  ChatInv'
    BY <1>7, ResponseStep, DeltaStep, DoneStep, BrokenStep DEF Coroutine
  <1> QED BY <1>0, <1>1, <1>2, <1>3, <1>4, <1>5, <1>6, <1>7 DEF ChatNext

\* The drawer's state is what its code takes it to be, buttons, hand-overs and history.
THEOREM ChatInvariant == ChatSpec => []ChatInv
  BY ChatInitInv, ChatStepInv, PTL DEF ChatSpec

\* Types, whatever the order of clicks, timers and answers.
THEOREM ChatTyped == ChatSpec => []ChatTypeOK
  BY ChatInvariant, PTL DEF ChatInv

\* Stop is offered exactly while one request runs; a superseded one resets nothing.
THEOREM ButtonsMatch == ChatSpec => []BusyMatches
  BY ChatInvariant, PTL DEF ChatInv

\* A continuation is used once, with the message that follows its exchange.
THEOREM ContinuationUsedOnce == ChatSpec => []ContinuationFresh
  BY ChatInvariant, PTL DEF ChatInv

\* The history names exchanges that ended well, in order, each once.
THEOREM HistoryTrue == ChatSpec => []HistoryFaithful
  BY ChatInvariant, PTL DEF ChatInv

\* What a step must not write, for one request.
Writes(r) ==
    \/ requests'[r].answered /\ ~requests[r].answered
    \/ apology' = r /\ apology # r
    \/ cards[r] = "none" /\ cards'[r] # "none"
    \/ lookupContinuation' = r /\ lookupContinuation # r
    \/ history' # history /\ history'[Len(history')] = r

\* A finished request gains no text.
LEMMA FinishIsSilent ==
  ASSUME ChatInv, NEW r \in Submits, NEW complete \in BOOLEAN, Finish(r, complete),
         NEW u \in Submits
  PROVE  ~(requests'[u].answered /\ ~requests[u].answered)
  <1>1. requests[u] \in Request
    BY DEF ChatInv, ChatTypeOK
  <1>2. CASE u = r /\ complete
    BY <1>2, <1>1 DEF Finish, Unused, ChatInv, ChatTypeOK
  <1>3. CASE u = r /\ ~complete
    BY <1>3, <1>1 DEF Finish, Unused, ChatInv, ChatTypeOK
  <1>4. CASE u # r
    BY <1>4, <1>1 DEF Finish, ChatInv, ChatTypeOK
  <1> QED BY <1>2, <1>3, <1>4

LEMMA OnlyActiveWrites ==
  ASSUME ChatInv, ChatNext, NEW u \in Submits, Writes(u)
  PROVE  activeRequest = u
  <1> USE ChatInv DEF Writes
  <1>1. CASE ChatRequest \/ CloseDrawer \/ \E text \in {Typed, Empty} : Edit(text)
    BY <1>1 DEF ChatRequest, CloseDrawer, Edit, kept
  <1>5. CASE Stop \/ CloseEvent
    <2>1. UNCHANGED <<apology, cards, kept>> /\ CancelResponse
      BY <1>5 DEF Stop, CloseEvent
    <2>2. requests[u] \in Request
      BY DEF ChatInv, ChatTypeOK
    <2>3. requests'[u].answered = requests[u].answered
      <3>1. CASE requests' = requests
        BY <3>1
      <3>2. CASE requests' = [requests EXCEPT ![activeRequest].aborted = TRUE]
        BY <3>2, <2>2 DEF ChatInv, ChatTypeOK, Request
      <3> QED BY <2>1, <3>1, <3>2 DEF CancelResponse
    <2> QED BY <2>1, <2>3 DEF kept
  <1>2. CASE Submit \/ SubmitTimer
    <2>1. Send \/ UNCHANGED <<requests, apology, cards, kept>>
      BY <1>2 DEF Submit, SubmitTimer
    <2>2. CASE Send
      <3>1. sent + 1 # u => requests'[u] = requests[u]
        BY <2>2 DEF Send, ChatInv, ChatTypeOK
      <3>2. sent + 1 = u => ~requests'[u].answered
        BY <2>2 DEF Send, ChatInv, ChatTypeOK, Unused
      <3> QED BY <2>2, <3>1, <3>2, NoneIsNoSubmit DEF Send
    <2> QED BY <2>1, <2>2 DEF kept
  <1>3. CASE \E r \in Submits : Select(r) \/ Rephrase(r)
    BY <1>3 DEF Select, Rephrase, kept, ChatInv, ChatTypeOK
  <1>4. ASSUME NEW r \in Submits, Coroutine(r)
        PROVE  activeRequest = u
    <2>1. ASSUME NEW ok \in BOOLEAN, Response(r, ok)
          PROVE  activeRequest = u
      <3>1. UNCHANGED <<cards, kept>>
        BY <2>1 DEF Response
      <3>2. ~(requests'[u].answered /\ ~requests[u].answered)
        <4>1. CASE Finish(r, FALSE)
          BY <4>1, FinishIsSilent
        <4>2. CASE requests' = [requests EXCEPT ![r].at = "read"]
          BY <4>2 DEF ChatInv, ChatTypeOK, Request
        <4> QED BY <2>1, <4>1, <4>2 DEF Response, Fail
      <3>3. apology' # apology => apology' = r /\ activeRequest = r
        BY <2>1 DEF Response, Fail
      <3> QED BY <3>1, <3>2, <3>3 DEF kept
    <2>2. CASE StaleChunk(r)
      BY <2>2, FinishIsSilent DEF StaleChunk, kept
    <2>3. CASE Delta(r) \/ Clarification(r)
      <3>1. activeRequest = r
        BY <2>3 DEF Delta, Clarification, Stale
      <3>2. u # r => requests'[u] = requests[u] /\ cards'[u] = cards[u]
        BY <2>3 DEF Delta, Clarification, ChatInv, ChatTypeOK
      <3>3. UNCHANGED <<apology, kept>>
        BY <2>3 DEF Delta, Clarification
      <3> QED BY <3>1, <3>2, <3>3 DEF kept
    <2>4. ASSUME NEW issued \in BOOLEAN, NEW retain \in BOOLEAN, Done(r, issued, retain)
          PROVE  activeRequest = u
      <3>1. activeRequest = r /\ Finish(r, TRUE) /\ cards' = cards
        BY <2>4 DEF Done, Stale
      <3>2. ~(requests'[u].answered /\ ~requests[u].answered)
        BY <3>1, FinishIsSilent
      <3>3. apology' \in {apology, r} /\ lookupContinuation' \in {r, None}
        BY <2>4 DEF Done
      <3>4. history' # history => history'[Len(history')] = r
        BY <2>4, RememberKeeps DEF Done, ChatInv, ChatTypeOK
      <3> QED BY <3>1, <3>2, <3>3, <3>4, NoneIsNoSubmit
    <2>5. CASE Broken(r)
      BY <2>5, FinishIsSilent DEF Broken, Fail, kept
    <2>6. CASE Timeout(r)
      <3>1. requests'[u].answered = requests[u].answered
        BY <2>6 DEF Timeout, ChatInv, ChatTypeOK, Request
      <3> QED BY <2>6, <3>1 DEF Timeout, kept
    <2> QED BY <1>4, <2>1, <2>2, <2>3, <2>4, <2>5, <2>6 DEF Coroutine
  <1> QED BY <1>1, <1>2, <1>3, <1>4, <1>5 DEF ChatNext

\* A request that was stopped, timed out of its place or replaced writes nothing more.
THEOREM SupersededIsSilent == ChatSpec => NoLateWrites
  <1>1. ASSUME ChatInv, [ChatNext]_chatVars, ~UNCHANGED chatVars
        PROVE  \A r \in Submits : Writes(r) => activeRequest = r
    BY <1>1, OnlyActiveWrites
  <1>2. ChatInv /\ [ChatNext]_chatVars
           => [\A r \in Submits : Writes(r) => activeRequest = r]_chatVars
    BY <1>1
  <1>3. [][\A r \in Submits : Writes(r) => activeRequest = r]_chatVars <=> NoLateWrites
    BY DEF Writes, NoLateWrites
  <1> QED BY ChatInvariant, <1>2, <1>3, PTL DEF ChatSpec
=============================================================================
