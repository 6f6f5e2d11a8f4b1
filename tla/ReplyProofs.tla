---------------------------- MODULE ReplyProofs ----------------------------
(***************************************************************************)
(* A reply on its way, for every number of pieces, texts, requests and     *)
(* places in the queue.  First ChatService: what it lets out has been      *)
(* validated, a safe answer in style is not lost, and every reply has the  *)
(* form of ReplyContract.  Then ReplyStream, which is built on that form:  *)
(* the browser gets what ChatService yielded.                              *)
(***************************************************************************)
EXTENDS ChatService, ReplyStream, SequenceTheorems, TLAPS

(***************************************************************************)
(* ChatService: the stage is related to what has been reviewed and to what *)
(* has been said.                                                          *)
(***************************************************************************)
Thinking == {"looking", "fitting", "reading", "reviewing"}

\* best_safe is the safe candidate of fewest soft failures, of the style route.
BestIsBest ==
    /\ best # 0 => route = "style" /\ Safe(best)
    /\ route = "style" => \A k \in 1 .. 2 : Safe(k) =>
          best # 0 /\ tried[best].soft <= tried[k].soft

\* What is let out has been reviewed.
SourceIsSafe ==
    /\ source # 0 => Safe(source)
    /\ stage = "emitting" /\ route = "style" => source # 0 /\ Safe(source)
          /\ \A k \in 1 .. 2 : Safe(k) => tried[source].soft <= tried[k].soft

\* How far the review and the reply are, at each stage.
Progress ==
    /\ stage \in {"new", "clarifying", "looking"} => tried = <<>> /\ attempt = 1 /\ best = 0
    /\ stage = "clarifying" => route = "clarify"
    /\ stage \in {"fitting", "reading", "reviewing"} =>
          Len(tried) = attempt - 1 /\ attempt <= Attempts(route)
    /\ stage = "new" => said = <<>> /\ shown = <<>> /\ source = 0 /\ atYield
    /\ stage \in Thinking \cup {"clarifying", "failing"} =>
          said = <<"start">> /\ shown = <<>> /\ source = 0
    /\ stage = "emitting" => /\ said # <<>> /\ Len(shown) <= size
                             /\ \/ Len(said) = Len(shown) + 1
                                   /\ said[Len(said)] \in {"start", "delta"}
                                \/ size = 0 /\ shown = <<>>
                                   /\ said[Len(said)] \in {"start", "clarification"}
    /\ stage = "failing" /\ route = "style" => \A k \in 1 .. 2 : ~Safe(k)
    /\ left => stage = "over"

\* last_chunks of the attempt under review, and what goes out of them.
ChunksAreCurrent ==
    /\ stage = "reviewing" => lastChunks = [of |-> attempt, count |-> pieces]
    /\ route = "ordinary" /\ stage = "emitting" => source = attempt /\ size = pieces

\* Where a reply has ended.
Endings ==
    /\ stage = "over" /\ ~left =>
          /\ said # <<>> /\ said[Len(said)] \in {"done", "error"}
          /\ said[Len(said)] = "done" => Len(shown) = size
    /\ stage = "over" /\ said # <<>> /\ said[Len(said)] = "error" /\ route = "style" =>
          \A k \in 1 .. 2 : ~Safe(k)

OneSource == \A i \in DOMAIN shown : shown[i] = source

ServiceInv ==
    /\ ServiceTypeOK /\ BestIsBest /\ SourceIsSafe /\ Progress /\ Endings /\ OneSource
    /\ ChunksAreCurrent

USE ServiceAssumption
    DEF Safe, Attempts, Thinking, Routes, Asking, OneAttempt, TwoAttempts, Selected,
        ServiceStages, Reply!Events, reading, letOut

----------------------------------------------------------------------------
(* The steps before a candidate and while it is read.                       *)

LEMMA InvalidChoiceKeeps ==
    ASSUME ServiceInv, InvalidChoice
    PROVE  ServiceInv'
  BY SMTT(30)
  DEF ServiceInv, ServiceTypeOK, BestIsBest, SourceIsSafe, Progress, Endings, OneSource,
      ChunksAreCurrent, InvalidChoice, Yield

LEMMA AskBackKeeps ==
    ASSUME ServiceInv, AskBack
    PROVE  ServiceInv'
  BY SMTT(30)
  DEF ServiceInv, ServiceTypeOK, BestIsBest, SourceIsSafe, Progress, Endings, OneSource,
      ChunksAreCurrent, AskBack, Yield

LEMMA ClarifyKeeps ==
    ASSUME ServiceInv, Clarify
    PROVE  ServiceInv'
<1>1. atYield' \in BOOLEAN /\ left' \in BOOLEAN
  BY Zenon DEF ServiceInv, ServiceTypeOK, Clarify, Yield, Emit
<1> QED  BY <1>1, SMTT(30)
     DEF ServiceInv, ServiceTypeOK, BestIsBest, SourceIsSafe, Progress, Endings, OneSource,
      ChunksAreCurrent,    Clarify, Yield, Emit

LEMMA FixedKeeps ==
    ASSUME ServiceInv, Fixed
    PROVE  ServiceInv'
<1>1. ServiceTypeOK'
  BY SMTT(30) DEF ServiceInv, ServiceTypeOK, Progress, Fixed, Yield, Emit
<1>2. BestIsBest' /\ SourceIsSafe' /\ OneSource' /\ ChunksAreCurrent'
  BY SMTT(30)
  DEF ServiceInv, ServiceTypeOK, BestIsBest, SourceIsSafe, Progress, OneSource,
      ChunksAreCurrent, Fixed, Yield, Emit
<1>3. Progress' /\ Endings'
  BY SMTT(30)
  DEF ServiceInv, ServiceTypeOK, SourceIsSafe, Progress, Endings, Fixed, Yield, Emit
<1> QED  BY <1>1, <1>2, <1>3 DEF ServiceInv

LEMMA BeginKeeps ==
    ASSUME ServiceInv, NEW r \in Selected, Begin(r)
    PROVE  ServiceInv'
  BY SMTT(30)
  DEF ServiceInv, ServiceTypeOK, BestIsBest, SourceIsSafe, Progress, Endings, OneSource,
      ChunksAreCurrent, Begin, Yield

LEMMA LookupKeeps ==
    ASSUME ServiceInv, NEW found \in BOOLEAN, Lookup(found)
    PROVE  ServiceInv'
<1>1. atYield' \in BOOLEAN /\ left' \in BOOLEAN
  BY Zenon DEF ServiceInv, ServiceTypeOK, Lookup, Inside
<1> QED  BY <1>1, SMTT(30)
     DEF ServiceInv, ServiceTypeOK, BestIsBest, SourceIsSafe, Progress, Endings, OneSource,
      ChunksAreCurrent,    Lookup, Inside

LEMMA FitKeeps ==
    ASSUME ServiceInv, Fit
    PROVE  ServiceInv'
<1>1. atYield' \in BOOLEAN /\ left' \in BOOLEAN
  BY Zenon DEF ServiceInv, ServiceTypeOK, Fit, Inside
<1> QED  BY <1>1, SMTT(30)
     DEF ServiceInv, ServiceTypeOK, BestIsBest, SourceIsSafe, Progress, Endings, OneSource,
      ChunksAreCurrent,    Fit, Inside

LEMMA FitFailsKeeps ==
    ASSUME ServiceInv, FitFails
    PROVE  ServiceInv'
<1>1. atYield' \in BOOLEAN /\ left' \in BOOLEAN
  BY Zenon DEF ServiceInv, ServiceTypeOK, FitFails, Abandon, Emit, Raise, Inside
<1> QED  BY <1>1, SMTT(30)
     DEF ServiceInv, ServiceTypeOK, BestIsBest, SourceIsSafe, Progress, Endings, OneSource,
      ChunksAreCurrent,    FitFails, Abandon, Emit, Raise, Inside

LEMMA TextKeeps ==
    ASSUME ServiceInv, Text
    PROVE  ServiceInv'
<1>1. atYield' \in BOOLEAN /\ left' \in BOOLEAN
  BY Zenon DEF ServiceInv, ServiceTypeOK, Text, Inside
<1> QED  BY <1>1, SMTT(30)
     DEF ServiceInv, ServiceTypeOK, BestIsBest, SourceIsSafe, Progress, Endings, OneSource,
      ChunksAreCurrent,    Text, Inside

LEMMA ReadFailsKeeps ==
    ASSUME ServiceInv, ReadFails
    PROVE  ServiceInv'
<1>1. atYield' \in BOOLEAN /\ left' \in BOOLEAN
  BY Zenon DEF ServiceInv, ServiceTypeOK, ReadFails, Abandon, Emit, Raise, Inside
<1> QED  BY <1>1, SMTT(30)
     DEF ServiceInv, ServiceTypeOK, BestIsBest, SourceIsSafe, Progress, Endings, OneSource,
      ChunksAreCurrent,    ReadFails, Abandon, Emit, Raise, Inside

LEMMA CompleteKeeps ==
    ASSUME ServiceInv, Complete
    PROVE  ServiceInv'
<1>1. atYield' \in BOOLEAN /\ left' \in BOOLEAN
  BY Zenon DEF ServiceInv, ServiceTypeOK, Complete, Inside
<1> QED  BY <1>1, SMTT(30)
     DEF ServiceInv, ServiceTypeOK, BestIsBest, SourceIsSafe, Progress, Endings, OneSource,
      ChunksAreCurrent,    Complete, Inside

----------------------------------------------------------------------------
(* The review.                                                              *)

\* Which attempts are safe after c has been reviewed.
LEMMA SafeAfter ==
    ASSUME ServiceInv, NEW c \in Candidates, Reviewed(c), NEW k \in 1 .. 2
    PROVE  /\ Safe(k)' <=> (k < attempt /\ Safe(k)) \/ (k = attempt /\ ~c.hard)
           /\ Safe(k)' => tried'[k] = IF k = attempt THEN c ELSE tried[k]
<1>1. tried \in Seq(Candidates) /\ Len(tried) = attempt - 1 /\ tried' = Append(tried, c)
  BY DEF ServiceInv, ServiceTypeOK, Progress, Reviewed
<1>2. attempt \in 1 .. 2
  BY DEF ServiceInv, ServiceTypeOK
<1>3. /\ DOMAIN tried' = 1 .. attempt /\ tried'[attempt] = c
      /\ k < attempt => k \in DOMAIN tried /\ tried'[k] = tried[k]
  BY <1>1, <1>2
<1> QED  BY <1>1, <1>2, <1>3

\* best_safe is up to date after every review.
LEMMA BestAfter ==
    ASSUME ServiceInv, NEW c \in Candidates, Reviewed(c)
    PROVE  BestIsBest'
<1>1. attempt \in 1 .. 2 /\ best \in 0 .. 2 /\ best' = Better(c) /\ route' = route
  BY DEF ServiceInv, ServiceTypeOK, Reviewed
<1>2. /\ best # 0 => best < attempt /\ Safe(best) /\ route = "style" 
      /\ route = "style" => \A k \in 1 .. 2 : Safe(k) =>
            best # 0 /\ tried[best].soft <= tried[k].soft
  BY DEF ServiceInv, ServiceTypeOK, BestIsBest, Progress, Reviewed
<1>3. /\ c.soft \in Int
      /\ \A k \in 1 .. 2 : Safe(k) => tried[k].soft \in Int
  <2>1. tried \in Seq(Candidates)
    BY DEF ServiceInv, ServiceTypeOK
  <2>2. \A k \in 1 .. 2 : Safe(k) => tried[k] \in Candidates
    BY <2>1
  <2>3. \A x \in Candidates : x.soft \in Int
    BY DEF Candidates
  <2> QED  BY <2>2, <2>3
<1>4. \A k \in 1 .. 2 :
        /\ Safe(k)' <=> (k < attempt /\ Safe(k)) \/ (k = attempt /\ ~c.hard)
        /\ Safe(k)' => tried'[k] = IF k = attempt THEN c ELSE tried[k]
  BY SafeAfter
<1>5. best' # 0 => /\ best' \in 1 .. 2 /\ route' = "style"
                   /\ best' \in DOMAIN tried' /\ ~tried'[best'].hard
  <2>1. CASE best' = attempt /\ route = "style" /\ ~c.hard
    <3>1. PICK k \in 1 .. 2 : k = attempt
      BY <1>1
    <3>2. Safe(k)'
      BY <1>4, <2>1, <3>1
    <3> QED  BY <1>1, <2>1, <3>1, <3>2
  <2>2. CASE best' = best
    BY <1>1, <1>2, <1>4, <2>2
  <2> QED  BY <1>1, <2>1, <2>2 DEF Better
<1>6. ASSUME route = "style", NEW k \in 1 .. 2, Safe(k)'
      PROVE  best' # 0 /\ tried'[best'].soft <= tried'[k].soft
  <2>1. CASE best' = attempt
    BY <1>1, <1>2, <1>3, <1>4, <1>6, <2>1 DEF Better
  <2>2. CASE best' = best /\ best' # attempt
    BY <1>1, <1>2, <1>3, <1>4, <1>6, <2>2 DEF Better
  <2> QED  BY <1>1, <2>1, <2>2 DEF Better
<1> QED  BY <1>1, <1>5, <1>6 DEF BestIsBest

LEMMA AcceptKeeps ==
    ASSUME ServiceInv, NEW c \in Candidates, Accept(c)
    PROVE  ServiceInv'
<1>1. atYield' \in BOOLEAN /\ left' \in BOOLEAN
  BY Zenon DEF ServiceInv, ServiceTypeOK, Accept, Reviewed, Inside
<1>2. Reviewed(c)
  BY DEF Accept
<1>3. BestIsBest'
  BY <1>2, BestAfter
<1>4. SourceIsSafe'
  BY <1>2, <1>3, SafeAfter DEF ServiceInv, ServiceTypeOK, BestIsBest, SourceIsSafe,
         Progress, Endings, OneSource, ChunksAreCurrent,
         Accept, Reviewed, Good, Better, Candidates, Emit, Inside
<1> QED  BY <1>1, <1>3, <1>4, SMTT(30)
     DEF ServiceInv, ServiceTypeOK, BestIsBest, SourceIsSafe,
         Progress, Endings, OneSource, ChunksAreCurrent,
         Accept, Reviewed, Good, Better, Candidates, Emit, Inside

LEMMA RetryKeeps ==
    ASSUME ServiceInv, NEW c \in Candidates, Retry(c)
    PROVE  ServiceInv'
<1>1. atYield' \in BOOLEAN /\ left' \in BOOLEAN
  BY Zenon DEF ServiceInv, ServiceTypeOK, Retry, Reviewed, Inside
<1>2. Reviewed(c)
  BY DEF Retry
<1>3. BestIsBest'
  BY <1>2, BestAfter
<1>4. SourceIsSafe'
  BY <1>2, <1>3, SafeAfter DEF ServiceInv, ServiceTypeOK, BestIsBest, SourceIsSafe,
         Progress, Endings, OneSource, ChunksAreCurrent,
         Retry, Reviewed, Good, Better, Candidates, Inside
<1>5. ServiceTypeOK'
  BY <1>1, SMTT(30) DEF ServiceInv, ServiceTypeOK, Progress, Retry, Reviewed, Better, Inside
<1>6. Progress' /\ Endings' /\ OneSource' /\ ChunksAreCurrent'
  BY <1>1, SMTT(30)
  DEF ServiceInv, ServiceTypeOK, Progress, Endings, OneSource, ChunksAreCurrent,
      Retry, Reviewed, Inside
<1> QED  BY <1>3, <1>4, <1>5, <1>6 DEF ServiceInv

LEMMA ExhaustKeeps ==
    ASSUME ServiceInv, NEW c \in Candidates, Exhaust(c)
    PROVE  ServiceInv'
<1>1. atYield' \in BOOLEAN /\ left' \in BOOLEAN
  BY Zenon DEF ServiceInv, ServiceTypeOK, Exhaust, Reviewed, Inside
<1>2. Reviewed(c)
  BY DEF Exhaust
<1>3. BestIsBest'
  BY <1>2, BestAfter
<1>4. SourceIsSafe'
  BY <1>2, <1>3, SafeAfter DEF ServiceInv, ServiceTypeOK, BestIsBest, SourceIsSafe,
         Progress, Endings, OneSource, ChunksAreCurrent,
         Exhaust, Reviewed, Good, Better, Candidates, Emit, Raise, Inside
<1> QED  BY <1>1, <1>3, <1>4, SMTT(30)
     DEF ServiceInv, ServiceTypeOK, BestIsBest, SourceIsSafe,
         Progress, Endings, OneSource, ChunksAreCurrent,
         Exhaust, Reviewed, Good, Better, Candidates, Emit, Raise, Inside

----------------------------------------------------------------------------
(* The reply.                                                               *)

LEMMA DeltaKeeps ==
    ASSUME ServiceInv, Delta
    PROVE  ServiceInv'
<1>1. ServiceTypeOK'
  BY SMTT(30) DEF ServiceInv, ServiceTypeOK, Progress, Delta, Yield
<1>2. BestIsBest' /\ SourceIsSafe' /\ OneSource' /\ ChunksAreCurrent'
  BY SMTT(30)
  DEF ServiceInv, ServiceTypeOK, BestIsBest, SourceIsSafe, Progress, OneSource,
      ChunksAreCurrent, Delta, Yield
<1>3. Progress' /\ Endings'
  BY SMTT(30)
  DEF ServiceInv, ServiceTypeOK, SourceIsSafe, Progress, Endings, Delta, Yield
<1> QED  BY <1>1, <1>2, <1>3 DEF ServiceInv

LEMMA DoneKeeps ==
    ASSUME ServiceInv, Done
    PROVE  ServiceInv'
  BY SMTT(30)
  DEF ServiceInv, ServiceTypeOK, BestIsBest, SourceIsSafe, Progress, Endings, OneSource,
      ChunksAreCurrent, Done, Yield

LEMMA ErrorKeeps ==
    ASSUME ServiceInv, Error
    PROVE  ServiceInv'
  BY SMTT(30)
  DEF ServiceInv, ServiceTypeOK, BestIsBest, SourceIsSafe, Progress, Endings, OneSource,
      ChunksAreCurrent, Error, Yield

LEMMA LeaveKeeps ==
    ASSUME ServiceInv, Leave
    PROVE  ServiceInv'
<1>1. atYield' \in BOOLEAN /\ left' \in BOOLEAN
  BY Zenon DEF ServiceInv, ServiceTypeOK, Leave, Inside
<1> QED  BY <1>1, SMTT(30)
     DEF ServiceInv, ServiceTypeOK, BestIsBest, SourceIsSafe, Progress, Endings, OneSource,
      ChunksAreCurrent,    Leave, Inside

----------------------------------------------------------------------------
(* The theorems.                                                            *)

LEMMA ServiceStarts == ServiceInit => ServiceInv
<1>1. ServiceInit => atYield \in BOOLEAN /\ left \in BOOLEAN
  BY Zenon DEF ServiceInit
<1> QED  BY <1>1 DEF ServiceInit, ServiceInv, ServiceTypeOK, BestIsBest, SourceIsSafe, Progress,
         Endings, OneSource, ChunksAreCurrent

LEMMA ServiceKeeps == ServiceInv /\ [ServiceNext]_serviceVars => ServiceInv'
<1> SUFFICES ASSUME ServiceInv, [ServiceNext]_serviceVars
             PROVE  ServiceInv'
  OBVIOUS
<1>1. CASE InvalidChoice \/ AskBack \/ Clarify \/ Fixed
  BY <1>1, InvalidChoiceKeeps, AskBackKeeps, ClarifyKeeps, FixedKeeps
<1>2. ASSUME NEW r \in Selected, Begin(r)  PROVE ServiceInv'
  BY <1>2, BeginKeeps
<1>3. ASSUME NEW found \in BOOLEAN, Lookup(found)  PROVE ServiceInv'
  BY <1>3, LookupKeeps
<1>4. CASE Fit \/ FitFails \/ Text \/ ReadFails \/ Complete
  BY <1>4, FitKeeps, FitFailsKeeps, TextKeeps, ReadFailsKeeps, CompleteKeeps
<1>5. ASSUME NEW c \in Candidates, Accept(c) \/ Retry(c) \/ Exhaust(c)  PROVE ServiceInv'
  BY <1>5, AcceptKeeps, RetryKeeps, ExhaustKeeps
<1>6. CASE Delta \/ Done \/ Error \/ Leave
  BY <1>6, DeltaKeeps, DoneKeeps, ErrorKeeps, LeaveKeeps
<1>7. CASE UNCHANGED serviceVars
  BY <1>7 DEF serviceVars, ServiceInv, ServiceTypeOK, BestIsBest, SourceIsSafe, Progress,
              Endings, OneSource, ChunksAreCurrent
<1> QED  BY <1>1, <1>2, <1>3, <1>4, <1>5, <1>6, <1>7 DEF ServiceNext, ServiceStep

\* The invariant of a request in ChatService.
THEOREM ServiceInvariant == ServiceSpec => []ServiceInv
  BY ServiceStarts, ServiceKeeps, PTL DEF ServiceSpec

\* Types, for any bounds.
THEOREM ServiceTyped == ServiceSpec => []ServiceTypeOK
<1>1. ServiceInv => ServiceTypeOK
  BY DEF ServiceInv
<1> QED  BY <1>1, ServiceInvariant, PTL

\* Only text that was read to its end and validated leaves, whole, and no failure
\* of a correction costs a safe answer in style.
THEOREM AnswersStand == ServiceSpec => []AnswerStands
<1>1. ServiceInv => AnswerStands
  BY DEF ServiceInv, ServiceTypeOK, SourceIsSafe, Progress, Endings, OneSource,
         ChunksAreCurrent, AnswerStands, OnlyValidated, StyleNeverCosts
<1> QED  BY <1>1, ServiceInvariant, PTL

\* A step of ChatService is a step of the contract or none.
LEMMA StepIsContract ==
    ASSUME ServiceInv, [ServiceNext]_serviceVars
    PROVE  [Reply!Say \/ Reply!Leave]_<<said, left>>
<1> USE DEF Reply!Say, Reply!Leave, Reply!May, Reply!After, Reply!Latest
<1>1. CASE InvalidChoice \/ AskBack \/ Fixed \/ \E r \in Selected : Begin(r)
  BY <1>1 DEF ServiceInv, Progress, InvalidChoice, AskBack, Fixed, Begin, Yield
<1>2. CASE Clarify
  <2>1. said = <<"start">> /\ ~left
    BY <1>2 DEF ServiceInv, Progress, Clarify
  <2>2. Len(said) = 1 /\ said[Len(said)] = "start" /\ said # <<>>
    BY <2>1
  <2> QED  BY <1>2, <2>1, <2>2 DEF Clarify, Yield
<1>5. CASE Delta
  <2>1. Len(said) <= MaxPieces /\ said # <<>> /\ said[Len(said)] \in {"start", "delta"} /\ ~left
    BY <1>5 DEF ServiceInv, ServiceTypeOK, Progress, Delta
  <2> QED  BY <1>5, <2>1 DEF Delta, Yield
<1>6. CASE Done
  BY <1>6 DEF ServiceInv, ServiceTypeOK, Progress, Done, Yield
<1>7. CASE Error
  <2>1. said = <<"start">> /\ ~left
    BY <1>7 DEF ServiceInv, Progress, Error
  <2>2. Len(said) = 1 /\ said[Len(said)] = "start" /\ said # <<>>
    BY <2>1
  <2> QED  BY <1>7, <2>1, <2>2 DEF Error, Yield
<1>3. CASE Leave
  BY <1>3 DEF Leave
<1>4. CASE \/ \E found \in BOOLEAN : Lookup(found)
           \/ Fit \/ FitFails \/ Text \/ ReadFails \/ Complete
           \/ \E c \in Candidates : Accept(c) \/ Retry(c) \/ Exhaust(c)
           \/ UNCHANGED serviceVars
  BY <1>4 DEF Lookup, Fit, FitFails, Text, ReadFails, Complete, Accept, Retry, Exhaust,
              Reviewed, serviceVars
<1> QED  BY <1>1, <1>2, <1>3, <1>4, <1>5, <1>6, <1>7 DEF ServiceNext, ServiceStep

\* What the routes read from ChatService is a start and then an error, or texts or a
\* clarification and the end; nothing follows the end, and nothing a departure.
THEOREM ServiceKeepsContract == ServiceSpec => Reply!Ordered
<1>1. ServiceInit => Reply!Init
  BY DEF ServiceInit, Reply!Init
<1> QED  BY <1>1, StepIsContract, ServiceInvariant, PTL DEF ServiceSpec, Reply!Ordered

HIDE ServiceAssumption
    DEF Safe, Attempts, Thinking, Routes, Asking, OneAttempt, TwoAttempts, Selected,
        ServiceStages, Reply!Events, reading, letOut

(***************************************************************************)
(* ReplyStream: sent, queue and hand together are what ChatService has     *)
(* yielded, with the sentinel perhaps after it, until the server's thread  *)
(* leaves.                                                                 *)
(***************************************************************************)
Item == Events \cup {"sentinel"}

Carried(r) == sent[r] \o queue[r] \o hand[r]

\* Without a pump a frame goes straight from ChatService to the server.
InlineOK(r) ==
    /\ pump[r] = "none" /\ queue[r] = <<>> /\ hand[r] = <<>> /\ ~stop[r]
    /\ web[r] \notin {"leaving", "joining"}
    /\ sent[r] = yielded[r]
    /\ web[r] = "closing" /\ ~gone[r] => Exhausted(r)

\* How far the two threads can be apart.
ThreadsMeet(r) ==
    /\ web[r] \in {"idle", "admitted", "response"} => pump[r] = "none"
    /\ pump[r] = "none" => /\ web[r] \in {"idle", "admitted", "response", "over"}
                           /\ ~stop[r] /\ yielded[r] = <<>>
                           /\ queue[r] = <<>> /\ hand[r] = <<>>
    /\ stop[r] => web[r] \in {"joining", "closing", "over"}
    /\ web[r] \in {"joining", "closing"} => stop[r]
    /\ hand[r] = <<>> <=> pump[r] \notin {"putting", "waiting"}
    /\ hand[r] = <<>> \/ hand[r] = Sentinel \/ \E e \in Events : hand[r] = <<e>>

\* What is under way, and that the sentinel is the last of it.
Flow(r) ==
    /\ IsPrefix(sent[r], yielded[r])
    /\ ~stop[r] => \/ Carried(r) = yielded[r] /\ hand[r] # Sentinel
                   \/ /\ Carried(r) = yielded[r] \o Sentinel
                      /\ pump[r] = "over" \/ hand[r] = Sentinel
    /\ ~stop[r] /\ (pump[r] \in {"closing", "over"} \/ hand[r] = Sentinel) => Exhausted(r)
    /\ web[r] \in {"leaving", "joining", "closing"} /\ ~gone[r] =>
          Exhausted(r) /\ sent[r] = yielded[r]

SlotHeld(r) == web[r] \notin {"idle", "over"} => r \in held

RequestOK(r) ==
    /\ SlotHeld(r)
    /\ r \in Pumped => ThreadsMeet(r) /\ Flow(r)
    /\ r \notin Pumped => InlineOK(r)

ReplyInv == ReplyTypeOK /\ \A r \in Requests : RequestOK(r)

----------------------------------------------------------------------------
(* Sequences of events, and the sentinel after them.                        *)

LEMMA ItemFacts ==
  /\ Events \subseteq Item /\ "sentinel" \in Item /\ "sentinel" \notin Events
  /\ Sentinel \in Seq(Item) /\ Len(Sentinel) = 1 /\ Sentinel[1] = "sentinel"
  /\ \A e \in Events : <<e>> \in Seq(Item) /\ <<e>> # Sentinel /\ Len(<<e>>) = 1 /\ <<e>> # <<>>
  /\ Sentinel # <<>>
  <1>1. Events \subseteq Item /\ "sentinel" \in Item /\ "sentinel" \notin Events
    BY DEF Item, Events, Chat!Events
  <1>2. Len(Sentinel) = 1 /\ Sentinel[1] = "sentinel" /\ Sentinel # <<>>
    BY DEF Sentinel
  <1>3. Sentinel \in Seq(Item)
    BY <1>1 DEF Sentinel
  <1>4. ASSUME NEW e \in Events
        PROVE  <<e>> \in Seq(Item) /\ <<e>> # Sentinel /\ Len(<<e>>) = 1 /\ <<e>> # <<>>
    <2>1. e # "sentinel" /\ e \in Item
      BY <1>1
    <2>2. <<e>>[1] = e /\ Len(<<e>>) = 1 /\ <<e>> # <<>>
      OBVIOUS
    <2>3. <<e>> \in Seq(Item)
      BY <2>1
    <2> QED BY <1>2, <2>1, <2>2, <2>3
  <1> QED BY <1>1, <1>2, <1>3, <1>4

LEMMA EventsAreItems ==
  ASSUME NEW s \in Seq(Events) PROVE s \in Seq(Item)
  BY ItemFacts, SeqMonotonic

LEMMA AfterTheSentinel ==
  ASSUME NEW y \in Seq(Item)
  PROVE  /\ Len(y \o Sentinel) = Len(y) + 1
         /\ \A i \in 1..Len(y) + 1 :
               (y \o Sentinel)[i] = IF i <= Len(y) THEN y[i] ELSE Sentinel[i - Len(y)]
  <1>1. Sentinel \in Seq(Item) /\ Len(Sentinel) = 1
    BY ItemFacts
  <1>2. /\ Len(y \o Sentinel) = Len(y) + Len(Sentinel)
        /\ \A i \in 1..Len(y) + Len(Sentinel) :
              (y \o Sentinel)[i] = IF i <= Len(y) THEN y[i] ELSE Sentinel[i - Len(y)]
    BY <1>1, ConcatProperties
  <1> QED BY <1>1, <1>2

\* What comes before the rest of a reply is a beginning of the reply.
LEMMA PrefixOfFlow ==
  ASSUME NEW s \in Seq(Events), NEW y \in Seq(Events), NEW x \in Seq(Item),
         s \o x = y \/ s \o x = y \o Sentinel
  PROVE  IsPrefix(s, y)
  <1>1. s \in Seq(Item) /\ y \in Seq(Item)
    BY EventsAreItems
  <1>2. Len(s) \in Nat /\ Len(y) \in Nat /\ Len(x) \in Nat
    BY LenProperties
  <1>3. /\ Len(s \o x) = Len(s) + Len(x)
        /\ \A i \in 1..Len(s) + Len(x) : (s \o x)[i] = IF i <= Len(s) THEN s[i] ELSE x[i - Len(s)]
    BY <1>1, ConcatProperties
  <1>4. /\ Len(y \o Sentinel) = Len(y) + 1
        /\ \A i \in 1..Len(y) + 1 :
              (y \o Sentinel)[i] = IF i <= Len(y) THEN y[i] ELSE Sentinel[i - Len(y)]
    BY <1>1, AfterTheSentinel
  <1>5. \A i \in 1..Len(s) : i <= Len(y) /\ s[i] = y[i]
    <2> SUFFICES ASSUME NEW i \in 1..Len(s) PROVE i <= Len(y) /\ s[i] = y[i]
      OBVIOUS
    <2>1. s[i] \in Events /\ (s \o x)[i] = s[i]
      BY <1>2, <1>3, ElementOfSeq
    <2>2. CASE s \o x = y
      BY <1>2, <1>3, <2>1, <2>2
    <2>3. CASE s \o x = y \o Sentinel
      <3>1. i \in 1..Len(y) + 1
        BY <1>2, <1>3, <1>4, <2>3
      <3>2. i # Len(y) + 1
        BY <1>2, <1>4, <2>1, <2>3, <3>1, ItemFacts
      <3> QED BY <1>2, <1>4, <2>1, <2>3, <3>1, <3>2
    <2> QED BY <2>2, <2>3
  <1>6. Len(s) <= Len(y)
    BY <1>2, <1>5
  <1>7. SubSeq(s, 1, Len(s)) = SubSeq(y, 1, Len(s))
    BY <1>2, <1>5, <1>6, SubSeqProperties, SeqEqual, LenProperties, ElementOfSeq
  <1> QED BY <1>6, <1>7 DEF IsPrefix

\* A prefix stays one when the reply goes on.
LEMMA PrefixGrows ==
  ASSUME NEW s \in Seq(Events), NEW y \in Seq(Events), NEW e \in Events, IsPrefix(s, y)
  PROVE  IsPrefix(s, Append(y, e))
  <1>1. Len(s) \in Nat /\ Len(y) \in Nat /\ Len(s) <= Len(y)
    BY LenProperties DEF IsPrefix
  <1>2. /\ Append(y, e) \in Seq(Events) /\ Len(Append(y, e)) = Len(y) + 1
        /\ \A i \in 1..Len(y) : Append(y, e)[i] = y[i]
    BY AppendProperties
  <1>3. SubSeq(y, 1, Len(s)) = SubSeq(Append(y, e), 1, Len(s))
    <2>1. /\ SubSeq(y, 1, Len(s)) \in Seq(Events) /\ SubSeq(Append(y, e), 1, Len(s)) \in Seq(Events)
          /\ Len(SubSeq(y, 1, Len(s))) = Len(s) /\ Len(SubSeq(Append(y, e), 1, Len(s))) = Len(s)
          /\ \A i \in 1..Len(s) : /\ SubSeq(y, 1, Len(s))[i] = y[i]
                                  /\ SubSeq(Append(y, e), 1, Len(s))[i] = Append(y, e)[i]
      BY <1>1, <1>2, LenProperties, ElementOfSeq
    <2> QED BY <1>1, <1>2, <2>1, SeqEqual
  <1> QED BY <1>1, <1>2, <1>3 DEF IsPrefix

\* The queue's head has only to change sides.
LEMMA HeadMoves ==
  ASSUME NEW s \in Seq(Item), NEW q \in Seq(Item), NEW h \in Seq(Item), q # <<>>
  PROVE  Append(s, Head(q)) \o Tail(q) \o h = s \o q \o h
  <1>1. Head(q) \in Item /\ Tail(q) \in Seq(Item) /\ Len(q) \in Nat \ {0}
    BY HeadTailProperties, EmptySeq
  <1>2. Append(s, Head(q)) = s \o <<Head(q)>> /\ <<Head(q)>> \in Seq(Item)
    BY <1>1, AppendIsConcat
  <1>3. <<Head(q)>> \o Tail(q) = q
    <2>1. q = SubSeq(q, 1, Len(q)) /\ Head(q) = q[1] /\ Tail(q) = SubSeq(q, 2, Len(q))
      BY SubSeqFull, TailIsSubSeq
    <2>2. SubSeq(q, 1, Len(q)) = <<q[1]>> \o SubSeq(q, 1 + 1, Len(q))
      BY <1>1, SubSeqRecursiveFirst
    <2> QED BY <2>1, <2>2
  <1>4. (s \o <<Head(q)>>) \o Tail(q) = s \o q
    BY <1>1, <1>2, <1>3, ConcatAssociative
  <1> QED BY <1>2, <1>4

\* When the sentinel is at the head there is nothing else, and all is said.
LEMMA SentinelIsLast ==
  ASSUME NEW s \in Seq(Events), NEW y \in Seq(Events), NEW q \in Seq(Item), NEW h \in Seq(Item),
         q # <<>>, Head(q) \notin Events, s \o q \o h \in {y, y \o Sentinel}
  PROVE  s = y /\ Tail(q) = <<>> /\ h = <<>>
  <1>1. s \in Seq(Item) /\ y \in Seq(Item) /\ s \o q \in Seq(Item)
    BY EventsAreItems, ConcatProperties
  <1>2. Len(s) \in Nat /\ Len(y) \in Nat /\ Len(q) \in Nat /\ Len(q) >= 1 /\ Len(h) \in Nat
        /\ Head(q) = q[1]
    BY LenProperties, EmptySeq
  <1>3. /\ Len(s \o q \o h) = Len(s) + Len(q) + Len(h)
        /\ \A i \in 1..Len(s) : (s \o q \o h)[i] = s[i]
        /\ (s \o q \o h)[Len(s) + 1] = q[1]
    BY <1>1, <1>2, ConcatProperties
  <1>4. /\ Len(y \o Sentinel) = Len(y) + 1
        /\ \A i \in 1..Len(y) : (y \o Sentinel)[i] = y[i]
    BY <1>1, <1>2, AfterTheSentinel
  <1>5. \A i \in 1..Len(y) : y[i] \in Events
    BY ElementOfSeq
  <1>6. s \o q \o h # y
    <2> SUFFICES ASSUME s \o q \o h = y PROVE FALSE
      OBVIOUS
    <2>1. Len(s) + 1 \in 1..Len(y)
      BY <1>2, <1>3
    <2> QED BY <1>2, <1>3, <1>5, <2>1
  <1>7. s \o q \o h = y \o Sentinel
    BY <1>6
  <1>8. Len(s) = Len(y) /\ Len(q) = 1 /\ Len(h) = 0
    <2>1. Len(s) + Len(q) + Len(h) = Len(y) + 1
      BY <1>3, <1>4, <1>7
    <2>2. Len(s) >= Len(y)
      <3> SUFFICES ASSUME Len(s) < Len(y) PROVE FALSE
        BY <1>2
      <3>1. Len(s) + 1 \in 1..Len(y)
        BY <1>2
      <3>2. (s \o q \o h)[Len(s) + 1] \in Events
        BY <1>4, <1>5, <1>7, <3>1
      <3> QED BY <1>2, <1>3, <3>2
    <2>3. \A a, b, c, d \in Nat :
              c >= 1 /\ a + c + d = b + 1 /\ a >= b => a = b /\ c = 1 /\ d = 0
      OBVIOUS
    <2> QED BY <1>2, <2>1, <2>2, <2>3
  <1>9. s = y
    BY <1>2, <1>3, <1>4, <1>7, <1>8, SeqEqual
  <1>10. Tail(q) = <<>> /\ h = <<>>
    BY <1>8, HeadTailProperties, EmptySeq
  <1> QED BY <1>9, <1>10
----------------------------------------------------------------------------
(* Steps.                                                                   *)

\* Nothing is said after the end.
LEMMA NoMoreAfterEnd ==
  ASSUME NEW s \in Seq(Events), NEW e \in Events, Chat!May(s, e)
  PROVE  ~Chat!Ended(s)
  BY EmptySeq, ElementOfSeq DEF Chat!May, Chat!Ended, Chat!Latest, Chat!After, Events, Chat!Events

\* A step of request r leaves the others alone.
Untouched(r) == \A q \in Requests \ {r} :
    /\ web'[q] = web[q] /\ pump'[q] = pump[q] /\ queue'[q] = queue[q] /\ hand'[q] = hand[q]
    /\ stop'[q] = stop[q] /\ gone'[q] = gone[q]
    /\ yielded'[q] = yielded[q] /\ sent'[q] = sent[q] /\ (q \in held => q \in held')

LEMMA OthersKeep ==
  ASSUME ReplyInv, NEW r \in Requests, Untouched(r), ReplyTypeOK', RequestOK(r)'
  PROVE  ReplyInv'
  <1>1. ASSUME NEW q \in Requests, q # r PROVE RequestOK(q)'
    <2>1. RequestOK(q)
      BY DEF ReplyInv
    <2>2. /\ web'[q] = web[q] /\ pump'[q] = pump[q] /\ queue'[q] = queue[q]
          /\ hand'[q] = hand[q] /\ stop'[q] = stop[q] /\ gone'[q] = gone[q]
          /\ yielded'[q] = yielded[q] /\ sent'[q] = sent[q] /\ (q \in held => q \in held')
      BY <1>1 DEF Untouched
    <2> QED BY <2>1, <2>2 DEF RequestOK, SlotHeld, ThreadsMeet, Flow, InlineOK, Carried,
                              Exhausted, Chat!Ended, Chat!Latest
  <1> QED BY <1>1 DEF ReplyInv

\* The steps in which only the server's thread moves.
LEMMA ServerMoves ==
  ASSUME ReplyInv, NEW r \in Requests,
         \/ Admit(r) \/ ProviderFails(r) \/ Respond(r) \/ CloseUnstarted(r)
         \/ InlineEnd(r) \/ IdleFrame(r) \/ Written(r) \/ Join(r) \/ GenerateEnds(r)
  PROVE  ReplyInv'
  <1> USE DEF ReplyInv, ReplyTypeOK, WebGoes, GiveBack, pipe, slots
  <1>1. UNCHANGED <<pump, queue, hand, stop, yielded, sent, gone>>
    BY DEF Admit, ProviderFails, Respond, CloseUnstarted, InlineEnd, IdleFrame, Written, Join,
           GenerateEnds
  <1>2. \/ web[r] = "idle" /\ web' = [web EXCEPT ![r] = "admitted"]
        \/ web[r] = "admitted" /\ web' = [web EXCEPT ![r] = "response"]
        \/ web[r] \in {"admitted", "response"} /\ web' = [web EXCEPT ![r] = "over"]
        \/ /\ web[r] = "serving" /\ r \notin Pumped /\ Exhausted(r)
           /\ web' = [web EXCEPT ![r] = "closing"]
        \/ web[r] = "serving" /\ web' = [web EXCEPT ![r] = "writing"]
        \/ web[r] = "writing" /\ web' = [web EXCEPT ![r] = "serving"]
        \/ web[r] = "joining" /\ web' = [web EXCEPT ![r] = "closing"]
        \/ web[r] = "closing" /\ web' = [web EXCEPT ![r] = "over"]
    BY DEF Admit, ProviderFails, Respond, CloseUnstarted, InlineEnd, IdleFrame, Written, Join,
           GenerateEnds
  <1>3. /\ held' \subseteq Requests /\ past' \subseteq Requests
        /\ \A q \in Requests \ {r} : q \in held => q \in held'
        /\ web'[r] \notin {"idle", "over"} => r \in held'
    BY DEF Admit, ProviderFails, Respond, CloseUnstarted, InlineEnd, IdleFrame, Written, Join,
           GenerateEnds, Pool!Acquire, RequestOK, SlotHeld
  <1>4. ReplyTypeOK'
    BY <1>1, <1>2, <1>3 DEF WebStages
  <1>5. Untouched(r)
    BY <1>1, <1>2, <1>3 DEF Untouched
  <1>6. RequestOK(r)'
    <2>1. SlotHeld(r)'
      BY <1>3 DEF SlotHeld
    <2>2. ASSUME r \in Pumped PROVE ThreadsMeet(r)' /\ Flow(r)'
      BY <1>1, <1>2, <2>2 DEF RequestOK, ThreadsMeet, Flow, Carried, Exhausted, Chat!Ended,
                              Chat!Latest
    <2>3. ASSUME r \notin Pumped PROVE InlineOK(r)'
      BY <1>1, <1>2, <2>3 DEF RequestOK, InlineOK, Exhausted, Chat!Ended, Chat!Latest
    <2> QED BY <2>1, <2>2, <2>3 DEF RequestOK
  <1> QED BY <1>4, <1>5, <1>6, OthersKeep

LEMMA GenerateKeeps ==
  ASSUME ReplyInv, NEW r \in Requests, Generate(r)
  PROVE  ReplyInv'
  <1> USE DEF ReplyInv, ReplyTypeOK, WebGoes, PumpGoes, pipe, slots, Generate
  <1>1. ReplyTypeOK'
    BY DEF WebStages, PumpStages
  <1>2. Untouched(r)
    BY DEF Untouched
  <1>3. web[r] = "response" /\ web'[r] = "serving" /\ SlotHeld(r)'
    BY DEF RequestOK, SlotHeld
  <1>4. ASSUME r \in Pumped PROVE ThreadsMeet(r)' /\ Flow(r)'
    <2>1. ThreadsMeet(r) /\ Flow(r) /\ pump[r] = "none" /\ pump'[r] = "working"
      BY <1>3, <1>4 DEF RequestOK, ThreadsMeet
    <2> QED BY <1>3, <2>1 DEF ThreadsMeet, Flow, Carried, Exhausted, Chat!Ended, Chat!Latest
  <1>5. ASSUME r \notin Pumped PROVE InlineOK(r)'
    <2>1. InlineOK(r) /\ pump' = pump
      BY <1>5 DEF RequestOK
    <2> QED BY <1>3, <2>1 DEF InlineOK
  <1>6. RequestOK(r)'
    BY <1>3, <1>4, <1>5 DEF RequestOK
  <1> QED BY <1>1, <1>2, <1>6, OthersKeep

LEMMA DisconnectKeeps ==
  ASSUME ReplyInv, NEW r \in Requests, Disconnect(r)
  PROVE  ReplyInv'
  <1> USE DEF ReplyInv, ReplyTypeOK, WebGoes, pipe, slots, Disconnect
  <1>1. ReplyTypeOK'
    BY DEF WebStages
  <1>2. Untouched(r)
    BY DEF Untouched
  <1>3. RequestOK(r)'
    BY DEF RequestOK, SlotHeld, ThreadsMeet, Flow, InlineOK, Carried, Exhausted, Chat!Ended,
           Chat!Latest
  <1> QED BY <1>1, <1>2, <1>3, OthersKeep

LEMMA StopKeeps ==
  ASSUME ReplyInv, NEW r \in Requests, StopPump(r)
  PROVE  ReplyInv'
  <1> USE DEF ReplyInv, ReplyTypeOK, WebGoes, slots, StopPump
  <1>1. ReplyTypeOK'
    BY DEF WebStages
  <1>2. Untouched(r)
    BY DEF Untouched
  <1>3. r \in Pumped
    BY DEF RequestOK, InlineOK
  <1>4. RequestOK(r)'
    BY <1>3 DEF RequestOK, SlotHeld, ThreadsMeet, Flow, Carried, Exhausted, Chat!Ended, Chat!Latest
  <1> QED BY <1>1, <1>2, <1>4, OthersKeep

LEMMA InlineEventKeeps ==
  ASSUME ReplyInv, NEW r \in Requests, InlineEvent(r)
  PROVE  ReplyInv'
  <1> USE DEF ReplyInv, ReplyTypeOK, WebGoes, pipe, slots
  <1>1. PICK e \in Events : /\ yielded' = [yielded EXCEPT ![r] = Append(@, e)]
                            /\ sent' = [sent EXCEPT ![r] = Append(@, e)]
    BY DEF InlineEvent, Yields
  <1>2. /\ r \notin Pumped /\ web[r] = "serving" /\ web' = [web EXCEPT ![r] = "writing"]
        /\ UNCHANGED <<held, past, pump, queue, stop, hand, gone>>
    BY DEF InlineEvent
  <1>3. ReplyTypeOK'
    <2>1. Append(yielded[r], e) \in Seq(Events) /\ Append(sent[r], e) \in Seq(Events)
      BY AppendProperties
    <2> QED BY <1>1, <1>2, <2>1 DEF WebStages
  <1>4. Untouched(r)
    BY <1>1, <1>2 DEF Untouched
  <1>5. RequestOK(r)'
    BY <1>1, <1>2 DEF RequestOK, SlotHeld, InlineOK
  <1> QED BY <1>3, <1>4, <1>5, OthersKeep

\* What the server's thread takes from the queue it has, and nothing changes in between.
LEMMA TakeEventKeeps ==
  ASSUME ReplyInv, NEW r \in Requests, TakeEvent(r)
  PROVE  ReplyInv'
  <1> USE DEF ReplyInv, ReplyTypeOK, WebGoes, slots
  <1> DEFINE e == Head(queue[r])
  <1>1. /\ web[r] = "serving" /\ queue[r] # <<>> /\ e \in Events
        /\ queue' = [queue EXCEPT ![r] = Tail(@)]
        /\ sent' = [sent EXCEPT ![r] = Append(@, e)]
        /\ web' = [web EXCEPT ![r] = "writing"]
        /\ UNCHANGED <<held, past, pump, stop, hand, yielded, gone>>
    BY DEF TakeEvent
  <1>2. /\ queue[r] \in Seq(Item) /\ hand[r] \in Seq(Item)
        /\ sent[r] \in Seq(Events) /\ yielded[r] \in Seq(Events)
    BY DEF Item
  <1>3. r \in Pumped /\ ThreadsMeet(r) /\ Flow(r) /\ pump[r] # "none" /\ ~stop[r]
    BY <1>1 DEF RequestOK, InlineOK, ThreadsMeet
  <1>4. /\ Tail(queue[r]) \in Seq(Item) /\ Len(Tail(queue[r])) = Len(queue[r]) - 1
        /\ Append(sent[r], e) \in Seq(Events) /\ Len(queue[r]) \in Nat
    BY <1>1, <1>2, HeadTailProperties, AppendProperties, LenProperties
  <1>5. ReplyTypeOK'
    <2>1. Len(Tail(queue[r])) <= QueueSize
      BY <1>4, ReplyAssumption
    <2> QED BY <1>1, <1>4, <2>1 DEF WebStages, Item
  <1>6. Untouched(r)
    BY <1>1 DEF Untouched
  <1>7. sent'[r] = Append(sent[r], e) /\ queue'[r] = Tail(queue[r]) /\ Carried(r)' = Carried(r)
    <2>1. Append(sent[r], e) \o Tail(queue[r]) \o hand[r] = sent[r] \o queue[r] \o hand[r]
      BY <1>1, <1>2, EventsAreItems, HeadMoves
    <2> QED BY <1>1, <2>1 DEF Carried
  <1>8. IsPrefix(sent[r], yielded[r])'
    <2>1. sent'[r] \in Seq(Events)
      BY <1>4, <1>7
    <2>2. sent'[r] \o (queue'[r] \o hand[r]) = Carried(r)' /\ queue'[r] \o hand[r] \in Seq(Item)
      <3>1. sent'[r] \in Seq(Item) /\ queue'[r] \in Seq(Item) /\ hand[r] \in Seq(Item)
        BY <1>2, <1>4, <1>7, <2>1, EventsAreItems
      <3>2. \A s, q, h \in Seq(Item) : (s \o q) \o h = s \o (q \o h)
        BY ConcatAssociative
      <3>3. queue'[r] \o hand[r] \in Seq(Item)
        BY <1>2, <3>1, ConcatProperties
      <3>4. Carried(r)' = (sent'[r] \o queue'[r]) \o hand[r]
        BY <1>1 DEF Carried
      <3>5. (sent'[r] \o queue'[r]) \o hand[r] = sent'[r] \o (queue'[r] \o hand[r])
        BY <3>1, <3>2
      <3> QED BY <3>3, <3>4, <3>5
    <2> QED BY <1>1, <1>2, <1>3, <1>7, <2>1, <2>2, PrefixOfFlow DEF Flow
  <1>9. ThreadsMeet(r)'
    BY <1>1, <1>3 DEF ThreadsMeet
  <1>10. Flow(r)'
    BY <1>1, <1>3, <1>7, <1>8 DEF Flow, Exhausted, Chat!Ended, Chat!Latest
  <1>11. RequestOK(r)'
    BY <1>1, <1>3, <1>9, <1>10 DEF RequestOK, SlotHeld
  <1> QED BY <1>5, <1>6, <1>11, OthersKeep

\* The sentinel is taken when everything else has been.
LEMMA TakeSentinelKeeps ==
  ASSUME ReplyInv, NEW r \in Requests, TakeSentinel(r)
  PROVE  ReplyInv'
  <1> USE DEF ReplyInv, ReplyTypeOK, WebGoes, slots
  <1>1. /\ web[r] = "serving" /\ queue[r] # <<>> /\ Head(queue[r]) \notin Events
        /\ queue' = [queue EXCEPT ![r] = Tail(@)]
        /\ web' = [web EXCEPT ![r] = "leaving"]
        /\ UNCHANGED <<held, past, pump, stop, hand, yielded, sent, gone>>
    BY DEF TakeSentinel
  <1>2. /\ queue[r] \in Seq(Item) /\ hand[r] \in Seq(Item)
        /\ sent[r] \in Seq(Events) /\ yielded[r] \in Seq(Events)
    BY DEF Item
  <1>3. r \in Pumped /\ ThreadsMeet(r) /\ Flow(r) /\ pump[r] # "none" /\ ~stop[r]
    BY <1>1 DEF RequestOK, InlineOK, ThreadsMeet
  <1>4. sent[r] = yielded[r] /\ Tail(queue[r]) = <<>> /\ hand[r] = <<>>
    <2>1. sent[r] \o queue[r] \o hand[r] \in {yielded[r], yielded[r] \o Sentinel}
      BY <1>3 DEF Flow, Carried
    <2>2. queue[r] # <<>> /\ Head(queue[r]) \notin Events
      BY <1>1
    <2> QED BY <1>2, <2>1, <2>2, SentinelIsLast
  <1>5. pump[r] = "over" /\ Exhausted(r)
    <2>1. sent[r] \in Seq(Item) /\ queue[r] \in Seq(Item)
      BY <1>2, EventsAreItems
    <2>2. sent[r] \o queue[r] # sent[r]
      BY <1>1, <2>1, ConcatEqualIffEmpty
    <2>3. Carried(r) = sent[r] \o queue[r]
      BY <1>4, <2>1, ConcatProperties, ConcatEmptySeq DEF Carried
    <2>4. Carried(r) # yielded[r]
      BY <1>4, <2>2, <2>3
    <2> QED BY <1>3, <1>4, <2>4, ItemFacts DEF Flow
  <1>6. ReplyTypeOK'
    BY <1>1, <1>4, EmptySeq, ReplyAssumption DEF WebStages
  <1>7. Untouched(r)
    BY <1>1 DEF Untouched
  <1>8. Carried(r)' = yielded'[r] /\ IsPrefix(sent[r], yielded[r])'
    <2>1. yielded[r] \o <<>> \o <<>> = yielded[r]
      BY <1>2, ConcatEmptySeq
    <2> QED BY <1>1, <1>3, <1>4, <2>1 DEF Carried, Flow
  <1>9. ThreadsMeet(r)'
    BY <1>1, <1>3, <1>4, <1>5 DEF ThreadsMeet
  <1>10. Flow(r)'
    BY <1>1, <1>3, <1>4, <1>5, <1>8, ItemFacts DEF Flow, Exhausted, Chat!Ended, Chat!Latest
  <1>11. RequestOK(r)'
    BY <1>1, <1>3, <1>9, <1>10 DEF RequestOK, SlotHeld
  <1> QED BY <1>6, <1>7, <1>11, OthersKeep

\* What changes in the pump's hand when the server's thread may still take it.
LEMMA PullKeeps ==
  ASSUME ReplyInv, NEW r \in Requests, Pull(r)
  PROVE  ReplyInv'
  <1> USE DEF ReplyInv, ReplyTypeOK, PumpGoes, slots
  <1>1. PICK e \in Events :
           /\ Chat!May(yielded[r], e) /\ yielded' = [yielded EXCEPT ![r] = Append(@, e)]
           /\ \/ stop[r] /\ pump' = [pump EXCEPT ![r] = "closing"] /\ hand' = hand
              \/ /\ ~stop[r] /\ pump' = [pump EXCEPT ![r] = "putting"]
                 /\ hand' = [hand EXCEPT ![r] = <<e>>]
    BY DEF Pull, Yields
  <1>2. pump[r] = "working" /\ UNCHANGED <<held, past, web, queue, stop, sent, gone>>
    BY DEF Pull
  <1>3. r \in Pumped /\ ThreadsMeet(r) /\ Flow(r) /\ hand[r] = <<>>
    BY <1>2 DEF RequestOK, InlineOK, ThreadsMeet
  <1>4. /\ queue[r] \in Seq(Item) /\ sent[r] \in Seq(Events) /\ yielded[r] \in Seq(Events)
        /\ Append(yielded[r], e) \in Seq(Events) /\ <<e>> \in Seq(Item)
    BY AppendProperties, ItemFacts DEF Item
  <1>5. ReplyTypeOK'
    BY <1>1, <1>2, <1>4 DEF PumpStages, Item
  <1>6. Untouched(r)
    BY <1>1, <1>2 DEF Untouched
  <1>7. /\ IsPrefix(sent[r], yielded[r])' /\ ~Chat!Ended(yielded[r])
        /\ yielded'[r] = Append(yielded[r], e)
    BY <1>1, <1>2, <1>3, <1>4, PrefixGrows, NoMoreAfterEnd DEF Flow
  <1>8. ThreadsMeet(r)'
    BY <1>1, <1>2, <1>3, <1>7, ItemFacts DEF ThreadsMeet
  <1>9. ~stop[r] => Carried(r)' = yielded'[r] /\ hand'[r] # Sentinel
    <2> SUFFICES ASSUME ~stop[r] PROVE Carried(r)' = yielded'[r] /\ hand'[r] # Sentinel
      OBVIOUS
    <2>1. sent[r] \in Seq(Item) /\ yielded[r] \in Seq(Item) /\ sent[r] \o queue[r] \in Seq(Item)
      BY <1>4, EventsAreItems, ConcatProperties
    <2>2. Carried(r) = yielded[r]
      BY <1>2, <1>3, ItemFacts DEF Flow
    <2>3. sent[r] \o queue[r] = yielded[r]
      BY <1>3, <2>1, <2>2, ConcatEmptySeq DEF Carried
    <2>4. yielded[r] \o <<e>> = Append(yielded[r], e)
      BY <1>4, AppendIsConcat
    <2> QED BY <1>1, <1>2, <1>7, <2>3, <2>4, ItemFacts DEF Carried
  <1>10. Flow(r)'
    <2>1. hand'[r] # Sentinel /\ pump'[r] \notin {"over"} /\ (~stop[r] => pump'[r] = "putting")
      BY <1>1, <1>3, ItemFacts
    <2>2. web[r] \in {"leaving", "joining", "closing"} => gone[r]
      BY <1>3, <1>7 DEF Flow, Exhausted
    <2> QED BY <1>2, <1>7, <1>9, <2>1, <2>2 DEF Flow
  <1>11. RequestOK(r)'
    BY <1>2, <1>3, <1>8, <1>10 DEF RequestOK, SlotHeld
  <1> QED BY <1>5, <1>6, <1>11, OthersKeep

\* ChatService has ended; its generator is closed.
LEMMA PumpEndKeeps ==
  ASSUME ReplyInv, NEW r \in Requests, PullEnd(r)
  PROVE  ReplyInv'
  <1> USE DEF ReplyInv, ReplyTypeOK, PumpGoes, slots, pipe, PullEnd
  <1>1. r \in Pumped /\ ThreadsMeet(r) /\ Flow(r) /\ hand[r] = <<>>
    BY DEF RequestOK, InlineOK, ThreadsMeet
  <1>2. ReplyTypeOK'
    BY DEF PumpStages
  <1>3. Untouched(r)
    BY DEF Untouched
  <1>4. ThreadsMeet(r)'
    BY <1>1 DEF ThreadsMeet
  <1>5. Flow(r)'
    BY <1>1, ItemFacts DEF Flow, Carried, Exhausted, Chat!Ended, Chat!Latest
  <1>6. RequestOK(r)'
    BY <1>1, <1>4, <1>5 DEF RequestOK, SlotHeld
  <1> QED BY <1>2, <1>3, <1>6, OthersKeep

LEMMA PumpClosesKeeps ==
  ASSUME ReplyInv, NEW r \in Requests, PumpCloses(r)
  PROVE  ReplyInv'
  <1> USE DEF ReplyInv, ReplyTypeOK, PumpGoes, slots, PumpCloses
  <1>1. r \in Pumped /\ ThreadsMeet(r) /\ Flow(r) /\ hand[r] = <<>>
    BY DEF RequestOK, InlineOK, ThreadsMeet
  <1>2. ReplyTypeOK'
    BY ItemFacts DEF PumpStages, Item
  <1>3. Untouched(r)
    BY DEF Untouched
  <1>4. ThreadsMeet(r)'
    BY <1>1, ItemFacts DEF ThreadsMeet
  <1>5. ~stop[r] => Carried(r)' = yielded'[r] \o Sentinel
    <2> SUFFICES ASSUME ~stop[r] PROVE Carried(r)' = yielded'[r] \o Sentinel
      OBVIOUS
    <2>1. sent[r] \in Seq(Item) /\ queue[r] \in Seq(Item)
      BY EventsAreItems DEF Item
    <2>2. sent[r] \o queue[r] \o hand[r] = yielded[r]
      BY <1>1, ItemFacts DEF Flow, Carried
    <2>3. sent[r] \o queue[r] = yielded[r]
      BY <1>1, <2>1, <2>2, ConcatProperties, ConcatEmptySeq
    <2> QED BY <2>3 DEF Carried
  <1>6. Flow(r)'
    BY <1>1, <1>5 DEF Flow, Exhausted, Chat!Ended, Chat!Latest
  <1>7. RequestOK(r)'
    BY <1>1, <1>4, <1>6 DEF RequestOK, SlotHeld
  <1> QED BY <1>2, <1>3, <1>7, OthersKeep

\* The pump offers again and again what it holds.
LEMMA OfferKeeps ==
  ASSUME ReplyInv, NEW r \in Requests, Offer(r) \/ Full(r)
  PROVE  ReplyInv'
  <1> USE DEF ReplyInv, ReplyTypeOK, PumpGoes, slots, pipe
  <1>1. /\ UNCHANGED <<held, past, web, queue, stop, hand, yielded, sent, gone>>
        /\ pump[r] \in {"putting", "waiting"}
        /\ \E at \in {"putting", "waiting"} : pump' = [pump EXCEPT ![r] = at]
    BY DEF Offer, Full
  <1>2. r \in Pumped /\ ThreadsMeet(r) /\ Flow(r)
    BY <1>1 DEF RequestOK, InlineOK
  <1>3. ReplyTypeOK'
    BY <1>1 DEF PumpStages
  <1>4. Untouched(r)
    BY <1>1 DEF Untouched
  <1>5. ThreadsMeet(r)'
    BY <1>1, <1>2 DEF ThreadsMeet
  <1>6. Flow(r)'
    BY <1>1, <1>2 DEF Flow, Carried, Exhausted, Chat!Ended, Chat!Latest
  <1>7. RequestOK(r)'
    BY <1>1, <1>2, <1>5, <1>6 DEF RequestOK, SlotHeld
  <1> QED BY <1>3, <1>4, <1>7, OthersKeep

LEMMA PutKeeps ==
  ASSUME ReplyInv, NEW r \in Requests, Put(r)
  PROVE  ReplyInv'
  <1> USE DEF ReplyInv, ReplyTypeOK, PumpGoes, PutReturns, slots
  <1>1. /\ UNCHANGED <<held, past, web, stop, yielded, sent, gone>>
        /\ pump[r] = "waiting" /\ Len(queue[r]) < QueueSize
        /\ queue' = [queue EXCEPT ![r] = @ \o hand[r]] /\ hand' = [hand EXCEPT ![r] = <<>>]
        /\ pump' = [pump EXCEPT ![r] = IF hand[r] = Sentinel THEN "over" ELSE "working"]
    BY DEF Put
  <1>2. r \in Pumped /\ ThreadsMeet(r) /\ Flow(r)
    BY <1>1 DEF RequestOK, InlineOK
  <1>3. /\ queue[r] \in Seq(Item) /\ hand[r] \in Seq(Item) /\ sent[r] \in Seq(Item)
        /\ queue[r] \o hand[r] \in Seq(Item) /\ Len(queue[r] \o hand[r]) = Len(queue[r]) + Len(hand[r])
    BY EventsAreItems, ConcatProperties DEF Item
  <1>4. Len(hand[r]) = 1
    BY <1>1, <1>2, ItemFacts DEF ThreadsMeet
  <1>5. ReplyTypeOK'
    <2>1. Len(queue[r] \o hand[r]) <= QueueSize
      BY <1>1, <1>3, <1>4, LenProperties, ReplyAssumption
    <2> QED BY <1>1, <1>3, <2>1, EmptySeq DEF PumpStages, Item
  <1>6. Untouched(r)
    BY <1>1 DEF Untouched
  <1>7. ThreadsMeet(r)'
    BY <1>1, <1>2 DEF ThreadsMeet
  <1>8. Carried(r)' = Carried(r)
    <2>1. (sent[r] \o queue[r]) \o hand[r] = sent[r] \o (queue[r] \o hand[r])
      BY <1>3, ConcatAssociative
    <2>2. sent[r] \o (queue[r] \o hand[r]) \in Seq(Item)
      BY <1>3, ConcatProperties
    <2>3. sent[r] \o (queue[r] \o hand[r]) \o <<>> = sent[r] \o (queue[r] \o hand[r])
      BY <2>2, ConcatEmptySeq
    <2> QED BY <1>1, <2>1, <2>3 DEF Carried
  <1>9. Flow(r)'
    BY <1>1, <1>2, <1>8, ItemFacts DEF Flow, Exhausted, Chat!Ended, Chat!Latest
  <1>10. RequestOK(r)'
    BY <1>1, <1>2, <1>7, <1>9 DEF RequestOK, SlotHeld
  <1> QED BY <1>5, <1>6, <1>10, OthersKeep

LEMMA GiveUpKeeps ==
  ASSUME ReplyInv, NEW r \in Requests, GiveUp(r)
  PROVE  ReplyInv'
  <1> USE DEF ReplyInv, ReplyTypeOK, PumpGoes, PutReturns, slots, GiveUp
  <1>1. r \in Pumped /\ ThreadsMeet(r) /\ Flow(r)
    BY DEF RequestOK, InlineOK
  <1>2. ReplyTypeOK'
    BY EmptySeq DEF PumpStages
  <1>3. Untouched(r)
    BY DEF Untouched
  <1>4. ThreadsMeet(r)'
    BY <1>1 DEF ThreadsMeet
  <1>5. Flow(r)'
    BY <1>1 DEF Flow, Exhausted, Chat!Ended, Chat!Latest
  <1>6. RequestOK(r)'
    BY <1>1, <1>4, <1>5 DEF RequestOK, SlotHeld
  <1> QED BY <1>2, <1>3, <1>6, OthersKeep

----------------------------------------------------------------------------
LEMMA ReplyStarts == ReplyInit => ReplyInv
  <1> SUFFICES ASSUME ReplyInit PROVE ReplyInv
    OBVIOUS
  <1>1. ReplyTypeOK
    BY EmptySeq, ReplyAssumption DEF ReplyInit, ReplyTypeOK, Pool!Init, WebStages, PumpStages
  <1>2. ASSUME NEW r \in Requests PROVE RequestOK(r)
    <2>1. <<>> \o <<>> \o <<>> = <<>> /\ <<>> # Sentinel /\ IsPrefix(<<>>, <<>>)
      BY EmptySeq, ConcatEmptySeq, ItemFacts DEF IsPrefix
    <2> QED BY <2>1 DEF ReplyInit, RequestOK, SlotHeld, ThreadsMeet, Flow, InlineOK, Carried
  <1> QED BY <1>1, <1>2 DEF ReplyInv

LEMMA ReplyKeeps == ReplyInv /\ [ReplyNext]_replyVars => ReplyInv'
  <1> SUFFICES ASSUME ReplyInv, [ReplyNext]_replyVars PROVE ReplyInv'
    OBVIOUS
  <1>1. CASE UNCHANGED replyVars
    BY <1>1 DEF replyVars, slots, pipe, ReplyInv, ReplyTypeOK, RequestOK, SlotHeld, ThreadsMeet,
                Flow, InlineOK, Carried, Exhausted, Chat!Ended, Chat!Latest
  <1>2. CASE ReplyNext
    <2>1. PICK r \in Requests :
              \/ Admit(r) \/ ProviderFails(r) \/ Respond(r)
              \/ CloseUnstarted(r) \/ Generate(r) \/ Written(r) \/ Disconnect(r)
              \/ WebStep(r) \/ PumpStep(r)
      BY <1>2 DEF ReplyNext
    <2>2. CASE WebStep(r)
      BY <2>2, ServerMoves, InlineEventKeeps, TakeEventKeeps, TakeSentinelKeeps, StopKeeps
         DEF WebStep
    <2>3. CASE PumpStep(r)
      BY <2>3, PullKeeps, PumpEndKeeps, PumpClosesKeeps, OfferKeeps, PutKeeps, GiveUpKeeps
         DEF PumpStep
    <2> QED BY <2>1, <2>2, <2>3, ServerMoves, GenerateKeeps, DisconnectKeeps
  <1> QED BY <1>1, <1>2

THEOREM ReplyInvariant == ReplySpec => []ReplyInv
  BY ReplyStarts, ReplyKeeps, PTL DEF ReplySpec

\* Every variable of a reply's way keeps its type, and the queue its bound.
THEOREM ReplyTyped == ReplySpec => []ReplyTypeOK
  <1>1. ReplyInv => ReplyTypeOK
    BY DEF ReplyInv
  <1> QED BY <1>1, ReplyInvariant, PTL

\* Whatever the size of the queue and the length of the reply, the browser gets what
\* ChatService yielded: in order, once, and to its end unless it leaves.
THEOREM RepliesDelivered == ReplySpec => []Delivered
  <1>1. ReplyInv => Delivered
    <2> SUFFICES ASSUME ReplyInv PROVE Delivered
      OBVIOUS
    <2>1. ASSUME NEW r \in Requests, r \in Pumped
          PROVE  /\ IsPrefix(sent[r], yielded[r])
                 /\ ~stop[r] => sent[r] \o queue[r] \o hand[r] \in {yielded[r], yielded[r] \o Sentinel}
                 /\ web[r] \in {"leaving", "joining", "closing"} /\ ~gone[r] =>
                        Exhausted(r) /\ sent[r] = yielded[r]
      BY <2>1 DEF ReplyInv, RequestOK, Flow, Carried
    <2>2. ASSUME NEW r \in Requests, r \notin Pumped
          PROVE  /\ IsPrefix(sent[r], yielded[r])
                 /\ web[r] \in {"leaving", "joining", "closing"} /\ ~gone[r] =>
                        Exhausted(r) /\ sent[r] = yielded[r]
      <3>1. InlineOK(r) /\ yielded[r] \in Seq(Events)
        BY <2>2 DEF ReplyInv, RequestOK, ReplyTypeOK
      <3>2. IsPrefix(sent[r], yielded[r])
        BY <3>1, LenProperties DEF InlineOK, IsPrefix
      <3> QED BY <3>1, <3>2 DEF InlineOK
    <2> QED BY <2>1, <2>2 DEF Delivered, FramesInOrder, FramesComplete
  <1> QED BY <1>1, ReplyInvariant, PTL

----------------------------------------------------------------------------
LEMMA ReplyTakesSlots ==
  ReplyInv /\ [ReplyNext]_replyVars => [Pool!Next]_slots
  <1> SUFFICES ASSUME ReplyInv, [ReplyNext]_replyVars PROVE Pool!Next \/ UNCHANGED slots
    BY DEF slots
  <1>1. CASE UNCHANGED replyVars
    BY <1>1 DEF replyVars
  <1>2. ASSUME NEW r \in Requests, Admit(r) PROVE Pool!Next
    BY <1>2 DEF Admit, Pool!Next
  <1>3. ASSUME NEW r \in Requests, ProviderFails(r) \/ CloseUnstarted(r) \/ GenerateEnds(r)
        PROVE  Pool!Next
    <2>1. r \in held
      BY <1>3 DEF ReplyInv, RequestOK, SlotHeld, ProviderFails, CloseUnstarted, GenerateEnds
    <2>2. held' = held \ {r} /\ past' = past \cup {r}
      BY <1>3 DEF ProviderFails, CloseUnstarted, GenerateEnds, GiveBack
    <2> QED BY <2>1, <2>2 DEF Pool!Next, Pool!Release
  <1>4. ASSUME NEW r \in Requests,
               ReplyNext, ~Admit(r), ~ProviderFails(r), ~CloseUnstarted(r), ~GenerateEnds(r),
               \/ Respond(r) \/ Generate(r) \/ Written(r) \/ Disconnect(r)
               \/ WebStep(r) \/ PumpStep(r)
        PROVE  UNCHANGED slots
    BY <1>4 DEF Respond, Generate, Written, Disconnect, WebStep, PumpStep, InlineEvent, InlineEnd,
                TakeEvent, TakeSentinel, IdleFrame, StopPump, Join, Pull, PullEnd, PumpCloses,
                Offer, Put, Full, GiveUp
  <1> QED BY <1>1, <1>2, <1>3, <1>4 DEF ReplyNext, WebStep

\* The requests use admission's slots as SlotPool.tla promises them: none is given back by a
\* request that does not hold it, or twice, and so none is taken by too many.
THEOREM RepliesUseSlots == ReplySpec => Pool!Spec
  <1>1. ReplyInit => Pool!Init
    BY DEF ReplyInit
  <1> QED BY <1>1, ReplyInvariant, ReplyTakesSlots, PTL DEF ReplySpec, Pool!Spec, slots
=============================================================================
