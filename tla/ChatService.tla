---------------------------- MODULE ChatService ----------------------------
(***************************************************************************)
(* ChatService.stream of chat/service.py: one request, from the choice of  *)
(* a route to its last event.  A route asks its model once or twice,       *)
(* buffers each candidate, reviews it, and lets text out only then.  What  *)
(* a candidate says is abstract: how many pieces it came in, whether it    *)
(* fails a hard check, and how many soft ones.                             *)
(*                                                                         *)
(* The situation analysis that selects the route, the prompts, telemetry   *)
(* and the two token stores are not part of the model.                     *)
(***************************************************************************)
EXTENDS Integers, Sequences

CONSTANTS
    MaxPieces,   \* bound: pieces of one candidate (16000 characters in the code)
    MaxSoft      \* bound: soft failures of one candidate

ASSUME ServiceAssumption == MaxPieces \in Nat \ {0} /\ MaxSoft \in Nat \ {0}

VARIABLES
    route,       \* the branch of stream() that answers
    stage,       \* where stream() stands
    attempt,     \* active_attempt
    pieces,      \* len(chunks) of the candidate read last
    lastChunks,  \* last_chunks: the attempt they are of, and how many
    tried,       \* the candidates reviewed so far
    best,        \* best_safe: the attempt it is of, or 0
    source,      \* what is let out: an attempt, or 0 for a text of the application
    size,        \* in how many pieces
    shown,       \* the source of each text yielded
    said,        \* the events yielded
    atYield,     \* the generator is suspended where its consumer may close it
    left         \* the consumer has closed it

Reply == INSTANCE ReplyContract WITH MaxTexts <- MaxPieces

serviceVars == <<route, stage, attempt, pieces, lastChunks, tried, best, source, size,
                 shown, said, atYield, left>>
reading == <<route, attempt, pieces, lastChunks, tried, best>>   \* of the candidates
letOut  == <<source, size, shown, said, left>>                   \* of the reply

OneAttempt  == {"hypothetical", "grounded", "limited"}
TwoAttempts == {"evidence", "style", "ordinary"}
Asking      == OneAttempt \cup TwoAttempts           \* routes that ask a model
Routes      == Asking \cup {"choice", "clarify", "fixed", "lookup"}
Selected    == {"hypothetical", "grounded", "lookup", "style", "ordinary"}
Attempts(r) == IF r \in TwoAttempts THEN 2 ELSE 1

ServiceInit ==
    /\ route = "choice" /\ stage = "new" /\ attempt = 1 /\ pieces = 0
    /\ lastChunks = [of |-> 0, count |-> 0]
    /\ tried = <<>> /\ best = 0 /\ source = 0 /\ size = 0
    /\ shown = <<>> /\ said = <<>> /\ atYield = TRUE /\ left = FALSE

\* A yield, and a step between two yields.
Yield(e) == said' = Append(said, e) /\ atYield' = TRUE /\ UNCHANGED left
Inside   == atYield' = FALSE

\* emit(text), emit(text, chunks).
Emit(from, count) == stage' = "emitting" /\ source' = from /\ size' = count
Raise             == stage' = "failing" /\ UNCHANGED <<source, size>>

----------------------------------------------------------------------------
\* A clarification token that the store does not know, or no store.
InvalidChoice ==
    /\ stage = "new"
    /\ Yield("start") /\ stage' = "failing"
    /\ UNCHANGED <<reading, source, size, shown>>

\* ClarificationAnalyzer found an ambiguity.
AskBack ==
    /\ stage = "new"
    /\ route' = "clarify"
    /\ Yield("start") /\ stage' = "clarifying"
    /\ UNCHANGED <<attempt, pieces, lastChunks, tried, best, source, size, shown>>

Clarify ==
    /\ stage = "clarifying"
    /\ Yield("clarification") /\ Emit(0, 0)
    /\ UNCHANGED <<reading, shown>>

\* A deterministic reply: unknown_visitor_reason, request_location.
Fixed ==
    /\ stage = "new"
    /\ route' = "fixed"
    /\ Yield("start") /\ Emit(0, 1)
    /\ UNCHANGED <<attempt, pieces, lastChunks, tried, best, shown>>

\* SituationAnalyzer selects the route of a model's answer.
Begin(r) ==
    /\ stage = "new"
    /\ route' = r
    /\ Yield("start") /\ stage' = IF r = "lookup" THEN "looking" ELSE "fitting"
    /\ UNCHANGED <<attempt, pieces, lastChunks, tried, best, source, size, shown>>

\* The public lookup: evidence, or an answer with the limitation appended.
Lookup(found) ==
    /\ stage = "looking"
    /\ route' = IF found THEN "evidence" ELSE "limited"
    /\ stage' = "fitting" /\ Inside
    /\ UNCHANGED <<attempt, pieces, lastChunks, tried, best, letOut>>

\* fit_messages, then provider.stream.
Fit ==
    /\ stage = "fitting"
    /\ stage' = "reading" /\ pieces' = 0 /\ Inside
    /\ UNCHANGED <<route, attempt, lastChunks, tried, best, letOut>>

\* Mutant: the second attempt's failure is that of the request.
AbandonAll == Raise

\* An exception while preparing or reading an attempt: a safe candidate of the
\* first attempt is let out, otherwise the request fails.
Abandon == IF best # 0 THEN Emit(best, 1) ELSE Raise

\* The mandatory prompt exceeds the context budget.
FitFails ==
    /\ stage = "fitting"
    /\ Abandon /\ Inside
    /\ UNCHANGED <<reading, shown, said, left>>

Text ==
    /\ stage = "reading" /\ pieces < MaxPieces
    /\ pieces' = pieces + 1 /\ Inside
    /\ UNCHANGED <<route, stage, attempt, lastChunks, tried, best, letOut>>

\* The provider raised, ended without done, sent too much or something else.
ReadFails ==
    /\ stage = "reading"
    /\ Abandon /\ Inside
    /\ UNCHANGED <<reading, shown, said, left>>

\* Mutant: an assignment of the function's own, so the enclosing variable keeps what
\* it was first given.
CompleteLocally ==
    /\ stage = "reading"
    /\ stage' = "reviewing" /\ Inside
    /\ lastChunks' = IF lastChunks.of = 0 THEN [of |-> attempt, count |-> pieces]
                                         ELSE lastChunks
    /\ UNCHANGED <<route, attempt, pieces, tried, best, letOut>>

\* The provider's done: last_chunks = tuple(chunks).
Complete ==
    /\ stage = "reading"
    /\ stage' = "reviewing" /\ Inside
    /\ lastChunks' = [of |-> attempt, count |-> pieces]
    /\ UNCHANGED <<route, attempt, pieces, tried, best, letOut>>

----------------------------------------------------------------------------
(* Review.  A rendering that fails counts as a hard failure; only the route *)
(* of playful and character replies has soft ones.                          *)

Candidates == [hard : BOOLEAN, soft : 0 .. MaxSoft]

Good(c) == ~c.hard /\ (route = "style" => c.soft = 0)

\* best_safe, after the candidate c.
Better(c) ==
    IF route = "style" /\ ~c.hard /\ (best = 0 \/ c.soft < tried[best].soft)
    THEN attempt ELSE best

Reviewed(c) ==
    /\ stage = "reviewing"
    /\ route # "style" => c.soft = 0
    /\ tried' = Append(tried, c) /\ best' = Better(c) /\ Inside
    /\ UNCHANGED <<route, pieces, lastChunks, shown, said, left>>

\* The ordinary route lets last_chunks out, the others the candidate as one text.
Accept(c) ==
    /\ Reviewed(c) /\ Good(c)
    /\ IF route = "ordinary" THEN Emit(lastChunks.of, lastChunks.count) ELSE Emit(attempt, 1)
    /\ UNCHANGED attempt

Retry(c) ==
    /\ Reviewed(c) /\ ~Good(c) /\ attempt < Attempts(route)
    /\ attempt' = attempt + 1 /\ stage' = "fitting"
    /\ UNCHANGED <<source, size>>

\* The last attempt: the best safe candidate, or response_validation_exhausted.
Exhaust(c) ==
    /\ Reviewed(c) /\ ~Good(c) /\ attempt = Attempts(route)
    /\ IF best' # 0 THEN Emit(best', 1) ELSE Raise
    /\ UNCHANGED attempt

----------------------------------------------------------------------------
\* emit(): a delta for every piece, then done.
Delta ==
    /\ stage = "emitting" /\ Len(shown) < size
    /\ shown' = Append(shown, source) /\ Yield("delta")
    /\ UNCHANGED <<reading, stage, source, size>>

Done ==
    /\ stage = "emitting" /\ Len(shown) = size
    /\ Yield("done") /\ stage' = "over"
    /\ UNCHANGED <<reading, source, size, shown>>

\* Mutant: the reply ends as if nothing had happened.
ErrorSwallowed ==
    /\ stage = "failing"
    /\ stage' = "over" /\ Inside
    /\ UNCHANGED <<reading, letOut>>

\* The `except' clause.
Error ==
    /\ stage = "failing"
    /\ Yield("error") /\ stage' = "over"
    /\ UNCHANGED <<reading, source, size, shown>>

\* The consumer closes the generator, which it can do at a yield only.
Leave ==
    /\ atYield /\ ~left /\ stage # "over"
    /\ left' = TRUE /\ stage' = "over" /\ Inside
    /\ UNCHANGED <<reading, source, size, shown, said>>

----------------------------------------------------------------------------
ServiceStep ==
    \/ InvalidChoice \/ AskBack \/ Clarify \/ Fixed
    \/ \E r \in Selected : Begin(r)
    \/ \E found \in BOOLEAN : Lookup(found)
    \/ Fit \/ FitFails \/ Text \/ ReadFails \/ Complete
    \/ \E c \in Candidates : Accept(c) \/ Retry(c) \/ Exhaust(c)
    \/ Delta \/ Done \/ Error

ServiceNext == ServiceStep \/ Leave

\* The generator is asked for its next event or closed, and a call it makes
\* comes back: the model's stream ends (StreamEnds of Relay), the lookup has a timeout.
ServiceSpec == ServiceInit /\ [][ServiceNext]_serviceVars /\ WF_serviceVars(ServiceStep)

----------------------------------------------------------------------------
ServiceStages == {"new", "clarifying", "looking", "fitting", "reading", "reviewing",
                  "emitting", "failing", "over"}

\* The variables keep their types.
ServiceTypeOK ==
    /\ route \in Routes /\ stage \in ServiceStages
    /\ attempt \in 1 .. 2 /\ pieces \in 0 .. MaxPieces
    /\ lastChunks \in [of : 0 .. 2, count : 0 .. MaxPieces]
    /\ tried \in Seq(Candidates) /\ Len(tried) <= 2
    /\ best \in 0 .. 2 /\ source \in 0 .. 2 /\ size \in 0 .. MaxPieces
    /\ shown \in Seq(0 .. 2) /\ said \in Seq(Reply!Events)
    /\ atYield \in BOOLEAN /\ left \in BOOLEAN

Safe(k) == k \in DOMAIN tried /\ ~tried[k].hard

\* Every text that leaves is of one source, which is the application or an attempt
\* that was read to its end and passed every hard check; last_chunks, kept across
\* attempts, are then all the pieces of the candidate reviewed; and a reply that ends
\* well has let all of it out (emit, last_chunks, best_safe).
OnlyValidated ==
    /\ \A i \in DOMAIN shown : shown[i] = source /\ (source # 0 => Safe(source))
    /\ route = "ordinary" /\ stage = "emitting" => source = attempt /\ size = pieces
    /\ stage = "over" /\ ~left /\ said[Len(said)] = "done" => Len(shown) = size

\* The comment of the route: "Style is a best-effort quality pass and can never
\* make a completed safe response unavailable".  Whatever befalls the second
\* attempt, a safe candidate is let out, and none with fewer soft failures existed.
StyleNeverCosts == route = "style" =>
    /\ stage = "failing" \/ (said # <<>> /\ said[Len(said)] = "error")
          => \A k \in 1 .. 2 : ~Safe(k)
    /\ stage = "emitting" /\ source # 0 =>
          \A k \in 1 .. 2 : Safe(k) => tried[source].soft <= tried[k].soft

\* What is let out of the model's answers stands: nothing unreviewed, nothing torn,
\* and nothing safe withheld because a correction failed.
AnswerStands == OnlyValidated /\ StyleNeverCosts
=============================================================================
