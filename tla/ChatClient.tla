---- MODULE ChatClient ----
(***************************************************************************)
(* static/js/eyeball-chat.js with eyeball-continuity.js and                *)
(* eyeball-clarification.js: the drawer, its one active request, the       *)
(* coroutine each submit leaves behind, and what one exchange hands to the *)
(* next (history, lookup continuation, clarification choice).              *)
(*                                                                         *)
(* A submit is numbered.  The continuation and the clarification choice    *)
(* the server issues while answering submit r are both named r, as is the  *)
(* label of that choice: "input = r" says the composer holds it.  Every    *)
(* frame comes in a chunk of its own, the finest interleaving with the     *)
(* visitor's clicks, and an answer on its way when its request is aborted  *)
(* may still reach the coroutine, as the code provides for.                *)
(***************************************************************************)
EXTENDS Naturals, Sequences

CONSTANTS
    MaxSubmits,    \* bound: messages sent on the page
    Ambiguous,     \* bound: the submits the service may answer with a choice
    MaxExchanges,  \* the history keeps ten items, five exchanges
    None,          \* null
    Empty, Typed   \* an empty composer; text of the visitor's own

ASSUME ChatAssumption ==
    /\ MaxSubmits \in Nat /\ MaxExchanges \in Nat \ {0}
    /\ Ambiguous \subseteq 1..MaxSubmits
    /\ None \notin Nat /\ Empty \notin Nat /\ Typed \notin Nat /\ Empty # Typed

Submits == 1..MaxSubmits

VARIABLES
    drawer,               \* dialog.open, or "closing": not, and its close event queued
    input,                \* the composer
    sent,                 \* how many submits there were
    activeRequest,        \* the submit whose controller is the active one, or null
    busy,                 \* Send disabled, Stop enabled
    apology,              \* the last submit for which safeError was shown
    lookupContinuation, pendingClarification,
    history,              \* submits whose exchange is kept, oldest first
    cards,                \* the clarification card of each submit
    submitTimer,          \* setTimeout(requestSubmit, 0) of a chosen card
    requests              \* the coroutine of each submit

composer == <<input, submitTimer, pendingClarification>>
kept == <<history, lookupContinuation>>
chatVars == <<drawer, sent, activeRequest, busy, apology, cards, requests, composer, kept>>

Request == [at: {"unused", "fetch", "read", "over"},
            text: {Typed, Empty} \cup Submits,
            continuation: Submits \cup {None}, clarification: Submits \cup {None},
            aborted: BOOLEAN, timedOut: BOOLEAN,
            answered: BOOLEAN,   \* the answer has text
            complete: BOOLEAN]   \* a done frame was accepted

Unused == [at |-> "unused", text |-> Empty, continuation |-> None, clarification |-> None,
           aborted |-> FALSE, timedOut |-> FALSE, answered |-> FALSE, complete |-> FALSE]

ChatTypeOK ==
    /\ drawer \in {"open", "closing", "closed"} /\ busy \in BOOLEAN /\ submitTimer \in BOOLEAN
    /\ input \in {Typed, Empty} \cup Submits /\ sent \in 0..MaxSubmits
    /\ activeRequest \in Submits \cup {None}
    /\ {apology, lookupContinuation} \subseteq Submits \cup {None}
    /\ pendingClarification \in Submits \cup {None}
    /\ history \in Seq(Submits)
    /\ cards \in [Submits -> {"none", "shown", "resolved"}]
    /\ requests \in [Submits -> Request]

ChatInit ==
    /\ drawer = "closed" /\ input = Empty /\ sent = 0 /\ activeRequest = None /\ busy = FALSE
    /\ apology = None /\ lookupContinuation = None /\ pendingClarification = None /\ history = <<>>
    /\ cards = [r \in Submits |-> "none"] /\ submitTimer = FALSE
    /\ requests = [r \in Submits |-> Unused]

(***************************************************************************)
(* The visitor.                                                            *)
(***************************************************************************)
\* oes:chatrequest; ignored while the drawer is open.  It takes a click or a key, and
\* the browser delivers those and the close event in the order they came about.
ChatRequest ==
    /\ drawer = "closed" /\ drawer' = "open"
    /\ UNCHANGED <<sent, activeRequest, busy, apology, cards, requests, composer, kept>>

\* cancelResponse(), which returns at once without an active request.
CancelResponse ==
    \/ /\ activeRequest # None
       /\ requests' = [requests EXCEPT ![activeRequest].aborted = TRUE]
       /\ activeRequest' = None
       /\ busy' = FALSE
    \/ activeRequest = None /\ UNCHANGED <<requests, activeRequest, busy>>

\* The Stop button is enabled while a request is active.
Stop ==
    /\ drawer = "open" /\ busy
    /\ CancelResponse
    /\ UNCHANGED <<drawer, sent, apology, cards, composer, kept>>

\* The close button, or Escape: dialog.close() queues the close event.
CloseDrawer ==
    /\ drawer = "open" /\ drawer' = "closing"
    /\ UNCHANGED <<sent, activeRequest, busy, apology, cards, requests, composer, kept>>

\* The close event cancels the response; a timer or a frame may have come before it.
CloseEvent ==
    /\ drawer = "closing" /\ drawer' = "closed"
    /\ CancelResponse
    /\ UNCHANGED <<sent, apology, cards, composer, kept>>

\* The visitor edits the composer, during a response too.
Edit(text) ==
    /\ drawer = "open" /\ input # text /\ input' = text
    /\ UNCHANGED <<drawer, sent, activeRequest, busy, apology, cards, requests, submitTimer,
                   pendingClarification, kept>>

\* A choice of card r, once per card, at any later time.
Select(r) ==
    /\ drawer = "open" /\ cards[r] = "shown"
    /\ cards' = [cards EXCEPT ![r] = "resolved"]
    /\ pendingClarification' = r
    /\ input' = r
    /\ submitTimer' = TRUE
    /\ UNCHANGED <<drawer, sent, activeRequest, busy, apology, requests, kept>>

\* "Something else" of card r only resolves it.
Rephrase(r) ==
    /\ drawer = "open" /\ cards[r] = "shown"
    /\ cards' = [cards EXCEPT ![r] = "resolved"]
    /\ UNCHANGED <<drawer, sent, activeRequest, busy, apology, requests, composer, kept>>

(***************************************************************************)
(* The submit handler.                                                     *)
(***************************************************************************)
Accepted == input # Empty /\ activeRequest = None /\ sent < MaxSubmits

\* The continuation is not taken out.
SendKeeps ==
    LET r == sent + 1
    IN /\ sent' = r /\ activeRequest' = r /\ busy' = TRUE /\ input' = Empty
       /\ requests' = [requests EXCEPT ![r] = [Unused EXCEPT
              !.at = "fetch", !.text = input, !.continuation = lookupContinuation,
              !.clarification = pendingClarification]]
       /\ UNCHANGED <<drawer, apology, cards, pendingClarification, kept>>

\* Up to the fetch: the request takes the continuation, and a copy of the choice.
Send ==
    LET r == sent + 1
    IN /\ sent' = r
       /\ activeRequest' = r /\ busy' = TRUE
       /\ input' = Empty
       /\ lookupContinuation' = None
       /\ requests' = [requests EXCEPT ![r] = [Unused EXCEPT
              !.at = "fetch", !.text = input, !.continuation = lookupContinuation,
              !.clarification = pendingClarification]]
       /\ UNCHANGED <<drawer, apology, cards, pendingClarification, history>>

Submit == drawer = "open" /\ Accepted /\ Send /\ UNCHANGED submitTimer

\* The chosen card's timer; a refused submit leaves the choice pending.
SubmitTimer ==
    /\ submitTimer /\ submitTimer' = FALSE
    /\ \/ Accepted /\ Send
       \/ /\ ~Accepted
          /\ UNCHANGED <<drawer, sent, activeRequest, busy, apology, cards, requests, input,
                         pendingClarification, kept>>

\* setBusy(false) outside the check.
FinishReady(r, complete) ==
    /\ requests' = [requests EXCEPT ![r].at = "over", ![r].complete = complete]
    /\ activeRequest' = IF activeRequest = r THEN None ELSE activeRequest
    /\ busy' = FALSE

\* The finally block.  A completed coroutine leaves how it ended, any other nothing.
Finish(r, complete) ==
    /\ requests' = [requests EXCEPT ![r] =
           IF complete THEN [Unused EXCEPT !.at = "over", !.complete = TRUE,
                                           !.answered = requests[r].answered,
                                           !.aborted = requests[r].aborted]
                       ELSE [Unused EXCEPT !.at = "over"]]
    /\ activeRequest' = IF activeRequest = r THEN None ELSE activeRequest
    /\ busy' = (busy /\ activeRequest # r)

\* The apology of any request that was timed out.
FailAloud(r) ==
    /\ apology' = IF ~requests[r].aborted \/ requests[r].timedOut THEN r ELSE apology
    /\ Finish(r, FALSE)

\* The catch block, then the finally block.
Fail(r) ==
    /\ apology' = IF activeRequest = r /\ (~requests[r].aborted \/ requests[r].timedOut)
                  THEN r ELSE apology
    /\ Finish(r, FALSE)

\* Only the identity, which a timeout does not change.
StaleOwner(r) == activeRequest # r

\* The check after each await.
Stale(r) == requests[r].aborted \/ activeRequest # r

\* fetch resolves; ok: with an event stream.
Response(r, ok) ==
    /\ requests[r].at = "fetch"
    /\ pendingClarification' = None
    /\ \/ Stale(r) /\ Finish(r, FALSE) /\ UNCHANGED apology
       \/ ~Stale(r) /\ ~ok /\ Fail(r)
       \/ /\ ~Stale(r) /\ ok
          /\ requests' = [requests EXCEPT ![r].at = "read"]
          /\ UNCHANGED <<activeRequest, busy, apology>>
    /\ UNCHANGED <<drawer, sent, cards, input, submitTimer, kept>>

\* A chunk for a coroutine that is no longer wanted.
StaleChunk(r) ==
    /\ requests[r].at = "read" /\ Stale(r)
    /\ Finish(r, FALSE)
    /\ UNCHANGED <<drawer, sent, apology, cards, composer, kept>>

Delta(r) ==
    /\ requests[r].at = "read" /\ ~Stale(r)
    /\ requests' = [requests EXCEPT ![r].answered = TRUE]
    /\ UNCHANGED <<drawer, sent, activeRequest, busy, apology, cards, composer, kept>>

\* The service sends one card in an answer.
Clarification(r) ==
    /\ r \in Ambiguous
    /\ requests[r].at = "read" /\ ~Stale(r) /\ cards[r] = "none"
    /\ cards' = [cards EXCEPT ![r] = "shown"]
    /\ UNCHANGED <<drawer, sent, activeRequest, busy, apology, requests, composer, kept>>

\* history.push and the trimming: MaxExchanges at most, and fewer if they are long.
Remember(r) ==
    LET all == Append(history, r)
    IN \E first \in 1..Len(all):
           /\ Len(all) - first < MaxExchanges
           /\ history' = SubSeq(all, first, Len(all))

\* done, with a valid directive: continuation issued or not, exchange kept or not.
Done(r, issued, retain) ==
    /\ requests[r].at = "read" /\ ~Stale(r)
    /\ lookupContinuation' = IF issued THEN r ELSE None
    /\ Finish(r, TRUE)
    /\ LET said == requests[r].answered \/ cards[r] # "none"
       IN /\ apology' = IF said THEN apology ELSE r
          /\ IF said /\ retain THEN Remember(r) ELSE UNCHANGED history
    /\ UNCHANGED <<drawer, sent, cards, composer>>

\* The pending await rejects (network, abort), or a frame or the end of the stream throws.
Broken(r) ==
    /\ requests[r].at \in {"fetch", "read"}
    /\ Fail(r)
    /\ UNCHANGED <<drawer, sent, cards, composer, kept>>

\* The flag without the abort.
TimeoutIdle(r) ==
    /\ requests[r].at \in {"fetch", "read"} /\ ~requests[r].timedOut
    /\ requests' = [requests EXCEPT ![r].timedOut = TRUE]
    /\ UNCHANGED <<drawer, sent, activeRequest, busy, apology, cards, composer, kept>>

\* The 330 s timer, until the finally block clears it.
Timeout(r) ==
    /\ requests[r].at \in {"fetch", "read"} /\ ~requests[r].timedOut
    /\ requests' = [requests EXCEPT ![r].timedOut = TRUE, ![r].aborted = TRUE]
    /\ UNCHANGED <<drawer, sent, activeRequest, busy, apology, cards, composer, kept>>

Coroutine(r) ==
    \/ \E ok \in BOOLEAN: Response(r, ok)
    \/ StaleChunk(r) \/ Delta(r) \/ Clarification(r)
    \/ \E issued, retain \in BOOLEAN: Done(r, issued, retain)
    \/ Broken(r) \/ Timeout(r)

ChatNext ==
    \/ ChatRequest \/ Stop \/ CloseDrawer \/ CloseEvent \/ Submit \/ SubmitTimer
    \/ \E text \in {Typed, Empty}: Edit(text)
    \/ \E r \in Submits: Select(r) \/ Rephrase(r) \/ Coroutine(r)

\* A due timer fires, and a fetch or read whose signal is aborted rejects.
Due == \E r \in Submits: Timeout(r) \/ (requests[r].aborted /\ Broken(r))

ChatFairness == WF_chatVars(Due)

ChatSpec == ChatInit /\ [][ChatNext]_chatVars /\ ChatFairness
----
(***************************************************************************)
(* Properties.                                                             *)
(***************************************************************************)
\* The buttons tell the truth: Stop is offered exactly while one request is active,
\* and that request's coroutine is still running, so it can be stopped.  A coroutine
\* that was superseded never resets its successor.
BusyMatches ==
    /\ busy <=> activeRequest # None
    /\ activeRequest # None => requests[activeRequest].at \in {"fetch", "read"}

\* A continuation goes with the very next message after the exchange that earned it,
\* or is lost: never twice, and never after an exchange in between.
ContinuationFresh ==
    \A r \in Submits: requests[r].continuation # None =>
        /\ r > 1 /\ requests[r].continuation = r - 1
        /\ requests[r - 1].complete

\* What is sent as conversation happened, in that order: the history names finished
\* exchanges that said something, none stopped or timed out, each once.
HistoryFaithful ==
    \A i \in DOMAIN history:
        /\ LET r == history[i]
           IN /\ requests[r].complete /\ ~requests[r].aborted
              /\ requests[r].answered \/ cards[r] # "none"
        /\ \A j \in DOMAIN history: i < j => history[i] < history[j]

\* A request that was stopped or replaced is silent: whatever still arrives for it, it
\* adds no text, no card, no apology, no history and no continuation.
NoLateWrites ==
    [][\A r \in Submits:
          \/ requests'[r].answered /\ ~requests[r].answered
          \/ apology' = r /\ apology # r
          \/ cards[r] = "none" /\ cards'[r] # "none"
          \/ lookupContinuation' = r /\ lookupContinuation # r
          \/ history' # history /\ history'[Len(history')] = r
          => activeRequest = r]_chatVars

\* Even if the server never answers a request, it ends and the composer is given back.
RequestEnds == []<>(activeRequest = None)

\* A choice is confirmed with its own label: the request that carries the token of a
\* card carries that card's label as its message, and nothing the visitor typed since.
ChoiceKeepsItsLabel ==
    \A r \in Submits: requests[r].clarification # None =>
        requests[r].text = requests[r].clarification
====
