---- MODULE Observations ----
(***************************************************************************)
(* static/js/eyeball-observations.js: the page-memory session of one       *)
(* visitor (ObservationSession) and the controller that decides, once per  *)
(* qualifying visit, to ask the server for permission and wording and to   *)
(* reveal the optional invitation.                                         *)
(*                                                                         *)
(* performance.now() is a unit clock advanced by Tick; every stored        *)
(* instant is kept as an age that stops growing at the only threshold it   *)
(* is compared with.  session.revision is compared only with the value an  *)
(* evaluation captured: runs[e].current says the two are still equal.      *)
(* Page and session name the same section: every change of the page's      *)
(* section dispatches oes:sectionchange synchronously, so the other        *)
(* syncSection calls find nothing to do.                                   *)
(***************************************************************************)
EXTENDS Naturals

CONSTANTS
    Sections,      \* sections of the page
    Home,          \* the section a page opens in
    OfferSections, \* products and client-work
    Projects,      \* the three observed products
    Nil,           \* JavaScript's null
    Slots,         \* bound: evaluations that have not settled yet
    Reentry,       \* 15 s away makes a re-entry a new visit
    Dwell,         \* 45 s, the shorter threshold
    LongDwell,     \* 90 s, the longer one
    Cooldown       \* 180 s between two invitations

ASSUME ObservationsAssumption ==
    /\ Home \in Sections /\ OfferSections \subseteq Sections
    /\ Nil \notin Projects /\ Nil \notin Slots
    /\ {Reentry, Dwell, LongDwell, Cooldown} \subseteq Nat \ {0}
    /\ Dwell <= LongDwell

VARIABLES
    section, project,      \* where the visitor is, the product last touched
    elapsed,               \* visible time in the section
    visible,               \* the document is not hidden
    interactions, details, \* qualifying signals, counted up to Enough
    rested,                \* the last interaction is at least 3 s old
    testflight, opens, messages, dismissed, userActive,
    visits,                \* per section: was it visited, offered, left when
    seen, sinceOffer,      \* products already suggested, age of the last offer
    timer,                 \* time left of the one-shot check, or Nil
    pending, runs,         \* the evaluation in progress; all unsettled ones
    invitation             \* what the visible invitation is about, or Nil

session == <<section, project, elapsed, visible, interactions, details, rested,
             testflight, opens, messages, dismissed, userActive, visits, seen,
             sinceOffer>>
control == <<timer, pending, runs, invitation>>
obsVars == <<session, control>>

\* The only count the code tests for; the code's own caps (20) lie above it.
Enough == 2

Least(a, b) == IF a < b THEN a ELSE b
\* Math.max(0, a - b).
Less(a, b) == IF a > b THEN a - b ELSE 0

Visit == [met: BOOLEAN, offered: BOOLEAN, away: 0..Reentry, tried: SUBSET Projects]
Run == [at: {"settled", "deciding", "wording"}, section: Sections,
        project: Projects \cup {Nil}, current: BOOLEAN, aborted: BOOLEAN]

\* Nothing is left of an evaluation that has settled.
NoRun == [at |-> "settled", section |-> Home, project |-> Nil, current |-> FALSE,
          aborted |-> FALSE]
NewVisit == [met |-> TRUE, offered |-> FALSE, away |-> 0, tried |-> {}]
Unmet == [NewVisit EXCEPT !.met = FALSE]

ObsTypeOK ==
    /\ section \in Sections /\ project \in Projects \cup {Nil}
    /\ elapsed \in 0..LongDwell /\ sinceOffer \in 0..Cooldown
    /\ interactions \in 0..Enough /\ details \in 0..Enough
    /\ {visible, rested, testflight, opens, messages, dismissed, userActive} \subseteq BOOLEAN
    /\ visits \in [Sections -> Visit] /\ seen \subseteq Projects
    /\ timer \in 0..LongDwell \cup {Nil}
    /\ pending \in Slots \cup {Nil} /\ runs \in [Slots -> Run]
    /\ invitation \in [section: Sections, project: Projects] \cup {Nil}

ObsInit ==
    /\ section = Home /\ project = Nil /\ elapsed = 0 /\ visible \in BOOLEAN
    /\ interactions = 0 /\ details = 0 /\ rested = TRUE
    /\ testflight = FALSE /\ opens = FALSE /\ messages = FALSE
    /\ dismissed = FALSE /\ userActive = FALSE
    /\ visits = [s \in Sections |-> IF s = Home THEN NewVisit ELSE Unmet]
    /\ seen = {} /\ sinceOffer = Cooldown
    /\ timer = Nil /\ pending = Nil /\ invitation = Nil
    /\ runs = [e \in Slots |-> NoRun]

(***************************************************************************)
(* The parts the handlers share.                                           *)
(***************************************************************************)
Eligible ==
    /\ visible /\ section \in OfferSections /\ project # Nil
    /\ ~testflight /\ ~opens /\ ~messages /\ ~dismissed /\ ~userActive
    /\ ~visits[section].offered /\ project \notin seen
    /\ sinceOffer >= Cooldown /\ elapsed >= Dwell
    /\ interactions >= Enough \/ details >= Enough \/ elapsed >= LongDwell

\* revision++ (bumped) and pending?.abort() (aborting), as the evaluations see them;
\* of an aborted evaluation only its place matters, as it will never be used.
Disturb(bumped, aborting) ==
    runs' = [e \in Slots |-> IF aborting /\ e = pending
                             THEN [NoRun EXCEPT !.at = runs[e].at, !.aborted = TRUE]
                             ELSE [runs[e] EXCEPT !.current = @ /\ ~bumped]]

\* Without hiding the invitation.
CancelShown(bumped) ==
    /\ timer' = Nil /\ pending' = Nil /\ UNCHANGED invitation
    /\ Disturb(bumped, TRUE)

\* cancel(), called by a handler that has changed the session.
Cancel(bumped) ==
    /\ timer' = Nil /\ pending' = Nil /\ invitation' = Nil
    /\ Disturb(bumped, TRUE)

\* The moment for a visitor with signals, whatever the signals are.
ThresholdEarly == Dwell

\* schedule(): one timer, to the moment the present signals can qualify.
Threshold == IF interactions >= Enough \/ details >= Enough THEN Dwell ELSE LongDwell
Schedule(bumped) ==
    /\ pending' = Nil /\ invitation' = Nil
    /\ Disturb(bumped, TRUE)
    /\ timer' = IF dismissed' \/ opens' \/ testflight' \/ ~visible' \/ project' = Nil
                THEN Nil
                ELSE Less(Threshold', elapsed')

\* selectProject(p) applies in the two offering sections only.
Selects(p) == p # Nil /\ section \in OfferSections /\ project # p

(***************************************************************************)
(* Handlers of the page's events.                                          *)
(***************************************************************************)
\* oes:sectionchange: also dispatched again for the section already current.
SectionChange(s) ==
    /\ section' = s
    /\ UNCHANGED <<visible, testflight, opens, messages, dismissed, userActive,
                   seen, sinceOffer>>
    /\ IF s = section
       THEN /\ UNCHANGED <<project, elapsed, interactions, details, rested, visits>>
            /\ Schedule(FALSE)
       ELSE /\ project' = Nil /\ elapsed' = 0 /\ interactions' = 0 /\ details' = 0
            /\ rested' = TRUE
            /\ visits' = [visits EXCEPT
                    ![section].away = 0,
                    ![s] = IF @.met /\ @.away < Reentry THEN @ ELSE NewVisit]
            /\ Schedule(TRUE)

VisibilityChange ==
    /\ visible' = ~visible
    /\ UNCHANGED <<section, project, elapsed, interactions, details, rested, testflight,
                   opens, messages, dismissed, userActive, visits, seen, sinceOffer>>
    /\ Schedule(TRUE)

\* observeProduct: a click or a focus in product p (Nil: outside the products),
\* possibly on a published TestFlight link.  The modal drawer makes the page inert.
ObserveProduct(p, link) ==
    LET selects == Selects(p)
        counts  == p # Nil /\ project' = p /\ (selects \/ rested)
        bumped  == selects \/ counts \/ link
    IN /\ ~userActive
       /\ project' = IF selects THEN p ELSE project
       /\ interactions' = IF selects THEN 1
                          ELSE IF counts THEN Least(Enough, interactions + 1) ELSE interactions
       /\ details' = IF selects THEN 0 ELSE details
       /\ rested' = (rested /\ ~counts)
       /\ testflight' = (testflight \/ link)
       /\ UNCHANGED <<section, elapsed, visible, opens, messages, dismissed, userActive,
                      visits, seen, sinceOffer>>
       /\ IF bumped \/ testflight' THEN Schedule(bumped) ELSE UNCHANGED control

\* A native details element of product p opens.
OpenedDetails(p) ==
    LET selects == Selects(p)
    IN /\ ~userActive
       /\ project' = IF selects THEN p ELSE project
       /\ details' = IF selects THEN 1
                     ELSE IF project = p THEN Least(Enough, details + 1) ELSE details
       /\ interactions' = IF selects THEN 0 ELSE interactions
       /\ rested' = (selects \/ rested)
       /\ UNCHANGED <<section, elapsed, visible, testflight, opens, messages, dismissed,
                      userActive, visits, seen, sinceOffer>>
       /\ Schedule(TRUE)

\* The invitation's dismiss button.
InvitationDismiss ==
    /\ invitation # Nil
    /\ dismissed' = TRUE /\ userActive' = FALSE
    /\ UNCHANGED <<section, project, elapsed, visible, interactions, details, rested,
                   testflight, opens, messages, visits, seen, sinceOffer>>
    /\ Cancel(TRUE)

\* Called by the drawer: opened() when it was not open, sent() once it has been
\* opened, closed() after it was. The invitation's own button cancels and then
\* opens the drawer, whose opened() cancels again.
Opened ==
    /\ ~userActive
    /\ opens' = TRUE /\ userActive' = TRUE
    /\ UNCHANGED <<section, project, elapsed, visible, interactions, details, rested,
                   testflight, messages, dismissed, visits, seen, sinceOffer>>
    /\ Cancel(TRUE)

Sent ==
    /\ opens
    /\ messages' = TRUE
    /\ UNCHANGED <<section, project, elapsed, visible, interactions, details, rested,
                   testflight, opens, dismissed, userActive, visits, seen, sinceOffer>>
    /\ Cancel(TRUE)

Closed ==
    /\ userActive
    /\ dismissed' = TRUE /\ userActive' = FALSE
    /\ UNCHANGED <<section, project, elapsed, visible, interactions, details, rested,
                   testflight, opens, messages, visits, seen, sinceOffer>>
    /\ Cancel(TRUE)

(***************************************************************************)
(* evaluate(): from the timer to the invitation, across two awaits.        *)
(***************************************************************************)
Settled(e) ==
    /\ runs' = [runs EXCEPT ![e] = NoRun]
    /\ pending' = IF pending = e THEN Nil ELSE pending

\* A due check posts the first request, at most once per product and visit.
Free == {e \in Slots: runs[e].at = "settled"}
Evaluate ==
    /\ timer = 0 /\ Free # {}
    /\ timer' = Nil
    /\ IF Eligible /\ project \notin visits[section].tried
       THEN LET e == CHOOSE x \in Free: TRUE
            IN /\ visits' = [visits EXCEPT ![section].tried = @ \cup {project}]
               /\ pending' = e
               /\ runs' = [runs EXCEPT ![e] = [at |-> "deciding", section |-> section,
                               project |-> project, current |-> TRUE, aborted |-> FALSE]]
       ELSE UNCHANGED <<visits, pending, runs>>
    /\ UNCHANGED <<section, project, elapsed, visible, interactions, details, rested,
                   testflight, opens, messages, dismissed, userActive, seen, sinceOffer,
                   invitation>>

\* The session as it is now, not as it was asked about.
StillWantedNow(e) == Eligible

\* The check repeated after each await.
StillWanted(e) == ~runs[e].aborted /\ runs[e].current /\ Eligible

\* /api/chat/initiation answers offer_help or stay_silent.
Decided(e, offer) ==
    /\ runs[e].at = "deciding"
    /\ IF offer /\ StillWanted(e)
       THEN runs' = [runs EXCEPT ![e].at = "wording"] /\ UNCHANGED pending
       ELSE Settled(e)
    /\ UNCHANGED <<session, timer, invitation>>

\* /api/chat/invitation answers: usable says the wording is valid and not a repetition.
Worded(e, usable) ==
    /\ runs[e].at = "wording"
    /\ IF usable /\ StillWanted(e)
       THEN /\ visits' = [visits EXCEPT ![section].offered = TRUE]
            /\ seen' = seen \cup {project} /\ sinceOffer' = 0
            /\ invitation' = [section |-> runs[e].section, project |-> runs[e].project]
            /\ runs' = [x \in Slots |-> IF x = e THEN NoRun
                                        ELSE [runs[x] EXCEPT !.current = FALSE]]
            /\ pending' = IF pending = e THEN Nil ELSE pending
       ELSE Settled(e) /\ UNCHANGED <<visits, seen, sinceOffer, invitation>>
    /\ UNCHANGED <<section, project, elapsed, visible, interactions, details, rested,
                   testflight, opens, messages, dismissed, userActive, timer>>

\* Either fetch rejects or answers an error status.
Failed(e) ==
    /\ runs[e].at # "settled"
    /\ Settled(e)
    /\ UNCHANGED <<session, timer, invitation>>

\* Time passes; a due timer may still fire late.
Tick ==
    /\ elapsed' = IF visible THEN Least(LongDwell, elapsed + 1) ELSE elapsed
    /\ rested' = TRUE
    /\ sinceOffer' = Least(Cooldown, sinceOffer + 1)
    /\ visits' = [s \in Sections |-> IF s = section \/ ~visits[s].met THEN visits[s]
                        ELSE [visits[s] EXCEPT !.away = Least(Reentry, @ + 1)]]
    /\ timer' = IF timer = Nil THEN Nil ELSE Less(timer, 1)
    /\ UNCHANGED <<section, project, visible, interactions, details, testflight, opens,
                   messages, dismissed, userActive, seen, pending, runs, invitation>>

ObsNext ==
    \/ \E s \in Sections: SectionChange(s)
    \/ VisibilityChange
    \/ \E p \in Projects \cup {Nil}, link \in BOOLEAN: ObserveProduct(p, link)
    \/ \E p \in Projects: OpenedDetails(p)
    \/ InvitationDismiss \/ Opened \/ Sent \/ Closed
    \/ Evaluate
    \/ \E e \in Slots: Failed(e)
    \/ \E e \in Slots, yes \in BOOLEAN: Decided(e, yes) \/ Worded(e, yes)
    \/ Tick

\* The clock runs, and the browser fires due timers and gives up requests.
Expires == Evaluate \/ \E e \in Slots: Failed(e)

ObsFairness == WF_obsVars(Tick) /\ WF_obsVars(Expires)

ObsSpec == ObsInit /\ [][ObsNext]_obsVars /\ ObsFairness
----
(***************************************************************************)
(* Properties.                                                             *)
(***************************************************************************)
\* Whatever happened while it was being prepared and since, a visible invitation
\* stands on a session that still permits it: shown on a visible page, in an
\* offering section, and never beside an open drawer, after a message, a dismissal
\* or a TestFlight click.
InvitationStands ==
    invitation # Nil =>
        /\ visible /\ section \in OfferSections /\ project # Nil
        /\ ~testflight /\ ~opens /\ ~messages /\ ~dismissed /\ ~userActive

\* The wording on screen was requested for the product and the section the visitor
\* is still in, although both may change during the two awaits and afterwards.
InvitationMatches ==
    invitation # Nil =>
        /\ invitation = [section |-> section, project |-> project]
        /\ project \in seen /\ visits[section].offered

\* A visitor who qualifies before any invitation was made is not forgotten: the
\* one-shot timer was armed for the right moment, so the product is asked about or
\* the visitor stops qualifying.
QualifiedIsAsked ==
    [](Eligible /\ seen = {} => <>(~Eligible \/ project \in visits[section].tried))
====
