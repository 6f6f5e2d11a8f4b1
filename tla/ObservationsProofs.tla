------------------------ MODULE ObservationsProofs ------------------------
(***************************************************************************)
(* Theorems about Observations.tla, for any sections and products, any     *)
(* number of unsettled evaluations and any durations.                      *)
(***************************************************************************)
EXTENDS Observations, TLAPS

\* An evaluation whose revision is still the session's asked about the session's section
\* and product: what changes either disturbs it.
RunsMatch ==
    \A e \in Slots : runs[e].current => /\ runs[e].section = section
                                        /\ runs[e].project = project

\* All but the types.
Sound == RunsMatch /\ InvitationStands /\ InvitationMatches

ObsInv == ObsTypeOK /\ Sound

SessionOK ==
    /\ section \in Sections /\ project \in Projects \cup {Nil}
    /\ elapsed \in 0..LongDwell /\ sinceOffer \in 0..Cooldown
    /\ interactions \in 0..Enough /\ details \in 0..Enough
    /\ visible \in BOOLEAN /\ rested \in BOOLEAN /\ testflight \in BOOLEAN
    /\ opens \in BOOLEAN /\ messages \in BOOLEAN /\ dismissed \in BOOLEAN
    /\ userActive \in BOOLEAN
    /\ visits \in [Sections -> Visit] /\ seen \subseteq Projects

ControlOK ==
    /\ timer \in 0..LongDwell \cup {Nil}
    /\ pending \in Slots \cup {Nil} /\ runs \in [Slots -> Run]
    /\ invitation \in [section: Sections, project: Projects] \cup {Nil}

LEMMA ObsTypeParts ==
  /\ ObsTypeOK <=> SessionOK /\ ControlOK
  /\ ObsTypeOK' <=> SessionOK' /\ ControlOK'
  BY DEF ObsTypeOK, SessionOK, ControlOK

LEMMA Durations ==
  /\ Reentry \in Nat /\ Dwell \in 0..LongDwell /\ LongDwell \in Nat /\ Cooldown \in Nat
  /\ 0 \in 0..Reentry /\ 0 \in 0..LongDwell /\ 0 \in 0..Cooldown /\ Cooldown \in 0..Cooldown
  /\ LongDwell \in 0..LongDwell
  BY ObservationsAssumption

LEMMA NoRunType == NoRun \in Run /\ ~NoRun.current
  BY ObservationsAssumption DEF NoRun, Run

LEMMA NewVisitType == NewVisit \in Visit /\ Unmet \in Visit
  BY Durations DEF NewVisit, Unmet, Visit

LEMMA LeastType ==
  ASSUME NEW n \in Nat, NEW x \in Nat
  PROVE  Least(n, x) \in 0..n
  BY DEF Least

LEMMA LessType ==
  ASSUME NEW n \in Nat, NEW x \in 0..n, NEW y \in Nat
  PROVE  Less(x, y) \in 0..n
  BY DEF Less

\* Disturbing an evaluation only takes its revision away.
LEMMA DisturbFacts ==
  ASSUME runs \in [Slots -> Run], NEW bumped \in BOOLEAN, NEW aborting \in BOOLEAN,
         Disturb(bumped, aborting)
  PROVE  /\ runs' \in [Slots -> Run]
         /\ \A e \in Slots : runs'[e].current =>
               /\ ~bumped /\ runs[e].current
               /\ runs'[e].section = runs[e].section /\ runs'[e].project = runs[e].project
  <1>1. ASSUME NEW e \in Slots
        PROVE  /\ runs'[e] \in Run
               /\ runs'[e].current =>
                     /\ ~bumped /\ runs[e].current
                     /\ runs'[e].section = runs[e].section
                     /\ runs'[e].project = runs[e].project
    <2>1. runs[e] \in Run
      OBVIOUS
    <2>2. CASE aborting /\ e = pending
      <3>1. runs'[e] = [NoRun EXCEPT !.at = runs[e].at, !.aborted = TRUE]
        BY <2>2 DEF Disturb
      <3> QED BY <2>1, <3>1, ObservationsAssumption DEF NoRun, Run
    <2>3. CASE ~(aborting /\ e = pending)
      <3>1. runs'[e] = [runs[e] EXCEPT !.current = @ /\ ~bumped]
        BY <2>3 DEF Disturb
      <3>2. runs[e].current \in BOOLEAN
        BY <2>1 DEF Run
      <3>3. CASE bumped
        <4>1. runs'[e] = [runs[e] EXCEPT !.current = FALSE]
          BY <3>1, <3>2, <3>3
        <4> QED BY <2>1, <3>3, <4>1 DEF Run
      <3>4. CASE ~bumped
        <4>1. runs'[e] = runs[e]
          BY <2>1, <3>1, <3>2, <3>4 DEF Run
        <4> QED BY <2>1, <3>4, <4>1
      <3> QED BY <3>3, <3>4
    <2> QED BY <2>2, <2>3
  <1>2. runs' = [e \in Slots |-> runs'[e]]
    BY DEF Disturb
  <1> QED BY <1>1, <1>2

\* Whoever cancels after changing the session, with a new revision if the section or the
\* product changed, leaves everything sound.
LEMMA CancelSound ==
  ASSUME ControlOK, RunsMatch, NEW bumped \in BOOLEAN, Disturb(bumped, TRUE),
         ~bumped => section' = section /\ project' = project,
         pending' = Nil, invitation' = Nil,
         timer' \in 0..LongDwell \cup {Nil}
  PROVE  ControlOK' /\ Sound'
  <1>1. runs' \in [Slots -> Run]
    BY DisturbFacts DEF ControlOK
  <1>2. RunsMatch'
    BY DisturbFacts DEF ControlOK, RunsMatch
  <1>3. ControlOK'
    BY <1>1 DEF ControlOK
  <1> QED BY <1>2, <1>3 DEF Sound, InvitationStands, InvitationMatches

LEMMA CancelKeeps ==
  ASSUME ObsInv, SessionOK', Cancel(TRUE)
  PROVE  ObsInv'
  <1>1. ControlOK' /\ Sound'
    BY CancelSound, ObsTypeParts DEF Cancel, ObsInv, Sound
  <1> QED BY <1>1, ObsTypeParts DEF ObsInv

LEMMA ScheduleKeeps ==
  ASSUME ObsInv, SessionOK', NEW bumped \in BOOLEAN, Schedule(bumped),
         ~bumped => section' = section /\ project' = project
  PROVE  ObsInv'
  <1>1. Threshold' \in Nat /\ Threshold' \in 0..LongDwell
    BY Durations DEF Threshold
  <1>2. Less(Threshold', elapsed') \in 0..LongDwell
    BY <1>1, LessType, Durations DEF SessionOK
  <1>3. timer' \in 0..LongDwell \cup {Nil}
    BY <1>2 DEF Schedule
  <1>4. ControlOK' /\ Sound'
    BY <1>3, CancelSound, ObsTypeParts DEF Schedule, ObsInv, Sound
  <1> QED BY <1>4, ObsTypeParts DEF ObsInv

LEMMA ObsInitInv == ObsInit => ObsInv
  <1> SUFFICES ASSUME ObsInit PROVE ObsInv
    OBVIOUS
  <1>1. SessionOK
    <2>1. visits \in [Sections -> Visit]
      BY NewVisitType DEF ObsInit
    <2>2. section \in Sections /\ elapsed \in 0..LongDwell /\ sinceOffer \in 0..Cooldown
      BY ObservationsAssumption DEF ObsInit
    <2>3. interactions \in 0..Enough /\ details \in 0..Enough
      BY DEF ObsInit, Enough
    <2> QED BY <2>1, <2>2, <2>3 DEF ObsInit, SessionOK
  <1>2. ControlOK
    BY NoRunType DEF ObsInit, ControlOK
  <1>3. Sound
    BY NoRunType DEF ObsInit, Sound, RunsMatch, InvitationStands, InvitationMatches
  <1> QED BY <1>1, <1>2, <1>3, ObsTypeParts DEF ObsInv
\* Handlers that end in schedule().
LEMMA SectionChangeStep ==
  ASSUME ObsInv, NEW s \in Sections, SectionChange(s)
  PROVE  ObsInv'
  <1>1. SessionOK
    BY ObsTypeParts DEF ObsInv
  <1>2. CASE s = section
    <2>1. SessionOK' /\ Schedule(FALSE) /\ section' = section /\ project' = project
      BY <1>1, <1>2 DEF SectionChange, SessionOK
    <2> QED BY <2>1, ScheduleKeeps
  <1>3. CASE s # section
    <2> DEFINE left == [visits EXCEPT ![section].away = 0]
    <2>1. left \in [Sections -> Visit]
      <3>1. [visits[section] EXCEPT !.away = 0] \in Visit
        BY <1>1, Durations DEF SessionOK, Visit
      <3> QED BY <3>1, <1>1 DEF SessionOK
    <2>2. visits' = [left EXCEPT ![s] = IF @.met /\ @.away < Reentry THEN @ ELSE NewVisit]
      BY <1>3 DEF SectionChange
    <2> HIDE DEF left
    <2>3. visits' \in [Sections -> Visit]
      BY <2>1, <2>2, NewVisitType
    <2>4. elapsed' \in 0..LongDwell /\ interactions' \in 0..Enough /\ details' \in 0..Enough
      BY <1>3, Durations DEF SectionChange, Enough
    <2>5. SessionOK'
      BY <1>1, <1>3, <2>3, <2>4 DEF SectionChange, SessionOK
    <2> QED BY <2>5, <1>3, ScheduleKeeps DEF SectionChange
  <1> QED BY <1>2, <1>3

LEMMA VisibilityChangeStep ==
  ASSUME ObsInv, VisibilityChange
  PROVE  ObsInv'
  <1>1. SessionOK'
    BY ObsTypeParts DEF ObsInv, VisibilityChange, SessionOK
  <1> QED BY <1>1, ScheduleKeeps DEF VisibilityChange

LEMMA CountType ==
  ASSUME NEW n \in 0..Enough
  PROVE  Least(Enough, n + 1) \in 0..Enough /\ 0 \in 0..Enough /\ 1 \in 0..Enough
  BY DEF Least, Enough

LEMMA ObserveProductStep ==
  ASSUME ObsInv, NEW p \in Projects \cup {Nil}, NEW link \in BOOLEAN, ObserveProduct(p, link)
  PROVE  ObsInv'
  <1> DEFINE selects == Selects(p)
             counts == p # Nil /\ project' = p /\ (selects \/ rested)
             bumped == selects \/ counts \/ link
  <1>1. SessionOK /\ ControlOK /\ Sound
    BY ObsTypeParts DEF ObsInv
  <1>2. /\ project' = IF selects THEN p ELSE project
        /\ interactions' = IF selects THEN 1
                           ELSE IF counts THEN Least(Enough, interactions + 1) ELSE interactions
        /\ details' = IF selects THEN 0 ELSE details
        /\ rested' = (rested /\ ~counts) /\ testflight' = (testflight \/ link)
        /\ UNCHANGED <<section, elapsed, visible, opens, messages, dismissed, userActive,
                       visits, seen, sinceOffer>>
        /\ IF bumped \/ testflight' THEN Schedule(bumped) ELSE UNCHANGED control
    BY DEF ObserveProduct
  <1>3. selects \in BOOLEAN /\ counts \in BOOLEAN /\ bumped \in BOOLEAN
    BY <1>1 DEF Selects, SessionOK
  <1>4. interactions' \in 0..Enough /\ details' \in 0..Enough
    BY <1>1, <1>2, CountType DEF SessionOK
  <1> HIDE DEF counts
  <1>5. SessionOK'
    BY <1>1, <1>2, <1>3, <1>4 DEF SessionOK
  <1>6. CASE bumped \/ testflight'
    <2>1. Schedule(bumped)
      BY <1>2, <1>6
    <2>2. ~bumped => section' = section /\ project' = project
      BY <1>2
    <2> HIDE DEF bumped
    <2> QED BY <2>1, <2>2, <1>3, <1>5, ScheduleKeeps
  <1>7. CASE ~(bumped \/ testflight')
    <2>1. project' = project /\ section' = section /\ UNCHANGED control
      BY <1>2, <1>7
    <2>2. ControlOK'
      BY <1>1, <2>1 DEF ControlOK, control
    <2>3. Sound'
      BY <1>1, <1>2, <1>7, <2>1 DEF Sound, RunsMatch, InvitationStands, InvitationMatches, control
    <2> QED BY <1>5, <2>2, <2>3, ObsTypeParts DEF ObsInv
  <1> QED BY <1>6, <1>7

LEMMA OpenedDetailsStep ==
  ASSUME ObsInv, NEW p \in Projects, OpenedDetails(p)
  PROVE  ObsInv'
  <1>1. SessionOK
    BY ObsTypeParts DEF ObsInv
  <1>2. interactions' \in 0..Enough /\ details' \in 0..Enough
    BY <1>1, CountType DEF OpenedDetails, SessionOK
  <1>3. SessionOK'
    BY <1>1, <1>2 DEF OpenedDetails, SessionOK, Selects
  <1> QED BY <1>3, ScheduleKeeps DEF OpenedDetails

\* Handlers that cancel.
LEMMA CancellingSteps ==
  ASSUME ObsInv, InvitationDismiss \/ Opened \/ Sent \/ Closed
  PROVE  ObsInv'
  <1>1. SessionOK'
    BY ObsTypeParts DEF ObsInv, InvitationDismiss, Opened, Sent, Closed, SessionOK
  <1> QED BY <1>1, CancelKeeps DEF InvitationDismiss, Opened, Sent, Closed

\* The evaluations.
LEMMA SettledKeeps ==
  ASSUME ObsInv, NEW e \in Slots, Settled(e), UNCHANGED <<session, timer, invitation>>
  PROVE  ObsInv'
  <1>1. SessionOK /\ ControlOK /\ Sound
    BY ObsTypeParts DEF ObsInv
  <1>2. SessionOK'
    BY <1>1 DEF SessionOK, session
  <1>3. ControlOK'
    BY <1>1, NoRunType DEF ControlOK, Settled
  <1>4. RunsMatch'
    BY <1>1, NoRunType DEF Sound, RunsMatch, ControlOK, Settled, session
  <1>5. InvitationStands' /\ InvitationMatches'
    BY <1>1 DEF Sound, InvitationStands, InvitationMatches, session
  <1> QED BY <1>2, <1>3, <1>4, <1>5, ObsTypeParts DEF ObsInv, Sound

LEMMA EvaluateStep ==
  ASSUME ObsInv, Evaluate
  PROVE  ObsInv'
  <1>1. SessionOK /\ ControlOK /\ Sound
    BY ObsTypeParts DEF ObsInv
  <1>2. /\ timer' = Nil /\ invitation' = invitation
        /\ UNCHANGED <<section, project, elapsed, visible, interactions, details, rested,
                       testflight, opens, messages, dismissed, userActive, seen, sinceOffer>>
    BY DEF Evaluate
  <1>3. CASE Eligible /\ project \notin visits[section].tried
    <2> DEFINE e == CHOOSE x \in Free : TRUE
               asked == [at |-> "deciding", section |-> section, project |-> project,
                         current |-> TRUE, aborted |-> FALSE]
    <2>1. e \in Slots
      BY DEF Evaluate, Free
    <2>2. /\ visits' = [visits EXCEPT ![section].tried = @ \cup {project}]
          /\ pending' = e /\ runs' = [runs EXCEPT ![e] = asked]
      BY <1>3 DEF Evaluate
    <2> HIDE DEF e
    <2>3. asked \in Run
      BY <1>1 DEF Run, SessionOK
    <2>4. project \in Projects
      BY <1>1, <1>3 DEF SessionOK, Eligible
    <2>5. [visits[section] EXCEPT !.tried = @ \cup {project}] \in Visit
      BY <1>1, <2>4 DEF SessionOK, Visit
    <2>6. /\ visits' \in [Sections -> Visit]
          /\ \A s \in Sections : visits'[s].offered = visits[s].offered
      BY <1>1, <2>2, <2>5 DEF SessionOK, Visit
    <2>7. SessionOK'
      BY <1>1, <1>2, <2>6 DEF SessionOK
    <2>8. ControlOK'
      BY <1>1, <1>2, <2>1, <2>2, <2>3 DEF ControlOK
    <2>9. RunsMatch'
      BY <1>1, <1>2, <2>2 DEF ControlOK, Sound, RunsMatch
    <2>10. InvitationStands' /\ InvitationMatches'
      BY <1>1, <1>2, <2>6 DEF Sound, InvitationStands, InvitationMatches, SessionOK
    <2> QED BY <2>7, <2>8, <2>9, <2>10, ObsTypeParts DEF ObsInv, Sound
  <1>4. CASE ~(Eligible /\ project \notin visits[section].tried)
    <2>1. UNCHANGED <<visits, pending, runs>>
      BY <1>4 DEF Evaluate
    <2>2. SessionOK' /\ ControlOK'
      BY <1>1, <1>2, <2>1 DEF SessionOK, ControlOK
    <2>3. Sound'
      BY <1>1, <1>2, <2>1 DEF Sound, RunsMatch, InvitationStands, InvitationMatches
    <2> QED BY <2>2, <2>3, ObsTypeParts DEF ObsInv
  <1> QED BY <1>3, <1>4

LEMMA DecidedStep ==
  ASSUME ObsInv, NEW e \in Slots, NEW offer \in BOOLEAN, Decided(e, offer)
  PROVE  ObsInv'
  <1>1. CASE Settled(e)
    BY <1>1, SettledKeeps DEF Decided
  <1>2. CASE runs' = [runs EXCEPT ![e].at = "wording"] /\ UNCHANGED pending
    <2>1. SessionOK /\ ControlOK /\ Sound /\ UNCHANGED <<session, timer, invitation>>
      BY ObsTypeParts DEF ObsInv, Decided
    <2>2. /\ runs' \in [Slots -> Run]
          /\ \A x \in Slots : /\ runs'[x].current = runs[x].current
                              /\ runs'[x].section = runs[x].section
                              /\ runs'[x].project = runs[x].project
      BY <1>2, <2>1 DEF ControlOK, Run
    <2>3. SessionOK' /\ ControlOK'
      BY <1>2, <2>1, <2>2 DEF SessionOK, ControlOK, session
    <2>4. Sound'
      BY <2>1, <2>2 DEF Sound, RunsMatch, InvitationStands, InvitationMatches, session
    <2> QED BY <2>3, <2>4, ObsTypeParts DEF ObsInv
  <1> QED BY <1>1, <1>2 DEF Decided

LEMMA WordedStep ==
  ASSUME ObsInv, NEW e \in Slots, NEW usable \in BOOLEAN, Worded(e, usable)
  PROVE  ObsInv'
  <1>1. CASE ~(usable /\ StillWanted(e))
    <2>1. Settled(e) /\ UNCHANGED <<session, timer, invitation>>
      BY <1>1 DEF Worded, session
    <2> QED BY <2>1, SettledKeeps
  <1>2. CASE usable /\ StillWanted(e)
    <2>1. SessionOK /\ ControlOK /\ Sound
      BY ObsTypeParts DEF ObsInv
    <2>2. /\ visits' = [visits EXCEPT ![section].offered = TRUE]
          /\ seen' = seen \cup {project} /\ sinceOffer' = 0
          /\ invitation' = [section |-> runs[e].section, project |-> runs[e].project]
          /\ runs' = [x \in Slots |-> IF x = e THEN NoRun
                                      ELSE [runs[x] EXCEPT !.current = FALSE]]
          /\ pending' = IF pending = e THEN Nil ELSE pending
          /\ UNCHANGED <<section, project, elapsed, visible, interactions, details, rested,
                         testflight, opens, messages, dismissed, userActive, timer>>
      BY <1>2 DEF Worded
    <2>3. runs[e].section = section /\ runs[e].project = project /\ Eligible
      BY <1>2, <2>1 DEF StillWanted, Sound, RunsMatch
    <2>4. project \in Projects /\ section \in Sections
      BY <2>1, <2>3 DEF Eligible, SessionOK
    <2>5. [visits[section] EXCEPT !.offered = TRUE] \in Visit
      BY <2>1 DEF SessionOK, Visit
    <2>6. visits' \in [Sections -> Visit] /\ visits'[section].offered
      BY <2>1, <2>2, <2>4, <2>5 DEF SessionOK, Visit
    <2>7. SessionOK'
      BY <2>1, <2>2, <2>4, <2>6, Durations DEF SessionOK
    <2>8. \A x \in Slots : runs'[x] \in Run /\ ~runs'[x].current
      BY <2>1, <2>2, NoRunType DEF ControlOK, Run
    <2>9. invitation' = [section |-> section', project |-> project']
      BY <2>2, <2>3
    <2>10. ControlOK'
      BY <2>1, <2>2, <2>4, <2>8, <2>9 DEF ControlOK
    <2>11. RunsMatch'
      BY <2>8 DEF RunsMatch
    <2>12. InvitationStands' /\ InvitationMatches'
      BY <2>2, <2>3, <2>6, <2>9 DEF InvitationStands, InvitationMatches, Eligible
    <2> QED BY <2>7, <2>10, <2>11, <2>12, ObsTypeParts DEF ObsInv, Sound
  <1> QED BY <1>1, <1>2

LEMMA FailedStep ==
  ASSUME ObsInv, NEW e \in Slots, Failed(e)
  PROVE  ObsInv'
  BY SettledKeeps DEF Failed
\* The clock only makes more stand still: it ages what it must and offers nothing.
LEMMA TickStep ==
  ASSUME ObsInv, Tick
  PROVE  ObsInv'
  <1>1. SessionOK /\ ControlOK /\ Sound
    BY ObsTypeParts DEF ObsInv
  <1>2. elapsed' \in 0..LongDwell /\ sinceOffer' \in 0..Cooldown
    BY <1>1, LeastType, Durations DEF Tick, SessionOK
  <1>3. ASSUME NEW s \in Sections
        PROVE  visits'[s] \in Visit /\ visits'[s].offered = visits[s].offered
    <2>1. visits[s] \in Visit /\ visits[s].away \in 0..Reentry
      BY <1>1 DEF SessionOK, Visit
    <2>2. visits[s].away + 1 \in Nat
      BY <2>1, Durations
    <2>3. Least(Reentry, visits[s].away + 1) \in 0..Reentry
      BY <2>2, LeastType, Durations
    <2>4. \/ visits'[s] = visits[s]
          \/ visits'[s] = [visits[s] EXCEPT !.away = Least(Reentry, visits[s].away + 1)]
      BY DEF Tick
    <2> QED BY <2>1, <2>3, <2>4 DEF Visit
  <1>4. visits' \in [Sections -> Visit]
    BY <1>3 DEF Tick
  <1>5. SessionOK'
    BY <1>1, <1>2, <1>4 DEF Tick, SessionOK
  <1>6. timer' \in 0..LongDwell \cup {Nil}
    <2>1. timer # Nil => Less(timer, 1) \in 0..LongDwell
      BY <1>1, LessType, Durations DEF ControlOK
    <2> QED BY <2>1 DEF Tick
  <1>7. ControlOK'
    BY <1>1, <1>6 DEF Tick, ControlOK
  <1>8. RunsMatch' /\ InvitationStands' /\ InvitationMatches'
    BY <1>1, <1>3 DEF Tick, Sound, RunsMatch, InvitationStands, InvitationMatches, SessionOK
  <1> QED BY <1>5, <1>7, <1>8, ObsTypeParts DEF ObsInv, Sound

LEMMA ObsStepInv == ObsInv /\ [ObsNext]_obsVars => ObsInv'
  <1> SUFFICES ASSUME ObsInv, [ObsNext]_obsVars PROVE ObsInv'
    OBVIOUS
  <1>1. CASE UNCHANGED obsVars
    BY <1>1 DEF obsVars, session, control, ObsInv, ObsTypeOK, Sound, RunsMatch,
        InvitationStands, InvitationMatches
  <1>2. CASE \E s \in Sections : SectionChange(s)
    BY <1>2, SectionChangeStep
  <1>3. CASE VisibilityChange
    BY <1>3, VisibilityChangeStep
  <1>4. CASE \E p \in Projects \cup {Nil}, link \in BOOLEAN : ObserveProduct(p, link)
    BY <1>4, ObserveProductStep
  <1>5. CASE \E p \in Projects : OpenedDetails(p)
    BY <1>5, OpenedDetailsStep
  <1>6. CASE InvitationDismiss \/ Opened \/ Sent \/ Closed
    BY <1>6, CancellingSteps
  <1>7. CASE Evaluate
    BY <1>7, EvaluateStep
  <1>8. CASE \E e \in Slots : Failed(e)
    BY <1>8, FailedStep
  <1>9. CASE \E e \in Slots, yes \in BOOLEAN : Decided(e, yes) \/ Worded(e, yes)
    BY <1>9, DecidedStep, WordedStep
  <1>10. CASE Tick
    BY <1>10, TickStep
  <1> QED BY <1>1, <1>2, <1>3, <1>4, <1>5, <1>6, <1>7, <1>8, <1>9, <1>10 DEF ObsNext

\* The inductive invariant: soundness needs RunsMatch, which links evaluations to session.
THEOREM ObsInvariant == ObsSpec => []ObsInv
  BY ObsInitInv, ObsStepInv, PTL DEF ObsSpec

\* The types of the session and of its evaluations, timer and counters within their bounds.
THEOREM ObsTyped == ObsSpec => []ObsTypeOK
  BY ObsInvariant, PTL DEF ObsInv

\* An invitation on screen stands on a session that still permits one.
THEOREM InvitationPermitted == ObsSpec => []InvitationStands
  BY ObsInvariant, PTL DEF ObsInv, Sound

\* An invitation on screen is about the section and the product the visitor is at.
THEOREM InvitationUpToDate == ObsSpec => []InvitationMatches
  BY ObsInvariant, PTL DEF ObsInv, Sound
=============================================================================
