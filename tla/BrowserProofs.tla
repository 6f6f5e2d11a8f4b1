--------------------------- MODULE BrowserProofs ---------------------------
(***************************************************************************)
(* Theorems about Attention.tla, for any sections and interests and any    *)
(* number of texts on their way, and about the three parts of the page's   *)
(* client together.                                                        *)
(***************************************************************************)
EXTENDS MCBrowser, ObservationsProofs, ChatClientProofs, SequenceTheorems, TLAPS

AttInv == AttTypeOK /\ InterestIsHeld

PlacesOK ==
    /\ pointerOn \in Interests \cup {Nobody} /\ focusOn \in Interests \cup {Nobody}
    /\ gone \in BOOLEAN /\ currentSectionId \in SectionIds

AwarenessOK ==
    /\ currentInterest \in Interests \cup {Nobody} /\ hover \in Interests \cup {Nobody}
    /\ said \in Said \cup {Nobody} /\ resetTimer \in BOOLEAN

CoreOK ==
    /\ activeInterest \in Interests \cup {Nobody}
    /\ focused \in BOOLEAN /\ releaseTimer \in BOOLEAN
    /\ activated \in BOOLEAN

EngagementOK == engagement \in 0..2

ElementOK == activeInterest # Nobody => focused = TRUE

LineOK ==
    /\ temporaryTimer \in BOOLEAN
    /\ writes \in Seq(Messages) /\ Len(writes) <= MaxWrites
    /\ text \in Messages

TypesOK ==
    /\ PlacesOK /\ AwarenessOK /\ CoreOK /\ EngagementOK /\ ElementOK /\ LineOK

LEMMA AttTypeParts == (AttTypeOK <=> TypesOK) /\ (AttTypeOK' <=> TypesOK')
  BY DEF AttTypeOK, TypesOK, PlacesOK, AwarenessOK, CoreOK, ElementOK, EngagementOK, LineOK

LEMMA NobodyIsNoInterest == Nobody \notin Interests
  BY AttentionAssumption

\* Every message the controllers make up is one.
LEMMA MessageTypes ==
  /\ Interests \subseteq Messages /\ SectionIds \subseteq Messages
  /\ Activated \in Messages /\ Engaged \in Messages
  BY DEF Messages

LEMMA SaidType ==
  ASSUME NEW m \in Messages, NEW temporary \in BOOLEAN, UpdateCoreMessage(m, temporary)
  PROVE  said' \in Said \cup {Nobody} /\ resetTimer' \in BOOLEAN
  BY DEF UpdateCoreMessage, Said

LEMMA WriteType ==
  ASSUME writes \in Seq(Messages), MaxWrites \in Nat, NEW m \in Messages,
         NEW temporary \in BOOLEAN, SetCoreMessage(m, temporary)
  PROVE  /\ writes' \in Seq(Messages) /\ Len(writes') <= MaxWrites
         /\ temporaryTimer' \in BOOLEAN
  BY DEF SetCoreMessage

LEMMA AttInitInv == AttInit => AttInv
  <1> SUFFICES ASSUME AttInit PROVE AttInv
    OBVIOUS
  <1> USE DEF AttInit
  <1>1. PlacesOK
    BY DEF PlacesOK
  <1>2. AwarenessOK
    BY DEF AwarenessOK
  <1>3. CoreOK
    BY DEF CoreOK
  <1>3a. ElementOK
    BY DEF ElementOK
  <1>3b. EngagementOK
    BY DEF EngagementOK
  <1>4. LineOK
    <2>1. writes \in Seq(Messages) /\ Len(writes) <= MaxWrites
      BY AttentionAssumption
    <2>2. text \in Messages
      BY MessageTypes
    <2> QED BY <2>1, <2>2 DEF LineOK
  <1>5. TypesOK
    BY <1>1, <1>2, <1>3, <1>3a, <1>3b, <1>4 DEF TypesOK
  <1> QED BY <1>5, AttTypeParts DEF AttInv, InterestIsHeld

(***************************************************************************)
(* What the shared parts of the handlers do to the types.                  *)
(***************************************************************************)
\* The line stays one, whichever text the Core puts on its way.
LEMMA CoreWrites ==
  ASSUME LineOK, NEW m \in Messages, NEW temporary \in BOOLEAN,
         SetCoreMessage(m, temporary), text' \in Messages
  PROVE  LineOK'
  BY WriteType, AttentionAssumption DEF LineOK

LEMMA CoreRestores ==
  ASSUME LineOK, NEW i \in Interests \cup {Nobody}, NEW s \in SectionIds,
         RestoreSectionMessage(i, s), text' \in Messages
  PROVE  LineOK'
  <1>1. (IF i # Nobody THEN i ELSE s) \in Messages
    BY MessageTypes
  <1> QED BY <1>1, CoreWrites DEF RestoreSectionMessage

LEMMA LineKept ==
  ASSUME LineOK, UNCHANGED line, text' \in Messages
  PROVE  LineOK'
  BY DEF LineOK, line

LEMMA InterestActivates ==
  ASSUME TypesOK, NEW i \in Interests, NEW temporary \in BOOLEAN,
         ActivateInterest(i, temporary), hover' \in Interests \cup {Nobody}
  PROVE  /\ AwarenessOK' /\ CoreOK' /\ ElementOK' /\ EngagementOK' /\ LineOK'
          /\ currentSectionId' \in SectionIds
         /\ currentInterest' = i /\ resetTimer' = temporary
  <1> USE DEF ActivateInterest
  <1>1. i \in Messages
    BY MessageTypes
  <1>2. AwarenessOK'
    BY <1>1, SaidType DEF AwarenessOK
  <1>3. CoreOK'
    BY DEF TypesOK, CoreOK
  <1>3a. ElementOK'
    BY DEF TypesOK, ElementOK
  <1>3b. EngagementOK'
    BY DEF TypesOK, EngagementOK
  <1>4. LineOK'
    BY <1>1, CoreWrites, LineKept DEF TypesOK, LineOK
  <1> QED BY <1>2, <1>3, <1>3a, <1>3b, <1>4 DEF UpdateCoreMessage, TypesOK, PlacesOK

(***************************************************************************)
(* Each step keeps both conjuncts.                                         *)
(***************************************************************************)
LEMMA SectionStep ==
  ASSUME TypesOK, InterestIsHeld, NEW s \in SectionIds, SetCurrentSection(s)
  PROVE  TypesOK' /\ InterestIsHeld'
  <1> USE DEF SetCurrentSection, visitor
  <1>1. s \in Messages
    BY MessageTypes
  <1>2. PlacesOK'
    BY DEF TypesOK, PlacesOK
  <1>3. AwarenessOK'
    BY <1>1, SaidType DEF TypesOK, AwarenessOK
  <1>4. CoreOK'
    BY DEF TypesOK, CoreOK, Forget
  <1>4a. ElementOK'
    BY DEF TypesOK, ElementOK, Forget
  <1>4b. EngagementOK'
    BY DEF TypesOK, EngagementOK, Forget
  <1>5. LineOK'
    BY CoreRestores DEF TypesOK, LineOK
  <1>6. InterestIsHeld'
    BY DEF InterestIsHeld
  <1> QED BY <1>2, <1>3, <1>4, <1>4a, <1>4b, <1>5, <1>6 DEF TypesOK

LEMMA PointerStep ==
  ASSUME TypesOK, InterestIsHeld,
         \/ \E i \in Interests: PointerOver(i)
         \/ \E towards \in BOOLEAN: PointerOut(towards)
  PROVE  TypesOK' /\ InterestIsHeld'
  <1> USE DEF PointerOver, PointerOut, attention, line
  <1>1. PlacesOK'
    BY DEF TypesOK, PlacesOK
  <1>2. AwarenessOK'
    BY DEF TypesOK, AwarenessOK
  <1>3. CoreOK'
    BY DEF TypesOK, CoreOK
  <1>3a. ElementOK'
    BY DEF TypesOK, ElementOK
  <1>3b. EngagementOK'
    BY DEF TypesOK, EngagementOK
  <1>4. LineOK'
    BY LineKept DEF TypesOK, LineOK
  <1>5. InterestIsHeld'
    BY DEF InterestIsHeld
  <1> QED BY <1>1, <1>2, <1>3, <1>3a, <1>3b, <1>4, <1>5 DEF TypesOK

LEMMA InterestStep ==
  ASSUME TypesOK, InterestIsHeld,
         (\E i \in Interests: FocusIn(i) \/ Click(i)) \/ HoverDue
  PROVE  TypesOK' /\ InterestIsHeld'
  <1>1. ASSUME NEW i \in Interests, FocusIn(i) PROVE TypesOK' /\ InterestIsHeld'
    <2>1. ActivateInterest(i, FALSE) /\ hover' = hover /\ focusOn' = i
      BY <1>1 DEF FocusIn
    <2>2. hover' \in Interests \cup {Nobody}
      BY <2>1 DEF TypesOK, AwarenessOK
    <2>3. /\ AwarenessOK' /\ CoreOK' /\ ElementOK' /\ EngagementOK' /\ LineOK'
          /\ currentSectionId' \in SectionIds
      BY <2>1, <2>2, InterestActivates
    <2>4. PlacesOK'
      BY <1>1, <2>3 DEF FocusIn, TypesOK, PlacesOK
    <2>5. InterestIsHeld'
      BY <1>1, <2>1, NobodyIsNoInterest DEF FocusIn, InterestIsHeld
    <2> QED BY <2>3, <2>4, <2>5 DEF TypesOK
  <1>2. ASSUME NEW i \in Interests, Click(i) PROVE TypesOK' /\ InterestIsHeld'
    <2>1. ActivateInterest(i, TRUE) /\ UNCHANGED <<pointerOn, focusOn, gone, hover>>
      BY <1>2 DEF Click, visitor
    <2>2. hover' \in Interests \cup {Nobody}
      BY <2>1 DEF TypesOK, AwarenessOK
    <2>3. /\ AwarenessOK' /\ CoreOK' /\ ElementOK' /\ EngagementOK' /\ LineOK'
          /\ currentSectionId' \in SectionIds
          /\ resetTimer' = TRUE
      BY <2>1, <2>2, InterestActivates
    <2>4. PlacesOK'
      BY <2>1, <2>3 DEF TypesOK, PlacesOK
    <2>5. InterestIsHeld'
      BY <2>1, <2>3 DEF InterestIsHeld
    <2> QED BY <2>3, <2>4, <2>5 DEF TypesOK
  <1>3. ASSUME HoverDue PROVE TypesOK' /\ InterestIsHeld'
    <2>1. /\ hover # Nobody /\ hover' = Nobody
          /\ ActivateInterest(hover, TRUE) /\ UNCHANGED <<pointerOn, focusOn, gone>>
      BY <1>3 DEF HoverDue, visitor
    <2>2. hover \in Interests /\ hover' \in Interests \cup {Nobody}
      BY <2>1 DEF TypesOK, AwarenessOK
    <2>3. /\ AwarenessOK' /\ CoreOK' /\ ElementOK' /\ EngagementOK' /\ LineOK'
          /\ currentSectionId' \in SectionIds
          /\ resetTimer' = TRUE
      BY <2>1, <2>2, InterestActivates
    <2>4. PlacesOK'
      BY <2>1, <2>3 DEF TypesOK, PlacesOK
    <2>5. InterestIsHeld'
      BY <2>1, <2>3 DEF InterestIsHeld
    <2> QED BY <2>3, <2>4, <2>5 DEF TypesOK
  <1> QED BY <1>1, <1>2, <1>3

\* The steps in which awareness goes back to the section's message.
LEMMA BackToSectionStep ==
  ASSUME TypesOK, InterestIsHeld, FocusOut \/ ResetDue
  PROVE  TypesOK' /\ InterestIsHeld'
  <1> USE DEF FocusOut, ResetDue, visitor, attention, line
  <1>1. currentSectionId \in Messages
    BY MessageTypes DEF TypesOK, PlacesOK
  <1>2. PlacesOK'
    BY DEF TypesOK, PlacesOK
  <1>3. AwarenessOK'
    BY <1>1, SaidType DEF TypesOK, AwarenessOK, RestoreCurrentSectionMessage
  <1>4. CoreOK'
    BY DEF TypesOK, CoreOK
  <1>4a. ElementOK'
    BY DEF TypesOK, ElementOK
  <1>4b. EngagementOK'
    BY DEF TypesOK, EngagementOK
  <1>5. LineOK'
    BY LineKept DEF TypesOK, LineOK
  <1>6. InterestIsHeld'
    BY DEF InterestIsHeld, RestoreCurrentSectionMessage
  <1> QED BY <1>2, <1>3, <1>4, <1>4a, <1>4b, <1>5, <1>6 DEF TypesOK

\* The steps of the Core's own controls and timers; awareness takes no part.
CoreSteps ==
    \/ ActivateCore \/ CorePointerUp \/ Escape \/ Leave
    \/ WriteDue \/ TemporaryDue \/ ReleaseDue \/ EngagementDue \/ ActivationDue

LEMMA CoreTexts ==
  ASSUME TypesOK, CoreSteps
  PROVE  LineOK'
  <1> USE DEF visitor, awareness, attention
  <1>1. LineOK /\ text \in Messages /\ activeInterest \in Interests \cup {Nobody}
        /\ currentSectionId \in SectionIds /\ Nobody \in Interests \cup {Nobody}
    BY DEF TypesOK, LineOK, CoreOK, PlacesOK
  <1>2. ASSUME Activate, text' = text PROVE LineOK'
    BY <1>1, <1>2, MessageTypes, CoreWrites, LineKept DEF Activate
  <1>3. CASE ActivateCore \/ CorePointerUp
    BY <1>2, <1>3 DEF ActivateCore, CorePointerUp
  <1>4. CASE Escape \/ ReleaseDue
    BY <1>1, <1>4, CoreRestores DEF Escape, ReleaseDue
  <1>5. CASE Leave \/ ActivationDue
    BY <1>1, <1>5, LineKept DEF Leave, ActivationDue
  <1>6. CASE WriteDue
    <2>1. Head(writes) \in Messages /\ Tail(writes) \in Seq(Messages)
          /\ Len(Tail(writes)) <= Len(writes)
      BY <1>1, <1>6 DEF WriteDue, LineOK
    <2>2. /\ writes' \in Seq(Messages) /\ text' \in Messages
          /\ Len(writes') <= Len(writes) /\ temporaryTimer' = temporaryTimer
      BY <1>6, <2>1 DEF WriteDue
    <2> QED BY <1>1, <2>2, AttentionAssumption DEF LineOK
  <1>7. CASE TemporaryDue
    BY <1>1, <1>7, CoreRestores DEF TemporaryDue
  <1>8. CASE EngagementDue
    BY <1>1, <1>8, MessageTypes, CoreWrites, LineKept DEF EngagementDue
  <1> QED BY <1>3, <1>4, <1>5, <1>6, <1>7, <1>8 DEF CoreSteps

LEMMA CoreStep ==
  ASSUME TypesOK, InterestIsHeld, CoreSteps
  PROVE  TypesOK' /\ InterestIsHeld'
  <1> USE DEF CoreSteps, ActivateCore, CorePointerUp, Escape, Leave, WriteDue, TemporaryDue,
              ReleaseDue, EngagementDue, ActivationDue, visitor, awareness, attention
  <1>1. PlacesOK'
    BY DEF TypesOK, PlacesOK
  <1>2. AwarenessOK'
    BY DEF TypesOK, AwarenessOK
  <1>3. CoreOK'
    BY DEF TypesOK, CoreOK, Forget, Activate
  <1>3a. ElementOK'
    BY DEF TypesOK, ElementOK, Forget, Activate
  <1>3b. EngagementOK'
    <2>1. CASE EngagementDue
      BY <2>1 DEF TypesOK, EngagementOK
    <2>2. CASE ~EngagementDue
      <3>1. engagement' = engagement
        BY <2>2
      <3> QED BY <3>1 DEF TypesOK, EngagementOK
    <2> QED BY <2>1, <2>2
  <1>4. InterestIsHeld'
    BY DEF InterestIsHeld
  <1> QED BY <1>1, <1>2, <1>3, <1>3a, <1>3b, <1>4, CoreTexts DEF TypesOK

LEMMA MessageStep ==
  ASSUME TypesOK, InterestIsHeld, MessageDue
  PROVE  TypesOK' /\ InterestIsHeld'
  <1> USE DEF MessageDue, visitor, attention
  <1>1. said.message \in Messages /\ said.temporary \in BOOLEAN
    BY DEF TypesOK, AwarenessOK, Said
  <1>2. PlacesOK'
    BY DEF TypesOK, PlacesOK
  <1>3. AwarenessOK'
    BY DEF TypesOK, AwarenessOK
  <1>4. CoreOK'
    BY DEF TypesOK, CoreOK
  <1>4a. ElementOK'
    BY DEF TypesOK, ElementOK
  <1>4b. EngagementOK'
    BY DEF TypesOK, EngagementOK
  <1>5. LineOK'
    BY <1>1, CoreWrites DEF TypesOK
  <1>6. InterestIsHeld'
    BY DEF InterestIsHeld
  <1> QED BY <1>2, <1>3, <1>4, <1>4a, <1>4b, <1>5, <1>6 DEF TypesOK

LEMMA AttStepInv == AttInv /\ [AttNext]_attVars => AttInv'
  <1> SUFFICES ASSUME TypesOK, InterestIsHeld, [AttNext]_attVars
               PROVE  TypesOK' /\ InterestIsHeld'
    BY AttTypeParts DEF AttInv
  <1>1. CASE AttNext
    BY <1>1, SectionStep, PointerStep, InterestStep, BackToSectionStep, CoreStep, MessageStep
       DEF AttNext, Timers, CoreSteps
  <1>2. CASE UNCHANGED attVars
    BY <1>2 DEF attVars, visitor, awareness, attention, line, TypesOK, PlacesOK,
                AwarenessOK, CoreOK, ElementOK, EngagementOK, LineOK, InterestIsHeld
  <1> QED BY <1>1, <1>2

(***************************************************************************)
(* What the line will say at last.                                         *)
(***************************************************************************)
\* The text that will stand when the writes on their way have been made.
Latest == IF writes = <<>> THEN text ELSE writes[Len(writes)]

\* Awareness is about to say what it is about.
SaidIsCurrent ==
    said # Nobody =>
        said.message = IF currentInterest = Nobody THEN currentSectionId ELSE currentInterest

\* No timer will change what is on its way.  An activation under way started a timer, so
\* what ended that timer was not the Core's interest.
LastIsTrue ==
    said = Nobody /\ ~resetTimer /\ ~temporaryTimer /\ ~releaseTimer =>
        /\ Latest \in {currentSectionId, currentInterest, activeInterest}
        /\ activated => Latest \in {currentSectionId, currentInterest}

LineInv == SaidIsCurrent /\ LastIsTrue

LEMMA LatestOfWrite ==
  ASSUME writes \in Seq(Messages), NEW m \in Messages, NEW temporary \in BOOLEAN,
         SetCoreMessage(m, temporary)
  PROVE  Latest' = m /\ temporaryTimer' = temporary
  BY DEF SetCoreMessage, Latest

LEMMA LatestOfRestore ==
  ASSUME TypesOK, NEW i \in Interests \cup {Nobody}, NEW s \in SectionIds,
         RestoreSectionMessage(i, s)
  PROVE  Latest' = IF i # Nobody THEN i ELSE s
  <1>1. (IF i # Nobody THEN i ELSE s) \in Messages
    BY MessageTypes
  <1> QED BY <1>1, LatestOfWrite DEF RestoreSectionMessage, TypesOK, LineOK

LEMMA LastOfTail ==
  ASSUME NEW S, NEW s \in Seq(S), s # <<>>
  PROVE  s[Len(s)] = IF Tail(s) = <<>> THEN Head(s) ELSE Tail(s)[Len(Tail(s))]
  <1>1. Len(s) \in Nat \ {0}
    BY EmptySeq
  <1>2. Len(Tail(s)) = Len(s) - 1 /\ \A i \in 1 .. Len(s) - 1 : Tail(s)[i] = s[i + 1]
    BY HeadTailProperties
  <1>3. CASE Tail(s) = <<>>
    <2>1. Len(s) - 1 = 0
      BY <1>2, <1>3, EmptySeq
    <2>2. Len(s) = 1
      BY <1>1, <2>1
    <2> QED BY <1>3, <2>2
  <1>4. CASE Tail(s) # <<>>
    <2>1. Tail(s) \in Seq(S)
      BY HeadTailProperties
    <2>2. Len(Tail(s)) \in Nat \ {0}
      BY <1>4, <2>1, EmptySeq
    <2> QED BY <1>1, <1>2, <1>4, <2>2
  <1> QED BY <1>3, <1>4

\* A write that is made is the next text: the last one stays the same.
LEMMA LatestOfWriteDue ==
  ASSUME TypesOK, WriteDue
  PROVE  Latest' = Latest
  <1>1. writes \in Seq(Messages) /\ writes # <<>> /\ writes' = Tail(writes)
        /\ text' = Head(writes)
    BY DEF WriteDue, TypesOK, LineOK
  <1>2. CASE Tail(writes) = <<>>
    BY <1>1, <1>2, LastOfTail DEF Latest
  <1>3. CASE Tail(writes) # <<>>
    BY <1>1, <1>3, LastOfTail DEF Latest
  <1> QED BY <1>2, <1>3

LEMMA SaidIsNotNobody ==
  ASSUME NEW m \in Messages, NEW temporary \in BOOLEAN
  PROVE  [message |-> m, temporary |-> temporary] # Nobody
  BY AttentionAssumption DEF Said

LEMMA LatestKept == UNCHANGED <<line, text>> => Latest' = Latest
  BY DEF line, Latest

\* Whoever activates an interest puts it on its way, and awareness has said so.
LEMMA LineOfInterest ==
  ASSUME NEW i \in Interests, NEW temporary \in BOOLEAN, ActivateInterest(i, temporary)
  PROVE  LineInv'
  <1>1. said' = [message |-> i, temporary |-> temporary] /\ currentInterest' = i
    BY DEF ActivateInterest, UpdateCoreMessage
  <1>2. i # Nobody /\ said'.message = i
    BY <1>1, NobodyIsNoInterest
  <1>3. said' # Nobody
    BY <1>1, MessageTypes, SaidIsNotNobody
  <1> QED BY <1>1, <1>2, <1>3 DEF LineInv, SaidIsCurrent, LastIsTrue

\* When awareness goes back to the section its message is on its way.
LEMMA LineOfSection ==
  ASSUME NEW s \in SectionIds, currentSectionId' = s, currentInterest' = Nobody,
         UpdateCoreMessage(s, FALSE)
  PROVE  LineInv'
  <1>1. said' = [message |-> s, temporary |-> FALSE]
    BY DEF UpdateCoreMessage
  <1>2. said' # Nobody
    BY <1>1, MessageTypes, SaidIsNotNobody
  <1> QED BY <1>1, <1>2 DEF LineInv, SaidIsCurrent, LastIsTrue

LEMMA LineOfStep ==
  ASSUME TypesOK, LineInv, AttNext
  PROVE  LineInv'
  <1> USE DEF visitor, awareness, attention
  <1>0. /\ currentSectionId \in SectionIds /\ activeInterest \in Interests \cup {Nobody}
        /\ writes \in Seq(Messages)
    BY DEF TypesOK, PlacesOK, CoreOK, LineOK
  <1>1. ASSUME NEW s \in SectionIds, SetCurrentSection(s) PROVE LineInv'
    <2>1. CASE currentInterest = Nobody
      BY <1>1, <2>1, LineOfSection DEF SetCurrentSection
    <2>2. CASE currentInterest # Nobody
      <3>1. Latest' = s
        BY <1>1, LatestOfRestore DEF SetCurrentSection
      <3> QED BY <1>1, <2>2, <3>1 DEF SetCurrentSection, LineInv, SaidIsCurrent, LastIsTrue
    <2> QED BY <2>1, <2>2
  <1>2. ASSUME NEW i \in Interests, FocusIn(i) \/ Click(i) PROVE LineInv'
    BY <1>2, LineOfInterest DEF FocusIn, Click
  <1>3. CASE HoverDue
    <2>1. hover \in Interests
      BY <1>3 DEF HoverDue, TypesOK, AwarenessOK
    <2> QED BY <1>3, <2>1, LineOfInterest DEF HoverDue
  <1>4. ASSUME \/ \E i \in Interests : PointerOver(i)
               \/ \E towards \in BOOLEAN : PointerOut(towards)
               \/ Leave
        PROVE  LineInv'
    <2>1. Latest' = Latest
      BY <1>4, LatestKept DEF PointerOver, PointerOut, Leave
    <2>2. /\ UNCHANGED <<currentSectionId, currentInterest, said, resetTimer, activeInterest,
                         activated, temporaryTimer>>
      BY <1>4 DEF PointerOver, PointerOut, Leave, line
    <2>3. releaseTimer => releaseTimer'
      BY <1>4, Zenon DEF PointerOver, PointerOut, Leave
    <2> QED BY <2>1, <2>2, <2>3 DEF LineInv, SaidIsCurrent, LastIsTrue
  <1>5. CASE FocusOut
    <2>1. CASE RestoreCurrentSectionMessage
      BY <1>0, <1>5, <2>1, LineOfSection DEF FocusOut, RestoreCurrentSectionMessage
    <2>2. CASE UNCHANGED <<currentInterest, said, resetTimer>>
      <3>1. Latest' = Latest
        BY <1>5, LatestKept DEF FocusOut
      <3> QED BY <1>5, <2>2, <3>1 DEF FocusOut, LineInv, SaidIsCurrent, LastIsTrue
    <2> QED BY <1>5, <2>1, <2>2 DEF FocusOut
  <1>6. CASE ResetDue
    BY <1>0, <1>6, LineOfSection DEF ResetDue, RestoreCurrentSectionMessage
  <1>7. CASE ActivateCore \/ CorePointerUp
    <2>1. CASE activated
      <3>1. UNCHANGED line /\ activated' = activated /\ Latest' = Latest
        BY <1>7, <2>1, LatestKept DEF ActivateCore, CorePointerUp, Activate
      <3> QED BY <1>7, <2>1, <3>1
              DEF ActivateCore, CorePointerUp, line, LineInv, SaidIsCurrent, LastIsTrue
    <2>2. CASE ~activated
      <3>1. temporaryTimer' = TRUE
        BY <1>7, <2>2 DEF ActivateCore, CorePointerUp, Activate, SetCoreMessage
      <3> QED BY <1>7, <3>1 DEF ActivateCore, CorePointerUp, LineInv, SaidIsCurrent, LastIsTrue
    <2> QED BY <2>1, <2>2
  <1>8. CASE Escape \/ ReleaseDue
    <2>1. Latest' = currentSectionId
      BY <1>0, <1>8, LatestOfRestore DEF Escape, ReleaseDue
    <2> QED BY <1>8, <2>1 DEF Escape, ReleaseDue, LineInv, SaidIsCurrent, LastIsTrue
  <1>9. CASE MessageDue
    <2>1. said \in Said /\ said.message \in Messages /\ said.temporary \in BOOLEAN
      BY <1>9 DEF MessageDue, TypesOK, AwarenessOK, Said
    <2>2. Latest' = said.message /\ temporaryTimer' = said.temporary
      BY <1>0, <1>9, <2>1, LatestOfWrite DEF MessageDue
    <2> QED BY <1>9, <2>2 DEF MessageDue, LineInv, SaidIsCurrent, LastIsTrue
  <1>10. CASE WriteDue
    <2>1. Latest' = Latest
      BY <1>10, LatestOfWriteDue
    <2> QED BY <1>10, <2>1 DEF WriteDue, LineInv, SaidIsCurrent, LastIsTrue
  <1>11. CASE TemporaryDue
    <2>1. Latest' \in {currentSectionId, activeInterest}
      BY <1>0, <1>11, LatestOfRestore DEF TemporaryDue
    <2> QED BY <1>11, <2>1 DEF TemporaryDue, LineInv, SaidIsCurrent, LastIsTrue
  <1>12. CASE EngagementDue
    <2>1. CASE activeInterest = Nobody /\ ~activated
      <3>1. temporaryTimer' = TRUE
        BY <1>12, <2>1 DEF EngagementDue, SetCoreMessage
      <3> QED BY <1>12, <3>1 DEF EngagementDue, LineInv, SaidIsCurrent, LastIsTrue
    <2>2. CASE ~(activeInterest = Nobody /\ ~activated)
      <3>1. UNCHANGED line /\ Latest' = Latest
        BY <1>12, <2>2, LatestKept DEF EngagementDue
      <3> QED BY <1>12, <3>1 DEF EngagementDue, line, LineInv, SaidIsCurrent, LastIsTrue
    <2> QED BY <2>1, <2>2
  <1>13. CASE ActivationDue
    <2>1. activeInterest' = activeInterest /\ Latest' = Latest
      BY <1>13, LatestKept DEF ActivationDue, Forget
    <2> QED BY <1>13, <2>1 DEF ActivationDue, line, LineInv, SaidIsCurrent, LastIsTrue
  <1> QED BY <1>1, <1>2, <1>3, <1>4, <1>5, <1>6, <1>7, <1>8, <1>9, <1>10, <1>11, <1>12, <1>13
          DEF AttNext, Timers

(***************************************************************************)
(* Theorems.                                                               *)
(***************************************************************************)
\* Types and holders of interests, together inductive.
THEOREM AttInvariant == AttSpec => []AttInv
  <1> QED BY AttInitInv, AttStepInv, PTL DEF AttSpec

\* The variables keep their types, and the Core's interest always has its element.
THEOREM AttTyped == AttSpec => []AttTypeOK
  <1>1. AttInv => AttTypeOK
    BY DEF AttInv
  <1> QED BY <1>1, AttInvariant, PTL

\* An interest always has something that will end it, and one in preparation is that
\* of the card under the pointer.
THEOREM InterestHeld == AttSpec => []InterestIsHeld
  <1>1. AttInv => InterestIsHeld
    BY DEF AttInv
  <1> QED BY <1>1, AttInvariant, PTL

\* The line comes to rest on the section the visitor is in or an interest still held.
THEOREM LineTold == AttSpec => []LineIsTrue
  <1>1. AttInit => LineInv
    BY DEF AttInit, LineInv, SaidIsCurrent, LastIsTrue, Latest
  <1>2. AttInv /\ LineInv /\ [AttNext]_attVars => LineInv'
    <2>1. ASSUME AttInv, LineInv, UNCHANGED attVars PROVE LineInv'
      BY <2>1 DEF attVars, visitor, awareness, attention, line, LineInv, SaidIsCurrent,
                  LastIsTrue, Latest
    <2> QED BY <2>1, LineOfStep, AttTypeParts DEF AttInv
  <1>3. LineInv => LineIsTrue
    BY DEF LineInv, LastIsTrue, LineIsTrue, Quiet, Latest
  <1> QED BY <1>1, <1>2, <1>3, AttInvariant, PTL DEF AttSpec

----------------------------------------------------------------------------
(* MCBrowser.tla: the three parts side by side.                              *)

\* Every part keeps its types when all run side by side.
THEOREM BrowserTyped == MCSpec => []TypeOK
  <1>1. MCInit => ObsInv /\ ChatInv /\ AttInv
    BY ObsInitInv, ChatInitInv, AttInitInv DEF MCInit
  <1>2. ObsInv /\ ChatInv /\ AttInv /\ [MCNext]_<<part, obsVars, chatVars, attVars>>
        => (ObsInv /\ ChatInv /\ AttInv)'
    BY ObsStepInv, ChatStepInv, AttStepInv DEF MCNext
  <1>3. ObsInv /\ ChatInv /\ AttInv => TypeOK
    BY DEF ObsInv, ChatInv, AttInv, TypeOK
  <1> QED BY <1>1, <1>2, <1>3, PTL DEF MCSpec
=============================================================================
