----------------------------- MODULE Attention -----------------------------
(***************************************************************************)
(* static/js/section-awareness.js and static/js/oes-core.js: what the page *)
(* believes the visitor attends to, and the one line of text under the     *)
(* Core.  Awareness keeps the current section and interest and writes the  *)
(* line; it tells the Core by events, and the Core keeps an interest of    *)
(* its own, has messages of its own, and writes the same line.             *)
(*                                                                         *)
(* A message is what it is about: a section, an interest, the activation   *)
(* or the long stay in a section.  A timer is TRUE while it is set and     *)
(* may fire at any later moment; only two facts about durations are used,  *)
(* named where they are.  The Core's activeSection follows awareness's     *)
(* currentSectionId within the same synchronous event: one variable here.  *)
(***************************************************************************)
EXTENDS Naturals, Sequences

CONSTANTS
    SectionIds, Interests, \* what the page shows, and the interests both tables list
    Activated, Engaged,    \* the Core's own messages
    Nobody,                \* no interest, no message
    MaxWrites              \* bound: texts within the 90 ms of a change

Messages == SectionIds \cup Interests \cup {Activated, Engaged}

Said == [message: Messages, temporary: BOOLEAN]

ASSUME AttentionAssumption ==
    /\ SectionIds \cap Interests = {} /\ Activated # Engaged
    /\ {Activated, Engaged, Nobody} \cap (SectionIds \cup Interests) = {}
    /\ Nobody \notin {Activated, Engaged} \cup Said /\ MaxWrites \in Nat \ {0}

VARIABLES
    pointerOn, focusOn,    \* the card under the pointer, the one with the focus
    gone,                  \* the visitor does nothing more
    currentSectionId,
    currentInterest,       \* awareness's interest
    hover,                 \* hoverIntentTimer: the interest it will activate
    said,                  \* messageTimer: the message it will write, and if temporary
    resetTimer,            \* temporaryResetTimer
    activeInterest,        \* the Core's interest
    focused,               \* focusedElement is an element
    releaseTimer,          \* attentionReleaseTimer
    temporaryTimer,        \* temporaryMessageTimer
    engagement,            \* how many of the two engagement timers are still set
    activated,             \* isActivated
    writes,                \* the Core's texts on their way, in order
    text                   \* the line

visitor   == <<pointerOn, focusOn, gone>>
awareness == <<currentInterest, hover, said, resetTimer>>
attention == <<activeInterest, focused, releaseTimer>>
line      == <<writes, temporaryTimer>>
attVars   == <<visitor, currentSectionId, awareness, attention, engagement, activated, line,
               text>>

AttTypeOK ==
    /\ {pointerOn, focusOn, currentInterest, hover, activeInterest} \subseteq
           Interests \cup {Nobody}
    /\ {gone, resetTimer, focused, releaseTimer, temporaryTimer, activated}
           \subseteq BOOLEAN
    /\ currentSectionId \in SectionIds /\ said \in Said \cup {Nobody}
    /\ engagement \in 0..2
    /\ writes \in Seq(Messages) /\ Len(writes) <= MaxWrites
    /\ text \in Messages
    /\ activeInterest # Nobody => focused

\* After both initializations and their first messages.
AttInit ==
    /\ pointerOn = Nobody /\ focusOn = Nobody /\ gone = FALSE
    /\ currentSectionId \in SectionIds /\ text = currentSectionId
    /\ currentInterest = Nobody /\ hover = Nobody /\ said = Nobody /\ resetTimer = FALSE
    /\ activeInterest = Nobody /\ focused = FALSE /\ releaseTimer = FALSE
    /\ temporaryTimer = FALSE /\ engagement = 2
    /\ activated = FALSE /\ writes = <<>>

(***************************************************************************)
(* The parts the handlers share.                                           *)
(***************************************************************************)
\* Awareness's updateCoreMessage: both timers are replaced.
UpdateCoreMessage(message, temporary) ==
    /\ said' = [message |-> message, temporary |-> temporary]
    /\ resetTimer' = temporary

\* restoreCurrentSectionMessage()
RestoreCurrentSectionMessage ==
    /\ currentInterest' = Nobody
    /\ UpdateCoreMessage(currentSectionId, FALSE)

\* The Core's setCoreMessage: a write that nothing cancels, and one restoring timer.
SetCoreMessage(message, temporary) ==
    /\ Len(writes) < MaxWrites
    /\ writes' = Append(writes, message)
    /\ temporaryTimer' = temporary

\* Restoring is temporary as well.
RestoreForNow(i, s) ==
    SetCoreMessage(IF i # Nobody THEN i ELSE s, TRUE)

\* restoreSectionMessage() when the Core's interest is i and its section s.
RestoreSectionMessage(i, s) ==
    SetCoreMessage(IF i # Nobody THEN i ELSE s, FALSE)

\* What restoreSectionBehavior() and handleSectionChange() forget.
Forget == activeInterest' = Nobody /\ focused' = FALSE

\* activateCore(), ignored while activated.
Activate ==
    \/ ~activated /\ activated' = TRUE /\ SetCoreMessage(Activated, TRUE)
    \/ activated /\ UNCHANGED <<activated, line>>

\* activateInterest(i), which the Core answers with focusOnElement if the element is
\* one it can turn to.  Every interest awareness knows has a message of the Core's.
ActivateInterest(i, temporary) ==
    /\ currentInterest' = i
    /\ UpdateCoreMessage(i, temporary)
    /\ releaseTimer' = FALSE
    /\ \/ /\ activeInterest' = i /\ focused' = TRUE
          /\ SetCoreMessage(i, TRUE)
       \/ UNCHANGED <<activeInterest, focused, line>>
    /\ UNCHANGED <<currentSectionId, engagement, activated, text>>

(***************************************************************************)
(* The visitor.                                                            *)
(***************************************************************************)
\* The line is written although an interest holds it.
SetCurrentSectionAnyway(s) ==
    /\ ~gone
    /\ currentSectionId' = s
    /\ UpdateCoreMessage(s, FALSE)
    /\ Forget
    /\ RestoreSectionMessage(Nobody, s)
    /\ engagement' = 2
    /\ UNCHANGED <<visitor, currentInterest, hover, releaseTimer, activated, text>>

\* setCurrentSection, from a scroll frame or an intersection, for the same section too
\* unless an interest holds it.  The Core hears of it in any case.
SetCurrentSection(s) ==
    /\ ~gone
    /\ s # currentSectionId \/ currentInterest = Nobody
    /\ currentSectionId' = s
    /\ IF currentInterest = Nobody THEN UpdateCoreMessage(s, FALSE)
                                   ELSE UNCHANGED <<said, resetTimer>>
    /\ Forget
    /\ RestoreSectionMessage(Nobody, s)
    /\ engagement' = 2
    /\ UNCHANGED <<visitor, currentInterest, hover, releaseTimer, activated, text>>

\* The pointer comes to a card, or moves inside one: an interest only if it stays.
PointerOver(i) ==
    /\ ~gone /\ pointerOn \in {Nobody, i}
    /\ pointerOn' = i /\ hover' = i
    /\ UNCHANGED <<focusOn, gone, currentSectionId, currentInterest, said, resetTimer,
                   attention, engagement, activated, line, text>>

\* The pointer leaves a card or another element; towards says for one inside what the
\* Core watches.
PointerOut(towards) ==
    /\ ~gone
    /\ pointerOn' = Nobody /\ hover' = Nobody
    /\ releaseTimer' = (releaseTimer \/ (focused /\ ~towards))
    /\ UNCHANGED <<focusOn, gone, currentSectionId, currentInterest, said, resetTimer,
                   activeInterest, focused, engagement, activated, line, text>>

\* The focus comes to a card, or moves inside one.
FocusIn(i) ==
    /\ ~gone /\ focusOn \in {Nobody, i}
    /\ focusOn' = i
    /\ ActivateInterest(i, FALSE)
    /\ UNCHANGED <<pointerOn, gone, hover>>

\* The focus leaves its card, or another element, and that may be a card whose interest
\* awareness does not know; the Core makes no difference.
FocusOut ==
    /\ ~gone
    /\ focusOn' = Nobody
    /\ \/ RestoreCurrentSectionMessage
       \/ focusOn = Nobody /\ UNCHANGED <<currentInterest, said, resetTimer>>
    /\ releaseTimer' = TRUE
    /\ UNCHANGED <<pointerOn, gone, currentSectionId, hover, activeInterest, focused,
                   engagement, activated, line, text>>

\* Of a mouse, a key or a finger, which hovers nowhere.
Click(i) ==
    /\ ~gone
    /\ ActivateInterest(i, TRUE)
    /\ UNCHANGED <<visitor, hover>>

\* Enter or Space on the Core, a double click, or a press with reduced motion.
ActivateCore ==
    /\ ~gone /\ ~activated
    /\ Activate
    /\ UNCHANGED <<visitor, currentSectionId, awareness, attention, engagement, text>>

\* pointerup or pointercancel; the press before it only marks isDragging.
CorePointerUp ==
    /\ ~gone
    /\ Forget
    /\ Activate
    /\ UNCHANGED <<visitor, currentSectionId, awareness, releaseTimer, engagement, text>>

\* Escape on the Core.
Escape ==
    /\ ~gone
    /\ Forget
    /\ RestoreSectionMessage(Nobody, currentSectionId)
    /\ UNCHANGED <<visitor, currentSectionId, awareness, releaseTimer, engagement,
                   activated, text>>

Leave ==
    /\ ~gone /\ pointerOn = Nobody /\ focusOn = Nobody
    /\ gone' = TRUE
    /\ UNCHANGED <<pointerOn, focusOn, currentSectionId, awareness, attention, engagement,
                   activated, line, text>>

(***************************************************************************)
(* The timers.                                                             *)
(***************************************************************************)
HoverDue ==
    /\ hover # Nobody /\ hover' = Nobody
    /\ ActivateInterest(hover, TRUE)
    /\ UNCHANGED visitor

\* Awareness writes, and its event makes the Core write the same once more.
MessageDue ==
    /\ said # Nobody /\ said' = Nobody
    /\ text' = said.message
    /\ SetCoreMessage(said.message, said.temporary)
    /\ UNCHANGED <<visitor, currentSectionId, currentInterest, hover, resetTimer, attention,
                   engagement, activated>>

\* 4200 ms, when the message itself has long been written.
ResetDue ==
    /\ resetTimer /\ said = Nobody
    /\ RestoreCurrentSectionMessage
    /\ UNCHANGED <<visitor, currentSectionId, hover, attention, engagement, activated,
                   line, text>>

WriteDue ==
    /\ writes # <<>> /\ writes' = Tail(writes)
    /\ text' = Head(writes)
    /\ UNCHANGED <<visitor, currentSectionId, awareness, attention, engagement, activated,
                   temporaryTimer>>

\* At least 3900 ms, so an activation of 1450 ms that set it is over.
TemporaryDue ==
    /\ temporaryTimer /\ ~activated
    /\ RestoreSectionMessage(activeInterest, currentSectionId)
    /\ UNCHANGED <<visitor, currentSectionId, awareness, attention, engagement, activated,
                   text>>

\* The behaviour is restored, the line is not.
ReleaseSilently ==
    /\ releaseTimer /\ releaseTimer' = FALSE
    /\ Forget
    /\ UNCHANGED <<visitor, currentSectionId, awareness, engagement, activated, line,
                   text>>

\* attentionReleaseTimer: what releaseAttention() has put off.
ReleaseDue ==
    /\ releaseTimer /\ releaseTimer' = FALSE
    /\ Forget
    /\ RestoreSectionMessage(Nobody, currentSectionId)
    /\ UNCHANGED <<visitor, currentSectionId, awareness, engagement, activated, text>>

\* After 14 s and after 27 s in a section.
EngagementDue ==
    /\ engagement > 0 /\ engagement' = engagement - 1
    /\ IF activeInterest = Nobody /\ ~activated THEN SetCoreMessage(Engaged, TRUE)
                                                ELSE UNCHANGED line
    /\ UNCHANGED <<visitor, currentSectionId, awareness, attention, activated, text>>

ActivationDue ==
    /\ activated /\ activated' = FALSE
    /\ IF activeInterest = Nobody THEN Forget ELSE UNCHANGED <<activeInterest, focused>>
    /\ UNCHANGED <<visitor, currentSectionId, awareness, releaseTimer, engagement, line,
                   text>>

Timers ==
    \/ HoverDue \/ MessageDue \/ ResetDue \/ WriteDue \/ TemporaryDue \/ ReleaseDue
    \/ EngagementDue \/ ActivationDue

AttNext ==
    \/ \E s \in SectionIds: SetCurrentSection(s)
    \/ \E i \in Interests: PointerOver(i) \/ FocusIn(i) \/ Click(i)
    \/ \E towards \in BOOLEAN: PointerOut(towards)
    \/ FocusOut \/ ActivateCore \/ CorePointerUp \/ Escape
    \/ Leave
    \/ Timers

AttSpec == AttInit /\ [][AttNext]_attVars /\ WF_attVars(Timers)
----------------------------------------------------------------------------
(***************************************************************************)
(* Properties.                                                             *)
(***************************************************************************)
\* Nothing is on its way to the line and no timer will restore it.
Quiet ==
    /\ said = Nobody /\ writes = <<>>
    /\ ~resetTimer /\ ~temporaryTimer /\ ~releaseTimer

\* The line, which two controllers write with uncoordinated timers, comes to rest on
\* the section the visitor is in or an interest one of them still holds: never on a
\* section left, an interest dropped, or a temporary message.
LineIsTrue == Quiet => text \in {currentSectionId, currentInterest, activeInterest}

\* An interest of awareness has something that will end it, its timer or the focus, and
\* an interest in preparation is of the card the pointer is still on.
InterestIsHeld ==
    /\ currentInterest # Nobody => (resetTimer \/ focusOn # Nobody)
    /\ hover # Nobody => pointerOn = hover

\* Once the visitor is gone the page comes to rest and forgets what it took to be of
\* interest; the two controllers do not answer each other for ever.
Settles == [](gone => <>[](Quiet /\ currentInterest = Nobody))
=============================================================================
