----------------------------- MODULE MCBrowser -----------------------------
(* Three parts of the page's client.  The two halves of the chat window meet *)
(* only in the calls opened, sent and closed, which Observations takes from  *)
(* its environment in every order the drawer can make them; Attention meets  *)
(* the others only in the section, which they take from the visitor alike.   *)
(* So a behaviour runs one part and one run checks them all.                 *)
EXTENDS Observations, ChatClient, Attention, TLC
CONSTANTS h, a, p, q, e1, s1, s2, i1
VARIABLE part

MCSections      == {h, a}
MCOfferSections == {a}
MCProjects      == {p, q}
MCSlots         == {e1}
MCAmbiguous     == {1}
MCSectionIds    == {s1, s2}
MCInterests     == {i1}

Observing == part = "observations"
Chatting  == part = "drawer"
Attending == part = "attention"

MCInit ==
    /\ ObsInit /\ ChatInit /\ AttInit
    /\ \/ part = "observations" /\ currentSectionId = s1
       \/ part = "drawer" /\ visible /\ currentSectionId = s1
       \/ part = "attention" /\ visible
MCNext ==
    \/ Observing /\ ObsNext /\ UNCHANGED <<part, chatVars, attVars>>
    \/ Chatting /\ ChatNext /\ UNCHANGED <<part, obsVars, attVars>>
    \/ Attending /\ AttNext /\ UNCHANGED <<part, obsVars, chatVars>>

\* ObsFairness, ChatFairness and that of AttSpec: each of the part that runs.
MCFairness ==
    /\ WF_obsVars(Observing /\ Tick)
    /\ WF_obsVars(Observing /\ Expires)
    /\ WF_chatVars(Chatting /\ Due)
    /\ WF_attVars(Attending /\ Timers)

MCSpec == MCInit /\ [][MCNext]_<<part, obsVars, chatVars, attVars>> /\ MCFairness

\* The types of the three parts.
TypeOK == ObsTypeOK /\ ChatTypeOK /\ AttTypeOK
=============================================================================
