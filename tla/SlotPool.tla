------------------------------ MODULE SlotPool ------------------------------
(***************************************************************************)
(* What admission control promises about concurrency: at most Size calls   *)
(* hold a slot, a call takes one at most once, and gives it back at most   *)
(* once.                                                                   *)
(***************************************************************************)
EXTENDS Integers, FiniteSets

CONSTANTS Calls, Size

VARIABLES
    held,  \* calls that hold a slot
    past   \* calls that have held one

Init == held = {} /\ past = {}

Acquire(k) ==
    /\ k \notin held \cup past
    /\ Cardinality(held) < Size
    /\ held' = held \cup {k}
    /\ UNCHANGED past

Release(k) ==
    /\ k \in held
    /\ held' = held \ {k}
    /\ past' = past \cup {k}

Next == \E k \in Calls : Acquire(k) \/ Release(k)

Spec == Init /\ [][Next]_<<held, past>>
=============================================================================
