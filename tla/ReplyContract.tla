--------------------------- MODULE ReplyContract ---------------------------
(***************************************************************************)
(* What ChatService.stream promises to whoever iterates it: a start, then  *)
(* an error, or a clarification or texts and the end; one terminal event   *)
(* and nothing after it; and, unless the consumer leaves, that event       *)
(* comes.  ChatService implements it, ReplyStream is built on it.          *)
(***************************************************************************)
EXTENDS Integers, Sequences

CONSTANT MaxTexts    \* bound: texts of one reply

VARIABLES said, left

Events == {"start", "delta", "clarification", "done", "error"}

After == [start |-> {"delta", "clarification", "done", "error"},
          delta |-> {"delta", "done"}, clarification |-> {"done"},
          done |-> {}, error |-> {}]

Latest(s) == s[Len(s)]

\* After the events s the next may be e.
May(s, e) ==
    /\ e \in IF s = <<>> THEN {"start"} ELSE After[Latest(s)]
    /\ e = "delta" => Len(s) <= MaxTexts

Ended(s) == s # <<>> /\ Latest(s) \in {"done", "error"}

Init == said = <<>> /\ left = FALSE

Say == \E e \in Events :
    /\ ~left /\ May(said, e)
    /\ said' = Append(said, e)
    /\ UNCHANGED left

Leave == ~left /\ left' = TRUE /\ UNCHANGED said

Ordered == Init /\ [][Say \/ Leave]_<<said, left>>
Ends    == <>(left \/ Ended(said))
Spec    == Ordered /\ Ends
=============================================================================
