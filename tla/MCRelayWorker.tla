--------------------------- MODULE MCRelayWorker ---------------------------
(* Two requests; an answer of one text and the end; two worker processes.   *)
EXTENDS RelayWorker, TLC
CONSTANTS r1, r2, w1, w2
MCRequest  == {r1}
MCRequests == {r1, r2}
MCBoot     == {w1}
MCBoots    == {w1, w2}
MCShort    == << [text |-> 1, done |-> TRUE, error |-> FALSE] >>
MCAnswer   == << [text |-> 1, done |-> FALSE, error |-> FALSE],
                 [text |-> 0, done |-> TRUE, error |-> FALSE] >>
RequestSymmetry == Permutations(MCRequests)
BootSymmetry    == Permutations(MCBoots)
=============================================================================
