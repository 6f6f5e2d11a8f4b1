------------------------------ MODULE MCRelay ------------------------------
(* Two requests.  MCRelay.cfg gives one lease and longer answers,            *)
(* MCLeases.cfg two workers, two leases, a restart and short answers.        *)
EXTENDS Relay, TLC
CONSTANTS r1, r2, w1, w2
MCRequests == {r1, r2}
MCBoots    == {w1, w2}
MCBoot     == {w1}
Symmetry   == Permutations(MCRequests)
BothSymmetry == Permutations(MCRequests) \cup Permutations(MCBoots)
=============================================================================
