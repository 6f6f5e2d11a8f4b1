---------------------------- MODULE MCController ----------------------------
(* Two commands and one worker show it. *)
EXTENDS CoreController, TLC
=============================================================================
