------------------------------ MODULE MCChoice ------------------------------
(* Two messages: the first is answered with a card, the second may be sent  *)
(* after a choice of that card.                                             *)
EXTENDS ChatClient
MCAmbiguous == {1}
=============================================================================
