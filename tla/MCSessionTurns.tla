--------------------------- MODULE MCSessionTurns ---------------------------
(* Two user turns, a webhook turn, a notification and an answer: SessionTurns.cfg *)
(* gives the constants.                                                           *)
EXTENDS SessionTurns
=============================================================================
