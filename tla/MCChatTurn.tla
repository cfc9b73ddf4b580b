----------------------------- MODULE MCChatTurn -----------------------------
(* ChatTurn on a user who has two answered messages behind her and sends two *)
(* more and a "new dialog" command: each further turn may make a summary.    *)
EXTENDS ChatTurn

CONSTANTS m1, m2, m3, m4

TwoTurns == <<m1, m2>>
=============================================================================
