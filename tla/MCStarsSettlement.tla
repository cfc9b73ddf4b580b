-------------------------- MODULE MCStarsSettlement -------------------------
(* StarsSettlement with one credit order and one plan order, two charges and *)
(* two handler runs.                                                         *)
EXTENDS StarsSettlement

CONSTANTS credits, plan, c1, c2, s1, s2
=============================================================================
