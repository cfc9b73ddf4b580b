------------------------ MODULE MCExternalSettlement -------------------------
(* ExternalSettlement with the task and two handlers, over two payments that *)
(* between them go through every provider.                                   *)
EXTENDS ExternalSettlement, TLC

CONSTANTS p1, p2, task, h1, h2

EveryProvider == p1 :> {"platega", "yookassa"} @@ p2 :> {"cryptopay", "yoomoney"}
Oldest1st == p1 :> 1 @@ p2 :> 2
=============================================================================
