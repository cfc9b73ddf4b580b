------------------------------ MODULE MCAlerts ------------------------------
(* Alerts for a few turns and callbacks, two administrators and one who was. *)
EXTENDS Alerts

MCForms == {[enabled |-> FALSE, wants |-> Kinds]}

CONSTANTS c1, c2, hi

Interchangeable == Permutations(Calls)
=============================================================================
