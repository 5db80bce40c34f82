------------------------------- MODULE MCAlerts -------------------------------
(* The configurations of the model-checking run of Alerts. *)
EXTENDS Alerts, TLC

SomeConfigs == {[enabled |-> on, cool |-> 1] : on \in BOOLEAN}
HandlersAlike == Permutations(Handlers)
SaversAlike == Permutations(Savers)
Alike == HandlersAlike \cup SaversAlike
=============================================================================
