------------------------------- MODULE Permits -------------------------------
(***************************************************************************)
(* What the concurrency limit of a virtual key promises: a counting        *)
(* semaphore per key.  A process takes a permit only while the number of   *)
(* holders is below one of the capacities in force, gives back what it     *)
(* holds, and a crash takes all permits away.                              *)
(***************************************************************************)
EXTENDS Naturals, FiniteSets

CONSTANTS Keys, Procs, Capacities

VARIABLE held  \* held[k]: the processes that hold a permit of k

Init == held = [k \in Keys |-> {}]

Acquire(k, p) ==
  /\ \A other \in Keys : p \notin held[other]
  /\ \E c \in Capacities : Cardinality(held[k]) < c
  /\ held' = [held EXCEPT ![k] = @ \cup {p}]

GiveBack(k, p) ==
  /\ p \in held[k]
  /\ held' = [held EXCEPT ![k] = @ \ {p}]

Crash == held' = [k \in Keys |-> {}]

Next ==
  \/ \E k \in Keys, p \in Procs : Acquire(k, p) \/ GiveBack(k, p)
  \/ Crash

Spec == Init /\ [][Next]_held
=============================================================================
