--------------------------- MODULE InPlaceFilter ---------------------------
(***************************************************************************)
(* The Go idiom                                                            *)
(*     out := q[:0]; for _, x := range q { if keep(x) { out = append(out,  *)
(*     x) } }                                                              *)
(* filters a slice inside its own backing array.  A caller that stores     *)
(* `out` gets the filtered slice; a caller that returns without storing it *)
(* leaves the old slice header over an array whose front now holds the     *)
(* kept elements and whose tail still holds the old ones, so that some     *)
(* elements are there twice.  litegate uses the idiom for its RPM and TPM  *)
(* windows (pruneTimes, pruneTok) and for the error-rate window; filters   *)
(* into a new slice (keys, channels and models) return the same sequence.  *)
(***************************************************************************)
EXTENDS Naturals, Sequences, FiniteSets

\* The number of indices of keep that are not above j, and the index of keep
\* that has the given rank.
Rank(keep, j) == Cardinality({m \in keep : m <= j})
Nth(keep, i) == CHOOSE j \in keep : Rank(keep, j) = i

\* The backing array under the old header once the loop has run.
Compact(q, keep) ==
  [i \in DOMAIN q |-> IF i \in 1..Cardinality(keep) THEN q[Nth(keep, i)] ELSE q[i]]

\* The slice the loop returns.
Filtered(q, keep) ==
  [i \in 1..Cardinality(keep) |-> q[Nth(keep, i)]]

\* What such a loop leaves of q when it keeps the elements of S, and the first
\* place of x in q.
Only(q, S) == Filtered(q, {i \in DOMAIN q : q[i] \in S})
Place(q, x) == Nth({i \in DOMAIN q : q[i] = x}, 1)
=============================================================================
