-------------------------- MODULE MCResponsesStream --------------------------
(* The fragments and usage reports of the model-checking run. *)
EXTENDS ResponsesStream

CONSTANTS a, b

\* Two calls in several fragments, one of them without an identifier at first,
\* and a fragment that names neither call nor index.
SomeFragments ==
  {[index |-> 0, id |-> a, args |-> FALSE],
   [index |-> 0, id |-> NoId, args |-> TRUE],
   [index |-> 1, id |-> b, args |-> TRUE],
   [index |-> 1, id |-> NoId, args |-> TRUE],
   [index |-> NoIndex, id |-> NoId, args |-> TRUE]}
\* Reports with a total of their own, without a total, and without cached tokens.
SomeUsages ==
  {[prompt |-> 3, completion |-> 1, total |-> 0, cached |-> 1],
   [prompt |-> 3, completion |-> 2, total |-> 9, cached |-> 1],
   [prompt |-> 3, completion |-> 2, total |-> 5, cached |-> 0]}
=============================================================================
