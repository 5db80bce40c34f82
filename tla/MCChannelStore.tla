--------------------------- MODULE MCChannelStore ---------------------------
(* Request bodies for the model-checking runs of ChannelStore. *)
EXTENDS ChannelStore, TLC

CONSTANTS s1, s2, m1, m2

Body(models, disabled, list) == [models |-> models, disabled |-> disabled, list |-> list]

\* Keys not named, replaced, cleared, and named twice; a list narrowed to one
\* model, one with its own disabled list, and none at all.
Bodies ==
  {Body({m1}, Nil, Nil),
   Body({m1, m2}, {m2}, <<s2, s1>>),
   Body({}, Nil, <<>>),
   Body({m1, m2}, Nil, <<s1, s1>>)}
\* One full replacement, and one that keeps the keys.
OneList == {Body({m1}, Nil, Nil), Body({m1}, Nil, <<s2, s1>>)}

AdminsAlike == Permutations(Admins)
=============================================================================
