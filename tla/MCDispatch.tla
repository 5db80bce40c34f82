----------------------------- MODULE MCDispatch -----------------------------
(* The upstreams and the requests of the model-checking runs of Dispatch. *)
EXTENDS Dispatch, TLC

CONSTANTS c1, c2, c3, k1, k2, k3, v1

\* Two channels of the higher priority, one with a key and one without any
\* (its keys were all removed), and one with two keys to fall back on.
MixedChannels == {c1, c2, c3}
MixedList == <<c1, c2, c3>>
MixedPriorities == (c1 :> 1) @@ (c2 :> 1) @@ (c3 :> 0)
MixedKeyLists == (c1 :> <<k1>>) @@ (c2 :> <<>>) @@ (c3 :> <<k2, k3>>)

\* The same channels with one priority.
EqualPriorities == (c1 :> 0) @@ (c2 :> 0) @@ (c3 :> 0)

\* A request outside any conversation, and one that may be answered with two
\* models: the keys that failed for the first may be tried for the second.
SinglePlans ==
  {<<[chans |-> {c1, c3}, conv |-> NoConv]>>,
   <<[chans |-> {c3}, conv |-> NoConv], [chans |-> {c2, c3}, conv |-> NoConv]>>}
\* A request that continues a conversation; more channels than are tried serve it.
TalkPlans == {<<[chans |-> Channels, conv |-> v1]>>}
\* A request for a model of the channel with two keys alone.
OnePlan == {<<[chans |-> {c3}, conv |-> NoConv]>>}
=============================================================================
