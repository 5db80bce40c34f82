------------------------------ MODULE MCRequests ------------------------------
(* The channels, keys and requests of the model-checking run of Requests. *)
EXTENDS Requests, TLC

CONSTANTS m1, m2, m3, k1, k2, k3, k4, h1, h2

SomeModels == {m1, m2, m3, AutoModel}

\* m1 is fast, m2 strong, m3 of neither kind but able to see.
SomeTier(m) == CASE m = m1 -> 1 [] m = m2 -> 3 [] OTHER -> 2
SomeVision(m) == m = m3

Channel(type, models, disabled) ==
  [type |-> type, on |-> TRUE, models |-> models, disabled |-> disabled,
   offers |-> <<m1, m3>>]

\* A channel that lists its models with a wildcard channel beside it and one for
\* the other protocol; then the wildcard channel alone is on, with one of its
\* models switched off.
Mixed == <<Channel("openai", <<m2, m3, m1>>, {}), Channel("openai", <<>>, {m3}),
           Channel("anthropic", <<m1>>, {})>>
Wild == <<[Channel("openai", <<m2, m3>>, {}) EXCEPT !.on = FALSE], Channel("openai", <<>>, {m1})>>
SomeTables == {Mixed, Wild}

Key(allowed, alias, mode, pool, prio) ==
  [allowed |-> allowed, alias |-> alias, mode |-> mode, pool |-> pool, prio |-> prio]

\* One key for each mode; the first has a pool that goes beyond its whitelist and
\* names the models in another order than its priorities, the third another
\* name for "auto".
SomeKeys ==
  (k1 :> Key(<<m1, m2>>, <<>>, "priority", <<m2, m1, m3>>, <<m1, m2>>)) @@
  (k2 :> Key(<<>>, <<>>, "balance", <<>>, <<>>)) @@
  (k3 :> Key(<<>>, m2 :> AutoModel, "smart", <<m1, m3>>, <<>>)) @@
  (k4 :> Key(<<m3, m1>>, <<>>, "latency", <<>>, <<>>))

Ask(key, endpoint, model) ==
  [key |-> key, endpoint |-> endpoint, model |-> model, sound |-> TRUE, playground |-> FALSE]

MixedAsks ==
  {Ask(k1, "chat", AutoModel), Ask(k2, "responses", AutoModel), Ask(k3, "chat", m2),
   Ask(k4, "messages", AutoModel), Ask(k4, "chat", m2), Ask(k2, "chat", NoModel),
   Ask(k4, "models", NoModel), Ask(k4, "count", m1),
   [Ask(k1, "audio", m3) EXCEPT !.playground = TRUE],
   [Ask(k1, "responses", AutoModel) EXCEPT !.sound = FALSE]}
SomeTasks == {[images |-> TRUE, tools |-> FALSE, size |-> "short"],
              [images |-> FALSE, tools |-> TRUE, size |-> "short"],
              [images |-> FALSE, tools |-> FALSE, size |-> "short"]}
SomeLatencies == {<<>>, (m3 :> 5) @@ (m1 :> 9)}

\* Any request besides one that uses the list of models (and the round robin).
SomeAsks == (h1 :> MixedAsks) @@ (h2 :> {Ask(k4, "models", NoModel), Ask(k2, "chat", AutoModel),
                                          Ask(k1, "chat", AutoModel)})
=============================================================================
