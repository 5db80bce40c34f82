------------------------------ MODULE AutoRoute ------------------------------
(***************************************************************************)
(* Which channels and models a request may use: the filters of             *)
(* internal/api/proxy.go and internal/store, and the routing of model      *)
(* "auto" (internal/api/automode.go).                                      *)
(*                                                                         *)
(* A channel is a record [type, on, models, disabled, offers]: models as   *)
(* configured (empty: wildcard, every model of the upstream), disabled the *)
(* models switched off on it, offers what the upstream itself lists.       *)
(* A virtual key is a record [allowed, alias, mode, pool, prio].  Lists    *)
(* are sequences, as their order matters.                                  *)
(***************************************************************************)
EXTENDS Integers, Sequences, FiniteSets, SequencesExt, InPlaceFilter

CONSTANTS
  Models,   \* names of models
  AutoModel, \* the model name "auto"
  NoModel,  \* no model named in the request
  Tier(_),  \* modelTier: 1 fast, 2 standard, 3 strong, by the model's name
  Vision(_) \* visionCapable, by the model's name

ASSUME AutoRouteAssumption ==
  /\ AutoModel \in Models /\ NoModel \notin Models
  /\ \A m \in Models : Tier(m) \in 1..3 /\ Vision(m) \in BOOLEAN

ChannelRows ==
  [type : {"openai", "anthropic"}, on : BOOLEAN, models : Seq(Models),
   disabled : SUBSET Models, offers : Seq(Models)]
KeyRows ==
  [allowed : Seq(Models), alias : UNION {[S -> Models] : S \in SUBSET Models},
   mode : STRING, pool : Seq(Models), prio : Seq(Models)]

-----------------------------------------------------------------------------
(* Filters *)

Serves(c, m) == m \notin c.disabled /\ (c.models = <<>> \/ Contains(c.models, m))

Allows(key, m) == key.allowed = <<>> \/ Contains(key.allowed, m)

\* The model a key puts in place of the one asked for; none for no model.
Aliased(key, m) == IF m # NoModel /\ m \in DOMAIN key.alias THEN key.alias[m] ELSE m

\* ListChannels(protocol), less what is switched off.
EnabledOnly(table, protocol) == Only(table, {c \in ToSet(table) : c.type = protocol /\ c.on})

FilterByModel(chans, m) ==
  IF m = NoModel THEN chans ELSE Only(chans, {c \in ToSet(chans) : Serves(c, m)})

-----------------------------------------------------------------------------
(* The candidates for "auto" *)

IsWildcard(c) == c.models = <<>>

\* The places of the wildcard channels.
Wildcards(chans) == {i \in DOMAIN chans : IsWildcard(chans[i])}

\* The lists that sequences of models may be put together to without naming a
\* model twice: the models of a sequence with a place in firm are added before
\* those of all later ones, those of another one at any time, in their order.
Merged(of, firm) ==
  LET all == UNION {ToSet(of[i]) : i \in DOMAIN of}
      places(m) == {p \in UNION {{i} \X DOMAIN of[i] : i \in DOMAIN of} : of[p[1]][p[2]] = m}
      earlier(p, q) == \/ p[1] < q[1] /\ p[1] \in firm
                       \/ p[1] = q[1] /\ p[2] < q[2]
      first(m, n) == \E p \in places(m) : \A q \in places(n) : earlier(p, q)
  IN  {list \in SetToSeqs(all) :
         \A i, j \in DOMAIN list : first(list[i], list[j]) => i < j}

\* The served models (one list of them): a wildcard channel adds the models of
\* the aggregated list it was given (lists has one per wildcard channel, empty
\* ones for the anthropic protocol).
ServedModels(chans, lists) ==
  LET listOf(i) == lists[Rank(Wildcards(chans), i)]
      of == [i \in DOMAIN chans |->
               LET c == chans[i] IN
               Only(IF IsWildcard(c) THEN listOf(i) ELSE c.models, Models \ c.disabled)]
  IN  Merged(of, DOMAIN of)

\* Mutant of AutoCandidates: the pool of a key is not held against its whitelist.
AutoCandidatesUnlisted(key, served) ==
  LET pool == IF key.pool # <<>> THEN key.pool ELSE key.allowed
  IN  IF pool = <<>> THEN served ELSE Only(pool, ToSet(served))

\* The key's pool, else its whitelist, else everything: what of it is allowed
\* and served, in the order of the pool.
AutoCandidates(key, served) ==
  LET pool == IF key.pool # <<>> THEN key.pool ELSE key.allowed
  IN  IF pool = <<>> THEN served ELSE Only(pool, {m \in ToSet(served) : Allows(key, m)})

-----------------------------------------------------------------------------
(* The four modes *)

\* latency: average milliseconds of the models that have samples.
PickByLatency(cands, latency) ==
  LET sampled == Only(cands, DOMAIN latency)
      fastest == Only(sampled, {m \in ToSet(sampled) :
                                  \A o \in ToSet(sampled) : latency[m] <= latency[o]})
  IN  Head(IF sampled = <<>> THEN cands ELSE fastest)

\* n requests of the key have been spread before.
PickRoundRobin(cands, n) == cands[(n % Len(cands)) + 1]

\* Every model once, at its first place.
Distinct(q) == Filtered(q, {i \in DOMAIN q : \A j \in 1..(i - 1) : q[j] # q[i]})

\* Mutant of OrderedByPriority: the candidates stay in the order of the pool.
OrderedByPool(prio, cands) == cands

OrderedByPriority(prio, cands) ==
  LET first == Distinct(Only(prio, ToSet(cands)))
  IN  first \o Only(cands, ToSet(cands) \ ToSet(first))

\* tierFallback
TierOrder(want) ==
  CASE want = 3 -> <<3, 2, 1>>
    [] want = 1 -> <<1, 2, 3>>
    [] OTHER    -> <<2, 3, 1>>

\* A task is a record [images, tools, size], size short (up to 1500 bytes of
\* text), middle or long (more than 6000).
WantedTier(task) ==
  IF task.tools \/ task.size = "long" THEN 3 ELSE IF task.size = "short" THEN 1 ELSE 2

PickSmart(cands, task, latency) ==
  LET seeing == Only(cands, {m \in ToSet(cands) : Vision(m)})
      pool == IF task.images /\ seeing # <<>> THEN seeing ELSE cands
      tiers == Only(TierOrder(WantedTier(task)), {Tier(m) : m \in ToSet(pool)})
  IN  PickByLatency(Only(pool, {m \in ToSet(pool) : Tier(m) = Head(tiers)}), latency)

\* The models to try, in order; only priority gives more than one.
AutoOrdered(key, cands, n, task, latency) ==
  CASE key.mode = "latency"  -> <<PickByLatency(cands, latency)>>
    [] key.mode = "balance"  -> <<PickRoundRobin(cands, n)>>
    [] key.mode = "smart"    -> <<PickSmart(cands, task, latency)>>
    [] key.mode = "priority" -> OrderedByPriority(key.prio, cands)

AutoModes == {"latency", "balance", "priority", "smart"}
=============================================================================
