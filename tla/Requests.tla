------------------------------- MODULE Requests -------------------------------
(***************************************************************************)
(* A request from its arrival to its log entry (serveBody and its front    *)
(* ends in internal/api/proxy.go, serveResponses in responses.go), with    *)
(* the shared list of models (models.go) and the console's writes to the   *)
(* channels (admin.go, and importConfig in ops.go).                        *)
(*                                                                         *)
(* Admission and forwarding have modules of their own; here an admission   *)
(* is granted or refused, and a model that is tried gives one outcome:     *)
(*   ok    a response below 400                                            *)
(*   bad   a response of 400 or more                                       *)
(*   none  no response from any channel                                    *)
(*                                                                         *)
(* The list of models is shared by all handlers: a handler that finds none *)
(* reads the channels, asks the upstreams without any lock, and stores     *)
(* what it has got.  The console clears the list after it has written.     *)
(***************************************************************************)
EXTENDS AutoRoute

CONSTANTS
  Handlers,   \* handler goroutines, one for each request
  Keys,       \* virtual keys
  KeyRow,     \* KeyRow[k]: its row, a record as in AutoRoute
  PlaygroundKey, \* the first one that is enabled, which the playground takes
  Asks,       \* Asks[h]: the requests that may arrive at h, records as below
  Tables,     \* contents of the channels table: sequences of channels
  Latencies,  \* what the log may say: functions from some models to milliseconds
  Tasks,      \* texts, as PickSmart looks at them
  NoList,     \* no list is kept
  MaxWrites   \* bound: writes of the console

\* An ask: its key, its endpoint, its model, whether its body is one that the Responses
\* bridge can convert, and whether it comes from the console's playground,
\* which is not held to whitelists.
Endpoints == {"chat", "messages", "responses", "audio", "models", "count"}

AllAsks == UNION {Asks[h] : h \in Handlers}

Names == Models \cup {NoModel}

ASSUME RequestsAssumption ==
  /\ IsFiniteSet(Handlers) /\ AllAsks # {}
  /\ \A a \in AllAsks :
       /\ a \in [key : Keys, endpoint : Endpoints, model : Names, sound : BOOLEAN,
                 playground : BOOLEAN]
       /\ a.playground => a.endpoint \in {"chat", "audio"} /\ a.key = PlaygroundKey
       /\ a.endpoint \in {"responses", "audio", "count"} => a.model # NoModel
  /\ KeyRow \in [Keys -> KeyRows] /\ PlaygroundKey \in Keys
  /\ Tables \subseteq Seq(ChannelRows)
  /\ \A l \in Latencies : DOMAIN l \subseteq Models /\ l \in [DOMAIN l -> Nat]
  /\ Tasks \subseteq [images : BOOLEAN, tools : BOOLEAN, size : {"short", "middle", "long"}]
  /\ MaxWrites \in Nat

VARIABLES
  table,    \* the channels, in the order ListChannels gives them
  cache,    \* modelsCache: data, fresh for a minute
  rr,       \* rr[k]: how many requests of the key have been spread
  console,  \* idle, or written: a write whose handler has not cleared the list yet
  req,      \* req[h]: the locals of the handler
  writes,   \* how often the console has written
  outdated  \* history: the list kept was overtaken by a write (see below)

vars == <<table, cache, rr, console, req, writes, outdated>>

Stages == {"idle", "list", "fill", "count", "route", "check", "admit", "try", "reply", "done"}

NoRequest ==
  [stage |-> "idle", ask |-> CHOOSE a \in AllAsks : TRUE,
   chans |-> <<>>, lists |-> <<>>, snapshot |-> <<>>, late |-> FALSE,
   auto |-> FALSE, cands |-> <<>>, model |-> NoModel, tried |-> <<>>, results |-> <<>>,
   permit |-> "none", entries |-> <<>>]

Entry(model, status) == [model |-> model, status |-> status]

TypeOK ==
  /\ table \in Tables
  /\ cache.data # NoList => Len(cache.data) > 0
  /\ cache.fresh \in BOOLEAN
  /\ rr \in [Keys -> 0..Cardinality(Handlers)]
  /\ console \in {"idle", "written"} /\ outdated \in BOOLEAN
  /\ \A h \in Handlers :
       LET r == req[h] IN
       /\ DOMAIN r = DOMAIN NoRequest
       /\ r.stage \in Stages /\ r.ask \in AllAsks
       /\ r.stage \in {"check", "admit", "try", "reply"} => Len(r.cands) > 0
       /\ r.permit \in {"none", "held", "given back"}
       /\ r.stage \in {"try", "reply"} <=> r.permit = "held"
       /\ Len(r.tried) = Len(r.results) /\ Len(r.tried) <= Len(r.cands)

Init ==
  /\ table \in Tables
  /\ cache = [data |-> NoList, fresh |-> FALSE]
  /\ rr = [k \in Keys |-> 0]
  /\ console = "idle"
  /\ req = [h \in Handlers |-> NoRequest]
  /\ writes = 0
  /\ outdated = FALSE

-----------------------------------------------------------------------------
(* Steps of a handler *)

Protocol(ask) == IF ask.endpoint \in {"messages", "count"} THEN "anthropic" ELSE "openai"

Goto(h, stage) == req' = [req EXCEPT ![h].stage = stage]

Shared == <<table, cache, rr, console, writes, outdated>>

\* A new request: the channels of its protocol are read, and an alias of the key
\* (of "auto" too) takes the place of the model asked for.  Counting tokens
\* takes the model as it comes.
Arrive(h, ask) ==
  LET chans == EnabledOnly(table, Protocol(ask))
      model == IF ask.endpoint = "count" THEN ask.model
               ELSE Aliased(KeyRow[ask.key], ask.model)
      auto == model = AutoModel /\ ask.endpoint \notin {"models", "count"}
  IN
  /\ req[h].stage = "idle"
  /\ req' = [req EXCEPT ![h] =
       [NoRequest EXCEPT
         !.ask = ask, !.chans = chans, !.auto = auto,
         !.cands = IF auto THEN <<>> ELSE <<model>>, !.model = model,
         !.stage = CASE ask.endpoint = "models" -> "list"
                     [] ask.endpoint = "count" -> "count"
                     [] auto /\ KeyRow[ask.key].mode \notin AutoModes -> "done"
                     [] auto /\ KeyRow[ask.key].mode \in AutoModes -> "route"
                     [] OTHER -> "check"]]
  /\ UNCHANGED Shared

\* How many lists of models the request has to look up: the models endpoint
\* one, auto routing one for every wildcard channel it goes through.
ListsWanted(r) ==
  IF r.ask.endpoint = "models" THEN 1
  ELSE IF Protocol(r.ask) = "openai" THEN Cardinality(Wildcards(r.chans)) ELSE 0

NeedsList(r) == r.stage \in {"list", "route"} /\ Len(r.lists) < ListsWanted(r)

\* aggregateModels: the list that is kept, while it is fresh.
UseList(h) ==
  /\ NeedsList(req[h])
  /\ cache.data # NoList /\ cache.fresh
  /\ req' = [req EXCEPT ![h].lists = Append(@, cache.data)]
  /\ UNCHANGED Shared

\* Otherwise the channels are read anew, and asked.
StartFill(h) ==
  /\ NeedsList(req[h])
  /\ cache.data = NoList \/ ~cache.fresh
  /\ req' = [req EXCEPT ![h].stage = "fill", ![h].late = FALSE,
                        ![h].snapshot = EnabledOnly(table, "openai")]
  /\ UNCHANGED Shared

\* The lists that the channels may add up to when the wildcard channels with
\* these places fail to answer.  The others are asked concurrently and add their
\* models when they answer.
Aggregated(chans, failing) ==
  LET of == [i \in DOMAIN chans |->
               LET c == chans[i] IN
               IF ~IsWildcard(c) THEN c.models
               ELSE IF i \in failing THEN <<>>
               ELSE Only(c.offers, Models \ c.disabled)]
  IN  Merged(of, (DOMAIN of) \ Wildcards(chans))

\* Mutant of StoreList: an empty list is stored too.
StoreListEmpty(h) ==
  LET r == req[h] IN
  /\ r.stage = "fill"
  /\ \E failing \in SUBSET Wildcards(r.snapshot) : \E list \in Aggregated(r.snapshot, failing) :
       /\ cache' = [data |-> list, fresh |-> TRUE]
       /\ outdated' = r.late
       /\ req' = [req EXCEPT
            ![h].lists = Append(@, list), ![h].snapshot = <<>>,
            ![h].stage = IF r.ask.endpoint = "models" THEN "list" ELSE "route"]
  /\ UNCHANGED <<table, rr, console, writes>>

\* The list is stored unless it is empty; the handler goes on with what is
\* kept then, which may be an older one.
StoreList(h) ==
  LET r == req[h] IN
  /\ r.stage = "fill"
  /\ \E failing \in SUBSET Wildcards(r.snapshot) : \E list \in Aggregated(r.snapshot, failing) :
       LET kept == IF list # <<>> THEN list ELSE cache.data IN
       /\ cache' = IF list # <<>> THEN [data |-> list, fresh |-> TRUE] ELSE cache
       /\ outdated' = IF list # <<>> THEN r.late ELSE outdated
       /\ req' = [req EXCEPT
            ![h].lists = Append(@, IF kept = NoList THEN <<>> ELSE kept),
            ![h].stage = IF r.ask.endpoint = "models" THEN "list" ELSE "route",
            ![h].snapshot = <<>>]
  /\ UNCHANGED <<table, rr, console, writes>>

\* serveModels: the list is the answer.
AnswerModels(h) ==
  /\ req[h].stage = "list" /\ ~NeedsList(req[h])
  /\ Goto(h, "done")
  /\ UNCHANGED Shared

\* How the candidate at hand has answered.
Tried(h, model, outcome, stage) ==
  req' = [req EXCEPT ![h].model = model,
                     ![h].tried = Append(@, req[h].cands[Len(@) + 1]),
                     ![h].results = Append(@, outcome),
                     ![h].stage = stage]

\* serveCountTokens: one call to the first channel that serves the model; what
\* comes back is the answer, and without a channel, a key of it, or a response
\* the count is estimated.
CountTokens(h) ==
  LET r == req[h] IN
  /\ r.stage = "count"
  /\ \/ Goto(h, "done")
     \/ /\ FilterByModel(r.chans, r.model) # <<>>
        /\ \E outcome \in {"ok", "bad", "none"} : Tried(h, r.model, outcome, "done")
  /\ UNCHANGED Shared

\* analyzeTask looks for "messages", which a Responses body does not have: of
\* its task only the tools are seen.
Signal(ask, task) ==
  IF ask.endpoint = "responses" THEN [images |-> FALSE, tools |-> task.tools, size |-> "short"]
  ELSE task

\* autoOrdered.  A text that is not short, or has images or tools, matters only
\* to mode smart; the latencies are those the log has at this moment.
Route(h, task, latency) ==
  LET r == req[h]
      k == r.ask.key
      lists == IF Protocol(r.ask) = "openai" THEN r.lists
               ELSE [i \in 1..Cardinality(Wildcards(r.chans)) |-> <<>>]
  IN
  /\ r.stage = "route" /\ ~NeedsList(r)
  /\ \E served \in ServedModels(r.chans, lists) :
       LET cands == AutoCandidates(KeyRow[k], served) IN
       IF cands = <<>>
       THEN /\ Goto(h, "done")
            /\ UNCHANGED rr
       ELSE /\ LET ordered == AutoOrdered(KeyRow[k], cands, rr[k], Signal(r.ask, task), latency) IN
               req' = [req EXCEPT ![h].stage = "check", ![h].lists = <<>>,
                                  ![h].cands = ordered, ![h].model = Head(ordered)]
            /\ rr' = IF KeyRow[k].mode = "balance" THEN [rr EXCEPT ![k] = @ + 1] ELSE rr
  /\ UNCHANGED <<table, cache, console, writes, outdated>>

Served(r) == \E m \in ToSet(r.cands) : FilterByModel(r.chans, m) # <<>>

\* The whitelist is held against the first model alone.
Permitted(r) ==
  \/ Allows(KeyRow[r.ask.key], r.model)
  \/ r.ask.endpoint # "responses" /\ (r.model = NoModel \/ r.ask.playground)

\* Mutant of Check: whether the input converts is left to the loop.
CheckUnconverted(h) ==
  LET r == req[h] IN
  /\ r.stage = "check"
  /\ req' = [req EXCEPT ![h].stage = IF Served(r) /\ Permitted(r) THEN "admit" ELSE "done",
                        ![h].chans = IF r.auto THEN @ ELSE FilterByModel(@, r.model)]
  /\ UNCHANGED Shared

\* Refused are input that does not convert (400), models without a channel
\* (404) and models that the key is not allowed (403), in this order.
Check(h) ==
  LET r == req[h]
      converts == r.ask.endpoint # "responses" \/ r.ask.sound
  IN
  /\ r.stage = "check"
  /\ req' = [req EXCEPT
       ![h].stage = IF converts /\ Served(r) /\ Permitted(r) THEN "admit" ELSE "done",
       ![h].chans = IF r.auto THEN @ ELSE FilterByModel(@, r.model)]
  /\ UNCHANGED Shared

Admit(h) ==
  /\ req[h].stage = "admit"
  /\ \/ req' = [req EXCEPT ![h].stage = "try", ![h].permit = "held"]
     \/ Goto(h, "done")
  /\ UNCHANGED Shared

\* Mutant of TryModel: a response of any kind ends the search.
TryModelOnce(h, outcome) ==
  LET r == req[h]
      n == Len(r.tried) + 1
  IN
  /\ r.stage = "try"
  /\ Tried(h, r.cands[n], outcome,
           IF outcome # "none" \/ n = Len(r.cands) THEN "reply" ELSE "try")
  /\ UNCHANGED Shared

\* The next candidate goes through dispatch.  A response ends the search,
\* unless it is bad and there is another candidate.  A Responses input that
\* does not convert ends the request without a word to the log.
TryModel(h, outcome) ==
  LET r == req[h]
      n == Len(r.tried) + 1
  IN
  /\ r.stage = "try"
  /\ IF r.ask.endpoint = "responses" /\ ~r.ask.sound
     THEN req' = [req EXCEPT ![h].stage = "done", ![h].permit = "given back"]
     ELSE Tried(h, r.cands[n], outcome,
                IF outcome = "ok" \/ n = Len(r.cands) THEN "reply" ELSE "try")
  /\ UNCHANGED Shared

\* The entry in the log, and the permit goes back.
Concluded(h, status) ==
  /\ req' = [req EXCEPT ![h].stage = "done", ![h].permit = "given back",
                        ![h].entries = Append(@, Entry(req[h].model, status))]
  /\ UNCHANGED Shared

\* Every candidate failed, the last one without a response.
ReplyNothing(h) ==
  /\ req[h].stage = "reply" /\ Last(req[h].results) = "none"
  /\ Concluded(h, "failed")

\* The response is passed on, as it is or converted; whatever becomes of it on
\* the way, its status stands.
ReplyResponse(h) ==
  /\ req[h].stage = "reply" /\ Last(req[h].results) # "none"
  /\ Concluded(h, Last(req[h].results))

\* The audio bridge finds no audio or text in it, or a Responses answer breaks
\* off before it was read as a whole.
ReplySpoilt(h) ==
  /\ req[h].stage = "reply" /\ Last(req[h].results) = "ok"
  /\ req[h].ask.endpoint \in {"audio", "responses"}
  /\ Concluded(h, "failed")

-----------------------------------------------------------------------------
(* The console, and time *)

\* Fills that are under way do not see a write.
FillsLate == [h \in Handlers |-> [req[h] EXCEPT !.late = @ \/ req[h].stage = "fill"]]

\* A handler of the console changes the channels; it will clear the list.  An
\* import writes several channels before it does.
WriteChannels(new) ==
  /\ writes < MaxWrites
  /\ table' = new
  /\ console' = "written"
  /\ writes' = writes + 1
  /\ req' = FillsLate
  /\ UNCHANGED <<cache, rr, outdated>>

\* An update fails after its row was written: it returns without clearing.
WriteChannelsHalf(new) ==
  /\ writes < MaxWrites /\ console = "idle"
  /\ table' = new
  /\ writes' = writes + 1
  /\ req' = FillsLate
  /\ outdated' = (outdated \/ cache.fresh)
  /\ UNCHANGED <<cache, rr, console>>

\* Mutant of InvalidateModels: the list stays.
InvalidateNothing ==
  /\ console = "written"
  /\ console' = "idle"
  /\ UNCHANGED <<table, cache, rr, req, writes, outdated>>

\* invalidateModelsCache
InvalidateModels ==
  /\ console = "written"
  /\ console' = "idle"
  /\ cache' = [data |-> NoList, fresh |-> FALSE]
  /\ outdated' = FALSE
  /\ UNCHANGED <<table, rr, req, writes>>

\* A minute has passed.
Expire ==
  /\ cache.fresh
  /\ cache' = [cache EXCEPT !.fresh = FALSE]
  /\ UNCHANGED <<table, rr, console, req, writes, outdated>>

HandlerStep(h) ==
  \/ \E ask \in Asks[h] : Arrive(h, ask)
  \/ UseList(h)
  \/ StartFill(h)
  \/ StoreList(h)
  \/ AnswerModels(h)
  \/ CountTokens(h)
  \/ \E task \in Tasks, latency \in Latencies : Route(h, task, latency)
  \/ Check(h)
  \/ Admit(h)
  \/ \E outcome \in {"ok", "bad", "none"} : TryModel(h, outcome)
  \/ ReplyNothing(h)
  \/ ReplyResponse(h)
  \/ ReplySpoilt(h)

Next ==
  \/ \E h \in Handlers : HandlerStep(h)
  \/ \E new \in Tables \ {table} : WriteChannels(new)
  \/ \E new \in Tables \ {table} : WriteChannelsHalf(new)
  \/ InvalidateModels
  \/ Expire

Spec == Init /\ [][Next]_vars

-----------------------------------------------------------------------------
(* Properties *)

\* No request tries a model that its key does not allow (exempt are the console's
\* playground, requests that name no model, and the counting of tokens, which
\* looks at no whitelist: responses.go:902), or one that none of its channels
\* serves: orderCandidates (proxy.go:741) would fail on an empty
\* list.  The whitelist was held against the first candidate alone, and the
\* candidates may come from a list of models older than the channels.
CandidatesSound ==
  \A h \in Handlers :
    LET r == req[h] IN
    \A m \in ToSet(r.tried) :
      /\ FilterByModel(r.chans, m) # <<>>
      /\ \/ Allows(KeyRow[r.ask.key], m) \/ m = NoModel
         \/ r.ask.playground \/ r.ask.endpoint = "count"

\* The models that a key with priorities may be answered with for sure: those
\* of its pool that it allows and a channel names.
Certain(r) ==
  LET key == KeyRow[r.ask.key]
      pool == IF key.pool # <<>> THEN key.pool ELSE key.allowed
  IN  {m \in UNION {ToSet(r.chans[i].models) \ r.chans[i].disabled : i \in DOMAIN r.chans} :
         (pool = <<>> \/ Contains(pool, m)) /\ Allows(key, m)}

Before(q, m, n) ==
  /\ Contains(q, m)
  /\ Contains(q, n) => Place(q, m) < Place(q, n)

\* In mode priority a model is tried only after every model that is surely
\* available and stands before it has failed, and the request fails only when
\* all of them have.
FailoverThorough ==
  \A h \in Handlers :
    LET r == req[h]
        key == KeyRow[r.ask.key]
    IN r.auto /\ key.mode = "priority" =>
         /\ \A i \in 1..(Len(r.tried) - 1) : r.results[i] # "ok"
         /\ \A m \in Certain(r), n \in ToSet(r.tried) :
              Before(key.prio, m, n) => Before(r.tried, m, n)
         /\ r.entries # <<>> /\ Last(r.results) # "ok" => Certain(r) \subseteq ToSet(r.tried)

\* A request that got a permit is in the log once when it has ended, under the
\* model that was tried last and with the outcome of that, and has given its
\* permit back; one that got none has tried no model and is not in the log.  The
\* counting of tokens calls an upstream without either.
AccountedOnce ==
  \A h \in Handlers :
    LET r == req[h] IN
    r.stage = "done" =>
      /\ r.permit # "held"
      /\ Len(r.entries) = IF r.permit = "none" THEN 0 ELSE 1
      /\ r.permit = "none" => r.tried = <<>> \/ r.ask.endpoint = "count"
      /\ \A e \in ToSet(r.entries) :
           /\ e.model = Last(r.tried)
           /\ e.status \in {"ok", "bad"} => e.status = Last(r.results)

\* The list that is kept names every model that an enabled channel is configured
\* with and only models that one may serve.
ListIsCurrent ==
  LET chans == EnabledOnly(table, "openai")
      named == UNION {ToSet(chans[i].models) : i \in DOMAIN chans}
      offered == UNION {ToSet(chans[i].offers) \ chans[i].disabled :
                          i \in {j \in DOMAIN chans : IsWildcard(chans[j])}}
  IN  named \subseteq ToSet(cache.data) /\ ToSet(cache.data) \subseteq named \cup offered

\* A list that is kept and fresh is current, unless it was outdated when it was
\* stored (a write, and the clearing that belongs to it, came while its handler
\* asked the upstreams) or an update failed halfway.
FreshListIsCurrent == cache.fresh /\ console = "idle" /\ ~outdated => ListIsCurrent
=============================================================================
