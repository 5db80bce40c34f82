---------------------------- MODULE ResponsesStream ----------------------------
(***************************************************************************)
(* The stream of the Responses bridge (responsesStreamTransformer in       *)
(* internal/api/responses.go): one answer of an upstream, read as chat     *)
(* chunks and written as Responses events.                                 *)
(*                                                                         *)
(* A chunk may carry a piece of reasoning, a piece of text, fragments of   *)
(* tool calls, a finish reason and usage; transformChunk handles them one  *)
(* after the other in this order, and here each is a step of its own       *)
(* (chunks with several parts add no behaviour, as nothing else looks at   *)
(* the transformer).  Lines that are no data, or no JSON, and chunks       *)
(* without choices change nothing; a finish reason in a chunk without a    *)
(* delta is not seen.                                                      *)
(*                                                                         *)
(* A piece of text is named by the number of the part that carried it.     *)
(***************************************************************************)
EXTENDS ChatConversion, InPlaceFilter

CONSTANTS
  CallIds,    \* identifiers of tool calls, chosen by the upstream
  Fragments,  \* fragments of tool calls: [index, id, args], args if it has any
  Usages,     \* usage reports: [prompt, completion, total, cached]
  NoIndex,    \* a fragment that does not say which call it belongs to
  MaxParts    \* bound: parts that are read

ASSUME StreamAssumption ==
  /\ NoId \notin CallIds \cup Nat /\ NoIndex \notin Nat /\ CallIds \cap Nat = {}
  /\ Fragments \subseteq [index : Nat \cup {NoIndex}, id : CallIds \cup {NoId}, args : BOOLEAN]
  /\ Usages \subseteq [prompt : Nat, completion : Nat, total : Nat, cached : Nat]
  /\ MaxParts \in Nat

VARIABLES
  phase,         \* reading, closing (in finish), over
  items,         \* the output items, in the order of their outIdx
  toolByIndex,   \* index of a tool call -> its place in items
  finishReason,  \* the last finish reason
  usage,         \* usage so far (u in respondResponsesStream)
  upstreamErr,   \* the body ended with an error
  closed,        \* how many items finish has closed
  client,        \* history: what the events have told a client so far
  sent           \* history: the parts the upstream has sent

vars == <<phase, items, toolByIndex, finishReason, usage, upstreamErr, closed, client, sent>>

Kinds == {"reasoning", "message", "function_call"}
StreamItem == [kind : Kinds, call : CallIds \cup {NoId} \cup Nat, text : Seq(Nat)]
UsageReports == [prompt : Nat, completion : Nat, total : Nat, cached : Nat]
UsageRecord == [prompt : Nat, completion : Nat, cached : Nat]

\* What a part of the upstream's answer may be.
Part ==
  [part : {"reasoning", "message"}]
  \cup [part : {"call"}, index : Nat, id : CallIds \cup {NoId}, args : BOOLEAN]
  \cup [part : {"finish"}, reason : {"stop", "length"}]
  \cup [part : {"usage"}, usage : UsageReports]

\* What a client knows: the items, how many are closed, whether the response is
\* over and with which output, status and usage; broken, when an event did not fit.
ClientRecord ==
  [items : Seq(StreamItem), closed : Nat, over : BOOLEAN, broken : BOOLEAN,
   output : Seq(StreamItem), status : {"in_progress", "completed", "incomplete", "failed"},
   usage : SUBSET [input : Nat, output : Nat, total : Nat, cached : SUBSET Nat]]

TypeOK ==
  /\ phase \in {"reading", "closing", "over"}
  /\ items \in Seq(StreamItem)
  /\ DOMAIN toolByIndex \subseteq Nat
  /\ \A i \in DOMAIN toolByIndex : toolByIndex[i] \in DOMAIN items
  /\ finishReason \in {"none", "stop", "length"}
  /\ usage \in UsageRecord
  /\ upstreamErr \in BOOLEAN
  /\ closed \in 0..Len(items)
  /\ client \in ClientRecord
  /\ sent \in Seq(Part) /\ Len(sent) <= MaxParts

-----------------------------------------------------------------------------
(* A client that follows the protocol.  It is broken by an event that does *)
(* not fit what it was told before.                                        *)

NewClient ==
  [items |-> <<>>, closed |-> 0, over |-> FALSE, broken |-> FALSE,
   output |-> <<>>, status |-> "in_progress", usage |-> {}]

NewItem(kind, call) == [kind |-> kind, call |-> call, text |-> <<>>]

\* The list with one more piece of text in its nth item.
Lengthened(list, n, piece) ==
  [list EXCEPT ![n] = [kind |-> list[n].kind, call |-> list[n].call,
                       text |-> Append(list[n].text, piece)]]

\* response.output_item.added
ToldOfItem(c, at, kind, call) ==
  [c EXCEPT !.items = Append(@, NewItem(kind, call)),
            !.broken = @ \/ at # Len(c.items) \/ c.closed > 0 \/ c.over]

\* response.output_text.delta and the deltas of the other kinds
ToldOfDelta(c, at, kind, piece) ==
  IF at + 1 \in DOMAIN c.items /\ at >= c.closed /\ ~c.over /\ c.items[at + 1].kind = kind
  THEN [c EXCEPT !.items = Lengthened(@, at + 1, piece)]
  ELSE [c EXCEPT !.broken = TRUE]

\* response.output_item.done
ToldOfClose(c, at, item) ==
  [c EXCEPT !.closed = @ + 1,
            !.broken = @ \/ at # c.closed \/ c.over
                         \/ at + 1 \notin DOMAIN c.items \/ c.items[at + 1] # item]

\* response.completed or response.failed
ToldOfEnd(c, output, status, u) ==
  [c EXCEPT !.over = TRUE, !.output = output, !.status = status, !.usage = {u},
            !.broken = @ \/ c.over \/ c.closed # Len(c.items)]

-----------------------------------------------------------------------------
(* Reading *)

\* emitCreated: the client hears of a response without output.
Init ==
  /\ phase = "reading"
  /\ items = <<>>
  /\ toolByIndex = <<>>
  /\ finishReason = "none"
  /\ usage = [prompt |-> 0, completion |-> 0, cached |-> 0]
  /\ upstreamErr = FALSE
  /\ closed = 0
  /\ client = NewClient
  /\ sent = <<>>

\* The sequence number of the next part, which names its piece of text.
Piece == Len(sent) + 1

Receive(part) ==
  /\ phase = "reading"
  /\ Len(sent) < MaxParts
  /\ sent' = Append(sent, part)
  /\ UNCHANGED <<phase, upstreamErr, closed>>

\* The items and the client after an item was added and announced, unless the
\* one at hand is already there.
Opened(known, kind, call) == IF known THEN items ELSE Append(items, NewItem(kind, call))
Announced(known, kind, call) ==
  IF known THEN client ELSE ToldOfItem(client, Len(items), kind, call)

\* ensureItem: the last item serves when it has the right kind.
EnsureItem(kind) == items # <<>> /\ items[Len(items)].kind = kind

\* A piece of reasoning or text, in a new item or at the end of the last one.
TextDelta(kind) ==
  LET known == EnsureItem(kind)
      at == IF known THEN Len(items) ELSE Len(items) + 1
  IN
  /\ Receive([part |-> kind])
  /\ items' = Lengthened(Opened(known, kind, NoId), at, Piece)
  /\ client' = ToldOfDelta(Announced(known, kind, NoId), at - 1, kind, Piece)
  /\ UNCHANGED <<toolByIndex, finishReason, usage>>

IndexOf(f) == IF f.index = NoIndex THEN 0 ELSE f.index

\* Mutant of CallOf: the identifier is taken as it comes.
CallAsSent(f) == f.id

\* A call without an identifier gets a random one: here the number of its
\* item, which is no identifier of the upstream's and no other item's.
CallOf(f) == IF f.id = NoId THEN Len(items) + 1 ELSE f.id

\* Mutant of CallPlace: a fragment belongs to the last call.
CallPlaceLast(i) == IF i \in DOMAIN toolByIndex THEN Len(items) ELSE Len(items) + 1

CallPlace(i) == IF i \in DOMAIN toolByIndex THEN toolByIndex[i] ELSE Len(items) + 1

\* The first fragment of a call opens its item and gives it its identifier;
\* later ones only lengthen the arguments.
CallFragment(f) ==
  LET i == IndexOf(f)
      at == CallPlace(i)
      known == i \in DOMAIN toolByIndex
      old == Opened(known, "function_call", CallOf(f))
      told == Announced(known, "function_call", CallOf(f))
  IN
  /\ Receive([part |-> "call", index |-> i, id |-> f.id, args |-> f.args])
  /\ toolByIndex' = [j \in DOMAIN toolByIndex \cup {i} |-> IF j = i THEN at ELSE toolByIndex[j]]
  /\ items' = IF f.args THEN Lengthened(old, at, Piece) ELSE old
  /\ client' = IF f.args THEN ToldOfDelta(told, at - 1, "function_call", Piece) ELSE told
  /\ UNCHANGED <<finishReason, usage>>

FinishReason(reason) ==
  /\ Receive([part |-> "finish", reason |-> reason])
  /\ finishReason' = reason
  /\ UNCHANGED <<items, toolByIndex, usage, client>>

\* Mutant of UsageReport: every report replaces the one before.
UsageReportLast(u) ==
  /\ Receive([part |-> "usage", usage |-> u])
  /\ usage' = u
  /\ UNCHANGED <<items, toolByIndex, finishReason, client>>

\* Usage may come in any chunk, and more than once: prompt tokens of the last
\* report that has any, completion tokens of the largest.
UsageReport(u) ==
  /\ Receive([part |-> "usage", usage |-> u])
  /\ usage' = [prompt |-> IF u.prompt > 0 THEN u.prompt ELSE usage.prompt,
               cached |-> IF u.prompt > 0 THEN u.cached ELSE usage.cached,
               completion |-> IF u.completion > usage.completion THEN u.completion
                              ELSE usage.completion]
  /\ UNCHANGED <<items, toolByIndex, finishReason, client>>

\* [DONE], or the end of the body: both count as complete.
ReadToEnd ==
  /\ phase = "reading"
  /\ phase' = "closing"
  /\ UNCHANGED <<items, toolByIndex, finishReason, usage, upstreamErr, closed, client, sent>>

\* The connection breaks, the idle watchdog cancels it, the client leaves, or a
\* line is longer than the scanner's buffer.
BreakOff ==
  /\ phase = "reading"
  /\ phase' = "closing"
  /\ upstreamErr' = TRUE
  /\ UNCHANGED <<items, toolByIndex, finishReason, usage, closed, client, sent>>

-----------------------------------------------------------------------------
(* finish *)

CloseItem ==
  /\ phase = "closing" /\ closed < Len(items)
  /\ closed' = closed + 1
  /\ client' = ToldOfClose(client, closed, items[closed + 1])
  /\ UNCHANGED <<phase, items, toolByIndex, finishReason, usage, upstreamErr, sent>>

\* A length limit leaves the answer incomplete; an error overrides that.
Status == IF upstreamErr THEN "failed"
          ELSE IF finishReason = "length" THEN "incomplete" ELSE "completed"

\* Usage is always sent, of zeros if the upstream reported none, and the total
\* is the sum whatever total was reported.
FinalUsage ==
  ResponsesUsage(usage.prompt, usage.completion, usage.prompt + usage.completion, {usage.cached})

\* Mutant of Complete: the final event is sent as soon as the body has ended.
CompleteAtOnce ==
  /\ phase = "closing"
  /\ phase' = "over"
  /\ client' = ToldOfEnd(client, items, Status, FinalUsage)
  /\ UNCHANGED <<items, toolByIndex, finishReason, usage, upstreamErr, closed, sent>>

Complete ==
  /\ phase = "closing" /\ closed = Len(items)
  /\ phase' = "over"
  /\ client' = ToldOfEnd(client, items, Status, FinalUsage)
  /\ UNCHANGED <<items, toolByIndex, finishReason, usage, upstreamErr, closed, sent>>

Next ==
  \/ \E kind \in {"reasoning", "message"} : TextDelta(kind)
  \/ \E f \in Fragments : CallFragment(f)
  \/ \E reason \in {"stop", "length"} : FinishReason(reason)
  \/ \E u \in Usages : UsageReport(u)
  \/ ReadToEnd
  \/ BreakOff
  \/ CloseItem
  \/ Complete

Spec == Init /\ [][Next]_vars

-----------------------------------------------------------------------------
(* What the upstream has sent *)

\* The numbers of a set in their order.
InOrder(S) == [i \in 1..Cardinality(S) |-> Nth(S, i)]

PartsOf(kind) == {n \in DOMAIN sent : sent[n].part = kind}
CallParts == PartsOf("call")
ArgParts(i) == {n \in CallParts : sent[n].index = i /\ sent[n].args}
Indexes == {sent[n].index : n \in CallParts}
FirstPart(i) == CHOOSE n \in CallParts :
  sent[n].index = i /\ \A m \in CallParts : sent[m].index = i => n <= m
IdSent(i) == sent[FirstPart(i)].id

\* Reasoning before text before calls, and calls in the order of their indexes.
SentInOrder ==
  /\ \A m, n \in DOMAIN sent : m < n =>
       /\ sent[m].part = "message" => sent[n].part # "reasoning"
       /\ sent[m].part = "call" => sent[n].part \notin {"reasoning", "message"}
  /\ \A i, j \in Indexes : i < j => FirstPart(i) < FirstPart(j)

\* The same answer as one message, as an upstream would send it to a client
\* that does not stream; its usage, if any was reported, is the report with the
\* most completion tokens.
Whole ==
  [reasoning |-> InOrder(PartsOf("reasoning")), text |-> InOrder(PartsOf("message")),
   calls |-> [m \in 1..Cardinality(Indexes) |->
                LET i == Nth(Indexes, m) IN [id |-> IdSent(i), text |-> InOrder(ArgParts(i))]]]
UsageSent == {sent[n].usage : n \in PartsOf("usage")}
\* All reports count the same prompt.
SteadyUsage ==
  \A u, v \in UsageSent : u.prompt > 0 /\ u.prompt = v.prompt /\ u.cached = v.cached
WholeUsage ==
  IF UsageSent = {} THEN {}
  ELSE {CHOOSE u \in UsageSent : \A v \in UsageSent : v.completion <= u.completion}

\* The tokens that a response says were used: what it leaves out counts as none.
TokensIn(told) ==
  [input  |-> IF told = {} THEN 0 ELSE (CHOOSE u \in told : TRUE).input,
   output |-> IF told = {} THEN 0 ELSE (CHOOSE u \in told : TRUE).output,
   cached |-> LET details == UNION {u.cached : u \in told}
              IN  IF details = {} THEN 0 ELSE CHOOSE n \in details : TRUE]

\* The output as a client sends it back, with an answer to every call.
Replayed(output) ==
  LET calls == Filtered(output, {n \in DOMAIN output : output[n].kind = "function_call"}) IN
  [n \in DOMAIN output |-> Item(output[n].kind, "assistant", -n, output[n].call, output[n].text)]
  \o [n \in DOMAIN calls |-> Item("function_call_output", "", NoId, calls[n].call, <<>>)]

-----------------------------------------------------------------------------
(* Properties *)

\* The events are a well-formed protocol run (every item is announced at the
\* next index, grows by deltas of its own kind, and is closed once and in
\* order, before the final event), and a client that only follows them ends up
\* with exactly the output of the final event.
ClientRebuildsOutput ==
  /\ ~client.broken
  /\ client.over => client.output = client.items

\* Nothing of the upstream's answer is lost, repeated or mixed up, however
\* reasoning, text and fragments of several calls alternate: the items of a kind
\* together hold its text, in order and each piece once, and the arguments of a
\* call are those of its index, under the identifier of its first fragment.
Told(kind) == {n \in DOMAIN client.items : client.items[n].kind = kind}
NothingLostOrMixed ==
  /\ \A kind \in {"reasoning", "message"} :
       /\ UNION {ToSet(client.items[n].text) : n \in Told(kind)} = PartsOf(kind)
       /\ \A n \in Told(kind) : client.items[n].text = InOrder(ToSet(client.items[n].text))
       /\ \A m, n \in Told(kind) : m < n =>
            \A x \in ToSet(client.items[m].text), y \in ToSet(client.items[n].text) : x < y
  /\ DOMAIN toolByIndex = Indexes
  /\ Cardinality(Told("function_call")) = Cardinality(Indexes)
  /\ \A i \in Indexes :
       LET it == client.items[toolByIndex[i]] IN
       /\ it.kind = "function_call" /\ it.text = InOrder(ArgParts(i))
       /\ IdSent(i) # NoId => it.call = IdSent(i)

\* Streaming changes nothing that a client may rely on: an answer that comes in
\* the usual order gives the output and status that chatToResponses makes of it
\* as a whole, up to the identifiers that only the stream makes up.  If all
\* reports count the same prompt, the numbers of input, output and cached tokens
\* agree too, a usage or cache details that only the whole answer leaves out
\* counting as zeros; the totals agree unless the upstream reports another total
\* than the sum, which only the whole answer passes on.
StreamAgreesWithJson ==
  client.over /\ ~upstreamErr /\ SentInOrder =>
    LET json == ChatToResponses(Whole, finishReason, WholeUsage) IN
    /\ Len(client.output) = Len(json.output)
    /\ \A n \in DOMAIN json.output :
         /\ client.output[n].kind = json.output[n].kind
         /\ client.output[n].text = json.output[n].text
         /\ json.output[n].call # NoId => client.output[n].call = json.output[n].call
    /\ client.status = json.status
    /\ SteadyUsage =>
         /\ TokensIn(client.usage) = TokensIn(json.usage)
         /\ \A u \in client.usage, v \in json.usage :
              v.total = v.input + v.output => u.total = v.total

\* The bridge keeps no state (responses.go:5): the client sends the output back
\* with the results of its calls.  An upstream accepts that only if each result
\* follows the message with its call, nothing but results in between.  So it is
\* unless the model wrote text behind a call; reasoning there does no harm.
ResultsFollowCalls ==
  client.over =>
    LET output == client.output
        callAt == {n \in DOMAIN output : output[n].kind = "function_call"}
        textBehind == \E n \in callAt : \E t \in n..Len(output) : output[t].kind = "message"
        messages == ResponsesToChat(<<>>, Replayed(output))
    IN ~textBehind =>
         \A n \in callAt :
           \E j \in DOMAIN messages :
             /\ messages[j].role = "tool" /\ messages[j].answers = output[n].call
             /\ \E i \in 1..(j - 1) :
                  /\ \E tc \in ToSet(messages[i].calls) : tc.id = output[n].call
                  /\ \A k \in (i + 1)..j : messages[k].role = "tool"
=============================================================================
