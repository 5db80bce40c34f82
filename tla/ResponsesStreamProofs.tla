------------------------ MODULE ResponsesStreamProofs ------------------------
(***************************************************************************)
(* A client of the Responses bridge ends up with the output that the       *)
(* gateway has put together, for any number of parts, calls and reports:   *)
(* nothing of the answer is lost or mixed up, it is what the conversion of *)
(* the whole answer would have given, and it can be sent back with the     *)
(* results of its calls.                                                   *)
(***************************************************************************)
EXTENDS ResponsesStream, InPlaceFilterProofs

USE StreamAssumption

\* What the client was told is what the transformer holds, at every moment: the
\* same items, closed as far, and none touched after finish has begun.
ClientInStep ==
  /\ ~client.broken
  /\ client.items = items
  /\ client.closed = closed
  /\ client.over <=> (phase = "over")
  /\ phase = "reading" => closed = 0
  /\ phase = "over" => client.output = items

\* A call is continued in an item of its own kind.
CallsAreCalls ==
  \A i \in DOMAIN toolByIndex : items[toolByIndex[i]].kind = "function_call"

StreamInvariant == TypeOK /\ ClientInStep /\ CallsAreCalls

\* A client that is not broken, and not told of the end of anything yet.
Listening(c) == c \in ClientRecord /\ ~c.broken /\ c.closed = 0 /\ ~c.over

LEMMA NewItemType ==
  ASSUME NEW kind \in Kinds, NEW call \in CallIds \cup {NoId} \cup Nat
  PROVE  NewItem(kind, call) \in StreamItem
  BY DEF NewItem, StreamItem

LEMMA LengthenedFits ==
  ASSUME NEW list \in Seq(StreamItem), NEW n \in DOMAIN list, NEW piece \in Nat
  PROVE  /\ Lengthened(list, n, piece) \in Seq(StreamItem)
         /\ Len(Lengthened(list, n, piece)) = Len(list)
         /\ \A i \in DOMAIN list : Lengthened(list, n, piece)[i].kind = list[i].kind
<1> DEFINE it == [kind |-> list[n].kind, call |-> list[n].call, text |-> Append(list[n].text, piece)]
<1>1. list[n] \in StreamItem
  OBVIOUS
<1>2. Append(list[n].text, piece) \in Seq(Nat)
  BY <1>1 DEF StreamItem
<1>3. it \in StreamItem
  BY <1>1, <1>2 DEF StreamItem
<1>4. it.kind = list[n].kind
  OBVIOUS
<1>5. Lengthened(list, n, piece) = [list EXCEPT ![n] = it]
  BY DEF Lengthened
<1> HIDE DEF it
<1> QED
  BY <1>3, <1>4, <1>5

\* A listening client that is told of a new item, at the index that comes next.
LEMMA ToldOfItemFits ==
  ASSUME NEW c, Listening(c), NEW kind \in Kinds, NEW call \in CallIds \cup {NoId} \cup Nat
  PROVE  LET told == ToldOfItem(c, Len(c.items), kind, call)
         IN  Listening(told) /\ told.items = Append(c.items, NewItem(kind, call))
<1> DEFINE new == Append(c.items, NewItem(kind, call))
           told == ToldOfItem(c, Len(c.items), kind, call)
<1>1. c \in ClientRecord /\ c.broken = FALSE /\ c.closed = 0 /\ c.over = FALSE
  BY DEF Listening, ClientRecord
<1>2. new \in Seq(StreamItem)
  BY <1>1, NewItemType DEF ClientRecord
<1>3. (c.broken \/ Len(c.items) # Len(c.items) \/ c.closed > 0 \/ c.over) = FALSE
  BY <1>1
<1>4. told = [c EXCEPT !.items = new, !.broken = FALSE]
  BY <1>3 DEF ToldOfItem
<1> HIDE DEF new, told
<1>5. told \in ClientRecord
  BY <1>1, <1>2, <1>4 DEF ClientRecord
<1>6. told.items = new /\ told.closed = 0 /\ told.broken = FALSE /\ told.over = FALSE
  BY <1>1, <1>4 DEF ClientRecord
<1> QED
  BY <1>5, <1>6 DEF Listening, new, told

\* A listening client that is told of a delta of an item it knows.
LEMMA ToldOfDeltaFits ==
  ASSUME NEW c, Listening(c), NEW n \in DOMAIN c.items, NEW piece \in Nat,
         NEW kind, c.items[n].kind = kind
  PROVE  LET told == ToldOfDelta(c, n - 1, kind, piece)
         IN  Listening(told) /\ told.items = Lengthened(c.items, n, piece)
<1> DEFINE new == Lengthened(c.items, n, piece)
           told == ToldOfDelta(c, n - 1, kind, piece)
<1>1. c \in ClientRecord /\ c.broken = FALSE /\ c.closed = 0 /\ c.over = FALSE
  BY DEF Listening, ClientRecord
<1>2. c.items \in Seq(StreamItem) /\ new \in Seq(StreamItem)
  BY <1>1, LengthenedFits DEF ClientRecord
<1>3. (n - 1) + 1 = n /\ n - 1 >= c.closed
  BY <1>1, <1>2
<1>4. told = [c EXCEPT !.items = new]
  BY <1>1, <1>3 DEF ToldOfDelta
<1> HIDE DEF new, told
<1>5. told \in ClientRecord
  BY <1>1, <1>2, <1>4 DEF ClientRecord
<1>6. told.items = new /\ told.closed = 0 /\ told.broken = FALSE /\ told.over = FALSE
  BY <1>1, <1>4 DEF ClientRecord
<1> QED
  BY <1>5, <1>6 DEF Listening, new, told

-----------------------------------------------------------------------------

LEMMA InvariantInit == Init => StreamInvariant
<1> SUFFICES ASSUME Init PROVE StreamInvariant
  OBVIOUS
<1>1. <<>> \in Seq(StreamItem) /\ <<>> \in Seq(Part) /\ Len(<<>>) = 0 /\ DOMAIN <<>> = {}
  OBVIOUS
<1>2. client \in ClientRecord
  BY <1>1 DEF Init, NewClient, ClientRecord
<1>3. usage \in UsageRecord
  BY DEF Init, UsageRecord
<1>4. TypeOK
  <2>1. items = <<>> /\ toolByIndex = <<>> /\ closed = 0 /\ sent = <<>>
    BY DEF Init
  <2>2. /\ DOMAIN toolByIndex \subseteq Nat
        /\ \A i \in DOMAIN toolByIndex : toolByIndex[i] \in DOMAIN items
    BY <1>1, <2>1
  <2>3. closed \in 0..Len(items) /\ Len(sent) <= MaxParts
    BY <1>1, <2>1
  <2>4. /\ phase \in {"reading", "closing", "over"}
        /\ finishReason \in {"none", "stop", "length"} /\ upstreamErr \in BOOLEAN
    BY DEF Init
  <2>5. items \in Seq(StreamItem) /\ sent \in Seq(Part)
    BY <1>1, <2>1
  <2> QED
    BY <1>2, <1>3, <2>2, <2>3, <2>4, <2>5 DEF TypeOK
<1>5. ClientInStep
  BY DEF Init, NewClient, ClientInStep
<1>6. CallsAreCalls
  BY <1>1 DEF Init, CallsAreCalls
<1> QED
  BY <1>4, <1>5, <1>6 DEF StreamInvariant

\* While the body is read the client is listening, and receiving a part keeps
\* the history in its type.
LEMMA Received ==
  ASSUME StreamInvariant, NEW part \in Part, Receive(part)
  PROVE  /\ phase' = "reading" /\ closed' = 0 /\ upstreamErr' = upstreamErr
         /\ Listening(client) /\ client.items = items
         /\ sent' \in Seq(Part) /\ Len(sent') <= MaxParts
         /\ Piece \in Nat
<1>1. phase = "reading" /\ phase' = "reading" /\ UNCHANGED <<upstreamErr, closed>>
  BY DEF Receive
<1>2. closed = 0 /\ client.closed = 0 /\ ~client.broken /\ client.items = items
  BY <1>1 DEF StreamInvariant, ClientInStep
<1>3. ~client.over /\ client \in ClientRecord
  BY <1>1 DEF StreamInvariant, ClientInStep, TypeOK
<1>4. sent \in Seq(Part) /\ Len(sent) < MaxParts /\ sent' = Append(sent, part)
  BY DEF StreamInvariant, TypeOK, Receive
<1>5. sent' \in Seq(Part) /\ Len(sent') = Len(sent) + 1 /\ Piece \in Nat
  BY <1>4 DEF Piece
<1> QED
  BY <1>1, <1>2, <1>3, <1>4, <1>5 DEF Listening

\* What a client hears when an item is announced is what the list becomes.
LEMMA AnnouncedFits ==
  ASSUME StreamInvariant, Listening(client), client.items = items,
         NEW known \in BOOLEAN, NEW kind \in Kinds, NEW call \in CallIds \cup {NoId} \cup Nat
  PROVE  LET old == Opened(known, kind, call)
             told == Announced(known, kind, call)
         IN  /\ old \in Seq(StreamItem) /\ Listening(told) /\ told.items = old
             /\ Len(old) = IF known THEN Len(items) ELSE Len(items) + 1
             /\ \A i \in DOMAIN items : old[i] = items[i]
             /\ ~known => old[Len(items) + 1].kind = kind
<1>1. items \in Seq(StreamItem)
  BY DEF StreamInvariant, TypeOK
<1>2. CASE known
  BY <1>1, <1>2 DEF Opened, Announced
<1>3. CASE ~known
  <2>1. NewItem(kind, call) \in StreamItem /\ NewItem(kind, call).kind = kind
    BY NewItemType DEF NewItem
  <2>2. /\ Opened(known, kind, call) = Append(items, NewItem(kind, call))
        /\ Announced(known, kind, call) = ToldOfItem(client, Len(client.items), kind, call)
    BY <1>3 DEF Opened, Announced
  <2>3. /\ Listening(Announced(known, kind, call))
        /\ Announced(known, kind, call).items = Append(items, NewItem(kind, call))
    BY <2>2, ToldOfItemFits
  <2> QED
    BY <1>1, <1>3, <2>1, <2>2, <2>3
<1> QED
  BY <1>2, <1>3

-----------------------------------------------------------------------------

LEMMA TextDeltaKeeps ==
  ASSUME StreamInvariant, NEW kind \in {"reasoning", "message"}, TextDelta(kind)
  PROVE  StreamInvariant'
<1> DEFINE known == EnsureItem(kind)
           at == IF known THEN Len(items) ELSE Len(items) + 1
           old == Opened(known, kind, NoId)
           told == Announced(known, kind, NoId)
<1>1. [part |-> kind] \in Part /\ Receive([part |-> kind])
  BY DEF Part, TextDelta
<1>2. /\ phase' = "reading" /\ closed' = 0 /\ upstreamErr' = upstreamErr
      /\ sent' \in Seq(Part) /\ Len(sent') <= MaxParts
      /\ Listening(client) /\ client.items = items /\ Piece \in Nat
  BY <1>1, Received
<1>3. /\ items \in Seq(StreamItem)
      /\ UNCHANGED <<toolByIndex, finishReason, usage>>
      /\ items' = Lengthened(old, at, Piece)
      /\ client' = ToldOfDelta(told, at - 1, kind, Piece)
  BY DEF StreamInvariant, TypeOK, TextDelta
<1>4. known \in BOOLEAN /\ kind \in Kinds /\ NoId \in CallIds \cup {NoId} \cup Nat
  BY DEF Kinds, EnsureItem
<1>5. /\ old \in Seq(StreamItem) /\ Listening(told) /\ told.items = old
      /\ Len(old) = IF known THEN Len(items) ELSE Len(items) + 1
      /\ \A i \in DOMAIN items : old[i] = items[i]
      /\ ~known => old[Len(items) + 1].kind = kind
  BY <1>2, <1>4, AnnouncedFits
<1>6. at \in DOMAIN old /\ old[at].kind = kind
  <2>1. CASE known
    BY <1>3, <1>5, <2>1 DEF EnsureItem
  <2>2. CASE ~known
    BY <1>3, <1>5, <2>2
  <2> QED
    BY <2>1, <2>2
<1> HIDE DEF known, at, old, told
<1>7. /\ items' \in Seq(StreamItem) /\ Len(items') = Len(old)
      /\ \A i \in DOMAIN old : items'[i].kind = old[i].kind
  BY <1>2, <1>3, <1>5, <1>6, LengthenedFits
<1>8. Listening(client') /\ client'.items = items'
  BY <1>2, <1>3, <1>5, <1>6, ToldOfDeltaFits
<1>9. /\ Len(items') >= Len(items)
      /\ \A i \in DOMAIN items : i \in DOMAIN items' /\ items'[i].kind = items[i].kind
  BY <1>3, <1>5, <1>7
<1>10. TypeOK'
  BY <1>2, <1>3, <1>7, <1>8, <1>9 DEF StreamInvariant, TypeOK, Listening
<1>11. ClientInStep'
  BY <1>2, <1>8 DEF ClientInStep, Listening
<1>12. CallsAreCalls'
  BY <1>3, <1>9 DEF StreamInvariant, TypeOK, CallsAreCalls
<1> QED
  BY <1>10, <1>11, <1>12 DEF StreamInvariant

LEMMA CallFragmentKeeps ==
  ASSUME StreamInvariant, NEW f \in Fragments, CallFragment(f)
  PROVE  StreamInvariant'
<1> DEFINE i == IndexOf(f)
           at == CallPlace(i)
           known == i \in DOMAIN toolByIndex
           old == Opened(known, "function_call", CallOf(f))
           told == Announced(known, "function_call", CallOf(f))
           part == [part |-> "call", index |-> i, id |-> f.id, args |-> f.args]
<1>1. /\ f.index \in Nat \cup {NoIndex} /\ f.id \in CallIds \cup {NoId} /\ f.args \in BOOLEAN
      /\ i \in Nat
  BY DEF StreamAssumption, IndexOf
<1>2. part \in Part /\ Receive(part)
  BY <1>1 DEF Part, CallFragment
<1>3. /\ phase' = "reading" /\ closed' = 0 /\ upstreamErr' = upstreamErr
      /\ sent' \in Seq(Part) /\ Len(sent') <= MaxParts
      /\ Listening(client) /\ client.items = items /\ Piece \in Nat
  <2> HIDE DEF part
  <2> QED
    BY <1>2, Received
<1>4. /\ items \in Seq(StreamItem) /\ DOMAIN toolByIndex \subseteq Nat
      /\ \A j \in DOMAIN toolByIndex : toolByIndex[j] \in DOMAIN items
      /\ \A j \in DOMAIN toolByIndex : items[toolByIndex[j]].kind = "function_call"
  BY DEF StreamInvariant, TypeOK, CallsAreCalls
<1>5. /\ toolByIndex' = [j \in DOMAIN toolByIndex \cup {i} |-> IF j = i THEN at ELSE toolByIndex[j]]
      /\ items' = IF f.args THEN Lengthened(old, at, Piece) ELSE old
      /\ client' = IF f.args THEN ToldOfDelta(told, at - 1, "function_call", Piece) ELSE told
      /\ UNCHANGED <<finishReason, usage>>
  BY DEF CallFragment
<1>6. known \in BOOLEAN /\ CallOf(f) \in CallIds \cup {NoId} \cup Nat
  BY <1>1, <1>4 DEF CallOf
<1>7. /\ old \in Seq(StreamItem) /\ Listening(told) /\ told.items = old
      /\ Len(old) = IF known THEN Len(items) ELSE Len(items) + 1
      /\ \A j \in DOMAIN items : old[j] = items[j]
      /\ ~known => old[Len(items) + 1].kind = "function_call"
  <2>1. "function_call" \in Kinds
    BY DEF Kinds
  <2>2. \A k \in BOOLEAN, call \in CallIds \cup {NoId} \cup Nat :
          LET o == Opened(k, "function_call", call)
              t == Announced(k, "function_call", call)
          IN  /\ o \in Seq(StreamItem) /\ Listening(t) /\ t.items = o
              /\ Len(o) = IF k THEN Len(items) ELSE Len(items) + 1
              /\ \A j \in DOMAIN items : o[j] = items[j]
              /\ ~k => o[Len(items) + 1].kind = "function_call"
    BY <1>3, <2>1, AnnouncedFits
  <2> HIDE DEF known
  <2> QED
    BY <1>6, <2>2
<1>8. at \in DOMAIN old /\ old[at].kind = "function_call"
  <2>1. CASE known
    BY <1>4, <1>7, <2>1 DEF CallPlace
  <2>2. CASE ~known
    BY <1>4, <1>7, <2>2 DEF CallPlace
  <2> QED
    BY <2>1, <2>2
<1> HIDE DEF known, at, old, told
<1>9. /\ items' \in Seq(StreamItem) /\ Len(items') = Len(old)
      /\ \A j \in DOMAIN old : items'[j].kind = old[j].kind
  BY <1>3, <1>5, <1>7, <1>8, LengthenedFits
<1>10. Listening(client') /\ client'.items = items'
  <2>1. CASE f.args
    <3>1. /\ client' = ToldOfDelta(told, at - 1, "function_call", Piece)
          /\ items' = Lengthened(old, at, Piece)
      BY <1>5, <2>1
    <3>2. at \in DOMAIN told.items /\ told.items[at].kind = "function_call"
      BY <1>7, <1>8
    <3>3. Piece \in Nat /\ Listening(told) /\ told.items = old
      BY <1>3, <1>7
    <3> QED
      BY <3>1, <3>2, <3>3, ToldOfDeltaFits
  <2>2. CASE ~f.args
    BY <1>5, <1>7, <2>2
  <2> QED
    BY <2>1, <2>2
<1>11. /\ Len(items') >= Len(items) /\ at \in DOMAIN items' /\ items'[at].kind = "function_call"
       /\ \A j \in DOMAIN items : j \in DOMAIN items' /\ items'[j].kind = items[j].kind
  BY <1>4, <1>7, <1>8, <1>9
<1>12. /\ DOMAIN toolByIndex' \subseteq Nat
       /\ \A j \in DOMAIN toolByIndex' :
            toolByIndex'[j] \in DOMAIN items' /\ items'[toolByIndex'[j]].kind = "function_call"
  <2> HIDE DEF i
  <2> QED
    BY <1>1, <1>4, <1>5, <1>11
<1>13. TypeOK'
  <2>1. finishReason' = finishReason /\ usage' = usage
    BY <1>5
  <2>2. client' \in ClientRecord /\ closed' \in 0..Len(items')
    BY <1>3, <1>9, <1>10 DEF Listening
  <2> QED
    BY <1>3, <1>9, <1>12, <2>1, <2>2 DEF StreamInvariant, TypeOK
<1>14. ClientInStep'
  BY <1>3, <1>10 DEF ClientInStep, Listening
<1>15. CallsAreCalls'
  BY <1>12 DEF CallsAreCalls
<1> QED
  BY <1>13, <1>14, <1>15 DEF StreamInvariant

LEMMA FinishReasonKeeps ==
  ASSUME StreamInvariant, NEW reason \in {"stop", "length"}, FinishReason(reason)
  PROVE  StreamInvariant'
<1>1. [part |-> "finish", reason |-> reason] \in Part /\ Receive([part |-> "finish", reason |-> reason])
  BY DEF Part, FinishReason
<1>2. /\ phase' = "reading" /\ closed' = 0 /\ upstreamErr' = upstreamErr
      /\ sent' \in Seq(Part) /\ Len(sent') <= MaxParts /\ Listening(client) /\ client.items = items
  BY <1>1, Received
<1>3. finishReason' = reason /\ UNCHANGED <<items, toolByIndex, usage, client>>
  BY DEF FinishReason
<1>4. TypeOK'
  BY <1>2, <1>3 DEF StreamInvariant, TypeOK
<1>5. ClientInStep' /\ CallsAreCalls'
  BY <1>2, <1>3 DEF StreamInvariant, ClientInStep, CallsAreCalls, Listening
<1> QED
  BY <1>4, <1>5 DEF StreamInvariant

LEMMA UsageReportKeeps ==
  ASSUME StreamInvariant, NEW u \in Usages, UsageReport(u)
  PROVE  StreamInvariant'
<1>1. /\ u \in UsageReports /\ u.prompt \in Nat /\ u.completion \in Nat /\ u.cached \in Nat
      /\ usage \in UsageRecord /\ usage.prompt \in Nat /\ usage.completion \in Nat
      /\ usage.cached \in Nat
  BY DEF StreamInvariant, TypeOK, StreamAssumption, UsageRecord, UsageReports
<1>2. [part |-> "usage", usage |-> u] \in Part /\ Receive([part |-> "usage", usage |-> u])
  BY <1>1 DEF Part, UsageReport
<1>3. /\ phase' = "reading" /\ closed' = 0 /\ upstreamErr' = upstreamErr
      /\ sent' \in Seq(Part) /\ Len(sent') <= MaxParts /\ Listening(client) /\ client.items = items
  BY <1>2, Received
<1>4. UNCHANGED <<items, toolByIndex, finishReason, client>>
  BY DEF UsageReport
<1>5. usage' \in UsageRecord
  BY <1>1 DEF UsageReport, UsageRecord
<1>6. TypeOK'
  BY <1>3, <1>4, <1>5 DEF StreamInvariant, TypeOK
<1>7. ClientInStep' /\ CallsAreCalls'
  BY <1>3, <1>4 DEF StreamInvariant, ClientInStep, CallsAreCalls, Listening
<1> QED
  BY <1>6, <1>7 DEF StreamInvariant

\* The end of the body.
LEMMA EndOfBodyKeeps ==
  ASSUME StreamInvariant, ReadToEnd \/ BreakOff
  PROVE  StreamInvariant'
<1>1. /\ phase = "reading" /\ phase' = "closing" /\ upstreamErr' \in BOOLEAN
      /\ UNCHANGED <<items, toolByIndex, finishReason, usage, closed, client, sent>>
  BY DEF ReadToEnd, BreakOff, StreamInvariant, TypeOK
<1>2. TypeOK'
  BY <1>1 DEF StreamInvariant, TypeOK
<1>3. ClientInStep' /\ CallsAreCalls'
  BY <1>1 DEF StreamInvariant, ClientInStep, CallsAreCalls
<1> QED
  BY <1>2, <1>3 DEF StreamInvariant

\* Items are closed in order, each with what the client already has.
LEMMA CloseItemKeeps ==
  ASSUME StreamInvariant, CloseItem
  PROVE  StreamInvariant'
<1>1. /\ phase = "closing" /\ closed < Len(items) /\ closed' = closed + 1 /\ closed \in Nat
      /\ client' = ToldOfClose(client, closed, items[closed + 1])
      /\ UNCHANGED <<phase, items, toolByIndex, finishReason, usage, upstreamErr, sent>>
      /\ items \in Seq(StreamItem)
  BY DEF CloseItem, StreamInvariant, TypeOK
<1>2. /\ client \in ClientRecord /\ client.broken = FALSE /\ client.over = FALSE
      /\ client.closed = closed /\ client.items = items
  BY <1>1 DEF StreamInvariant, TypeOK, ClientInStep, ClientRecord
<1>3. (client.broken \/ closed # client.closed \/ client.over \/ closed + 1 \notin DOMAIN client.items
         \/ client.items[closed + 1] # items[closed + 1]) = FALSE
  BY <1>1, <1>2
<1>4. client' = [client EXCEPT !.closed = closed + 1, !.broken = FALSE]
  BY <1>1, <1>2, <1>3 DEF ToldOfClose
<1>5. client' \in ClientRecord
  <2>1. \A n \in Nat : [client EXCEPT !.closed = n, !.broken = FALSE] \in ClientRecord
    BY <1>2 DEF ClientRecord
  <2>2. closed + 1 \in Nat
    BY <1>1
  <2>3. [client EXCEPT !.closed = closed + 1, !.broken = FALSE] \in ClientRecord
    BY <2>1, <2>2, Zenon
  <2> QED
    BY <1>4, <2>3, Zenon
<1>6. /\ client'.items = items /\ client'.closed = closed + 1
      /\ client'.broken = FALSE /\ client'.over = FALSE
  BY <1>2, <1>4 DEF ClientRecord
<1>7. TypeOK'
  BY <1>1, <1>5 DEF StreamInvariant, TypeOK
<1>8. ClientInStep' /\ CallsAreCalls'
  BY <1>1, <1>6 DEF StreamInvariant, ClientInStep, CallsAreCalls
<1> QED
  BY <1>7, <1>8 DEF StreamInvariant

\* The final event comes when all items are closed, and carries what they hold.
LEMMA CompleteKeeps ==
  ASSUME StreamInvariant, Complete
  PROVE  StreamInvariant'
<1>1. /\ phase = "closing" /\ closed = Len(items) /\ phase' = "over"
      /\ client' = ToldOfEnd(client, items, Status, FinalUsage)
      /\ UNCHANGED <<items, toolByIndex, finishReason, usage, upstreamErr, closed, sent>>
      /\ items \in Seq(StreamItem)
  BY DEF Complete, StreamInvariant, TypeOK
<1>2. /\ client \in ClientRecord /\ client.broken = FALSE /\ client.over = FALSE
      /\ client.closed = closed /\ client.items = items
  BY <1>1 DEF StreamInvariant, TypeOK, ClientInStep, ClientRecord
<1>3. Status \in {"in_progress", "completed", "incomplete", "failed"}
  BY DEF Status
<1>4. (client.broken \/ client.over \/ client.closed # Len(client.items)) = FALSE
  BY <1>1, <1>2
<1>5. client' = [client EXCEPT !.over = TRUE, !.output = items, !.status = Status,
                               !.usage = {FinalUsage}, !.broken = FALSE]
  BY <1>1, <1>4 DEF ToldOfEnd
<1>u. {FinalUsage} \in SUBSET [input : Nat, output : Nat, total : Nat, cached : SUBSET Nat]
  <2>1. /\ usage.prompt \in Nat /\ usage.completion \in Nat /\ usage.cached \in Nat
        /\ usage.prompt + usage.completion \in Nat
    BY DEF StreamInvariant, TypeOK, UsageRecord
  <2> QED
    BY <2>1 DEF FinalUsage, ResponsesUsage
<1>6. client' \in ClientRecord
  <2>1. \A status \in {"in_progress", "completed", "incomplete", "failed"},
           told \in SUBSET [input : Nat, output : Nat, total : Nat, cached : SUBSET Nat] :
          [client EXCEPT !.over = TRUE, !.output = items, !.status = status,
                         !.usage = told, !.broken = FALSE] \in ClientRecord
    BY <1>1, <1>2 DEF ClientRecord
  <2>2. [client EXCEPT !.over = TRUE, !.output = items, !.status = Status,
                       !.usage = {FinalUsage}, !.broken = FALSE] \in ClientRecord
    BY <1>3, <1>u, <2>1, Zenon
  <2> QED
    BY <1>5, <2>2, Zenon
<1>7. /\ client'.items = items /\ client'.closed = closed /\ client'.output = items
      /\ client'.broken = FALSE /\ client'.over = TRUE
  BY <1>2, <1>5 DEF ClientRecord
<1>8. TypeOK'
  BY <1>1, <1>6 DEF StreamInvariant, TypeOK
<1>9. ClientInStep' /\ CallsAreCalls'
  BY <1>1, <1>7 DEF StreamInvariant, ClientInStep, CallsAreCalls
<1> QED
  BY <1>8, <1>9 DEF StreamInvariant

LEMMA InvariantStep == StreamInvariant /\ [Next]_vars => StreamInvariant'
<1> SUFFICES ASSUME StreamInvariant, [Next]_vars PROVE StreamInvariant'
  OBVIOUS
<1>1. CASE \E kind \in {"reasoning", "message"} : TextDelta(kind)
  BY <1>1, TextDeltaKeeps
<1>2. CASE \E f \in Fragments : CallFragment(f)
  BY <1>2, CallFragmentKeeps
<1>3. CASE \E reason \in {"stop", "length"} : FinishReason(reason)
  BY <1>3, FinishReasonKeeps
<1>4. CASE \E u \in Usages : UsageReport(u)
  BY <1>4, UsageReportKeeps
<1>5. CASE ReadToEnd \/ BreakOff
  BY <1>5, EndOfBodyKeeps
<1>6. CASE CloseItem
  BY <1>6, CloseItemKeeps
<1>7. CASE Complete
  BY <1>7, CompleteKeeps
<1>8. CASE UNCHANGED vars
  BY <1>8 DEF vars, StreamInvariant, TypeOK, ClientInStep, CallsAreCalls
<1> QED
  BY <1>1, <1>2, <1>3, <1>4, <1>5, <1>6, <1>7, <1>8 DEF Next

\* The types of the transformer and of what the client and the upstream know.
THEOREM TypeCorrect == Spec => []TypeOK
<1>1. StreamInvariant => TypeOK
  BY DEF StreamInvariant
<1> QED
  BY <1>1, InvariantInit, InvariantStep, PTL DEF Spec

\* Whatever an upstream sends, in whatever order (transformChunk, finish): the
\* events fit each other, and who follows them holds the output of the last one.
THEOREM ClientAlwaysRebuildsOutput == Spec => []ClientRebuildsOutput
<1>1. StreamInvariant => ClientRebuildsOutput
  BY DEF StreamInvariant, ClientInStep, ClientRebuildsOutput
<1> QED
  BY <1>1, InvariantInit, InvariantStep, PTL DEF Spec

-----------------------------------------------------------------------------
(* Numbers in their order *)

\* The rank of a number of S grows with the number.
LEMMA RankGrows ==
  ASSUME NEW S \in SUBSET Nat, IsFiniteSet(S)
  PROVE  /\ \A a \in S : Rank(S, a) \in 1..Cardinality(S)
         /\ \A a, b \in S : Rank(S, a) = Rank(S, b) => a = b
         /\ \A a, b \in S : a < b => Rank(S, a) < Rank(S, b)
<1>1. [j \in S |-> Rank(S, j)] \in Injection(S, 1..Cardinality(S))
  BY RankInjective
<1>2. \A a, b \in S : Rank(S, a) = Rank(S, b) => a = b
  BY <1>1, Fun_IsInj DEF Injection, IsInjective
<1>3. \A a \in S : Rank(S, a) \in 1..Cardinality(S)
  BY <1>1 DEF Injection
<1>4. ASSUME NEW a \in S, NEW b \in S, a < b
      PROVE  Rank(S, a) < Rank(S, b)
  <2>a. \A m \in S : m <= a => m <= b
    BY <1>4
  <2>1. {m \in S : m <= a} \in SUBSET {m \in S : m <= b}
    BY <2>a, Zenon
  <2>2. IsFiniteSet({m \in S : m <= b})
    BY FS_Subset
  <2>3. Rank(S, a) <= Rank(S, b)
    BY <2>1, <2>2, FS_Subset DEF Rank
  <2>4. Rank(S, a) # Rank(S, b)
    BY <1>2, <1>4
  <2>5. Rank(S, a) \in Int /\ Rank(S, b) \in Int
    BY <1>3
  <2> QED
    BY <2>3, <2>4, <2>5
<1> QED
  BY <1>2, <1>3, <1>4

\* Every number of S has its place, and only it.
LEMMA NthOfRank ==
  ASSUME NEW S \in SUBSET Nat, IsFiniteSet(S), NEW a \in S
  PROVE  Nth(S, Rank(S, a)) = a
<1>1. Rank(S, a) \in 1..Cardinality(S)
  BY RankGrows
<1>2. Nth(S, Rank(S, a)) \in S /\ Rank(S, Nth(S, Rank(S, a))) = Rank(S, a)
  BY <1>1, NthInKeep
<1> QED
  BY <1>2, RankGrows

LEMMA InOrderShape ==
  ASSUME NEW S \in SUBSET Nat, IsFiniteSet(S)
  PROVE  /\ InOrder(S) \in Seq(S) /\ Len(InOrder(S)) = Cardinality(S)
         /\ ToSet(InOrder(S)) = S
<1> DEFINE n == Cardinality(S)
<1>1. n \in Nat
  BY FS_CardinalityType
<1>2. InOrder(S) = [i \in 1..n |-> Nth(S, i)] /\ DOMAIN InOrder(S) = 1..n
  BY DEF InOrder
<1>3. \A i \in 1..n : Nth(S, i) \in S
  BY NthInKeep
<1>4. \A a \in S : Rank(S, a) \in 1..n /\ Nth(S, Rank(S, a)) = a
  BY RankGrows, NthOfRank
<1> HIDE DEF n
<1>5. InOrder(S) \in Seq(S) /\ Len(InOrder(S)) = n
  BY <1>1, <1>2, <1>3
<1>6. \A i \in 1..n : InOrder(S)[i] = Nth(S, i)
  BY <1>2
<1>7. ToSet(InOrder(S)) = {InOrder(S)[i] : i \in 1..n}
  BY <1>2 DEF ToSet
<1>8. ToSet(InOrder(S)) = S
  <2>1. ASSUME NEW a \in S
        PROVE  \E i \in 1..n : InOrder(S)[i] = a
    BY <1>4, <1>6
  <2>2. \A i \in 1..n : InOrder(S)[i] \in S
    BY <1>3, <1>6
  <2>3. \A x : x \in ToSet(InOrder(S)) <=> \E i \in 1..n : InOrder(S)[i] = x
    BY <1>7, Zenon
  <2>4. \A x : x \in ToSet(InOrder(S)) <=> x \in S
    BY <2>1, <2>2, <2>3, Zenon
  <2> QED
    BY <2>4, Zenon
<1> QED
  BY <1>5, <1>8 DEF n

LEMMA InOrderEmpty == InOrder({}) = <<>>
<1>1. Cardinality({}) = 0
  BY FS_EmptySet
<1> QED
  BY <1>1 DEF InOrder

\* A number above all others comes last, and has the highest rank.
LEMMA RankOfGreatest ==
  ASSUME NEW S \in SUBSET Nat, IsFiniteSet(S), NEW n \in Nat, \A m \in S : m < n
  PROVE  /\ IsFiniteSet(S \cup {n}) /\ Cardinality(S \cup {n}) = Cardinality(S) + 1
         /\ Cardinality(S) \in Nat
         /\ Rank(S \cup {n}, n) = Cardinality(S) + 1
         /\ \A m \in S : Rank(S \cup {n}, m) = Rank(S, m)
<1>1. n \notin S
  OBVIOUS
<1>2. /\ IsFiniteSet(S \cup {n}) /\ Cardinality(S \cup {n}) = Cardinality(S) + 1
      /\ Cardinality(S) \in Nat
  BY <1>1, FS_AddElement, FS_CardinalityType
<1>3. {m \in S \cup {n} : m <= n} = S \cup {n}
  <2>1. \A m \in S \cup {n} : m <= n
    OBVIOUS
  <2> QED
    BY <2>1, Zenon
<1>4. \A a \in S : {m \in S \cup {n} : m <= a} = {m \in S : m <= a}
  <2>1. \A a \in S : ~(n <= a)
    OBVIOUS
  <2> QED
    BY <2>1, Zenon
<1> QED
  BY <1>2, <1>3, <1>4 DEF Rank

LEMMA InOrderGrows ==
  ASSUME NEW S \in SUBSET Nat, IsFiniteSet(S), NEW n \in Nat, \A m \in S : m < n
  PROVE  InOrder(S \cup {n}) = Append(InOrder(S), n)
<1> DEFINE T == S \cup {n}
           c == Cardinality(S)
<1>1. /\ T \in SUBSET Nat /\ IsFiniteSet(T) /\ Cardinality(T) = c + 1 /\ c \in Nat
      /\ Rank(T, n) = c + 1
      /\ \A m \in S : Rank(T, m) = Rank(S, m)
  BY RankOfGreatest
<1>2. \A a \in T : Nth(T, Rank(T, a)) = a
  BY <1>1, NthOfRank
<1>3. \A i \in 1..c : Nth(S, i) \in S /\ Rank(S, Nth(S, i)) = i
  BY NthInKeep
<1>4. \A i \in 1..c : Nth(T, i) = Nth(S, i)
  <2> TAKE i \in 1..c
  <2>1. Nth(S, i) \in T /\ Rank(T, Nth(S, i)) = i
    BY <1>1, <1>3
  <2> QED
    BY <1>2, <2>1
<1>5. Nth(T, c + 1) = n
  BY <1>1, <1>2
<1>6. InOrder(S) \in Seq(S) /\ Len(InOrder(S)) = c
  BY InOrderShape
<1>7. InOrder(T) \in Seq(T) /\ Len(InOrder(T)) = c + 1
  BY <1>1, InOrderShape
<1>8. \A i \in 1..c : InOrder(S)[i] = Nth(S, i)
  BY DEF InOrder
<1>9. \A i \in 1..(c + 1) : InOrder(T)[i] = Nth(T, i)
  BY <1>1 DEF InOrder
<1> DEFINE q == Append(InOrder(S), n)
<1>10. /\ q \in Seq(T) /\ Len(q) = c + 1 /\ q[c + 1] = n
       /\ \A i \in 1..c : q[i] = InOrder(S)[i]
  BY <1>1, <1>6
<1> HIDE DEF q, c, T
<1>11. \A i \in 1..(c + 1) : InOrder(T)[i] = q[i]
  BY <1>1, <1>4, <1>5, <1>8, <1>9, <1>10
<1>12. InOrder(T) = q
  BY <1>1, <1>7, <1>10, <1>11
<1> QED
  BY <1>12 DEF q, T

-----------------------------------------------------------------------------
(* What was sent, before and after one more part *)

LEMMA SentShape ==
  ASSUME TypeOK
  PROVE  /\ DOMAIN sent = 1..Len(sent) /\ Len(sent) \in Nat /\ Piece \in Nat
         /\ IsFiniteSet(DOMAIN sent)
         /\ \A n \in DOMAIN sent : n \in Nat /\ n < Piece
         /\ \A n \in CallParts : sent[n].index \in Nat /\ sent[n].id \in CallIds \cup {NoId}
                                 /\ sent[n].args \in BOOLEAN
<1>1. sent \in Seq(Part)
  BY DEF TypeOK
<1>2. DOMAIN sent = 1..Len(sent) /\ Len(sent) \in Nat
  BY <1>1
<1>3. \A n \in Nat : IsFiniteSet(1..n)
  BY FS_Interval
<1>4. \A n \in CallParts :
        /\ sent[n].index \in Nat /\ sent[n].id \in CallIds \cup {NoId}
        /\ sent[n].args \in BOOLEAN
  <2> TAKE n \in CallParts
  <2>1. sent[n] \in Part /\ sent[n].part = "call"
    BY <1>1 DEF CallParts, PartsOf
  <2> QED
    BY <2>1 DEF Part
<1> QED
  BY <1>2, <1>3, <1>4 DEF Piece

LEMMA PartsShape ==
  ASSUME TypeOK, NEW kind
  PROVE  /\ PartsOf(kind) \in SUBSET Nat /\ IsFiniteSet(PartsOf(kind))
         /\ \A n \in PartsOf(kind) : n < Piece
<1>1. PartsOf(kind) \in SUBSET DOMAIN sent
  BY DEF PartsOf
<1>2. IsFiniteSet(DOMAIN sent) /\ \A n \in DOMAIN sent : n \in Nat /\ n < Piece
  BY SentShape
<1> QED
  BY <1>1, <1>2, FS_Subset

LEMMA ArgPartsShape ==
  ASSUME TypeOK, NEW i
  PROVE  /\ ArgParts(i) \in SUBSET Nat /\ IsFiniteSet(ArgParts(i))
         /\ \A n \in ArgParts(i) : n < Piece
<1>1. ArgParts(i) \in SUBSET PartsOf("call")
  BY DEF ArgParts, CallParts
<1> QED
  BY <1>1, PartsShape, FS_Subset

LEMMA PartsGrow ==
  ASSUME TypeOK, NEW part \in Part, sent' = Append(sent, part)
  PROVE  /\ DOMAIN sent' = DOMAIN sent \cup {Piece} /\ Piece \notin DOMAIN sent
         /\ sent'[Piece] = part /\ \A n \in DOMAIN sent : sent'[n] = sent[n]
         /\ \A kind : PartsOf(kind)' =
              IF part.part = kind THEN PartsOf(kind) \cup {Piece} ELSE PartsOf(kind)
<1>1. sent \in Seq(Part)
  BY DEF TypeOK
<1>2. /\ DOMAIN sent' = 1..(Len(sent) + 1) /\ sent'[Len(sent) + 1] = part
      /\ \A n \in 1..Len(sent) : sent'[n] = sent[n]
      /\ DOMAIN sent = 1..Len(sent) /\ Len(sent) \in Nat
  BY <1>1
<1>3. /\ DOMAIN sent' = DOMAIN sent \cup {Piece} /\ Piece \notin DOMAIN sent
      /\ sent'[Piece] = part /\ \A n \in DOMAIN sent : sent'[n] = sent[n]
  BY <1>2 DEF Piece
<1>4. ASSUME NEW kind
      PROVE  PartsOf(kind)' =
               IF part.part = kind THEN PartsOf(kind) \cup {Piece} ELSE PartsOf(kind)
  BY <1>3 DEF PartsOf
<1> QED
  BY <1>3, <1>4

LEMMA FirstPartLeast ==
  ASSUME TypeOK, NEW i \in Indexes
  PROVE  /\ FirstPart(i) \in CallParts /\ sent[FirstPart(i)].index = i
         /\ \A m \in CallParts : sent[m].index = i => FirstPart(i) <= m
<1> DEFINE T == {n \in CallParts : sent[n].index = i}
<1>1. T \in SUBSET Nat /\ T # {}
  BY PartsShape DEF CallParts, Indexes
<1>2. \E n \in T : \A m \in T : n <= m
  BY <1>1, LeastNumber
<1> QED
  BY <1>2 DEF FirstPart

LEMMA FirstPartLeastNext ==
  (TypeOK => \A i \in Indexes :
     /\ FirstPart(i) \in CallParts /\ sent[FirstPart(i)].index = i
     /\ \A m \in CallParts : sent[m].index = i => FirstPart(i) <= m)'
<1>1. TypeOK => \A i \in Indexes :
        /\ FirstPart(i) \in CallParts /\ sent[FirstPart(i)].index = i
        /\ \A m \in CallParts : sent[m].index = i => FirstPart(i) <= m
  BY FirstPartLeast
<1> QED
  BY <1>1, PTL

\* The first part of a call stays the first; that of a new one is the part that
\* has just come.
LEMMA FirstPartStays ==
  ASSUME TypeOK, TypeOK', NEW part \in Part, sent' = Append(sent, part), NEW i \in Indexes'
  PROVE  /\ i \in Indexes => FirstPart(i)' = FirstPart(i) /\ IdSent(i)' = IdSent(i)
         /\ i \notin Indexes =>
              part.part = "call" /\ part.index = i /\ FirstPart(i)' = Piece /\ IdSent(i)' = part.id
<1>1. /\ DOMAIN sent' = DOMAIN sent \cup {Piece} /\ Piece \notin DOMAIN sent
      /\ sent'[Piece] = part /\ \A n \in DOMAIN sent : sent'[n] = sent[n]
      /\ CallParts' = IF part.part = "call" THEN CallParts \cup {Piece} ELSE CallParts
  BY PartsGrow DEF CallParts
<1>2. /\ CallParts \in SUBSET DOMAIN sent
      /\ \A n \in DOMAIN sent : n \in Nat /\ n < Piece
      /\ Piece \in Nat
  BY SentShape DEF CallParts, PartsOf
<1> DEFINE f == FirstPart(i)'
<1>3. /\ f \in CallParts' /\ sent'[f].index = i
      /\ \A m \in CallParts' : sent'[m].index = i => f <= m
  BY FirstPartLeastNext
<1>4. f \in Nat
  BY <1>1, <1>2, <1>3
<1>5. IdSent(i)' = sent'[f].id
  BY DEF IdSent
<1> HIDE DEF f
<1>6. CASE i \in Indexes
  <2> DEFINE n == FirstPart(i)
  <2>1. n \in CallParts /\ sent[n].index = i /\ \A m \in CallParts : sent[m].index = i => n <= m
    BY <1>6, FirstPartLeast
  <2>2. IdSent(i) = sent[n].id
    BY DEF IdSent
  <2> HIDE DEF n
  <2>3. n \in CallParts' /\ sent'[n].index = i /\ n \in Nat /\ n < Piece
    BY <1>1, <1>2, <2>1
  <2>4. f <= n
    BY <1>3, <2>3
  <2>5. f # Piece
    BY <1>2, <2>3, <2>4
  <2>6. f \in CallParts /\ sent[f].index = i
    BY <1>1, <1>2, <1>3, <2>5
  <2>7. n <= f
    BY <2>1, <2>6
  <2>8. f = n
    BY <1>4, <2>3, <2>4, <2>7
  <2>9. sent'[f].id = sent[n].id
    BY <1>1, <1>2, <2>1, <2>8
  <2> QED
    BY <1>5, <1>6, <2>2, <2>8, <2>9 DEF f, n
<1>7. CASE i \notin Indexes
  <2>1. f \notin CallParts \/ sent[f].index # i
    BY <1>7 DEF Indexes
  <2>2. f = Piece /\ part.part = "call"
    BY <1>1, <1>2, <1>3, <2>1
  <2>3. sent'[f] = part /\ part.index = i
    BY <1>1, <1>3, <2>2
  <2> QED
    BY <1>5, <1>7, <2>2, <2>3 DEF f
<1> QED
  BY <1>6, <1>7

\* A part that belongs to no call changes nothing of the calls.
LEMMA OtherPart ==
  ASSUME TypeOK, TypeOK', NEW part \in Part, sent' = Append(sent, part), part.part # "call"
  PROVE  /\ CallParts' = CallParts /\ Indexes' = Indexes
         /\ \A i : ArgParts(i)' = ArgParts(i)
         /\ \A i \in Indexes : FirstPart(i)' = FirstPart(i) /\ IdSent(i)' = IdSent(i)
<1>1. /\ \A n \in DOMAIN sent : sent'[n] = sent[n]
      /\ CallParts' = CallParts /\ CallParts \in SUBSET DOMAIN sent
  BY PartsGrow DEF CallParts, PartsOf
<1>2. Indexes' = Indexes
  BY <1>1 DEF Indexes
<1>3. ASSUME NEW i
      PROVE  ArgParts(i)' = ArgParts(i)
  BY <1>1 DEF ArgParts
<1>4. \A i \in Indexes : FirstPart(i)' = FirstPart(i) /\ IdSent(i)' = IdSent(i)
  BY <1>2, FirstPartStays
<1> QED
  BY <1>1, <1>2, <1>3, <1>4

\* A fragment adds to the arguments of its own call alone.
LEMMA CallPart ==
  ASSUME TypeOK, TypeOK', NEW part \in Part, sent' = Append(sent, part), part.part = "call"
  PROVE  /\ Indexes' = Indexes \cup {part.index}
         /\ \A i : ArgParts(i)' = IF i = part.index /\ part.args THEN ArgParts(i) \cup {Piece}
                                  ELSE ArgParts(i)
         /\ \A i : i \notin Indexes => ArgParts(i) = {}
<1>1. /\ \A n \in DOMAIN sent : sent'[n] = sent[n]
      /\ sent'[Piece] = part /\ Piece \notin DOMAIN sent
      /\ CallParts' = CallParts \cup {Piece} /\ CallParts \in SUBSET DOMAIN sent
  BY PartsGrow DEF CallParts, PartsOf
<1>2. Indexes' = Indexes \cup {part.index}
  BY <1>1 DEF Indexes
<1>3. ASSUME NEW i
      PROVE  /\ ArgParts(i)' = IF i = part.index /\ part.args THEN ArgParts(i) \cup {Piece}
                               ELSE ArgParts(i)
             /\ i \notin Indexes => ArgParts(i) = {}
  BY <1>1 DEF ArgParts, Indexes
<1> QED
  BY <1>2, <1>3

-----------------------------------------------------------------------------
(* Nothing is lost or mixed up *)

Own(kind) == {n \in DOMAIN items : items[n].kind = kind}

\* The items of a kind hold the text that was sent for it, in order.
TextSound(kind) ==
  /\ \A n \in Own(kind) :
       /\ ToSet(items[n].text) \subseteq PartsOf(kind)
       /\ items[n].text = InOrder(ToSet(items[n].text))
  /\ \A x \in PartsOf(kind) : \E n \in Own(kind) : x \in ToSet(items[n].text)
  /\ \A m, n \in Own(kind) : m < n =>
       \A x \in ToSet(items[m].text), y \in ToSet(items[n].text) : x < y

\* Every call that was sent has an item of its own, with its arguments.
CallSound ==
  /\ DOMAIN toolByIndex = Indexes
  /\ \A i \in Indexes :
       /\ toolByIndex[i] \in Own("function_call")
       /\ items[toolByIndex[i]].text = InOrder(ArgParts(i))
       /\ IdSent(i) # NoId => items[toolByIndex[i]].call = IdSent(i)
  /\ \A i, j \in Indexes : toolByIndex[i] = toolByIndex[j] => i = j
  /\ \A n \in Own("function_call") : \E i \in Indexes : toolByIndex[i] = n

MixInvariant ==
  StreamInvariant /\ TextSound("reasoning") /\ TextSound("message") /\ CallSound

\* The item at `at`, one of the list or a new one behind it, is lengthened.
Lengthening(known, kind, call, at, piece) ==
  LET old == Opened(known, kind, call)
      new == Lengthened(old, at, piece)
  IN  /\ DOMAIN old = DOMAIN items \cup {at} /\ DOMAIN new = DOMAIN old
      /\ old[at] = IF known THEN items[at] ELSE NewItem(kind, call)
      /\ old[at].kind = kind /\ old[at].text \in Seq(Nat)
      /\ new[at] = [kind |-> kind, call |-> old[at].call, text |-> Append(old[at].text, piece)]
      /\ \A m \in DOMAIN items \ {at} : old[m] = items[m] /\ new[m] = items[m]

LEMMA Lengthens ==
  ASSUME items \in Seq(StreamItem), NEW known \in BOOLEAN, NEW kind \in Kinds,
         NEW call \in CallIds \cup {NoId} \cup Nat, NEW at, NEW piece \in Nat,
         known => at \in DOMAIN items /\ items[at].kind = kind,
         ~known => at = Len(items) + 1
  PROVE  Lengthening(known, kind, call, at, piece)
<1> DEFINE old == Opened(known, kind, call)
           new == Lengthened(old, at, piece)
<1>1. DOMAIN items = 1..Len(items) /\ Len(items) \in Nat
  OBVIOUS
<1>2. /\ old \in Seq(StreamItem) /\ DOMAIN old = DOMAIN items \cup {at}
      /\ old[at] = IF known THEN items[at] ELSE NewItem(kind, call)
      /\ \A m \in DOMAIN items : m # at => old[m] = items[m]
  <2>1. CASE known
    BY <2>1 DEF Opened
  <2>2. CASE ~known
    <3>1. old = Append(items, NewItem(kind, call)) /\ NewItem(kind, call) \in StreamItem
      BY <2>2, NewItemType DEF Opened
    <3> QED
      BY <1>1, <2>2, <3>1
  <2> QED
    BY <2>1, <2>2
<1>3. old[at].kind = kind
  BY <1>2 DEF NewItem
<1>4. old[at] \in StreamItem
  BY <1>2
<1>5. old[at].text \in Seq(Nat)
  BY <1>4 DEF StreamItem
<1> HIDE DEF old
<1>6. new = [old EXCEPT ![at] = [kind |-> old[at].kind, call |-> old[at].call,
                                 text |-> Append(old[at].text, piece)]]
  BY DEF Lengthened
<1>7. /\ DOMAIN new = DOMAIN old
      /\ new[at] = [kind |-> kind, call |-> old[at].call, text |-> Append(old[at].text, piece)]
      /\ \A m \in DOMAIN items \ {at} : new[m] = old[m]
  BY <1>2, <1>3, <1>6
<1> HIDE DEF new
<1> QED
  BY <1>2, <1>3, <1>5, <1>7 DEF old, new, Lengthening

LEMMA TextUntouched ==
  ASSUME NEW kind, TextSound(kind), PartsOf(kind)' = PartsOf(kind), Own(kind)' = Own(kind),
         \A n \in Own(kind) : items'[n] = items[n]
  PROVE  TextSound(kind)'
  BY DEF TextSound

LEMMA TextLengthened ==
  ASSUME TypeOK, NEW kind, TextSound(kind), NEW at, NEW text \in Seq(Nat),
         PartsOf(kind)' = PartsOf(kind) \cup {Piece},
         DOMAIN items' = DOMAIN items \cup {at},
         at \in Nat, \A n \in DOMAIN items : n <= at,
         \A n \in DOMAIN items \ {at} : items'[n] = items[n],
         items'[at].kind = kind, items'[at].text = Append(text, Piece),
         IF at \in DOMAIN items THEN items[at].kind = kind /\ text = items[at].text ELSE text = <<>>
  PROVE  TextSound(kind)'
<1> DEFINE T == ToSet(text)
           p == Piece
<1>1. T \subseteq PartsOf(kind) /\ text = InOrder(T)
  <2>1. CASE at \in DOMAIN items
    BY <2>1 DEF TextSound, Own
  <2>2. CASE at \notin DOMAIN items
    <3>1. T = {}
      BY <2>2 DEF ToSet
    <3> QED
      BY <2>2, <3>1, InOrderEmpty
  <2> QED
    BY <2>1, <2>2
<1>2. /\ PartsOf(kind) \in SUBSET Nat /\ IsFiniteSet(PartsOf(kind))
      /\ \A n \in PartsOf(kind) : n < p
  BY PartsShape
<1>3. p \in Nat
  BY SentShape
<1>4. T \in SUBSET Nat /\ IsFiniteSet(T) /\ \A n \in T : n < p
  BY <1>1, <1>2, FS_Subset
<1>5. ToSet(Append(text, p)) = T \cup {p}
  BY <1>3, AppendShape
<1>6. Append(text, p) = InOrder(T \cup {p})
  BY <1>1, <1>3, <1>4, InOrderGrows
<1> HIDE DEF T, p
<1>7. Own(kind)' = Own(kind) \cup {at} /\ (at \in DOMAIN items => at \in Own(kind))
  BY DEF Own
<1>8. items'[at].text = InOrder(T \cup {p}) /\ ToSet(items'[at].text) = T \cup {p}
  BY <1>5, <1>6 DEF p
<1>9. \A n \in Own(kind) \ {at} : items'[n] = items[n]
  BY DEF Own
<1>10. \A n \in Own(kind)' :
         /\ ToSet(items'[n].text) \subseteq PartsOf(kind)'
         /\ items'[n].text = InOrder(ToSet(items'[n].text))
  <2> TAKE n \in Own(kind)'
  <2>1. CASE n = at
    BY <1>1, <1>8, <2>1 DEF p
  <2>2. CASE n # at
    BY <1>7, <1>9, <2>2 DEF TextSound
  <2> QED
    BY <2>1, <2>2
<1>11. at \in Own(kind) => T = ToSet(items[at].text)
  BY DEF T, Own
<1>12. ASSUME NEW x \in PartsOf(kind)'
       PROVE  \E n \in Own(kind)' : x \in ToSet(items'[n].text)
  <2>1. CASE x = p
    BY <1>7, <1>8, <2>1
  <2>2. CASE x \in PartsOf(kind)
    <3>1. PICK n \in Own(kind) : x \in ToSet(items[n].text)
      BY <2>2 DEF TextSound
    <3>2. x \in ToSet(items'[n].text)
      BY <1>8, <1>9, <1>11, <3>1
    <3> QED
      BY <1>7, <3>2
  <2> QED
    BY <2>1, <2>2 DEF p
<1>13. ASSUME NEW m \in Own(kind)', NEW n \in Own(kind)', m < n,
              NEW x \in ToSet(items'[m].text), NEW y \in ToSet(items'[n].text)
       PROVE  x < y
  <2>a. DOMAIN items \in SUBSET Nat
    BY DEF TypeOK
  <2>b. m \in DOMAIN items \cup {at} /\ n \in DOMAIN items \cup {at}
    BY DEF Own
  <2>c. m # at
    BY <1>13, <2>a, <2>b
  <2>1. m \in Own(kind) /\ m # at
    BY <1>7, <2>c
  <2>2. items'[m] = items[m] /\ x \in PartsOf(kind) /\ x \in ToSet(items[m].text)
    BY <1>9, <2>1 DEF TextSound
  <2>3. CASE n = at
    <3>1. CASE y = p
      BY <1>2, <2>2, <3>1
    <3>2. CASE y # p
      <4>1. y \in T
        BY <1>8, <1>13, <2>3, <3>2
      <4>2. at \in DOMAIN items
        <5>1. T # {} => at \in DOMAIN items
          BY DEF T, ToSet
        <5> QED
          BY <4>1, <5>1
      <4> QED
        BY <1>7, <1>11, <1>13, <2>1, <2>2, <2>3, <4>1, <4>2 DEF TextSound
    <3> QED
      BY <3>1, <3>2
  <2>4. CASE n # at
    BY <1>7, <1>9, <1>13, <2>1, <2>2, <2>4 DEF TextSound
  <2> QED
    BY <2>3, <2>4
<1> QED
  BY <1>10, <1>12, <1>13 DEF TextSound

LEMMA MixTextDelta ==
  ASSUME MixInvariant, StreamInvariant', NEW kind \in {"reasoning", "message"}, TextDelta(kind)
  PROVE  MixInvariant'
<1> DEFINE known == EnsureItem(kind)
           at == IF known THEN Len(items) ELSE Len(items) + 1
           old == Opened(known, kind, NoId)
           part == [part |-> kind]
<1>1. /\ part \in Part /\ part.part = kind /\ part.part # "call"
      /\ sent' = Append(sent, part) /\ UNCHANGED toolByIndex
      /\ items' = Lengthened(old, at, Piece)
  BY DEF Part, TextDelta, Receive
<1>2. TypeOK /\ TypeOK' /\ items \in Seq(StreamItem) /\ Piece \in Nat
  BY SentShape DEF MixInvariant, StreamInvariant, TypeOK
<1>3. known \in BOOLEAN /\ kind \in Kinds /\ NoId \in CallIds \cup {NoId} \cup Nat
  BY DEF Kinds, EnsureItem
<1>4. /\ IF known THEN at \in DOMAIN items /\ items[at].kind = kind ELSE at = Len(items) + 1
      /\ DOMAIN items = 1..Len(items) /\ Len(items) \in Nat
  BY <1>2 DEF EnsureItem
<1> HIDE DEF known, at, part
<1>5. /\ DOMAIN old = DOMAIN items \cup {at} /\ DOMAIN items' = DOMAIN old
      /\ old[at] = IF known THEN items[at] ELSE NewItem(kind, NoId)
      /\ old[at].text \in Seq(Nat)
      /\ items'[at] = [kind |-> kind, call |-> old[at].call, text |-> Append(old[at].text, Piece)]
      /\ \A m \in DOMAIN items \ {at} : items'[m] = items[m]
  <2>1. Lengthening(known, kind, NoId, at, Piece)
    BY <1>2, <1>3, <1>4, Lengthens
  <2> QED
    BY <1>1, <2>1 DEF Lengthening
<1>6. /\ \A k : PartsOf(k)' = IF k = kind THEN PartsOf(k) \cup {Piece} ELSE PartsOf(k)
      /\ CallParts' = CallParts /\ Indexes' = Indexes
      /\ \A i : ArgParts(i)' = ArgParts(i)
      /\ \A i \in Indexes : FirstPart(i)' = FirstPart(i) /\ IdSent(i)' = IdSent(i)
  BY <1>1, <1>2, PartsGrow, OtherPart
<1>7. at \in Nat /\ (\A n \in DOMAIN items : n <= at) /\ (at \in DOMAIN items <=> known)
  BY <1>4 DEF at
<1>8. IF at \in DOMAIN items THEN items[at].kind = kind /\ old[at].text = items[at].text
      ELSE old[at].text = <<>>
  BY <1>4, <1>5, <1>7 DEF NewItem
<1>9. items'[at].kind = kind /\ items'[at].text = Append(old[at].text, Piece)
  BY <1>5
<1> HIDE DEF old
<1>10. TextSound(kind)'
  <2>1. TextSound(kind)
    BY DEF MixInvariant
  <2>2. PartsOf(kind)' = PartsOf(kind) \cup {Piece}
    BY <1>6
  <2> QED
    BY <1>2, <1>5, <1>7, <1>8, <1>9, <2>1, <2>2, TextLengthened
<1>11. \A k : k # kind => Own(k)' = Own(k) /\ \A n \in Own(k) : items'[n] = items[n]
  <2> TAKE k
  <2> HAVE k # kind
  <2>1. \A n \in Own(k) : n \in DOMAIN items /\ n # at
    BY <1>8 DEF Own
  <2> QED
    BY <1>5, <1>9, <2>1 DEF Own
<1>12. ASSUME NEW k \in {"reasoning", "message"}, k # kind
       PROVE  TextSound(k)'
  <2>1. TextSound(k) /\ PartsOf(k)' = PartsOf(k)
    BY <1>6, <1>12 DEF MixInvariant
  <2> QED
    BY <1>11, <1>12, <2>1, TextUntouched
<1>13. CallSound'
  BY <1>1, <1>6, <1>11 DEF MixInvariant, CallSound
<1> QED
  BY <1>10, <1>12, <1>13 DEF MixInvariant

\* A fragment reaches the item of its call, and no other one.
LEMMA FragmentReaches ==
  ASSUME MixInvariant, NEW f \in Fragments, CallFragment(f)
  PROVE  LET i == IndexOf(f)
             at == CallPlace(i)
             known == i \in Indexes
             text == IF known THEN items[at].text ELSE <<>>
         IN  /\ i \in Nat /\ toolByIndex' = [j \in Indexes \cup {i} |-> IF j = i THEN at ELSE toolByIndex[j]]
             /\ sent' = Append(sent, [part |-> "call", index |-> i, id |-> f.id, args |-> f.args])
             /\ [part |-> "call", index |-> i, id |-> f.id, args |-> f.args] \in Part
             /\ DOMAIN items' = DOMAIN items \cup {at} /\ (at \in DOMAIN items <=> known)
             /\ known => items[at].kind = "function_call" /\ at = toolByIndex[i]
             /\ ~known => at = Len(items) + 1
             /\ \A m \in DOMAIN items \ {at} : items'[m] = items[m]
             /\ items'[at].kind = "function_call"
             /\ items'[at].call = IF known THEN items[at].call ELSE CallOf(f)
             /\ items'[at].text = IF f.args THEN Append(text, Piece) ELSE text
<1> DEFINE i == IndexOf(f)
           at == CallPlace(i)
           known == i \in Indexes
           old == Opened(known, "function_call", CallOf(f))
           part == [part |-> "call", index |-> i, id |-> f.id, args |-> f.args]
<1>1. /\ f.index \in Nat \cup {NoIndex} /\ f.id \in CallIds \cup {NoId} /\ f.args \in BOOLEAN
      /\ i \in Nat
  BY DEF StreamAssumption, IndexOf
<1>2. TypeOK /\ items \in Seq(StreamItem) /\ Piece \in Nat /\ DOMAIN toolByIndex = Indexes
  BY SentShape DEF MixInvariant, StreamInvariant, TypeOK, CallSound
<1>3. DOMAIN items = 1..Len(items) /\ Len(items) \in Nat
  BY <1>2
<1>4. /\ \A j \in Indexes : toolByIndex[j] \in DOMAIN items
      /\ \A j \in Indexes : items[toolByIndex[j]].kind = "function_call"
  BY DEF MixInvariant, CallSound, Own
<1>5. /\ toolByIndex' = [j \in Indexes \cup {i} |-> IF j = i THEN at ELSE toolByIndex[j]]
      /\ items' = IF f.args THEN Lengthened(old, at, Piece) ELSE old
      /\ sent' = Append(sent, part)
  BY <1>2 DEF CallFragment, Receive
<1>6. known \in BOOLEAN /\ CallOf(f) \in CallIds \cup {NoId} \cup Nat /\ "function_call" \in Kinds
  BY <1>1, <1>3 DEF CallOf, Kinds
<1>7. /\ known => at \in DOMAIN items /\ items[at].kind = "function_call" /\ at = toolByIndex[i]
      /\ ~known => at = Len(items) + 1 /\ at \notin DOMAIN items
  BY <1>2, <1>3, <1>4 DEF CallPlace
<1>8. part \in Part
  BY <1>1 DEF Part
<1> HIDE DEF i, at, known, part
<1>9. LET new == Lengthened(old, at, Piece)
      IN  /\ DOMAIN old = DOMAIN items \cup {at} /\ DOMAIN new = DOMAIN old
          /\ old[at] = IF known THEN items[at] ELSE NewItem("function_call", CallOf(f))
          /\ old[at].kind = "function_call" /\ old[at].text \in Seq(Nat)
          /\ new[at] = [kind |-> "function_call", call |-> old[at].call,
                        text |-> Append(old[at].text, Piece)]
          /\ \A m \in DOMAIN items \ {at} : old[m] = items[m] /\ new[m] = items[m]
  <2>1. Lengthening(known, "function_call", CallOf(f), at, Piece)
    BY <1>2, <1>6, <1>7, Lengthens
  <2> QED
    BY <2>1 DEF Lengthening
<1> HIDE DEF old
<1>10. /\ DOMAIN items' = DOMAIN items \cup {at}
       /\ \A m \in DOMAIN items \ {at} : items'[m] = items[m]
       /\ items'[at].kind = "function_call" /\ items'[at].call = old[at].call
       /\ items'[at].text = IF f.args THEN Append(old[at].text, Piece) ELSE old[at].text
  <2>1. CASE f.args
    BY <1>5, <1>9, <2>1
  <2>2. CASE ~f.args
    BY <1>5, <1>9, <2>2
  <2> QED
    BY <2>1, <2>2
<1>11. /\ old[at].call = IF known THEN items[at].call ELSE CallOf(f)
       /\ old[at].text = IF known THEN items[at].text ELSE <<>>
  BY <1>9 DEF NewItem
<1> QED
  BY <1>1, <1>5, <1>7, <1>8, <1>10, <1>11 DEF i, at, known, part

LEMMA MixCallFragment ==
  ASSUME MixInvariant, StreamInvariant', NEW f \in Fragments, CallFragment(f)
  PROVE  MixInvariant'
<1> DEFINE i == IndexOf(f)
           at == CallPlace(i)
           known == i \in Indexes
           text == IF known THEN items[at].text ELSE <<>>
           part == [part |-> "call", index |-> i, id |-> f.id, args |-> f.args]
<1>1. /\ i \in Nat /\ toolByIndex' = [j \in Indexes \cup {i} |-> IF j = i THEN at ELSE toolByIndex[j]]
      /\ sent' = Append(sent, part) /\ part \in Part
      /\ DOMAIN items' = DOMAIN items \cup {at} /\ (at \in DOMAIN items <=> known)
      /\ known => items[at].kind = "function_call" /\ at = toolByIndex[i]
      /\ ~known => at = Len(items) + 1
      /\ \A m \in DOMAIN items \ {at} : items'[m] = items[m]
      /\ items'[at].kind = "function_call"
      /\ items'[at].call = IF known THEN items[at].call ELSE CallOf(f)
      /\ items'[at].text = IF f.args THEN Append(text, Piece) ELSE text
  BY FragmentReaches
<1>2. part.part = "call" /\ part.index = i /\ part.id = f.id /\ part.args = f.args
  OBVIOUS
<1>3. TypeOK /\ TypeOK' /\ Piece \in Nat /\ CallSound
  BY SentShape DEF MixInvariant, StreamInvariant
<1>4. f.args \in BOOLEAN
  BY DEF StreamAssumption
<1> HIDE DEF i, at, text, part
<1>5. /\ Indexes' = Indexes \cup {i}
      /\ \A j : ArgParts(j)' = IF j = i /\ f.args THEN ArgParts(j) \cup {Piece} ELSE ArgParts(j)
      /\ \A j : j \notin Indexes => ArgParts(j) = {}
      /\ \A k : PartsOf(k)' = IF k = "call" THEN PartsOf(k) \cup {Piece} ELSE PartsOf(k)
  BY <1>1, <1>2, <1>3, CallPart, PartsGrow
<1>6. /\ \A j \in Indexes : IdSent(j)' = IdSent(j)
      /\ ~known => IdSent(i)' = f.id
  <2>1. \A j \in Indexes' :
          /\ j \in Indexes => FirstPart(j)' = FirstPart(j) /\ IdSent(j)' = IdSent(j)
          /\ j \notin Indexes => IdSent(j)' = part.id
    BY <1>1, <1>3, FirstPartStays
  <2> QED
    BY <1>2, <1>5, <2>1
<1>7. /\ Own("function_call")' = Own("function_call") \cup {at}
      /\ at \in Own("function_call") <=> known
      /\ \A m \in Own("function_call") \ {at} : items'[m] = items[m]
  BY <1>1 DEF Own
<1>8. ASSUME NEW k \in {"reasoning", "message"}
      PROVE  TextSound(k)'
  <2>1. Own(k)' = Own(k) /\ \A n \in Own(k) : items'[n] = items[n]
    <3>1. \A n \in Own(k) : n \in DOMAIN items /\ n # at
      BY <1>1 DEF Own
    <3> QED
      BY <1>1, <3>1 DEF Own
  <2>2. TextSound(k) /\ PartsOf(k)' = PartsOf(k)
    BY <1>5 DEF MixInvariant
  <2> QED
    BY <2>1, <2>2, TextUntouched
<1>9. text = InOrder(ArgParts(i))
  <2>1. CASE known
    BY <1>1, <1>3, <2>1 DEF CallSound, text
  <2>2. CASE ~known
    BY <1>5, <2>2, InOrderEmpty DEF text
  <2> QED
    BY <2>1, <2>2
<1>10. items'[at].text = InOrder(ArgParts(i)')
  <2>1. CASE f.args
    <3>1. /\ ArgParts(i) \in SUBSET Nat /\ IsFiniteSet(ArgParts(i))
          /\ \A n \in ArgParts(i) : n < Piece
      BY <1>3, ArgPartsShape
    <3>2. InOrder(ArgParts(i) \cup {Piece}) = Append(InOrder(ArgParts(i)), Piece)
      BY <1>3, <3>1, InOrderGrows
    <3> QED
      BY <1>1, <1>5, <1>9, <2>1, <3>2
  <2>2. CASE ~f.args
    BY <1>1, <1>5, <1>9, <2>2
  <2> QED
    BY <2>1, <2>2
<1>11. \A j \in Indexes : j # i =>
         /\ toolByIndex'[j] = toolByIndex[j] /\ toolByIndex[j] # at
         /\ toolByIndex[j] \in Own("function_call")
         /\ items'[toolByIndex[j]] = items[toolByIndex[j]]
  <2> TAKE j \in Indexes
  <2> HAVE j # i
  <2>1. toolByIndex'[j] = toolByIndex[j] /\ toolByIndex[j] \in Own("function_call")
    BY <1>1, <1>3 DEF CallSound
  <2>2. toolByIndex[j] # at
    <3>1. CASE known
      BY <1>1, <1>3, <3>1 DEF CallSound
    <3>2. CASE ~known
      BY <1>7, <2>1, <3>2
    <3> QED
      BY <3>1, <3>2
  <2> QED
    BY <1>7, <2>1, <2>2
<1>12. toolByIndex'[i] = at /\ DOMAIN toolByIndex' = Indexes'
  BY <1>1, <1>5
<1>13. ASSUME NEW j \in Indexes'
       PROVE  /\ toolByIndex'[j] \in Own("function_call")'
              /\ items'[toolByIndex'[j]].text = InOrder(ArgParts(j)')
              /\ IdSent(j)' # NoId => items'[toolByIndex'[j]].call = IdSent(j)'
  <2>1. CASE j = i
    <3>1. IdSent(i)' # NoId => items'[at].call = IdSent(i)'
      <4>1. CASE known
        BY <1>1, <1>3, <1>6, <4>1 DEF CallSound
      <4>2. CASE ~known
        BY <1>1, <1>6, <4>2 DEF CallOf
      <4> QED
        BY <4>1, <4>2
    <3> QED
      BY <1>7, <1>10, <1>12, <2>1, <3>1
  <2>2. CASE j # i
    <3>1. j \in Indexes
      BY <1>5, <2>2
    <3>2. ArgParts(j)' = ArgParts(j) /\ IdSent(j)' = IdSent(j)
      BY <1>5, <1>6, <2>2, <3>1
    <3> QED
      BY <1>3, <1>7, <1>11, <2>2, <3>1, <3>2 DEF CallSound
  <2> QED
    BY <2>1, <2>2
<1>14. \A j, l \in Indexes' : toolByIndex'[j] = toolByIndex'[l] => j = l
  BY <1>3, <1>5, <1>11, <1>12 DEF CallSound
<1>15. ASSUME NEW n \in Own("function_call")'
       PROVE  \E j \in Indexes' : toolByIndex'[j] = n
  <2>1. CASE n = at
    BY <1>5, <1>12, <2>1
  <2>2. CASE n # at
    <3>1. PICK j \in Indexes : toolByIndex[j] = n
      BY <1>3, <1>7, <2>2 DEF CallSound
    <3>2. j # i
      BY <1>1, <2>2, <3>1
    <3> QED
      BY <1>5, <1>11, <3>1, <3>2
  <2> QED
    BY <2>1, <2>2
<1>16. CallSound'
  BY <1>12, <1>13, <1>14, <1>15 DEF CallSound
<1> QED
  BY <1>8, <1>16 DEF MixInvariant

LEMMA MixUntouched ==
  ASSUME MixInvariant, StreamInvariant', UNCHANGED <<items, toolByIndex>>,
         \/ sent' = sent
         \/ \E part \in Part : sent' = Append(sent, part) /\ part.part \in {"finish", "usage"}
  PROVE  MixInvariant'
<1>1. TypeOK /\ TypeOK'
  BY DEF MixInvariant, StreamInvariant
<1>2. /\ PartsOf("reasoning")' = PartsOf("reasoning") /\ PartsOf("message")' = PartsOf("message")
      /\ Indexes' = Indexes /\ \A i : ArgParts(i)' = ArgParts(i)
      /\ \A i \in Indexes : IdSent(i)' = IdSent(i)
  <2>1. CASE sent' = sent
    BY <2>1 DEF PartsOf, Indexes, ArgParts, CallParts, IdSent, FirstPart
  <2>2. ASSUME NEW part \in Part, sent' = Append(sent, part), part.part \in {"finish", "usage"}
        PROVE  /\ PartsOf("reasoning")' = PartsOf("reasoning")
               /\ PartsOf("message")' = PartsOf("message")
               /\ Indexes' = Indexes /\ \A i : ArgParts(i)' = ArgParts(i)
               /\ \A i \in Indexes : IdSent(i)' = IdSent(i)
    BY <1>1, <2>2, PartsGrow, OtherPart
  <2> QED
    BY <2>1, <2>2
<1>3. \A k : Own(k)' = Own(k)
  BY DEF Own
<1>4. TextSound("reasoning")' /\ TextSound("message")'
  BY <1>2, <1>3, TextUntouched DEF MixInvariant
<1>5. CallSound'
  BY <1>2, <1>3 DEF MixInvariant, CallSound
<1> QED
  BY <1>4, <1>5 DEF MixInvariant

LEMMA MixInvariantInit == Init => MixInvariant
<1> SUFFICES ASSUME Init PROVE MixInvariant
  OBVIOUS
<1>1. DOMAIN sent = {} /\ DOMAIN items = {} /\ DOMAIN toolByIndex = {}
  BY DEF Init
<1>2. (\A kind : PartsOf(kind) = {} /\ Own(kind) = {}) /\ Indexes = {}
  BY <1>1 DEF PartsOf, Own, Indexes, CallParts
<1> QED
  BY <1>1, <1>2, InvariantInit DEF MixInvariant, TextSound, CallSound

LEMMA MixInvariantHolds == Spec => []MixInvariant
<1>1. Init => MixInvariant
  BY MixInvariantInit
<1>2. MixInvariant /\ [Next]_vars => MixInvariant'
  <2> SUFFICES ASSUME MixInvariant, [Next]_vars PROVE MixInvariant'
    OBVIOUS
  <2>1. StreamInvariant'
    BY InvariantStep DEF MixInvariant
  <2>2. CASE \E kind \in {"reasoning", "message"} : TextDelta(kind)
    BY <2>1, <2>2, MixTextDelta
  <2>3. CASE \E f \in Fragments : CallFragment(f)
    BY <2>1, <2>3, MixCallFragment
  <2>4. ASSUME NEW reason \in {"stop", "length"}, FinishReason(reason)
        PROVE  MixInvariant'
    <3>1. [part |-> "finish", reason |-> reason] \in Part
      BY DEF Part
    <3>2. UNCHANGED <<items, toolByIndex>> /\ sent' = Append(sent, [part |-> "finish", reason |-> reason])
      BY <2>4 DEF FinishReason, Receive
    <3> QED
      BY <2>1, <3>1, <3>2, MixUntouched
  <2>5. ASSUME NEW u \in Usages, UsageReport(u)
        PROVE  MixInvariant'
    <3>1. [part |-> "usage", usage |-> u] \in Part
      BY DEF Part, StreamAssumption, UsageReports
    <3>2. UNCHANGED <<items, toolByIndex>> /\ sent' = Append(sent, [part |-> "usage", usage |-> u])
      BY <2>5 DEF UsageReport, Receive
    <3> QED
      BY <2>1, <3>1, <3>2, MixUntouched
  <2>6. CASE UNCHANGED <<items, toolByIndex, sent>>
    BY <2>1, <2>6, MixUntouched
  <2> QED
    BY <2>2, <2>3, <2>4, <2>5, <2>6
    DEF Next, ReadToEnd, BreakOff, CloseItem, Complete, vars
<1> QED
  BY <1>1, <1>2, PTL DEF Spec

LEMMA IndexesShape ==
  ASSUME MixInvariant
  PROVE  /\ Indexes \in SUBSET Nat /\ IsFiniteSet(Indexes) /\ Cardinality(Indexes) \in Nat
         /\ Cardinality(Own("function_call")) = Cardinality(Indexes)
<1> DEFINE g == [i \in Indexes |-> toolByIndex[i]]
<1>1. TypeOK /\ CallSound
  BY DEF MixInvariant, StreamInvariant
<1>2. IsFiniteSet(Own("function_call"))
  <2>1. \A n \in Nat : IsFiniteSet(1..n)
    BY FS_Interval
  <2>2. IsFiniteSet(DOMAIN items)
    BY <1>1, <2>1 DEF TypeOK
  <2> QED
    BY <2>2, FS_Subset DEF Own
<1>3. /\ g \in [Indexes -> Own("function_call")]
      /\ \A i, j \in Indexes : g[i] = g[j] => i = j
      /\ \A n \in Own("function_call") : \E i \in Indexes : g[i] = n
  BY <1>1 DEF CallSound
<1>4. g \in Injection(Indexes, Own("function_call"))
  BY <1>3, Fun_IsInj
<1>5. IsFiniteSet(Indexes)
  BY <1>2, <1>4, FS_Injection
<1>6. g \in Surjection(Indexes, Own("function_call"))
  BY <1>3 DEF Surjection
<1>7. Cardinality(Own("function_call")) = Cardinality(Indexes)
  BY <1>2, <1>4, <1>5, <1>6, FS_Injection, FS_Surjection
<1>8. Indexes \in SUBSET Nat
  BY <1>1, SentShape DEF Indexes
<1> QED
  BY <1>5, <1>7, <1>8, FS_CardinalityType

\* However reasoning, text and fragments of calls alternate, each piece reaches
\* the item it belongs to, once and in order, and nothing else does.
THEOREM NothingEverLostOrMixed == Spec => []NothingLostOrMixed
<1>1. MixInvariant => NothingLostOrMixed
  <2> SUFFICES ASSUME MixInvariant PROVE NothingLostOrMixed
    OBVIOUS
  <2>1. client.items = items /\ TypeOK
    BY DEF MixInvariant, StreamInvariant, ClientInStep
  <2>2. \A kind : Told(kind) = Own(kind)
    BY <2>1 DEF Told, Own
  <2>3. ASSUME NEW kind \in {"reasoning", "message"}
        PROVE  UNION {ToSet(items[n].text) : n \in Own(kind)} = PartsOf(kind)
    <3>1. TextSound(kind)
      BY DEF MixInvariant
    <3> QED
      BY <3>1, Zenon DEF TextSound
  <2>4. Cardinality(Own("function_call")) = Cardinality(Indexes)
    BY IndexesShape
  <2>5. TextSound("reasoning") /\ TextSound("message") /\ CallSound
    BY DEF MixInvariant
  <2>6. ASSUME NEW i \in Indexes
        PROVE  LET it == client.items[toolByIndex[i]] IN
               /\ it.kind = "function_call" /\ it.text = InOrder(ArgParts(i))
               /\ IdSent(i) # NoId => it.call = IdSent(i)
    BY <2>1, <2>5 DEF CallSound, Own
  <2>7. ASSUME NEW kind \in {"reasoning", "message"}
        PROVE  /\ UNION {ToSet(client.items[n].text) : n \in Told(kind)} = PartsOf(kind)
               /\ \A n \in Told(kind) : client.items[n].text = InOrder(ToSet(client.items[n].text))
               /\ \A m, n \in Told(kind) : m < n =>
                    \A x \in ToSet(client.items[m].text), y \in ToSet(client.items[n].text) : x < y
    BY <2>1, <2>2, <2>3, <2>5 DEF TextSound
  <2>8. DOMAIN toolByIndex = Indexes
    BY <2>5 DEF CallSound
  <2> QED
    BY <2>2, <2>4, <2>6, <2>7, <2>8 DEF NothingLostOrMixed
<1> QED
  BY <1>1, MixInvariantHolds, PTL

-----------------------------------------------------------------------------
(* Streaming makes no difference *)

Few(S) == IF S = {} THEN 0 ELSE 1

\* Where the items are when an answer comes in the usual order: one of
\* reasoning, one of text, and the calls by their indexes.
OrderSound ==
  SentInOrder =>
    LET r == Few(PartsOf("reasoning"))
        t == r + Few(PartsOf("message"))
    IN  /\ Len(items) = t + Cardinality(Indexes)
        /\ PartsOf("reasoning") # {} => items[1].kind = "reasoning"
        /\ PartsOf("message") # {} => items[t].kind = "message"
        /\ \A i \in Indexes : toolByIndex[i] = t + Rank(Indexes, i)

NoUsage == [prompt |-> 0, completion |-> 0, cached |-> 0]

\* What is kept of a report.
KeptOf(u) == [prompt |-> u.prompt, completion |-> u.completion, cached |-> u.cached]

\* The usage that was put together is the largest of the reports.
UsageSound ==
  SteadyUsage =>
    IF UsageSent = {} THEN usage = NoUsage
    ELSE \E u \in UsageSent :
           usage = KeptOf(u) /\ \A v \in UsageSent : v.completion <= u.completion

StatusSound == client.over => client.status = Status /\ client.usage = {FinalUsage}

AgreeInvariant == MixInvariant /\ OrderSound /\ UsageSound /\ StatusSound

\* What is said of the order so far when it holds with one more part.
LEMMA InOrderSoFar ==
  ASSUME TypeOK, TypeOK', NEW part \in Part, sent' = Append(sent, part), SentInOrder'
  PROVE  /\ SentInOrder
         /\ part.part = "reasoning" => PartsOf("message") = {} /\ Indexes = {}
         /\ part.part = "message" => Indexes = {}
         /\ part.part = "call" /\ part.index \notin Indexes => \A j \in Indexes : j < part.index
<1>1. /\ DOMAIN sent' = DOMAIN sent \cup {Piece} /\ Piece \notin DOMAIN sent
      /\ sent'[Piece] = part /\ \A n \in DOMAIN sent : sent'[n] = sent[n]
  BY PartsGrow
<1>2. /\ \A n \in DOMAIN sent : n \in Nat /\ n < Piece
      /\ Piece \in Nat /\ \A n \in CallParts : sent[n].index \in Nat
  BY SentShape
<1>3. Indexes \subseteq Indexes' /\ \A i \in Indexes : FirstPart(i)' = FirstPart(i)
  <2>1. part.part # "call" => Indexes' = Indexes
    BY OtherPart
  <2>2. part.part = "call" => Indexes' = Indexes \cup {part.index}
    BY CallPart
  <2>3. Indexes \subseteq Indexes'
    BY <2>1, <2>2
  <2> QED
    BY <2>3, FirstPartStays
<1>4. /\ \A m, n \in DOMAIN sent' : m < n =>
           /\ sent'[m].part = "message" => sent'[n].part # "reasoning"
           /\ sent'[m].part = "call" => sent'[n].part \notin {"reasoning", "message"}
      /\ \A i, j \in Indexes' : i < j => FirstPart(i)' < FirstPart(j)'
  BY DEF SentInOrder
<1>5. SentInOrder
  <2>1. \A m, n \in DOMAIN sent : m < n =>
           /\ sent[m].part = "message" => sent[n].part # "reasoning"
           /\ sent[m].part = "call" => sent[n].part \notin {"reasoning", "message"}
    BY <1>1, <1>4
  <2>2. \A i, j \in Indexes : i < j => FirstPart(i) < FirstPart(j)
    BY <1>3, <1>4
  <2> QED
    BY <2>1, <2>2 DEF SentInOrder
<1>6. \A m \in DOMAIN sent :
        /\ sent[m].part = "message" => part.part # "reasoning"
        /\ sent[m].part = "call" => part.part \notin {"reasoning", "message"}
  BY <1>1, <1>2, <1>4
<1>7. part.part = "reasoning" => PartsOf("message") = {} /\ Indexes = {}
  BY <1>6 DEF PartsOf, CallParts, Indexes
<1>8. part.part = "message" => Indexes = {}
  BY <1>6 DEF PartsOf, CallParts, Indexes
<1>9. ASSUME part.part = "call", part.index \notin Indexes, NEW j \in Indexes
      PROVE  j < part.index
  <2>1. part.index \in Indexes' /\ FirstPart(part.index)' = Piece
    <3>1. part.index \in Indexes'
      BY <1>9, CallPart
    <3> QED
      BY <1>9, <3>1, FirstPartStays
  <2>2. FirstPart(j)' \in CallParts
    BY <1>3, FirstPartLeast
  <2>3. FirstPart(j)' < Piece /\ FirstPart(j)' \in Nat
    BY <1>2, <2>2 DEF CallParts, PartsOf
  <2>4. j \in Nat /\ part.index \in Nat /\ j # part.index
    <3>1. j \in Nat
      BY <1>2 DEF Indexes
    <3>2. part.index \in Nat
      BY <1>9 DEF Part
    <3> QED
      BY <1>9, <3>1, <3>2
  <2>5. ~(part.index < j)
    BY <1>2, <1>3, <1>4, <2>1, <2>3
  <2> QED
    BY <2>4, <2>5
<1> QED
  BY <1>5, <1>7, <1>8, <1>9

\* The kinds of the items that are there do not change, and the list grows by
\* at most one.
\* An interval tells where it ends.
LEMMA SameLength == \A a, b \in Nat : 1..a = 1..b => a = b
<1> SUFFICES ASSUME NEW a \in Nat, NEW b \in Nat, 1..a = 1..b
             PROVE  a = b
  OBVIOUS
<1>1. \A n : n \in 1..a <=> n \in 1..b
  OBVIOUS
<1>2. a # 0 => a \in 1..b
  BY <1>1
<1>3. b # 0 => b \in 1..a
  BY <1>1
<1> QED
  BY <1>2, <1>3

LEMMA OrderTextDelta ==
  ASSUME AgreeInvariant, MixInvariant', NEW kind \in {"reasoning", "message"}, TextDelta(kind)
  PROVE  OrderSound'
<1> SUFFICES ASSUME SentInOrder'
             PROVE  OrderSound'
  BY DEF OrderSound
<1> DEFINE known == EnsureItem(kind)
           at == IF known THEN Len(items) ELSE Len(items) + 1
           old == Opened(known, kind, NoId)
           part == [part |-> kind]
           r == Few(PartsOf("reasoning"))
           t == r + Few(PartsOf("message"))
<1>1. /\ part \in Part /\ part.part = kind /\ part.part # "call"
      /\ sent' = Append(sent, part) /\ UNCHANGED toolByIndex
      /\ items' = Lengthened(old, at, Piece)
  BY DEF Part, TextDelta, Receive
<1>2. TypeOK /\ TypeOK' /\ items \in Seq(StreamItem) /\ items' \in Seq(StreamItem) /\ Piece \in Nat
  BY SentShape DEF AgreeInvariant, MixInvariant, StreamInvariant, TypeOK
<1>3. known \in BOOLEAN /\ kind \in Kinds /\ NoId \in CallIds \cup {NoId} \cup Nat
  BY DEF Kinds, EnsureItem
<1>4. /\ IF known THEN at \in DOMAIN items /\ items[at].kind = kind ELSE at = Len(items) + 1
      /\ DOMAIN items = 1..Len(items) /\ Len(items) \in Nat
      /\ at = IF known THEN Len(items) ELSE Len(items) + 1
      /\ known <=> Len(items) # 0 /\ items[Len(items)].kind = kind
  BY <1>2 DEF EnsureItem
<1> HIDE DEF part
<1>5. /\ SentInOrder /\ Indexes = {} /\ Indexes' = {}
      /\ kind = "reasoning" => PartsOf("message") = {}
      /\ \A k : PartsOf(k)' = IF k = kind THEN PartsOf(k) \cup {Piece} ELSE PartsOf(k)
  BY <1>1, <1>2, InOrderSoFar, OtherPart, PartsGrow
<1> HIDE DEF known, at
<1>6. Lengthening(known, kind, NoId, at, Piece)
  BY <1>2, <1>3, <1>4, Lengthens
<1>7. /\ DOMAIN items' = DOMAIN items \cup {at} /\ items'[at].kind = kind
      /\ \A m \in DOMAIN items \ {at} : items'[m] = items[m]
  BY <1>1, <1>6 DEF Lengthening
<1>8. Cardinality({}) = 0
  BY FS_EmptySet
<1>9. /\ Len(items) = t
      /\ PartsOf("reasoning") # {} => items[1].kind = "reasoning"
      /\ PartsOf("message") # {} => items[t].kind = "message"
  BY <1>5, <1>8 DEF AgreeInvariant, OrderSound, Few
<1>10. DOMAIN items' = 1..Len(items') /\ Len(items') \in Nat
  BY <1>2
<1> HIDE DEF old
<1>11. CASE kind = "reasoning"
  <2>1. /\ t = r /\ Few(PartsOf("reasoning")') = 1 /\ Few(PartsOf("message")') = 0
        /\ PartsOf("message")' = {}
    <3>1. PartsOf("message") = {} /\ PartsOf("message")' = {}
      BY <1>5, <1>11
    <3>2. PartsOf("reasoning")' # {}
      BY <1>5, <1>11
    <3> QED
      BY <3>1, <3>2 DEF Few
  <2>2. at = 1
    BY <1>4, <1>9, <1>11, <2>1 DEF Few
  <2>3. Len(items) \in {0, 1}
    BY <1>9, <2>1 DEF Few
  <2>4. Len(items') = 1 /\ items'[1].kind = "reasoning"
    BY <1>4, <1>7, <1>10, <1>11, <2>2, <2>3
  <2> QED
    BY <1>5, <1>8, <2>1, <2>4 DEF OrderSound
<1>12. CASE kind = "message"
  <2>1. /\ Few(PartsOf("message")') = 1 /\ Few(PartsOf("reasoning")') = r
        /\ PartsOf("reasoning")' = PartsOf("reasoning")
        /\ r \in {0, 1} /\ (PartsOf("reasoning") # {} <=> r = 1)
    BY <1>5, <1>12 DEF Few
  <2>2. /\ PartsOf("message") = {} => t = r
        /\ PartsOf("message") # {} => t = r + 1
    BY <2>1 DEF Few
  <2> HIDE DEF r, t
  <2>3. at = r + 1 /\ Len(items) \in {r, r + 1}
    <3>1. CASE PartsOf("message") = {}
      <4>1. Len(items) = r
        BY <1>9, <2>2, <3>1
      <4>2. ~known
        <5>1. r = 1 => items[1].kind = "reasoning"
          BY <1>9, <2>1
        <5> QED
          BY <1>4, <1>12, <2>1, <4>1, <5>1
      <4> QED
        BY <1>4, <4>1, <4>2
    <3>2. CASE PartsOf("message") # {}
      <4>1. Len(items) = r + 1 /\ items[r + 1].kind = "message"
        BY <1>9, <2>2, <3>2
      <4> QED
        BY <1>4, <1>12, <2>1, <4>1
    <3> QED
      BY <3>1, <3>2
  <2>4. Len(items') = r + 1 /\ items'[r + 1].kind = "message"
    <3>1. DOMAIN items' = 1..(r + 1)
      <4>1. DOMAIN items' = (1..Len(items)) \cup {r + 1} /\ r \in {0, 1}
        BY <1>4, <1>7, <2>1, <2>3
      <4> QED
        BY <2>3, <4>1
    <3>2. r + 1 \in Nat
      BY <2>1
    <3>3. Len(items') = r + 1
      BY <1>10, <3>1, <3>2, SameLength
    <3> QED
      BY <1>7, <1>12, <2>3, <3>3
  <2>5. r = 1 => items'[1].kind = "reasoning"
    BY <1>4, <1>7, <1>9, <2>1, <2>3
  <2> QED
    BY <1>5, <1>8, <2>1, <2>4, <2>5 DEF OrderSound
<1> QED
  BY <1>11, <1>12

LEMMA OrderCallFragment ==
  ASSUME AgreeInvariant, MixInvariant', NEW f \in Fragments, CallFragment(f)
  PROVE  OrderSound'
<1> SUFFICES ASSUME SentInOrder'
             PROVE  OrderSound'
  BY DEF OrderSound
<1> DEFINE i == IndexOf(f)
           at == CallPlace(i)
           known == i \in Indexes
           part == [part |-> "call", index |-> i, id |-> f.id, args |-> f.args]
           t == Few(PartsOf("reasoning")) + Few(PartsOf("message"))
<1>1. /\ i \in Nat /\ toolByIndex' = [j \in Indexes \cup {i} |-> IF j = i THEN at ELSE toolByIndex[j]]
      /\ sent' = Append(sent, part) /\ part \in Part
      /\ DOMAIN items' = DOMAIN items \cup {at} /\ (at \in DOMAIN items <=> known)
      /\ known => items[at].kind = "function_call" /\ at = toolByIndex[i]
      /\ ~known => at = Len(items) + 1
      /\ \A m \in DOMAIN items \ {at} : items'[m] = items[m]
      /\ items'[at].kind = "function_call"
  BY FragmentReaches DEF AgreeInvariant
<1>2. part.part = "call" /\ part.index = i
  OBVIOUS
<1>3. /\ TypeOK /\ TypeOK' /\ items \in Seq(StreamItem) /\ items' \in Seq(StreamItem)
      /\ MixInvariant
  BY DEF AgreeInvariant, MixInvariant, StreamInvariant, TypeOK
<1> HIDE DEF i, at, part
<1>4. /\ SentInOrder /\ Indexes' = Indexes \cup {i}
      /\ ~known => \A j \in Indexes : j < i
      /\ PartsOf("reasoning")' = PartsOf("reasoning") /\ PartsOf("message")' = PartsOf("message")
  BY <1>1, <1>2, <1>3, InOrderSoFar, CallPart, PartsGrow
<1>5. Indexes \in SUBSET Nat /\ IsFiniteSet(Indexes) /\ Cardinality(Indexes) \in Nat
  BY <1>3, IndexesShape
<1>6. /\ Len(items) = t + Cardinality(Indexes)
      /\ PartsOf("reasoning") # {} => items[1].kind = "reasoning"
      /\ PartsOf("message") # {} => items[t].kind = "message"
      /\ \A j \in Indexes : toolByIndex[j] = t + Rank(Indexes, j)
  BY <1>4 DEF AgreeInvariant, OrderSound
<1>7. /\ DOMAIN items = 1..Len(items) /\ Len(items) \in Nat
      /\ DOMAIN items' = 1..Len(items') /\ Len(items') \in Nat
  BY <1>3
<1>8. /\ t \in Nat
      /\ PartsOf("reasoning") # {} => t >= 1
      /\ PartsOf("message") # {} => t >= 1
  BY DEF Few
<1>9. t' = t
  BY <1>4
<1> HIDE DEF t
<1>10. \A m \in DOMAIN items : items'[m].kind = items[m].kind
  BY <1>1
<1>11. /\ PartsOf("reasoning")' # {} => items'[1].kind = "reasoning"
       /\ PartsOf("message")' # {} => items'[t].kind = "message"
  <2>1. t <= Len(items)
    BY <1>5, <1>6, <1>8
  <2> QED
    BY <1>4, <1>6, <1>7, <1>8, <1>10, <2>1
<1>12. CASE known
  <2>1. Indexes' = Indexes /\ DOMAIN items' = DOMAIN items
    BY <1>1, <1>4, <1>12
  <2>2. Len(items') = Len(items)
    BY <1>7, <2>1, SameLength
  <2>3. \A j \in Indexes' : toolByIndex'[j] = t + Rank(Indexes', j)
    BY <1>1, <1>6, <1>12, <2>1
  <2> QED
    BY <1>6, <1>9, <1>11, <2>1, <2>2, <2>3 DEF OrderSound, t
<1>13. CASE ~known
  <2>1. /\ Cardinality(Indexes') = Cardinality(Indexes) + 1
        /\ Rank(Indexes', i) = Cardinality(Indexes) + 1
        /\ \A j \in Indexes : Rank(Indexes', j) = Rank(Indexes, j)
    <3>1. \A j \in Indexes : j < i
      BY <1>4, <1>13
    <3>2. /\ Cardinality(Indexes \cup {i}) = Cardinality(Indexes) + 1
          /\ Rank(Indexes \cup {i}, i) = Cardinality(Indexes) + 1
          /\ \A j \in Indexes : Rank(Indexes \cup {i}, j) = Rank(Indexes, j)
      BY <1>1, <1>5, <3>1, RankOfGreatest
    <3> QED
      BY <1>4, <3>2
  <2>2. Len(items') = Len(items) + 1 /\ at = Len(items) + 1
    <3>1. DOMAIN items' = 1..(Len(items) + 1) /\ at = Len(items) + 1
      BY <1>1, <1>7, <1>13
    <3>2. Len(items) + 1 \in Nat
      BY <1>7
    <3> QED
      BY <1>7, <3>1, <3>2, SameLength
  <2>3. \A j \in Indexes' : toolByIndex'[j] = t + Rank(Indexes', j)
    <3>1. toolByIndex'[i] = Len(items) + 1
      BY <1>1, <2>2
    <3>2. toolByIndex'[i] = t + Rank(Indexes', i)
      BY <1>5, <1>6, <1>8, <2>1, <3>1
    <3>3. ASSUME NEW j \in Indexes
          PROVE  toolByIndex'[j] = t + Rank(Indexes', j)
      <4>1. j # i
        BY <1>13 DEF known
      <4>2. toolByIndex'[j] = toolByIndex[j]
        BY <1>1, <4>1
      <4> QED
        BY <1>6, <2>1, <4>2
    <3> QED
      BY <1>4, <3>2, <3>3
  <2> QED
    <3>1. Len(items') = t + Cardinality(Indexes')
      BY <1>5, <1>6, <1>8, <2>1, <2>2
    <3> QED
      BY <1>9, <1>11, <2>3, <3>1 DEF OrderSound, t
<1> QED
  BY <1>12, <1>13

LEMMA OrderUntouched ==
  ASSUME AgreeInvariant, TypeOK', UNCHANGED <<items, toolByIndex>>,
         \/ sent' = sent
         \/ \E part \in Part : sent' = Append(sent, part) /\ part.part \in {"finish", "usage"}
  PROVE  OrderSound'
<1>1. CASE sent' = sent
  <2>1. \A k : PartsOf(k)' = PartsOf(k)
    BY <1>1 DEF PartsOf
  <2>2. /\ CallParts' = CallParts /\ Indexes' = Indexes
        /\ \A i : FirstPart(i)' = FirstPart(i)
    BY <1>1, <2>1 DEF CallParts, Indexes, FirstPart
  <2>3. SentInOrder' = SentInOrder
    BY <1>1, <2>2 DEF SentInOrder
  <2> QED
    BY <2>1, <2>2, <2>3 DEF AgreeInvariant, OrderSound
<1>2. ASSUME NEW part \in Part, sent' = Append(sent, part), part.part \in {"finish", "usage"}
      PROVE  OrderSound'
  <2>1. TypeOK
    BY DEF AgreeInvariant, MixInvariant, StreamInvariant
  <2>2. /\ SentInOrder' => SentInOrder
        /\ PartsOf("reasoning")' = PartsOf("reasoning") /\ PartsOf("message")' = PartsOf("message")
        /\ Indexes' = Indexes
    BY <1>2, <2>1, InOrderSoFar, OtherPart, PartsGrow
  <2> QED
    BY <2>2 DEF AgreeInvariant, OrderSound
<1> QED
  BY <1>1, <1>2

LEMMA UsageShape ==
  ASSUME TypeOK
  PROVE  UsageSent \subseteq UsageReports
<1>1. sent \in Seq(Part)
  BY DEF TypeOK
<1>2. ASSUME NEW n \in PartsOf("usage")
      PROVE  sent[n].usage \in UsageReports
  <2>1. sent[n] \in Part /\ sent[n].part = "usage"
    BY <1>1, <1>2 DEF PartsOf
  <2> QED
    BY <2>1 DEF Part
<1> QED
  BY <1>2, Zenon DEF UsageSent

\* A part that is no report leaves the reports as they are.
LEMMA UsageSentStays ==
  ASSUME TypeOK,
         \/ sent' = sent
         \/ \E part \in Part : sent' = Append(sent, part) /\ part.part # "usage"
  PROVE  UsageSent' = UsageSent
<1>1. CASE sent' = sent
  BY <1>1 DEF UsageSent, PartsOf
<1>2. ASSUME NEW part \in Part, sent' = Append(sent, part), part.part # "usage"
      PROVE  UsageSent' = UsageSent
  <2>1. /\ \A n \in DOMAIN sent : sent'[n] = sent[n]
        /\ PartsOf("usage")' = PartsOf("usage") /\ PartsOf("usage") \subseteq DOMAIN sent
    BY <1>2, PartsGrow DEF PartsOf
  <2> QED
    BY <2>1 DEF UsageSent
<1> QED
  BY <1>1, <1>2

LEMMA UsageUntouched ==
  ASSUME TypeOK, UsageSound, usage' = usage,
         \/ sent' = sent
         \/ \E part \in Part : sent' = Append(sent, part) /\ part.part # "usage"
  PROVE  UsageSound'
<1>1. UsageSent' = UsageSent
  BY UsageSentStays
<1> QED
  BY <1>1 DEF UsageSound, SteadyUsage

\* A report that counts the same prompt replaces the usage so far, or leaves it.
LEMMA UsageReported ==
  ASSUME TypeOK, UsageSound, NEW u \in Usages, UsageReport(u)
  PROVE  UsageSound'
<1> DEFINE part == [part |-> "usage", usage |-> u]
<1>1. u \in UsageReports /\ usage \in UsageRecord
  BY DEF TypeOK, UsageReports, StreamAssumption
<1>2. part \in Part /\ part.part = "usage" /\ part.usage = u /\ sent' = Append(sent, part)
  BY <1>1 DEF Part, UsageReport, Receive
<1> HIDE DEF part
<1>3. UsageSent' = UsageSent \cup {u}
  <2>1. /\ \A n \in DOMAIN sent : sent'[n] = sent[n]
        /\ sent'[Piece] = part
        /\ PartsOf("usage")' = PartsOf("usage") \cup {Piece}
        /\ PartsOf("usage") \subseteq DOMAIN sent
    BY <1>2, PartsGrow DEF PartsOf
  <2>2. UsageSent' = {sent'[n].usage : n \in PartsOf("usage") \cup {Piece}}
    BY <2>1 DEF UsageSent
  <2>3. \A n \in PartsOf("usage") : sent'[n].usage = sent[n].usage
    BY <2>1
  <2>4. sent'[Piece].usage = u
    BY <1>2, <2>1
  <2> QED
    BY <2>2, <2>3, <2>4, Zenon DEF UsageSent
<1> SUFFICES ASSUME SteadyUsage'
             PROVE  \E w \in UsageSent' :
                      usage' = KeptOf(w) /\ \A v \in UsageSent' : v.completion <= w.completion
  BY <1>3 DEF UsageSound
<1>4. /\ SteadyUsage /\ u.prompt > 0
      /\ \A v \in UsageSent : v.prompt = u.prompt /\ v.cached = u.cached
  BY <1>3 DEF SteadyUsage
<1>5. usage' = [prompt |-> u.prompt, cached |-> u.cached,
                completion |-> IF u.completion > usage.completion THEN u.completion
                               ELSE usage.completion]
  BY <1>4 DEF UsageReport
<1>6. u.completion \in Nat /\ \A v \in UsageSent : v.completion \in Nat
  BY <1>1, UsageShape DEF UsageReports
<1>7. CASE UsageSent = {}
  <2>1. usage.completion = 0
    BY <1>4, <1>7 DEF UsageSound, NoUsage
  <2>2. (IF u.completion > usage.completion THEN u.completion ELSE usage.completion) = u.completion
    BY <1>6, <2>1
  <2>3. usage' = KeptOf(u)
    BY <1>5, <2>2 DEF KeptOf
  <2> QED
    BY <1>3, <1>6, <1>7, <2>3
<1>8. CASE UsageSent # {}
  <2>1. PICK w \in UsageSent :
          usage = KeptOf(w) /\ \A v \in UsageSent : v.completion <= w.completion
    BY <1>4, <1>8 DEF UsageSound
  <2>2. usage.completion = w.completion /\ w.prompt = u.prompt /\ w.cached = u.cached
    BY <1>4, <2>1 DEF KeptOf
  <2>3. CASE u.completion > w.completion
    <3>1. usage' = KeptOf(u)
      BY <1>5, <2>2, <2>3 DEF KeptOf
    <3>2. \A v \in UsageSent' : v.completion <= u.completion
      BY <1>3, <1>6, <2>1, <2>3
    <3> QED
      BY <1>3, <3>1, <3>2
  <2>4. CASE ~(u.completion > w.completion)
    <3>1. usage' = KeptOf(w)
      BY <1>5, <2>2, <2>4 DEF KeptOf
    <3>2. \A v \in UsageSent' : v.completion <= w.completion
      BY <1>3, <1>6, <2>1, <2>4
    <3> QED
      BY <1>3, <3>1, <3>2
  <2> QED
    BY <2>3, <2>4
<1> QED
  BY <1>7, <1>8

LEMMA AgreeInvariantHolds == Spec => []AgreeInvariant
<1>1. Init => AgreeInvariant
  <2> SUFFICES ASSUME Init PROVE AgreeInvariant
    OBVIOUS
  <2>1. sent = <<>> /\ items = <<>> /\ toolByIndex = <<>> /\ usage = NoUsage
        /\ client.over = FALSE
    BY DEF Init, NewClient, NoUsage
  <2>2. (\A kind : PartsOf(kind) = {}) /\ Indexes = {} /\ UsageSent = {}
    BY <2>1 DEF PartsOf, Indexes, CallParts, UsageSent
  <2>3. Cardinality({}) = 0 /\ Len(items) = 0
    BY <2>1, FS_EmptySet
  <2>4. OrderSound
    BY <2>2, <2>3 DEF OrderSound, Few
  <2> QED
    BY <2>1, <2>2, <2>4, MixInvariantInit DEF AgreeInvariant, UsageSound, StatusSound
<1>2. MixInvariant' /\ AgreeInvariant /\ [Next]_vars => AgreeInvariant'
  <2> SUFFICES ASSUME MixInvariant', AgreeInvariant, [Next]_vars PROVE AgreeInvariant'
    OBVIOUS
  <2>1. /\ TypeOK /\ TypeOK' /\ MixInvariant /\ UsageSound /\ StatusSound
        /\ (client.over <=> phase = "over")
        /\ (client'.over <=> phase' = "over")
    BY DEF AgreeInvariant, MixInvariant, StreamInvariant, ClientInStep
  <2> SUFFICES OrderSound' /\ UsageSound' /\ StatusSound'
    BY DEF AgreeInvariant
  <2>2. ASSUME NEW kind \in {"reasoning", "message"}, TextDelta(kind)
        PROVE  OrderSound' /\ UsageSound' /\ StatusSound'
    <3>1. [part |-> kind] \in Part /\ [part |-> kind].part # "usage"
      BY DEF Part
    <3>2. sent' = Append(sent, [part |-> kind]) /\ usage' = usage /\ phase' = "reading"
      BY <2>2 DEF TextDelta, Receive
    <3>3. UsageSound'
      BY <2>1, <3>1, <3>2, UsageUntouched
    <3> QED
      BY <2>1, <2>2, <3>2, <3>3, OrderTextDelta DEF StatusSound
  <2>3. ASSUME NEW f \in Fragments, CallFragment(f)
        PROVE  OrderSound' /\ UsageSound' /\ StatusSound'
    <3> DEFINE part == [part |-> "call", index |-> IndexOf(f), id |-> f.id, args |-> f.args]
    <3>1. part \in Part /\ part.part # "usage"
      BY <2>1, <2>3, FragmentReaches
    <3>2. sent' = Append(sent, part) /\ usage' = usage /\ phase' = "reading"
      BY <2>3 DEF CallFragment, Receive
    <3> HIDE DEF part
    <3>3. UsageSound'
      BY <2>1, <3>1, <3>2, UsageUntouched
    <3> QED
      BY <2>1, <2>3, <3>2, <3>3, OrderCallFragment DEF StatusSound
  <2>4. ASSUME NEW reason \in {"stop", "length"}, FinishReason(reason)
        PROVE  OrderSound' /\ UsageSound' /\ StatusSound'
    <3> DEFINE part == [part |-> "finish", reason |-> reason]
    <3>1. part \in Part /\ part.part = "finish"
      BY DEF Part
    <3>2. /\ sent' = Append(sent, part) /\ usage' = usage /\ phase' = "reading"
          /\ UNCHANGED <<items, toolByIndex>>
      BY <2>4 DEF FinishReason, Receive
    <3> HIDE DEF part
    <3>3. UsageSound'
      BY <2>1, <3>1, <3>2, UsageUntouched
    <3>4. OrderSound'
      BY <2>1, <3>1, <3>2, OrderUntouched
    <3> QED
      BY <2>1, <3>2, <3>3, <3>4 DEF StatusSound
  <2>5. ASSUME NEW u \in Usages, UsageReport(u)
        PROVE  OrderSound' /\ UsageSound' /\ StatusSound'
    <3> DEFINE part == [part |-> "usage", usage |-> u]
    <3>1. part \in Part /\ part.part = "usage"
      BY DEF Part, StreamAssumption, UsageReports
    <3>2. /\ sent' = Append(sent, part) /\ phase' = "reading"
          /\ UNCHANGED <<items, toolByIndex>>
      BY <2>5 DEF UsageReport, Receive
    <3> HIDE DEF part
    <3>3. UsageSound'
      BY <2>1, <2>5, UsageReported
    <3>4. OrderSound'
      BY <2>1, <3>1, <3>2, OrderUntouched
    <3> QED
      BY <2>1, <3>2, <3>3, <3>4 DEF StatusSound
  <2>6. ASSUME UNCHANGED <<items, toolByIndex, sent, usage>>
        PROVE  OrderSound' /\ UsageSound'
    BY <2>1, <2>6, OrderUntouched, UsageUntouched
  <2>7. CASE ReadToEnd \/ BreakOff \/ CloseItem
    <3>1. phase' = "closing" /\ UNCHANGED <<items, toolByIndex, sent, usage>>
      BY <2>7 DEF ReadToEnd, BreakOff, CloseItem
    <3> QED
      BY <2>1, <2>6, <3>1 DEF StatusSound
  <2>8. CASE Complete
    <3>1. /\ UNCHANGED <<items, toolByIndex, sent, usage, finishReason, upstreamErr>>
          /\ client' = ToldOfEnd(client, items, Status, FinalUsage)
      BY <2>8 DEF Complete
    <3>2. Status' = Status /\ FinalUsage' = FinalUsage
      BY <3>1 DEF Status, FinalUsage
    <3>3. client'.status = Status /\ client'.usage = {FinalUsage}
      BY <2>1, <3>1 DEF ToldOfEnd, TypeOK, ClientRecord
    <3> QED
      BY <2>6, <3>1, <3>2, <3>3 DEF StatusSound
  <2>9. CASE UNCHANGED vars
    <3>1. UNCHANGED <<items, toolByIndex, sent, usage, finishReason, upstreamErr, client>>
      BY <2>9 DEF vars
    <3> QED
      BY <2>1, <2>6, <3>1 DEF StatusSound, Status, FinalUsage
  <2> QED
    BY <2>2, <2>3, <2>4, <2>5, <2>7, <2>8, <2>9 DEF Next
<1> QED
  BY <1>1, <1>2, MixInvariantHolds, PTL DEF Spec

LEMMA FewShape ==
  ASSUME NEW S
  PROVE  Few(S) \in {0, 1} /\ (Few(S) = 1 <=> S # {}) /\ (Few(S) = 0 <=> S = {})
  BY DEF Few

LEMMA EmptyInOrder ==
  ASSUME TypeOK, NEW kind
  PROVE  InOrder(PartsOf(kind)) = <<>> <=> PartsOf(kind) = {}
<1>1. PartsOf(kind) \in SUBSET Nat /\ IsFiniteSet(PartsOf(kind))
  BY PartsShape
<1>2. /\ ToSet(InOrder(PartsOf(kind))) = PartsOf(kind) /\ InOrder(PartsOf(kind)) \in Seq(PartsOf(kind))
  BY <1>1, InOrderShape
<1>3. ToSet(<<>>) = {}
  BY DEF ToSet
<1> QED
  BY <1>2, <1>3, InOrderEmpty

\* The only item of a kind holds all of its text.
LEMMA OnlyItem ==
  ASSUME NEW kind, NEW n, TextSound(kind), Own(kind) = {n}
  PROVE  items[n].text = InOrder(PartsOf(kind))
<1>1. ToSet(items[n].text) \subseteq PartsOf(kind) /\ items[n].text = InOrder(ToSet(items[n].text))
  BY DEF TextSound
<1>2. PartsOf(kind) \subseteq ToSet(items[n].text)
  BY DEF TextSound
<1>3. PartsOf(kind) = ToSet(items[n].text)
  BY <1>1, <1>2
<1> QED
  BY <1>1, <1>3

\* The items of an answer that came in the usual order.
LEMMA ItemsInOrder ==
  ASSUME AgreeInvariant, SentInOrder
  PROVE  LET t == Few(PartsOf("reasoning")) + Few(PartsOf("message")) IN
         /\ Len(items) = t + Cardinality(Indexes)
         /\ PartsOf("reasoning") # {} =>
              items[1].kind = "reasoning" /\ items[1].text = InOrder(PartsOf("reasoning"))
         /\ PartsOf("message") # {} =>
              items[t].kind = "message" /\ items[t].text = InOrder(PartsOf("message"))
         /\ \A m \in 1..Cardinality(Indexes) :
              LET i == Nth(Indexes, m)
                  it == items[t + m]
              IN  /\ it.kind = "function_call" /\ it.text = InOrder(ArgParts(i))
                  /\ IdSent(i) # NoId => it.call = IdSent(i)
<1> DEFINE r == Few(PartsOf("reasoning"))
           t == r + Few(PartsOf("message"))
<1>1. /\ Len(items) = t + Cardinality(Indexes)
      /\ PartsOf("reasoning") # {} => items[1].kind = "reasoning"
      /\ PartsOf("message") # {} => items[t].kind = "message"
      /\ \A i \in Indexes : toolByIndex[i] = t + Rank(Indexes, i)
  BY DEF AgreeInvariant, OrderSound
<1>2. /\ r \in {0, 1} /\ t \in {r, r + 1}
      /\ PartsOf("reasoning") # {} <=> r = 1
      /\ PartsOf("message") # {} <=> t = r + 1
  <2>1. Few(PartsOf("message")) \in {0, 1} /\ (PartsOf("message") # {} <=> Few(PartsOf("message")) = 1)
    BY FewShape
  <2>2. r \in {0, 1} /\ (PartsOf("reasoning") # {} <=> r = 1)
    BY FewShape
  <2> HIDE DEF r
  <2> QED
    BY <2>1, <2>2
<1>3. MixInvariant /\ TextSound("reasoning") /\ TextSound("message") /\ CallSound /\ TypeOK
  BY DEF AgreeInvariant, MixInvariant, StreamInvariant
<1>4. Indexes \in SUBSET Nat /\ IsFiniteSet(Indexes) /\ Cardinality(Indexes) \in Nat
  BY <1>3, IndexesShape
<1>5. DOMAIN items = 1..Len(items)
  BY <1>3 DEF TypeOK
<1> HIDE DEF r, t
<1>6. ASSUME NEW m \in 1..Cardinality(Indexes)
      PROVE  Nth(Indexes, m) \in Indexes /\ toolByIndex[Nth(Indexes, m)] = t + m
  <2>1. Nth(Indexes, m) \in Indexes /\ Rank(Indexes, Nth(Indexes, m)) = m
    BY <1>4, NthInKeep
  <2> QED
    BY <1>1, <2>1
<1>7. ASSUME NEW m \in 1..Cardinality(Indexes)
      PROVE  LET i == Nth(Indexes, m)
                 it == items[t + m]
             IN  /\ it.kind = "function_call" /\ it.text = InOrder(ArgParts(i))
                 /\ IdSent(i) # NoId => it.call = IdSent(i)
  <2>1. Nth(Indexes, m) \in Indexes /\ toolByIndex[Nth(Indexes, m)] = t + m
    BY <1>6
  <2> QED
    BY <1>3, <2>1 DEF CallSound, Own
<1>8. \A n \in DOMAIN items : n > t => items[n].kind = "function_call"
  <2> SUFFICES ASSUME NEW n \in DOMAIN items, n > t
               PROVE  items[n].kind = "function_call"
    OBVIOUS
  <2>1. n - t \in 1..Cardinality(Indexes) /\ t + (n - t) = n
    BY <1>1, <1>2, <1>4, <1>5
  <2> QED
    BY <1>7, <2>1
<1>9. ASSUME PartsOf("reasoning") # {}
      PROVE  items[1].kind = "reasoning" /\ items[1].text = InOrder(PartsOf("reasoning"))
  <2>1. r = 1 /\ 1 \in DOMAIN items /\ items[1].kind = "reasoning"
    BY <1>1, <1>2, <1>4, <1>5, <1>9
  <2>2. ASSUME NEW n \in Own("reasoning")
        PROVE  n = 1
    <3>1. n \in DOMAIN items /\ items[n].kind = "reasoning"
      BY <2>2 DEF Own
    <3>2. n <= t /\ n \in 1..Len(items)
      BY <1>2, <1>5, <1>8, <3>1
    <3>3. t = r + 1 => items[t].kind = "message"
      BY <1>1, <1>2
    <3> QED
      BY <1>2, <2>1, <3>1, <3>2, <3>3
  <2>3. Own("reasoning") = {1}
    BY <2>1, <2>2 DEF Own
  <2> QED
    BY <1>3, <2>1, <2>3, OnlyItem
<1>10. ASSUME PartsOf("message") # {}
       PROVE  items[t].kind = "message" /\ items[t].text = InOrder(PartsOf("message"))
  <2>1. t = r + 1 /\ t \in DOMAIN items /\ items[t].kind = "message"
    BY <1>1, <1>2, <1>4, <1>5, <1>10
  <2>2. ASSUME NEW n \in Own("message")
        PROVE  n = t
    <3>1. n \in DOMAIN items /\ items[n].kind = "message"
      BY <2>2 DEF Own
    <3>2. n <= t /\ n \in 1..Len(items)
      BY <1>2, <1>5, <1>8, <3>1
    <3>3. r = 1 => items[1].kind = "reasoning"
      BY <1>1, <1>2
    <3> QED
      BY <1>2, <2>1, <3>1, <3>2, <3>3
  <2>3. Own("message") = {t}
    BY <2>1, <2>2 DEF Own
  <2> QED
    BY <1>3, <2>1, <2>3, OnlyItem
<1> QED
  BY <1>1, <1>7, <1>9, <1>10 DEF t, r

\* The role of an item that is no message.
NoRole == ""

LEMMA OutputShape ==
  ASSUME MixInvariant
  PROVE  LET t == Few(PartsOf("reasoning")) + Few(PartsOf("message"))
             json == OutputOf(Whole)
         IN
         /\ DOMAIN json = 1..(t + Cardinality(Indexes)) /\ Len(json) = t + Cardinality(Indexes)
         /\ PartsOf("reasoning") # {} =>
              json[1] = Item("reasoning", NoRole, -1, NoId, InOrder(PartsOf("reasoning")))
         /\ PartsOf("message") # {} =>
              json[t] = Item("message", "assistant", -2, NoId, InOrder(PartsOf("message")))
         /\ \A m \in 1..Cardinality(Indexes) :
              LET i == Nth(Indexes, m) IN
              json[t + m] = Item("function_call", NoRole, -2 - m, IdSent(i), InOrder(ArgParts(i)))
<1> DEFINE a == Item("reasoning", NoRole, -1, NoId, InOrder(PartsOf("reasoning")))
           b == Item("message", "assistant", -2, NoId, InOrder(PartsOf("message")))
           c(m) == Item("function_call", NoRole, -2 - m, IdSent(Nth(Indexes, m)),
                        InOrder(ArgParts(Nth(Indexes, m))))
           k == Cardinality(Indexes)
           A == IF PartsOf("reasoning") = {} THEN <<>> ELSE <<a>>
           B == IF PartsOf("message") = {} THEN <<>> ELSE <<b>>
           C == [m \in 1..k |-> c(m)]
           X == {a, b} \cup {c(m) : m \in 1..k}
<1>1. k \in Nat
  BY IndexesShape
<1>2. OutputOf(Whole) = A \o B \o C
  <2>1. /\ InOrder(PartsOf("reasoning")) = <<>> <=> PartsOf("reasoning") = {}
        /\ InOrder(PartsOf("message")) = <<>> <=> PartsOf("message") = {}
    BY EmptyInOrder DEF MixInvariant, StreamInvariant
  <2>2. Whole.reasoning = InOrder(PartsOf("reasoning")) /\ Whole.text = InOrder(PartsOf("message"))
    BY DEF Whole
  <2>3. /\ DOMAIN Whole.calls = 1..k
        /\ \A m \in 1..k : /\ Whole.calls[m].id = IdSent(Nth(Indexes, m))
                           /\ Whole.calls[m].text = InOrder(ArgParts(Nth(Indexes, m)))
    BY DEF Whole
  <2>4. [m \in DOMAIN Whole.calls |->
           Item("function_call", NoRole, -2 - m, Whole.calls[m].id, Whole.calls[m].text)] = C
    BY <2>3
  <2> QED
    BY <2>1, <2>2, <2>4 DEF OutputOf, NoRole
<1>3. /\ A \in Seq(X) /\ Len(A) = Few(PartsOf("reasoning")) /\ (PartsOf("reasoning") # {} => A[1] = a)
      /\ B \in Seq(X) /\ Len(B) = Few(PartsOf("message")) /\ (PartsOf("message") # {} => B[1] = b)
  <2> HIDE DEF a, b, c, k
  <2>1. <<>> \in Seq(X) /\ <<a>> \in Seq(X) /\ <<b>> \in Seq(X)
    OBVIOUS
  <2> HIDE DEF X
  <2> QED
    BY <2>1 DEF Few
<1>4. C \in Seq(X) /\ Len(C) = k /\ \A m \in 1..k : C[m] = c(m)
  <2> HIDE DEF a, b, c, k
  <2>1. \A m \in 1..k : c(m) \in X
    OBVIOUS
  <2> HIDE DEF X
  <2>2. C \in [1..k -> X]
    BY <2>1
  <2> QED
    BY <1>1, <2>2
<1>5. /\ Few(PartsOf("reasoning")) \in {0, 1}
      /\ Few(PartsOf("reasoning")) = 1 <=> PartsOf("reasoning") # {}
      /\ Few(PartsOf("message")) \in {0, 1}
      /\ Few(PartsOf("message")) = 1 <=> PartsOf("message") # {}
  BY FewShape
<1> DEFINE r == Few(PartsOf("reasoning"))
           s == Few(PartsOf("message"))
<1> HIDE DEF a, b, c, k, A, B, C, X, r, s
<1>6. A \in Seq(X) /\ B \in Seq(X) /\ C \in Seq(X) /\ Len(A) = r /\ Len(B) = s /\ Len(C) = k
      /\ r \in {0, 1} /\ s \in {0, 1} /\ k \in Nat
  BY <1>1, <1>3, <1>4, <1>5 DEF r, s
<1>7. /\ A \o B \o C \in Seq(X) /\ Len(A \o B \o C) = (r + s) + k
      /\ r = 1 => (A \o B \o C)[1] = A[1]
      /\ s = 1 => (A \o B \o C)[r + s] = B[1]
      /\ \A m \in 1..k : (A \o B \o C)[(r + s) + m] = C[m]
  <2>1. /\ A \o B \in Seq(X) /\ Len(A \o B) = r + s
        /\ r = 1 => (A \o B)[1] = A[1]
        /\ s = 1 => (A \o B)[r + s] = B[1]
    BY <1>6
  <2> DEFINE D == A \o B
  <2> HIDE DEF D
  <2>2. /\ D \in Seq(X) /\ Len(D) = r + s
        /\ r = 1 => D[1] = A[1]
        /\ s = 1 => D[r + s] = B[1]
    BY <2>1 DEF D
  <2>3. /\ D \o C \in Seq(X) /\ Len(D \o C) = (r + s) + k
        /\ \A n \in 1..(r + s) : (D \o C)[n] = D[n]
        /\ \A m \in 1..k : (D \o C)[(r + s) + m] = C[m]
    BY <1>6, <2>2
  <2>4. (r = 1 => 1 \in 1..(r + s)) /\ (s = 1 => r + s \in 1..(r + s))
    BY <1>6
  <2>5. (r = 1 => (D \o C)[1] = A[1]) /\ (s = 1 => (D \o C)[r + s] = B[1])
    BY <2>2, <2>3, <2>4
  <2> QED
    BY <2>3, <2>5 DEF D
<1>8. DOMAIN (A \o B \o C) = 1..((r + s) + k)
  <2> DEFINE D == A \o B \o C
  <2> HIDE DEF D
  <2>1. D \in Seq(X) /\ Len(D) = (r + s) + k
    BY <1>7 DEF D
  <2>2. DOMAIN D = 1..((r + s) + k)
    BY <2>1
  <2> QED
    BY <2>2 DEF D
<1>9. /\ PartsOf("reasoning") # {} => OutputOf(Whole)[1] = a
      /\ PartsOf("message") # {} => OutputOf(Whole)[r + s] = b
      /\ \A m \in 1..k : OutputOf(Whole)[(r + s) + m] = c(m)
  BY <1>2, <1>3, <1>4, <1>5, <1>7 DEF r, s
<1> QED
  BY <1>2, <1>7, <1>8, <1>9 DEF a, b, c, k, r, s

LEMMA ItemFields ==
  ASSUME NEW kind, NEW role, NEW id, NEW call, NEW text
  PROVE  LET it == Item(kind, role, id, call, text)
         IN  it.kind = kind /\ it.text = text /\ it.call = call
  BY DEF Item

LEMMA TokensOfOne ==
  ASSUME NEW u
  PROVE  TokensIn({u}) = [input |-> u.input, output |-> u.output,
                          cached |-> IF u.cached = {} THEN 0 ELSE CHOOSE n \in u.cached : TRUE]
<1>1. (CHOOSE x \in {u} : TRUE) = u
  OBVIOUS
<1>2. UNION {x.cached : x \in {u}} = u.cached
  OBVIOUS
<1> QED
  BY <1>1, <1>2 DEF TokensIn

\* The usage that ends a stream counts the tokens of the whole answer's.
LEMMA WholeUsageAgrees ==
  ASSUME TypeOK, UsageSound, SteadyUsage, NEW json,
         json = ChatToResponses(Whole, finishReason, WholeUsage)
  PROVE  /\ TokensIn({FinalUsage}) = TokensIn(json.usage)
         /\ \A v \in json.usage : v.total = v.input + v.output => FinalUsage.total = v.total
<1> DEFINE total(u) == IF u.total = 0 THEN u.prompt + u.completion ELSE u.total
<1>1. json.usage = {ResponsesUsage(u.prompt, u.completion, total(u), {u.cached} \ {0}) :
                     u \in WholeUsage}
  BY DEF ChatToResponses
<1> HIDE DEF total
<1>2. /\ FinalUsage.input = usage.prompt /\ FinalUsage.output = usage.completion
      /\ FinalUsage.total = usage.prompt + usage.completion
      /\ FinalUsage.cached = {usage.cached}
  BY DEF FinalUsage, ResponsesUsage
<1>3. (CHOOSE n \in {usage.cached} : TRUE) = usage.cached
  OBVIOUS
<1>4. TokensIn({FinalUsage}) = [input |-> usage.prompt, output |-> usage.completion,
                                cached |-> usage.cached]
  BY <1>2, <1>3, TokensOfOne
<1>5. CASE UsageSent = {}
  <2>1. usage.prompt = 0 /\ usage.completion = 0 /\ usage.cached = 0 /\ WholeUsage = {}
    BY <1>5 DEF UsageSound, WholeUsage, NoUsage
  <2>2. json.usage = {}
    BY <1>1, <2>1
  <2>3. TokensIn({}) = [input |-> 0, output |-> 0, cached |-> 0]
    <3>1. UNION {u.cached : u \in {}} = {}
      OBVIOUS
    <3> QED
      BY <3>1 DEF TokensIn
  <2> QED
    BY <1>4, <2>1, <2>2, <2>3
<1>6. CASE UsageSent # {}
  <2> DEFINE w == CHOOSE v \in UsageSent : \A x \in UsageSent : x.completion <= v.completion
  <2>1. PICK u \in UsageSent :
          usage = KeptOf(u) /\ \A v \in UsageSent : v.completion <= u.completion
    BY <1>6 DEF UsageSound
  <2>2. w \in UsageSent /\ \A x \in UsageSent : x.completion <= w.completion
    BY <2>1
  <2>3. WholeUsage = {w}
    BY <1>6 DEF WholeUsage
  <2> HIDE DEF w
  <2>4. /\ u.completion \in Nat /\ w.completion \in Nat /\ w.cached \in Nat
        /\ w.prompt \in Nat
    BY <2>1, <2>2, UsageShape DEF UsageReports
  <2>5. w.completion = u.completion
    BY <2>1, <2>2, <2>4
  <2>6. w.prompt = u.prompt /\ w.cached = u.cached
    BY <2>1, <2>2 DEF SteadyUsage
  <2>7. usage.prompt = w.prompt /\ usage.completion = w.completion /\ usage.cached = w.cached
    BY <2>1, <2>5, <2>6 DEF KeptOf
  <2> DEFINE v == ResponsesUsage(w.prompt, w.completion, total(w), {w.cached} \ {0})
  <2>8. json.usage = {v}
    BY <1>1, <2>3
  <2>9. v.input = w.prompt /\ v.output = w.completion /\ v.cached = {w.cached} \ {0}
    BY DEF ResponsesUsage
  <2>10. (IF v.cached = {} THEN 0 ELSE CHOOSE n \in v.cached : TRUE) = w.cached
    <3>1. CASE w.cached = 0
      <4>1. v.cached = {}
        BY <2>9, <3>1
      <4> QED
        BY <3>1, <4>1
    <3>2. CASE w.cached # 0
      <4>1. v.cached = {w.cached}
        BY <2>9, <3>2
      <4> QED
        BY <4>1
    <3> QED
      BY <3>1, <3>2
  <2> HIDE DEF v
  <2>11. TokensIn({v}) = [input |-> w.prompt, output |-> w.completion, cached |-> w.cached]
    BY <2>9, <2>10, TokensOfOne
  <2> QED
    BY <1>2, <1>4, <2>7, <2>8, <2>9, <2>11
<1> QED
  BY <1>5, <1>6

\* An answer that comes in the usual order gives a client the output, the status
\* and the numbers of tokens that the conversion of the whole answer would have
\* given it, with the same total if that is the sum.
THEOREM StreamAlwaysAgreesWithJson == Spec => []StreamAgreesWithJson
<1>1. AgreeInvariant => StreamAgreesWithJson
  <2> SUFFICES ASSUME AgreeInvariant, client.over, ~upstreamErr, SentInOrder
               PROVE  LET json == ChatToResponses(Whole, finishReason, WholeUsage) IN
                      /\ Len(client.output) = Len(json.output)
                      /\ \A n \in DOMAIN json.output :
                           /\ client.output[n].kind = json.output[n].kind
                           /\ client.output[n].text = json.output[n].text
                           /\ json.output[n].call # NoId => client.output[n].call = json.output[n].call
                      /\ client.status = json.status
                      /\ SteadyUsage =>
                           /\ TokensIn(client.usage) = TokensIn(json.usage)
                           /\ \A u \in client.usage, v \in json.usage :
                                v.total = v.input + v.output => u.total = v.total
    BY DEF StreamAgreesWithJson
  <2>1. /\ TypeOK /\ MixInvariant /\ UsageSound /\ StatusSound /\ client.output = items
        /\ Indexes \in SUBSET Nat /\ Cardinality(Indexes) \in Nat
    BY IndexesShape DEF AgreeInvariant, MixInvariant, StreamInvariant, ClientInStep
  <2> DEFINE json == ChatToResponses(Whole, finishReason, WholeUsage)
             out == OutputOf(Whole)
             r == Few(PartsOf("reasoning"))
             s == Few(PartsOf("message"))
             t == r + s
             k == Cardinality(Indexes)
  <2>2. /\ json.output = out
        /\ json.status = IF finishReason = "length" THEN "incomplete" ELSE "completed"
    BY DEF ChatToResponses
  <2>3. client.status = json.status
    BY <2>1, <2>2 DEF StatusSound, Status
  <2>4. SteadyUsage =>
          /\ TokensIn(client.usage) = TokensIn(json.usage)
          /\ \A u \in client.usage, v \in json.usage :
               v.total = v.input + v.output => u.total = v.total
    <3>1. client.usage = {FinalUsage}
      BY <2>1 DEF StatusSound
    <3> HIDE DEF json
    <3>2. json = ChatToResponses(Whole, finishReason, WholeUsage)
      BY DEF json
    <3> QED
      BY <2>1, <3>1, <3>2, WholeUsageAgrees
  <2>5. /\ DOMAIN out = 1..(t + k) /\ Len(out) = t + k
        /\ PartsOf("reasoning") # {} =>
              out[1] = Item("reasoning", NoRole, -1, NoId, InOrder(PartsOf("reasoning")))
        /\ PartsOf("message") # {} =>
              out[t] = Item("message", "assistant", -2, NoId, InOrder(PartsOf("message")))
        /\ \A m \in 1..k :
              LET i == Nth(Indexes, m) IN
              out[t + m] = Item("function_call", NoRole, -2 - m, IdSent(i), InOrder(ArgParts(i)))
    BY <2>1, OutputShape
  <2>6. /\ Len(items) = t + k
        /\ PartsOf("reasoning") # {} =>
              items[1].kind = "reasoning" /\ items[1].text = InOrder(PartsOf("reasoning"))
        /\ PartsOf("message") # {} =>
              items[t].kind = "message" /\ items[t].text = InOrder(PartsOf("message"))
        /\ \A m \in 1..k :
              LET i == Nth(Indexes, m)
                  it == items[t + m]
              IN  /\ it.kind = "function_call" /\ it.text = InOrder(ArgParts(i))
                  /\ IdSent(i) # NoId => it.call = IdSent(i)
    BY ItemsInOrder
  <2>7. /\ r \in {0, 1} /\ (r = 1 <=> PartsOf("reasoning") # {})
        /\ s \in {0, 1} /\ (s = 1 <=> PartsOf("message") # {})
    BY FewShape
  <2> HIDE DEF json, out, r, s, k
  <2>8. ASSUME NEW n \in 1..(t + k)
        PROVE  /\ items[n].kind = out[n].kind
               /\ items[n].text = out[n].text
               /\ out[n].call # NoId => items[n].call = out[n].call
    <3>1. CASE n > t
      <4> DEFINE m == n - t
                 i == Nth(Indexes, m)
      <4>1. m \in 1..k /\ t + m = n
        BY <2>1, <2>7, <3>1 DEF k
      <4>2. out[n] = Item("function_call", NoRole, -2 - m, IdSent(i), InOrder(ArgParts(i)))
        BY <2>5, <4>1
      <4>3. /\ items[n].kind = "function_call" /\ items[n].text = InOrder(ArgParts(i))
            /\ IdSent(i) # NoId => items[n].call = IdSent(i)
        BY <2>6, <4>1
      <4> QED
        BY <4>2, <4>3, ItemFields
    <3>2. CASE n = t /\ s = 1
      <4>1. PartsOf("message") # {}
        BY <2>7, <3>2
      <4>2. out[n] = Item("message", "assistant", -2, NoId, InOrder(PartsOf("message")))
        BY <2>5, <3>2, <4>1
      <4>3. items[n].kind = "message" /\ items[n].text = InOrder(PartsOf("message"))
        BY <2>6, <3>2, <4>1
      <4> QED
        BY <4>2, <4>3, ItemFields
    <3>3. CASE n = 1 /\ r = 1
      <4>1. PartsOf("reasoning") # {}
        BY <2>7, <3>3
      <4>2. out[n] = Item("reasoning", NoRole, -1, NoId, InOrder(PartsOf("reasoning")))
        BY <2>5, <3>3, <4>1
      <4>3. items[n].kind = "reasoning" /\ items[n].text = InOrder(PartsOf("reasoning"))
        BY <2>6, <3>3, <4>1
      <4> QED
        BY <4>2, <4>3, ItemFields
    <3>4. n > t \/ (n = t /\ s = 1) \/ (n = 1 /\ r = 1)
      <4>1. r \in {0, 1} /\ s \in {0, 1} /\ k \in Nat /\ n \in 1..((r + s) + k)
        BY <2>1, <2>7 DEF k
      <4> QED
        BY <4>1 DEF t
    <3> QED
      BY <3>1, <3>2, <3>3, <3>4
  <2> HIDE DEF t
  <2> QED
    BY <2>1, <2>2, <2>3, <2>4, <2>5, <2>6, <2>8 DEF json
<1> QED
  BY <1>1, AgreeInvariantHolds, PTL

-----------------------------------------------------------------------------
(* Results follow their calls *)

\* One turn of the conversion of a request, with the messages that earlier
\* items make in f.
TalkStep(seq, f, s) ==
  IF s = {} THEN <<>> ELSE ConvertInputItem(f[s \ {Max(s)}], seq[Max(s)])
IsTalk(seq, S, f) == f = [s \in SUBSET S |-> TalkStep(seq, f, s)]

\* The messages that the items of seq at the places S make.
Talk(seq, S) == (CHOOSE f : IsTalk(seq, S, f))[S]

LEMMA TalkUnfolds ==
  ASSUME NEW seq
  PROVE  ResponsesToChat(<<>>, seq) = Talk(seq, DOMAIN seq)
  BY DEF ResponsesToChat, FoldLeft, MapThenFoldSet, Talk, IsTalk, TalkStep

LEMMA GreatestIsMax ==
  ASSUME NEW T, IsFiniteSet(T), T # {}, \A n \in T : n \in Nat
  PROVE  Max(T) \in T /\ \A n \in T : n <= Max(T)
<1>1. PICK x \in T : \A y \in T : y <= x
  BY GreatestNumber
<1>2. \E z \in T : \A y \in T : z >= y
  BY <1>1
<1> QED
  BY <1>2 DEF Max

LEMMA TalkTurn ==
  ASSUME NEW S, IsFiniteSet(S), \A n \in S : n \in Nat, NEW seq
  PROVE  Talk(seq, S) =
           IF S = {} THEN <<>> ELSE ConvertInputItem(Talk(seq, S \ {Max(S)}), seq[Max(S)])
<1> DEFINE Said(s) == Talk(seq, s)
           Turn(s) == IF s = {} THEN <<>> ELSE ConvertInputItem(Said(s \ {Max(s)}), seq[Max(s)])
           B == {s \in SUBSET S : Said(s) # Turn(s)}
<1> SUFFICES ASSUME B # {}
             PROVE  FALSE
  OBVIOUS
<1>1. PICK U \in B : \A t \in SUBSET U : t \in B => t = U
  <2>1. B \in SUBSET (SUBSET S)
    OBVIOUS
  <2> HIDE DEF B
  <2> QED
    BY <2>1, SmallestSet
<1>2. U \in SUBSET S /\ IsFiniteSet(U) /\ \A s \in SUBSET U : s # U => Said(s) = Turn(s)
  BY <1>1, FS_Subset
<1>3. \A s \in SUBSET U : s # {} => Max(s) \in s
  BY <1>2, FS_Subset, GreatestIsMax
<1> HIDE DEF Said, B
<1> DEFINE f == [s \in SUBSET U |-> IF s = U THEN Turn(U) ELSE Said(s)]
<1>4. IsTalk(seq, U, f)
  <2>1. ASSUME NEW s \in SUBSET U
        PROVE  f[s] = TalkStep(seq, f, s)
    <3>1. CASE s = {}
      BY <1>2, <3>1 DEF TalkStep
    <3>2. CASE s # {}
      <4>1. Max(s) \in s /\ s \ {Max(s)} \in SUBSET U /\ s \ {Max(s)} # U
        BY <1>3, <3>2
      <4>2. f[s \ {Max(s)}] = Said(s \ {Max(s)})
        BY <4>1
      <4>3. f[s] = Turn(s)
        BY <1>2
      <4> QED
        BY <3>2, <4>2, <4>3 DEF TalkStep
    <3> QED
      BY <3>1, <3>2
  <2> HIDE DEF Turn
  <2> QED
    BY <2>1 DEF IsTalk
<1> HIDE DEF f
<1> DEFINE g == CHOOSE f1 : IsTalk(seq, U, f1)
<1>5. IsTalk(seq, U, g)
  BY <1>4
<1>6. Said(U) = g[U]
  BY DEF Said, Talk
<1> HIDE DEF g
<1>7. \A s \in SUBSET U : g[s] = TalkStep(seq, g, s)
  BY <1>5 DEF IsTalk
<1>8. \A s \in SUBSET U : s # U => g[s] = Said(s)
  <2> DEFINE C == {s \in SUBSET U : s # U /\ g[s] # Said(s)}
  <2> SUFFICES ASSUME C # {}
               PROVE  FALSE
    OBVIOUS
  <2>1. PICK V \in C : \A t \in SUBSET V : t \in C => t = V
    <3>1. C \in SUBSET (SUBSET U)
      OBVIOUS
    <3> HIDE DEF C
    <3> QED
      BY <1>2, <3>1, SmallestSet
  <2>2. V \in SUBSET U /\ V # U /\ g[V] # Said(V)
    OBVIOUS
  <2>3. Said(V) = Turn(V)
    BY <1>2, <2>2
  <2>4. CASE V = {}
    BY <1>7, <2>2, <2>3, <2>4 DEF TalkStep
  <2>5. CASE V # {}
    <3>1. Max(V) \in V
      BY <1>3, <2>2, <2>5
    <3>2. V \ {Max(V)} \in SUBSET V /\ V \ {Max(V)} # V /\ V \ {Max(V)} # U
      BY <2>2, <3>1
    <3>3. g[V \ {Max(V)}] = Said(V \ {Max(V)})
      BY <2>1, <2>2, <3>2
    <3>4. g[V] = ConvertInputItem(g[V \ {Max(V)}], seq[Max(V)])
      BY <1>7, <2>2, <2>5 DEF TalkStep
    <3> QED
      BY <2>2, <2>3, <2>5, <3>3, <3>4
  <2> QED
    BY <2>4, <2>5
<1>9. Said(U) = Turn(U)
  <2>1. CASE U = {}
    BY <1>6, <1>7, <2>1 DEF TalkStep
  <2>2. CASE U # {}
    <3>1. Max(U) \in U
      BY <1>3, <2>2
    <3>2. g[U \ {Max(U)}] = Said(U \ {Max(U)})
      BY <1>8, <3>1
    <3>3. g[U] = ConvertInputItem(g[U \ {Max(U)}], seq[Max(U)])
      BY <1>7, <2>2 DEF TalkStep
    <3> QED
      BY <1>6, <2>2, <3>2, <3>3
  <2> QED
    BY <2>1, <2>2
<1> QED
  BY <1>1, <1>9 DEF B

\* The messages of the first n items, one item after the other.
TalkTo(seq, n) == Talk(seq, 1..n)

LEMMA TalkGrows ==
  ASSUME NEW seq
  PROVE  /\ TalkTo(seq, 0) = <<>>
         /\ \A n \in Nat : TalkTo(seq, n + 1) = ConvertInputItem(TalkTo(seq, n), seq[n + 1])
<1>1. TalkTo(seq, 0) = <<>>
  <2>1. 1..0 = {} /\ IsFiniteSet({})
    BY FS_EmptySet
  <2> QED
    BY <2>1, TalkTurn DEF TalkTo
<1>2. ASSUME NEW n \in Nat
      PROVE  TalkTo(seq, n + 1) = ConvertInputItem(TalkTo(seq, n), seq[n + 1])
  <2> DEFINE S == 1..(n + 1)
  <2>1. IsFiniteSet(S) /\ S # {} /\ \A m \in S : m \in Nat
    <3>1. \A m \in Nat : IsFiniteSet(1..m)
      BY FS_Interval
    <3> QED
      BY <3>1
  <2>2. Max(S) \in S /\ \A m \in S : m <= Max(S)
    <3> HIDE DEF S
    <3> QED
      BY <2>1, GreatestIsMax
  <2>3. Max(S) = n + 1
    BY <2>2
  <2>4. S \ {n + 1} = 1..n
    OBVIOUS
  <2> HIDE DEF S
  <2>5. Talk(seq, S) = ConvertInputItem(Talk(seq, S \ {Max(S)}), seq[Max(S)])
    BY <2>1, TalkTurn
  <2> QED
    BY <2>3, <2>4, <2>5 DEF TalkTo, S
<1> QED
  BY <1>1, <1>2

ToolCall == [id : CallIds \cup {NoId} \cup Nat, text : Seq(Nat)]
Chat ==
  [role : {"assistant", "tool"}, null : BOOLEAN, text : Seq(Nat), calls : Seq(ToolCall),
   answers : CallIds \cup {NoId} \cup Nat]

\* The last message is one of calls, and waits for more of them.
Calling(messages) ==
  /\ Len(messages) > 0
  /\ messages[Len(messages)].role = "assistant" /\ messages[Len(messages)].null = TRUE
CallsOf(messages) == ToSet(messages[Len(messages)].calls)

LEMMA AppendAdds ==
  ASSUME NEW X, NEW s \in Seq(X), NEW x \in X
  PROVE  /\ Append(s, x) \in Seq(X) /\ Len(Append(s, x)) = Len(s) + 1 /\ Len(s) \in Nat
         /\ Append(s, x)[Len(s) + 1] = x /\ \A n \in 1..Len(s) : Append(s, x)[n] = s[n]
         /\ x \in ToSet(Append(s, x)) /\ ToSet(s) \subseteq ToSet(Append(s, x))
<1>1. /\ Append(s, x) \in Seq(X) /\ Len(Append(s, x)) = Len(s) + 1 /\ Len(s) \in Nat
      /\ Append(s, x)[Len(s) + 1] = x /\ \A n \in 1..Len(s) : Append(s, x)[n] = s[n]
      /\ DOMAIN s = 1..Len(s) /\ DOMAIN Append(s, x) = 1..(Len(s) + 1)
  OBVIOUS
<1>2. x \in ToSet(Append(s, x))
  BY <1>1 DEF ToSet
<1>3. ToSet(s) \subseteq ToSet(Append(s, x))
  BY <1>1 DEF ToSet
<1> QED
  BY <1>1, <1>2, <1>3

\* A call joins the message of the calls before it.
LEMMA WithCallShape ==
  ASSUME NEW messages \in Seq(Chat), NEW tc \in ToolCall
  PROVE  LET new == WithCall(messages, tc) IN
         /\ new \in Seq(Chat) /\ Calling(new) /\ tc \in CallsOf(new)
         /\ Calling(messages) => CallsOf(messages) \subseteq CallsOf(new)
<1> DEFINE n == Len(messages)
           new == WithCall(messages, tc)
<1>1. n \in Nat /\ DOMAIN messages = 1..n
  OBVIOUS
<1>2. n > 0 => messages[n] \in Chat
  OBVIOUS
<1>3. CASE Calling(messages)
  <2> DEFINE cs == Append(messages[n].calls, tc)
             last == [messages[n] EXCEPT !.calls = cs]
  <2>1. messages[n] \in Chat /\ n > 0 /\ messages[n].role = "assistant" /\ messages[n].null = TRUE
    BY <1>2, <1>3 DEF Calling
  <2>2. messages[n].calls \in Seq(ToolCall)
    BY <2>1 DEF Chat
  <2>3. cs \in Seq(ToolCall) /\ tc \in ToSet(cs) /\ ToSet(messages[n].calls) \subseteq ToSet(cs)
    BY <2>2, AppendAdds
  <2>4. new = [messages EXCEPT ![n] = last]
    BY <2>1 DEF WithCall
  <2> HIDE DEF cs
  <2>5. last \in Chat /\ last.role = "assistant" /\ last.null = TRUE /\ last.calls = cs
    BY <2>1, <2>3 DEF Chat
  <2> HIDE DEF last, new
  <2>6. new \in Seq(Chat) /\ Len(new) = n /\ new[n] = last
    BY <1>1, <2>1, <2>4, <2>5
  <2> QED
    BY <2>1, <2>3, <2>5, <2>6 DEF Calling, CallsOf, new
<1>4. CASE ~Calling(messages)
  <2> DEFINE m == ChatMessage("assistant", TRUE, <<>>, <<tc>>, NoId)
  <2>1. new = Append(messages, m)
    BY <1>2, <1>4 DEF WithCall, Calling, Chat
  <2>2. <<tc>> \in Seq(ToolCall) /\ tc \in ToSet(<<tc>>) /\ <<>> \in Seq(Nat)
    BY DEF ToSet
  <2>3. m \in Chat /\ m.role = "assistant" /\ m.null = TRUE /\ m.calls = <<tc>>
    BY <2>2 DEF ChatMessage, Chat
  <2> HIDE DEF m, new
  <2>4. new \in Seq(Chat) /\ Len(new) = n + 1 /\ new[n + 1] = m
    BY <2>1, <2>3, AppendAdds
  <2> QED
    BY <1>1, <1>4, <2>2, <2>3, <2>4 DEF Calling, CallsOf, new
<1> QED
  BY <1>3, <1>4

LEMMA ConvertShape ==
  ASSUME NEW messages \in Seq(Chat), NEW it,
         it.call \in CallIds \cup {NoId} \cup Nat, it.text \in Seq(Nat)
  PROVE  LET new == ConvertInputItem(messages, it) IN
         /\ it.kind = "reasoning" => new = messages
         /\ it.kind = "message" /\ it.role = "assistant" => new \in Seq(Chat)
         /\ it.kind = "function_call" /\ it.call # NoId =>
              /\ new \in Seq(Chat) /\ Calling(new) /\ \E tc \in CallsOf(new) : tc.id = it.call
              /\ Calling(messages) => CallsOf(messages) \subseteq CallsOf(new)
         /\ it.kind = "function_call_output" =>
              /\ new \in Seq(Chat) /\ Len(new) = Len(messages) + 1
              /\ \A n \in 1..Len(messages) : new[n] = messages[n]
              /\ new[Len(messages) + 1].role = "tool"
              /\ new[Len(messages) + 1].answers = it.call
<1> DEFINE new == ConvertInputItem(messages, it)
<1>1. ASSUME it.kind = "reasoning"
      PROVE  new = messages
  BY <1>1 DEF ConvertInputItem
<1>2. ASSUME it.kind = "message", it.role = "assistant"
      PROVE  new \in Seq(Chat)
  <2> DEFINE m == ChatMessage("assistant", FALSE, it.text, <<>>, NoId)
  <2>1. ChatRole(it.role) = "assistant"
    BY <1>2 DEF ChatRole
  <2>2. new = Append(messages, m)
    BY <1>2, <2>1 DEF ConvertInputItem
  <2>3. m \in Chat
    BY DEF ChatMessage, Chat
  <2> HIDE DEF m, new
  <2> QED
    BY <2>2, <2>3
<1>3. ASSUME it.kind = "function_call", it.call # NoId
      PROVE  /\ new \in Seq(Chat) /\ Calling(new) /\ \E tc \in CallsOf(new) : tc.id = it.call
             /\ Calling(messages) => CallsOf(messages) \subseteq CallsOf(new)
  <2> DEFINE tc == [id |-> it.call, text |-> it.text]
  <2>1. new = WithCall(messages, tc)
    BY <1>3 DEF ConvertInputItem
  <2>2. tc \in ToolCall /\ tc.id = it.call
    BY DEF ToolCall
  <2> HIDE DEF tc, new
  <2> QED
    BY <2>1, <2>2, WithCallShape
<1>4. ASSUME it.kind = "function_call_output"
      PROVE  /\ new \in Seq(Chat) /\ Len(new) = Len(messages) + 1
             /\ \A n \in 1..Len(messages) : new[n] = messages[n]
             /\ new[Len(messages) + 1].role = "tool"
             /\ new[Len(messages) + 1].answers = it.call
  <2> DEFINE m == ChatMessage("tool", FALSE, it.text, <<>>, it.call)
  <2>1. new = Append(messages, m)
    BY <1>4 DEF ConvertInputItem
  <2>2. m \in Chat /\ m.role = "tool" /\ m.answers = it.call
    BY DEF ChatMessage, Chat
  <2> HIDE DEF m, new
  <2> QED
    BY <2>1, <2>2, AppendAdds
<1> QED
  BY <1>1, <1>2, <1>3, <1>4

CallPlaces(list) == {n \in DOMAIN list : list[n].kind = "function_call"}

LEMMA IntervalFinite == \A n \in Nat : IsFiniteSet(1..n)
  BY FS_Interval

LEMMA CallPlacesShape ==
  ASSUME NEW list \in Seq(StreamItem)
  PROVE  /\ CallPlaces(list) \in SUBSET Nat /\ IsFiniteSet(CallPlaces(list))
         /\ Cardinality(CallPlaces(list)) \in Nat
<1>1. DOMAIN list = 1..Len(list) /\ Len(list) \in Nat
  OBVIOUS
<1>3. IsFiniteSet(DOMAIN list)
  BY <1>1, IntervalFinite
<1>4. CallPlaces(list) \in SUBSET DOMAIN list
  BY DEF CallPlaces
<1>5. IsFiniteSet(CallPlaces(list))
  BY <1>3, <1>4, FS_Subset
<1> QED
  BY <1>1, <1>4, <1>5, FS_CardinalityType

LEMMA Joined ==
  ASSUME NEW X, NEW s \in Seq(X), NEW t \in Seq(X)
  PROVE  /\ DOMAIN (s \o t) = 1..(Len(s) + Len(t))
         /\ \A n \in 1..Len(s) : (s \o t)[n] = s[n]
         /\ \A n \in 1..Len(t) : (s \o t)[Len(s) + n] = t[n]
  OBVIOUS

LEMMA ReplayedShape ==
  ASSUME NEW list \in Seq(StreamItem)
  PROVE  LET places == CallPlaces(list)
             L == Len(list)
             K == Cardinality(places)
             seq == Replayed(list)
         IN
         /\ K \in Nat /\ DOMAIN seq = 1..(L + K)
         /\ \A n \in 1..L : /\ seq[n].kind = list[n].kind /\ seq[n].role = "assistant"
                            /\ seq[n].call = list[n].call /\ seq[n].text = list[n].text
         /\ \A p \in 1..K : /\ seq[L + p].kind = "function_call_output"
                            /\ seq[L + p].call = list[Nth(places, p)].call
                            /\ seq[L + p].text = <<>>
<1> DEFINE places == CallPlaces(list)
           L == Len(list)
           K == Cardinality(places)
           a(n) == Item(list[n].kind, "assistant", -n, list[n].call, list[n].text)
           b(p) == Item("function_call_output", NoRole, NoId, list[Nth(places, p)].call, <<>>)
           A == [n \in 1..L |-> a(n)]
           B == [p \in 1..K |-> b(p)]
           X == {a(n) : n \in 1..L} \cup {b(p) : p \in 1..K}
<1>1. DOMAIN list = 1..L /\ L \in Nat
  OBVIOUS
<1>2. K \in Nat
  BY CallPlacesShape
<1>3. Replayed(list) = A \o B
  <2>1. Filtered(list, places) = [p \in 1..K |-> list[Nth(places, p)]]
    BY DEF Filtered
  <2>2. [p \in DOMAIN Filtered(list, places) |->
           Item("function_call_output", "", NoId, Filtered(list, places)[p].call, <<>>)] = B
    BY <2>1 DEF NoRole
  <2>3. [n \in DOMAIN list |-> a(n)] = A
    BY <1>1
  <2> QED
    BY <2>2, <2>3 DEF Replayed, CallPlaces
<1>4. /\ \A n \in 1..L : /\ a(n).kind = list[n].kind /\ a(n).role = "assistant"
                         /\ a(n).call = list[n].call /\ a(n).text = list[n].text
      /\ \A p \in 1..K : /\ b(p).kind = "function_call_output"
                         /\ b(p).call = list[Nth(places, p)].call /\ b(p).text = <<>>
  BY DEF Item
<1> HIDE DEF a, b, places, K, L
<1>5. (\A n \in 1..L : a(n) \in X) /\ (\A p \in 1..K : b(p) \in X)
  OBVIOUS
<1> HIDE DEF X
<1>6. A \in [1..L -> X] /\ B \in [1..K -> X]
  BY <1>5
<1>7. /\ A \in Seq(X) /\ Len(A) = L /\ (\A n \in 1..L : A[n] = a(n))
      /\ B \in Seq(X) /\ Len(B) = K /\ (\A p \in 1..K : B[p] = b(p))
  BY <1>1, <1>2, <1>6
<1> HIDE DEF A, B
<1>8. /\ DOMAIN (A \o B) = 1..(L + K)
      /\ \A n \in 1..L : (A \o B)[n] = a(n)
      /\ \A p \in 1..K : (A \o B)[L + p] = b(p)
  <2>1. /\ DOMAIN (A \o B) = 1..(Len(A) + Len(B))
        /\ \A n \in 1..Len(A) : (A \o B)[n] = A[n]
        /\ \A n \in 1..Len(B) : (A \o B)[Len(A) + n] = B[n]
    <3>1. A \in Seq(X) /\ B \in Seq(X)
      BY <1>7
    <3> QED
      BY <3>1, Joined
  <2> QED
    BY <1>7, <2>1
<1> QED
  BY <1>2, <1>3, <1>4, <1>8 DEF places, K, L

\* Converting the items up to the nth leaves their calls in the last message, if
\* there are any and no text came behind one.
Asked(list, n) ==
  LET messages == TalkTo(Replayed(list), n) IN
  /\ messages \in Seq(Chat)
  /\ \A c \in CallPlaces(list) : c <= n =>
       Calling(messages) /\ \E tc \in CallsOf(messages) : tc.id = list[c].call

LEMMA CallsAsked ==
  ASSUME NEW list \in Seq(StreamItem),
         \A c \in CallPlaces(list) :
           list[c].call # NoId /\ \A m \in DOMAIN list : c <= m => list[m].kind # "message"
  PROVE  \A n \in 0..Len(list) : Asked(list, n)
<1> DEFINE L == Len(list)
           Bad == {n \in 0..L : ~Asked(list, n)}
           seq == Replayed(list)
<1>1. DOMAIN list = 1..L /\ L \in Nat
  OBVIOUS
<1>2. CallPlaces(list) \in SUBSET (1..L)
  BY <1>1 DEF CallPlaces
<1>3. Asked(list, 0)
  <2>1. TalkTo(seq, 0) = <<>>
    BY TalkGrows
  <2>2. \A c \in CallPlaces(list) : ~(c <= 0)
    BY <1>1, <1>2
  <2>3. <<>> \in Seq(Chat)
    OBVIOUS
  <2> HIDE DEF seq
  <2> QED
    BY <2>1, <2>2, <2>3 DEF Asked, seq
<1>4. ASSUME NEW n \in 0..(L - 1), Asked(list, n)
      PROVE  Asked(list, n + 1)
  <2> DEFINE old == TalkTo(seq, n)
             it == seq[n + 1]
             new == TalkTo(seq, n + 1)
  <2>1. n \in Nat /\ n + 1 \in 1..L
    BY <1>1
  <2>2. new = ConvertInputItem(old, it)
    BY <2>1, TalkGrows
  <2>3. /\ old \in Seq(Chat)
        /\ \A c \in CallPlaces(list) : c <= n =>
             Calling(old) /\ \E tc \in CallsOf(old) : tc.id = list[c].call
    BY <1>4 DEF Asked
  <2>4. /\ it.kind = list[n + 1].kind /\ it.role = "assistant"
        /\ it.call = list[n + 1].call /\ it.text = list[n + 1].text
    BY <2>1, ReplayedShape
  <2>5. list[n + 1] \in StreamItem
    BY <2>1
  <2>6. /\ it.call \in CallIds \cup {NoId} \cup Nat /\ it.text \in Seq(Nat)
        /\ it.kind \in {"reasoning", "message", "function_call"}
    BY <2>4, <2>5 DEF StreamItem, Kinds
  <2> HIDE DEF old, it, new
  <2>7. /\ it.kind = "reasoning" => new = old
        /\ it.kind = "message" => new \in Seq(Chat)
        /\ it.kind = "function_call" /\ it.call # NoId =>
              /\ new \in Seq(Chat) /\ Calling(new) /\ \E tc \in CallsOf(new) : tc.id = it.call
              /\ Calling(old) => CallsOf(old) \subseteq CallsOf(new)
    BY <2>2, <2>3, <2>4, <2>6, ConvertShape
  <2> SUFFICES /\ new \in Seq(Chat)
               /\ \A c \in CallPlaces(list) : c <= n + 1 =>
                    Calling(new) /\ \E tc \in CallsOf(new) : tc.id = list[c].call
    BY DEF Asked, new
  <2>8. \A c \in CallPlaces(list) : c \in 1..L /\ (c <= n + 1 => c <= n \/ c = n + 1)
    BY <1>1, <1>2, <2>1
  <2>9. CASE it.kind = "reasoning"
    <3>1. n + 1 \notin CallPlaces(list)
      BY <2>4, <2>9 DEF CallPlaces
    <3> QED
      BY <2>3, <2>7, <2>8, <2>9, <3>1
  <2>10. CASE it.kind = "message"
    <3>1. \A c \in CallPlaces(list) : ~(c <= n + 1)
      BY <1>1, <2>1, <2>4, <2>10
    <3> QED
      BY <2>7, <2>10, <3>1
  <2>11. CASE it.kind = "function_call"
    <3>1. n + 1 \in CallPlaces(list)
      BY <1>1, <2>1, <2>4, <2>11 DEF CallPlaces
    <3>2. it.call # NoId
      BY <2>4, <3>1
    <3>3. /\ new \in Seq(Chat) /\ Calling(new) /\ \E tc \in CallsOf(new) : tc.id = list[n + 1].call
          /\ Calling(old) => CallsOf(old) \subseteq CallsOf(new)
      BY <2>4, <2>7, <2>11, <3>2
    <3>4. ASSUME NEW c \in CallPlaces(list), c <= n
          PROVE  \E tc \in CallsOf(new) : tc.id = list[c].call
      BY <2>3, <3>3, <3>4
    <3> QED
      BY <2>8, <3>3, <3>4
  <2> QED
    BY <2>6, <2>9, <2>10, <2>11
<1> SUFFICES ASSUME Bad # {}
             PROVE  FALSE
  OBVIOUS
<1>5. PICK n \in Bad : \A m \in Bad : n <= m
  <2>1. Bad \in SUBSET Nat
    BY <1>1
  <2> HIDE DEF Bad
  <2> QED
    BY <2>1, LeastNumber
<1>6. n \in 0..L /\ n # 0 /\ ~Asked(list, n)
  BY <1>3
<1>7. n - 1 \in 0..(L - 1) /\ (n - 1) + 1 = n /\ n - 1 \in 0..L /\ ~(n <= n - 1)
  BY <1>1, <1>6
<1>8. Asked(list, n - 1)
  BY <1>5, <1>7
<1>9. Asked(list, (n - 1) + 1)
  BY <1>4, <1>7, <1>8
<1> QED
  BY <1>6, <1>7, <1>9

\* The first p results stand behind the message of the calls, in order.
Answered(list, p) ==
  LET asked == TalkTo(Replayed(list), Len(list))
      messages == TalkTo(Replayed(list), Len(list) + p)
  IN  /\ messages \in Seq(Chat) /\ Len(messages) = Len(asked) + p
      /\ \A n \in 1..Len(asked) : messages[n] = asked[n]
      /\ \A q \in 1..p : /\ messages[Len(asked) + q].role = "tool"
                         /\ messages[Len(asked) + q].answers = list[Nth(CallPlaces(list), q)].call

LEMMA CallsAnswered ==
  ASSUME NEW list \in Seq(StreamItem), Asked(list, Len(list))
  PROVE  \A p \in 0..Cardinality(CallPlaces(list)) : Answered(list, p)
<1> DEFINE L == Len(list)
           K == Cardinality(CallPlaces(list))
           seq == Replayed(list)
           asked == TalkTo(seq, L)
           Bad == {p \in 0..K : ~Answered(list, p)}
<1>1. L \in Nat /\ DOMAIN list = 1..L
  OBVIOUS
<1>2. K \in Nat
  BY ReplayedShape
<1>3. asked \in Seq(Chat) /\ Len(asked) \in Nat
  BY DEF Asked
<1>4. Answered(list, 0)
  <2>1. L + 0 = L /\ Len(asked) + 0 = Len(asked) /\ 1..0 = {}
    BY <1>1, <1>3
  <2> QED
    BY <1>3, <2>1 DEF Answered
<1>5. ASSUME NEW p \in 0..(K - 1), Answered(list, p)
      PROVE  Answered(list, p + 1)
  <2> DEFINE old == TalkTo(seq, L + p)
             it == seq[L + (p + 1)]
             new == TalkTo(seq, L + (p + 1))
             i == Len(asked)
  <2>1. p \in Nat /\ p + 1 \in 1..K /\ L + p \in Nat /\ (L + p) + 1 = L + (p + 1)
    BY <1>1, <1>2
  <2>2. new = ConvertInputItem(old, it)
    <3>1. TalkTo(seq, (L + p) + 1) = ConvertInputItem(TalkTo(seq, L + p), seq[(L + p) + 1])
      BY <2>1, TalkGrows
    <3> HIDE DEF seq, L
    <3> QED
      BY <2>1, <3>1
  <2>3. /\ old \in Seq(Chat) /\ Len(old) = i + p
        /\ \A n \in 1..i : old[n] = asked[n]
        /\ \A q \in 1..p : /\ old[i + q].role = "tool"
                           /\ old[i + q].answers = list[Nth(CallPlaces(list), q)].call
    BY <1>5 DEF Answered
  <2>4. /\ it.kind = "function_call_output" /\ it.text = <<>>
        /\ it.call = list[Nth(CallPlaces(list), p + 1)].call
    BY <2>1, ReplayedShape
  <2>5. it.call \in CallIds \cup {NoId} \cup Nat /\ it.text \in Seq(Nat)
    <3>1. CallPlaces(list) \in SUBSET Nat /\ IsFiniteSet(CallPlaces(list))
      BY CallPlacesShape
    <3>2. Nth(CallPlaces(list), p + 1) \in CallPlaces(list)
      BY <2>1, <3>1, NthInKeep
    <3>3. list[Nth(CallPlaces(list), p + 1)] \in StreamItem
      BY <3>2 DEF CallPlaces
    <3>4. list[Nth(CallPlaces(list), p + 1)].call \in CallIds \cup {NoId} \cup Nat
      BY <3>3 DEF StreamItem
    <3>5. <<>> \in Seq(Nat)
      OBVIOUS
    <3> HIDE DEF it
    <3> QED
      BY <2>4, <3>4, <3>5
  <2> HIDE DEF old, it, new, asked
  <2>6. /\ new \in Seq(Chat) /\ Len(new) = Len(old) + 1
        /\ \A n \in 1..Len(old) : new[n] = old[n]
        /\ new[Len(old) + 1].role = "tool" /\ new[Len(old) + 1].answers = it.call
    <3>1. old \in Seq(Chat) /\ it.kind = "function_call_output"
      BY <2>3, <2>4
    <3>2. LET w == ConvertInputItem(old, it) IN
          /\ w \in Seq(Chat) /\ Len(w) = Len(old) + 1
          /\ \A n \in 1..Len(old) : w[n] = old[n]
          /\ w[Len(old) + 1].role = "tool" /\ w[Len(old) + 1].answers = it.call
      BY <2>5, <3>1, ConvertShape
    <3> QED
      BY <2>2, <3>2
  <2> HIDE DEF i
  <2>7. i \in Nat
    BY <1>3 DEF i
  <2>8. Len(new) = i + (p + 1) /\ Len(old) + 1 = i + (p + 1)
    BY <2>1, <2>3, <2>6, <2>7
  <2>9. \A n \in 1..i : new[n] = asked[n]
    BY <2>1, <2>3, <2>6, <2>7
  <2>10. ASSUME NEW q \in 1..(p + 1)
         PROVE  /\ new[i + q].role = "tool"
                /\ new[i + q].answers = list[Nth(CallPlaces(list), q)].call
    <3>1. CASE q = p + 1
      BY <2>4, <2>6, <2>8, <3>1
    <3>2. CASE q \in 1..p
      <4>1. i + q \in 1..Len(old)
        BY <2>1, <2>3, <2>7, <3>2
      <4> QED
        BY <2>3, <2>6, <3>2, <4>1
    <3> QED
      BY <2>1, <3>1, <3>2
  <2> QED
    BY <2>6, <2>8, <2>9, <2>10 DEF Answered, new, asked, i
<1> SUFFICES ASSUME Bad # {}
             PROVE  FALSE
  OBVIOUS
<1>6. PICK p \in Bad : \A m \in Bad : p <= m
  <2>1. Bad \in SUBSET Nat
    BY <1>2
  <2> HIDE DEF Bad
  <2> QED
    BY <2>1, LeastNumber
<1> HIDE DEF K
<1>7. p \in 0..K /\ p # 0 /\ ~Answered(list, p)
  BY <1>4
<1>8. p - 1 \in 0..(K - 1) /\ (p - 1) + 1 = p /\ p - 1 \in 0..K /\ ~(p <= p - 1)
  BY <1>2, <1>7
<1>9. Answered(list, p - 1)
  BY <1>6, <1>8
<1>10. Answered(list, (p - 1) + 1)
  BY <1>5, <1>8, <1>9
<1> QED
  BY <1>7, <1>8, <1>10

\* What makes results find their calls: no call is left without an identifier.
CallsNamed ==
  \A n \in DOMAIN items : items[n].kind = "function_call" => items[n].call # NoId

NamedInvariant == MixInvariant /\ CallsNamed

LEMMA NamedTextDelta ==
  ASSUME NamedInvariant, NEW kind \in {"reasoning", "message"}, TextDelta(kind)
  PROVE  CallsNamed'
<1> DEFINE known == EnsureItem(kind)
           at == IF known THEN Len(items) ELSE Len(items) + 1
<1>1. items \in Seq(StreamItem) /\ Piece \in Nat
  BY SentShape DEF NamedInvariant, MixInvariant, StreamInvariant, TypeOK
<1>2. known \in BOOLEAN /\ kind \in Kinds /\ NoId \in CallIds \cup {NoId} \cup Nat
  BY DEF Kinds, EnsureItem
<1>3. /\ known => at \in DOMAIN items /\ items[at].kind = kind
      /\ ~known => at = Len(items) + 1
  BY <1>1 DEF EnsureItem
<1>4. items' = Lengthened(Opened(known, kind, NoId), at, Piece)
  BY DEF TextDelta
<1> HIDE DEF known, at
<1>5. Lengthening(known, kind, NoId, at, Piece)
  BY <1>1, <1>2, <1>3, Lengthens
<1>6. /\ DOMAIN items' = DOMAIN items \cup {at} /\ items'[at].kind = kind
      /\ \A m \in DOMAIN items \ {at} : items'[m] = items[m]
  BY <1>4, <1>5 DEF Lengthening
<1> QED
  BY <1>6 DEF NamedInvariant, CallsNamed

LEMMA NamedCallFragment ==
  ASSUME NamedInvariant, NEW f \in Fragments, CallFragment(f)
  PROVE  CallsNamed'
<1> DEFINE i == IndexOf(f)
           at == CallPlace(i)
           known == i \in Indexes
<1>1. /\ DOMAIN items' = DOMAIN items \cup {at} /\ (at \in DOMAIN items <=> known)
      /\ known => items[at].kind = "function_call"
      /\ \A m \in DOMAIN items \ {at} : items'[m] = items[m]
      /\ items'[at].call = IF known THEN items[at].call ELSE CallOf(f)
  BY FragmentReaches DEF NamedInvariant
<1>2. CallOf(f) # NoId
  <2>1. items \in Seq(StreamItem)
    BY DEF NamedInvariant, MixInvariant, StreamInvariant, TypeOK
  <2>2. Len(items) + 1 \in Nat
    BY <2>1
  <2> QED
    BY <2>2 DEF CallOf, StreamAssumption
<1> HIDE DEF at, known
<1> QED
  BY <1>1, <1>2 DEF NamedInvariant, CallsNamed

LEMMA NamedInvariantHolds == Spec => []NamedInvariant
<1>1. Init => NamedInvariant
  <2>1. Init => CallsNamed
    BY DEF Init, CallsNamed
  <2> QED
    BY <2>1, MixInvariantInit DEF NamedInvariant
<1>2. MixInvariant' /\ NamedInvariant /\ [Next]_vars => NamedInvariant'
  <2> SUFFICES ASSUME MixInvariant', NamedInvariant, [Next]_vars PROVE CallsNamed'
    BY DEF NamedInvariant
  <2>1. CASE \E kind \in {"reasoning", "message"} : TextDelta(kind)
    BY <2>1, NamedTextDelta
  <2>2. CASE \E f \in Fragments : CallFragment(f)
    BY <2>2, NamedCallFragment
  <2>3. CASE UNCHANGED items
    BY <2>3 DEF NamedInvariant, CallsNamed
  <2> QED
    BY <2>1, <2>2, <2>3
    DEF Next, FinishReason, UsageReport, ReadToEnd, BreakOff, CloseItem, Complete, vars
<1> QED
  BY <1>1, <1>2, MixInvariantHolds, PTL DEF Spec

\* When a client sends the output back with the results of its calls, each result
\* follows the message with its call, unless the model wrote text behind a call.
THEOREM ResultsAlwaysFollowCalls == Spec => []ResultsFollowCalls
<1>1. NamedInvariant => ResultsFollowCalls
  <2> DEFINE list == client.output
             places == CallPlaces(list)
             seq == Replayed(list)
             L == Len(list)
             K == Cardinality(places)
             messages == ResponsesToChat(<<>>, seq)
  <2> SUFFICES ASSUME NamedInvariant, client.over, NEW n \in places,
                      ~(\E c \in places : \E m \in c..L : list[m].kind = "message")
               PROVE  \E j \in DOMAIN messages :
                        /\ messages[j].role = "tool" /\ messages[j].answers = list[n].call
                        /\ \E i \in 1..(j - 1) :
                             /\ \E tc \in ToSet(messages[i].calls) : tc.id = list[n].call
                             /\ \A k \in (i + 1)..j : messages[k].role = "tool"
    BY DEF ResultsFollowCalls, CallPlaces
  <2>1. list = items /\ list \in Seq(StreamItem) /\ DOMAIN list = 1..L /\ L \in Nat
    BY DEF NamedInvariant, MixInvariant, StreamInvariant, ClientInStep, TypeOK
  <2>2. ASSUME NEW c \in places
        PROVE  list[c].call # NoId /\ \A m \in DOMAIN list : c <= m => list[m].kind # "message"
    <3>1. c \in 1..L /\ list[c].kind = "function_call"
      BY <2>1 DEF CallPlaces
    <3>2. \A m \in DOMAIN list : c <= m => m \in c..L
      BY <2>1, <3>1
    <3> QED
      BY <2>1, <3>1, <3>2 DEF NamedInvariant, CallsNamed
  <2> HIDE DEF list, messages
  <2>3. Asked(list, L)
    BY <2>1, <2>2, CallsAsked
  <2>4. K \in Nat /\ places \in SUBSET Nat /\ IsFiniteSet(places)
    BY <2>1, CallPlacesShape
  <2>5. Answered(list, K)
    BY <2>1, <2>3, <2>4, CallsAnswered
  <2>6. messages = TalkTo(seq, L + K)
    <3>1. DOMAIN seq = 1..(L + K)
      BY <2>1, ReplayedShape
    <3> HIDE DEF seq
    <3>2. messages = Talk(seq, DOMAIN seq)
      BY TalkUnfolds DEF messages
    <3> QED
      BY <3>1, <3>2 DEF TalkTo
  <2> DEFINE asked == TalkTo(seq, L)
             i == Len(asked)
             p == Rank(places, n)
             j == i + p
  <2>7. /\ messages \in Seq(Chat) /\ Len(messages) = i + K
        /\ \A m \in 1..i : messages[m] = asked[m]
        /\ \A q \in 1..K : /\ messages[i + q].role = "tool"
                           /\ messages[i + q].answers = list[Nth(places, q)].call
    BY <2>5, <2>6 DEF Answered
  <2>8. /\ asked \in Seq(Chat) /\ i \in Nat /\ i > 0
        /\ \E tc \in ToSet(asked[i].calls) : tc.id = list[n].call
    <3>1. n <= L
      BY <2>1 DEF CallPlaces
    <3> QED
      BY <2>3, <3>1 DEF Asked, Calling, CallsOf
  <2>9. p \in 1..K /\ Nth(places, p) = n
    BY <2>4, RankGrows, NthOfRank
  <2> HIDE DEF asked, seq, L, places, K, i, p
  <2>10. DOMAIN messages = 1..(i + K)
    BY <2>7
  <2>11. j \in DOMAIN messages /\ i \in 1..(j - 1)
    BY <2>4, <2>8, <2>9, <2>10
  <2>12. messages[j].role = "tool" /\ messages[j].answers = list[n].call
    BY <2>7, <2>9
  <2>13. \E tc \in ToSet(messages[i].calls) : tc.id = list[n].call
    <3>1. messages[i] = asked[i]
      BY <2>7, <2>8
    <3> QED
      BY <2>8, <3>1
  <2>14. ASSUME NEW k \in (i + 1)..j
         PROVE  messages[k].role = "tool"
    <3>1. k - i \in 1..K /\ i + (k - i) = k
      BY <2>4, <2>8, <2>9
    <3> QED
      BY <2>7, <3>1
  <2> QED
    BY <2>11, <2>12, <2>13, <2>14
<1> QED
  BY <1>1, NamedInvariantHolds, PTL
=============================================================================
