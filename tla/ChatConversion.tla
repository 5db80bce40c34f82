---------------------------- MODULE ChatConversion ----------------------------
(***************************************************************************)
(* The two conversions of the Responses bridge (internal/api/responses.go) *)
(* that need no state: a request in the Responses protocol becomes a chat  *)
(* request, a whole chat answer becomes a Responses object.                *)
(*                                                                         *)
(* A text is the sequence of the pieces it was written in, so that the     *)
(* pieces tell where it came from.  What is copied from one field to       *)
(* another of the same meaning (sampling parameters, tool definitions, the *)
(* response format, names of tools) is left out.                           *)
(***************************************************************************)
EXTENDS Integers, Sequences, SequencesExt

CONSTANT NoId   \* an identifier that is absent or empty

\* An item of the input or the output list.  id is the item's own identifier (a
\* random one, here a negative number), call that of the tool call which the
\* item makes or answers.
Item(kind, role, id, call, text) ==
  [kind |-> kind, role |-> role, id |-> id, call |-> call, text |-> text]

\* A chat message; null says that its content is null, not that it is empty.
ChatMessage(role, null, text, calls, answers) ==
  [role |-> role, null |-> null, text |-> text, calls |-> calls, answers |-> answers]

-----------------------------------------------------------------------------
(* Request: items to messages *)

ChatRole(role) ==
  CASE role = "developer" -> "system"
    [] role = "" -> "user"
    [] OTHER -> role

\* Calls that follow each other belong to one message of the assistant.
WithCall(messages, tc) ==
  LET n == Len(messages) IN
  IF n > 0 /\ messages[n].role = "assistant" /\ messages[n].null
  THEN [messages EXCEPT ![n].calls = Append(@, tc)]
  ELSE Append(messages, ChatMessage("assistant", TRUE, <<>>, <<tc>>, NoId))

ConvertInputItem(messages, it) ==
  CASE it.kind = "message" ->
         Append(messages, ChatMessage(ChatRole(it.role), FALSE, it.text, <<>>, NoId))
    [] it.kind = "function_call" ->
         WithCall(messages, [id |-> IF it.call = NoId THEN it.id ELSE it.call,
                             text |-> it.text])
    [] it.kind = "function_call_output" ->
         Append(messages, ChatMessage("tool", FALSE, it.text, <<>>, it.call))
    [] OTHER -> messages

\* The messages of a request with these instructions and input items; a plain
\* string is one user message.
ResponsesToChat(instructions, input) ==
  FoldLeft(ConvertInputItem,
           IF instructions = <<>> THEN <<>>
           ELSE <<ChatMessage("system", FALSE, instructions, <<>>, NoId)>>,
           input)

-----------------------------------------------------------------------------
(* Answer: a message to items *)

\* The output list: reasoning, text and calls, in this order; what is empty is
\* left out.
OutputOf(message) ==
  (IF message.reasoning = <<>> THEN <<>>
   ELSE <<Item("reasoning", "", -1, NoId, message.reasoning)>>)
  \o (IF message.text = <<>> THEN <<>>
      ELSE <<Item("message", "assistant", -2, NoId, message.text)>>)
  \o [i \in DOMAIN message.calls |->
        Item("function_call", "", -2 - i, message.calls[i].id, message.calls[i].text)]

\* A field that may be left out is the set of what it holds.
ResponsesUsage(prompt, completion, total, cached) ==
  [input |-> prompt, output |-> completion, total |-> total, cached |-> cached]

\* usage holds the upstream's report, if it sent one.  A missing total, like
\* missing details of the cache, reads as 0.
ChatToResponses(message, finish, usage) ==
  [output |-> OutputOf(message),
   status |-> IF finish = "length" THEN "incomplete" ELSE "completed",
   usage  |-> {ResponsesUsage(u.prompt, u.completion,
                              IF u.total = 0 THEN u.prompt + u.completion ELSE u.total,
                              {u.cached} \ {0}) : u \in usage}]
=============================================================================
