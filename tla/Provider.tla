------------------------------ MODULE Provider ------------------------------
(***************************************************************************)
(* internal/llm: what the two providers send of a conversation, and what   *)
(* they make of the answers.  codex_oauth.go sends items to /responses and *)
(* reads a stream of events; openai_compat.go sends messages to            *)
(* /chat/completions and reads one body.  The conversation is the one      *)
(* replyWithLLM of agent.go builds: a response that calls tools goes back  *)
(* with the outputs, again through the provider.                           *)
(*                                                                         *)
(* A text is the sequence of its parts: the empty one is blank, and texts  *)
(* are joined by "\n" as sequences are by \o.                              *)
(***************************************************************************)
EXTENDS Naturals, FiniteSetsExt, SequencesExt

CONSTANTS
  Histories,  \* conversations buildLLMMessages makes: see HistoryAssumption
  Parts,      \* what texts are made of
  MaxRounds,  \* Complete calls of one request: 4 in replyWithLLM
  MaxItems    \* bound on the items of one response, for model checking

Texts == {<< >>} \union {<<p>> : p \in Parts}

\* What the server may write as the arguments of a call, what the provider
\* decodes of it, and what it encodes of that.  What is said of an object
\* holds for null, which also comes back as it was written.
Written == {"object", "blank", "malformed"}
Decoded == {"object", "empty", "raw"}
Encoded == {"object", "emptyObject", "rawObject"}

\* core.LLMMessage.  Calls have identifiers <<round, position>>.
Message(role, content) == [role |-> role, content |-> content, calls |-> << >>, id |-> << >>]

Remembered == {Message(role, <<p>>) : role \in {"system", "user", "assistant"}, p \in Parts}

ASSUME HistoryAssumption ==
  \A history \in Histories :
    /\ history \in Seq(Remembered)
    /\ \A i \in DOMAIN history : history[i].role = "system" => i = 1

ASSUME BoundAssumption == MaxRounds \in Nat \ {0} /\ MaxItems \in Nat

VARIABLES
  provider,  \* "codex_oauth" or "openai_compat"
  messages,  \* messages of replyWithLLM
  request,   \* the body of the last request
  pc,        \* "ready" to complete, "sent", or "done"
  round,     \* i of replyWithLLM
  given,     \* the function calls the server has made in its responses
  reply      \* what replyWithLLM returns

vars == <<provider, messages, request, pc, round, given, reply>>

\* What F makes of the elements of a sequence, one after the other.
Collect(F(_), seq) == FlattenSeq([i \in DOMAIN seq |-> F(seq[i])])

-----------------------------------------------------------------------------
(***************************************************************************)
(* The Codex provider's request                                            *)
(***************************************************************************)
Marshal(arguments) == CASE arguments = "object" -> "object"
                        [] arguments = "empty" -> "emptyObject"
                        [] arguments = "raw" -> "rawObject"

\* The instructions are the last system message that is not blank.
Instructions(conversation) ==
  LET prompts == {i \in DOMAIN conversation :
                    conversation[i].role = "system" /\ conversation[i].content # << >>}
  IN  IF prompts = {} THEN <<"default">> ELSE conversation[Max(prompts)].content

CodexCalls(calls) ==
  [i \in DOMAIN calls |-> [type |-> "function_call", id |-> calls[i].id,
                           arguments |-> Marshal(calls[i].arguments)]]

CodexText(role, text) ==
  IF text = << >> THEN << >> ELSE <<[type |-> "message", role |-> role, text |-> text]>>

\* A variant with a bug: a message with text loses its calls.
CodexItemsTextOrCalls(m) ==
  CASE m.role = "system" -> << >>
    [] m.role \in {"user", "assistant"} ->
         IF m.content # << >> THEN CodexText(m.role, m.content) ELSE CodexCalls(m.calls)
    [] m.role = "tool" -> <<[type |-> "function_call_output", id |-> m.id, text |-> m.content]>>

\* A variant with a bug: blank messages are left out, outputs of tools too.
CodexItemsNotBlank(m) ==
  CASE m.role = "system" -> << >>
    [] m.role \in {"user", "assistant"} -> CodexText(m.role, m.content) \o CodexCalls(m.calls)
    [] m.role = "tool" ->
         IF m.content = << >> THEN << >>
         ELSE <<[type |-> "function_call_output", id |-> m.id, text |-> m.content]>>

\* The items of one message: a text with calls is the assistant's.
CodexItems(m) ==
  CASE m.role = "system" -> << >>
    [] m.role \in {"user", "assistant"} ->
         CodexText(IF m.calls = << >> THEN m.role ELSE "assistant", m.content) \o CodexCalls(m.calls)
    [] m.role = "tool" -> <<[type |-> "function_call_output", id |-> m.id, text |-> m.content]>>

BuildRequest(conversation) ==
  [instructions |-> Instructions(conversation),
   input |-> Collect(CodexItems, conversation)]

(***************************************************************************)
(* The OpenAI-compatible provider's request                                *)
(***************************************************************************)
\* A variant with a bug: only an assistant's message has a content.
TranslateContentless(conversation) ==
  [i \in DOMAIN conversation |->
     LET m == conversation[i]
     IN  [role |-> m.role, content |-> IF m.calls # << >> THEN << >> ELSE m.content,
          calls |-> CodexCalls(m.calls), id |-> m.id]]

\* translateOpenAIMessages: message by message.
TranslateOpenAIMessages(conversation) ==
  [i \in DOMAIN conversation |->
     LET m == conversation[i]
     IN  [role |-> m.role, content |-> m.content,
          calls |-> CodexCalls(m.calls), id |-> IF m.role = "tool" THEN m.id ELSE << >>]]

-----------------------------------------------------------------------------
(***************************************************************************)
(* The answer                                                              *)
(***************************************************************************)
\* What a response may consist of, in any order: texts, calls, and items the
\* providers do not know.
Item(r, i) ==
  {[type |-> "message", text |-> t] : t \in Texts}
    \union {[type |-> "function_call", id |-> <<r, i>>, arguments |-> a] : a \in Written}
    \union {[type |-> "other"]}

Outputs(r) == {output \in UNION {[1 .. n -> UNION {Item(r, i) : i \in 1 .. n}] : n \in 0 .. MaxItems} :
                 \A i \in DOMAIN output : output[i] \in Item(r, i)}

\* The texts of it that are not blank, joined.
TextOf(item) == IF item.type = "message" THEN item.text ELSE << >>
Content(output) == Collect(TextOf, output)

Unmarshal(arguments) == CASE arguments = "object" -> "object"
                          [] arguments = "blank" -> "empty"
                          [] arguments = "malformed" -> "raw"

CallOf(item) == IF item.type = "function_call" THEN <<item>> ELSE << >>
Calls(output) == Collect(CallOf, output)

ToolCalls(output) ==
  [i \in DOMAIN Calls(output) |->
     [id |-> Calls(output)[i].id, arguments |-> Unmarshal(Calls(output)[i].arguments)]]

-----------------------------------------------------------------------------
Init ==
  /\ provider \in {"codex_oauth", "openai_compat"}
  /\ messages \in Histories
  /\ request = << >>
  /\ pc = "ready"
  /\ round = 0
  /\ given = << >>
  /\ reply = "none"

\* Complete sends the whole conversation.
Complete ==
  /\ pc = "ready"
  /\ request' = IF provider = "codex_oauth" THEN BuildRequest(messages)
                                            ELSE TranslateOpenAIMessages(messages)
  /\ pc' = "sent"
  /\ UNCHANGED <<provider, messages, round, given, reply>>

\* No answer is read: the request fails, the status is not 2xx, the body is
\* not JSON or has an error or no choices; or the stream ends, or says
\* "[DONE]", or has a line of a megabyte, before an event
\* "response.completed".  Other events, and lines that are none, are passed
\* over, and what was read of a text with them is not used.
CompleteFails ==
  /\ pc = "sent"
  /\ pc' = "done"
  /\ reply' = "error"
  /\ UNCHANGED <<provider, messages, request, round, given>>

\* The response without tool calls is the reply, which may be blank.
Answer(output) ==
  /\ pc = "sent"
  /\ ToolCalls(output) = << >>
  /\ pc' = "done"
  /\ reply' = IF Content(output) = << >> THEN "nothing" ELSE "reply"
  /\ UNCHANGED <<provider, messages, request, round, given>>

\* With calls it joins the conversation, and so do the outputs of the tools,
\* which may be blank.
CallTools(output, text) ==
  LET calls == ToolCalls(output)
  IN  /\ pc = "sent" /\ calls # << >> /\ round + 1 < MaxRounds
      /\ given' = given \o Calls(output)
      /\ messages' = messages
           \o <<[Message("assistant", Content(output)) EXCEPT !.calls = calls]>>
           \o [i \in DOMAIN calls |-> [Message("tool", text) EXCEPT !.id = calls[i].id]]
      /\ pc' = "ready"
      /\ round' = round + 1
      /\ UNCHANGED <<provider, request, reply>>

\* After the last round the loop gives up, the tools having been called.
GiveUp(output) ==
  /\ pc = "sent"
  /\ ToolCalls(output) # << >> /\ round + 1 = MaxRounds
  /\ pc' = "done"
  /\ reply' = "error"
  /\ UNCHANGED <<provider, messages, request, round, given>>

Next ==
  \/ Complete \/ CompleteFails
  \/ \E output \in Outputs(round) :
       \/ Answer(output) \/ GiveUp(output)
       \/ \E text \in Texts : CallTools(output, text)

Spec == Init /\ [][Next]_vars

-----------------------------------------------------------------------------
(***************************************************************************)
(* Properties                                                              *)
(***************************************************************************)
\* A request of either kind as the sequence of what it says.
Says(item) ==
  CASE item.type = "message" -> <<item.role, item.text>>
    [] item.type = "function_call" -> <<"call", item.id, item.arguments>>
    [] item.type = "function_call_output" -> <<"output", item.id, item.text>>

CodexSays(body) == [i \in DOMAIN body.input |-> Says(body.input[i])]

MessageSays(m) ==
  CASE m.role = "system" -> << >>
    [] m.role = "tool" -> << <<"output", m.id, m.content>> >>
    [] m.role \in {"user", "assistant"} ->
         (IF m.content = << >> THEN << >> ELSE << <<m.role, m.content>> >>)
           \o [j \in DOMAIN m.calls |-> Says(m.calls[j])]

OpenAISays(body) == Collect(MessageSays, body)

Said == IF provider = "codex_oauth" THEN CodexSays(request) ELSE OpenAISays(request)

\* The two translations, written one without regard to the other, say the
\* same of every conversation, in the same order; and of a system message
\* one makes the instructions.
ProvidersAgree ==
  pc = "ready" =>
    LET codex == BuildRequest(messages)
        openai == TranslateOpenAIMessages(messages)
    IN  /\ CodexSays(codex) = OpenAISays(openai)
        /\ \A i \in DOMAIN openai : openai[i].role = "system" => codex.instructions = openai[i].content

\* The calls and the outputs in what is said.
OneCall(s) == IF s[1] = "call" THEN <<s>> ELSE << >>
OneOutput(s) == IF s[1] = "output" THEN <<s>> ELSE << >>
SaidCalls(said) == Collect(OneCall, said)
SaidOutputs(said) == Collect(OneOutput, said)

\* A server is sent back the very calls it made, all of them and in their
\* order through all rounds, with the arguments it wrote if they were an
\* object, whatever texts came before, between or after them.
CallsComeBack ==
  pc = "sent" =>
    LET calls == SaidCalls(Said)
    IN  /\ Len(calls) = Len(given)
        /\ \A i \in DOMAIN calls :
             /\ calls[i][2] = given[i].id
             /\ (calls[i][3] = "object") = (given[i].arguments = "object")

\* In a sequence of what is said, each call has one output and each output a
\* call, in the same order, with nothing but calls and outputs in between.
Paired(said) ==
  LET calls == SaidCalls(said)
      outputs == SaidOutputs(said)
  IN  /\ Len(calls) = Len(outputs)
      /\ \A i \in DOMAIN calls : calls[i][2] = outputs[i][2]
      /\ \A i \in DOMAIN said : said[i][1] = "output" =>
           i > 1 /\ said[i - 1][1] \in {"call", "output"}
      /\ \A i \in DOMAIN said : said[i][1] = "call" =>
           i < Len(said) /\ said[i + 1][1] \in {"call", "output"}

\* In what is sent, behind the calls of one response come their outputs.
OutputsFollowCalls == pc = "sent" => Paired(Said)
=============================================================================
