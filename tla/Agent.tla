------------------------------- MODULE Agent -------------------------------
(***************************************************************************)
(* internal/core/agent.go: what Process does with a message.               *)
(*                                                                         *)
(* Every message a gateway passes on is processed by a goroutine of its    *)
(* own.  The goroutines share the agent's memory and the session store:    *)
(* each of the places where one takes a lock, or waits for the model or    *)
(* for a tool, is a step of its own here.                                  *)
(*                                                                         *)
(* A message is known by the request it belongs to and its role, so that   *)
(* a log shows whose question or answer each entry is.  What the store     *)
(* does on disk is the subject of SessionStore; the agent drops the        *)
(* store's errors, so they make no difference here.  Main gives the agent  *)
(* a store, a fetcher, a browser and server tools; the model may be off.   *)
(***************************************************************************)
EXTENDS Naturals, FiniteSets, SequencesExt

CONSTANTS
  Requests,    \* messages the gateways hand to Process
  Chats,       \* session keys "<channel>:<chat id>"
  Global,      \* the session key "global"
  ChatOf,      \* messageSessionKey of each request
  MaxMemory,   \* a.maxMemory: 128 in NewAgent
  MaxRounds,   \* Complete calls of one request: 4 in replyWithLLM
  MaxCalls     \* bound on the tool calls of one response, for model checking

\* Both gateways set the channel and the chat of every message.
ASSUME ChatAssumption ==
  /\ Global \notin Chats
  /\ ChatOf \in [Requests -> Chats]

\* Only finitely many chats ever write: a status report counts them.
ASSUME FiniteAssumption == IsFiniteSet(Chats)

ASSUME BoundAssumption ==
  /\ MaxMemory \in Nat \ {0} /\ MaxRounds \in Nat \ {0} /\ MaxCalls \in Nat \ {0}

VARIABLES
  llm,         \* llm.enabled: there is a provider
  memory,      \* len(a.memory); only Stats looks at it
  sessions,    \* the log of each session in the store
  pc,          \* where each request is
  kind,        \* what its text asks for
  history,     \* the session as buildLLMMessages read it
  pending,     \* how many tool calls of the last response are still to execute
  round,       \* i in replyWithLLM
  stats,       \* AgentStats as far as Stats has read them
  outcome      \* what Process returned

vars == <<llm, memory, sessions, pc, kind, history, pending, round, stats, outcome>>

Keys == Chats \union {Global}

Question(r) == [role |-> "user", request |-> r]
Answer(r) == [role |-> "assistant", request |-> r]
Entries == [role : {"user", "assistant"}, request : Requests]

\* "tool" stands for the commands that call one tool: /fetch, /cmd, /service,
\* /docker and /logs.
Kinds == {"blank", "status", "tool", "browse", "chat"}

Outcomes == {"reply", "nothing", "error"}

Phases == {"new", "chat", "global", "dispatch", "countSessions", "countMessages", "browser",
           "complete", "tools", "answer", "answerChat", "answerGlobal", "done"}

\* The numbers in stats are left to StatusAddsUp.
TypeOK ==
  /\ llm \in BOOLEAN
  /\ memory \in 0 .. MaxMemory
  /\ sessions \in [Keys -> Seq(Entries)]
  /\ pc \in [Requests -> Phases]
  /\ kind \in [Requests -> Kinds]
  /\ history \in [Requests -> Seq(Entries)]
  /\ pending \in [Requests -> 0 .. MaxCalls]
  /\ round \in [Requests -> 0 .. MaxRounds - 1]
  /\ outcome \in [Requests -> Outcomes]

Init ==
  /\ llm \in BOOLEAN
  /\ memory = 0
  /\ sessions = [k \in Keys |-> << >>]
  /\ pc = [r \in Requests |-> "new"]
  /\ kind = [r \in Requests |-> "blank"]
  /\ history = [r \in Requests |-> << >>]
  /\ pending = [r \in Requests |-> 0]
  /\ round = [r \in Requests |-> 0]
  /\ stats = [r \in Requests |-> [memory |-> 0, sessions |-> 0, messages |-> 0]]
  /\ outcome = [r \in Requests |-> "nothing"]

-----------------------------------------------------------------------------
Goto(r, phase) == pc' = [pc EXCEPT ![r] = phase]

LoopVars == <<history, pending, round>>

\* Process returns, and the locals of replyWithLLM are gone.
Finish(r, result) ==
  /\ Goto(r, "done")
  /\ outcome' = [outcome EXCEPT ![r] = result]
  /\ history' = [history EXCEPT ![r] = << >>]
  /\ pending' = [pending EXCEPT ![r] = 0]
  /\ round' = [round EXCEPT ![r] = 0]

\* It goes on, with its locals as they are.
Proceed(r, phase) == Goto(r, phase) /\ UNCHANGED <<LoopVars, outcome>>

\* One more message in a.memory, which keeps the last MaxMemory.
GrowMemory == memory' = IF memory < MaxMemory THEN memory + 1 ELSE memory

\* The in-memory effect of sessions.AddMessage.
Store(key, entry) == sessions' = [sessions EXCEPT ![key] = Append(@, entry)]

(***************************************************************************)
(* remember: memory first, then the chat's session, then the global one.   *)
(***************************************************************************)
Process(r, k) ==
  /\ pc[r] = "new"
  /\ kind' = [kind EXCEPT ![r] = k]
  /\ IF k = "blank" THEN Finish(r, "nothing") /\ UNCHANGED memory
                    ELSE Proceed(r, "chat") /\ GrowMemory
  /\ UNCHANGED <<llm, sessions, stats>>

RememberInChat(r) ==
  /\ pc[r] = "chat"
  /\ Store(ChatOf[r], Question(r))
  /\ Proceed(r, "global")
  /\ UNCHANGED <<llm, memory, kind, stats>>

RememberInGlobal(r) ==
  /\ pc[r] = "global"
  /\ Store(Global, Question(r))
  /\ Proceed(r, "dispatch")
  /\ UNCHANGED <<llm, memory, kind, stats>>

(***************************************************************************)
(* /status: Stats takes the agent's lock and then, twice, the store's.     *)
(***************************************************************************)
CountMemory(r) ==
  /\ pc[r] = "dispatch" /\ kind[r] = "status"
  /\ stats' = [stats EXCEPT ![r].memory = memory]
  /\ Proceed(r, "countSessions")
  /\ UNCHANGED <<llm, memory, sessions, kind>>

SessionCount(r) ==
  /\ pc[r] = "countSessions"
  /\ stats' = [stats EXCEPT ![r].sessions = Cardinality({k \in Keys : sessions[k] # << >>})]
  /\ Proceed(r, "countMessages")
  /\ UNCHANGED <<llm, memory, sessions, kind>>

\* A variant with a bug: the total is assigned in the loop, not added to.
LastMessageCount(r) ==
  /\ pc[r] = "countMessages"
  /\ \E k \in Keys : sessions[k] # << >> /\ stats' = [stats EXCEPT ![r].messages = Len(sessions[k])]
  /\ Finish(r, "reply")
  /\ UNCHANGED <<llm, memory, sessions, kind>>

TotalMessageCount(r) ==
  /\ pc[r] = "countMessages"
  /\ stats' = [stats EXCEPT ![r].messages =
                 FoldFunction(LAMBDA log, total : Len(log) + total, 0, sessions)]
  /\ Finish(r, "reply")
  /\ UNCHANGED <<llm, memory, sessions, kind>>

(***************************************************************************)
(* The other commands.  One with the wrong words is answered with its       *)
(* usage; one without any goes to the model, since texts are trimmed.      *)
(***************************************************************************)
\* /fetch, /cmd, /service, /docker and /logs: one call of a tool.
RunTool(r) ==
  /\ pc[r] = "dispatch" /\ kind[r] = "tool"
  /\ \E result \in {"reply", "error"} : Finish(r, result)
  /\ UNCHANGED <<llm, memory, sessions, kind, stats>>

\* /browse tries the fetcher first ...
FetchFirst(r) ==
  /\ pc[r] = "dispatch" /\ kind[r] = "browse"
  /\ \/ Finish(r, "reply")
     \/ Proceed(r, "browser")
  /\ UNCHANGED <<llm, memory, sessions, kind, stats>>

\* ... and the browser if that failed or found no text.
Browse(r) ==
  /\ pc[r] = "browser"
  /\ \E result \in {"reply", "error"} : Finish(r, result)
  /\ UNCHANGED <<llm, memory, sessions, kind, stats>>

\* Without a model, a message that is no command gets a fixed reply.
NoModel(r) ==
  /\ pc[r] = "dispatch" /\ kind[r] = "chat" /\ ~ llm
  /\ Finish(r, "reply")
  /\ UNCHANGED <<llm, memory, sessions, kind, stats>>

(***************************************************************************)
(* replyWithLLM                                                            *)
(***************************************************************************)
\* A variant with a bug: the history is that of the global session.
BuildFromGlobal(r) ==
  /\ pc[r] = "dispatch" /\ kind[r] = "chat" /\ llm
  /\ history' = [history EXCEPT ![r] = sessions[Global]]
  /\ Goto(r, "complete")
  /\ UNCHANGED <<llm, memory, sessions, kind, pending, round, stats, outcome>>

\* buildLLMMessages: the whole log of the chat.
BuildLLMMessages(r) ==
  /\ pc[r] = "dispatch" /\ kind[r] = "chat" /\ llm
  /\ history' = [history EXCEPT ![r] = sessions[ChatOf[r]]]
  /\ Goto(r, "complete")
  /\ UNCHANGED <<llm, memory, sessions, kind, pending, round, stats, outcome>>

\* a.llm.Complete fails, ...
CompleteFails(r) ==
  /\ pc[r] = "complete"
  /\ Finish(r, "error")
  /\ UNCHANGED <<llm, memory, sessions, kind, stats>>

\* A variant with a bug: the reply is returned without rememberAssistant.
AnswerUnremembered(r) ==
  /\ pc[r] = "complete"
  /\ \E result \in {"reply", "nothing"} : Finish(r, result)
  /\ UNCHANGED <<llm, memory, sessions, kind, stats>>

\* ... or answers without tool calls; rememberAssistant drops a blank reply, ...
CompleteAnswers(r) ==
  /\ pc[r] = "complete"
  /\ \/ Proceed(r, "answer")
     \/ Finish(r, "nothing")
  /\ UNCHANGED <<llm, memory, sessions, kind, stats>>

\* ... or asks for n tools.
CompleteCallsTools(r, n) ==
  /\ pc[r] = "complete"
  /\ pending' = [pending EXCEPT ![r] = n]
  /\ Goto(r, "tools")
  /\ UNCHANGED <<llm, memory, sessions, kind, history, round, stats, outcome>>

\* executeToolCall: the call has an output, whatever happens.  What the model
\* is sent of the calls and their outputs is the subject of Provider.
ExecuteToolCall(r) ==
  /\ pc[r] = "tools" /\ pending[r] > 0
  /\ pending' = [pending EXCEPT ![r] = @ - 1]
  /\ UNCHANGED <<llm, memory, sessions, pc, kind, history, round, stats, outcome>>

\* The end of the loop body: another Complete, or the iteration limit.
NextRound(r) ==
  /\ pc[r] = "tools" /\ pending[r] = 0
  /\ \/ /\ round[r] + 1 < MaxRounds
        /\ round' = [round EXCEPT ![r] = @ + 1]
        /\ Goto(r, "complete")
        /\ UNCHANGED <<history, pending, outcome>>
     \/ /\ round[r] + 1 = MaxRounds
        /\ Finish(r, "error")
  /\ UNCHANGED <<llm, memory, sessions, kind, stats>>

(***************************************************************************)
(* rememberAssistant, with a reply that is not blank                       *)
(***************************************************************************)
RememberAnswer(r) ==
  /\ pc[r] = "answer"
  /\ GrowMemory
  /\ Proceed(r, "answerChat")
  /\ UNCHANGED <<llm, sessions, kind, stats>>

AnswerInChat(r) ==
  /\ pc[r] = "answerChat"
  /\ Store(ChatOf[r], Answer(r))
  /\ Proceed(r, "answerGlobal")
  /\ UNCHANGED <<llm, memory, kind, stats>>

\* A variant with a bug: the chat's key is used twice.
AnswerInChatAgain(r) ==
  /\ pc[r] = "answerGlobal"
  /\ Store(ChatOf[r], Answer(r))
  /\ Finish(r, "reply")
  /\ UNCHANGED <<llm, memory, kind, stats>>

AnswerInGlobal(r) ==
  /\ pc[r] = "answerGlobal"
  /\ Store(Global, Answer(r))
  /\ Finish(r, "reply")
  /\ UNCHANGED <<llm, memory, kind, stats>>

-----------------------------------------------------------------------------
Commands(r) == \/ CountMemory(r) \/ SessionCount(r) \/ TotalMessageCount(r)
               \/ RunTool(r) \/ FetchFirst(r) \/ Browse(r) \/ NoModel(r)

ReplyWithLLM(r) == \/ BuildLLMMessages(r) \/ CompleteFails(r) \/ CompleteAnswers(r)
                   \/ \E n \in 1 .. MaxCalls : CompleteCallsTools(r, n)
                   \/ ExecuteToolCall(r) \/ NextRound(r)
                   \/ RememberAnswer(r) \/ AnswerInChat(r) \/ AnswerInGlobal(r)

\* The steps of the goroutine once the gateway has started it.
Continue(r) == RememberInChat(r) \/ RememberInGlobal(r) \/ Commands(r) \/ ReplyWithLLM(r)

Next == \E r \in Requests : (\E k \in Kinds : Process(r, k)) \/ Continue(r)

\* The scheduler runs every goroutine, and the model and the tools answer:
\* each of their calls has a timeout.  A message need not arrive.
Fairness == \A r \in Requests : WF_vars(Continue(r))

Spec == Init /\ [][Next]_vars /\ Fairness

-----------------------------------------------------------------------------
(***************************************************************************)
(* Properties                                                              *)
(***************************************************************************)
\* The conversation the model is asked to continue is the chat's own log as
\* it was at one moment: nothing of another chat, nothing out of order, the
\* request's question once and no answer to it.  (Later requests of the chat
\* may be in it, and their answers.)
ConversationIsChatLog ==
  \A r \in Requests : pc[r] \in {"complete", "tools", "answer"} =>
    /\ IsPrefix(history[r], sessions[ChatOf[r]])
    /\ \A i \in DOMAIN history[r] : ChatOf[history[r][i].request] = ChatOf[r]
    /\ Cardinality({i \in DOMAIN history[r] : history[r][i] = Question(r)}) = 1
    /\ \A i \in DOMAIN history[r] : history[r][i] # Answer(r)

\* The global log has exactly the messages of all chats, each once, but for
\* a message that its goroutine is just about to add.
Count(log, entry) == Cardinality({i \in DOMAIN log : log[i] = entry})

GlobalMirrorsChats ==
  \A r \in Requests :
    /\ Count(sessions[ChatOf[r]], Question(r))
         = Count(sessions[Global], Question(r)) + (IF pc[r] = "global" THEN 1 ELSE 0)
    /\ Count(sessions[ChatOf[r]], Answer(r))
         = Count(sessions[Global], Answer(r)) + (IF pc[r] = "answerGlobal" THEN 1 ELSE 0)
    /\ Count(sessions[Global], Question(r)) <= 1 /\ Count(sessions[Global], Answer(r)) <= 1

\* An answer is in the logs when the request has returned it, and only then:
\* a request that failed, that had nothing to say or that was a command
\* leaves no answer behind.
AnswersKept ==
  \A r \in Requests : pc[r] = "done" =>
    (Answer(r) \in Range(sessions[ChatOf[r]]))
      <=> (kind[r] = "chat" /\ llm /\ outcome[r] = "reply")

\* A status report adds up although its numbers are read at different
\* moments: no fewer messages than sessions, and its own request is in each.
StatusAddsUp ==
  \A r \in Requests : kind[r] = "status" /\ pc[r] = "done" =>
    /\ stats[r].memory >= 1
    /\ stats[r].sessions >= 2
    /\ stats[r].messages >= stats[r].sessions
=============================================================================
