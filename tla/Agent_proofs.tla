---------------------------- MODULE Agent_proofs ----------------------------
(***************************************************************************)
(* Proofs about Agent, for any number of requests and chats, any memory    *)
(* and any number of rounds and calls.  Then about ChatSystem, the agent   *)
(* with its store, for any number of crashes and failed saves too: what    *)
(* SessionStore_proofs has about the store is used of the agent's.         *)
(***************************************************************************)
EXTENDS ChatSystem, FiniteSetTheorems, SequenceTheorems, WellFoundedInduction, TLAPS

-----------------------------------------------------------------------------
(***************************************************************************)
(* Logs                                                                    *)
(***************************************************************************)
\* A prefix agrees with the whole at each of its positions, and conversely.
LEMMA PrefixPointwise ==
  ASSUME NEW T, NEW s \in Seq(T), NEW t \in Seq(T)
  PROVE  IsPrefix(s, t) <=> /\ Len(s) <= Len(t)
                            /\ \A i \in 1 .. Len(s) : s[i] = t[i]
<1>1. Len(s) \in Nat /\ Len(t) \in Nat
  BY LenProperties
<1>2. SubSeq(s, 1, Len(s)) = s
  BY SubSeqFull
<1>3. ASSUME Len(s) <= Len(t)
      PROVE  /\ SubSeq(t, 1, Len(s)) \in Seq(T)
             /\ Len(SubSeq(t, 1, Len(s))) = Len(s)
             /\ \A i \in 1 .. Len(s) : SubSeq(t, 1, Len(s))[i] = t[i]
  BY <1>1, <1>3
<1> QED
  BY <1>1, <1>2, <1>3, SeqEqual DEF IsPrefix

\* A log is a prefix of itself, and stays one of what it grows to.
LEMMA PrefixGrows ==
  ASSUME NEW T, NEW s \in Seq(T), NEW t \in Seq(T), NEW e \in T
  PROVE  /\ IsPrefix(t, t)
         /\ IsPrefix(s, t) => IsPrefix(s, Append(t, e))
<1>1. /\ Append(t, e) \in Seq(T) /\ Len(s) \in Nat /\ Len(t) \in Nat
      /\ Len(Append(t, e)) = Len(t) + 1
      /\ \A i \in 1 .. Len(t) : Append(t, e)[i] = t[i]
  BY AppendProperties, LenProperties
<1>2. IsPrefix(t, t)
  BY PrefixPointwise
<1>3. ASSUME IsPrefix(s, t) PROVE IsPrefix(s, Append(t, e))
  <2>1. Len(s) <= Len(t) /\ \A i \in 1 .. Len(s) : s[i] = t[i]
    BY <1>3, PrefixPointwise
  <2>2. Len(s) <= Len(Append(t, e)) /\ \A i \in 1 .. Len(s) : s[i] = Append(t, e)[i]
    BY <1>1, <2>1
  <2> QED BY <1>1, <2>2, PrefixPointwise
<1> QED BY <1>2, <1>3

\* How often an entry is in a log: never in the empty one, once more in one to
\* which it has been added.
LEMMA CountEmpty ==
  ASSUME NEW e
  PROVE  Count(<< >>, e) = 0
<1>1. {i \in DOMAIN << >> : << >>[i] = e} = {}
  OBVIOUS
<1> QED BY <1>1, FS_EmptySet DEF Count

LEMMA CountAppend ==
  ASSUME NEW log \in Seq(Entries), NEW added \in Entries, NEW e \in Entries
  PROVE  /\ Count(log, e) \in Nat
         /\ Count(Append(log, added), e) = Count(log, e) + (IF added = e THEN 1 ELSE 0)
<1> DEFINE At(s) == {i \in DOMAIN s : s[i] = e}
           n == Len(log)
<1>1. /\ n \in Nat /\ DOMAIN log = 1 .. n
      /\ DOMAIN Append(log, added) = 1 .. (n + 1)
      /\ Append(log, added)[n + 1] = added
      /\ \A i \in 1 .. n : Append(log, added)[i] = log[i]
  BY AppendProperties, LenProperties
<1>2. IsFiniteSet(At(log)) /\ Cardinality(At(log)) \in Nat
  <2>1. IsFiniteSet(1 .. n)
    <3>1. 1 \in Int /\ n \in Int
      BY <1>1
    <3> HIDE DEF n
    <3> QED BY <3>1, FS_Interval
  <2>2. At(log) \subseteq 1 .. n
    BY <1>1
  <2> QED BY <2>1, <2>2, FS_Subset, FS_CardinalityType
<1>3. CASE added = e
  <2>1. At(Append(log, added)) = At(log) \cup {n + 1} /\ n + 1 \notin At(log)
    BY <1>1, <1>3
  <2> HIDE DEF At
  <2>2. Cardinality(At(Append(log, added))) = Cardinality(At(log)) + 1
    BY <1>2, <2>1, FS_AddElement
  <2> QED BY <1>2, <1>3, <2>2 DEF Count, At
<1>4. CASE added # e
  <2>1. At(Append(log, added)) = At(log)
    BY <1>1, <1>4
  <2> HIDE DEF At
  <2>2. Cardinality(At(Append(log, added))) = Cardinality(At(log)) + 0
    BY <1>2, <2>1
  <2> QED BY <1>2, <1>4, <2>2 DEF Count, At
<1> QED BY <1>3, <1>4

\* An entry that is not counted is nowhere in the log, one that is counted is.
LEMMA CountZero ==
  ASSUME NEW log \in Seq(Entries), NEW e \in Entries
  PROVE  Count(log, e) = 0 <=> \A i \in DOMAIN log : log[i] # e
<1> DEFINE At == {i \in DOMAIN log : log[i] = e}
<1>1. IsFiniteSet(At)
  <2>1. Len(log) \in Nat /\ DOMAIN log = 1 .. Len(log)
    BY LenProperties
  <2>2. IsFiniteSet(1 .. Len(log)) /\ At \subseteq 1 .. Len(log)
    BY <2>1, FS_Interval
  <2> QED BY <2>2, FS_Subset
<1>2. Cardinality(At) = 0 <=> At = {}
  BY <1>1, FS_EmptySet
<1> QED BY <1>2 DEF Count

-----------------------------------------------------------------------------
(***************************************************************************)
(* The invariant                                                           *)
(***************************************************************************)
\* A blank message does nothing, and what only messages of one kind can reach
\* is reached by such messages.
KindOK(r) ==
  /\ kind[r] = "blank" => pc[r] \in {"new", "done"}
  /\ pc[r] \in {"countSessions", "countMessages"} => kind[r] = "status"
  /\ pc[r] = "browser" => kind[r] = "browse"
  /\ pc[r] \in {"complete", "tools", "answer", "answerChat", "answerGlobal"}
       => kind[r] = "chat" /\ llm

\* Where the question and the answer of a request are by now.
AskedInChat(r) == kind[r] # "blank" /\ pc[r] \notin {"new", "chat"}
AskedInGlobal(r) == AskedInChat(r) /\ pc[r] # "global"
AnsweredInGlobal(r) ==
  pc[r] = "done" /\ kind[r] = "chat" /\ llm /\ outcome[r] = "reply"
AnsweredInChat(r) == pc[r] = "answerGlobal" \/ AnsweredInGlobal(r)

Once(condition) == IF condition THEN 1 ELSE 0

CountOK(r) ==
  /\ Count(sessions[ChatOf[r]], Question(r)) = Once(AskedInChat(r))
  /\ Count(sessions[Global], Question(r)) = Once(AskedInGlobal(r))
  /\ Count(sessions[ChatOf[r]], Answer(r)) = Once(AnsweredInChat(r))
  /\ Count(sessions[Global], Answer(r)) = Once(AnsweredInGlobal(r))

\* A log has the messages of its chat alone.
OwnLog(log, chat) == \A i \in DOMAIN log : ChatOf[log[i].request] = chat

\* ConversationIsChatLog for one request, in terms of logs.
Asking(r) == pc[r] \in {"complete", "tools", "answer"}
ConversationOK(r) ==
  Asking(r) =>
    /\ IsPrefix(history[r], sessions[ChatOf[r]])
    /\ OwnLog(history[r], ChatOf[r])
    /\ Count(history[r], Question(r)) = 1
    /\ Count(history[r], Answer(r)) = 0

AgentInv ==
  /\ \A chat \in Chats : OwnLog(sessions[chat], chat)
  /\ \A r \in Requests : KindOK(r) /\ CountOK(r) /\ ConversationOK(r)

-----------------------------------------------------------------------------
(***************************************************************************)
(* Types                                                                   *)
(***************************************************************************)
LEMMA EntryTypes ==
  ASSUME NEW r \in Requests
  PROVE  /\ Question(r) \in Entries /\ Answer(r) \in Entries
         /\ Question(r) # Answer(r)
         /\ Question(r).request = r /\ Answer(r).request = r
         /\ \A q \in Requests \ {r} :
              /\ Question(r) # Question(q) /\ Question(r) # Answer(q)
              /\ Answer(r) # Answer(q) /\ Answer(r) # Question(q)
BY DEF Question, Answer, Entries

LEMMA KeyTypes ==
  /\ Global \in Keys /\ Chats \subseteq Keys
  /\ \A r \in Requests : ChatOf[r] \in Chats /\ ChatOf[r] \in Keys /\ ChatOf[r] # Global
BY ChatAssumption DEF Keys

LEMMA TypeInit == Init => TypeOK
<1> SUFFICES ASSUME Init PROVE TypeOK
  OBVIOUS
<1>1. sessions \in [Keys -> Seq(Entries)] /\ history \in [Requests -> Seq(Entries)]
  BY EmptySeq DEF Init
<1>2. /\ memory \in 0 .. MaxMemory
      /\ round \in [Requests -> 0 .. MaxRounds - 1]
      /\ pending \in [Requests -> 0 .. MaxCalls]
  BY BoundAssumption DEF Init
<1>3. /\ pc \in [Requests -> Phases] /\ kind \in [Requests -> Kinds]
      /\ outcome \in [Requests -> Outcomes] /\ llm \in BOOLEAN
  BY DEF Init, Phases, Kinds, Outcomes
<1> QED BY <1>1, <1>2, <1>3 DEF TypeOK

\* The locals of a request, when it returns and when it goes on.
LocalsOK ==
  /\ pc \in [Requests -> Phases]
  /\ history \in [Requests -> Seq(Entries)]
  /\ pending \in [Requests -> 0 .. MaxCalls]
  /\ round \in [Requests -> 0 .. MaxRounds - 1]
  /\ outcome \in [Requests -> Outcomes]

LEMMA FinishType ==
  ASSUME TypeOK, NEW r \in Requests, NEW result \in Outcomes, Finish(r, result)
  PROVE  LocalsOK'
<1>1. 0 \in 0 .. MaxRounds - 1 /\ 0 \in 0 .. MaxCalls /\ << >> \in Seq(Entries)
  BY EmptySeq, BoundAssumption
<1>2. pc' \in [Requests -> Phases] /\ outcome' \in [Requests -> Outcomes]
  BY DEF TypeOK, Finish, Goto, Phases
<1>3. /\ history' \in [Requests -> Seq(Entries)]
      /\ pending' \in [Requests -> 0 .. MaxCalls]
      /\ round' \in [Requests -> 0 .. MaxRounds - 1]
  BY <1>1 DEF TypeOK, Finish
<1> QED BY <1>2, <1>3 DEF LocalsOK

LEMMA ProceedType ==
  ASSUME TypeOK, NEW r \in Requests, NEW phase \in Phases, Proceed(r, phase)
  PROVE  LocalsOK'
BY DEF TypeOK, LocalsOK, Proceed, Goto, LoopVars

LEMMA StoreType ==
  ASSUME TypeOK, NEW key \in Keys, NEW entry \in Entries, Store(key, entry)
  PROVE  sessions' \in [Keys -> Seq(Entries)]
BY AppendProperties DEF TypeOK, Store

\* Every step but those that call AddMessage leaves the logs alone.
Quiet(r) == \/ Commands(r)
            \/ BuildLLMMessages(r) \/ CompleteFails(r) \/ CompleteAnswers(r)
            \/ \E n \in 1 .. MaxCalls : CompleteCallsTools(r, n)
            \/ ExecuteToolCall(r) \/ NextRound(r) \/ RememberAnswer(r)

LEMMA QuietSessions ==
  ASSUME NEW r \in Requests, Quiet(r)
  PROVE  UNCHANGED <<llm, sessions, kind>>
BY DEF Quiet, Commands, CountMemory, SessionCount, TotalMessageCount, RunTool,
       FetchFirst, Browse, NoModel, BuildLLMMessages, CompleteFails, CompleteAnswers,
       CompleteCallsTools, ExecuteToolCall, NextRound, RememberAnswer

LEMMA QuietType ==
  ASSUME TypeOK, NEW r \in Requests, Quiet(r)
  PROVE  TypeOK'
<1>0. /\ pending[r] \in 0 .. MaxCalls /\ round[r] \in 0 .. MaxRounds - 1
      /\ memory \in 0 .. MaxMemory
      /\ MaxMemory \in Nat \ {0} /\ MaxRounds \in Nat \ {0} /\ MaxCalls \in Nat \ {0}
  BY BoundAssumption DEF TypeOK
<1>1. LocalsOK'
  <2> USE DEF Phases, Outcomes
  <2>1. CASE CountMemory(r) \/ SessionCount(r) \/ RememberAnswer(r)
    BY <2>1, ProceedType DEF CountMemory, SessionCount, RememberAnswer
  <2>2. CASE TotalMessageCount(r)
    BY <2>2, FinishType DEF TotalMessageCount
  <2>3. CASE RunTool(r) \/ Browse(r) \/ NoModel(r) \/ CompleteFails(r)
    BY <2>3, FinishType DEF RunTool, Browse, NoModel, CompleteFails
  <2>4. CASE FetchFirst(r) \/ CompleteAnswers(r)
    BY <2>4, FinishType, ProceedType DEF FetchFirst, CompleteAnswers
  <2>5. CASE BuildLLMMessages(r)
    BY <2>5, KeyTypes DEF BuildLLMMessages, Goto, TypeOK, LocalsOK
  <2>6. ASSUME NEW n \in 1 .. MaxCalls, CompleteCallsTools(r, n) PROVE LocalsOK'
    <3>1. n \in 0 .. MaxCalls
      BY <1>0
    <3> QED BY <2>6, <3>1 DEF CompleteCallsTools, Goto, TypeOK, LocalsOK
  <2>7. CASE ExecuteToolCall(r)
    <3>1. pending[r] - 1 \in 0 .. MaxCalls
      BY <1>0, <2>7 DEF ExecuteToolCall
    <3> QED BY <2>7, <3>1 DEF ExecuteToolCall, TypeOK, LocalsOK
  <2>8. CASE NextRound(r) /\ round[r] + 1 < MaxRounds
    <3>1. round[r] + 1 \in 0 .. MaxRounds - 1 /\ round[r] + 1 # MaxRounds
      BY <1>0, <2>8
    <3> QED BY <2>8, <3>1 DEF NextRound, Goto, TypeOK, LocalsOK
  <2>9. CASE NextRound(r) /\ ~ (round[r] + 1 < MaxRounds)
    BY <2>9, FinishType DEF NextRound
  <2> QED
    BY <2>1, <2>2, <2>3, <2>4, <2>5, <2>6, <2>7, <2>8, <2>9 DEF Quiet, Commands
<1>2. memory' \in 0 .. MaxMemory
  <2>1. CASE RememberAnswer(r)
    <3>1. memory' = IF memory < MaxMemory THEN memory + 1 ELSE memory
      BY <2>1 DEF RememberAnswer, GrowMemory
    <3> QED BY <1>0, <3>1
  <2>2. CASE UNCHANGED memory
    BY <1>0, <2>2
  <2> QED BY <2>1, <2>2 DEF Quiet, Commands, CountMemory, SessionCount, TotalMessageCount, RunTool,
       FetchFirst, Browse, NoModel, BuildLLMMessages, CompleteFails, CompleteAnswers,
       CompleteCallsTools, ExecuteToolCall, NextRound, RememberAnswer
<1>3. UNCHANGED <<llm, sessions, kind>>
  BY QuietSessions
<1> QED BY <1>1, <1>2, <1>3 DEF TypeOK, LocalsOK

\* Adds, of ChatSystem, has the steps that call AddMessage.
LEMMA AddsTypes ==
  ASSUME NEW r \in Requests, NEW key, NEW entry, Adds(r, key, entry)
  PROVE  /\ key \in Keys /\ entry \in Entries /\ Store(key, entry)
         /\ key \in {ChatOf[r], Global} /\ entry \in {Question(r), Answer(r)}
BY KeyTypes, EntryTypes
DEF Adds, RememberInChat, RememberInGlobal, AnswerInChat, AnswerInGlobal

LEMMA AddsType ==
  ASSUME TypeOK, NEW r \in Requests, NEW key, NEW entry, Adds(r, key, entry)
  PROVE  TypeOK'
<1>1. sessions' \in [Keys -> Seq(Entries)]
  BY AddsTypes, StoreType
<1>2. LocalsOK'
  BY FinishType, ProceedType
  DEF Adds, RememberInChat, RememberInGlobal, AnswerInChat, AnswerInGlobal, Phases, Outcomes
<1>3. UNCHANGED <<llm, memory, kind>>
  BY DEF Adds, RememberInChat, RememberInGlobal, AnswerInChat, AnswerInGlobal
<1> QED BY <1>1, <1>2, <1>3 DEF TypeOK, LocalsOK

\* The steps of Next, sorted into those that add to a log and the others.
LEMMA StepCases ==
  ASSUME Next
  PROVE  \E r \in Requests :
           \/ \E k \in Kinds : Process(r, k)
           \/ \E key, entry : Adds(r, key, entry)
           \/ Quiet(r)
<1>1. PICK r \in Requests : (\E k \in Kinds : Process(r, k)) \/ Continue(r)
  BY DEF Next
<1>2. ASSUME RememberInChat(r) \/ RememberInGlobal(r) \/ AnswerInChat(r) \/ AnswerInGlobal(r)
      PROVE  \E key, entry : Adds(r, key, entry)
  BY <1>2 DEF Adds
<1> QED BY <1>1, <1>2 DEF Continue, ReplyWithLLM, Quiet

LEMMA ProcessType ==
  ASSUME TypeOK, NEW r \in Requests, NEW k \in Kinds, Process(r, k)
  PROVE  TypeOK'
<1>1. LocalsOK'
  BY FinishType, ProceedType DEF Process, Phases, Outcomes
<1>2. memory' \in 0 .. MaxMemory
  BY BoundAssumption DEF Process, GrowMemory, TypeOK
<1> QED BY <1>1, <1>2 DEF Process, TypeOK, LocalsOK

LEMMA TypeStep ==
  ASSUME TypeOK, [Next]_vars
  PROVE  TypeOK'
<1>1. CASE Next
  BY <1>1, StepCases, ProcessType, AddsType, QuietType
<1>2. CASE UNCHANGED vars
  BY <1>2 DEF vars, TypeOK
<1> QED BY <1>1, <1>2

\* The state of the agent has its types: a.memory keeps to its limit, and the
\* tool loop to its number of rounds and calls.
THEOREM TypeCorrect == Spec => []TypeOK
<1> QED BY TypeInit, TypeStep, PTL DEF Spec

-----------------------------------------------------------------------------
(***************************************************************************)
(* The logs                                                                *)
(***************************************************************************)
\* A step of one request leaves the others where they are.
Others(r) ==
  /\ llm' = llm
  /\ \A q \in Requests \ {r} :
       /\ pc'[q] = pc[q] /\ kind'[q] = kind[q]
       /\ outcome'[q] = outcome[q] /\ history'[q] = history[q]

LEMMA ProcessOthers ==
  ASSUME TypeOK, NEW r \in Requests, NEW k \in Kinds, Process(r, k)
  PROVE  Others(r)
BY DEF TypeOK, Others, Process, Finish, Proceed, Goto, LoopVars

LEMMA AddsOthers ==
  ASSUME TypeOK, NEW r \in Requests, NEW key, NEW entry, Adds(r, key, entry)
  PROVE  Others(r)
BY DEF TypeOK, Others, Adds, RememberInChat, RememberInGlobal, AnswerInChat, AnswerInGlobal,
       Finish, Proceed, Goto, LoopVars

LEMMA QuietOthers ==
  ASSUME TypeOK, NEW r \in Requests, Quiet(r)
  PROVE  Others(r)
<1> USE DEF TypeOK, Others, Finish, Proceed, Goto, LoopVars
<1>1. CASE CountMemory(r) \/ SessionCount(r) \/ TotalMessageCount(r) \/ RememberAnswer(r)
  BY <1>1 DEF CountMemory, SessionCount, TotalMessageCount, RememberAnswer
<1>2. CASE RunTool(r) \/ Browse(r) \/ NoModel(r) \/ CompleteFails(r)
  BY <1>2 DEF RunTool, Browse, NoModel, CompleteFails
<1>3. CASE FetchFirst(r) \/ CompleteAnswers(r)
  BY <1>3 DEF FetchFirst, CompleteAnswers
<1>4. CASE BuildLLMMessages(r) \/ ExecuteToolCall(r) \/ NextRound(r)
  BY <1>4 DEF BuildLLMMessages, ExecuteToolCall, NextRound
<1>5. ASSUME NEW n \in 1 .. MaxCalls, CompleteCallsTools(r, n) PROVE Others(r)
  BY <1>5 DEF CompleteCallsTools
<1> QED BY <1>1, <1>2, <1>3, <1>4, <1>5 DEF Quiet, Commands

\* What AddMessage does to the numbers of entries, and to prefixes.
LEMMA StoreCounts ==
  ASSUME TypeOK, NEW key \in Keys, NEW entry \in Entries, Store(key, entry),
         NEW k \in Keys
  PROVE  /\ \A e \in Entries :
              Count(sessions'[k], e)
                = Count(sessions[k], e) + (IF k = key /\ entry = e THEN 1 ELSE 0)
         /\ \A s \in Seq(Entries) :
              IsPrefix(s, sessions[k]) => IsPrefix(s, sessions'[k])
         /\ \A chat : OwnLog(sessions[k], chat)
              /\ (k = key => ChatOf[entry.request] = chat) => OwnLog(sessions'[k], chat)
<1>1. sessions[k] \in Seq(Entries)
  BY DEF TypeOK
<1>2. CASE k = key
  <2>1. sessions'[k] = Append(sessions[k], entry)
    BY <1>2 DEF Store, TypeOK
  <2>2. \A e \in Entries :
          Count(sessions'[k], e) = Count(sessions[k], e) + (IF entry = e THEN 1 ELSE 0)
    BY <1>1, <2>1, CountAppend
  <2>3. \A s \in Seq(Entries) : IsPrefix(s, sessions[k]) => IsPrefix(s, sessions'[k])
    BY <1>1, <2>1, PrefixGrows
  <2>4. ASSUME NEW chat, OwnLog(sessions[k], chat), ChatOf[entry.request] = chat
        PROVE  OwnLog(sessions'[k], chat)
    <3>1. /\ Len(sessions[k]) \in Nat /\ DOMAIN sessions[k] = 1 .. Len(sessions[k])
          /\ DOMAIN sessions'[k] = 1 .. Len(sessions[k]) + 1
          /\ sessions'[k][Len(sessions[k]) + 1] = entry
          /\ \A i \in 1 .. Len(sessions[k]) : sessions'[k][i] = sessions[k][i]
      BY <1>1, <2>1, AppendProperties, LenProperties
    <3> QED BY <2>4, <3>1 DEF OwnLog
  <2> QED BY <1>2, <2>2, <2>3, <2>4
<1>3. CASE k # key
  <2>1. sessions'[k] = sessions[k]
    BY <1>3 DEF Store, TypeOK
  <2>2. \A e \in Entries : Count(sessions[k], e) \in Nat
    BY <1>1, CountAppend
  <2> QED BY <1>3, <2>1, <2>2
<1> QED BY <1>2, <1>3

\* What a step makes of its own request: where it stands, and whether its
\* question and answer are in the logs.
SameMarks(r) ==
  /\ AskedInChat(r)' = AskedInChat(r) /\ AskedInGlobal(r)' = AskedInGlobal(r)
  /\ AnsweredInChat(r)' = AnsweredInChat(r) /\ AnsweredInGlobal(r)' = AnsweredInGlobal(r)

LEMMA OthersMarks ==
  ASSUME NEW r \in Requests, Others(r), NEW q \in Requests \ {r}
  PROVE  SameMarks(q) /\ (KindOK(q) => KindOK(q)')
BY DEF Others, SameMarks, KindOK, AskedInChat, AskedInGlobal, AnsweredInChat, AnsweredInGlobal

LEMMA ProcessMarks ==
  ASSUME TypeOK, NEW r \in Requests, NEW k \in Kinds, Process(r, k)
  PROVE  SameMarks(r) /\ KindOK(r)' /\ ~ Asking(r)'
<1>1. /\ pc[r] = "new" /\ kind'[r] = k
      /\ pc'[r] = IF k = "blank" THEN "done" ELSE "chat"
  BY DEF TypeOK, Process, Finish, Proceed, Goto
<1> QED
  BY <1>1
  DEF SameMarks, KindOK, Asking, AskedInChat, AskedInGlobal, AnsweredInChat, AnsweredInGlobal

LEMMA QuietMarks ==
  ASSUME TypeOK, NEW r \in Requests, KindOK(r), Quiet(r)
  PROVE  SameMarks(r) /\ KindOK(r)'
<1> USE DEF TypeOK, Finish, Proceed, Goto, SameMarks, KindOK,
            AskedInChat, AskedInGlobal, AnsweredInChat, AnsweredInGlobal
<1>1. CASE CountMemory(r) \/ SessionCount(r) \/ TotalMessageCount(r) \/ RememberAnswer(r)
  BY <1>1 DEF CountMemory, SessionCount, TotalMessageCount, RememberAnswer
<1>2. CASE RunTool(r) \/ Browse(r) \/ CompleteFails(r)
  BY <1>2 DEF RunTool, Browse, CompleteFails
<1>7. CASE NoModel(r)
  <2>1. pc[r] = "dispatch" /\ pc'[r] = "done" /\ kind'[r] = kind[r] /\ ~ llm /\ ~ llm'
    BY <1>7 DEF NoModel
  <2>2. kind[r] # "blank"
    BY <2>1
  <2> QED BY <2>1, <2>2
<1>3. CASE FetchFirst(r) \/ CompleteAnswers(r)
  BY <1>3 DEF FetchFirst, CompleteAnswers
<1>4. CASE BuildLLMMessages(r) \/ ExecuteToolCall(r)
  BY <1>4 DEF BuildLLMMessages, ExecuteToolCall
<1>5. CASE NextRound(r)
  BY <1>5 DEF NextRound
<1>6. ASSUME NEW n \in 1 .. MaxCalls, CompleteCallsTools(r, n) PROVE SameMarks(r) /\ KindOK(r)'
  BY <1>6 DEF CompleteCallsTools
<1> QED BY <1>1, <1>2, <1>3, <1>4, <1>5, <1>6, <1>7 DEF Quiet, Commands

LEMMA AddsMarks ==
  ASSUME TypeOK, NEW r \in Requests, KindOK(r), NEW key, NEW entry, Adds(r, key, entry)
  PROVE  /\ Once(AskedInChat(r)') = Once(AskedInChat(r))
              + Once(key = ChatOf[r] /\ entry = Question(r))
         /\ Once(AskedInGlobal(r)') = Once(AskedInGlobal(r))
              + Once(key = Global /\ entry = Question(r))
         /\ Once(AnsweredInChat(r)') = Once(AnsweredInChat(r))
              + Once(key = ChatOf[r] /\ entry = Answer(r))
         /\ Once(AnsweredInGlobal(r)') = Once(AnsweredInGlobal(r))
              + Once(key = Global /\ entry = Answer(r))
         /\ KindOK(r)' /\ ~ Asking(r)'
<1>0. ChatOf[r] # Global /\ Question(r) # Answer(r)
  BY KeyTypes, EntryTypes
<1>1. CASE RememberInChat(r) /\ key = ChatOf[r] /\ entry = Question(r)
  <2>1. pc[r] = "chat" /\ pc'[r] = "global" /\ kind'[r] = kind[r]
    BY <1>1 DEF TypeOK, RememberInChat, Proceed, Goto
  <2> QED
    BY <1>0, <1>1, <2>1
    DEF KindOK, Asking, Once, AskedInChat, AskedInGlobal, AnsweredInChat, AnsweredInGlobal
<1>2. CASE RememberInGlobal(r) /\ key = Global /\ entry = Question(r)
  <2>1. pc[r] = "global" /\ pc'[r] = "dispatch" /\ kind'[r] = kind[r]
    BY <1>2 DEF TypeOK, RememberInGlobal, Proceed, Goto
  <2> QED
    BY <1>0, <1>2, <2>1
    DEF KindOK, Asking, Once, AskedInChat, AskedInGlobal, AnsweredInChat, AnsweredInGlobal
<1>3. CASE AnswerInChat(r) /\ key = ChatOf[r] /\ entry = Answer(r)
  <2>1. /\ pc[r] = "answerChat" /\ pc'[r] = "answerGlobal" /\ kind'[r] = kind[r]
        /\ llm' = llm
    BY <1>3 DEF TypeOK, AnswerInChat, Proceed, Goto
  <2>2. kind[r] = "chat" /\ llm
    BY <2>1 DEF KindOK
  <2>3. llm'
    BY <2>1, <2>2, Zenon
  <2>4. /\ AskedInChat(r) /\ AskedInChat(r)' /\ AskedInGlobal(r) /\ AskedInGlobal(r)'
        /\ ~ AnsweredInChat(r) /\ AnsweredInChat(r)'
        /\ ~ AnsweredInGlobal(r) /\ ~ AnsweredInGlobal(r)'
    BY <2>1, <2>2, <2>3 DEF AskedInChat, AskedInGlobal, AnsweredInChat, AnsweredInGlobal
  <2>5. KindOK(r)' /\ ~ Asking(r)'
    BY <2>1, <2>2, <2>3 DEF KindOK, Asking
  <2> QED
    BY <1>0, <1>3, <2>4, <2>5 DEF Once
<1>4. CASE AnswerInGlobal(r) /\ key = Global /\ entry = Answer(r)
  <2>1. /\ pc[r] = "answerGlobal" /\ pc'[r] = "done" /\ kind'[r] = kind[r]
        /\ llm' = llm /\ outcome'[r] = "reply"
    BY <1>4 DEF TypeOK, AnswerInGlobal, Finish, Goto
  <2>2. kind[r] = "chat" /\ llm
    BY <2>1 DEF KindOK
  <2>3. llm'
    BY <2>1, <2>2, Zenon
  <2>4. /\ AskedInChat(r) /\ AskedInChat(r)' /\ AskedInGlobal(r) /\ AskedInGlobal(r)'
        /\ AnsweredInChat(r) /\ AnsweredInChat(r)'
        /\ ~ AnsweredInGlobal(r) /\ AnsweredInGlobal(r)'
    BY <2>1, <2>2, <2>3 DEF AskedInChat, AskedInGlobal, AnsweredInChat, AnsweredInGlobal
  <2>5. KindOK(r)' /\ ~ Asking(r)'
    BY <2>1, <2>2, <2>3 DEF KindOK, Asking
  <2> QED
    BY <1>0, <1>4, <2>4, <2>5 DEF Once
<1> QED BY <1>1, <1>2, <1>3, <1>4 DEF Adds

\* A conversation stays what it is while its request goes on with it and the
\* log of its chat grows.
LEMMA ConversationKept ==
  ASSUME TypeOK, NEW r \in Requests, ConversationOK(r),
         Asking(r)' => Asking(r) /\ history'[r] = history[r],
         \A s \in Seq(Entries) :
           IsPrefix(s, sessions[ChatOf[r]]) => IsPrefix(s, sessions'[ChatOf[r]])
  PROVE  ConversationOK(r)'
<1> SUFFICES ASSUME Asking(r)'
             PROVE  /\ IsPrefix(history'[r], sessions'[ChatOf[r]])
                    /\ OwnLog(history'[r], ChatOf[r])
                    /\ Count(history'[r], Question(r)) = 1
                    /\ Count(history'[r], Answer(r)) = 0
  BY DEF ConversationOK
<1>1. history[r] \in Seq(Entries)
  BY DEF TypeOK
<1> QED BY <1>1 DEF ConversationOK

LEMMA BuildConversation ==
  ASSUME TypeOK, AgentInv, NEW r \in Requests, BuildLLMMessages(r)
  PROVE  ConversationOK(r)'
<1>1. /\ pc[r] = "dispatch" /\ kind[r] = "chat" /\ sessions' = sessions
      /\ history'[r] = sessions[ChatOf[r]]
  BY DEF BuildLLMMessages, TypeOK
<1>2. sessions[ChatOf[r]] \in Seq(Entries) /\ ChatOf[r] \in Chats
  BY KeyTypes DEF TypeOK
<1>3. IsPrefix(sessions[ChatOf[r]], sessions[ChatOf[r]])
  BY <1>2, PrefixGrows, EntryTypes
<1>4. AskedInChat(r) /\ ~ AnsweredInChat(r)
  BY <1>1 DEF AskedInChat, AnsweredInChat, AnsweredInGlobal
<1>5. /\ Count(sessions[ChatOf[r]], Question(r)) = 1
      /\ Count(sessions[ChatOf[r]], Answer(r)) = 0
  BY <1>4 DEF AgentInv, CountOK, Once
<1>6. OwnLog(sessions[ChatOf[r]], ChatOf[r])
  BY <1>2 DEF AgentInv
<1> QED BY <1>1, <1>3, <1>5, <1>6 DEF ConversationOK

LEMMA QuietConversation ==
  ASSUME TypeOK, AgentInv, NEW r \in Requests, Quiet(r)
  PROVE  ConversationOK(r)'
<1>1. CASE BuildLLMMessages(r)
  BY <1>1, BuildConversation
<1>2. CASE ~ BuildLLMMessages(r)
  <2>1. Asking(r)' => Asking(r) /\ history'[r] = history[r]
    <3> USE DEF TypeOK, Asking, Finish, Proceed, Goto, LoopVars
    <3>1. CASE CountMemory(r) \/ SessionCount(r) \/ TotalMessageCount(r) \/ RememberAnswer(r)
      BY <3>1 DEF CountMemory, SessionCount, TotalMessageCount, RememberAnswer
    <3>2. CASE RunTool(r) \/ Browse(r) \/ NoModel(r) \/ CompleteFails(r)
      BY <3>2 DEF RunTool, Browse, NoModel, CompleteFails
    <3>3. CASE FetchFirst(r) \/ CompleteAnswers(r)
      BY <3>3 DEF FetchFirst, CompleteAnswers
    <3>4. CASE ExecuteToolCall(r) \/ NextRound(r)
      BY <3>4 DEF ExecuteToolCall, NextRound
    <3>5. ASSUME NEW n \in 1 .. MaxCalls, CompleteCallsTools(r, n)
          PROVE  Asking(r)' => Asking(r) /\ history'[r] = history[r]
      BY <3>5 DEF CompleteCallsTools
    <3> QED BY <1>2, <3>1, <3>2, <3>3, <3>4, <3>5 DEF Quiet, Commands
  <2>2. ConversationOK(r) /\ sessions' = sessions
    BY QuietSessions DEF AgentInv
  <2> QED BY <2>1, <2>2, ConversationKept
<1> QED BY <1>1, <1>2

-----------------------------------------------------------------------------
(***************************************************************************)
(* The steps                                                               *)
(***************************************************************************)
LEMMA AgentInvInit == Init => AgentInv
<1> SUFFICES ASSUME Init PROVE AgentInv
  OBVIOUS
<1>1. \A k \in Keys : sessions[k] = << >>
  BY DEF Init
<1>2. \A k \in Keys : \A e : Count(sessions[k], e) = 0
  BY <1>1, CountEmpty
<1>3. \A chat \in Chats : OwnLog(sessions[chat], chat)
  BY <1>1, KeyTypes DEF OwnLog
<1>4. ASSUME NEW r \in Requests PROVE KindOK(r) /\ CountOK(r) /\ ConversationOK(r)
  <2>1. pc[r] = "new" /\ kind[r] = "blank"
    BY DEF Init
  <2>2. KindOK(r) /\ ConversationOK(r)
    BY <2>1 DEF KindOK, ConversationOK, Asking
  <2>3. CountOK(r)
    BY <1>2, <2>1, KeyTypes
    DEF CountOK, Once, AskedInChat, AskedInGlobal, AnsweredInChat, AnsweredInGlobal
  <2> QED BY <2>2, <2>3
<1> QED BY <1>3, <1>4 DEF AgentInv

\* A step that adds nothing and moves no mark keeps the invariant.
LEMMA KeepsMarks ==
  ASSUME TypeOK, AgentInv, NEW r \in Requests, Others(r), sessions' = sessions,
         SameMarks(r), KindOK(r)', ConversationOK(r)'
  PROVE  AgentInv'
<1>1. ASSUME NEW q \in Requests PROVE SameMarks(q) /\ KindOK(q)' /\ ConversationOK(q)'
  <2>1. CASE q # r
    <3>1. SameMarks(q) /\ KindOK(q)'
      BY <2>1, OthersMarks DEF AgentInv
    <3>2. ConversationOK(q)'
      <4>1. Asking(q)' => Asking(q) /\ history'[q] = history[q]
        BY <2>1 DEF Others, Asking
      <4> QED BY <4>1, ConversationKept DEF AgentInv
    <3> QED BY <3>1, <3>2
  <2> QED BY <2>1
<1>2. ASSUME NEW q \in Requests PROVE CountOK(q)'
  <2>1. CountOK(q) /\ SameMarks(q)
    BY <1>1 DEF AgentInv
  <2> QED BY <2>1 DEF CountOK, SameMarks
<1> QED BY <1>1, <1>2 DEF AgentInv

LEMMA AddsKeeps ==
  ASSUME TypeOK, AgentInv, NEW r \in Requests, NEW key, NEW entry, Adds(r, key, entry)
  PROVE  AgentInv'
<1>1. /\ key \in Keys /\ entry \in Entries /\ Store(key, entry)
      /\ key \in {ChatOf[r], Global} /\ entry \in {Question(r), Answer(r)}
  BY AddsTypes
<1>2. KindOK(r) /\ Others(r)
  BY AddsOthers DEF AgentInv
<1>3. ASSUME NEW chat \in Chats PROVE OwnLog(sessions'[chat], chat)
  <2>1. chat \in Keys /\ OwnLog(sessions[chat], chat)
    BY KeyTypes DEF AgentInv
  <2>2. chat = key => ChatOf[entry.request] = chat
    BY <1>1, KeyTypes, EntryTypes, ChatAssumption
  <2> QED BY <1>1, <2>1, <2>2, StoreCounts
<1>4. ASSUME NEW q \in Requests PROVE KindOK(q)' /\ ConversationOK(q)'
  <2>1. ChatOf[q] \in Keys
    BY KeyTypes
  <2>2. \A s \in Seq(Entries) :
          IsPrefix(s, sessions[ChatOf[q]]) => IsPrefix(s, sessions'[ChatOf[q]])
    BY <1>1, <2>1, StoreCounts
  <2>3. Asking(q)' => Asking(q) /\ history'[q] = history[q]
    BY <1>2, AddsMarks DEF Others, Asking
  <2>4. ConversationOK(q)'
    BY <2>2, <2>3, ConversationKept DEF AgentInv
  <2>5. KindOK(q)'
    BY <1>2, AddsMarks, OthersMarks DEF AgentInv
  <2> QED BY <2>4, <2>5
<1>5. ASSUME NEW q \in Requests PROVE CountOK(q)'
  <2>1. /\ ChatOf[q] \in Keys /\ Global \in Keys
        /\ Question(q) \in Entries /\ Answer(q) \in Entries /\ CountOK(q)
    BY KeyTypes, EntryTypes DEF AgentInv
  <2>2. \A k \in Keys, e \in Entries :
          Count(sessions'[k], e) = Count(sessions[k], e) + Once(k = key /\ entry = e)
    BY <1>1, StoreCounts DEF Once
  <2>3. CASE q = r
    BY <1>2, <2>1, <2>2, <2>3, AddsMarks DEF CountOK
  <2>4. CASE q # r
    <3>1. SameMarks(q) /\ entry # Question(q) /\ entry # Answer(q)
      BY <1>1, <1>2, <2>4, OthersMarks, EntryTypes
    <3>2. \A k \in Keys :
            /\ Count(sessions'[k], Question(q)) = Count(sessions[k], Question(q)) + 0
            /\ Count(sessions'[k], Answer(q)) = Count(sessions[k], Answer(q)) + 0
      BY <2>1, <2>2, <3>1 DEF Once
    <3> QED BY <2>1, <3>1, <3>2 DEF CountOK, SameMarks, Once
  <2> QED BY <2>3, <2>4
<1> QED BY <1>3, <1>4, <1>5 DEF AgentInv

LEMMA AgentInvStep ==
  ASSUME TypeOK, AgentInv, [Next]_vars
  PROVE  AgentInv'
<1>1. ASSUME NEW r \in Requests, NEW k \in Kinds, Process(r, k) PROVE AgentInv'
  <2>1. sessions' = sessions
    BY <1>1 DEF Process
  <2>2. ConversationOK(r)'
    BY <1>1, ProcessMarks DEF ConversationOK
  <2> QED BY <1>1, <2>1, <2>2, ProcessMarks, ProcessOthers, KeepsMarks
<1>2. ASSUME NEW r \in Requests, NEW key, NEW entry, Adds(r, key, entry) PROVE AgentInv'
  BY <1>2, AddsKeeps
<1>3. ASSUME NEW r \in Requests, Quiet(r) PROVE AgentInv'
  <2>1. KindOK(r)
    BY DEF AgentInv
  <2> QED
    BY <1>3, <2>1, QuietSessions, QuietMarks, QuietOthers, QuietConversation, KeepsMarks
<1>4. CASE UNCHANGED vars
  BY <1>4
  DEF vars, AgentInv, KindOK, CountOK, ConversationOK, OwnLog, Asking,
      AskedInChat, AskedInGlobal, AnsweredInChat, AnsweredInGlobal
<1> QED BY <1>1, <1>2, <1>3, <1>4, StepCases

LEMMA AgentInvariant == Spec => [](TypeOK /\ AgentInv)
<1>1. Init => TypeOK /\ AgentInv
  BY TypeInit, AgentInvInit
<1>2. TypeOK /\ AgentInv /\ [Next]_vars => (TypeOK /\ AgentInv)'
  BY TypeStep, AgentInvStep
<1> QED BY <1>1, <1>2, PTL DEF Spec

-----------------------------------------------------------------------------
(***************************************************************************)
(* The theorems                                                            *)
(***************************************************************************)
\* However many requests interleave, what buildLLMMessages gives the model is
\* the log of its chat as it was at one moment, with the request's question
\* once and no answer to it.
THEOREM ConversationsAreChatLogs == Spec => []ConversationIsChatLog
<1>1. ASSUME TypeOK, AgentInv PROVE ConversationIsChatLog
  <2> SUFFICES ASSUME NEW r \in Requests, Asking(r)
               PROVE  /\ IsPrefix(history[r], sessions[ChatOf[r]])
                      /\ \A i \in DOMAIN history[r] : ChatOf[history[r][i].request] = ChatOf[r]
                      /\ Count(history[r], Question(r)) = 1
                      /\ \A i \in DOMAIN history[r] : history[r][i] # Answer(r)
    BY DEF ConversationIsChatLog, Asking, Count
  <2>1. ConversationOK(r)
    BY <1>1 DEF AgentInv
  <2>2. history[r] \in Seq(Entries) /\ Answer(r) \in Entries
    BY <1>1, EntryTypes DEF TypeOK
  <2>3. \A i \in DOMAIN history[r] : history[r][i] # Answer(r)
    BY <2>1, <2>2, CountZero DEF ConversationOK
  <2> QED BY <2>1, <2>3 DEF ConversationOK, OwnLog
<1> QED BY <1>1, AgentInvariant, PTL

\* Two marks that differ exactly when a third holds.
LEMMA OnceSum ==
  ASSUME NEW a \in BOOLEAN, NEW b \in BOOLEAN, NEW c \in BOOLEAN,
         c => a /\ ~ b, ~ c => (a <=> b)
  PROVE  Once(a) = Once(b) + Once(c) /\ Once(b) <= 1
BY DEF Once

\* remember and rememberAssistant add each message to its chat's log and to the
\* global one exactly once, whatever other requests add in between.
THEOREM GlobalHasAllChats == Spec => []GlobalMirrorsChats
<1>1. ASSUME TypeOK, AgentInv PROVE GlobalMirrorsChats
  <2> SUFFICES ASSUME NEW r \in Requests
               PROVE  /\ Count(sessions[ChatOf[r]], Question(r))
                           = Count(sessions[Global], Question(r))
                               + (IF pc[r] = "global" THEN 1 ELSE 0)
                      /\ Count(sessions[ChatOf[r]], Answer(r))
                           = Count(sessions[Global], Answer(r))
                               + (IF pc[r] = "answerGlobal" THEN 1 ELSE 0)
                      /\ Count(sessions[Global], Question(r)) <= 1
                      /\ Count(sessions[Global], Answer(r)) <= 1
    BY DEF GlobalMirrorsChats
  <2>1. KindOK(r) /\ CountOK(r)
    BY <1>1 DEF AgentInv
  <2>2. /\ pc[r] = "global" => AskedInChat(r) /\ ~ AskedInGlobal(r)
        /\ pc[r] # "global" => (AskedInChat(r) <=> AskedInGlobal(r))
    BY <2>1 DEF KindOK, AskedInChat, AskedInGlobal
  <2>3. /\ pc[r] = "answerGlobal" => AnsweredInChat(r) /\ ~ AnsweredInGlobal(r)
        /\ pc[r] # "answerGlobal" => (AnsweredInChat(r) <=> AnsweredInGlobal(r))
    BY DEF AnsweredInChat, AnsweredInGlobal
  <2>4. /\ Once(AskedInChat(r)) = Once(AskedInGlobal(r)) + Once(pc[r] = "global")
        /\ Once(AskedInGlobal(r)) <= 1
    BY <2>2, OnceSum, Zenon DEF AskedInChat, AskedInGlobal
  <2>5. /\ Once(AnsweredInChat(r)) = Once(AnsweredInGlobal(r)) + Once(pc[r] = "answerGlobal")
        /\ Once(AnsweredInGlobal(r)) <= 1
    BY <2>3, OnceSum, Zenon DEF AnsweredInChat, AnsweredInGlobal
  <2>6. /\ Once(pc[r] = "global") = IF pc[r] = "global" THEN 1 ELSE 0
        /\ Once(pc[r] = "answerGlobal") = IF pc[r] = "answerGlobal" THEN 1 ELSE 0
    BY DEF Once
  <2> QED BY <2>1, <2>4, <2>5, <2>6 DEF CountOK
<1> QED BY <1>1, AgentInvariant, PTL

\* When Process has returned, its answer is in the log of the chat if it was
\* the model's, and in no other case.
THEOREM AnswersAreKept == Spec => []AnswersKept
<1>1. ASSUME TypeOK, AgentInv PROVE AnswersKept
  <2> SUFFICES ASSUME NEW r \in Requests, pc[r] = "done"
               PROVE  (Answer(r) \in Range(sessions[ChatOf[r]]))
                        <=> (kind[r] = "chat" /\ llm /\ outcome[r] = "reply")
    BY DEF AnswersKept
  <2>1. /\ sessions[ChatOf[r]] \in Seq(Entries) /\ Answer(r) \in Entries
        /\ Count(sessions[ChatOf[r]], Answer(r)) = Once(AnsweredInChat(r))
    BY <1>1, KeyTypes, EntryTypes DEF TypeOK, AgentInv, CountOK
  <2>2. Count(sessions[ChatOf[r]], Answer(r)) = 0 <=> Answer(r) \notin Range(sessions[ChatOf[r]])
    BY <2>1, CountZero DEF Range
  <2>3. AnsweredInChat(r) <=> (kind[r] = "chat" /\ llm /\ outcome[r] = "reply")
    BY DEF AnsweredInChat, AnsweredInGlobal
  <2> QED BY <2>1, <2>2, <2>3 DEF Once
<1> QED BY <1>1, AgentInvariant, PTL
-----------------------------------------------------------------------------
(***************************************************************************)
(* The total of a status report.  The fold of TotalMessageCount over the   *)
(* sessions is a recursion on sets; what it comes to is shown by induction *)
(* over their sizes, for which the least number of a set will do.          *)
(***************************************************************************)
Less == {p \in Nat \X Nat : p[1] < p[2]}

\* Induction over the natural numbers, for a set.
LEMMA SetInduction ==
  ASSUME NEW A, 0 \in A, \A n \in Nat : n \in A => n + 1 \in A
  PROVE  Nat \subseteq A
<1> DEFINE T == Nat \ A
<1>1. SUFFICES ASSUME T # {} PROVE FALSE
  OBVIOUS
<1>2. IsWellFoundedOn(Less, Nat)
  BY NatLessThanWellFounded DEF OpToRel, Less
<1>3. T \subseteq Nat
  OBVIOUS
<1> HIDE DEF T
<1>4. PICK x \in T : \A y \in T : <<y, x>> \notin Less
  BY ONLY <1>1, <1>2, <1>3, WFMin, Zenon
<1>5. x \in Nat /\ x \notin A /\ x # 0
  BY <1>3 DEF T
<1>6. x - 1 \in T
  BY <1>5 DEF T
<1>7. <<x - 1, x>> \in Less
  BY <1>5 DEF Less
<1> QED BY <1>4, <1>6, <1>7

\* The recursion of TotalMessageCount over the sessions.
Rest(s) == s \ {CHOOSE k \in s : TRUE}
Sum(logs, total, s) ==
  IF s = {} THEN 0 ELSE Len(logs[CHOOSE k \in s : TRUE]) + total[Rest(s)]
Total(logs) == CHOOSE total : total = [s \in SUBSET DOMAIN logs |-> Sum(logs, total, s)]

LEMMA CountIsTotal ==
  ASSUME NEW r \in Requests, TotalMessageCount(r)
  PROVE  /\ pc[r] = "countMessages"
         /\ stats' = [stats EXCEPT ![r].messages = Total(sessions)[DOMAIN sessions]]
         /\ Finish(r, "reply")
         /\ UNCHANGED <<llm, memory, sessions, kind>>
<1>1. stats' = [stats EXCEPT ![r].messages = Total(sessions)[DOMAIN sessions]]
  BY DEF TotalMessageCount, FoldFunction, FoldFunctionOnSet, MapThenFoldSet, Total, Sum, Rest
<1>2. pc[r] = "countMessages" /\ Finish(r, "reply") /\ UNCHANGED <<llm, memory, sessions, kind>>
  BY Zenon DEF TotalMessageCount
<1> QED BY <1>1, <1>2

\* Is there one?  By induction over the sizes of the sets.
LEMMA RestSmaller ==
  ASSUME NEW s, IsFiniteSet(s), s # {}
  PROVE  /\ (CHOOSE k \in s : TRUE) \in s
         /\ IsFiniteSet(Rest(s)) /\ Cardinality(s) \in Nat /\ Cardinality(Rest(s)) \in Nat
         /\ Cardinality(Rest(s)) = Cardinality(s) - 1
<1>1. (CHOOSE k \in s : TRUE) \in s
  OBVIOUS
<1> QED BY <1>1, FS_RemoveElement, FS_CardinalityType DEF Rest

LEMMA TotalExists ==
  ASSUME NEW logs, IsFiniteSet(DOMAIN logs)
  PROVE  Total(logs) = [s \in SUBSET DOMAIN logs |-> Sum(logs, Total(logs), s)]
<1> DEFINE All == SUBSET DOMAIN logs
           Sums(total, n) == \A s \in All : Cardinality(s) <= n => total[s] = Sum(logs, total, s)
           Sizes == {n \in Nat : \E total : Sums(total, n)}
<1>1. \A s \in All : IsFiniteSet(s) /\ Cardinality(s) \in Nat /\ Cardinality(s) <= Cardinality(DOMAIN logs)
                     /\ (Cardinality(s) = 0 <=> s = {})
  BY FS_Subset, FS_CardinalityType, FS_EmptySet
<1>2. 0 \in Sizes
  <2> DEFINE total == [s \in All |-> 0]
  <2>1. \A s \in All : Cardinality(s) <= 0 => s = {}
    BY <1>1
  <2>2. Sums(total, 0)
    BY <2>1 DEF Sum
  <2> QED BY <2>2
<1>3. ASSUME NEW n \in Nat, n \in Sizes PROVE n + 1 \in Sizes
  <2>1. PICK total : Sums(total, n)
    BY <1>3
  <2> DEFINE more == [s \in All |-> Sum(logs, total, s)]
  <2>2. ASSUME NEW s \in All, Cardinality(s) <= n + 1 PROVE more[s] = Sum(logs, more, s)
    <3>1. CASE s = {}
      BY <3>1 DEF Sum
    <3>2. CASE s # {}
      <4>1. Rest(s) \in All /\ Cardinality(Rest(s)) <= n
        BY <1>1, <2>2, <3>2, RestSmaller DEF Rest
      <4>2. more[Rest(s)] = total[Rest(s)]
        BY <2>1, <4>1
      <4>3. Sum(logs, more, s) = Sum(logs, total, s)
        BY <4>2 DEF Sum
      <4> QED BY <4>3
    <3> QED BY <3>1, <3>2
  <2>3. Sums(more, n + 1)
    BY <2>2
  <2> HIDE DEF Sums
  <2> QED BY <2>3
<1>4. Cardinality(DOMAIN logs) \in Sizes
  <2>1. Nat \subseteq Sizes
    <3> HIDE DEF Sizes
    <3> QED BY <1>2, <1>3, SetInduction
  <2> QED BY <2>1, FS_CardinalityType
<1>5. PICK total : \A s \in All : total[s] = Sum(logs, total, s)
  BY <1>1, <1>4
<1> DEFINE whole == [s \in All |-> total[s]]
<1>6. \A s \in All : Sum(logs, whole, s) = Sum(logs, total, s)
  BY DEF Sum, Rest
<1>7. whole = [s \in All |-> Sum(logs, whole, s)]
  BY <1>5, <1>6
<1> QED BY <1>7 DEF Total

\* Every session that is not empty counts in it.
Used(logs, s) == {k \in s : logs[k] # << >>}

LEMMA TotalBound ==
  ASSUME NEW logs \in [Keys -> Seq(Entries)]
  PROVE  /\ Total(logs)[Keys] \in Nat
         /\ Cardinality(Used(logs, Keys)) <= Total(logs)[Keys]
<1> DEFINE Bounded(s) == /\ Total(logs)[s] \in Nat
                         /\ Cardinality(Used(logs, s)) <= Total(logs)[s]
           Sizes == {n \in Nat : \A s \in SUBSET Keys : Cardinality(s) = n => Bounded(s)}
<1>1. IsFiniteSet(Keys) /\ DOMAIN logs = Keys
  BY FiniteAssumption, FS_AddElement DEF Keys
<1>2. \A s \in SUBSET Keys : /\ IsFiniteSet(s) /\ Cardinality(s) \in Nat
                             /\ Total(logs)[s] = Sum(logs, Total(logs), s)
  BY <1>1, TotalExists, FS_Subset, FS_CardinalityType
<1>3. 0 \in Sizes
  <2> SUFFICES ASSUME NEW s \in SUBSET Keys, Cardinality(s) = 0 PROVE Bounded(s)
    OBVIOUS
  <2>1. s = {} /\ Used(logs, s) = {}
    BY <1>2, FS_EmptySet DEF Used
  <2>2. Cardinality(Used(logs, s)) = 0
    BY <2>1, FS_EmptySet
  <2> QED BY <1>2, <2>1, <2>2 DEF Sum
<1>4. ASSUME NEW n \in Nat, n \in Sizes PROVE n + 1 \in Sizes
  <2> SUFFICES ASSUME NEW s \in SUBSET Keys, Cardinality(s) = n + 1 PROVE Bounded(s)
    OBVIOUS
  <2> DEFINE k == CHOOSE k \in s : TRUE
  <2>1. s # {}
    BY FS_EmptySet
  <2>2. k \in s /\ Rest(s) = s \ {k} /\ Rest(s) \in SUBSET Keys /\ Cardinality(Rest(s)) = n
    <3>1. IsFiniteSet(s)
      BY <1>2
    <3>2. k \in s /\ Cardinality(Rest(s)) = n
      BY <2>1, <3>1, RestSmaller
    <3>3. Rest(s) = s \ {k}
      BY DEF Rest
    <3> QED BY <3>2, <3>3
  <2>3. Bounded(Rest(s))
    BY <1>4, <2>2
  <2>4. Total(logs)[s] = Len(logs[k]) + Total(logs)[Rest(s)]
    BY <1>2, <2>1 DEF Sum
  <2>5. Len(logs[k]) \in Nat /\ (logs[k] # << >> => Len(logs[k]) >= 1)
    <3>1. logs[k] \in Seq(Entries)
      BY <2>2
    <3> HIDE DEF k
    <3> QED BY <3>1, LenProperties, EmptySeq
  <2> HIDE DEF k
  <2>6. IsFiniteSet(Used(logs, Rest(s))) /\ Cardinality(Used(logs, Rest(s))) \in Nat
    <3>1. IsFiniteSet(Rest(s)) /\ Used(logs, Rest(s)) \subseteq Rest(s)
      BY <1>2, <2>2 DEF Used
    <3> QED BY <3>1, FS_Subset, FS_CardinalityType
  <2>7. CASE logs[k] = << >>
    <3>1. Used(logs, s) = Used(logs, Rest(s))
      BY <2>2, <2>7 DEF Used
    <3> QED BY <2>3, <2>4, <2>5, <2>6, <3>1
  <2>8. CASE logs[k] # << >>
    <3>1. Used(logs, s) = Used(logs, Rest(s)) \cup {k} /\ k \notin Used(logs, Rest(s))
      BY <2>2, <2>8 DEF Used
    <3>2. Cardinality(Used(logs, s)) = Cardinality(Used(logs, Rest(s))) + 1
      BY <2>6, <3>1, FS_AddElement
    <3> QED BY <2>3, <2>4, <2>5, <2>6, <2>8, <3>2
  <2> QED BY <2>7, <2>8
<1>5. Cardinality(Keys) \in Sizes
  <2>1. Nat \subseteq Sizes
    <3> HIDE DEF Sizes
    <3> QED BY <1>3, <1>4, SetInduction
  <2> QED BY <1>2, <2>1
<1> QED BY <1>5

-----------------------------------------------------------------------------
(***************************************************************************)
(* A status report.  Its invariant: what has been read so far, and that    *)
(* the sessions which have been counted are still there.                   *)
(***************************************************************************)
Numbers == [memory : Nat, sessions : Nat, messages : Nat]

StatusOK(r) ==
  /\ kind[r] # "blank" => memory >= 1
  /\ pc[r] \in {"countSessions", "countMessages"} => stats[r].memory >= 1
  /\ pc[r] = "countMessages" => /\ stats[r].sessions >= 2
                                /\ stats[r].sessions <= Cardinality(Used(sessions, Keys))
  /\ pc[r] = "done" /\ kind[r] = "status" =>
       stats[r].memory >= 1 /\ stats[r].sessions >= 2 /\ stats[r].messages >= stats[r].sessions

StatusInv == stats \in [Requests -> Numbers] /\ \A r \in Requests : StatusOK(r)

LEMMA UsedFinite ==
  ASSUME NEW logs
  PROVE  IsFiniteSet(Used(logs, Keys)) /\ Cardinality(Used(logs, Keys)) \in Nat
<1>1. IsFiniteSet(Keys)
  BY FiniteAssumption, FS_AddElement DEF Keys
<1>2. Used(logs, Keys) \subseteq Keys
  BY DEF Used
<1> QED BY <1>1, <1>2, FS_Subset, FS_CardinalityType

\* No step takes a message out of a.memory or empties a session.
LEMMA NothingShrinks ==
  ASSUME TypeOK, [Next]_vars
  PROVE  /\ memory \in Nat /\ memory' \in Nat /\ memory' >= memory
         /\ Cardinality(Used(sessions, Keys)) \in Nat
         /\ Cardinality(Used(sessions', Keys)) \in Nat
         /\ Cardinality(Used(sessions, Keys)) <= Cardinality(Used(sessions', Keys))
<1>1. memory \in Nat /\ memory' \in Nat
  BY TypeStep, BoundAssumption DEF TypeOK
<1>2. memory' >= memory
  <2>1. ASSUME NEW r \in Requests, NEW k \in Kinds, Process(r, k)
        PROVE  memory' = memory \/ GrowMemory
    BY <2>1 DEF Process
  <2>2. ASSUME NEW r \in Requests, NEW key, NEW entry, Adds(r, key, entry)
        PROVE  memory' = memory
    BY <2>2 DEF Adds, RememberInChat, RememberInGlobal, AnswerInChat, AnswerInGlobal
  <2>3. ASSUME NEW r \in Requests, Quiet(r)
        PROVE  memory' = memory \/ GrowMemory
    <3>1. CASE RememberAnswer(r)
      BY <3>1 DEF RememberAnswer
    <3>2. CASE TotalMessageCount(r)
      BY <3>2, CountIsTotal
    <3>3. CASE ~ RememberAnswer(r) /\ ~ TotalMessageCount(r)
      BY <2>3, <3>3
      DEF Quiet, Commands, CountMemory, SessionCount, RunTool,
          FetchFirst, Browse, NoModel, BuildLLMMessages, CompleteFails, CompleteAnswers,
          CompleteCallsTools, ExecuteToolCall, NextRound
    <3> QED BY <3>1, <3>2, <3>3
  <2>4. ASSUME UNCHANGED vars PROVE memory' = memory
    BY <2>4 DEF vars
  <2>5. memory' = memory \/ GrowMemory
    BY <2>1, <2>2, <2>3, <2>4, StepCases
  <2> QED BY <1>1, <2>5 DEF GrowMemory
<1>3. Used(sessions, Keys) \subseteq Used(sessions', Keys)
  <2>1. ASSUME NEW key \in Keys, NEW entry \in Entries, Store(key, entry)
        PROVE  Used(sessions, Keys) \subseteq Used(sessions', Keys)
    <3>1. sessions[key] \in Seq(Entries) /\ Append(sessions[key], entry) # << >>
      BY AppendProperties, EmptySeq DEF TypeOK
    <3> QED BY <2>1, <3>1 DEF Used, Store, TypeOK
  <2>2. CASE UNCHANGED sessions
    BY <2>2
  <2> QED BY <2>1, <2>2, StepCases, AddsTypes, QuietSessions DEF Process, vars
<1>4. /\ Cardinality(Used(sessions, Keys)) \in Nat
      /\ Cardinality(Used(sessions', Keys)) \in Nat
      /\ Cardinality(Used(sessions, Keys)) <= Cardinality(Used(sessions', Keys))
  BY <1>3, UsedFinite, FS_Subset
<1> QED BY <1>1, <1>2, <1>4

\* When a status request counts the sessions, its own message is in two.
LEMMA TwoUsed ==
  ASSUME TypeOK, AgentInv, NEW r \in Requests, pc[r] = "countSessions"
  PROVE  Cardinality(Used(sessions, Keys)) >= 2
<1>1. /\ Count(sessions[ChatOf[r]], Question(r)) = 1
      /\ Count(sessions[Global], Question(r)) = 1
  BY DEF AgentInv, CountOK, KindOK, AskedInChat, AskedInGlobal, Once
<1>2. {ChatOf[r], Global} \subseteq Used(sessions, Keys)
  <2>1. Count(<< >>, Question(r)) = 0
    BY CountEmpty
  <2> QED BY <1>1, <2>1, KeyTypes DEF Used
<1>3. Cardinality({ChatOf[r], Global}) = 2
  <2>1. IsFiniteSet({Global}) /\ Cardinality({Global}) = 1
    BY FS_Singleton
  <2>2. ChatOf[r] \notin {Global} /\ {ChatOf[r], Global} = {Global} \cup {ChatOf[r]}
    BY ChatAssumption
  <2>3. Cardinality({Global} \cup {ChatOf[r]}) = Cardinality({Global}) + 1
    BY <2>1, <2>2, FS_AddElement
  <2> QED BY <2>1, <2>2, <2>3
<1> QED BY <1>2, <1>3, UsedFinite, FS_Subset

\* A step that leaves a request where it is keeps its part of the invariant.
LEMMA StatusKept ==
  ASSUME TypeOK, [Next]_vars, NEW q \in Requests, StatusOK(q),
         pc'[q] = pc[q], kind'[q] = kind[q], stats'[q] = stats[q], stats[q] \in Numbers
  PROVE  StatusOK(q)'
BY NothingShrinks DEF StatusOK, Numbers

\* So does one that is none of the report's and ends in no phase of it.
LEMMA StatusPassed ==
  ASSUME TypeOK, [Next]_vars, NEW q \in Requests, StatusOK(q), stats'[q] = stats[q],
         kind'[q] = kind[q], pc'[q] \notin {"countSessions", "countMessages"},
         pc'[q] # "done" \/ kind[q] # "status"
  PROVE  StatusOK(q)'
BY NothingShrinks DEF StatusOK

LEMMA StatusStep ==
  ASSUME TypeOK, AgentInv, StatusInv, [Next]_vars
  PROVE  StatusInv'
<1>0. \A r \in Requests : StatusOK(r) /\ stats[r] \in Numbers /\ KindOK(r)
  BY DEF StatusInv, AgentInv
<1>1. ASSUME NEW r \in Requests, NEW k \in Kinds, Process(r, k) PROVE StatusInv'
  <2>1. stats' = stats /\ Others(r)
    BY <1>1, ProcessOthers DEF Process
  <2>2. StatusOK(r)'
    <3>1. CASE k = "blank"
      BY <1>1, <3>1 DEF Process, Finish, Goto, TypeOK, StatusOK
    <3>2. CASE k # "blank"
      <4>1. kind'[r] = k /\ pc'[r] = "chat" /\ GrowMemory
        BY <1>1, <3>2 DEF Process, Proceed, Goto, TypeOK
      <4>2. memory' >= 1
        BY <4>1, BoundAssumption DEF GrowMemory, TypeOK
      <4> QED BY <4>1, <4>2 DEF StatusOK
    <3> QED BY <3>1, <3>2
  <2> QED BY <1>0, <2>1, <2>2, StatusKept DEF StatusInv, Others
<1>2. ASSUME NEW r \in Requests, NEW key, NEW entry, Adds(r, key, entry) PROVE StatusInv'
  <2>1. /\ stats' = stats /\ Others(r) /\ kind' = kind
        /\ pc'[r] \in {"global", "dispatch", "answerGlobal", "done"}
        /\ pc'[r] = "done" => pc[r] = "answerGlobal"
    BY <1>2, AddsOthers
    DEF Adds, RememberInChat, RememberInGlobal, AnswerInChat, AnswerInGlobal,
        Finish, Proceed, Goto, TypeOK
  <2>2. StatusOK(r)'
    BY <1>0, <2>1, StatusPassed DEF KindOK
  <2> QED BY <1>0, <2>1, <2>2, StatusKept DEF StatusInv, Others
<1>3. ASSUME NEW r \in Requests, CountMemory(r) PROVE StatusInv'
  <2>1. /\ stats' = [stats EXCEPT ![r].memory = memory]
        /\ kind' = kind /\ pc'[r] = "countSessions" /\ memory' = memory
        /\ kind[r] = "status" /\ memory \in Nat
    BY <1>3, NothingShrinks DEF CountMemory, Proceed, Goto, TypeOK
  <2>2. stats' \in [Requests -> Numbers] /\ stats'[r].memory = memory
        /\ \A q \in Requests \ {r} : stats'[q] = stats[q]
    BY <2>1 DEF StatusInv, Numbers
  <2>3. StatusOK(r)'
    BY <1>0, <2>1, <2>2 DEF StatusOK
  <2>4. Others(r)
    BY <1>3, QuietOthers DEF Quiet, Commands
  <2> QED BY <1>0, <2>2, <2>3, <2>4, StatusKept DEF StatusInv, Others
<1>4. ASSUME NEW r \in Requests, SessionCount(r) PROVE StatusInv'
  <2>1. /\ stats' = [stats EXCEPT ![r].sessions = Cardinality(Used(sessions, Keys))]
        /\ kind' = kind /\ pc'[r] = "countMessages" /\ sessions' = sessions /\ memory' = memory
        /\ pc[r] = "countSessions"
    BY <1>4 DEF SessionCount, Proceed, Goto, TypeOK, Used
  <2>2. /\ Cardinality(Used(sessions, Keys)) \in Nat /\ Cardinality(Used(sessions, Keys)) >= 2
    BY <2>1, NothingShrinks, TwoUsed
  <2>3. /\ stats' \in [Requests -> Numbers]
        /\ stats'[r].memory = stats[r].memory
        /\ stats'[r].sessions = Cardinality(Used(sessions, Keys))
        /\ \A q \in Requests \ {r} : stats'[q] = stats[q]
    BY <2>1, <2>2 DEF StatusInv, Numbers
  <2>4. StatusOK(r)'
    BY <1>0, <2>1, <2>2, <2>3 DEF StatusOK
  <2>5. Others(r)
    BY <1>4, QuietOthers DEF Quiet, Commands
  <2> QED BY <1>0, <2>3, <2>4, <2>5, StatusKept DEF StatusInv, Others
<1>5. ASSUME NEW r \in Requests, TotalMessageCount(r) PROVE StatusInv'
  <2> DEFINE total == Total(sessions)[Keys]
  <2>1. /\ total \in Nat /\ Cardinality(Used(sessions, Keys)) <= total
        /\ Cardinality(Used(sessions, Keys)) \in Nat
    BY TotalBound, UsedFinite DEF TypeOK
  <2>2. /\ stats' = [stats EXCEPT ![r].messages = total]
        /\ kind' = kind /\ pc'[r] = "done" /\ memory' = memory /\ pc[r] = "countMessages"
    <3>1. DOMAIN sessions = Keys
      BY DEF TypeOK
    <3> QED BY <1>5, <3>1, CountIsTotal DEF Finish, Goto, TypeOK
  <2> HIDE DEF total
  <2>3. /\ stats' \in [Requests -> Numbers]
        /\ stats'[r].memory = stats[r].memory
        /\ stats'[r].sessions = stats[r].sessions /\ stats'[r].messages = total
        /\ stats[r].sessions \in Nat
        /\ \A q \in Requests \ {r} : stats'[q] = stats[q]
    BY <2>1, <2>2 DEF StatusInv, Numbers
  <2>4. StatusOK(r)'
    BY <1>0, <2>1, <2>2, <2>3 DEF StatusOK
  <2>5. Others(r)
    BY <1>5, QuietOthers DEF Quiet, Commands
  <2> QED BY <1>0, <2>3, <2>4, <2>5, StatusKept DEF StatusInv, Others
<1>6. ASSUME NEW r \in Requests, Quiet(r),
             ~ CountMemory(r), ~ SessionCount(r), ~ TotalMessageCount(r)
      PROVE  StatusInv'
  <2>1. stats' = stats /\ kind' = kind /\ Others(r)
    BY <1>6, QuietOthers, QuietSessions
    DEF Quiet, Commands, RunTool, FetchFirst, Browse, NoModel, BuildLLMMessages, CompleteFails,
        CompleteAnswers, CompleteCallsTools, ExecuteToolCall, NextRound, RememberAnswer
  <2>2. /\ pc'[r] \notin {"countSessions", "countMessages"}
        /\ pc'[r] # "done" \/ kind[r] # "status"
    <3> USE <1>0 DEF KindOK, Finish, Proceed, Goto, TypeOK
    <3>1. CASE RunTool(r) \/ FetchFirst(r) \/ Browse(r) \/ NoModel(r)
      BY <3>1 DEF RunTool, FetchFirst, Browse, NoModel
    <3>2. CASE BuildLLMMessages(r) \/ CompleteFails(r) \/ CompleteAnswers(r)
      BY <3>2 DEF BuildLLMMessages, CompleteFails, CompleteAnswers
    <3>3. CASE ExecuteToolCall(r) \/ NextRound(r) \/ RememberAnswer(r)
      BY <3>3 DEF ExecuteToolCall, NextRound, RememberAnswer
    <3>4. ASSUME NEW n \in 1 .. MaxCalls, CompleteCallsTools(r, n) PROVE <2>2!1 /\ <2>2!2
      BY <3>4 DEF CompleteCallsTools
    <3> QED BY <1>6, <3>1, <3>2, <3>3, <3>4 DEF Quiet, Commands
  <2>3. StatusOK(r)'
    BY <1>0, <2>1, <2>2, StatusPassed
  <2> QED BY <1>0, <2>1, <2>3, StatusKept DEF StatusInv, Others
<1>7. CASE UNCHANGED vars
  BY <1>7 DEF vars, StatusInv, StatusOK
<1> QED BY <1>1, <1>2, <1>3, <1>4, <1>5, <1>6, <1>7, StepCases

\* Sessions are counted before their messages, and neither a session nor a
\* message ever goes away in between: the total is at least the number of the
\* sessions that were counted, however many messages arrive meanwhile.
THEOREM StatusReportsAddUp == Spec => []StatusAddsUp
<1>1. Init => StatusInv
  BY DEF Init, StatusInv, StatusOK, Numbers
<1>2. TypeOK /\ AgentInv /\ StatusInv /\ [Next]_vars => StatusInv'
  BY StatusStep
<1>3. StatusInv => StatusAddsUp
  BY DEF StatusInv, StatusOK, StatusAddsUp
<1> QED BY <1>1, <1>2, <1>3, AgentInvariant, PTL DEF Spec

-----------------------------------------------------------------------------
(***************************************************************************)
(* The agent with its store                                                *)
(***************************************************************************)
\* The store of the agent, with the lemmas about it.
SP == INSTANCE SessionStore_proofs WITH
        Callers <- Requests, Messages <- Entries, NotSaved <- {}, pc <- saving

\* Behind the first n messages of a log the question of a request stands in
\* one place; an entry stands nowhere.
AskedOnce(n, log, r) ==
  \E i \in DOMAIN log :
    /\ i > n /\ log[i] = Question(r)
    /\ \A j \in DOMAIN log : j > n /\ log[j] = Question(r) => j = i
NotAfter(n, log, e) == \A i \in DOMAIN log : i > n => log[i] # e

\* The requests of this process have added their question to the log of the
\* chat, and then to the global one.
InChat(r) == pc[r] \notin {"new", "chat", "done"}
InGlobal(r) == InChat(r) /\ pc[r] # "global"

\* What a log of the chat has of a request behind what this process loaded.
FreshOK(r) ==
  LET n == Len(restored[ChatOf[r]])
      log == sessions[ChatOf[r]]
  IN  /\ pc[r] \in {"new", "chat"} => NotAfter(n, log, Question(r))
      /\ InChat(r) => AskedOnce(n, log, r)
      /\ pc[r] \notin {"answerGlobal", "done"} => NotAfter(n, log, Answer(r))

RequestOK(r) ==
  /\ pc[r] \notin {"new", "done"} => up
  /\ saving[r] # "idle" => pc[r] \notin {"new", "chat"}
  /\ FreshOK(r)
  /\ InGlobal(r) => Question(r) \in Range(sessions[Global])
  /\ Asking(r) => /\ IsPrefix(restored[ChatOf[r]], history[r])
                  /\ AskedOnce(Len(restored[ChatOf[r]]), history[r], r)
                  /\ NotAfter(Len(restored[ChatOf[r]]), history[r], Answer(r))

\* No log that is in memory, on its way to a file, or in one, has an answer
\* without its question.
AnswersOK ==
  /\ \A k \in Keys : AnswersBehind(sessions[k]) /\ AnswersBehind(S!Stored(k))
  /\ \A r \in Requests : AnswersBehind(snapshot[r])

RestoredOK ==
  /\ restored \in [Keys -> Seq(Entries)]
  /\ up => \A k \in Keys : IsPrefix(restored[k], sessions[k])

\* A request that is not spoilt is alone, and while no session is lost every
\* file is loaded.
AloneOK ==
  /\ \A r \in Requests \ spoilt : r \in UnderWay => UnderWay = {r}
  /\ ~lost => unread = {}

\* What a request has added to the logs by now, ...
Replied(r) == pc[r] = "done" /\ outcome[r] = "reply"
AnsweredChat(r) == pc[r] = "answerGlobal"
Added(r, k, e) ==
  \/ k = ChatOf[r] /\ e = Question(r) /\ (InChat(r) \/ Replied(r))
  \/ k = Global /\ e = Question(r) /\ (InGlobal(r) \/ Replied(r))
  \/ k = ChatOf[r] /\ e = Answer(r) /\ (AnsweredChat(r) \/ Replied(r))
  \/ k = Global /\ e = Answer(r) /\ Replied(r)

\* ... is kept: it is in memory and in every copy that is being written, and
\* it is on disk, unless the request is just saving that log.
Copied == {"copied", "writing", "written"}
Kept(r, k, e) ==
  /\ up => e \in Range(sessions[k])
  /\ \A q \in Requests : saving[q] \in Copied /\ target[q] = k => e \in Range(snapshot[q])
  /\ e \in Range(S!Stored(k)) \/ (saving[r] # "idle" /\ target[r] = k)

KeptOK ==
  ~lost => \A r \in Requests \ spoilt, k \in Keys, e \in Entries :
             Added(r, k, e) => Kept(r, k, e)

ChatInv ==
  /\ \A r \in Requests : RequestOK(r)
  /\ AnswersOK /\ RestoredOK /\ AloneOK /\ KeptOK

\* The types, and what SessionStore_proofs has of the store.
ChatTypes == TypeOK /\ S!TypeOK /\ S!StoreInv

\* More about logs: what is in them, and where.
LEMMA RangeAppend ==
  ASSUME NEW log \in Seq(Entries), NEW e \in Entries
  PROVE  Range(Append(log, e)) = Range(log) \cup {e}
<1>1. /\ Len(log) \in Nat /\ DOMAIN log = 1 .. Len(log)
      /\ DOMAIN Append(log, e) = 1 .. Len(log) + 1
      /\ Append(log, e)[Len(log) + 1] = e
      /\ \A i \in 1 .. Len(log) : Append(log, e)[i] = log[i]
  BY AppendProperties, LenProperties
<1>2. \A i \in 1 .. Len(log) + 1 : i \in 1 .. Len(log) \/ i = Len(log) + 1
  BY <1>1
<1> QED BY <1>1, <1>2 DEF Range

LEMMA BehindAppend ==
  ASSUME NEW log \in Seq(Entries), NEW e \in Entries, AnswersBehind(log),
         e.role = "assistant" => Question(e.request) \in Range(log)
  PROVE  AnswersBehind(Append(log, e))
<1>1. /\ Len(log) \in Nat /\ DOMAIN log = 1 .. Len(log)
      /\ DOMAIN Append(log, e) = 1 .. Len(log) + 1
      /\ Append(log, e)[Len(log) + 1] = e
      /\ \A i \in 1 .. Len(log) : Append(log, e)[i] = log[i]
  BY AppendProperties, LenProperties
<1> SUFFICES ASSUME NEW i \in 1 .. Len(log) + 1, Append(log, e)[i].role = "assistant"
             PROVE  \E j \in 1 .. i - 1 : Append(log, e)[j] = Question(Append(log, e)[i].request)
  BY <1>1 DEF AnswersBehind
<1>2. CASE i = Len(log) + 1
  <2>1. PICK j \in DOMAIN log : log[j] = Question(e.request)
    BY <1>1, <1>2 DEF Range
  <2>2. j \in 1 .. i - 1 /\ Append(log, e)[j] = Question(e.request)
    BY <1>1, <1>2, <2>1
  <2> QED BY <1>1, <1>2, <2>2
<1>3. CASE i # Len(log) + 1
  <2>1. i \in 1 .. Len(log)
    BY <1>1, <1>3
  <2>2. PICK j \in 1 .. i - 1 : log[j] = Question(log[i].request)
    BY <1>1, <2>1 DEF AnswersBehind
  <2>3. j \in 1 .. Len(log)
    BY <1>1, <2>1
  <2> QED BY <1>1, <2>1, <2>2, <2>3
<1> QED BY <1>2, <1>3

\* The entry that is added, and no other, comes to stand behind the first n.
LEMMA FreshAppend ==
  ASSUME NEW log \in Seq(Entries), NEW e \in Entries, NEW r \in Requests, NEW n \in Nat
  PROVE  /\ e # Question(r) /\ AskedOnce(n, log, r) => AskedOnce(n, Append(log, e), r)
         /\ n <= Len(log) /\ e = Question(r) /\ NotAfter(n, log, e)
              => AskedOnce(n, Append(log, e), r)
         /\ \A x : x # e /\ NotAfter(n, log, x) => NotAfter(n, Append(log, e), x)
<1>1. /\ Len(log) \in Nat /\ DOMAIN log = 1 .. Len(log)
      /\ DOMAIN Append(log, e) = 1 .. Len(log) + 1
      /\ Append(log, e)[Len(log) + 1] = e
      /\ \A i \in 1 .. Len(log) : Append(log, e)[i] = log[i]
  BY AppendProperties, LenProperties
<1>2. /\ 1 .. Len(log) \subseteq 1 .. Len(log) + 1 /\ Len(log) + 1 \in 1 .. Len(log) + 1
      /\ \A i \in 1 .. Len(log) + 1 : i \in 1 .. Len(log) \/ i = Len(log) + 1
  BY <1>1
<1>3. ASSUME e # Question(r), AskedOnce(n, log, r) PROVE AskedOnce(n, Append(log, e), r)
  <2>1. PICK i \in 1 .. Len(log) :
          /\ i > n /\ log[i] = Question(r)
          /\ \A j \in 1 .. Len(log) : j > n /\ log[j] = Question(r) => j = i
    BY <1>1, <1>3 DEF AskedOnce
  <2>2. i \in DOMAIN Append(log, e) /\ Append(log, e)[i] = Question(r)
    BY <1>1, <1>2, <2>1
  <2>3. ASSUME NEW j \in 1 .. Len(log) + 1, j > n, Append(log, e)[j] = Question(r)
        PROVE  j = i
    BY <1>1, <1>2, <1>3, <2>1, <2>3
  <2> QED BY <1>1, <2>1, <2>2, <2>3 DEF AskedOnce
<1>4. ASSUME n <= Len(log), e = Question(r), NotAfter(n, log, e)
      PROVE  AskedOnce(n, Append(log, e), r)
  <2>1. Len(log) + 1 > n
    BY <1>1, <1>4
  <2>2. ASSUME NEW j \in 1 .. Len(log) + 1, j > n, Append(log, e)[j] = e
        PROVE  j = Len(log) + 1
    BY <1>1, <1>2, <1>4, <2>2 DEF NotAfter
  <2> QED BY <1>1, <1>2, <1>4, <2>1, <2>2 DEF AskedOnce
<1>5. ASSUME NEW x, x # e, NotAfter(n, log, x) PROVE NotAfter(n, Append(log, e), x)
  BY <1>1, <1>2, <1>5 DEF NotAfter
<1> QED BY <1>3, <1>4, <1>5

\* What stands behind the first n is counted there.
LEMMA FreshCount ==
  ASSUME NEW log \in Seq(Entries), NEW r \in Requests, NEW n \in Nat
  PROVE  /\ AskedOnce(n, log, r) => /\ CountAfter(n, log, Question(r)) = 1
                                    /\ Question(r) \in Range(log)
         /\ \A e : NotAfter(n, log, e) => CountAfter(n, log, e) = 0
<1>1. /\ Len(log) \in Nat /\ DOMAIN log = 1 .. Len(log)
      /\ \A i : i \in n + 1 .. Len(log) <=> i \in 1 .. Len(log) /\ i > n
  BY LenProperties
<1>2. ASSUME AskedOnce(n, log, r)
      PROVE  CountAfter(n, log, Question(r)) = 1 /\ Question(r) \in Range(log)
  <2>1. PICK i \in DOMAIN log :
          /\ i > n /\ log[i] = Question(r)
          /\ \A j \in DOMAIN log : j > n /\ log[j] = Question(r) => j = i
    BY <1>2 DEF AskedOnce
  <2>2. {j \in n + 1 .. Len(log) : log[j] = Question(r)} = {i}
    BY <1>1, <2>1
  <2> QED BY <2>1, <2>2, FS_Singleton DEF CountAfter, Range
<1>3. ASSUME NEW e, NotAfter(n, log, e) PROVE CountAfter(n, log, e) = 0
  <2>1. {j \in n + 1 .. Len(log) : log[j] = e} = {}
    BY <1>1, <1>3 DEF NotAfter
  <2> QED BY <2>1, FS_EmptySet DEF CountAfter
<1> QED BY <1>2, <1>3

LEMMA PrefixRange ==
  ASSUME NEW s \in Seq(Entries), NEW t \in Seq(Entries), IsPrefix(s, t)
  PROVE  Range(s) \subseteq Range(t) /\ Len(s) <= Len(t)
<1>1. Len(s) <= Len(t) /\ \A i \in 1 .. Len(s) : s[i] = t[i]
  BY PrefixPointwise
<1>2. /\ Len(s) \in Nat /\ Len(t) \in Nat /\ DOMAIN s = 1 .. Len(s) /\ DOMAIN t = 1 .. Len(t)
      /\ 1 .. Len(s) \subseteq 1 .. Len(t)
  BY <1>1, LenProperties
<1> QED BY <1>1, <1>2 DEF Range

-----------------------------------------------------------------------------
\* What SessionStore_proofs has of a store is so of this one.
LEMMA StoreKept ==
  ASSUME S!TypeOK, S!StoreInv, [S!Next]_S!vars
  PROVE  S!TypeOK' /\ S!StoreInv'
<1> USE DEF S!Content, SP!Content, S!Phases, SP!Phases, S!Stored, SP!Stored,
        S!Unmarshal, SP!Unmarshal, S!IsPrefix, SP!IsPrefix, S!Goto, SP!Goto, S!Return, SP!Return
<1>1. S!TypeOK <=> SP!TypeOK
  BY DEF S!TypeOK, SP!TypeOK
<1>2. S!StoreInv <=> SP!StoreInv
  BY DEF S!StoreInv, SP!StoreInv, S!FilesWhole, SP!FilesWhole, S!DiskIsEarlierState,
     SP!DiskIsEarlierState, S!CallInv, SP!CallInv
<1>3. [S!Next]_S!vars <=> [SP!Next]_SP!vars
  BY DEF S!Next, SP!Next, S!vars, SP!vars, S!Step, SP!Step, S!AddMessage, SP!AddMessage,
     S!SkipSave, SP!SkipSave, S!CopySession, SP!CopySession, S!CreateTemp, SP!CreateTemp,
     S!WriteTemp, SP!WriteTemp, S!Rename, SP!Rename, S!FailSave, SP!FailSave,
     S!Crash, SP!Crash, S!LoadSessions, SP!LoadSessions
<1>4. S!TypeOK' <=> SP!TypeOK'
  BY DEF S!TypeOK, SP!TypeOK
<1>5. S!StoreInv' <=> SP!StoreInv'
  BY DEF S!StoreInv, SP!StoreInv, S!FilesWhole, SP!FilesWhole, S!DiskIsEarlierState,
     SP!DiskIsEarlierState, S!CallInv, SP!CallInv
<1>6. SP!TypeOK'
  BY <1>1, <1>3, SP!TypeStep, FileAssumption DEF SP!TypeStep
<1>7. SP!StoreInv'
  BY <1>1, <1>2, <1>3, SP!StoreInvStep, FileAssumption DEF SP!StoreInvStep
<1> QED BY <1>4, <1>5, <1>6, <1>7

LEMMA StoreStarts == S!Init => S!TypeOK /\ S!StoreInv
<1> USE DEF S!Content, SP!Content, S!Phases, SP!Phases, S!Stored, SP!Stored,
        S!Unmarshal, SP!Unmarshal, S!IsPrefix, SP!IsPrefix
<1>1. S!TypeOK <=> SP!TypeOK
  BY DEF S!TypeOK, SP!TypeOK
<1>2. S!StoreInv <=> SP!StoreInv
  BY DEF S!StoreInv, SP!StoreInv, S!FilesWhole, SP!FilesWhole, S!DiskIsEarlierState,
     SP!DiskIsEarlierState, S!CallInv, SP!CallInv
<1>3. S!Init <=> SP!Init
  BY DEF S!Init, SP!Init
<1>4. SP!Init => SP!TypeOK
  BY SP!TypeInit, FileAssumption DEF SP!TypeInit
<1>5. SP!Init => SP!StoreInv
  BY SP!StoreInvInit, FileAssumption DEF SP!StoreInvInit
<1> QED BY <1>1, <1>2, <1>3, <1>4, <1>5

LEMMA StoreRenames ==
  ASSUME S!TypeOK, S!StoreInv, NEW r \in Requests, S!Rename(r)
  PROVE  \A k \in Keys : S!Stored(k)' = IF k = target[r] THEN snapshot[r] ELSE S!Stored(k)
<1> USE DEF S!Content, SP!Content, S!Phases, SP!Phases, S!Stored, SP!Stored,
        S!Unmarshal, SP!Unmarshal, S!IsPrefix, SP!IsPrefix, S!Goto, SP!Goto, S!Return, SP!Return
<1>1. S!TypeOK <=> SP!TypeOK
  BY DEF S!TypeOK, SP!TypeOK
<1>2. S!StoreInv <=> SP!StoreInv
  BY DEF S!StoreInv, SP!StoreInv, S!FilesWhole, SP!FilesWhole, S!DiskIsEarlierState,
     SP!DiskIsEarlierState, S!CallInv, SP!CallInv
<1>3. S!Rename(r) <=> SP!Rename(r)
  BY DEF S!Rename, SP!Rename
<1>4. \A k \in Keys : SP!Stored(k)' = IF k = target[r] THEN snapshot[r] ELSE SP!Stored(k)
  BY <1>1, <1>2, <1>3, SP!RenameStores, FileAssumption DEF SP!RenameStores
<1> QED BY <1>4

LEMMA StoredTypes ==
  ASSUME S!TypeOK, NEW k \in Keys
  PROVE  S!Stored(k) \in Seq(Entries)
<1>1. FileName[k] \in Files
  BY FileAssumption
<1>2. disk[FileName[k]] \in S!Content \cup {NoFile, Torn}
  BY <1>1 DEF S!TypeOK
<1> QED BY <1>2, EmptySeq DEF S!Stored, S!Unmarshal, S!Content

\* Every step is a step of the store, or leaves it alone; so it keeps what the
\* store promises.
LEMMA StoreStep ==
  ASSUME ChatTypes, [ChatNext]_chatVars
  PROVE  [S!Next]_S!vars
<1>1. ASSUME UNCHANGED <<sessions, storeVars>> PROVE UNCHANGED S!vars
  BY <1>1 DEF storeVars, S!vars
<1>2. ASSUME NEW r \in Requests, Deliver(r) \/ Think(r) PROVE UNCHANGED S!vars
  <2>1. Deliver(r) => UNCHANGED <<sessions, storeVars>>
    BY DEF Deliver, Process
  <2>2. Think(r) => Quiet(r) /\ UNCHANGED storeVars
    BY DEF Think, Quiet
  <2> QED BY <1>1, <1>2, <2>1, <2>2, QuietSessions
<1>3. ASSUME NEW r \in Requests, Add(r) PROVE S!Next
  <2>1. PICK key \in {ChatOf[r], Global}, entry \in {Question(r), Answer(r)} :
          S!AddMessage(r, key, entry)
    BY <1>3 DEF Add
  <2>2. key \in Keys /\ entry \in Entries
    BY KeyTypes, EntryTypes
  <2> QED BY <2>1, <2>2 DEF S!Next, S!Step
<1>4. ASSUME NEW r \in Requests, Save(r) \/ FailSave(r) PROVE S!Next
  BY <1>4 DEF Save, FailSave, S!Next, S!Step
<1>5. ASSUME NEW again, Crash(again) PROVE S!Next
  BY <1>5 DEF Crash, S!Next
<1>6. ASSUME NEW unreadable \in SUBSET Files, Restart(unreadable) PROVE S!Next
  BY <1>6 DEF Restart, S!Next
<1>7. CASE UNCHANGED chatVars
  BY <1>1, <1>7 DEF chatVars
<1> QED BY <1>2, <1>3, <1>4, <1>5, <1>6, <1>7 DEF ChatNext, GoOn

LEMMA ChatTypesStep ==
  ASSUME ChatTypes, [ChatNext]_chatVars
  PROVE  ChatTypes'
<1>1. S!TypeOK' /\ S!StoreInv'
  BY StoreStep, StoreKept DEF ChatTypes
<1>2. ASSUME [Next]_vars PROVE TypeOK'
  BY <1>2, TypeStep DEF ChatTypes
<1>3. ASSUME NEW r \in Requests, Deliver(r) PROVE TypeOK'
  BY <1>2, <1>3 DEF Deliver, Next, Kinds
<1>4. ASSUME NEW r \in Requests, Add(r) PROVE TypeOK'
  <2>1. \E key, entry : Adds(r, key, entry)
    BY <1>4 DEF Add
  <2> QED BY <2>1, AddsType DEF ChatTypes
<1>5. ASSUME NEW r \in Requests, Think(r) PROVE TypeOK'
  <2>1. Quiet(r)
    BY <1>5 DEF Think, Quiet
  <2> QED BY <2>1, QuietType DEF ChatTypes
<1>6. ASSUME UNCHANGED <<agentVars, sessions>> PROVE TypeOK'
  BY <1>2, <1>6 DEF agentVars, vars
<1>7. ASSUME NEW r \in Requests, Save(r) \/ FailSave(r) PROVE TypeOK'
  BY <1>6, <1>7
  DEF Save, FailSave, S!CopySession, S!CreateTemp, S!WriteTemp, S!Rename, S!FailSave
<1>8. sessions' \in [Keys -> Seq(Entries)]
  BY <1>1 DEF S!TypeOK
<1>9. ASSUME NEW again, Crash(again) PROVE TypeOK'
  <2>1. /\ history' \in [Requests -> Seq(Entries)] /\ 0 \in 0 .. MaxMemory
        /\ 0 \in 0 .. MaxCalls /\ 0 \in 0 .. MaxRounds - 1
    BY <1>9, EmptySeq, BoundAssumption DEF Crash
  <2>2. /\ pc' \in [Requests -> Phases] /\ outcome' \in [Requests -> Outcomes]
        /\ UNCHANGED <<llm, kind>>
    <3>1. "new" \in Phases /\ "done" \in Phases /\ "nothing" \in Outcomes
      BY Zenon DEF Phases, Outcomes
    <3> QED BY <1>9, <3>1 DEF Crash, ChatTypes, TypeOK
  <2>3. /\ pending' \in [Requests -> 0 .. MaxCalls]
        /\ round' \in [Requests -> 0 .. MaxRounds - 1]
        /\ memory' \in 0 .. MaxMemory
    BY <1>9, <2>1 DEF Crash
  <2> QED BY <1>8, <2>1, <2>2, <2>3 DEF TypeOK, ChatTypes
<1>10. ASSUME NEW unreadable, Restart(unreadable) PROVE TypeOK'
  <2>1. UNCHANGED agentVars
    BY <1>10 DEF Restart
  <2> QED BY <1>8, <2>1 DEF agentVars, TypeOK, ChatTypes
<1>11. ASSUME UNCHANGED chatVars PROVE TypeOK'
  BY <1>6, <1>11 DEF chatVars
<1>12. TypeOK'
  <2>1. ASSUME NEW r \in Requests, GoOn(r) PROVE TypeOK'
    BY <1>4, <1>5, <1>7, <2>1 DEF GoOn
  <2> QED BY <1>3, <1>7, <1>9, <1>10, <1>11, <2>1 DEF ChatNext
<1> QED BY <1>1, <1>12 DEF ChatTypes

LEMMA ChatTypesInit == ChatInit => ChatTypes
BY TypeInit, StoreStarts DEF ChatInit, ChatTypes

\* What the types say of a log, a copy and a file.
LEMMA LogTypes ==
  ASSUME ChatTypes
  PROVE  /\ \A k \in Keys : sessions[k] \in Seq(Entries) /\ S!Stored(k) \in Seq(Entries)
         /\ \A r \in Requests :
              /\ snapshot[r] \in Seq(Entries) /\ target[r] \in Keys
              /\ history[r] \in Seq(Entries)
              /\ saving[r] # "idle" => up
BY StoredTypes DEF ChatTypes, TypeOK, S!TypeOK, S!StoreInv, S!CallInv

\* What Add does.
LEMMA AddEffect ==
  ASSUME ChatTypes, NEW r \in Requests, Add(r)
  PROVE  \E key \in {ChatOf[r], Global}, entry \in {Question(r), Answer(r)} :
           /\ Adds(r, key, entry)
           /\ up /\ saving[r] = "idle"
           /\ sessions' = [sessions EXCEPT ![key] = Append(@, entry)]
           /\ saving' = [saving EXCEPT ![r] = "appended"]
           /\ target' = [target EXCEPT ![r] = key]
           /\ UNCHANGED <<up, disk, snapshot, temp, unread, historyVars>>
BY DEF Add, S!AddMessage, S!Goto

\* What the steps of Save do.
LEMMA SaveEffect ==
  ASSUME ChatTypes, NEW r \in Requests, Save(r) \/ FailSave(r)
  PROVE  /\ UNCHANGED <<up, sessions, target, pc, outcome, history, restored, lost>>
         /\ saving[r] # "idle"
         /\ \A q \in Requests \ {r} : saving'[q] = saving[q] /\ snapshot'[q] = snapshot[q]
         /\ snapshot'[r] \in {<< >>, snapshot[r], sessions[target[r]]}
         /\ saving'[r] \in Copied =>
              \/ snapshot'[r] = sessions[target[r]]
              \/ saving[r] \in Copied /\ snapshot'[r] = snapshot[r]
         /\ \A k \in Keys :
              \/ S!Stored(k)' = S!Stored(k)
              \/ k = target[r] /\ saving[r] \in Copied /\ S!Stored(k)' = snapshot[r]
         /\ saving'[r] = "idle" =>
              \/ spoilt' = spoilt \cup {r}
              \/ saving[r] \in Copied /\ S!Stored(target[r])' = snapshot[r]
         /\ spoilt \subseteq spoilt' /\ unread' \subseteq unread
<1> USE DEF Copied, historyVars, agentVars, S!Goto, S!Return, ChatTypes, S!TypeOK
<1>1. ASSUME disk' = disk PROVE \A k \in Keys : S!Stored(k)' = S!Stored(k)
  BY <1>1 DEF S!Stored, S!Unmarshal
<1>2. CASE S!CopySession(r) /\ UNCHANGED <<agentVars, historyVars>>
  BY <1>1, <1>2 DEF S!CopySession
<1>3. CASE S!CreateTemp(r) /\ UNCHANGED <<agentVars, historyVars>>
  BY <1>1, <1>3 DEF S!CreateTemp
<1>4. CASE S!WriteTemp(r) /\ UNCHANGED <<agentVars, historyVars>>
  BY <1>1, <1>4 DEF S!WriteTemp
<1>5. CASE S!Rename(r) /\ UNCHANGED <<agentVars, historyVars>>
  <2>1. \A k \in Keys : S!Stored(k)' = IF k = target[r] THEN snapshot[r] ELSE S!Stored(k)
    BY <1>5, StoreRenames
  <2> QED BY <1>5, <2>1 DEF S!Rename
<1>6. CASE FailSave(r)
  BY <1>1, <1>6 DEF FailSave, S!FailSave
<1> QED BY <1>2, <1>3, <1>4, <1>5, <1>6 DEF Save

\* How Deliver, Think and Add move a request on.
LEMMA DeliverMoves ==
  ASSUME TypeOK, NEW r \in Requests, Deliver(r)
  PROVE  /\ pc[r] = "new" /\ pc'[r] = "chat" /\ up
         /\ \A q \in Requests \ {r} : pc'[q] = pc[q]
         /\ UNCHANGED <<sessions, history, outcome, up, disk, saving, target, snapshot,
                        unread, restored, lost>>
         /\ spoilt' = IF UnderWay = {} THEN spoilt ELSE spoilt \cup UnderWay \cup {r}
BY DEF TypeOK, Deliver, Process, Proceed, Goto, LoopVars, storeVars

LEMMA ThinkMoves ==
  ASSUME TypeOK, NEW r \in Requests, Think(r)
  PROVE  /\ up /\ saving[r] = "idle"
         /\ Others(r)
         /\ UNCHANGED <<sessions, storeVars, historyVars>>
         /\ pc[r] \notin {"new", "chat", "answerGlobal", "done"} /\ pc'[r] \notin {"new", "chat"}
         /\ (InChat(r)' => InChat(r)) /\ (InGlobal(r)' => InGlobal(r))
         /\ ~ AnsweredChat(r)' /\ ~ Replied(r)'
         /\ Asking(r)' => \/ Asking(r) /\ history'[r] = history[r]
                          \/ InChat(r) /\ history'[r] = sessions[ChatOf[r]]
<1>1. Quiet(r) /\ up /\ saving[r] = "idle" /\ UNCHANGED <<storeVars, historyVars>>
  BY DEF Think, Quiet
<1>2. /\ Others(r) /\ UNCHANGED sessions
  BY <1>1, QuietOthers, QuietSessions
<1> USE DEF TypeOK, Finish, Proceed, Goto, LoopVars
<1>3. \/ /\ pc[r] = "dispatch" /\ pc'[r] = "complete"
         /\ history'[r] = sessions[ChatOf[r]]
      \/ /\ pc[r] = "complete" /\ pc'[r] = "done" /\ outcome'[r] # "reply"
      \/ /\ pc[r] = "complete" /\ pc'[r] = "answer" /\ history'[r] = history[r]
      \/ /\ pc[r] = "answer" /\ pc'[r] = "answerChat"
  <2>1. CASE BuildLLMMessages(r)
    BY <2>1 DEF BuildLLMMessages
  <2>2. CASE CompleteFails(r)
    BY <2>2 DEF CompleteFails
  <2>3. CASE CompleteAnswers(r)
    BY <2>3 DEF CompleteAnswers
  <2>4. CASE RememberAnswer(r)
    BY <2>4 DEF RememberAnswer
  <2> QED BY <2>1, <2>2, <2>3, <2>4 DEF Think
<1>4. /\ pc[r] \notin {"new", "chat", "answerGlobal", "done"} /\ pc'[r] \notin {"new", "chat"}
      /\ ~ AnsweredChat(r)'
  BY <1>3 DEF AnsweredChat
<1>5. ~ Replied(r)' /\ (InChat(r)' => InChat(r)) /\ (InGlobal(r)' => InGlobal(r))
  BY <1>3 DEF Replied, InChat, InGlobal
<1>6. Asking(r)' => \/ Asking(r) /\ history'[r] = history[r]
                    \/ InChat(r) /\ history'[r] = sessions[ChatOf[r]]
  BY <1>3 DEF Asking, InChat
<1> QED BY <1>1, <1>2, <1>4, <1>5, <1>6

LEMMA AddMoves ==
  ASSUME TypeOK, NEW r \in Requests, NEW key, NEW entry, Adds(r, key, entry)
  PROVE  /\ pc[r] \notin {"new", "done"} /\ pc'[r] \notin {"new", "chat"}
         /\ ~ Asking(r)'
         /\ InChat(r)' => InChat(r) \/ (key = ChatOf[r] /\ entry = Question(r))
         /\ InGlobal(r)' => InGlobal(r) \/ (key = Global /\ entry = Question(r))
         /\ entry = Answer(r) => InGlobal(r) /\ pc'[r] \in {"answerGlobal", "done"}
         /\ key = ChatOf[r] /\ entry = Question(r) => pc[r] = "chat" /\ pc'[r] = "global"
         /\ pc[r] = "answerGlobal" => pc'[r] = "done"
         /\ \A k, e : Added(r, k, e)' => Added(r, k, e) \/ (k = key /\ e = entry)
<1>0. Question(r) # Answer(r)
  BY EntryTypes
<1>1. \/ /\ key = ChatOf[r] /\ entry = Question(r)
         /\ pc[r] = "chat" /\ pc'[r] = "global"
      \/ /\ key = Global /\ entry = Question(r)
         /\ pc[r] = "global" /\ pc'[r] = "dispatch"
      \/ /\ key = ChatOf[r] /\ entry = Answer(r)
         /\ pc[r] = "answerChat" /\ pc'[r] = "answerGlobal"
      \/ /\ key = Global /\ entry = Answer(r)
         /\ pc[r] = "answerGlobal" /\ pc'[r] = "done"
  <2> USE DEF TypeOK, Finish, Proceed, Goto
  <2>1. CASE RememberInChat(r) /\ key = ChatOf[r] /\ entry = Question(r)
    BY <2>1 DEF RememberInChat
  <2>2. CASE RememberInGlobal(r) /\ key = Global /\ entry = Question(r)
    BY <2>2 DEF RememberInGlobal
  <2>3. CASE AnswerInChat(r) /\ key = ChatOf[r] /\ entry = Answer(r)
    BY <2>3 DEF AnswerInChat
  <2>4. CASE AnswerInGlobal(r) /\ key = Global /\ entry = Answer(r)
    BY <2>4 DEF AnswerInGlobal
  <2> QED BY <2>1, <2>2, <2>3, <2>4 DEF Adds
<1>2. /\ pc[r] \notin {"new", "done"} /\ pc'[r] \notin {"new", "chat"} /\ ~ Asking(r)'
  BY <1>1 DEF Asking
<1>3. InChat(r)' => InChat(r) \/ (key = ChatOf[r] /\ entry = Question(r))
  BY <1>1 DEF InChat
<1>4. InGlobal(r)' => InGlobal(r) \/ (key = Global /\ entry = Question(r))
  BY <1>1 DEF InGlobal, InChat
<1>5. /\ entry = Answer(r) => InGlobal(r) /\ InChat(r) /\ pc'[r] \in {"answerGlobal", "done"}
      /\ key = ChatOf[r] /\ entry = Question(r) => pc[r] = "chat" /\ pc'[r] = "global"
      /\ pc[r] = "answerGlobal" => pc'[r] = "done"
  BY <1>0, <1>1, KeyTypes DEF InGlobal, InChat
<1>6. Replied(r)' => AnsweredChat(r) /\ InGlobal(r) /\ InChat(r) /\ key = Global /\ entry = Answer(r)
  BY <1>1 DEF Replied, AnsweredChat, InGlobal, InChat
<1>7. AnsweredChat(r)' => key = ChatOf[r] /\ entry = Answer(r)
  BY <1>1 DEF AnsweredChat
<1>8. \A k, e : Added(r, k, e)' => Added(r, k, e) \/ (k = key /\ e = entry)
  BY <1>3, <1>4, <1>5, <1>6, <1>7 DEF Added
<1> QED BY <1>2, <1>3, <1>4, <1>5, <1>8

-----------------------------------------------------------------------------
(* Each kind of step keeps the invariant. *)

LEMMA DeliverKeeps ==
  ASSUME ChatTypes, ChatInv, NEW r \in Requests, Deliver(r)
  PROVE  ChatInv'
<1>1. /\ pc[r] = "new" /\ pc'[r] = "chat" /\ up
      /\ \A q \in Requests \ {r} : pc'[q] = pc[q]
      /\ UNCHANGED <<sessions, history, outcome, up, disk, saving, target, snapshot,
                     unread, restored, lost>>
      /\ spoilt' = IF UnderWay = {} THEN spoilt ELSE spoilt \cup UnderWay \cup {r}
  BY DeliverMoves DEF ChatTypes
<1>2. \A k \in Keys : S!Stored(k)' = S!Stored(k)
  BY <1>1 DEF S!Stored, S!Unmarshal
<1>3. saving[r] = "idle"
  BY <1>1 DEF ChatInv, RequestOK
<1>4. ASSUME NEW q \in Requests PROVE RequestOK(q)'
  <2>1. RequestOK(q)
    BY DEF ChatInv
  <2>2. CASE q = r
    BY <1>1, <1>3, <2>1, <2>2 DEF RequestOK, FreshOK, InChat, InGlobal, Asking
  <2>3. CASE q # r
    BY <1>1, <2>1, <2>3 DEF RequestOK, FreshOK, InChat, InGlobal, Asking
  <2> QED BY <2>2, <2>3
<1>5. AnswersOK' /\ RestoredOK'
  BY <1>1, <1>2 DEF ChatInv, AnswersOK, RestoredOK
<1>6. UnderWay' = UnderWay \cup {r}
  BY <1>1 DEF UnderWay, Returned
<1>7. AloneOK'
  BY <1>1, <1>6 DEF ChatInv, AloneOK
<1>8. KeptOK'
  <2> SUFFICES ASSUME ~lost, NEW q \in Requests \ spoilt, NEW k \in Keys, NEW e \in Entries,
                      Added(q, k, e)'
               PROVE  Kept(q, k, e)'
    BY <1>1 DEF KeptOK
  <2>1. Added(q, k, e)
    BY <1>1 DEF Added, InChat, InGlobal, Replied, AnsweredChat
  <2>2. Kept(q, k, e)
    BY <2>1 DEF ChatInv, KeptOK
  <2> QED BY <1>1, <1>2, <2>2 DEF Kept
<1> QED BY <1>4, <1>5, <1>7, <1>8 DEF ChatInv

LEMMA ThinkKeeps ==
  ASSUME ChatTypes, ChatInv, NEW r \in Requests, Think(r)
  PROVE  ChatInv'
<1>1. /\ up /\ saving[r] = "idle" /\ Others(r)
      /\ UNCHANGED <<sessions, up, disk, saving, target, snapshot, unread>>
      /\ UNCHANGED <<restored, spoilt, lost>>
      /\ pc[r] \notin {"new", "chat", "answerGlobal", "done"} /\ pc'[r] \notin {"new", "chat"}
      /\ (InChat(r)' => InChat(r)) /\ (InGlobal(r)' => InGlobal(r))
      /\ ~ AnsweredChat(r)' /\ ~ Replied(r)'
      /\ Asking(r)' => \/ Asking(r) /\ history'[r] = history[r]
                       \/ InChat(r) /\ history'[r] = sessions[ChatOf[r]]
  BY ThinkMoves DEF ChatTypes, storeVars, historyVars
<1>2. \A k \in Keys : S!Stored(k)' = S!Stored(k)
  BY <1>1 DEF S!Stored, S!Unmarshal
<1>3. ASSUME NEW q \in Requests PROVE RequestOK(q)'
  <2>1. RequestOK(q) /\ ChatOf[q] \in Keys
    BY KeyTypes DEF ChatInv
  <2>2. CASE q = r
    <3>1. IsPrefix(restored[ChatOf[r]], sessions[ChatOf[r]])
      BY <1>1, KeyTypes DEF ChatInv, RestoredOK
    <3>2. FreshOK(r)'
      BY <1>1, <2>1, <2>2 DEF RequestOK, FreshOK
    <3>3. InChat(r) => /\ AskedOnce(Len(restored[ChatOf[r]]), sessions[ChatOf[r]], r)
                       /\ NotAfter(Len(restored[ChatOf[r]]), sessions[ChatOf[r]], Answer(r))
      BY <1>1, <2>1, <2>2 DEF RequestOK, FreshOK
    <3> QED BY <1>1, <2>1, <2>2, <3>1, <3>2, <3>3 DEF RequestOK
  <2>3. CASE q # r
    BY <1>1, <2>1, <2>3 DEF RequestOK, FreshOK, InChat, InGlobal, Asking, Others
  <2> QED BY <2>2, <2>3
<1>4. AnswersOK' /\ RestoredOK'
  BY <1>1, <1>2 DEF ChatInv, AnswersOK, RestoredOK
<1>5. UnderWay' \subseteq UnderWay
  BY <1>1 DEF UnderWay, Returned, Others
<1>6. AloneOK'
  <2>1. r \in UnderWay
    BY <1>1 DEF UnderWay, Returned
  <2> QED BY <1>1, <1>5, <2>1 DEF ChatInv, AloneOK
<1>7. KeptOK'
  <2> SUFFICES ASSUME ~lost, NEW q \in Requests \ spoilt, NEW k \in Keys, NEW e \in Entries,
                      Added(q, k, e)'
               PROVE  Kept(q, k, e)'
    BY <1>1 DEF KeptOK
  <2>1. Added(q, k, e)
    <3>1. CASE q = r
      BY <1>1, <3>1 DEF Added
    <3>2. CASE q # r
      BY <1>1, <3>2 DEF Added, InChat, InGlobal, Replied, AnsweredChat, Others
    <3> QED BY <3>1, <3>2
  <2>2. Kept(q, k, e)
    BY <2>1 DEF ChatInv, KeptOK
  <2> QED BY <1>1, <1>2, <2>2 DEF Kept
<1> QED BY <1>3, <1>4, <1>6, <1>7 DEF ChatInv

LEMMA SaveKeeps ==
  ASSUME ChatTypes, ChatInv, NEW r \in Requests, Save(r) \/ FailSave(r)
  PROVE  ChatInv'
<1>1. /\ UNCHANGED <<up, sessions, target, pc, outcome, history, restored, lost>>
      /\ saving[r] # "idle"
      /\ \A q \in Requests \ {r} : saving'[q] = saving[q] /\ snapshot'[q] = snapshot[q]
      /\ snapshot'[r] \in {<< >>, snapshot[r], sessions[target[r]]}
      /\ saving'[r] \in Copied =>
           \/ snapshot'[r] = sessions[target[r]]
           \/ saving[r] \in Copied /\ snapshot'[r] = snapshot[r]
      /\ \A k \in Keys :
           \/ S!Stored(k)' = S!Stored(k)
           \/ k = target[r] /\ saving[r] \in Copied /\ S!Stored(k)' = snapshot[r]
      /\ saving'[r] = "idle" =>
           \/ spoilt' = spoilt \cup {r}
           \/ saving[r] \in Copied /\ S!Stored(target[r])' = snapshot[r]
      /\ spoilt \subseteq spoilt' /\ unread' \subseteq unread
  BY SaveEffect
<1>2. up /\ target[r] \in Keys
  BY <1>1, LogTypes
<1>3. ASSUME NEW q \in Requests PROVE RequestOK(q)'
  <2>1. RequestOK(q)
    BY DEF ChatInv
  <2>2. saving'[q] # "idle" => saving[q] # "idle"
    BY <1>1
  <2> QED BY <1>1, <2>1, <2>2 DEF RequestOK, FreshOK, InChat, InGlobal, Asking
<1>4. AnswersOK'
  <2>1. AnswersBehind(<< >>)
    BY DEF AnswersBehind
  <2>2. ASSUME NEW k \in Keys PROVE AnswersBehind(sessions'[k]) /\ AnswersBehind(S!Stored(k)')
    BY <1>1 DEF ChatInv, AnswersOK
  <2>3. ASSUME NEW q \in Requests PROVE AnswersBehind(snapshot'[q])
    BY <1>1, <1>2, <2>1 DEF ChatInv, AnswersOK
  <2> QED BY <2>2, <2>3 DEF AnswersOK
<1>5. RestoredOK'
  BY <1>1 DEF ChatInv, RestoredOK
<1>6. UnderWay' \subseteq UnderWay
  BY <1>1 DEF UnderWay, Returned
<1>7. AloneOK'
  BY <1>1, <1>6 DEF ChatInv, AloneOK
<1>8. KeptOK'
  <2> SUFFICES ASSUME ~lost, NEW q \in Requests \ spoilt', NEW k \in Keys, NEW e \in Entries,
                      Added(q, k, e)'
               PROVE  Kept(q, k, e)'
    BY <1>1 DEF KeptOK
  <2>1. Added(q, k, e)
    BY <1>1 DEF Added, InChat, InGlobal, Replied, AnsweredChat
  <2>2. Kept(q, k, e)
    BY <1>1, <2>1 DEF ChatInv, KeptOK
  <2>3. e \in Range(sessions'[k])
    BY <1>1, <1>2, <2>2 DEF Kept
  <2>4. ASSUME NEW p \in Requests, saving'[p] \in Copied, target'[p] = k
        PROVE  e \in Range(snapshot'[p])
    BY <1>1, <2>2, <2>3, <2>4 DEF Kept
  <2>5. e \in Range(S!Stored(k)') \/ (saving'[q] # "idle" /\ target'[q] = k)
    <3>1. CASE e \in Range(S!Stored(k))
      BY <1>1, <2>2, <3>1 DEF Kept
    <3>2. CASE saving[q] # "idle" /\ target[q] = k
      BY <1>1, <2>2, <3>2 DEF Kept
    <3> QED BY <2>2, <3>1, <3>2 DEF Kept
  <2> QED BY <2>3, <2>4, <2>5 DEF Kept
<1> QED BY <1>3, <1>4, <1>5, <1>7, <1>8 DEF ChatInv

LEMMA AddKeeps ==
  ASSUME ChatTypes, ChatInv, NEW r \in Requests, Add(r)
  PROVE  ChatInv'
<1>1. PICK key \in {ChatOf[r], Global}, entry \in {Question(r), Answer(r)} :
        /\ Adds(r, key, entry)
        /\ up /\ saving[r] = "idle"
        /\ sessions' = [sessions EXCEPT ![key] = Append(@, entry)]
        /\ saving' = [saving EXCEPT ![r] = "appended"]
        /\ target' = [target EXCEPT ![r] = key]
        /\ UNCHANGED <<up, disk, snapshot, temp, unread, historyVars>>
  BY AddEffect
<1>2. /\ key \in Keys /\ entry \in Entries /\ ChatOf[r] \in Keys
      /\ \A q \in Requests : ChatOf[q] \in Keys
      /\ Question(r) # Answer(r)
  BY KeyTypes, EntryTypes
<1>3. /\ pc[r] \notin {"new", "done"} /\ pc'[r] \notin {"new", "chat"}
      /\ ~ Asking(r)'
      /\ InChat(r)' => InChat(r) \/ (key = ChatOf[r] /\ entry = Question(r))
      /\ InGlobal(r)' => InGlobal(r) \/ (key = Global /\ entry = Question(r))
      /\ entry = Answer(r) => InGlobal(r) /\ pc'[r] \in {"answerGlobal", "done"}
      /\ key = ChatOf[r] /\ entry = Question(r) => pc[r] = "chat" /\ pc'[r] = "global"
      /\ pc[r] = "answerGlobal" => pc'[r] = "done"
      /\ \A k, e : Added(r, k, e)' => Added(r, k, e) \/ (k = key /\ e = entry)
  BY <1>1, AddMoves DEF ChatTypes
<1>4. Others(r)
  BY <1>1, AddsOthers DEF ChatTypes
<1>5. /\ UNCHANGED <<up, disk, snapshot, unread, restored, spoilt, lost>>
      /\ saving'[r] = "appended" /\ target'[r] = key
      /\ \A q \in Requests \ {r} : saving'[q] = saving[q] /\ target'[q] = target[q]
  BY <1>1 DEF historyVars, ChatTypes, S!TypeOK
<1>6. \A k \in Keys : S!Stored(k)' = S!Stored(k)
  BY <1>5 DEF S!Stored, S!Unmarshal
<1>7. \A k \in Keys : /\ sessions[k] \in Seq(Entries)
                      /\ sessions'[k] = IF k = key THEN Append(sessions[k], entry)
                                        ELSE sessions[k]
  BY <1>1, LogTypes DEF ChatTypes, TypeOK
<1>8. \A k \in Keys : /\ Range(sessions[k]) \subseteq Range(sessions'[k])
                      /\ k = key => entry \in Range(sessions'[k])
  BY <1>2, <1>7, RangeAppend
<1>9. \A k \in Keys : restored[k] \in Seq(Entries) /\ Len(restored[k]) \in Nat
                      /\ IsPrefix(restored[k], sessions[k])
  BY <1>1, LenProperties DEF ChatInv, RestoredOK
<1>10. ASSUME NEW q \in Requests PROVE RequestOK(q)'
  <2>1. RequestOK(q) /\ ChatOf[q] \in Keys /\ Global \in Keys
    BY KeyTypes DEF ChatInv
  <2>2. /\ sessions[ChatOf[q]] \in Seq(Entries) /\ Len(restored[ChatOf[q]]) \in Nat
        /\ Len(restored[ChatOf[q]]) <= Len(sessions[ChatOf[q]])
    BY <1>7, <1>9, <2>1, PrefixRange
  <2>3. CASE q = r
    <3>1. FreshOK(r)'
      <4>1. CASE key = ChatOf[r]
        <5>1. sessions'[ChatOf[r]] = Append(sessions[ChatOf[r]], entry)
          BY <1>2, <1>7, <4>1
        <5>2. /\ entry = Question(r)
                   => AskedOnce(Len(restored[ChatOf[r]]), sessions'[ChatOf[r]], r)
              /\ entry # Question(r) /\ InChat(r)
                   => AskedOnce(Len(restored[ChatOf[r]]), sessions'[ChatOf[r]], r)
              /\ entry # Answer(r) /\ pc[r] \notin {"answerGlobal", "done"}
                   => NotAfter(Len(restored[ChatOf[r]]), sessions'[ChatOf[r]], Answer(r))
          BY <1>2, <1>3, <2>1, <2>2, <2>3, <4>1, <5>1, FreshAppend DEF RequestOK, FreshOK
        <5> QED BY <1>1, <1>2, <1>3, <1>5, <4>1, <5>2 DEF FreshOK
      <4>2. CASE key # ChatOf[r]
        <5>1. sessions'[ChatOf[r]] = sessions[ChatOf[r]]
          BY <1>2, <1>7, <4>2
        <5> QED BY <1>3, <1>5, <2>1, <2>3, <4>2, <5>1 DEF RequestOK, FreshOK
      <4> QED BY <4>1, <4>2
    <3>2. InGlobal(r)' => Question(r) \in Range(sessions'[Global])
      BY <1>3, <1>8, <2>1, <2>3 DEF RequestOK
    <3> QED BY <1>1, <1>3, <1>5, <2>3, <3>1, <3>2 DEF RequestOK
  <2>4. CASE q # r
    <3>1. /\ saving'[q] = saving[q] /\ pc'[q] = pc[q] /\ history'[q] = history[q]
          /\ Range(sessions[Global]) \subseteq Range(sessions'[Global])
      BY <1>4, <1>5, <1>8, <2>1, <2>4 DEF Others
    <3>2. entry # Question(q) /\ entry # Answer(q)
      BY <1>1, <2>4, EntryTypes
    <3>3. FreshOK(q)'
      <4>1. \/ sessions'[ChatOf[q]] = sessions[ChatOf[q]]
            \/ sessions'[ChatOf[q]] = Append(sessions[ChatOf[q]], entry)
        BY <1>7, <2>1
      <4>2. /\ AskedOnce(Len(restored[ChatOf[q]]), sessions[ChatOf[q]], q)
                 => AskedOnce(Len(restored[ChatOf[q]]), sessions'[ChatOf[q]], q)
            /\ \A x \in {Question(q), Answer(q)} :
                 NotAfter(Len(restored[ChatOf[q]]), sessions[ChatOf[q]], x)
                   => NotAfter(Len(restored[ChatOf[q]]), sessions'[ChatOf[q]], x)
        BY <1>2, <2>2, <3>2, <4>1, FreshAppend
      <4> QED BY <1>5, <2>1, <3>1, <4>2 DEF RequestOK, FreshOK, InChat
    <3> QED BY <1>1, <1>5, <2>1, <3>1, <3>3 DEF RequestOK, InChat, InGlobal, Asking
  <2> QED BY <2>3, <2>4
<1>11. AnswersOK'
  <2>1. Question(r) \in Range(sessions[key]) \/ entry = Question(r)
    <3>1. RequestOK(r) /\ sessions[ChatOf[r]] \in Seq(Entries) /\ Len(restored[ChatOf[r]]) \in Nat
      BY <1>2, <1>7, <1>9 DEF ChatInv
    <3>2. InGlobal(r) => InChat(r)
      BY DEF InGlobal
    <3> QED BY <1>1, <1>3, <3>1, <3>2, FreshCount DEF RequestOK, FreshOK
  <2>2. entry.role = "assistant" => Question(entry.request) \in Range(sessions[key])
    BY <1>1, <2>1 DEF Question, Answer
  <2>3. ASSUME NEW k \in Keys PROVE AnswersBehind(sessions'[k])
    BY <1>2, <1>7, <2>2, BehindAppend DEF ChatInv, AnswersOK
  <2> QED BY <1>5, <1>6, <2>3 DEF ChatInv, AnswersOK
<1>12. RestoredOK'
  <2>1. ASSUME NEW k \in Keys PROVE IsPrefix(restored[k], sessions'[k])
    BY <1>2, <1>7, <1>9, PrefixGrows
  <2> QED BY <1>5, <2>1 DEF ChatInv, RestoredOK
<1>13. r \in UnderWay /\ UnderWay' \subseteq UnderWay
  BY <1>3, <1>4, <1>5 DEF UnderWay, Returned, Others
<1>14. AloneOK'
  BY <1>5, <1>13 DEF ChatInv, AloneOK
<1>15. KeptOK'
  <2> SUFFICES ASSUME ~lost, NEW q \in Requests \ spoilt, NEW k \in Keys, NEW e \in Entries,
                      Added(q, k, e)'
               PROVE  Kept(q, k, e)'
    BY <1>5 DEF KeptOK
  <2>1. ASSUME Added(q, k, e) PROVE Kept(q, k, e)'
    <3>1. Kept(q, k, e)
      BY <2>1 DEF ChatInv, KeptOK
    <3>2. e \in Range(sessions'[k])
      BY <1>1, <1>8, <3>1 DEF Kept
    <3>3. ASSUME NEW p \in Requests, saving'[p] \in Copied, target'[p] = k
          PROVE  e \in Range(snapshot'[p])
      BY <1>5, <3>1, <3>3 DEF Kept, Copied
    <3>4. e \in Range(S!Stored(k)') \/ (saving'[q] # "idle" /\ target'[q] = k)
      BY <1>1, <1>5, <1>6, <3>1 DEF Kept
    <3> QED BY <3>2, <3>3, <3>4 DEF Kept
  <2>2. ASSUME ~ Added(q, k, e) PROVE Kept(q, k, e)'
    <3>1. q = r /\ k = key /\ e = entry
      <4>1. q # r => (Added(q, k, e)' <=> Added(q, k, e))
        BY <1>4 DEF Added, InChat, InGlobal, Replied, AnsweredChat, Others
      <4> QED BY <1>3, <2>2, <4>1
    <3>2. e \in Range(sessions'[k])
      BY <1>8, <3>1
    <3>3. \A p \in Requests : saving[p] # "idle" => p = r
      <4>1. UnderWay = {r}
        BY <1>13, <3>1 DEF ChatInv, AloneOK
      <4>2. \A p \in Requests : saving[p] # "idle" => p \in UnderWay
        BY DEF UnderWay, Returned, ChatInv, RequestOK
      <4> QED BY <4>1, <4>2
    <3>4. \A p \in Requests : saving'[p] \notin Copied
      BY <1>1, <1>5, <3>3 DEF Copied
    <3> QED BY <1>5, <3>1, <3>2, <3>4 DEF Kept
  <2> QED BY <2>1, <2>2
<1> QED BY <1>10, <1>11, <1>12, <1>14, <1>15 DEF ChatInv

LEMMA CrashKeeps ==
  ASSUME ChatTypes, ChatInv, NEW again, Crash(again)
  PROVE  ChatInv'
<1>1. /\ ~up' /\ UNCHANGED <<disk, target, unread, restored, lost>>
      /\ \A k \in Keys : sessions'[k] = << >>
      /\ \A r \in Requests :
           /\ saving'[r] = "idle" /\ snapshot'[r] = << >>
           /\ pc'[r] = IF pc[r] = "new" \/ r \in again THEN "new" ELSE "done"
           /\ outcome'[r] = IF Returned(r) THEN outcome[r] ELSE "nothing"
      /\ spoilt' = spoilt \cup UnderWay
  BY DEF Crash, S!Crash
<1>2. \A k \in Keys : S!Stored(k)' = S!Stored(k)
  BY <1>1 DEF S!Stored, S!Unmarshal
<1>3. ASSUME NEW r \in Requests PROVE RequestOK(r)'
  <2>1. sessions'[ChatOf[r]] = << >> /\ pc'[r] \in {"new", "done"} /\ saving'[r] = "idle"
    BY <1>1, KeyTypes
  <2>2. \A n, e : NotAfter(n, << >>, e)
    BY DEF NotAfter
  <2> QED BY <2>1, <2>2 DEF RequestOK, FreshOK, InChat, InGlobal, Asking
<1>4. AnswersOK'
  <2>1. AnswersBehind(<< >>)
    BY DEF AnswersBehind
  <2> QED BY <1>1, <1>2, <2>1 DEF ChatInv, AnswersOK
<1>5. RestoredOK'
  BY <1>1 DEF ChatInv, RestoredOK
<1>6. AloneOK'
  <2>1. UnderWay' = {}
    BY <1>1 DEF UnderWay, Returned
  <2> QED BY <1>1, <2>1 DEF ChatInv, AloneOK
<1>7. KeptOK'
  <2> SUFFICES ASSUME ~lost, NEW r \in Requests \ (spoilt \cup UnderWay), NEW k \in Keys,
                      NEW e \in Entries, Added(r, k, e)'
               PROVE  Kept(r, k, e)'
    BY <1>1 DEF KeptOK
  <2>1. ~ InChat(r)' /\ ~ InGlobal(r)' /\ ~ AnsweredChat(r)'
    BY <1>1 DEF InChat, InGlobal, AnsweredChat
  <2>2. Replied(r)'
    BY <2>1 DEF Added
  <2>3. pc[r] = "done" /\ saving[r] = "idle" /\ Replied(r)
    BY <1>1, <2>2 DEF Replied, UnderWay, Returned
  <2>4. Added(r, k, e)
    BY <2>1, <2>3 DEF Added
  <2>5. e \in Range(S!Stored(k))
    BY <2>3, <2>4 DEF ChatInv, KeptOK, Kept
  <2> QED BY <1>1, <1>2, <2>5 DEF Kept, Copied
<1> QED BY <1>3, <1>4, <1>5, <1>6, <1>7 DEF ChatInv

LEMMA RestartKeeps ==
  ASSUME ChatTypes, ChatTypes', ChatInv, NEW unreadable \in SUBSET Files, Restart(unreadable)
  PROVE  ChatInv'
<1>1. /\ ~up /\ up'
      /\ \A k \in Keys :
           sessions'[k] = IF FileName[k] \in unreadable THEN << >> ELSE S!Stored(k)
      /\ unread' = {k \in Keys : FileName[k] \in unreadable /\ disk[FileName[k]] # NoFile}
      /\ restored' = sessions' /\ lost' = (lost \/ unread' # {})
      /\ UNCHANGED <<disk, saving, target, snapshot, spoilt>>
      /\ UNCHANGED <<pc, outcome, history>>
  BY DEF Restart, S!LoadSessions, agentVars
<1>2. \A k \in Keys : S!Stored(k)' = S!Stored(k)
  BY <1>1 DEF S!Stored, S!Unmarshal
<1>3. \A r \in Requests : pc[r] \in {"new", "done"} /\ saving[r] = "idle"
  BY <1>1, LogTypes DEF ChatInv, RequestOK
<1>4. ASSUME NEW r \in Requests PROVE RequestOK(r)'
  <2>1. /\ restored'[ChatOf[r]] = sessions'[ChatOf[r]]
        /\ sessions'[ChatOf[r]] \in Seq(Entries)
    BY <1>1, KeyTypes DEF ChatTypes, TypeOK
  <2>2. \A log \in Seq(Entries) : \A e : NotAfter(Len(log), log, e)
    BY LenProperties DEF NotAfter
  <2> QED BY <1>1, <1>3, <2>1, <2>2 DEF RequestOK, FreshOK, InChat, InGlobal, Asking
<1>5. AnswersOK'
  <2>1. AnswersBehind(<< >>)
    BY DEF AnswersBehind
  <2> QED BY <1>1, <1>2, <2>1 DEF ChatInv, AnswersOK
<1>6. RestoredOK'
  <2>1. sessions' \in [Keys -> Seq(Entries)]
    BY DEF ChatTypes, TypeOK
  <2>2. \A k \in Keys : IsPrefix(sessions'[k], sessions'[k])
    BY <2>1, PrefixPointwise, LenProperties
  <2> QED BY <1>1, <2>1, <2>2 DEF RestoredOK
<1>7. AloneOK'
  <2>1. UnderWay' = UnderWay
    BY <1>1 DEF UnderWay, Returned
  <2> QED BY <1>1, <2>1 DEF ChatInv, AloneOK
<1>8. KeptOK'
  <2> SUFFICES ASSUME ~lost, unread' = {}, NEW r \in Requests \ spoilt, NEW k \in Keys,
                      NEW e \in Entries, Added(r, k, e)'
               PROVE  Kept(r, k, e)'
    BY <1>1 DEF KeptOK
  <2>1. Added(r, k, e)
    BY <1>1 DEF Added, InChat, InGlobal, Replied, AnsweredChat
  <2>2. e \in Range(S!Stored(k))
    BY <1>3, <2>1 DEF ChatInv, KeptOK, Kept
  <2>3. sessions'[k] = S!Stored(k)
    <3>1. disk[FileName[k]] = NoFile => S!Stored(k) = << >>
      BY DEF S!Stored, S!Unmarshal
    <3> QED BY <1>1, <3>1
  <2> QED BY <1>1, <1>2, <1>3, <2>2, <2>3 DEF Kept, Copied
<1> QED BY <1>4, <1>5, <1>6, <1>7, <1>8 DEF ChatInv

LEMMA ChatInvariant == ChatSpec => [](ChatTypes /\ ChatInv)
<1>1. ASSUME ChatInit PROVE ChatInv
  <2>1. /\ \A r \in Requests : pc[r] = "new" /\ saving[r] = "idle" /\ snapshot[r] = << >>
        /\ \A k \in Keys : sessions[k] = << >> /\ S!Stored(k) = << >>
        /\ restored = sessions /\ up /\ unread = {} /\ ~lost
    <3>1. \A k \in Keys : disk[FileName[k]] = NoFile
      BY <1>1, FileAssumption DEF ChatInit, S!Init
    <3> QED BY <1>1, <3>1 DEF ChatInit, Init, S!Init, S!Stored, S!Unmarshal
  <2>2. ASSUME NEW r \in Requests PROVE RequestOK(r)
    <3>1. \A n, e : NotAfter(n, << >>, e)
      BY DEF NotAfter
    <3> QED BY <2>1, <3>1, KeyTypes DEF RequestOK, FreshOK, InChat, InGlobal, Asking
  <2>3. AnswersOK
    BY <2>1 DEF AnswersOK, AnswersBehind
  <2>4. RestoredOK
    <3>1. sessions \in [Keys -> Seq(Entries)]
      BY <1>1, ChatTypesInit DEF ChatTypes, TypeOK
    <3>2. \A k \in Keys : IsPrefix(sessions[k], sessions[k])
      BY <3>1, PrefixPointwise, LenProperties
    <3> QED BY <2>1, <3>1, <3>2 DEF RestoredOK
  <2>5. AloneOK
    BY <2>1 DEF AloneOK, UnderWay
  <2>6. KeptOK
    BY <2>1 DEF KeptOK, Added, InChat, InGlobal, Replied, AnsweredChat
  <2> QED BY <2>2, <2>3, <2>4, <2>5, <2>6 DEF ChatInv
<1>2. ASSUME ChatTypes, ChatInv, [ChatNext]_chatVars PROVE ChatTypes' /\ ChatInv'
  <2>1. ChatTypes'
    BY <1>2, ChatTypesStep
  <2>2. ASSUME NEW r \in Requests, Deliver(r) \/ GoOn(r) \/ FailSave(r) PROVE ChatInv'
    BY <1>2, <2>2, DeliverKeeps, AddKeeps, SaveKeeps, ThinkKeeps DEF GoOn
  <2>3. ASSUME NEW again, Crash(again) PROVE ChatInv'
    BY <1>2, <2>3, CrashKeeps
  <2>4. ASSUME NEW unreadable \in SUBSET Files, Restart(unreadable) PROVE ChatInv'
    BY <1>2, <2>1, <2>4, RestartKeeps
  <2>5. ASSUME UNCHANGED chatVars PROVE ChatInv'
    <3>1. UNCHANGED <<pc, history, outcome, sessions, up, disk, saving, target, snapshot, unread>>
          /\ UNCHANGED <<restored, spoilt, lost>>
      BY <2>5 DEF chatVars, agentVars, storeVars, historyVars
    <3>2. \A k \in Keys : S!Stored(k)' = S!Stored(k)
      BY <3>1 DEF S!Stored, S!Unmarshal
    <3>3. UnderWay' = UnderWay
      BY <3>1 DEF UnderWay, Returned
    <3>4. \A r \in Requests : RequestOK(r)'
      BY <1>2, <3>1 DEF ChatInv, RequestOK, FreshOK, InChat, InGlobal, Asking
    <3>5. AnswersOK' /\ RestoredOK' /\ AloneOK'
      BY <1>2, <3>1, <3>2, <3>3 DEF ChatInv, AnswersOK, RestoredOK, AloneOK
    <3>6. \A r \in Requests, k \in Keys, e \in Entries :
            (Added(r, k, e)' <=> Added(r, k, e)) /\ (Kept(r, k, e) => Kept(r, k, e)')
      BY <3>1, <3>2 DEF Added, Kept, InChat, InGlobal, Replied, AnsweredChat
    <3>7. KeptOK'
      BY <1>2, <3>1, <3>6 DEF ChatInv, KeptOK
    <3> QED BY <3>4, <3>5, <3>7 DEF ChatInv
  <2> QED BY <1>2, <2>1, <2>2, <2>3, <2>4, <2>5 DEF ChatNext
<1> QED BY <1>1, <1>2, ChatTypesInit, PTL DEF ChatSpec

\* No log in memory or in a file has an answer whose question is gone, however
\* the saves of a session overtake each other, fail, or end with the process.
THEOREM AnswersAreBehind == ChatSpec => []AnswersFollowOnDisk
<1>1. ChatInv => AnswersFollowOnDisk
  BY DEF ChatInv, AnswersOK, AnswersFollowOnDisk
<1> QED BY <1>1, ChatInvariant, PTL

\* After any number of restarts the model is shown what loadSessions has read,
\* and behind it the question that is asked now, once and not yet answered.
THEOREM ConversationsGoOn == ChatSpec => []ContinuesFromDisk
<1>1. ASSUME ChatTypes, ChatInv PROVE ContinuesFromDisk
  <2> SUFFICES ASSUME NEW r \in Requests, Asking(r)
               PROVE  /\ IsPrefix(restored[ChatOf[r]], history[r])
                      /\ CountAfter(Len(restored[ChatOf[r]]), history[r], Question(r)) = 1
                      /\ CountAfter(Len(restored[ChatOf[r]]), history[r], Answer(r)) = 0
    BY DEF ContinuesFromDisk, Asking
  <2>1. RequestOK(r) /\ history[r] \in Seq(Entries)
    BY <1>1, LogTypes DEF ChatInv
  <2>2. Len(restored[ChatOf[r]]) \in Nat
    BY <1>1, KeyTypes, LenProperties DEF ChatInv, RestoredOK
  <2> QED BY <2>1, <2>2, FreshCount DEF RequestOK
<1> QED BY <1>1, ChatInvariant, PTL

\* A reply that Process has returned is on disk with its question, in both logs
\* and for good, if the request met no other, none of its saves failed and no
\* session was lost.
THEOREM RepliesAreSaved == ChatSpec => []RepliedIsSaved
<1>1. ASSUME ChatTypes, ChatInv PROVE RepliedIsSaved
  <2> SUFFICES ASSUME NEW r \in Requests, Returned(r), outcome[r] = "reply", r \notin spoilt, ~lost,
                      NEW k \in {ChatOf[r], Global}, NEW e \in {Question(r), Answer(r)}
               PROVE  e \in Range(S!Stored(k))
    BY DEF RepliedIsSaved
  <2>1. k \in Keys /\ e \in Entries
    BY KeyTypes, EntryTypes
  <2>2. Added(r, k, e) /\ saving[r] = "idle"
    BY DEF Added, Replied, Returned
  <2> QED BY <1>1, <2>1, <2>2 DEF ChatInv, KeptOK, Kept
<1> QED BY <1>1, ChatInvariant, PTL

\* With the agent as its only caller, through any number of ends and starts of
\* the process, the store takes the steps of SessionStore and no others: what is
\* proved there of any callers is so of this system.
THEOREM ChatImplementsStore == ChatSpec => S!Spec
<1>1. ChatInit => S!Init
  BY DEF ChatInit
<1>2. ChatTypes /\ [ChatNext]_chatVars => [S!Next]_S!vars
  BY StoreStep
<1> QED BY <1>1, <1>2, ChatInvariant, PTL DEF ChatSpec, S!Spec

\* In particular every file is whole and holds an earlier state of its session,
\* at any time in any number of restarts.
THEOREM ChatFilesWhole == ChatSpec => [](S!FilesWhole /\ S!DiskIsEarlierState)
<1>1. ChatTypes => S!FilesWhole /\ S!DiskIsEarlierState
  BY DEF ChatTypes, S!StoreInv
<1> QED BY <1>1, ChatInvariant, PTL
=============================================================================
