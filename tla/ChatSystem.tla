----------------------------- MODULE ChatSystem -----------------------------
(***************************************************************************)
(* The agent and the session store together, over restarts of the process. *)
(*                                                                         *)
(* Agent lets AddMessage be one step on the log in memory; SessionStore    *)
(* lets anybody call it.  Here the calls of SessionStore are those of the  *)
(* agent: a request that adds a message goes on only when the store has    *)
(* written its file, or failed to.  When the process ends the requests end *)
(* with it, and the gateways may deliver a message once more to the next   *)
(* process: the channels repeat what was not acknowledged.                 *)
(*                                                                         *)
(* The messages are those that ask the model, which answers at once: the   *)
(* other kinds leave one question in the same way, and no answer; the tool *)
(* loop touches no log.                                                    *)
(***************************************************************************)
EXTENDS Agent

CONSTANTS
  Files, FileName, MaxLen, NoFile, Torn,  \* see SessionStore
  MaxCrashes,  \* bound: how often the process ends
  MaxFailures, \* bound: how many saves fail
  MaxAgain     \* bound: how many messages are delivered to the next process

VARIABLES
  up, disk, saving, target, snapshot, temp, unread, base,  \* see SessionStore
  crashes,   \* counts the ends of the process
  failures,  \* counts the saves that failed
  restored,  \* history: the logs that the process has started with
  spoilt,    \* history: requests of this process that met another under way,
             \* or a file operation that failed
  lost       \* history: a session that was on disk could not be loaded

S == INSTANCE SessionStore WITH
       Callers <- Requests, Messages <- Entries, NotSaved <- {}, pc <- saving

\* What SessionStore assumes of its files.
ASSUME FileAssumption ==
  /\ FileName \in [Keys -> Files]
  /\ \A j, k \in Keys : FileName[j] = FileName[k] => j = k
  /\ MaxLen \in Nat
  /\ NoFile # Torn /\ NoFile \notin S!Content /\ Torn \notin S!Content

agentVars == <<llm, memory, pc, kind, history, pending, round, stats, outcome>>
storeVars == <<up, disk, saving, target, snapshot, temp, unread, base>>
historyVars == <<crashes, failures, restored, spoilt, lost>>
chatVars == <<agentVars, sessions, storeVars, historyVars>>

ChatInit ==
  /\ Init /\ llm
  /\ S!Init /\ target = [r \in Requests |-> Global]
  /\ crashes = 0 /\ failures = 0
  /\ restored = sessions
  /\ spoilt = {}
  /\ lost = FALSE

\* Process has returned only when the last AddMessage has.
Returned(r) == pc[r] = "done" /\ saving[r] = "idle"
UnderWay == {r \in Requests : pc[r] # "new" /\ ~Returned(r)}

-----------------------------------------------------------------------------
\* A gateway hands a message to Process.
Deliver(r) ==
  /\ up
  /\ Process(r, "chat")
  /\ spoilt' = IF UnderWay = {} THEN spoilt ELSE spoilt \cup UnderWay \cup {r}
  /\ UNCHANGED <<storeVars, crashes, failures, restored, lost>>

\* The steps of Agent that call AddMessage, with the key and the message.
Adds(r, key, entry) ==
  \/ RememberInChat(r) /\ key = ChatOf[r] /\ entry = Question(r)
  \/ RememberInGlobal(r) /\ key = Global /\ entry = Question(r)
  \/ AnswerInChat(r) /\ key = ChatOf[r] /\ entry = Answer(r)
  \/ AnswerInGlobal(r) /\ key = Global /\ entry = Answer(r)

\* A variant with a bug: the message is added by a goroutine of its own.
AddAndGoOn(r) ==
  /\ up
  /\ \E key \in Keys, entry \in Entries :
       /\ Adds(r, key, entry)
       /\ IF saving[r] = "idle" THEN S!AddMessage(r, key, entry)
                                ELSE UNCHANGED storeVars
  /\ UNCHANGED historyVars

Add(r) ==
  /\ saving[r] = "idle"
  /\ \E key \in {ChatOf[r], Global}, entry \in {Question(r), Answer(r)} :
       Adds(r, key, entry) /\ S!AddMessage(r, key, entry)
  /\ UNCHANGED historyVars

\* The call goes on in the store.
Save(r) ==
  /\ S!CopySession(r) \/ S!CreateTemp(r) \/ S!WriteTemp(r) \/ S!Rename(r)
  /\ UNCHANGED <<agentVars, historyVars>>

\* The agent drops the error.
FailSave(r) ==
  /\ failures < MaxFailures
  /\ failures' = failures + 1
  /\ S!FailSave(r)
  /\ spoilt' = spoilt \cup {r}
  /\ UNCHANGED <<agentVars, crashes, restored, lost>>

\* The other steps of the agent, when AddMessage has returned.
Think(r) ==
  /\ up /\ saving[r] = "idle"
  /\ BuildLLMMessages(r) \/ CompleteFails(r) \/ CompleteAnswers(r) \/ RememberAnswer(r)
  /\ UNCHANGED <<storeVars, historyVars>>

\* The process ends, and with it the requests.  Those of again will be
\* delivered once more: they were not acknowledged.
Crash(again) ==
  /\ crashes < MaxCrashes
  /\ crashes' = crashes + 1
  /\ S!Crash
  /\ pc' = [r \in Requests |-> IF pc[r] = "new" \/ r \in again THEN "new" ELSE "done"]
  /\ outcome' = [r \in Requests |-> IF Returned(r) THEN outcome[r] ELSE "nothing"]
  /\ memory' = 0
  /\ history' = [r \in Requests |-> << >>]
  /\ pending' = [r \in Requests |-> 0]
  /\ round' = [r \in Requests |-> 0]
  /\ spoilt' = spoilt \cup UnderWay
  /\ UNCHANGED <<llm, kind, stats, failures, restored, lost>>

Restart(unreadable) ==
  /\ S!LoadSessions(unreadable)
  /\ restored' = sessions'
  /\ lost' = (lost \/ unread' # {})
  /\ UNCHANGED <<agentVars, crashes, failures, spoilt>>

GoOn(r) == Add(r) \/ Save(r) \/ Think(r)

ChatNext ==
  \/ \E r \in Requests : Deliver(r) \/ GoOn(r) \/ FailSave(r)
  \/ \E again \in SUBSET Requests : Cardinality(again) <= MaxAgain /\ Crash(again)
  \/ \E unreadable \in SUBSET Files : Restart(unreadable)

ChatSpec == ChatInit /\ [][ChatNext]_chatVars

-----------------------------------------------------------------------------
(* Properties *)

\* In a log, an answer stands behind the question it answers.
AnswersBehind(log) ==
  \A i \in DOMAIN log : log[i].role = "assistant" =>
    \E j \in 1 .. i - 1 : log[j] = Question(log[i].request)

\* So it is in memory and in every file, over restarts, though the saves of a
\* session overtake each other and a file may be lost: no conversation is ever
\* taken up with an answer whose question is gone.
AnswersFollowOnDisk ==
  \A k \in Keys : AnswersBehind(sessions[k]) /\ AnswersBehind(S!Stored(k))

\* How often an entry is in a log behind its first n.
CountAfter(n, log, entry) == Cardinality({i \in n + 1 .. Len(log) : log[i] = entry})

\* What the model is shown goes on from what the process has loaded at its
\* start, and behind that it has the question it is asked exactly once, and no
\* answer to it.  A message that was delivered to an earlier process too may
\* have its question, and even an answer, in the loaded part; a question that
\* was not saved in time is not there.
ContinuesFromDisk ==
  \A r \in Requests : pc[r] \in {"complete", "tools", "answer"} =>
    LET loaded == restored[ChatOf[r]] IN
    /\ IsPrefix(loaded, history[r])
    /\ CountAfter(Len(loaded), history[r], Question(r)) = 1
    /\ CountAfter(Len(loaded), history[r], Answer(r)) = 0

\* A request that no other overlapped, and whose files were all written, has
\* its question and its answer on disk in both logs when it has replied: the
\* reply will not be forgotten by a restart.
RepliedIsSaved ==
  \A r \in Requests :
    Returned(r) /\ outcome[r] = "reply" /\ r \notin spoilt /\ ~lost =>
      \A k \in {ChatOf[r], Global} :
        {Question(r), Answer(r)} \subseteq Range(S!Stored(k))
=============================================================================
