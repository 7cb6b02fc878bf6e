---------------------------- MODULE SessionStore ----------------------------
(***************************************************************************)
(* internal/core/session_store.go: the per-chat message history, kept in a *)
(* map under an RWMutex and saved to one JSON file per session.            *)
(*                                                                         *)
(* AddMessage is called by many handler goroutines at once.  It appends    *)
(* under the write lock, releases it, and only then calls Save, which      *)
(* copies the session under the read lock, releases that too, and writes   *)
(* the copy to a temporary file that it renames over the session file.     *)
(* Nothing orders the saves of one session, so each of those steps is an   *)
(* action here, as are the failure of any file operation and the end of    *)
(* the process between any two steps.                                      *)
(*                                                                         *)
(* A file's JSON is either whole, a record of the key and the messages, or *)
(* Torn: created or partly written.  Times are left out.                   *)
(***************************************************************************)
EXTENDS Naturals, SequencesExt

CONSTANTS
  Callers,     \* goroutines that call AddMessage
  Keys,        \* trimmed session keys, "global" among them
  Messages,    \* message values
  Files,       \* file names in the storage directory
  FileName,    \* sanitizeSessionFilename, as a function from Keys to Files
  NotSaved,    \* keys Save returns early for: every key if storage is "",
               \* else those whose file name is not a plain local name
  MaxLen,      \* bound on the length of a session, for model checking
  NoFile, Torn \* no file of that name; a file that is not whole JSON

\* ":" becomes "_" in a file name.  The keys the gateways build,
\* "telegram:<number>", "whatsapp:<jid>" and "global", stay distinct.
ASSUME FileNameAssumption ==
  /\ FileName \in [Keys -> Files]
  /\ \A j, k \in Keys : FileName[j] = FileName[k] => j = k

ASSUME StoreAssumption ==
  /\ NotSaved \subseteq Keys
  /\ MaxLen \in Nat
  /\ NoFile # Torn

Content == [key : Keys, messages : Seq(Messages)]

ASSUME SentinelAssumption == NoFile \notin Content /\ Torn \notin Content

VARIABLES
  up,         \* the process is running, with its sessions loaded
  sessions,   \* s.sessions: messages of each key, << >> if there is no entry
  disk,       \* content of each session file
  pc,         \* where each goroutine is in AddMessage
  target,     \* the key it was called with
  snapshot,   \* the messages Save copied under the read lock
  temp,       \* content of the temporary file it has open
  unread,     \* history: keys whose file loadSessions could not read and
              \* that have not been saved since
  base        \* history: what the file of target held when the call began

vars == <<up, sessions, disk, pc, target, snapshot, temp, unread, base>>

Phases == {"idle", "appended", "copied", "writing", "written"}

TypeOK ==
  /\ up \in BOOLEAN
  /\ sessions \in [Keys -> Seq(Messages)]
  /\ disk \in [Files -> Content \union {NoFile, Torn}]
  /\ pc \in [Callers -> Phases]
  /\ target \in [Callers -> Keys]
  /\ snapshot \in [Callers -> Seq(Messages)]
  /\ temp \in [Callers -> Content \union {NoFile, Torn}]
  /\ unread \in SUBSET Keys
  /\ base \in [Callers -> Seq(Messages)]

-----------------------------------------------------------------------------
\* What json.Unmarshal makes of a file: the history it holds for key k.
\* A missing or torn file, or one that names another key, gives none.
Unmarshal(content, k) ==
  IF content \in {NoFile, Torn} THEN << >>
  ELSE IF content.key = k THEN content.messages ELSE << >>

Stored(k) == Unmarshal(disk[FileName[k]], k)

Goto(c, phase) == pc' = [pc EXCEPT ![c] = phase]

\* AddMessage returns: the locals of the call are gone.
Return(c) ==
  /\ Goto(c, "idle")
  /\ snapshot' = [snapshot EXCEPT ![c] = << >>]
  /\ temp' = [temp EXCEPT ![c] = NoFile]
  /\ base' = [base EXCEPT ![c] = << >>]

Init ==
  /\ up = TRUE
  /\ sessions = [k \in Keys |-> << >>]
  /\ disk = [f \in Files |-> NoFile]
  /\ pc = [c \in Callers |-> "idle"]
  /\ target \in [Callers -> Keys]
  /\ snapshot = [c \in Callers |-> << >>]
  /\ temp = [c \in Callers |-> NoFile]
  /\ unread = {}
  /\ base = [c \in Callers |-> << >>]

-----------------------------------------------------------------------------
(***************************************************************************)
(* AddMessage and Save                                                     *)
(***************************************************************************)
\* A variant with a bug: the entry is made anew although it exists.
AddMessageAnew(c, k, m) ==
  /\ up /\ pc[c] = "idle" /\ Len(sessions[k]) < MaxLen
  /\ sessions' = [sessions EXCEPT ![k] = <<m>>]
  /\ target' = [target EXCEPT ![c] = k]
  /\ Goto(c, "appended")
  /\ UNCHANGED <<up, disk, snapshot, temp, unread, base>>

\* AddMessage up to s.mu.Unlock(): the entry is created if it is missing and
\* the message appended.
AddMessage(c, k, m) ==
  /\ up /\ pc[c] = "idle" /\ Len(sessions[k]) < MaxLen
  /\ sessions' = [sessions EXCEPT ![k] = Append(@, m)]
  /\ target' = [target EXCEPT ![c] = k]
  /\ base' = [base EXCEPT ![c] = IF k \in unread THEN << >> ELSE Stored(k)]
  /\ Goto(c, "appended")
  /\ UNCHANGED <<up, disk, snapshot, temp, unread>>

\* Save returns before it touches the file system.
SkipSave(c) ==
  /\ pc[c] = "appended" /\ target[c] \in NotSaved
  /\ Return(c)
  /\ UNCHANGED <<up, sessions, disk, target, unread>>

\* A variant with a bug: only the last message is copied.
CopyLastMessage(c) ==
  /\ pc[c] = "appended" /\ target[c] \notin NotSaved
  /\ snapshot' = [snapshot EXCEPT ![c] = LET log == sessions[target[c]] IN <<log[Len(log)]>>]
  /\ Goto(c, "copied")
  /\ UNCHANGED <<up, sessions, disk, target, temp, unread, base>>

\* Save copies the session under s.mu.RLock().  The entry exists: AddMessage
\* made it, and no code deletes entries.
CopySession(c) ==
  /\ pc[c] = "appended" /\ target[c] \notin NotSaved
  /\ snapshot' = [snapshot EXCEPT ![c] = sessions[target[c]]]
  /\ Goto(c, "copied")
  /\ UNCHANGED <<up, sessions, disk, target, temp, unread, base>>

\* os.CreateTemp: a fresh name ending in ".tmp", no content yet.
CreateTemp(c) ==
  /\ pc[c] = "copied"
  /\ temp' = [temp EXCEPT ![c] = Torn]
  /\ Goto(c, "writing")
  /\ UNCHANGED <<up, sessions, disk, target, snapshot, unread, base>>

\* A variant with a bug: the errors of Write and Sync are not looked at.
WriteTempUnchecked(c) ==
  /\ pc[c] = "writing"
  /\ \E content \in {Torn, [key |-> target[c], messages |-> snapshot[c]]} :
       temp' = [temp EXCEPT ![c] = content]
  /\ Goto(c, "written")
  /\ UNCHANGED <<up, sessions, disk, target, snapshot, unread, base>>

\* Write, Chmod, Sync and Close all succeed.
WriteTemp(c) ==
  /\ pc[c] = "writing"
  /\ temp' = [temp EXCEPT ![c] = [key |-> target[c], messages |-> snapshot[c]]]
  /\ Goto(c, "written")
  /\ UNCHANGED <<up, sessions, disk, target, snapshot, unread, base>>

\* os.Rename(tmpPath, targetPath) replaces the session file.
Rename(c) ==
  /\ pc[c] = "written"
  /\ disk' = [disk EXCEPT ![FileName[target[c]]] = temp[c]]
  /\ unread' = unread \ {target[c]}
  /\ Return(c)
  /\ UNCHANGED <<up, sessions, target>>

\* Any file operation of Save may fail.  The deferred clean-up removes the
\* temporary file, or leaves one that nothing reads again; the caller drops
\* the error and the message stays in memory only.
FailSave(c) ==
  /\ pc[c] \in {"copied", "writing", "written"}
  /\ Return(c)
  /\ UNCHANGED <<up, sessions, disk, target, unread>>

-----------------------------------------------------------------------------
(***************************************************************************)
(* The end of the process, and the next one                                *)
(***************************************************************************)
\* The process ends.  A shutdown is no gentler: main does not wait for the
\* handlers.  Temporary files stay behind, but loadSessions opens only
\* ".json" files, so they are never read.
Crash ==
  /\ up
  /\ up' = FALSE
  /\ sessions' = [k \in Keys |-> << >>]
  /\ pc' = [c \in Callers |-> "idle"]
  /\ snapshot' = [c \in Callers |-> << >>]
  /\ temp' = [c \in Callers |-> NoFile]
  /\ base' = [c \in Callers |-> << >>]
  /\ UNCHANGED <<disk, target, unread>>

\* A variant with a bug: no file has the extension it looks for.
LoadNothing(unreadable) ==
  /\ ~ up
  /\ up' = TRUE
  /\ UNCHANGED <<sessions, disk, pc, target, snapshot, temp, unread, base>>

\* NewSessionStore and loadSessions.  A file that cannot be read now is
\* skipped like one that does not parse; the session starts empty.
LoadSessions(unreadable) ==
  /\ ~ up
  /\ up' = TRUE
  /\ sessions' = [k \in Keys |-> IF FileName[k] \in unreadable THEN << >> ELSE Stored(k)]
  /\ unread' = {k \in Keys : FileName[k] \in unreadable /\ disk[FileName[k]] # NoFile}
  /\ UNCHANGED <<disk, pc, target, snapshot, temp, base>>

Step(c) == \/ \E k \in Keys, m \in Messages : AddMessage(c, k, m)
           \/ SkipSave(c) \/ CopySession(c) \/ CreateTemp(c)
           \/ WriteTemp(c) \/ Rename(c) \/ FailSave(c)

Next == \/ \E c \in Callers : Step(c)
        \/ Crash
        \/ \E unreadable \in SUBSET Files : LoadSessions(unreadable)

Spec == Init /\ [][Next]_vars

-----------------------------------------------------------------------------
(***************************************************************************)
(* Properties                                                              *)
(***************************************************************************)
\* A session file always holds whole JSON that names the key it is for, no
\* matter how many saves are under way or where the process stopped: what
\* the temporary file and the rename in Save are for.
FilesWhole ==
  \A f \in Files : disk[f] # NoFile =>
    /\ disk[f] # Torn
    /\ f = FileName[disk[f].key]

\* While the process runs, what a session file holds is an earlier state of
\* the session in memory, message by message: concurrent saves never mix two
\* sessions, or two states of one, and a restart continues where the file
\* stopped.  Sessions loadSessions failed to read are the exception until
\* they are next saved.
DiskIsEarlierState ==
  up => \A k \in Keys \ unread : IsPrefix(Stored(k), sessions[k])

\* A save never takes away a message that was on disk when its AddMessage
\* began: the copy is made after the append, so it holds at least what an
\* earlier, finished save wrote.  (It may take away what a concurrent
\* AddMessage saved: Save runs outside the lock and renames in any order.)
SaveKeepsEarlierSaves ==
  [][\A c \in Callers :
       pc[c] = "written" /\ pc'[c] = "idle" /\ disk' # disk
         => IsPrefix(base[c], Stored(target[c])')]_vars

\* The store implements the log its callers rely on.
SavedLog == [k \in Keys |-> Stored(k)]

Durable == INSTANCE DurableLog WITH running <- up, log <- sessions, saved <- SavedLog

ImplementsDurableLog == Durable!Spec

\* What holds of the call in progress in goroutine c: the copy its save
\* carries, and the file it started from, are earlier states too.
CallInv(c) ==
  /\ pc[c] # "idle" =>
       up /\ sessions[target[c]] # << >> /\ IsPrefix(base[c], sessions[target[c]])
  /\ pc[c] \in {"copied", "writing", "written"} =>
       /\ IsPrefix(snapshot[c], sessions[target[c]])
       /\ IsPrefix(base[c], snapshot[c])
       /\ snapshot[c] # << >>
  /\ pc[c] = "written" =>
       temp[c] = [key |-> target[c], messages |-> snapshot[c]]

\* The strengthening of FilesWhole and DiskIsEarlierState that every step
\* preserves.
StoreInv == FilesWhole /\ DiskIsEarlierState /\ \A c \in Callers : CallInv(c)
=============================================================================
