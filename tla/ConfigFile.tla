----------------------------- MODULE ConfigFile -----------------------------
(***************************************************************************)
(* The configuration file: runs of the setup wizard that back it up and    *)
(* replace it (prepareConfigPath of internal/setup/wizard.go and Save of   *)
(* internal/config/save.go), and the service that loads it when it starts  *)
(* (Load of internal/config/config.go).                                    *)
(*                                                                         *)
(* A run of the wizard is a process, whose answers make one configuration: *)
(* the run stands for it.  Runs may overlap, every file operation may      *)
(* fail, and a run may be killed between any two of them.  A backup is     *)
(* named after the second in which it is made.                             *)
(***************************************************************************)
EXTENDS Naturals

CONSTANTS Runs,       \* the runs of the wizard
          MaxSecond,  \* bound: the seconds that pass
          Original,   \* the configuration that was there before
          Absent,     \* there is no such file
          Torn,       \* a file that is not a configuration in whole
          Defaults,   \* the configuration of a service that found no file
          Refused     \* the service did not start: the file does not parse

Configs == Runs \cup {Original}

ASSUME ConfigFileAssumption ==
  /\ MaxSecond \in Nat \ {0}
  /\ Original \notin Runs
  /\ Absent # Torn
  /\ {Absent, Torn, Defaults, Refused} \cap Configs = {}

Seconds == 1 .. MaxSecond
NoBackup == 0

VARIABLES
  path,       \* what the configuration file holds
  backups,    \* what the backup made in each second holds
  temp,       \* what the temporary file of each run holds
  pc,         \* what each run does next
  copy,       \* what each run has read of the configuration
  backupPath, \* the second that names the backup of each run, or NoBackup
  second,     \* the clock
  inForce,    \* the configuration of the service that started last
  published,  \* history: what the configuration file has held
  removed,    \* history: the runs that removed the configuration file
  overlapped  \* history: a run began while another was under way

files == <<path, backups, temp>>
history == <<published, removed, overlapped>>
fileVars == <<path, backups, temp, pc, copy, backupPath, second, inForce,
              published, removed, overlapped>>

Steps == {"stat", "confirm", "name", "read", "backup", "fill",
          "create", "write", "rename", "remove", "retry"}
Ends == {"done", "failed", "cancelled", "crashed"}
UnderWay(w) == pc[w] \in Steps \ {"stat"}

TypeOK ==
  /\ path \in Configs \cup {Absent, Torn}
  /\ backups \in [Seconds -> Configs \cup {Absent, Torn}]
  /\ temp \in [Runs -> Configs \cup {Absent, Torn}]
  /\ pc \in [Runs -> Steps \cup Ends]
  /\ copy \in [Runs -> Configs \cup {Absent}]
  /\ backupPath \in [Runs -> Seconds \cup {NoBackup}]
  /\ second \in Seconds
  /\ inForce \in Configs \cup {Absent, Defaults, Refused}
  /\ published \subseteq Configs
  /\ removed \subseteq Runs
  /\ overlapped \in BOOLEAN
  /\ \A w \in Runs : pc[w] \in {"backup", "fill"} => copy[w] \in Configs

FileInit ==
  /\ path \in {Absent, Original}
  /\ backups = [s \in Seconds |-> Absent]
  /\ temp = [w \in Runs |-> Absent]
  /\ pc = [w \in Runs |-> "stat"]
  /\ copy = [w \in Runs |-> Absent]
  /\ backupPath = [w \in Runs |-> NoBackup]
  /\ second = 1
  /\ inForce = Absent
  /\ published = {path} \ {Absent}
  /\ removed = {}
  /\ overlapped = FALSE

GoTo(w, step) == pc' = [pc EXCEPT ![w] = step]

\* An error ends the run; Save removes its temporary file first.
Fail(w) ==
  /\ GoTo(w, "failed")
  /\ temp' = [temp EXCEPT ![w] = Absent]
  /\ UNCHANGED <<path, backups, copy, backupPath, second, inForce, history>>

-----------------------------------------------------------------------------
(* prepareConfigPath *)

\* A variant with a bug: --force leaves out the backup with the question.
StatForced(w) ==
  /\ pc[w] = "stat"
  /\ \E next \in IF path = Absent THEN {"create"} ELSE {"confirm", "create"} :
       GoTo(w, next)
  /\ overlapped' = (overlapped \/ \E v \in Runs \ {w} : UnderWay(v))
  /\ UNCHANGED <<files, copy, backupPath, second, inForce, published, removed>>

\* With --force there is no question.
Stat(w) ==
  /\ pc[w] = "stat"
  /\ \E next \in IF path = Absent THEN {"create"} ELSE {"confirm", "name"} :
       GoTo(w, next)
  /\ overlapped' = (overlapped \/ \E v \in Runs \ {w} : UnderWay(v))
  /\ UNCHANGED <<files, copy, backupPath, second, inForce, published, removed>>

Confirm(w) ==
  /\ pc[w] = "confirm"
  /\ \E next \in {"name", "cancelled"} : GoTo(w, next)
  /\ UNCHANGED <<files, copy, backupPath, second, inForce, history>>

NameBackup(w) ==
  /\ pc[w] = "name"
  /\ backupPath' = [backupPath EXCEPT ![w] = second]
  /\ GoTo(w, "read")
  /\ UNCHANGED <<files, copy, second, inForce, history>>

\* The file may have gone since it was asked for.
ReadConfig(w) ==
  /\ pc[w] = "read"
  /\ path # Absent
  /\ copy' = [copy EXCEPT ![w] = path]
  /\ GoTo(w, "backup")
  /\ UNCHANGED <<files, backupPath, second, inForce, history>>

\* WriteFile truncates the file of that name, if there is one, then writes.
OpenBackup(w) ==
  /\ pc[w] = "backup"
  /\ backups' = [backups EXCEPT ![backupPath[w]] = Torn]
  /\ GoTo(w, "fill")
  /\ UNCHANGED <<path, temp, copy, backupPath, second, inForce, history>>

\* A variant with a bug: an error of the writing goes unnoticed.
FillBackupUnchecked(w) ==
  /\ pc[w] = "fill"
  /\ \E content \in {copy[w], Torn} :
       backups' = [backups EXCEPT ![backupPath[w]] = content]
  /\ GoTo(w, "create")
  /\ UNCHANGED <<path, temp, copy, backupPath, second, inForce, history>>

\* Over what another run has written to the same name since, the two may mix.
FillBackup(w) ==
  /\ pc[w] = "fill"
  /\ \E content \in {copy[w]}
         \cup (IF backups[backupPath[w]] \in {Torn, copy[w]} THEN {} ELSE {Torn}) :
       backups' = [backups EXCEPT ![backupPath[w]] = content]
  /\ GoTo(w, "create")
  /\ UNCHANGED <<path, temp, copy, backupPath, second, inForce, history>>

-----------------------------------------------------------------------------
(* Save *)

CreateTemp(w) ==
  /\ pc[w] = "create"
  /\ temp' = [temp EXCEPT ![w] = Torn]
  /\ GoTo(w, "write")
  /\ UNCHANGED <<path, backups, copy, backupPath, second, inForce, history>>

WriteTemp(w) ==
  /\ pc[w] = "write"
  /\ temp' = [temp EXCEPT ![w] = w]
  /\ GoTo(w, "rename")
  /\ UNCHANGED <<path, backups, copy, backupPath, second, inForce, history>>

\* The rename replaces the file at one stroke, at the first or second attempt.
Rename(w) ==
  /\ pc[w] \in {"rename", "retry"}
  /\ path' = temp[w]
  /\ temp' = [temp EXCEPT ![w] = Absent]
  /\ published' = published \cup {w}
  /\ GoTo(w, "done")
  /\ UNCHANGED <<backups, copy, backupPath, second, inForce, removed, overlapped>>

\* The rename fails, and a file is in the way or said to be.
RenameRefused(w) ==
  /\ pc[w] = "rename"
  /\ GoTo(w, "remove")
  /\ UNCHANGED <<files, copy, backupPath, second, inForce, history>>

Remove(w) ==
  /\ pc[w] = "remove"
  /\ path # Absent
  /\ path' = Absent
  /\ removed' = removed \cup {w}
  /\ GoTo(w, "retry")
  /\ UNCHANGED <<backups, temp, copy, backupPath, second, inForce,
                 published, overlapped>>

\* A variant with a bug: the error of the second rename is not returned.
StepFailsSilently(w) ==
  IF pc[w] = "retry"
    THEN GoTo(w, "done") /\ UNCHANGED <<files, copy, backupPath, second, inForce, history>>
    ELSE pc[w] \in Steps \ {"confirm", "name"} /\ Fail(w)

\* Any file operation may fail; only that of the first rename is not the end,
\* unless nothing is in the way.
StepFails(w) ==
  /\ pc[w] \in Steps \ {"confirm", "name"}
  /\ pc[w] = "rename" => path = Absent
  /\ Fail(w)

-----------------------------------------------------------------------------
Crash(w) ==
  /\ UnderWay(w)
  /\ GoTo(w, "crashed")
  /\ UNCHANGED <<files, copy, backupPath, second, inForce, history>>

\* The service starts: a file that is not there is no error.
LoadConfig ==
  /\ inForce' = CASE path = Absent -> Defaults
                 [] path = Torn   -> Refused
                 [] OTHER         -> path
  /\ UNCHANGED <<files, pc, copy, backupPath, second, history>>

Tick ==
  /\ second < MaxSecond
  /\ second' = second + 1
  /\ UNCHANGED <<files, pc, copy, backupPath, inForce, history>>

Step(w) ==
  \/ Stat(w) \/ Confirm(w) \/ NameBackup(w) \/ ReadConfig(w)
  \/ OpenBackup(w) \/ FillBackup(w) \/ CreateTemp(w) \/ WriteTemp(w)
  \/ Rename(w) \/ RenameRefused(w) \/ Remove(w) \/ StepFails(w) \/ Crash(w)

FileNext == (\E w \in Runs : Step(w)) \/ LoadConfig \/ Tick

FileSpec == FileInit /\ [][FileNext]_fileVars

-----------------------------------------------------------------------------
(* Properties *)

\* Whatever fails and whoever is killed, the configuration file is whole or
\* absent: Save writes a temporary file and renames it.
PathWhole == path \in Configs \cup {Absent}

\* The backup of w is made, and no other run has a backup of that name.
BackedUp(w) ==
  /\ pc[w] \in {"create", "write", "rename", "remove", "retry", "done"}
  /\ backupPath[w] # NoBackup
Clash(v, w) == v # w /\ backupPath[v] = backupPath[w] /\ backupPath[w] # NoBackup

\* When a run begins to write the new configuration, what it has read of the
\* old one is whole in the backup that it reports, and remains so whatever
\* other runs do, unless two backups are made in the same second.
FoundIsKept ==
  \A w \in Runs :
    BackedUp(w) /\ (\A v \in Runs : ~Clash(v, w)) => backups[backupPath[w]] = copy[w]

Kept(c) == path = c \/ \E s \in Seconds : backups[s] = c

\* Runs that do not overlap, nor make two backups in the same second, lose no
\* configuration, wherever they fail or are killed: each one that has been in
\* force is in force or in a backup.
NothingLost ==
  ~overlapped /\ (\A v, w \in Runs : ~Clash(v, w)) => \A c \in published : Kept(c)

\* Why the file may be absent when there has been one: a run that could not
\* rename over it is between its removal and the second rename, or ended there.
AbsentForCause ==
  published = {} \/ \E w \in removed : pc[w] \in {"retry", "failed", "crashed"}

\* A service that starts has a configuration that was in force before, never a
\* part of one; and it falls back to the defaults, which it does without an
\* error, only where there was none or a replacement is half done.
StartsForCause ==
  [][inForce' # inForce =>
       \/ inForce' \in published
       \/ inForce' = Defaults /\ path = Absent /\ AbsentForCause]_fileVars
=============================================================================
