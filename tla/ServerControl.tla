--------------------------- MODULE ServerControl ---------------------------
(***************************************************************************)
(* internal/tools/server_control.go: the commands the agent may run on the *)
(* host.  A name is looked up, whatever its case, in an allow-list of the  *)
(* configuration, and the spelling of the configuration is what is run.    *)
(*                                                                         *)
(* A ServerControl does not change once it is made, so calls do not        *)
(* disturb each other and one call at a time is modelled.  What matters is *)
(* what the external command has done when the call gives up on it.        *)
(*                                                                         *)
(* Names are trimmed and not blank.  Key is normalizeLookup, and Base of a *)
(* key is the key without a final ".service".                              *)
(***************************************************************************)
EXTENDS Integers, Sequences

CONSTANTS
  Names,        \* spellings, in the configuration and in requests
  Keys, Key,    \* lower-case names; normalizeLookup of each name
  Base,         \* each key without its suffix ".service", if it has one
  Commands,     \* shell commands
  Configs,      \* configurations: see ConfigType
  Lines,        \* line counts in requests: any integer may be asked for
  DefaultLines, \* 80
  MaximumLines, \* 200
  None

ASSUME NameAssumption ==
  /\ Key \in [Names -> Keys] /\ Base \in [Keys -> Keys]
  /\ None \notin Names \union Commands

\* No name ends in ".service.service".
ASSUME SuffixAssumption == \A k \in Keys : Base[Base[k]] = Base[k]

ASSUME LineAssumption ==
  Lines \subseteq Int /\ DefaultLines \in Nat \ {0} /\ MaximumLines \in Nat \ {0}

Tools == {"shell", "systemctl", "docker", "journal"}
Actions == {"start", "stop", "restart"}

\* The options as they are configured; commands is a map, the others lists.
ConfigType == [enabled : SUBSET Tools,
               services : Seq(Names), containers : Seq(Names), units : Seq(Names),
               commands : UNION {[names -> Commands] : names \in SUBSET Names},
               defaultLines : Int, maxLines : Int]

ASSUME ConfigAssumption == Configs \subseteq ConfigType

VARIABLES
  config,        \* ServerControlOptions
  shellCommands, \* s.shellCommands
  pc,            \* where the call is
  asked,         \* the name it was called with
  command,       \* the external command it runs
  exited,        \* the command has done its work
  acted,         \* the action of systemctl that was run before it
  reply          \* what the last call returned

vars == <<config, shellCommands, pc, asked, command, exited, acted, reply>>

NoCommand == [program |-> None, verb |-> None, target |-> None, lines |-> 0]

-----------------------------------------------------------------------------
(***************************************************************************)
(* NewServerControl                                                        *)
(***************************************************************************)
\* A variant with a bug: every list gets aliases.
WritersWithAliases(list, aliases, k) ==
  {i \in DOMAIN list : k \in {Key[list[i]], Base[Key[list[i]]]}}

\* The entries of an allow-list that write key k in normalizeNameSet: those
\* with that key and, with aliases, those with the key k.service.
Writers(list, aliases, k) ==
  {i \in DOMAIN list : Key[list[i]] = k \/ (aliases /\ Base[Key[list[i]]] = k)}

\* A variant with a bug: an alias does not overwrite an entry, a name does.
NameSetFirstAlias(list, aliases) ==
  [k \in {j \in Keys : Writers(list, aliases, j) # {}} |->
     LET exact == {i \in DOMAIN list : Key[list[i]] = k}
     IN  list[CHOOSE i \in Writers(list, aliases, k) :
                IF exact = {} THEN \A j \in Writers(list, aliases, k) : i <= j
                              ELSE i \in exact /\ \A j \in exact : j <= i]]

\* normalizeNameSet: the last of them stays.
NameSet(list, aliases) ==
  [k \in {j \in Keys : Writers(list, aliases, j) # {}} |->
     list[CHOOSE i \in Writers(list, aliases, k) :
            \A j \in Writers(list, aliases, k) : j <= i]]

\* normalizeCommandMap ranges over a Go map, in any order: of two commands
\* whose names have one key either may stay.
CommandMaps(commands) ==
  {map \in [{Key[name] : name \in DOMAIN commands} -> Commands] :
     \A k \in DOMAIN map :
       \E name \in DOMAIN commands : Key[name] = k /\ commands[name] = map[k]}

LogLines(default) == IF default <= 0 THEN DefaultLines ELSE default

MaxLogLines(default, max) ==
  LET limit == IF max <= 0 THEN MaximumLines ELSE max
  IN  IF limit < LogLines(default) THEN LogLines(default) ELSE limit

ClampLines(default, max, lines) ==
  IF lines <= 0 THEN LogLines(default)
  ELSE IF lines > MaxLogLines(default, max) THEN MaxLogLines(default, max)
  ELSE lines

AllowedServices == NameSet(config.services, TRUE)
AllowedContainers == NameSet(config.containers, FALSE)
AllowedUnits == NameSet(config.units, TRUE)

Init ==
  /\ config \in Configs
  /\ shellCommands \in CommandMaps(config.commands)
  /\ pc = "idle"
  /\ asked = None
  /\ command = NoCommand
  /\ exited = FALSE
  /\ acted = NoCommand
  /\ reply = "none"

-----------------------------------------------------------------------------
(***************************************************************************)
(* The operations                                                          *)
(***************************************************************************)
\* A call with a name runs the command, or is refused.
Call(allowed, name, external) ==
  /\ pc = "idle"
  /\ asked' = name
  /\ acted' = NoCommand
  /\ exited' = FALSE
  /\ command' = IF allowed THEN external ELSE NoCommand
  /\ pc' = IF allowed THEN "running" ELSE "idle"
  /\ reply' = IF allowed THEN "none" ELSE "error"
  /\ UNCHANGED <<config, shellCommands>>

\* A call whose name is looked up.
Run(tool, names, name, program, verb, lines) ==
  LET found == tool \in config.enabled /\ Key[name] \in DOMAIN names
  IN  Call(found, name,
           [program |-> program, verb |-> verb, lines |-> lines,
            target |-> IF found THEN names[Key[name]] ELSE None])

RunNamedCommand(name) == Run("shell", shellCommands, name, "/bin/sh", "-lc", 0)

SystemctlStatus(name) == Run("systemctl", AllowedServices, name, "systemctl", "show", 0)

SystemctlAction(action, name) ==
  \/ action \in Actions /\ Run("systemctl", AllowedServices, name, "systemctl", action, 0)
  \/ action \notin Actions /\ Call(FALSE, name, NoCommand)

DockerLogs(name, lines) ==
  Run("docker", AllowedContainers, name, "docker", "logs",
      ClampLines(config.defaultLines, config.maxLines, lines))

JournalTail(name, lines) ==
  Run("journal", AllowedUnits, name, "journalctl", "-u",
      ClampLines(config.defaultLines, config.maxLines, lines))

\* docker ps has no name to look up; its output is filtered afterwards.
DockerPS ==
  Call("docker" \in config.enabled, None,
       [program |-> "docker", verb |-> "ps", target |-> None, lines |-> 0])

\* The command does its work.
CommandExits ==
  /\ pc = "running" /\ ~ exited
  /\ exited' = TRUE
  /\ UNCHANGED <<config, shellCommands, pc, asked, command, acted, reply>>

\* run returns its output.  After an action SystemctlAction looks up the
\* service once more, and asks for its status.
RunSucceeds ==
  /\ pc = "running" /\ exited
  /\ IF command.verb \in Actions
     THEN /\ acted' = command
          /\ command' = [command EXCEPT !.verb = "show",
                                        !.target = AllowedServices[Key[command.target]]]
          /\ exited' = FALSE
          /\ UNCHANGED <<pc, reply>>
     ELSE /\ pc' = "idle"
          /\ reply' = "ok"
          /\ UNCHANGED <<acted, command, exited>>
  /\ UNCHANGED <<config, shellCommands, asked>>

\* A variant with a bug: a failure to get the status counts as one of the action.
RunFailsAlways ==
  /\ pc = "running"
  /\ pc' = "idle"
  /\ reply' = "error"
  /\ UNCHANGED <<config, shellCommands, asked, command, exited, acted>>

\* run returns an error: the command failed, or the deadline passed, in
\* which case it may have done its work all the same.  A failure to get the
\* status after an action counts as "completed".
RunFails ==
  /\ pc = "running"
  /\ pc' = "idle"
  /\ reply' = IF acted # NoCommand THEN "completed" ELSE "error"
  /\ UNCHANGED <<config, shellCommands, asked, command, exited, acted>>

Next ==
  \/ \E name \in Names :
       \/ RunNamedCommand(name)
       \/ SystemctlStatus(name)
       \/ \E action \in Actions \union {"reload"} : SystemctlAction(action, name)
       \/ \E lines \in Lines : DockerLogs(name, lines) \/ JournalTail(name, lines)
  \/ DockerPS
  \/ CommandExits \/ RunSucceeds \/ RunFails

Spec == Init /\ [][Next]_vars

-----------------------------------------------------------------------------
(***************************************************************************)
(* Properties                                                              *)
(***************************************************************************)
Range(list) == {list[i] : i \in DOMAIN list}

Programs == {"/bin/sh", "systemctl", "docker", "journalctl"}

CommandType == [program : {None} \union Programs,
                verb : {None, "-lc", "show", "logs", "-u", "ps"} \union Actions,
                target : {None} \union Names \union Commands,
                lines : Nat]

TypeOK ==
  /\ config \in Configs
  /\ shellCommands \in CommandMaps(config.commands)
  /\ pc \in {"idle", "running"}
  /\ asked \in Names \union {None}
  /\ command \in CommandType
  /\ exited \in BOOLEAN
  /\ acted \in CommandType
  /\ reply \in {"none", "ok", "completed", "error"}

\* Whether the configuration permits a call with this name to run this.
Permitted(run, name) ==
  /\ run.program \in Programs
  /\ run.program = "/bin/sh" =>
       /\ "shell" \in config.enabled
       /\ \E entry \in DOMAIN config.commands :
            Key[entry] = Key[name] /\ config.commands[entry] = run.target
  /\ run.program = "systemctl" =>
       /\ "systemctl" \in config.enabled
       /\ run.target \in Range(config.services)
       /\ Base[Key[run.target]] = Base[Key[name]]
  /\ run.program = "journalctl" =>
       /\ "journal" \in config.enabled
       /\ run.target \in Range(config.units)
       /\ Base[Key[run.target]] = Base[Key[name]]
  /\ run.program = "docker" => "docker" \in config.enabled
  /\ run.verb = "logs" =>
       /\ run.target \in Range(config.containers)
       /\ Key[run.target] = Key[name]

\* What runs is enabled and spelled in the configuration, and it is what was
\* asked for but for the case, and for a service the suffix ".service":
\* whatever the aliases of normalizeNameSet overwrite, and whichever command
\* normalizeCommandMap keeps, a name never selects another entry's target.
OnlyConfigured == pc = "running" => Permitted(command, asked)

\* The status that is reported after an action is that of the very service
\* the action was run on, although the name is looked up a second time; and
\* when that query fails, the call does not, since the action has been done.
StatusOfActedService ==
  acted # NoCommand =>
    /\ command.verb = "show" /\ command.target = acted.target
    /\ pc = "idle" => reply # "error"

\* However many lines are asked for and whatever is configured, a log
\* command is given at least one and at most the configured maximum.
LinesBounded ==
  pc = "running" /\ command.verb \in {"logs", "-u"} =>
    command.lines \in 1 .. MaxLogLines(config.defaultLines, config.maxLines)
-----------------------------------------------------------------------------
(***************************************************************************)
(* The inductive invariant of the proofs                                   *)
(***************************************************************************)
Sound(run, name) ==
  /\ Permitted(run, name)
  /\ run.program = "systemctl" <=> run.verb \in Actions \union {"show"}
  /\ run.program = "systemctl" =>
       \E k \in DOMAIN AllowedServices : run.target = AllowedServices[k]
  /\ run.verb \in {"logs", "-u"} =>
       run.lines \in 1 .. MaxLogLines(config.defaultLines, config.maxLines)

\* A command that runs is sound, which keeps the two lookups of an action
\* together: the second one is of an entry the first one selected.
ControlInv ==
  /\ TypeOK
  /\ pc = "running" => Sound(command, asked)
  /\ StatusOfActedService
=============================================================================
