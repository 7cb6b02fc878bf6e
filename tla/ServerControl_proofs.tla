------------------------ MODULE ServerControl_proofs ------------------------
(***************************************************************************)
(* Proofs about ServerControl: what a name selects in an allow-list, and   *)
(* the bound on the lines of a log.  Then about AgentTools: what the model *)
(* is told of the tools and what becomes of its calls, and a user's.       *)
(***************************************************************************)
EXTENDS AgentTools, WellFoundedInduction, TLAPS

Less == {p \in Nat \X Nat : p[1] < p[2]}

\* A set of positions of a list that is not empty has a last one.
LEMMA LastPosition ==
  ASSUME NEW n \in Nat, NEW S \in SUBSET (1 .. n), S # {}
  PROVE  \E i \in S : \A j \in S : j <= i
<1> DEFINE T == {n - i : i \in S}
<1>1. \A i \in S : i \in Nat /\ n - i \in Nat
  OBVIOUS
<1>2. T \subseteq Nat /\ T # {}
  <2>1. \A i \in S : n - i \in T
    OBVIOUS
  <2>2. \A t \in T : \E i \in S : t = n - i
    OBVIOUS
  <2> HIDE DEF T
  <2> QED BY <1>1, <2>1, <2>2
<1> HIDE DEF T
<1>3. IsWellFoundedOn(Less, Nat)
  BY NatLessThanWellFounded DEF OpToRel, Less
<1>4. PICK x \in T : \A y \in T : <<y, x>> \notin Less
  BY ONLY <1>2, <1>3, WFMin, Zenon
<1>5. ASSUME NEW y \in T PROVE x <= y
  <2>1. <<y, x>> \notin Less /\ x \in Nat /\ y \in Nat
    BY <1>2, <1>4
  <2>2. <<y, x>> \in Nat \X Nat => (y < x => <<y, x>> \in Less)
    BY DEF Less
  <2> QED BY <2>1, <2>2
<1>6. PICK i \in S : x = n - i
  BY DEF T
<1>7. \A j \in S : n - j \in T
  BY DEF T
<1>8. \A j \in S : j <= i
  BY <1>1, <1>5, <1>6, <1>7
<1> QED BY <1>8

\* normalizeNameSet maps a key to the last entry that writes it.
LEMMA LastWriterStays ==
  ASSUME NEW list \in Seq(Names), NEW aliases \in BOOLEAN,
         NEW k \in DOMAIN NameSet(list, aliases)
  PROVE  \E i \in Writers(list, aliases, k) :
           /\ NameSet(list, aliases)[k] = list[i]
           /\ \A j \in Writers(list, aliases, k) : j <= i
<1> DEFINE W == Writers(list, aliases, k)
<1>1. Len(list) \in Nat /\ W \in SUBSET (1 .. Len(list))
  BY DEF Writers
<1>2. k \in Keys /\ W # {}
  BY DEF NameSet
<1>3. \E i \in W : \A j \in W : j <= i
  <2> HIDE DEF W
  <2> QED BY <1>1, <1>2, LastPosition
<1>4. NameSet(list, aliases)[k] = list[CHOOSE i \in W : \A j \in W : j <= i]
  BY DEF NameSet
<1> HIDE DEF W
<1>5. /\ (CHOOSE i \in W : \A j \in W : j <= i) \in W
      /\ \A j \in W : j <= (CHOOSE i \in W : \A jj \in W : jj <= i)
  BY <1>3
<1> QED BY <1>4, <1>5 DEF W

\* What a key selects is an entry of the list with that key, or with that key
\* and the suffix; and the key of that entry selects it again.
LEMMA NameSetSelects ==
  ASSUME NEW list \in Seq(Names), NEW aliases \in BOOLEAN,
         NEW k \in DOMAIN NameSet(list, aliases)
  PROVE  LET entry == NameSet(list, aliases)[k]
         IN  /\ entry \in Range(list) /\ entry \in Names
             /\ Base[Key[entry]] = Base[k]
             /\ ~ aliases => Key[entry] = k
             /\ Key[entry] \in DOMAIN NameSet(list, aliases)
             /\ NameSet(list, aliases)[Key[entry]] = entry
<1> DEFINE entry == NameSet(list, aliases)[k]
<1>1. PICK i \in Writers(list, aliases, k) :
        entry = list[i] /\ \A j \in Writers(list, aliases, k) : j <= i
  BY LastWriterStays
<1>2. i \in DOMAIN list /\ i \in Int /\ entry \in Names /\ entry \in Range(list)
  BY <1>1 DEF Writers, Range
<1>3. Key[entry] \in Keys /\ k \in Keys
  BY <1>2, NameAssumption DEF NameSet
<1>4. Key[entry] = k \/ (aliases /\ Base[Key[entry]] = k)
  BY <1>1 DEF Writers
<1>5. Base[Key[entry]] = Base[k]
  BY <1>3, <1>4, SuffixAssumption
<1>6. i \in Writers(list, aliases, Key[entry])
  BY <1>1, <1>2 DEF Writers
<1>7. Key[entry] \in DOMAIN NameSet(list, aliases)
  <2> HIDE DEF entry
  <2> QED BY <1>3, <1>6 DEF NameSet
<1>8. \A j \in Writers(list, aliases, Key[entry]) : j <= i
  <2> SUFFICES ASSUME NEW j \in Writers(list, aliases, Key[entry])
               PROVE  j \in Writers(list, aliases, k)
    BY <1>1
  <2> HIDE DEF entry
  <2>1. j \in DOMAIN list /\ list[j] \in Names /\ Key[list[j]] \in Keys
    BY NameAssumption DEF Writers
  <2>2. Key[list[j]] = Key[entry] \/ (aliases /\ Base[Key[list[j]]] = Key[entry])
    BY DEF Writers
  <2>3. Base[Key[list[j]]] = Key[entry] => Base[Key[entry]] = Key[entry]
    BY <2>1, SuffixAssumption
  <2>4. Key[list[j]] = k \/ (aliases /\ Base[Key[list[j]]] = k)
    BY <1>4, <2>2, <2>3
  <2> QED BY <2>1, <2>4 DEF Writers
<1>9. PICK l \in Writers(list, aliases, Key[entry]) :
        /\ NameSet(list, aliases)[Key[entry]] = list[l]
        /\ \A j \in Writers(list, aliases, Key[entry]) : j <= l
  <2> HIDE DEF entry
  <2> QED BY <1>7, LastWriterStays
<1>10. l \in Int
  BY <1>9 DEF Writers
<1>11. l = i
  BY <1>2, <1>6, <1>8, <1>9, <1>10
<1> QED BY <1>1, <1>2, <1>4, <1>5, <1>7, <1>9, <1>11

\* clampLines returns at least one line and at most the maximum.
LEMMA ClampLinesBounds ==
  ASSUME NEW default \in Int, NEW max \in Int, NEW lines \in Int
  PROVE  /\ ClampLines(default, max, lines) \in 1 .. MaxLogLines(default, max)
         /\ ClampLines(default, max, lines) \in Nat
BY LineAssumption DEF ClampLines, MaxLogLines, LogLines

-----------------------------------------------------------------------------
(***************************************************************************)
(* The steps                                                               *)
(***************************************************************************)
\* The options that a reachable state has.
LEMMA ConfigFields ==
  ASSUME TypeOK
  PROVE  /\ config.services \in Seq(Names) /\ config.containers \in Seq(Names)
         /\ config.units \in Seq(Names)
         /\ config.defaultLines \in Int /\ config.maxLines \in Int
         /\ config.commands \in UNION {[names -> Commands] : names \in SUBSET Names}
BY ConfigAssumption DEF TypeOK, ConfigType

LEMMA CallIsSafe ==
  ASSUME ControlInv, NEW STATE allowed, allowed \in BOOLEAN,
         NEW name \in Names \union {None},
         NEW STATE external, Call(allowed, name, external),
         allowed => external \in CommandType /\ Sound(external, name)
  PROVE  ControlInv'
<1>1. NoCommand \in CommandType
  BY DEF NoCommand, CommandType
<1>2. TypeOK'
  BY <1>1 DEF ControlInv, TypeOK, Call
<1>3. StatusOfActedService'
  BY DEF StatusOfActedService, Call
<1>4. ASSUME pc' = "running" PROVE Sound(command, asked)'
  <2>1. allowed /\ command' = external /\ asked' = name /\ config' = config
    BY <1>4 DEF Call
  <2> QED BY <2>1 DEF Sound, Permitted, AllowedServices
<1> QED BY <1>2, <1>3, <1>4 DEF ControlInv

\* The call of a named command.
LEMMA RunNamedCommandIsSafe ==
  ASSUME ControlInv, NEW name \in Names, RunNamedCommand(name)
  PROVE  ControlInv'
<1> DEFINE found == "shell" \in config.enabled /\ Key[name] \in DOMAIN shellCommands
           external == [program |-> "/bin/sh", verb |-> "-lc", lines |-> 0,
                        target |-> IF found THEN shellCommands[Key[name]] ELSE None]
<1>1. Call(found, name, external)
  BY DEF RunNamedCommand, Run
<1>2. ASSUME found PROVE external \in CommandType /\ Sound(external, name)
  <2>1. PICK entry \in DOMAIN config.commands :
          Key[entry] = Key[name] /\ config.commands[entry] = shellCommands[Key[name]]
    BY <1>2 DEF ControlInv, TypeOK, CommandMaps
  <2>2. shellCommands[Key[name]] \in Commands
    BY <1>2 DEF ControlInv, TypeOK, CommandMaps
  <2>3. external \in CommandType
    BY <1>2, <2>2 DEF CommandType, Programs
  <2>4. external.target = shellCommands[Key[name]]
    BY <1>2
  <2>5. Sound(external, name)
    BY <1>2, <2>1, <2>4 DEF Sound, Permitted, Programs, Actions
  <2> QED BY <2>3, <2>5
<1> HIDE DEF found, external
<1>3. found \in BOOLEAN
  BY DEF found
<1> QED BY <1>1, <1>2, <1>3, CallIsSafe

\* The two calls of systemctl; SystemctlStatus is the one with verb "show".
LEMMA SystemctlIsSafe ==
  ASSUME ControlInv, NEW name \in Names, NEW verb \in Actions \union {"show"},
         Run("systemctl", AllowedServices, name, "systemctl", verb, 0)
  PROVE  ControlInv'
<1> DEFINE found == "systemctl" \in config.enabled /\ Key[name] \in DOMAIN AllowedServices
           external == [program |-> "systemctl", verb |-> verb, lines |-> 0,
                        target |-> IF found THEN AllowedServices[Key[name]] ELSE None]
<1>1. Call(found, name, external)
  BY DEF Run
<1>2. ASSUME found PROVE external \in CommandType /\ Sound(external, name)
  <2>1. /\ AllowedServices[Key[name]] \in Range(config.services)
        /\ AllowedServices[Key[name]] \in Names
        /\ Base[Key[AllowedServices[Key[name]]]] = Base[Key[name]]
    BY <1>2, NameSetSelects, ConfigFields DEF AllowedServices, ControlInv
  <2>2. external.target = AllowedServices[Key[name]]
    BY <1>2
  <2>3. external \in CommandType
    BY <1>2, <2>1 DEF CommandType, Programs
  <2>4. Permitted(external, name)
    BY <1>2, <2>1, <2>2 DEF Permitted, Programs, Actions
  <2>5. Sound(external, name)
    BY <1>2, <2>2, <2>4 DEF Sound, Actions
  <2> QED BY <2>3, <2>5
<1> HIDE DEF found, external
<1>3. found \in BOOLEAN
  BY DEF found
<1> QED BY <1>1, <1>2, <1>3, CallIsSafe

LEMMA DockerLogsIsSafe ==
  ASSUME ControlInv, NEW name \in Names, NEW lines \in Int, DockerLogs(name, lines)
  PROVE  ControlInv'
<1> DEFINE found == "docker" \in config.enabled /\ Key[name] \in DOMAIN AllowedContainers
           clamped == ClampLines(config.defaultLines, config.maxLines, lines)
           external == [program |-> "docker", verb |-> "logs", lines |-> clamped,
                        target |-> IF found THEN AllowedContainers[Key[name]] ELSE None]
<1>1. Call(found, name, external)
  BY DEF DockerLogs, Run
<1>2. ASSUME found PROVE external \in CommandType /\ Sound(external, name)
  <2>1. /\ AllowedContainers[Key[name]] \in Range(config.containers)
        /\ AllowedContainers[Key[name]] \in Names
        /\ Key[AllowedContainers[Key[name]]] = Key[name]
    BY <1>2, NameSetSelects, ConfigFields DEF AllowedContainers, ControlInv
  <2>2. clamped \in 1 .. MaxLogLines(config.defaultLines, config.maxLines) /\ clamped \in Nat
    BY ClampLinesBounds, ConfigFields, LineAssumption DEF ControlInv
  <2> HIDE DEF clamped
  <2>3. external.target = AllowedContainers[Key[name]]
    BY <1>2
  <2>4. external \in CommandType
    BY <1>2, <2>1, <2>2 DEF CommandType, Programs
  <2>5. Sound(external, name)
    BY <1>2, <2>1, <2>2, <2>3 DEF Sound, Permitted, Programs, Actions
  <2> QED BY <2>4, <2>5
<1> HIDE DEF found, external
<1>3. found \in BOOLEAN
  BY DEF found
<1> QED BY <1>1, <1>2, <1>3, CallIsSafe

LEMMA JournalTailIsSafe ==
  ASSUME ControlInv, NEW name \in Names, NEW lines \in Int, JournalTail(name, lines)
  PROVE  ControlInv'
<1> DEFINE found == "journal" \in config.enabled /\ Key[name] \in DOMAIN AllowedUnits
           clamped == ClampLines(config.defaultLines, config.maxLines, lines)
           external == [program |-> "journalctl", verb |-> "-u", lines |-> clamped,
                        target |-> IF found THEN AllowedUnits[Key[name]] ELSE None]
<1>1. Call(found, name, external)
  BY DEF JournalTail, Run
<1>2. ASSUME found PROVE external \in CommandType /\ Sound(external, name)
  <2>1. /\ AllowedUnits[Key[name]] \in Range(config.units)
        /\ AllowedUnits[Key[name]] \in Names
        /\ Base[Key[AllowedUnits[Key[name]]]] = Base[Key[name]]
    BY <1>2, NameSetSelects, ConfigFields DEF AllowedUnits, ControlInv
  <2>2. clamped \in 1 .. MaxLogLines(config.defaultLines, config.maxLines) /\ clamped \in Nat
    BY ClampLinesBounds, ConfigFields, LineAssumption DEF ControlInv
  <2> HIDE DEF clamped
  <2>3. external.target = AllowedUnits[Key[name]]
    BY <1>2
  <2>4. external \in CommandType
    BY <1>2, <2>1, <2>2 DEF CommandType, Programs
  <2>5. Sound(external, name)
    BY <1>2, <2>1, <2>2, <2>3 DEF Sound, Permitted, Programs, Actions
  <2> QED BY <2>4, <2>5
<1> HIDE DEF found, external
<1>3. found \in BOOLEAN
  BY DEF found
<1> QED BY <1>1, <1>2, <1>3, CallIsSafe

LEMMA DockerPSIsSafe ==
  ASSUME ControlInv, DockerPS
  PROVE  ControlInv'
<1> DEFINE found == "docker" \in config.enabled
           external == [program |-> "docker", verb |-> "ps", target |-> None, lines |-> 0]
<1>1. external \in CommandType
  BY DEF CommandType, Programs
<1>2. found => Sound(external, None)
  BY DEF Sound, Permitted, Programs, Actions
<1>3. Call(found, None, external)
  BY DEF DockerPS
<1>4. found \in BOOLEAN
  OBVIOUS
<1> HIDE DEF found, external
<1> QED BY <1>1, <1>2, <1>3, <1>4, CallIsSafe

\* The status query after an action is sound: what the first lookup selected
\* selects itself in the second.
LEMMA RunSucceedsIsSafe ==
  ASSUME ControlInv, RunSucceeds
  PROVE  ControlInv'
<1>1. Sound(command, asked) /\ command \in CommandType
  BY DEF ControlInv, RunSucceeds, TypeOK
<1>2. CASE command.verb \notin Actions
  <2>1. /\ UNCHANGED <<config, shellCommands, asked, command, exited, acted>>
        /\ pc' = "idle" /\ reply' = "ok"
    BY <1>2 DEF RunSucceeds
  <2> QED BY <2>1 DEF ControlInv, TypeOK, StatusOfActedService
<1>3. CASE command.verb \in Actions
  <2> DEFINE service == AllowedServices[Key[command.target]]
  <2>1. command.program = "systemctl"
    BY <1>1, <1>3 DEF Sound
  <2>2. PICK k \in DOMAIN AllowedServices : command.target = AllowedServices[k]
    BY <1>1, <2>1 DEF Sound
  <2>3. service = command.target /\ Key[command.target] \in DOMAIN AllowedServices
    <3>1. config.services \in Seq(Names) /\ TRUE \in BOOLEAN
      BY ConfigFields DEF ControlInv
    <3>2. k \in DOMAIN NameSet(config.services, TRUE)
      BY <2>2 DEF AllowedServices
    <3>3. LET entry == NameSet(config.services, TRUE)[k]
          IN  /\ Key[entry] \in DOMAIN NameSet(config.services, TRUE)
              /\ NameSet(config.services, TRUE)[Key[entry]] = entry
      BY <3>1, <3>2, NameSetSelects
    <3> QED BY <2>2, <3>3 DEF AllowedServices
  <2>4. /\ UNCHANGED <<config, shellCommands, asked, pc, reply>>
        /\ acted' = command /\ exited' = FALSE
        /\ command' = [command EXCEPT !.verb = "show", !.target = service]
    BY <1>3 DEF RunSucceeds
  <2> HIDE DEF service
  <2>5. /\ command' \in CommandType /\ command'.program = "systemctl"
        /\ command'.verb = "show" /\ command'.target = command.target
    BY <1>1, <2>1, <2>3, <2>4 DEF CommandType
  <2>6. Permitted(command', asked)
    BY <1>1, <2>1, <2>5 DEF Sound, Permitted
  <2>7. Sound(command', asked)
    BY <2>2, <2>5, <2>6 DEF Sound
  <2>8. Sound(command, asked)'
    BY <2>4, <2>7 DEF Sound, Permitted, AllowedServices
  <2>9. StatusOfActedService'
    <3>1. pc' # "idle"
      BY <2>4 DEF RunSucceeds
    <3> QED BY <2>4, <2>5, <3>1 DEF StatusOfActedService
  <2>10. TypeOK'
    BY <1>1, <2>4, <2>5 DEF ControlInv, TypeOK
  <2> QED BY <2>8, <2>9, <2>10 DEF ControlInv
<1> QED BY <1>2, <1>3

LEMMA InitIsSafe == Init => ControlInv
<1>1. NoCommand \in CommandType
  BY DEF NoCommand, CommandType
<1> QED BY <1>1 DEF Init, ControlInv, TypeOK, StatusOfActedService

\* The steps of a command that runs.
LEMMA CommandIsSafe ==
  ASSUME ControlInv, CommandExits \/ RunSucceeds \/ RunFails
  PROVE  ControlInv'
<1>1. CASE CommandExits
  BY <1>1 DEF CommandExits, ControlInv, TypeOK, Sound, Permitted, AllowedServices,
     StatusOfActedService
<1>2. CASE RunSucceeds
  BY <1>2, RunSucceedsIsSafe
<1>3. CASE RunFails
  BY <1>3 DEF RunFails, ControlInv, TypeOK, StatusOfActedService
<1> QED BY <1>1, <1>2, <1>3

LEMMA StutterIsSafe ==
  ASSUME ControlInv, UNCHANGED vars
  PROVE  ControlInv'
<1>1. /\ config' = config /\ shellCommands' = shellCommands /\ pc' = pc /\ asked' = asked
      /\ command' = command /\ exited' = exited /\ acted' = acted /\ reply' = reply
  BY DEF vars
<1>2. TypeOK'
  BY <1>1 DEF ControlInv, TypeOK
<1>3. pc' = "running" => Sound(command, asked)'
  BY <1>1 DEF ControlInv, Sound, Permitted, AllowedServices
<1>4. StatusOfActedService'
  BY <1>1 DEF ControlInv, StatusOfActedService
<1> QED BY <1>2, <1>3, <1>4 DEF ControlInv

\* The invariant of the specification.
LEMMA ControlInvariant == Spec => []ControlInv
<1>1. Init => ControlInv
  BY InitIsSafe
<1>2. ControlInv /\ [Next]_vars => ControlInv'
  <2> SUFFICES ASSUME ControlInv, [Next]_vars PROVE ControlInv'
    OBVIOUS
  <2>1. ASSUME NEW name \in Names, RunNamedCommand(name) PROVE ControlInv'
    BY <2>1, RunNamedCommandIsSafe
  <2>2. ASSUME NEW name \in Names, SystemctlStatus(name) PROVE ControlInv'
    BY <2>2, SystemctlIsSafe DEF SystemctlStatus
  <2>3. ASSUME NEW name \in Names, NEW action \in Actions \union {"reload"},
               SystemctlAction(action, name)
        PROVE ControlInv'
    <3>1. CASE action \in Actions /\ Run("systemctl", AllowedServices, name, "systemctl", action, 0)
      BY <3>1, SystemctlIsSafe
    <3>2. CASE action \notin Actions /\ Call(FALSE, name, NoCommand)
      BY <3>2, CallIsSafe
    <3> QED BY <2>3, <3>1, <3>2 DEF SystemctlAction
  <2>4. ASSUME NEW name \in Names, NEW lines \in Lines, DockerLogs(name, lines)
        PROVE ControlInv'
    BY <2>4, DockerLogsIsSafe, LineAssumption
  <2>5. ASSUME NEW name \in Names, NEW lines \in Lines, JournalTail(name, lines)
        PROVE ControlInv'
    BY <2>5, JournalTailIsSafe, LineAssumption
  <2>6. CASE DockerPS
    BY <2>6, DockerPSIsSafe
  <2>7. CASE CommandExits \/ RunSucceeds \/ RunFails
    BY <2>7, CommandIsSafe
  <2>8. CASE UNCHANGED vars
    BY <2>8, StutterIsSafe
  <2> QED BY <2>1, <2>2, <2>3, <2>4, <2>5, <2>6, <2>7, <2>8 DEF Next
<1> QED BY <1>1, <1>2, PTL DEF Spec

-----------------------------------------------------------------------------
\* Type correctness: in particular the line count given to docker logs and
\* journalctl is a natural number, and what runs is a configured spelling.
THEOREM TypeCorrect == Spec => []TypeOK
BY ControlInvariant, PTL DEF ControlInv

\* Whatever the configuration and the name, what runs is what an entry with
\* that name configures (RunNamedCommand, resolveAllowed...).
THEOREM OnlyConfiguredRuns == Spec => []OnlyConfigured
<1>1. ControlInv => OnlyConfigured
  BY DEF ControlInv, OnlyConfigured, Sound
<1> QED BY <1>1, ControlInvariant, PTL

\* SystemctlAction reports the status of the service it acted on, for every
\* allow-list with its aliases.
THEOREM StatusIsOfActedService == Spec => []StatusOfActedService
BY ControlInvariant, PTL DEF ControlInv

\* The lines asked of a log are within bounds for every configured default and
\* maximum, negative or not (NewServerControl, clampLines).
THEOREM LinesAreBounded == Spec => []LinesBounded
<1>1. ControlInv => LinesBounded
  BY DEF ControlInv, LinesBounded, Sound
<1> QED BY <1>1, ControlInvariant, PTL
-----------------------------------------------------------------------------
(***************************************************************************)
(* AgentTools                                                              *)
(***************************************************************************)
\* Arguments and calls as the JSON decoder makes them.
TypedArguments(arguments) ==
  DOMAIN arguments \subseteq Fields /\ \A f \in DOMAIN arguments : arguments[f] \in ValueType(f)

\* What LinesAsAsked says of a log command with this many lines.
LinesMatch(arguments, lines) ==
  LET default == LogLines(config.defaultLines)
      limit == MaxLogLines(config.defaultLines, config.maxLines)
      argument == IF "lines" \in DOMAIN arguments THEN arguments["lines"]
                                                  ELSE [type |-> "other"]
      wanted == CASE argument.type = "number" -> {argument.halves \div 2}
                  [] argument.type = "string" -> {Number[t] : t \in DOMAIN Number \cap {argument.text}}
                  [] argument.type = "other" -> {}
  IN  /\ \A n \in wanted \cap (1 .. limit) : lines = n
      /\ wanted = {} => lines = default

\* What InvitedIsServed says of a call that has come to this.
Serves(c, run) ==
  run.program # "/bin/sh" =>
    \A field \in Required(c.name) \ {"action"} : run.target = StringArgument(c.arguments, field)

\* The invariant of the proofs.
ToolsInv ==
  /\ ControlInv
  /\ output = "none" => pc = "idle"
  /\ InvitedIsServed /\ OnlyOfferedRuns /\ LinesAsAsked

\* A string argument is a name, but for the action and the lines.
LEMMA StringArguments ==
  ASSUME NEW arguments, TypedArguments(arguments), NEW field,
         StringArgument(arguments, field) # None
  PROVE  /\ field \in DOMAIN arguments /\ arguments[field].type = "string"
         /\ StringArgument(arguments, field) = arguments[field].text
         /\ field \in {"url", "name", "service", "container", "unit"} =>
              StringArgument(arguments, field) \in Names
<1>1. field \in DOMAIN arguments /\ arguments[field].type = "string"
  BY DEF StringArgument
<1>2. arguments[field] \in ValueType(field)
  BY <1>1 DEF TypedArguments
<1>3. arguments[field] \in [type : {"string"},
            text : IF field \in {"action", "lines"} THEN Names \union Verbs ELSE Names]
  BY <1>1, <1>2 DEF ValueType
<1> QED BY <1>1, <1>3 DEF StringArgument

\* The limits of log lines are ints of the machine.
LEMMA LinesFit ==
  ASSUME ControlInv
  PROVE  /\ config.defaultLines \in Int /\ config.maxLines \in Int
         /\ MaxLogLines(config.defaultLines, config.maxLines) \in 0 .. MaxInt
<1>1. config \in Configs /\ config.defaultLines \in Int /\ config.maxLines \in Int
  BY ConfigFields DEF ControlInv, TypeOK
<1>2. config.defaultLines <= MaxInt /\ config.maxLines <= MaxInt
  BY <1>1, IntAssumption
<1> QED BY <1>1, <1>2, IntAssumption, LineAssumption DEF MaxLogLines, LogLines

\* getIntArgument and clampLines: the lines that are asked for, whatever the
\* type of the argument, are the lines of the command if they are in bounds.
LEMMA ClampAsAsked ==
  ASSUME ControlInv, NEW arguments, TypedArguments(arguments),
         NEW lines \in IntArgument(arguments, "lines")
  PROVE  /\ lines \in Int
         /\ LinesMatch(arguments, ClampLines(config.defaultLines, config.maxLines, lines))
<1> DEFINE default == LogLines(config.defaultLines)
           limit == MaxLogLines(config.defaultLines, config.maxLines)
           clamped == ClampLines(config.defaultLines, config.maxLines, lines)
           argument == arguments["lines"]
<1>1. limit \in 0 .. MaxInt /\ MaxInt \in Nat
  BY LinesFit, IntAssumption
<1>2. \A n \in 1 .. limit : lines = n => clamped = n
  BY <1>1 DEF ClampLines
<1>3. lines = 0 => clamped = default
  BY DEF ClampLines
<1> HIDE DEF default, limit, clamped
<1>4. CASE "lines" \notin DOMAIN arguments
  <2>1. lines = 0
    BY <1>4 DEF IntArgument
  <2> QED BY <1>3, <1>4, <2>1 DEF LinesMatch, default, limit, clamped
<1>5. CASE "lines" \in DOMAIN arguments /\ argument.type = "other"
  <2>1. lines = 0
    BY <1>5 DEF IntArgument
  <2> QED BY <1>3, <1>5, <2>1 DEF LinesMatch, default, limit, clamped
<1>6. CASE "lines" \in DOMAIN arguments /\ argument.type = "string"
  <2>1. lines = ParseOptionalInt(argument.text)
    BY <1>6 DEF IntArgument
  <2>2. CASE argument.text \in DOMAIN Number
    <3>1. lines = Number[argument.text] /\ lines \in Int
      BY <2>1, <2>2, ArgumentAssumption DEF ParseOptionalInt
    <3>2. {Number[t] : t \in DOMAIN Number \cap {argument.text}} = {lines}
      BY <2>2, <3>1
    <3> QED BY <1>2, <1>6, <3>1, <3>2 DEF LinesMatch, default, limit, clamped
  <2>3. CASE argument.text \notin DOMAIN Number
    <3>1. lines = 0
      BY <2>1, <2>3 DEF ParseOptionalInt
    <3>2. {Number[t] : t \in DOMAIN Number \cap {argument.text}} = {}
      BY <2>3
    <3> QED BY <1>3, <1>6, <3>1, <3>2 DEF LinesMatch, default, limit, clamped
  <2> QED BY <2>2, <2>3
<1>7. CASE "lines" \in DOMAIN arguments /\ argument.type = "number"
  <2>1. argument.halves \in Int
    BY <1>7 DEF TypedArguments, ValueType
  <2>2. /\ Cut(argument.halves) \in Int /\ argument.halves \div 2 \in Int
        /\ argument.halves \div 2 \in 1 .. limit => Cut(argument.halves) = argument.halves \div 2
    BY <1>1, <2>1 DEF Cut
  <2>3. lines \in Int /\ (argument.halves \div 2 \in 1 .. limit => lines = argument.halves \div 2)
    BY <1>1, <1>7, <2>2 DEF IntArgument
  <2>4. \A n \in {argument.halves \div 2} \cap (1 .. limit) : clamped = n
    BY <1>2, <2>3
  <2> QED BY <1>7, <2>3, <2>4 DEF LinesMatch, default, limit, clamped
<1>8. CASE "lines" \in DOMAIN arguments /\ argument.type \notin {"string", "number", "other"}
  BY <1>8 DEF TypedArguments, ValueType
<1> QED BY <1>4, <1>5, <1>6, <1>7, <1>8

\* A name of a list is looked up as itself.
LEMMA ListedIsSelected ==
  ASSUME ControlInv, NEW name
  PROVE  /\ name \in {AllowedServices[k] : k \in DOMAIN AllowedServices} =>
              Key[name] \in DOMAIN AllowedServices /\ AllowedServices[Key[name]] = name
         /\ name \in {AllowedContainers[k] : k \in DOMAIN AllowedContainers} =>
              Key[name] \in DOMAIN AllowedContainers /\ AllowedContainers[Key[name]] = name
         /\ name \in {AllowedUnits[k] : k \in DOMAIN AllowedUnits} =>
              Key[name] \in DOMAIN AllowedUnits /\ AllowedUnits[Key[name]] = name
<1>1. ASSUME NEW list \in Seq(Names), NEW aliases \in BOOLEAN,
             NEW k \in DOMAIN NameSet(list, aliases), name = NameSet(list, aliases)[k]
      PROVE  Key[name] \in DOMAIN NameSet(list, aliases) /\ NameSet(list, aliases)[Key[name]] = name
  BY <1>1, NameSetSelects
<1>2. /\ config.services \in Seq(Names) /\ config.containers \in Seq(Names)
      /\ config.units \in Seq(Names)
  BY ConfigFields DEF ControlInv
<1> QED BY <1>1, <1>2 DEF AllowedServices, AllowedContainers, AllowedUnits

\* What is offered depends on the configuration alone.
LEMMA InvitationsStay ==
  ASSUME UNCHANGED <<config, shellCommands>>
  PROVE  /\ AvailableTools' = AvailableTools
         /\ \A c : Invited(c)' <=> Invited(c)
<1>1. /\ AllowedServices' = AllowedServices /\ AllowedContainers' = AllowedContainers
      /\ AllowedUnits' = AllowedUnits
  BY DEF AllowedServices, AllowedContainers, AllowedUnits
<1>2. AvailableTools' = AvailableTools
  BY <1>1 DEF AvailableTools, ShellAvailable, SystemctlAvailable, DockerAvailable, JournalAvailable
<1>3. ASSUME NEW tool PROVE Listed(tool)' = Listed(tool)
  BY <1>1 DEF Listed
<1>4. ASSUME NEW c PROVE Invited(c)' <=> Invited(c)
  BY <1>2, <1>3 DEF Invited
<1> QED BY <1>2, <1>4

-----------------------------------------------------------------------------
\* What the properties want of a call that is passed to ServerControl.
Passed(c) ==
  /\ ControlInv' /\ UNCHANGED <<config, shellCommands>>
  /\ pc' = "running" => c.name \in AvailableTools
  /\ Invited(c) => pc' = "running" /\ Serves(c, command')
  /\ pc' = "running" /\ command'.verb \in {"logs", "-u"} =>
       LinesMatch(c.arguments, command'.lines)

LEMMA PassedIsSafe ==
  ASSUME NEW c, Passed(c), Delegate(c)
  PROVE  ToolsInv'
<1>1. /\ call' = c /\ output' = IF pc' = "running" THEN "pending" ELSE "refused"
  BY DEF Delegate
<1>2. AvailableTools' = AvailableTools /\ (Invited(c)' <=> Invited(c))
  BY InvitationsStay DEF Passed
<1>3. InvitedIsServed'
  BY <1>1, <1>2 DEF InvitedIsServed, Passed, Serves
<1>4. OnlyOfferedRuns'
  BY <1>1, <1>2 DEF OnlyOfferedRuns, Passed
<1>5. LinesAsAsked'
  <2>1. SUFFICES ASSUME pc' = "running", command'.verb \in {"logs", "-u"}
                 PROVE  LinesMatch(c.arguments, command.lines)'
    BY <1>1 DEF LinesAsAsked, LinesMatch
  <2>2. LinesMatch(c.arguments, command'.lines)
    BY <2>1 DEF Passed
  <2> QED BY <2>2 DEF Passed, LinesMatch
<1>6. ControlInv' /\ (output = "none" => pc = "idle")'
  BY <1>1 DEF Passed
<1> QED BY <1>3, <1>4, <1>5, <1>6 DEF ToolsInv

\* A call that is answered without ServerControl, and that is not one of those
\* the model is invited to make unless it gets an answer.
LEMMA ReplyIsSafe ==
  ASSUME ToolsInv, output = "none", NEW c, NEW result, Reply(c, result), result # "pending",
         c # NoCall /\ Invited(c) => result \notin {"unknown", "missing", "refused"}
  PROVE  ToolsInv'
<1>1. UNCHANGED vars /\ call' = c /\ output' = result
  BY DEF Reply
<1>2. ControlInv'
  BY <1>1, StutterIsSafe DEF ToolsInv
<1>3. pc = "idle" /\ pc' = "idle"
  BY <1>1 DEF vars, ToolsInv
<1>4. Invited(c)' <=> Invited(c)
  BY <1>1, InvitationsStay DEF vars
<1>5. InvitedIsServed' /\ OnlyOfferedRuns' /\ LinesAsAsked'
  BY <1>1, <1>3, <1>4 DEF InvitedIsServed, OnlyOfferedRuns, LinesAsAsked
<1> QED BY <1>2, <1>3, <1>5 DEF ToolsInv

\* What a call of ServerControl does, whether it is allowed or not.
LEMMA CallOutcome ==
  ASSUME NEW STATE allowed, allowed \in BOOLEAN, NEW name, NEW STATE external,
         Call(allowed, name, external)
  PROVE  /\ UNCHANGED <<config, shellCommands>>
         /\ pc' = "running" <=> allowed
         /\ allowed => command' = external
BY DEF Call

LEMMA ShellIsPassed ==
  ASSUME ControlInv, NEW c, c.name = "shell_command", NEW name \in Names,
         name = StringArgument(c.arguments, "name"), RunNamedCommand(name)
  PROVE  Passed(c)
<1> DEFINE found == "shell" \in config.enabled /\ Key[name] \in DOMAIN shellCommands
           external == [program |-> "/bin/sh", verb |-> "-lc", lines |-> 0,
                        target |-> IF found THEN shellCommands[Key[name]] ELSE None]
<1>1. Call(found, name, external)
  BY DEF RunNamedCommand, Run
<1>2. external.program = "/bin/sh" /\ external.verb = "-lc" /\ found \in BOOLEAN
  OBVIOUS
<1> HIDE DEF external
<1>3. found => c.name \in AvailableTools
  BY DEF AvailableTools, ShellAvailable
<1>4. Invited(c) => found
  <2>1. ASSUME Invited(c) PROVE "shell" \in config.enabled
    BY <2>1 DEF Invited, AvailableTools, ShellAvailable
  <2>2. ASSUME Invited(c) PROVE name \in Listed("shell_command")
    BY <2>2 DEF Invited, Required
  <2>3. Listed("shell_command") = {n \in Names : Key[n] \in DOMAIN shellCommands}
    BY DEF Listed
  <2> QED BY <2>1, <2>2, <2>3
<1> HIDE DEF found
<1>5. /\ UNCHANGED <<config, shellCommands>> /\ (pc' = "running" <=> found)
      /\ found => command' = external
  BY <1>1, <1>2, CallOutcome
<1> QED BY <1>2, <1>3, <1>4, <1>5, RunNamedCommandIsSafe DEF Passed, Serves

LEMMA SystemctlIsPassed ==
  ASSUME ControlInv, NEW c, c.name \in {"systemctl_status", "systemctl_action"},
         NEW verb \in Actions \union {"show"}, NEW name \in Names,
         name = StringArgument(c.arguments, "service"),
         Run("systemctl", AllowedServices, name, "systemctl", verb, 0)
  PROVE  Passed(c)
<1> DEFINE found == "systemctl" \in config.enabled /\ Key[name] \in DOMAIN AllowedServices
           external == [program |-> "systemctl", verb |-> verb, lines |-> 0,
                        target |-> IF found THEN AllowedServices[Key[name]] ELSE None]
<1>1. Call(found, name, external)
  BY DEF Run
<1>2. /\ external.verb \notin {"logs", "-u"} /\ found \in BOOLEAN
      /\ found => external.target = AllowedServices[Key[name]]
  BY DEF Actions
<1> HIDE DEF external
<1>3. found => c.name \in AvailableTools
  BY DEF AvailableTools, SystemctlAvailable
<1>4. Invited(c) => found /\ AllowedServices[Key[name]] = name
  <2>1. ASSUME Invited(c) PROVE "systemctl" \in config.enabled
    BY <2>1 DEF Invited, AvailableTools, SystemctlAvailable
  <2>2. ASSUME Invited(c) PROVE name \in Listed(c.name)
    BY <2>2 DEF Invited, Required
  <2>3. Listed(c.name) = {AllowedServices[k] : k \in DOMAIN AllowedServices}
    BY DEF Listed
  <2> QED BY <2>1, <2>2, <2>3, ListedIsSelected
<1> HIDE DEF found
<1>5. /\ UNCHANGED <<config, shellCommands>> /\ (pc' = "running" <=> found)
      /\ found => command' = external
  BY <1>1, <1>2, CallOutcome
<1>6. Required(c.name) \ {"action"} = {"service"}
  BY DEF Required
<1> QED BY <1>2, <1>3, <1>4, <1>5, <1>6, SystemctlIsSafe DEF Passed, Serves

LEMMA DockerLogsIsPassed ==
  ASSUME ControlInv, NEW c, c.name = "docker_logs", TypedArguments(c.arguments),
         NEW name \in Names, name = StringArgument(c.arguments, "container"),
         NEW lines \in IntArgument(c.arguments, "lines"), DockerLogs(name, lines)
  PROVE  Passed(c)
<1> DEFINE found == "docker" \in config.enabled /\ Key[name] \in DOMAIN AllowedContainers
           clamped == ClampLines(config.defaultLines, config.maxLines, lines)
           external == [program |-> "docker", verb |-> "logs", lines |-> clamped,
                        target |-> IF found THEN AllowedContainers[Key[name]] ELSE None]
<1>1. Call(found, name, external)
  BY DEF DockerLogs, Run
<1>2. /\ external.lines = clamped /\ found \in BOOLEAN
      /\ found => external.target = AllowedContainers[Key[name]]
  OBVIOUS
<1> HIDE DEF external
<1>3. found => c.name \in AvailableTools
  BY DEF AvailableTools, DockerAvailable
<1>4. Invited(c) => found /\ AllowedContainers[Key[name]] = name
  <2>1. ASSUME Invited(c) PROVE "docker" \in config.enabled
    BY <2>1 DEF Invited, AvailableTools, DockerAvailable
  <2>2. ASSUME Invited(c) PROVE name \in Listed(c.name)
    BY <2>2 DEF Invited, Required
  <2>3. Listed(c.name) = {AllowedContainers[k] : k \in DOMAIN AllowedContainers}
    BY DEF Listed
  <2> QED BY <2>1, <2>2, <2>3, ListedIsSelected
<1> HIDE DEF found
<1>5. /\ UNCHANGED <<config, shellCommands>> /\ (pc' = "running" <=> found)
      /\ found => command' = external
  BY <1>1, <1>2, CallOutcome
<1>6. Required(c.name) \ {"action"} = {"container"}
  BY DEF Required
<1>7. lines \in Int /\ LinesMatch(c.arguments, clamped)
  BY ClampAsAsked
<1> QED BY <1>2, <1>3, <1>4, <1>5, <1>6, <1>7, DockerLogsIsSafe DEF Passed, Serves

LEMMA JournalIsPassed ==
  ASSUME ControlInv, NEW c, c.name = "journal_tail", TypedArguments(c.arguments),
         NEW name \in Names, name = StringArgument(c.arguments, "unit"),
         NEW lines \in IntArgument(c.arguments, "lines"), JournalTail(name, lines)
  PROVE  Passed(c)
<1> DEFINE found == "journal" \in config.enabled /\ Key[name] \in DOMAIN AllowedUnits
           clamped == ClampLines(config.defaultLines, config.maxLines, lines)
           external == [program |-> "journalctl", verb |-> "-u", lines |-> clamped,
                        target |-> IF found THEN AllowedUnits[Key[name]] ELSE None]
<1>1. Call(found, name, external)
  BY DEF JournalTail, Run
<1>2. /\ external.lines = clamped /\ found \in BOOLEAN
      /\ found => external.target = AllowedUnits[Key[name]]
  OBVIOUS
<1> HIDE DEF external
<1>3. found => c.name \in AvailableTools
  BY DEF AvailableTools, JournalAvailable
<1>4. Invited(c) => found /\ AllowedUnits[Key[name]] = name
  <2>1. ASSUME Invited(c) PROVE "journal" \in config.enabled
    BY <2>1 DEF Invited, AvailableTools, JournalAvailable
  <2>2. ASSUME Invited(c) PROVE name \in Listed(c.name)
    BY <2>2 DEF Invited, Required
  <2>3. Listed(c.name) = {AllowedUnits[k] : k \in DOMAIN AllowedUnits}
    BY DEF Listed
  <2> QED BY <2>1, <2>2, <2>3, ListedIsSelected
<1> HIDE DEF found
<1>5. /\ UNCHANGED <<config, shellCommands>> /\ (pc' = "running" <=> found)
      /\ found => command' = external
  BY <1>1, <1>2, CallOutcome
<1>6. Required(c.name) \ {"action"} = {"unit"}
  BY DEF Required
<1>7. lines \in Int /\ LinesMatch(c.arguments, clamped)
  BY ClampAsAsked
<1> QED BY <1>2, <1>3, <1>4, <1>5, <1>6, <1>7, JournalTailIsSafe DEF Passed, Serves

LEMMA DockerPSIsPassed ==
  ASSUME ControlInv, NEW c, c.name = "docker_ps", DockerPS
  PROVE  Passed(c)
<1> DEFINE found == "docker" \in config.enabled
           external == [program |-> "docker", verb |-> "ps", target |-> None, lines |-> 0]
<1>1. Call(found, None, external) /\ external.verb = "ps"
  BY DEF DockerPS
<1>2. /\ UNCHANGED <<config, shellCommands>> /\ (pc' = "running" <=> found)
      /\ found => command'.verb = "ps"
  BY <1>1 DEF Call
<1>3. Invited(c) => found
  BY DEF Invited, AvailableTools, DockerAvailable
<1>4. found => c.name \in AvailableTools
  BY DEF AvailableTools, DockerAvailable
<1>5. Required(c.name) = {}
  BY DEF Required
<1> HIDE DEF found, external
<1> QED BY <1>2, <1>3, <1>4, <1>5, DockerPSIsSafe DEF Passed, Serves

-----------------------------------------------------------------------------
\* executeToolCall is safe whatever tool is called with whatever arguments.
LEMMA ExecutedIsSafe ==
  ASSUME ToolsInv, output = "none", NEW c, TypedArguments(c.arguments), ExecuteToolCall(c)
  PROVE  ToolsInv'
<1> DEFINE String(field) == StringArgument(c.arguments, field)
<1>1. ControlInv
  BY DEF ToolsInv
<1>2. ASSUME NEW fields, MissingField(c, fields), fields \subseteq Required(c.name)
      PROVE  ToolsInv'
  <2>1. ~ Invited(c) /\ Reply(c, "missing")
    BY <1>2 DEF MissingField, Invited
  <2> QED BY <2>1, ReplyIsSafe
<1>3. CASE UnknownTool(c)
  <2>1. AvailableTools \subseteq ToolNames
    BY DEF AvailableTools, ToolNames
  <2>2. ~ Invited(c) /\ Reply(c, "unknown")
    BY <1>3, <2>1 DEF UnknownTool, Invited
  <2> QED BY <2>2, ReplyIsSafe
<1>4. CASE Fetch(c)
  <2>1. Required(c.name) = {"url"}
    BY <1>4 DEF Fetch, Required
  <2>2. CASE MissingField(c, {"url"})
    BY <1>2, <2>1, <2>2
  <2>3. CASE \E result \in {"text", "failed"} : Reply(c, result)
    BY <2>3, ReplyIsSafe
  <2> QED BY <1>4, <2>2, <2>3 DEF Fetch
<1>5. CASE NamedTool(c)
  <2>1. CASE c.name = "shell_command" /\ MissingField(c, {"name"})
    BY <1>2, <2>1 DEF Required
  <2>2. CASE c.name = "systemctl_status" /\ MissingField(c, {"service"})
    BY <1>2, <2>2 DEF Required
  <2>3. CASE c.name = "docker_logs" /\ MissingField(c, {"container"})
    BY <1>2, <2>3 DEF Required
  <2>4. CASE c.name = "journal_tail" /\ MissingField(c, {"unit"})
    BY <1>2, <2>4 DEF Required
  <2>5. ASSUME NEW field \in {"name", "service", "container", "unit"}, String(field) # None
        PROVE  String(field) \in Names
    BY <2>5, StringArguments
  <2>6. CASE /\ c.name = "shell_command" /\ String("name") # None
             /\ RunNamedCommand(String("name")) /\ Delegate(c)
    <3>1. Passed(c)
      BY <1>1, <2>5, <2>6, ShellIsPassed
    <3> QED BY <2>6, <3>1, PassedIsSafe
  <2>7. CASE /\ c.name = "systemctl_status" /\ String("service") # None
             /\ SystemctlStatus(String("service")) /\ Delegate(c)
    <3>1. Run("systemctl", AllowedServices, String("service"), "systemctl", "show", 0)
      BY <2>7 DEF SystemctlStatus
    <3>2. Passed(c)
      BY <1>1, <2>5, <2>7, <3>1, SystemctlIsPassed
    <3> QED BY <2>7, <3>2, PassedIsSafe
  <2>8. ASSUME NEW lines \in IntArgument(c.arguments, "lines"), c.name = "docker_logs",
               String("container") # None, DockerLogs(String("container"), lines), Delegate(c)
        PROVE  ToolsInv'
    <3>1. Passed(c)
      BY <1>1, <2>5, <2>8, DockerLogsIsPassed
    <3> QED BY <2>8, <3>1, PassedIsSafe
  <2>9. ASSUME NEW lines \in IntArgument(c.arguments, "lines"), c.name = "journal_tail",
               String("unit") # None, JournalTail(String("unit"), lines), Delegate(c)
        PROVE  ToolsInv'
    <3>1. Passed(c)
      BY <1>1, <2>5, <2>9, JournalIsPassed
    <3> QED BY <2>9, <3>1, PassedIsSafe
  <2> QED BY <1>5, <2>1, <2>2, <2>3, <2>4, <2>6, <2>7, <2>8, <2>9 DEF NamedTool
<1>6. CASE SystemctlActionTool(c)
  <2>1. c.name = "systemctl_action" /\ Required(c.name) = {"service", "action"}
    BY <1>6 DEF SystemctlActionTool, Required
  <2>2. CASE MissingField(c, {"service", "action"})
    BY <1>2, <2>1, <2>2
  <2>3. CASE /\ String("service") # None /\ String("action") # None
             /\ SystemctlAction(String("action"), String("service")) /\ Delegate(c)
    <3>1. String("service") \in Names
      BY <2>3, StringArguments
    <3>2. CASE /\ String("action") \in Actions
               /\ Run("systemctl", AllowedServices, String("service"), "systemctl",
                      String("action"), 0)
      <4>1. Passed(c)
        BY <1>1, <2>1, <3>1, <3>2, SystemctlIsPassed
      <4> QED BY <2>3, <4>1, PassedIsSafe
    <3>3. CASE String("action") \notin Actions /\ Call(FALSE, String("service"), NoCommand)
      <4>1. ~ Invited(c)
        BY <2>1, <3>3 DEF Invited
      <4>2. ControlInv'
        BY <1>1, <3>1, <3>3, CallIsSafe
      <4>3. UNCHANGED <<config, shellCommands>> /\ pc' # "running"
        BY <3>3, CallOutcome
      <4>4. Passed(c)
        BY <4>1, <4>2, <4>3 DEF Passed
      <4> QED BY <2>3, <4>4, PassedIsSafe
    <3> QED BY <2>3, <3>2, <3>3 DEF SystemctlAction
  <2> QED BY <1>6, <2>2, <2>3 DEF SystemctlActionTool
<1>7. CASE DockerPSTool(c)
  <2>1. Passed(c)
    BY <1>1, <1>7, DockerPSIsPassed DEF DockerPSTool
  <2> QED BY <1>7, <2>1, PassedIsSafe DEF DockerPSTool
<1> QED BY <1>3, <1>4, <1>5, <1>6, <1>7 DEF ExecuteToolCall

\* The call a command stands for has typed arguments: the name, and the lines
\* if they are given.
LEMMA CallOfTyped ==
  ASSUME NEW tool, NEW field \in {"name", "service", "container", "unit"},
         NEW words \in Texts, NEW name \in Names, NEW i \in Nat \ {0},
         NEW c, c = CallOf(tool, field, name, words, i)
  PROVE  /\ c.name = tool /\ TypedArguments(c.arguments)
         /\ StringArgument(c.arguments, field) = name /\ name # None
         /\ LinesIn(words, i) \in IntArgument(c.arguments, "lines")
<1> DEFINE arguments == CallOf(tool, field, name, words, i).arguments
<1>1. /\ DOMAIN arguments = {field} \union (IF i \in DOMAIN words THEN {"lines"} ELSE {})
      /\ arguments[field] = Text(name)
      /\ i \in DOMAIN words => arguments["lines"] = Text(words[i])
      /\ CallOf(tool, field, name, words, i).name = tool
  BY DEF CallOf
<1> HIDE DEF arguments
<1>2. i \in DOMAIN words => words[i] \in Names \union Verbs
  BY TextAssumption
<1>3. TypedArguments(arguments)
  <2>1. Text(name) \in ValueType(field)
    BY DEF Text, ValueType
  <2>2. i \in DOMAIN words => Text(words[i]) \in ValueType("lines")
    BY <1>2 DEF Text, ValueType
  <2> QED BY <1>1, <2>1, <2>2 DEF TypedArguments, Fields
<1>4. StringArgument(arguments, field) = name /\ name # None
  BY <1>1, NameAssumption DEF StringArgument, Text
<1>5. LinesIn(words, i) \in IntArgument(arguments, "lines")
  <2>1. CASE i \in DOMAIN words
    BY <1>1, <2>1 DEF LinesIn, IntArgument, Text
  <2>2. CASE i \notin DOMAIN words
    BY <1>1, <2>2 DEF LinesIn, IntArgument
  <2> QED BY <2>1, <2>2
<1> QED BY <1>1, <1>3, <1>4, <1>5 DEF arguments

\* A chat command does what the call of the model that it stands for does, or
\* is answered with the usage.
LEMMA CommandsAreCalls ==
  ASSUME NEW words \in Texts, ChatCommand(words)
  PROVE  Usage \/ \E c : TypedArguments(c.arguments) /\ ExecuteToolCall(c)
<1>1. /\ words \in Seq(Names \union Verbs) /\ Len(words) \in Nat /\ DOMAIN words = 1 .. Len(words)
      /\ Len(words) >= 2 /\ (words[1] = "/cmd" => Len(words) = 2)
  BY TextAssumption
<1>2. NameAt(words) \in DOMAIN words => words[NameAt(words)] \in Names
  BY TextAssumption
<1>3. CASE HandleCmd(words) /\ ~ Usage
  <2> DEFINE c == CallOf("shell_command", "name", words[2], words, 3)
  <2>1. RunNamedCommand(words[2]) /\ Delegate(c) /\ words[2] \in Names
    BY <1>1, <1>2, <1>3 DEF HandleCmd, NameAt
  <2>2. /\ c.name = "shell_command" /\ TypedArguments(c.arguments)
        /\ StringArgument(c.arguments, "name") = words[2] /\ words[2] # None
    BY <2>1, CallOfTyped
  <2> HIDE DEF c
  <2>3. NamedTool(c)
    BY <2>1, <2>2 DEF NamedTool
  <2> QED BY <2>2, <2>3 DEF ExecuteToolCall
<1>4. CASE HandleServiceCommand(words) /\ ~ Usage
  <2>1. Len(words) >= 3 /\ words[3] \in Names
    BY <1>1, <1>2, <1>4 DEF HandleServiceCommand, NameAt
  <2>2. CASE SystemctlStatus(words[3])
             /\ Delegate(CallOf("systemctl_status", "service", words[3], words, 4))
    <3> DEFINE c == CallOf("systemctl_status", "service", words[3], words, 4)
    <3>1. /\ c.name = "systemctl_status" /\ TypedArguments(c.arguments)
          /\ StringArgument(c.arguments, "service") = words[3] /\ words[3] # None
      <4>1. words[3] \in Names
        BY <2>1
      <4> QED BY <4>1, CallOfTyped
    <3> HIDE DEF c
    <3>2. NamedTool(c)
      BY <2>2, <3>1 DEF NamedTool, c
    <3> QED BY <3>1, <3>2 DEF ExecuteToolCall
  <2>3. CASE /\ words[2] \in Actions /\ SystemctlAction(words[2], words[3])
             /\ Delegate([name |-> "systemctl_action",
                          arguments |-> [service |-> Text(words[3]), action |-> Text(words[2])]])
    <3> DEFINE arguments == [service |-> Text(words[3]), action |-> Text(words[2])]
               c == [name |-> "systemctl_action", arguments |-> arguments]
    <3>1. words[2] # None /\ words[3] # None /\ words[2] \in Verbs
      BY <2>1, <2>3, NameAssumption, ArgumentAssumption DEF Verbs
    <3>2. /\ StringArgument(arguments, "service") = words[3]
          /\ StringArgument(arguments, "action") = words[2]
      BY DEF StringArgument, Text
    <3>3. TypedArguments(arguments)
      <4>1. Text(words[3]) \in ValueType("service") /\ Text(words[2]) \in ValueType("action")
        BY <2>1, <3>1 DEF Text, ValueType
      <4> QED BY <4>1 DEF TypedArguments, Fields
    <3>4. SystemctlActionTool(c)
      BY <2>3, <3>1, <3>2 DEF SystemctlActionTool
    <3> QED BY <3>3, <3>4 DEF ExecuteToolCall
  <2> QED BY <1>4, <2>2, <2>3 DEF HandleServiceCommand
<1>5. CASE HandleDockerCommand(words) /\ ~ Usage
  <2>1. CASE DockerPS /\ Delegate([name |-> "docker_ps", arguments |-> << >>])
    <3> DEFINE c == [name |-> "docker_ps", arguments |-> << >>]
    <3>1. TypedArguments(c.arguments) /\ DockerPSTool(c)
      BY <2>1 DEF TypedArguments, DockerPSTool
    <3> QED BY <3>1 DEF ExecuteToolCall
  <2>2. CASE /\ Len(words) >= 3 /\ DockerLogs(words[3], LinesIn(words, 4))
             /\ Delegate(CallOf("docker_logs", "container", words[3], words, 4))
    <3> DEFINE c == CallOf("docker_logs", "container", words[3], words, 4)
    <3>1. words[3] \in Names
      BY <1>1, <1>2, <1>5, <2>2 DEF HandleDockerCommand, NameAt
    <3>2. /\ c.name = "docker_logs" /\ TypedArguments(c.arguments)
          /\ StringArgument(c.arguments, "container") = words[3] /\ words[3] # None
          /\ LinesIn(words, 4) \in IntArgument(c.arguments, "lines")
      BY <3>1, CallOfTyped
    <3>3. DockerLogs(StringArgument(c.arguments, "container"), LinesIn(words, 4)) /\ Delegate(c)
      BY <2>2, <3>2
    <3> HIDE DEF c
    <3>4. NamedTool(c)
      BY <3>2, <3>3 DEF NamedTool
    <3> QED BY <3>2, <3>4 DEF ExecuteToolCall
  <2> QED BY <1>5, <2>1, <2>2 DEF HandleDockerCommand
<1>6. CASE HandleLogsCommand(words) /\ ~ Usage
  <2> DEFINE c == CallOf("journal_tail", "unit", words[2], words, 3)
  <2>1. /\ words[2] \in Names /\ JournalTail(words[2], LinesIn(words, 3)) /\ Delegate(c)
    BY <1>1, <1>2, <1>6 DEF HandleLogsCommand, NameAt
  <2>2. /\ c.name = "journal_tail" /\ TypedArguments(c.arguments)
        /\ StringArgument(c.arguments, "unit") = words[2] /\ words[2] # None
        /\ LinesIn(words, 3) \in IntArgument(c.arguments, "lines")
    BY <2>1, CallOfTyped
  <2>3. JournalTail(StringArgument(c.arguments, "unit"), LinesIn(words, 3)) /\ Delegate(c)
    BY <2>1, <2>2
  <2> HIDE DEF c
  <2>4. NamedTool(c)
    BY <2>2, <2>3 DEF NamedTool
  <2> QED BY <2>2, <2>4 DEF ExecuteToolCall
<1> QED BY <1>3, <1>4, <1>5, <1>6 DEF ChatCommand

\* The command goes on: the query for the status after an action is for the
\* service that the action was for, so for the one that was asked for.
LEMMA ContinueIsSafe ==
  ASSUME ToolsInv, Continue
  PROVE  ToolsInv'
<1>1. ControlInv' /\ pc = "running"
  BY CommandIsSafe DEF ToolsInv, Continue, CommandExits, RunSucceeds, RunFails
<1>2. UNCHANGED <<config, shellCommands, call>> /\ output' \in {output, "failed", "text"}
  BY DEF Continue, CommandExits, RunSucceeds, RunFails
<1>3. ASSUME pc' = "running"
      PROVE  /\ output' = output
             /\ command'.program = command.program /\ command'.target = command.target
             /\ command'.verb \in {"logs", "-u"} => command' = command
  <2>1. CASE CommandExits
    BY <1>3, <2>1 DEF Continue, CommandExits
  <2>2. CASE RunSucceeds
    <3>1. /\ command.verb \in Actions /\ acted' = command /\ output' = output
          /\ command' = [command EXCEPT !.verb = "show",
                                        !.target = AllowedServices[Key[command.target]]]
      BY <1>3, <2>2 DEF RunSucceeds, Continue
    <3>2. command \in CommandType
      BY DEF ToolsInv, ControlInv, TypeOK
    <3>3. command # NoCommand
      BY <3>1, ArgumentAssumption DEF NoCommand, Actions, Verbs
    <3>4. command'.target = command.target
      BY <1>1, <3>1, <3>3 DEF ControlInv, StatusOfActedService
    <3> QED BY <3>1, <3>2, <3>4 DEF CommandType
  <2>3. CASE RunFails
    BY <1>3, <2>3 DEF RunFails
  <2> QED BY <2>1, <2>2, <2>3 DEF Continue
<1>4. ASSUME output' = "pending" PROVE pc' = "running"
  BY <1>4 DEF Continue
<1>5. AvailableTools' = AvailableTools /\ (Invited(call)' <=> Invited(call))
  BY <1>2, InvitationsStay
<1>6. InvitedIsServed'
  BY <1>2, <1>3, <1>4, <1>5 DEF ToolsInv, InvitedIsServed
<1>7. OnlyOfferedRuns'
  BY <1>1, <1>2, <1>5 DEF ToolsInv, OnlyOfferedRuns
<1>8. LinesAsAsked'
  <2>1. SUFFICES ASSUME output' = "pending", command'.verb \in {"logs", "-u"}
                 PROVE  LinesMatch(call.arguments, command.lines)'
    BY DEF LinesAsAsked, LinesMatch
  <2>2. command' = command /\ output = "pending"
    BY <1>3, <1>4, <2>1
  <2>3. LinesMatch(call.arguments, command.lines)
    BY <2>1, <2>2 DEF ToolsInv, LinesAsAsked, LinesMatch
  <2> QED BY <1>2, <2>2, <2>3 DEF LinesMatch
<1>9. (output = "none" => pc = "idle")'
  BY <1>1, <1>2 DEF ToolsInv
<1> QED BY <1>1, <1>6, <1>7, <1>8, <1>9 DEF ToolsInv

\* The invariant of the specification.
LEMMA ToolsInvariant == ToolsSpec => []ToolsInv
<1>1. ToolsInit => ToolsInv
  <2> SUFFICES ASSUME ToolsInit PROVE ToolsInv
    OBVIOUS
  <2>1. ControlInv
    BY InitIsSafe DEF ToolsInit
  <2>2. pc = "idle" /\ call = NoCall /\ output = "none"
    BY DEF ToolsInit, Init
  <2> QED BY <2>1, <2>2 DEF ToolsInv, InvitedIsServed, OnlyOfferedRuns, LinesAsAsked
<1>2. ToolsInv /\ [ToolsNext]_toolsVars => ToolsInv'
  <2> SUFFICES ASSUME ToolsInv, [ToolsNext]_toolsVars PROVE ToolsInv'
    OBVIOUS
  <2>1. ASSUME output = "none", NEW tool, NEW arguments \in Arguments,
               ExecuteToolCall([name |-> tool, arguments |-> arguments])
        PROVE  ToolsInv'
    BY <2>1, ExecutedIsSafe, ArgumentAssumption DEF TypedArguments
  <2>2. ASSUME output = "none", NEW words \in Texts, ChatCommand(words)
        PROVE  ToolsInv'
    <3>1. CASE Usage
      BY <2>2, <3>1, ReplyIsSafe DEF Usage
    <3>2. CASE \E c : TypedArguments(c.arguments) /\ ExecuteToolCall(c)
      BY <2>2, <3>2, ExecutedIsSafe
    <3> QED BY <2>2, <3>1, <3>2, CommandsAreCalls
  <2>3. CASE Continue
    BY <2>3, ContinueIsSafe
  <2>4. CASE UNCHANGED toolsVars
    <3>1. ControlInv'
      BY <2>4, StutterIsSafe DEF toolsVars, vars, ToolsInv
    <3>2. AvailableTools' = AvailableTools /\ (Invited(call)' <=> Invited(call))
      BY <2>4, InvitationsStay DEF toolsVars
    <3>3. InvitedIsServed' /\ OnlyOfferedRuns' /\ LinesAsAsked'
      BY <2>4, <3>2 DEF toolsVars, ToolsInv, InvitedIsServed, OnlyOfferedRuns, LinesAsAsked
    <3> QED BY <2>4, <3>1, <3>3 DEF toolsVars, ToolsInv
  <2> QED BY <2>1, <2>2, <2>3, <2>4 DEF ToolsNext
<1> QED BY <1>1, <1>2, PTL DEF ToolsSpec

\* What availableTools offers, executeToolCall and the lookups of ServerControl
\* serve, on the very target that the description lists, for all configurations,
\* whatever the order and the case of their entries.
THEOREM InvitedCallsAreServed == ToolsSpec => []InvitedIsServed
BY ToolsInvariant, PTL DEF ToolsInv

\* A tool that is not offered runs nothing on the host, for any call of the
\* model and any text of a user (executeToolCall, the handlers of commands).
THEOREM OnlyOfferedToolsRun == ToolsSpec => []OnlyOfferedRuns
BY ToolsInvariant, PTL DEF ToolsInv

\* The lines of a log command are those asked for, for every integer, number
\* or text, that is within the limits (getIntArgument, clampLines).
THEOREM LinesAreAsAsked == ToolsSpec => []LinesAsAsked
BY ToolsInvariant, PTL DEF ToolsInv
=============================================================================
