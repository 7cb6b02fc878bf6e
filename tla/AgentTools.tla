----------------------------- MODULE AgentTools -----------------------------
(***************************************************************************)
(* internal/core/agent.go: the tools the model is told of, the calls it    *)
(* makes of them, and the commands a user types in their place.            *)
(*                                                                         *)
(* What a tool is called and which arguments it takes is written twice, in *)
(* availableTools for the model and in executeToolCall for the program,    *)
(* and whether it is available is decided once more by ServerControl,      *)
(* which this module puts behind the agent.  The model may call any tool   *)
(* with any arguments, offered or not.  Calls do not disturb each other    *)
(* (see ServerControl), and nothing the agent keeps depends on them: a     *)
(* behavior here is one call.                                              *)
(*                                                                         *)
(* Main gives the agent a fetcher, a browser and a ServerControl, so that  *)
(* none of them is nil.  Texts are trimmed.                                *)
(***************************************************************************)
EXTENDS ServerControl

CONSTANTS
  Number,     \* the integer strconv.Atoi reads in a text, for those that have one
  MaxInt,     \* the largest int
  Arguments,  \* arguments of the calls: functions from some Fields to ValueType
  Texts       \* chat commands, as their words

VARIABLES
  call,   \* the last call; a chat command counts as the call it stands for
  output  \* what became of it

toolsVars == <<config, shellCommands, pc, asked, command, exited, acted, reply, call, output>>

\* The words of a text: names, and those that the commands know; the last two
\* stand for any others.
Verbs == Actions \union {"/cmd", "/service", "/docker", "/logs", "status", "ps", "logs",
                         "reload", "rm"}

\* An argument of a call as it is decoded from JSON; a number as so many
\* halves, so that there are fractions.
ValueType(field) ==
  [type : {"string"}, text : IF field \in {"action", "lines"} THEN Names \union Verbs ELSE Names]
    \union [type : {"number"}, halves : Int]
    \union [type : {"other"}]

Fields == {"url", "name", "service", "action", "container", "unit", "lines"}

ToolNames == {"web_fetch", "browser_browse", "shell_command", "systemctl_status",
              "systemctl_action", "docker_ps", "docker_logs", "journal_tail"}

ASSUME ArgumentAssumption ==
  /\ \A arguments \in Arguments :
       DOMAIN arguments \subseteq Fields /\ \A f \in DOMAIN arguments : arguments[f] \in ValueType(f)
  /\ DOMAIN Number \subseteq Names /\ \A text \in DOMAIN Number : Number[text] \in Int
  /\ None \notin Verbs

\* The settings are ints too.
ASSUME IntAssumption ==
  /\ MaxInt \in Nat /\ DefaultLines <= MaxInt /\ MaximumLines <= MaxInt
  /\ \A c \in Configs : c.defaultLines <= MaxInt /\ c.maxLines <= MaxInt

\* A text is words, the first of which is a command with a blank behind it:
\* a text is trimmed, so that another word follows, and a bare "/cmd" is no
\* command but goes to the model.  Where a command wants a name one is given,
\* if anything is; for /cmd that is all of the rest.
NameAt(words) == IF words[1] \in {"/cmd", "/logs"} THEN 2 ELSE 3

ASSUME TextAssumption ==
  \A words \in Texts :
    /\ words \in Seq(Names \union Verbs) /\ Len(words) >= 2
    /\ words[1] = "/cmd" => Len(words) = 2
    /\ NameAt(words) \in DOMAIN words => words[NameAt(words)] \in Names

-----------------------------------------------------------------------------
(***************************************************************************)
(* availableTools: what the model is told                                  *)
(***************************************************************************)
ShellAvailable == "shell" \in config.enabled /\ DOMAIN shellCommands # {}
SystemctlAvailable == "systemctl" \in config.enabled /\ DOMAIN AllowedServices # {}
DockerAvailable == "docker" \in config.enabled
JournalAvailable == "journal" \in config.enabled /\ DOMAIN AllowedUnits # {}

\* A variant with a bug: without an allow-list docker ps is not offered.
AvailableToolsListed ==
  {"web_fetch", "browser_browse"}
    \union (IF ShellAvailable THEN {"shell_command"} ELSE {})
    \union (IF SystemctlAvailable THEN {"systemctl_status", "systemctl_action"} ELSE {})
    \union (IF DockerAvailable /\ DOMAIN AllowedContainers # {}
            THEN {"docker_ps", "docker_logs"} ELSE {})
    \union (IF JournalAvailable THEN {"journal_tail"} ELSE {})

AvailableTools ==
  {"web_fetch", "browser_browse"}
    \union (IF ShellAvailable THEN {"shell_command"} ELSE {})
    \union (IF SystemctlAvailable THEN {"systemctl_status", "systemctl_action"} ELSE {})
    \union (IF DockerAvailable THEN {"docker_ps"} ELSE {})
    \union (IF DockerAvailable /\ DOMAIN AllowedContainers # {} THEN {"docker_logs"} ELSE {})
    \union (IF JournalAvailable THEN {"journal_tail"} ELSE {})

\* A variant with a bug: the schema does not say that the action is required.
RequiredButAction(tool) ==
  CASE tool \in {"web_fetch", "browser_browse"} -> {"url"}
    [] tool = "shell_command" -> {"name"}
    [] tool \in {"systemctl_status", "systemctl_action"} -> {"service"}
    [] tool = "docker_ps" -> {}
    [] tool = "docker_logs" -> {"container"}
    [] tool = "journal_tail" -> {"unit"}

\* The fields the schema of a tool requires.
Required(tool) ==
  CASE tool \in {"web_fetch", "browser_browse"} -> {"url"}
    [] tool = "shell_command" -> {"name"}
    [] tool = "systemctl_status" -> {"service"}
    [] tool = "systemctl_action" -> {"service", "action"}
    [] tool = "docker_ps" -> {}
    [] tool = "docker_logs" -> {"container"}
    [] tool = "journal_tail" -> {"unit"}

\* The names its description lists: the keys of the commands, and of the
\* other lists the spellings of the configuration.
Listed(tool) ==
  CASE tool = "shell_command" -> {name \in Names : Key[name] \in DOMAIN shellCommands}
    [] tool \in {"systemctl_status", "systemctl_action"} ->
         {AllowedServices[k] : k \in DOMAIN AllowedServices}
    [] tool = "docker_logs" -> {AllowedContainers[k] : k \in DOMAIN AllowedContainers}
    [] tool = "journal_tail" -> {AllowedUnits[k] : k \in DOMAIN AllowedUnits}

-----------------------------------------------------------------------------
(***************************************************************************)
(* Arguments                                                               *)
(***************************************************************************)
\* getStringArgument, with None for "": a string of the arguments.
StringArgument(arguments, field) ==
  IF field \in DOMAIN arguments /\ arguments[field].type = "string"
  THEN arguments[field].text ELSE None

\* parseOptionalInt
ParseOptionalInt(text) == IF text \in DOMAIN Number THEN Number[text] ELSE 0

\* int of a float64: the fraction is cut off.
Cut(halves) == IF halves >= 0 THEN halves \div 2 ELSE - ((- halves) \div 2)

\* A variant with a bug: only a JSON number counts.
IntArgumentNumber(arguments, field) ==
  IF field \in DOMAIN arguments /\ arguments[field].type = "number"
  THEN {Cut(arguments[field].halves)} ELSE {0}

\* getIntArgument.  A number is a float64, and Go leaves open what an int
\* becomes of one that is out of range: the largest on some machines and the
\* smallest on others.
IntArgument(arguments, field) ==
  IF field \notin DOMAIN arguments THEN {0}
  ELSE LET argument == arguments[field]
       IN  CASE argument.type = "string" -> {ParseOptionalInt(argument.text)}
             [] argument.type = "number" ->
                  LET n == Cut(argument.halves)
                  IN  IF n \in - MaxInt .. MaxInt THEN {n} ELSE {- MaxInt, MaxInt}
             [] argument.type = "other" -> {0}

-----------------------------------------------------------------------------
NoCall == [name |-> None, arguments |-> << >>]

ToolsInit == Init /\ call = NoCall /\ output = "none"

\* The call is answered without ServerControl.
Reply(c, result) ==
  /\ call' = c
  /\ output' = result
  /\ UNCHANGED vars

\* What becomes of a call that is passed to ServerControl, which may refuse it.
Delegate(c) ==
  /\ call' = c
  /\ output' = IF pc' = "running" THEN "pending" ELSE "refused"

(***************************************************************************)
(* executeToolCall                                                         *)
(***************************************************************************)
UnknownTool(c) == c.name \notin ToolNames /\ Reply(c, "unknown")

MissingField(c, fields) ==
  /\ \E field \in fields : StringArgument(c.arguments, field) = None
  /\ Reply(c, "missing")

\* web_fetch and browser_browse, which answer in their own time.
Fetch(c) ==
  /\ c.name \in {"web_fetch", "browser_browse"}
  /\ \/ MissingField(c, {"url"})
     \/ /\ StringArgument(c.arguments, "url") # None
        /\ \E result \in {"text", "failed"} : Reply(c, result)

\* The tools that read one string, or that string is missing.
NamedTool(c) ==
  LET String(field) == StringArgument(c.arguments, field)
      Given(tool, field) == c.name = tool /\ String(field) # None
  IN  \/ c.name = "shell_command" /\ MissingField(c, {"name"})
      \/ c.name = "systemctl_status" /\ MissingField(c, {"service"})
      \/ c.name = "docker_logs" /\ MissingField(c, {"container"})
      \/ c.name = "journal_tail" /\ MissingField(c, {"unit"})
      \/ /\ \/ Given("shell_command", "name") /\ RunNamedCommand(String("name"))
            \/ Given("systemctl_status", "service") /\ SystemctlStatus(String("service"))
            \/ \E lines \in IntArgument(c.arguments, "lines") :
                 \/ Given("docker_logs", "container") /\ DockerLogs(String("container"), lines)
                 \/ Given("journal_tail", "unit") /\ JournalTail(String("unit"), lines)
         /\ Delegate(c)

SystemctlActionTool(c) ==
  LET action == StringArgument(c.arguments, "action")
      service == StringArgument(c.arguments, "service")
  IN  /\ c.name = "systemctl_action"
      /\ \/ MissingField(c, {"service", "action"})
         \/ /\ service # None /\ action # None
            /\ SystemctlAction(action, service)
            /\ Delegate(c)

DockerPSTool(c) == c.name = "docker_ps" /\ DockerPS /\ Delegate(c)

ExecuteToolCall(c) ==
  UnknownTool(c) \/ Fetch(c) \/ NamedTool(c) \/ SystemctlActionTool(c) \/ DockerPSTool(c)

-----------------------------------------------------------------------------
(***************************************************************************)
(* Chat commands.  One that is followed by the wrong words, or by too few, *)
(* is answered with the usage and runs nothing.                            *)
(***************************************************************************)
Text(word) == [type |-> "string", text |-> word]

\* The call a command stands for; lines are words[i], if there is such a word.
CallOf(tool, field, name, words, i) ==
  [name |-> tool,
   arguments |-> [f \in {field} \union (IF i \in DOMAIN words THEN {"lines"} ELSE {}) |->
                    IF f = field THEN Text(name) ELSE Text(words[i])]]

LinesIn(words, i) == IF i \in DOMAIN words THEN ParseOptionalInt(words[i]) ELSE 0

Usage == Reply(NoCall, "usage")

\* /cmd: the text behind it is the name.
HandleCmd(words) ==
  /\ words[1] = "/cmd"
  /\ RunNamedCommand(words[2])
  /\ Delegate(CallOf("shell_command", "name", words[2], words, 3))

HandleServiceCommand(words) ==
  /\ words[1] = "/service"
  /\ \/ Len(words) < 3 /\ Usage
     \/ Len(words) >= 3 /\ words[2] \notin Actions \union {"status"} /\ Usage
     \/ /\ Len(words) >= 3 /\ words[2] = "status"
        /\ SystemctlStatus(words[3])
        /\ Delegate(CallOf("systemctl_status", "service", words[3], words, 4))
     \/ /\ Len(words) >= 3 /\ words[2] \in Actions
        /\ SystemctlAction(words[2], words[3])
        /\ Delegate([name |-> "systemctl_action",
                     arguments |-> [service |-> Text(words[3]), action |-> Text(words[2])]])

HandleDockerCommand(words) ==
  /\ words[1] = "/docker"
  /\ \/ words[2] \notin {"ps", "logs"} /\ Usage
     \/ Len(words) = 2 /\ words[2] = "logs" /\ Usage
     \/ /\ words[2] = "ps"
        /\ DockerPS
        /\ Delegate([name |-> "docker_ps", arguments |-> << >>])
     \/ /\ Len(words) >= 3 /\ words[2] = "logs"
        /\ DockerLogs(words[3], LinesIn(words, 4))
        /\ Delegate(CallOf("docker_logs", "container", words[3], words, 4))

HandleLogsCommand(words) ==
  /\ words[1] = "/logs"
  /\ JournalTail(words[2], LinesIn(words, 3))
  /\ Delegate(CallOf("journal_tail", "unit", words[2], words, 3))

ChatCommand(words) ==
  \/ HandleCmd(words) \/ HandleServiceCommand(words)
  \/ HandleDockerCommand(words) \/ HandleLogsCommand(words)

-----------------------------------------------------------------------------
\* ServerControl goes on with the command, and answers at last.
Continue ==
  /\ CommandExits \/ RunSucceeds \/ RunFails
  /\ output' = IF pc' = "running" THEN output ELSE IF reply' = "error" THEN "failed" ELSE "text"
  /\ UNCHANGED call

ToolsNext ==
  \/ /\ output = "none"
     /\ \/ \E tool \in ToolNames \union {"unknown"}, arguments \in Arguments :
             ExecuteToolCall([name |-> tool, arguments |-> arguments])
        \/ \E words \in Texts : ChatCommand(words)
  \/ Continue

ToolsSpec == ToolsInit /\ [][ToolsNext]_toolsVars

-----------------------------------------------------------------------------
(***************************************************************************)
(* Properties                                                              *)
(***************************************************************************)
\* Whether a call is one the model was invited to make: the tool is offered,
\* each field its schema requires is a string, and the name is in the list
\* and the action among those that the description gives.
Invited(c) ==
  /\ c.name \in AvailableTools
  /\ \A field \in Required(c.name) :
       /\ StringArgument(c.arguments, field) # None
       /\ field \in {"name", "service", "container", "unit"} =>
            StringArgument(c.arguments, field) \in Listed(c.name)
       /\ field = "action" => StringArgument(c.arguments, field) \in Actions

\* What the model is invited to call, availableTools and executeToolCall and
\* the lookups of ServerControl agree upon: it is never turned away, and it
\* is run on the very service, container or unit that the list names.
InvitedIsServed ==
  call # NoCall /\ Invited(call) =>
    /\ output \notin {"unknown", "missing", "refused"}
    /\ output = "pending" /\ command.program # "/bin/sh" =>
         \A field \in Required(call.name) \ {"action"} :
           command.target = StringArgument(call.arguments, field)

\* Nothing runs on the host through a tool the model is not offered: not for
\* a model that calls it all the same, and not for a user's command.
OnlyOfferedRuns == pc = "running" => call.name \in AvailableTools

\* The lines of a log are those asked for, whether a user typed them or the
\* model wrote a number or a string; what is not a number asks for nothing,
\* and of 3.5 lines the half is not read.
LinesAsAsked ==
  output = "pending" /\ command.verb \in {"logs", "-u"} =>
    LET default == LogLines(config.defaultLines)
        limit == MaxLogLines(config.defaultLines, config.maxLines)
        argument == IF "lines" \in DOMAIN call.arguments THEN call.arguments["lines"]
                                                         ELSE [type |-> "other"]
        wanted == CASE argument.type = "number" -> {argument.halves \div 2}
                    [] argument.type = "string" -> {Number[t] : t \in DOMAIN Number \cap {argument.text}}
                    [] argument.type = "other" -> {}
    IN  /\ \A n \in wanted \cap (1 .. limit) : command.lines = n
        /\ wanted = {} => command.lines = default
=============================================================================
