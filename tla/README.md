# A verification of ClawKangsar

ClawKangsar is a chat agent for a Raspberry Pi: two gateways (Telegram and
WhatsApp) pass messages to an agent, which answers with a language model, a web
fetcher, a headless browser and a few commands of the host. These modules model
it in TLA+, check it with TLC on small instances, and prove the main safety
properties with TLAPS for every value of the constants.

Paths are relative to the repository. `PROJECT.json` maps every definition to
the lines it stands for.

## The system

Go, one process. `main` builds the components, starts one goroutine for the
health server and one per gateway, waits for a signal and then for those
goroutines. The gateway libraries call a handler in a goroutine of its own for
each message, which calls `Agent.Process`. So any number of `Process` calls run
at once, and everything below is shared between them.

| Component | State | Operations | What is hard | What makes it correct |
|---|---|---|---|---|
| Session store, `internal/core/session_store.go` | map of sessions under an RWMutex; a JSON file per session | `AddMessage` (append, then `Save`), `History`, counts, `loadSessions` | `Save` runs after the lock is released: several saves of one session overlap; any file operation may fail; the process may end between any two | files stay whole; what is on disk is an earlier state of the session; a finished save is not undone by a later call |
| Agent, `internal/core/agent.go` | 128 messages of memory; the store | `Process`: commands, or the model with up to four rounds of tool calls | requests interleave at every lock and every wait | the model sees its chat's log; logs keep questions before answers; tool calls all have outputs |
| Headless browser, `internal/tools/browser.go` | context of one Chrome, `lastUsed`, a watchdog goroutine | `Browse`, `KillIfIdle`, `Close` | the mutex is held while Chrome starts; the watchdog races calls; Chrome may die | no Chrome is left behind; none is killed in use; an idle one is killed; `Close` returns |
| Process, `cmd/clawkangsar/main.go` | wait group, status tracker (`Running`, `LastError` per gateway) | start, join, close the browser, exit | a signal or a failure at any moment; handlers are not joined | shutdown ends; the status is coherent; failures are reported |
| Health server, `internal/health/server.go` | none of its own | `/health`, `/ready`, `/status`; shutdown | `/status` takes the tracker's lock twice | it ends with the process |
| Gateways, `internal/gateway/*` | connection; Telegram's allow-list | `Start`, one handler per message | a message in hand when the connection ends | accepted messages are answered |
| Server control, `internal/tools/server_control.go` | allow-lists, fixed at start | seven commands of the host | aliases and case in the allow-lists; a timeout after the command has acted | only what is configured is run |
| Codex credentials, `internal/auth` | `auth.json`, shared by all callers and processes | load, refresh, save, login | no lock; refresh tokens are used up; the file is written in place | the refresh token in the file stays one that works |
| Model providers, `internal/llm` | none | `Complete`: build a request of a conversation, read the response | two providers translate one conversation; texts, calls and outputs in any order; arguments that do not parse | both say the same; every call comes back, with its output behind it |
| Web fetcher, `internal/tools/webfetch.go` | none | `Fetch`, `stripHTML` | redirects; expressions that know no nesting | the text is what a reader of the page sees |
| Configuration, `internal/config` | `config.json` | `Load`, `Normalize`, `Save` | a replace that may remove first; settings that are missing, blank or contradict each other | the file is whole or absent; what the service gets is usable, and what was set properly is in it |
| Setup wizard, `internal/setup` | the configuration it builds; a backup | a dialogue, then backup and save | the input may end anywhere; runs overlap; the names of backups | nothing that was in force is lost; the allow-list of a declined tool is cleared; its warnings agree with what the service demands |
| Version, `internal/version` | none | two constants | | |

How they interact: gateways call `Process`; `Process` calls the store (twice
for a message, twice for an answer), the fetcher, the browser, the server
control and the provider; the provider loads the credentials for every
`Complete`; the model chooses among the tools that the agent lists from the
allow-lists of the server control; runners call the tracker; the health server reads the tracker, which
asks the agent and the browser for their counters; `main` closes the browser
after the join, while handlers may still be using it. The wizard, a process of its
own, writes the file that the service loads when it starts, and no other time.

## The modules

| Module | Models | Extended by |
|---|---|---|
| `DurableLog` | what the session store promises: an append-only log and a saved copy that is one earlier state of it | instance in `SessionStore` |
| `SessionStore` | the session store, step by step | `MCSessionStore`, `SessionStore_proofs` |
| `Agent` | `Agent.Process` with the tool loop, over the store's logs | `ChatSystem`, `MCAgent`; `AgentClaims` extends `MCAgent` |
| `Browser` | the browser tool, its mutex, watchdog and clocks | `MCBrowser`, `Browser_proofs`; `BrowserClaims` extends `MCBrowser` |
| `Lifecycle` | `main`, the status tracker, the health server, and `Start` and the handlers of both gateways | `MCLifecycle`, `Lifecycle_proofs` |
| `ServerControl` | the allow-lists and commands of the host | `AgentTools` |
| `CodexAuth` | the credentials and their concurrent refreshes | `MCCodexAuth`, `CodexAuth_proofs` |
| `ChatSystem` | `Agent` and `SessionStore` composed, over crashes, restarts and messages that are delivered again | `MCChatSystem`, `Agent_proofs` (of both) |
| `AgentTools` | the tools that are offered, their calls and the chat commands, on top of `ServerControl`, which it extends | `MCAgentTools`, `ServerControl_proofs` (of both) |
| `Provider` | the requests and responses of both model providers, over the tool loop | `MCConversions`, which `Conversions_proofs` extends |
| `WebFetch` | a fetch, and the extraction of text | instance in `MCConversions` |
| `ConfigFile` | the configuration file on disk: backup, replacement, loading | `MCConfigFile`, `Config_proofs` |
| `Config` | the settings: defaults and `Normalize` | `MCConfiguration`, which `Config_proofs` extends |
| `Setup` | the wizard's dialogue, and what the service makes of its result | instance in `MCConfiguration` |

`MC*` modules give constants their values. `*Claims` modules state what the
documentation says where the code does something else. In the specifications,
an operator introduced by "A variant with a bug" is not part of the model: it
is a plausible mistake in the operator that follows it, kept to show that a
property can tell the two apart (`PROJECT.json`, "mutants").

### SessionStore

One action per critical section or file operation. `AddMessage(c)` is the
append under the lock; `CopySession` is the copy that `Save` takes under the
read lock; `CreateTemp`, `WriteTemp` (write, chmod, sync, close) and `Rename`
follow; `SkipSave` is the early return of a store without a directory or with
an unusable file name; `FailSave` and `Return` are the failures. `Crash` ends
the process anywhere and `LoadSessions(unreadable)` starts it again, skipping
files that it could not read. `unread` and `base` are history variables of the
properties. File content is whole JSON (a key and messages), `Torn`, or absent;
times are left out. The function `FileName` is assumed to keep keys apart: the
keys the gateways build ("telegram:" and a number, "whatsapp:" and a JID,
"global") do, although the function of the code is not injective on all strings.

### Agent

A step per lock or wait. `Process` decides what the text asks for;
`RememberInChat` and `RememberInGlobal` are the two `AddMessage` calls; `Stats`
is the three reads `CountMemory`, `SessionCount`, `TotalMessageCount`;
`BuildLLMMessages` reads the history; `CompleteFails`, `CompleteAnswers` and
`CompleteCallsTools` are the outcomes of the provider; `ExecuteToolCall` handles
one call; `NextRound` is the loop. An entry of a log is the request and the
role. What the store does on disk is not repeated here: the agent drops its
errors. `ChatSystem` puts the two together.

### ChatSystem

Extends `Agent`, whose operators say what a request adds, and has an instance `S` of
`SessionStore`, whose callers are the requests, over one variable `sessions`;
`ChatSpec` is the specification of both. `Add` is an `AddMessage`
of the agent that also begins the call of the store: the request goes on when
that call has returned, after `Save` or `FailSave`. `Crash(again)` ends the
process and the requests; those in `again` are delivered to the next process,
which `Restart` begins with what `loadSessions` finds. That a channel repeats a
message that was not acknowledged is an assumption about Telegram and WhatsApp,
not of the code. Only messages that ask the model are sent, and it answers at
once: the other kinds add the same question and no answer.

### AgentTools

`ExecuteToolCall(c)` is a call of the model, of any tool with arguments of any
type, `ChatCommand(words)` what a user types; both end in an operation of
`ServerControl`, which the module extends. `AvailableTools`, `Required`
and `Listed` are what the model is told. None of the fetcher, browser and
server is nil, since `main` gives all three. The properties are about the
agreement of three places that are kept by hand: the schemas in `availableTools`,
the switch in `executeToolCall`, and the lookups. A behaviour is one call, as
calls share no state that they change. Numbers are in halves, so that there are
fractions, which `IntArgument` cuts. A text that is a bare "/cmd", "/service", "/docker" or "/logs"
is no command: texts are trimmed, and the prefixes end in a blank.

### Provider

`BuildRequest` is that of the Codex provider, an item per text, call and output;
`TranslateOpenAIMessages` that of the other, a message per message. `Complete`
sends one of them, `Answer`, `CallTools` and `GiveUp` are `replyWithLLM` on what
comes back. A response is any sequence of texts, calls and unknown items. Of
arguments the model keeps whether they are an object, blank or malformed. `Says`
brings both formats to one, in which they are compared.

### WebFetch

A page is a sequence of tokens, each with its place: words, blanks, and the tags that
`stripHTML` treats differently. `RemoveElements` is the non-greedy expression, from an
opening tag to the first closing one, as a scan that knows whether it is `inside` a
match. Other tags become line ends (`Mark`), `Squeeze` is the rest.
Redirects, failures and refusals are actions of their own.

### ConfigFile

An action per file operation of a run of the wizard: `Stat`, `Confirm`, `NameBackup`,
`ReadConfig`, `OpenBackup` (which truncates), `FillBackup`, then `Save` as `CreateTemp`,
`WriteTemp`, `Rename`, and where the rename is refused `Remove` and `Rename` again.
`StepFails` is the failure of any of them and `Crash` the end of the run; runs
overlap. `LoadConfig` is a start of the service at any time. A run stands for the
configuration it writes: runs of equal answers only make the properties easier.
The removal of a temporary file is assumed to succeed, which nothing depends on.
`published`, `removed` and `overlapped` are history variables. Its specification is
`FileSpec`, so that one module can have the proofs of it and of `Config`.

### Config

The settings in four kinds (texts, lists, numbers, and the two numbers that
depend on each other). `Edit` is a person's change of the file: a setting goes
away, becomes blank or null, or takes a value. `Load` and `Save` normalise.

### Setup

`Follow` is the order of the questions, `DefaultAnswer` what a blank line stands
for, `Answers` what other lines can, `Store` what is kept of it. `Answer` is a
line of input; `Blank` is a blank one, the only kind after `EndInput`, because
`readLine` takes the end of the input for it. `Abort` is an input that cannot be
read, or a login that fails. `Warnings` is `printWarnings`; `Start` is `main` with
the result, as far as `Startable` is decided by the constructors. Of a text or
a list the model keeps whether it is empty. The setting `commands`, which the
profiles fill, has no question: the wizard leaves the named commands in the file even
where the shell is declined, when `shell_enabled` alone keeps them from running, so
`DeclinedListsAreEmpty` speaks of the lists of the other three tools. Lines that are
refused ask again and are not steps.

### Browser

`holder` is the call that holds the mutex while its Chrome starts; every other
critical section is one action, which the free mutex lets happen. Who waits for the
mutex has a phase of its own: a call "acquire" or "touch", the watchdog "killing", where
it is inside `KillIfIdle` and does not look at the request to stop; `Close` waits twice, for
the watchdog to stop and then for the mutex. `Launch` begins a start, which may take any
time, since its context has no deadline. `Tick` advances time by one unit and is
disabled while something is due (`NothingDue`): a navigation at its deadline, a free
mutex that is waited for, a tick or a stop that the watchdog's select can take.
`ChromeDies` (external) happens at any time. The check of the URL, which changes
nothing, is left out.

### Lifecycle

`wg` is the set of goroutines that the wait group waits for. A runner goes
through `MarkRunning`, `Connect` or `StartFails`, `Disconnect`, `MarkStopped`,
`RecordError`, `Done`, each a separate critical section of the tracker. Handlers
run beside it: `Handle`, `ProcessReturns`, `Send`. `CopyStates` and `CallReady`
are the two reads of `/status`. The allow-list of Telegram is the choice in
`Handle` between processing the message and answering it at once.

### ServerControl

`Init` chooses the options; `NameSet`, `CommandMaps`, `LogLines` and
`MaxLogLines` are what `NewServerControl` makes of them. Each operation looks
up its name and starts an external command (`pc = "running"`), which may have
done its work (`CommandExits`) or not when the call returns (`RunSucceeds`,
`RunFails`). A `NameSet` is the function that the Go map is after the loop with
its aliases; `CommandMaps` is the set of maps that some order of iteration gives.
Names are model values with a key (`normalizeLookup`) and a base (without
".service"). Output text, and the filter that `DockerPS` applies to it, are left
out.

### CodexAuth

Every caller goes through `Read`, `Stat`, the refresh (`Answer`, `AnswerLost`,
`RefreshFails`) and the save (`Truncate`, `WriteFile`, `SaveFails`): that
`os.WriteFile` truncates before it writes is visible to the other callers.
`Age` lets the file pass the 55 minutes after which it counts as expiring.
The token server is modelled from how the code uses it (`Rotates`). `Crash` is
the end of the process. `EnsureCodexLogin` is a caller like those that complete: its
load goes through the same steps, and may refresh and write the file; `Login` is the
`codex --login` that follows a load that failed, or a `--force`, and has the caller
load once more. It happens while no other caller is at work. `lost` records that a failure or a crash fell between the server's
answer and the end of the write.

## The runs

| Run | What it checks | Bounds |
|---|---|---|
| `store` | `FilesWhole`, `DiskIsEarlierState`, `SaveKeepsEarlierSaves`; `ImplementsDurableLog`: the store implements `DurableLog` | two callers, two sessions that are saved and one that is not, two messages, sessions of two messages: saves of one session overlap, and an older copy can be renamed last |
| `agent` | `ConversationIsChatLog`, `GlobalMirrorsChats`, `AnswersKept`, `StatusAddsUp` | three requests of any kind, two in one chat; two rounds of the tool loop, the first that may go on and the last that may not, with one call in each: what calls say is the subject of `conversions` |
| `chat_system` | `AnswersFollowOnDisk`, `ContinuesFromDisk`, `RepliedIsSaved` | two requests in one chat, saved in two files; one crash, one failed save, one message delivered again: a question whose answer is lost is asked a second time while another request goes on, with the first question in the file or not |
| `browser` | `NoStrayChrome`, `IdleBrowserKilled`, `NotKilledInUse`, `CloseKillsChrome`; `CallsReturn`: if every start of Chrome ends, no call and no `Close` waits forever | two calls, three Chromes; two units of time for the 45 s of a navigation and three for the 60 s between ticks, so that a navigation is shorter than a period and longer than a unit; the idle timeout is the shortest that the assumption allows, which is the hardest case for `NotKilledInUse` |
| `lifecycle` | `StatusCoherent`, `JoinedMeansStopped`, `ShutdownCompletes`, `FailureIsReported` | every subset of the gateways and the health server enabled, one message by either gateway, one status request |
| `server_control` | `OnlyConfigured`, `StatusOfActedService`; `InvitedIsServed`, `OnlyOfferedRuns`, `LinesAsAsked` of `AgentTools` | allow-lists of up to three entries from three spellings of one service, with an alias before or after the entry of its name; every map of commands on names two of which have one key; five sets of enabled tools; limits and counts below, in and above the range, as numbers with and without a fraction and as texts |
| `codex_auth` | `OneSaver`, `FileUsable`, `LoadFailsForCause` | three callers, four tokens: three refreshes or logins, enough for a caller with a used-up token, one that saves and one that reads between truncation and write |
| `config_file` | `FoundIsKept`, `NothingLost`, `StartsForCause` | three runs of the wizard, three seconds: runs that overlap, follow each other, and share a second |
| `configuration` | `Usable`, `EditsTakeEffect` of `Config`; `WarnedOrStarts`, `DeclinedListsAreEmpty`, `WizardEnds` of `Setup` | three edits, enough to set both line limits and one more; one or two settings of each kind, the numbers of the code; the file may be one that the wizard saved.  The dialogue has no bounds |
| `conversions` | `ProvidersAgree`, `CallsComeBack`, `OutputsFollowCalls` of `Provider`; `WordsVisible` of `WebFetch` | three histories, three rounds, up to two items in each response: calls with and without text before, between and after; all pages of up to five tokens, the least that has a script and a word on either side, and a limit of three characters |
| `claim_shared_memory`, `claim_own_page` | statements of the documentation, which the code violates | as above, smaller |

`configuration` and `conversions` are of two specifications each, which share
nothing: a behaviour is of one of them, and the variables of the other stay as
they are.

The runs use symmetry where all properties are safety properties and the actors
are alike. `agent`, `chat_system`, `lifecycle`, `server_control`, `configuration` and
`conversions` do not check for deadlock: requests are finite, and the process, a
call, the dialogue, a conversation and a fetch end. The bounds that exist for TLC
only are `MaxLen` (`SessionStore`; in `chat_system` no log reaches it), `MaxCalls`
(`Agent`), `MaxIdle` (`Browser`: beyond it the code can no longer tell idle times
apart), `Chromes`, `MaxTokens` (`CodexAuth`: beyond it the server refuses; `WebFetch`:
the length of pages), `MaxCrashes`, `MaxFailures` and `MaxAgain` (`ChatSystem`),
`MaxItems` (`Provider`), `MaxSecond` (`ConfigFile`) and `MaxEdits` (`Config`).
`MaxMemory`, `MaxRounds` and `MaxRedirects` are constants of the code, with smaller
values here: two rounds in `agent` and three in `conversions` instead of four (a
third round is the first that follows outputs which followed outputs), two
redirects instead of five.

`FileUsable`, `OneSaver` and `LoadFailsForCause` are promised under rotation
only. With `Rotates = FALSE` and without that condition TLC finds two callers
that refresh with the same token and whose writes mix, after which the file is no
JSON: a hazard of the code, listed in `PROJECT.json`.

### Findings

* `claim_shared_memory`: the README lists shared memory across Telegram and
  WhatsApp; messages are written to the log "global", but a reply is built from
  the log of its own chat.
* `claim_own_page`: the description of `browser_browse` says that it returns the
  text of the URL it opened; calls share one tab, so a concurrent call may
  navigate between the `Navigate` and the `Evaluate` of another.

Further things the models show, which the properties had to except:

* `llm.history_messages` is in every configuration file and has a default, but
  `buildLLMMessages` sends the whole log of the chat; no code reads the setting.
* Backups are named by the second. Of two runs of the wizard in one second, even
  one after the other, the later overwrites the backup of the earlier, and the
  original configuration is gone (`FoundIsKept` and `NothingLost` except this).
* Once the input has ended, `promptRequired` without a default asks forever
  (`WizardEnds` excepts the two questions that use it).
* A configuration of which the wizard says that it looks complete is refused when
  the environment of the service lacks the API key (`WarnedOrStarts`).

### Fairness

* `Agent`: every goroutine that has started goes on (weak fairness of its
  steps). The runtime schedules goroutines, and the provider, the fetcher, the
  browser and the commands have timeouts. Messages need not arrive. (One call has
  no timeout: the token refresh under `Complete`.) The properties that are
  checked of `Agent` are safety properties and do not depend on it.
* `Browser`: strong fairness of each call that has begun and of `Close`, because
  both compete for a mutex that others take again and again; `sync.Mutex` hands
  itself to a starved waiter; and of the watchdog's two choices, since a select that finds both
  again and again takes each. That a start of Chrome ends is not assumed, because
  nothing in the code bounds it: `CallsReturn` has it as a premise (`StartsEnd`). A
  navigation has its deadline; `Tick` needs no fairness, since no step that is due
  waits for it.
* `Lifecycle`: weak fairness of `main`, of each runner, of the health server and
  of each handler. Signals and messages need not come.
* `Setup`: weak fairness of blank lines and of the saving. It is only used once the
  input has ended: then every line is blank, and `readLine` returns at once.
* The other modules have no liveness property and no fairness.

## The proofs

Eight modules prove every safety property that a run checks, and the type
invariants, for every value of the constants that meets the named assumptions: for
any number of callers, chats, messages, tokens, gateways and runs, pages and
conversations of any length, and any limits and timeouts.

| Module | Proves about |
|---|---|
| `SessionStore_proofs` | `SessionStore`, and that it implements `DurableLog` |
| `Agent_proofs` | `Agent`, `ChatSystem`, and that `ChatSystem` implements `SessionStore` |
| `Browser_proofs`, `Lifecycle_proofs`, `CodexAuth_proofs` | the module of that name |
| `ServerControl_proofs` | `ServerControl`, `AgentTools` |
| `Config_proofs` | `Config`, `Setup`, `ConfigFile` |
| `Conversions_proofs` | `Provider`, `WebFetch` |

The type invariants, and `LostOnlyInShutdown` and `NoWorkAfterClose` (`Lifecycle`),
`LinesBounded` (`ServerControl`) and `PathWhole` (`ConfigFile`), are proved and need no
run of their own.

* **SessionStore.** None of the properties is inductive. The invariant adds
  `CallInv`, about a call in progress: its session is not empty, the copy it
  carries and the file content it began with are prefixes of the session, and a
  temporary file is the copy or torn until it is complete. The proof rests on a
  few lemmas on prefixes. `StoreImplementsDurableLog` shows that each step is a
  step of `DurableLog` or leaves its state alone.
* **Agent.** `CountOK` says of each request how often its question and its answer
  are in the log of its chat and in the global one (never or once), as a function
  of where the request is; `OwnLog` that a log has the messages of its chat
  alone. Steps are sorted into those that call `AddMessage` (`Adds`) and the others
  (`Quiet`): `AddsMarks` shows that what a step adds is what the marks of its request
  say, and `StoreCounts` that other requests do not see it. `ConversationIsChatLog`
  needs in addition that logs only grow (`PrefixGrows`). For `StatusAddsUp`, whose three
  reads come one after the other, `StatusInv` says that what is counted never
  shrinks, and the total of the sessions' lengths is at least their number: the
  fold is bounded by induction on the size of the set it runs over. This needs
  `FiniteAssumption`, that only finitely many chats ever write.
* **ChatSystem.** `StoreStep`: every step of the composition is a step of
  `SessionStore` or leaves its state alone. So `ChatImplementsStore`, and what is
  proved of the store holds here (`ChatFilesWhole`). `ChatInv` relates the two
  parts: `RequestOK`, where a request is to the call of the store it waits for;
  `AnswersOK`, that no file, no copy and no log has an answer without its question
  before it; `FreshOK`, that behind what was loaded the log of a chat has the question of
  a request once when the request has added it and not before, and no answer until
  that is added, which makes `ContinuesFromDisk` inductive; `KeptOK`, that what a
  request has added stays in memory, in every copy being written and on disk. The last
  holds of requests that met no other request and no failure (`spoilt`), as long as
  every session was loaded again (`lost`), for which `RepliedIsSaved` is stated.
  `FileAssumption` is that of the store.
* **Browser.** `StartInv` says that the holder of the mutex is the one call that starts a
  Chrome, `UseInv` that the current browser has not been idle for longer than any call
  has been navigating in it, and `IdleInv` that past the timeout a tick is waiting or
  near, or the watchdog has taken one and asks for the mutex. `NotKilledInUse` follows from `UseInv` and `NavTimeout < IdleTimeout` (`IdleAssumption`), which
  the configuration may break by an idle timeout below 45 s.
* **Lifecycle.** `WaitInv` relates the wait group to the goroutines, `TrackerInv`
  the tracker to where each runner is, `HandlerInv` the handlers to their
  connection.
* **ServerControl.** The core is what a lookup selects: the last entry of the
  allow-list that writes the key (`LastWriterStays`), hence an entry of that name,
  and looking up what was selected selects it again. That needs
  `SuffixAssumption`, that no name ends in ".service.service".
* **AgentTools.** The invariant follows one call from the tool that it names to the
  operation of `ServerControl` it ends in: a lemma for each tool says which operation
  that is and with which name and lines. The lemmas under them say that a name the
  description lists is one that the lookup selects (`ListedIsSelected`), that lines
  are clamped as asked (`ClampAsAsked`), and that a chat command is a call
  (`CommandsAreCalls`), so that what holds of calls holds of commands. `ArgumentAssumption`,
  `IntAssumption` and `TextAssumption` say what arguments are and which texts read as
  numbers.
* **CodexAuth.** At most one refresh token is live (`OneLive`), and while a caller
  saves it is in its answer alone (`SaverHoldsToken`), so that what any other
  caller has read is refused. Therefore writes never overlap
  (`WritesToEmptyFile`), and the file is absent only for a cause
  (`AbsentForCause`).
* **ConfigFile.** Three arguments in one invariant. `TempWhole` and `PathOK`: only
  whole files are renamed. `Named` and `Truncated`: a backup has been opened by a
  run that names it, so that only a run of the same second can damage it, which
  gives `FoundIsKept`. For `NothingLost`, as long as runs do not overlap
  (`OneUnderWay`), the one under way replaces what it has copied (`ReplacesCopy`), so
  that what was in force is either still there or whole in that run's backup.
* **Config.** `NormalizeNormal` says what `Normalize` makes of any settings with
  integers for numbers; the invariant is that files and what is loaded are of
  these kinds.
* **Setup.** `SetupInv`: the list of a tool that is off is empty, and it is asked for only
  where the tool is on (`OffIsEmpty`); and the service has not started before the file
  is written. The proof goes through the dialogue question by question.
* **Provider.** Each format is brought to sequences of texts, calls and outputs by
  concatenating what its parts say, so the lemmas are about such a concatenation
  (`Gather`): of a sequence cut in two, of an empty part, of parts of one kind. The
  invariant says that the calls in the conversation are those the server made, in
  order (`SaidCalls`), that each has its output behind it with only calls and outputs
  between them (`Paired`), and that what is sent says the conversation.
* **WebFetch.** A sequence is told from its parts by their places (`PartOf`,
  `Split`). `RemoveLeaves` shows that the scan removes what lies in a shortest element
  and nothing else, and `SqueezeWords` and `TrimWords` that the rest of `stripHTML`
  loses no word and adds none; with `FetchInv`, what was fetched is that text cut at
  the limit.

What recursive functions and folds compute is proved without an induction theorem over
operators: `SetInduction` says that a set of numbers that has 0 and is closed under
successor has all, from the well-foundedness of `<`, and is used with the set of
lengths, or sizes, for which the statement holds.

Only model-checked are the liveness properties `CallsReturn`, `ShutdownCompletes`,
`FailureIsReported` and `WizardEnds`: TLAPS, as used here, proves no liveness under
fairness. The two findings are counterexamples of TLC.

## Not modelled

* `internal/version`: two constants.
* A login in another process while the service refreshes, and how long an
  access token lives: both depend on the server, of which the code says little.
* Pairing with WhatsApp by QR code: it prints, in a goroutine that nothing waits
  for.
* HTTP and JSON below the outcomes that the code distinguishes; the filter that
  `DockerPS` applies to its output; the texts of replies, prompts and logs; times
  in session files; where texts are cut inside a character.
* The parsing of flags in `main`.

## Plan

Done, in this order: `SessionStore` with `DurableLog`, `Agent`, `Browser`,
`Lifecycle`, `ServerControl`, `CodexAuth`; then `ConfigFile`, `Setup`, `Config`,
`ChatSystem`, `AgentTools`, `Provider`, `WebFetch`.

Then the proofs, in the same order.

What is left: a login in another process while `CodexAuth` refreshes; the lives of
tokens; the tool loop of `Agent` over `AgentTools`, so that a failure inside a
round has the effects of the calls before it.
