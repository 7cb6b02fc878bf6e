----------------------------- MODULE Lifecycle -----------------------------
(***************************************************************************)
(* cmd/clawkangsar/main.go with internal/health and the Start and handle   *)
(* functions of the two gateways: how the process starts its goroutines,   *)
(* what the status tracker says of them, and how it shuts down.            *)
(*                                                                         *)
(* Main starts the health server and one runner per enabled gateway, waits *)
(* for a signal, then for those goroutines, closes the browser and exits.  *)
(* It does not wait for the handlers the gateways have started.            *)
(*                                                                         *)
(* The WaitGroup is the set of goroutines added to it and not yet done; an *)
(* error text is TRUE or FALSE, there being one or not.                    *)
(***************************************************************************)
EXTENDS Naturals, FiniteSets

CONSTANTS
  Gateways,     \* telegram and whatsapp
  MayFail,      \* gateways whose Start can return an error: whatsapp
  Cancelled,    \* gateways whose handlers get the signal context: telegram
  HealthServer, \* the goroutine of the health server
  Handlers,     \* messages that arrive, each handled by a goroutine
  Readers       \* requests for /status

ASSUME GatewayAssumption ==
  /\ MayFail \subseteq Gateways /\ Cancelled \subseteq Gateways
  /\ HealthServer \notin Gateways

VARIABLES
  main,        \* where main is
  signalled,   \* ctx is done
  wg,          \* goroutines that wg.Wait waits for
  enabled,     \* goroutines the configuration asks for
  runner,      \* where the goroutine of each gateway, or of the server, is
  running,     \* tracker.gateways[g].Running
  lastError,   \* tracker.gateways[g].LastError
  handler,     \* where each handler is
  via,         \* the gateway its message came by
  reader,      \* where each request for /status is
  shown        \* the gateways' states it has copied

vars == <<main, signalled, wg, enabled, runner, running, lastError, handler, via, reader, shown>>

tracker == <<running, lastError>>
requests == <<handler, via, reader, shown>>

Runners == Gateways \union {HealthServer}

TypeOK ==
  /\ main \in {"starting", "waiting", "joining", "closing", "exited"}
  /\ signalled \in BOOLEAN
  /\ wg \in SUBSET Runners
  /\ enabled \in SUBSET Runners
  /\ runner \in [Runners -> {"none", "new", "start", "serving", "failed", "unset", "stopped",
                             "returning", "done"}]
  /\ running \in [Gateways -> BOOLEAN]
  /\ lastError \in [Gateways -> BOOLEAN]
  /\ handler \in [Handlers -> {"none", "processing", "sending", "answered", "unsent", "lost"}]
  /\ via \in [Handlers -> Gateways]
  /\ reader \in [Readers -> {"none", "copied", "ready", "not ready"}]
  /\ shown \in [Readers -> [Gateways -> [running : BOOLEAN, error : BOOLEAN]]]

\* The configuration is loaded and the tracker made.
Init ==
  /\ main = "starting"
  /\ signalled = FALSE
  /\ wg = {}
  /\ enabled \in SUBSET Runners
  /\ runner = [p \in Runners |-> "none"]
  /\ running = [g \in Gateways |-> FALSE]
  /\ lastError = [g \in Gateways |-> FALSE]
  /\ handler = [h \in Handlers |-> "none"]
  /\ via \in [Handlers -> Gateways]
  /\ reader = [r \in Readers |-> "none"]
  /\ shown = [r \in Readers |-> [g \in Gateways |-> [running |-> FALSE, error |-> FALSE]]]

Up == main # "exited"

Goto(p, phase) == runner' = [runner EXCEPT ![p] = phase]

-----------------------------------------------------------------------------
(***************************************************************************)
(* main                                                                    *)
(***************************************************************************)
\* wg.Add(1), then the go statement.
Spawn(p) ==
  /\ main = "starting" /\ p \in enabled /\ runner[p] = "none"
  /\ wg' = wg \union {p}
  /\ Goto(p, "new")
  /\ UNCHANGED <<main, signalled, enabled, tracker, requests>>

AllSpawned ==
  /\ main = "starting" /\ \A p \in enabled : runner[p] # "none"
  /\ main' = "waiting"
  /\ UNCHANGED <<signalled, wg, enabled, runner, tracker, requests>>

\* SIGINT or SIGTERM; the context is cancelled whatever main is doing.
Signal ==
  /\ ~ signalled /\ Up
  /\ signalled' = TRUE
  /\ UNCHANGED <<main, wg, enabled, runner, tracker, requests>>

SeeSignal ==
  /\ main = "waiting" /\ signalled
  /\ main' = "joining"
  /\ UNCHANGED <<signalled, wg, enabled, runner, tracker, requests>>

\* A variant with a bug: main does not wait.
JoinAtOnce ==
  /\ main = "joining"
  /\ main' = "closing"
  /\ UNCHANGED <<signalled, wg, enabled, runner, tracker, requests>>

\* wg.Wait() returns, and the deferred browser.Close() begins.
Join ==
  /\ main = "joining" /\ wg = {}
  /\ main' = "closing"
  /\ UNCHANGED <<signalled, wg, enabled, runner, tracker, requests>>

\* main returns, and with it every handler that is still at work.
Exit ==
  /\ main = "closing"
  /\ main' = "exited"
  /\ handler' = [h \in Handlers |->
                   IF handler[h] \in {"processing", "sending"} THEN "lost" ELSE handler[h]]
  /\ UNCHANGED <<signalled, wg, enabled, runner, tracker, via, reader, shown>>

(***************************************************************************)
(* The runner of a gateway                                                 *)
(***************************************************************************)
\* tracker.setRunning(name, true), before Start is called.
MarkRunning(g) ==
  /\ runner[g] = "new"
  /\ running' = [running EXCEPT ![g] = TRUE]
  /\ lastError' = [lastError EXCEPT ![g] = FALSE]
  /\ Goto(g, "start")
  /\ UNCHANGED <<main, signalled, wg, enabled, requests>>

\* Start has the gateway connected, and waits for the context.
Connect(g) ==
  /\ runner[g] = "start"
  /\ Goto(g, "serving")
  /\ UNCHANGED <<main, signalled, wg, enabled, tracker, requests>>

\* Start returns an error: of its own, or that the context was cancelled.
StartFails(g) ==
  /\ runner[g] = "start" /\ g \in MayFail
  /\ \/ Goto(g, "failed")
     \/ signalled /\ Goto(g, "stopped")
  /\ UNCHANGED <<main, signalled, wg, enabled, tracker, requests>>

\* The context is done: Start disconnects and returns nil.
Disconnect(g) ==
  /\ runner[g] = "serving" /\ signalled
  /\ Goto(g, "stopped")
  /\ UNCHANGED <<main, signalled, wg, enabled, tracker, requests>>

\* A variant with a bug: the error of Start is ignored.
MarkStoppedOnly(g) ==
  /\ runner[g] \in {"failed", "stopped"}
  /\ running' = [running EXCEPT ![g] = FALSE]
  /\ Goto(g, "returning")
  /\ UNCHANGED <<main, signalled, wg, enabled, lastError, requests>>

\* A variant with a bug: setError comes before setRunning(name, false).
MarkStoppedLast(g) ==
  /\ runner[g] \in {"failed", "stopped"}
  /\ IF runner[g] = "failed"
     THEN lastError' = [lastError EXCEPT ![g] = TRUE] /\ Goto(g, "stopped") /\ UNCHANGED running
     ELSE running' = [running EXCEPT ![g] = FALSE] /\ Goto(g, "returning") /\ UNCHANGED lastError
  /\ UNCHANGED <<main, signalled, wg, enabled, requests>>

\* tracker.setRunning(name, false), and after a failure setError, each under
\* the tracker's lock.
MarkStopped(g) ==
  /\ runner[g] \in {"failed", "stopped"}
  /\ running' = [running EXCEPT ![g] = FALSE]
  /\ Goto(g, IF runner[g] = "failed" THEN "unset" ELSE "returning")
  /\ UNCHANGED <<main, signalled, wg, enabled, lastError, requests>>

RecordError(g) ==
  /\ runner[g] = "unset"
  /\ lastError' = [lastError EXCEPT ![g] = TRUE]
  /\ Goto(g, "returning")
  /\ UNCHANGED <<main, signalled, wg, enabled, running, requests>>

\* A variant with a bug: the health server's goroutine has no wg.Done().
DoneOfGateway(p) ==
  /\ runner[p] = "returning"
  /\ wg' = wg \ ({p} \intersect Gateways)
  /\ Goto(p, "done")
  /\ UNCHANGED <<main, signalled, enabled, tracker, requests>>

\* The deferred wg.Done(), of a gateway's runner or of the health server's.
Done(p) ==
  /\ runner[p] = "returning"
  /\ wg' = wg \ {p}
  /\ Goto(p, "done")
  /\ UNCHANGED <<main, signalled, enabled, tracker, requests>>

(***************************************************************************)
(* The health server                                                       *)
(***************************************************************************)
Listen ==
  /\ runner[HealthServer] = "new"
  /\ Goto(HealthServer, "serving")
  /\ UNCHANGED <<main, signalled, wg, enabled, tracker, requests>>

\* The address is taken, or Shutdown was called: ListenAndServe returns at
\* once, without waiting for the requests that Shutdown waits for.
StopListening ==
  /\ \/ runner[HealthServer] = "new"
     \/ runner[HealthServer] = "serving" /\ signalled
  /\ Goto(HealthServer, "returning")
  /\ UNCHANGED <<main, signalled, wg, enabled, tracker, requests>>

\* tracker.snapshot copies the gateways' states under the read lock ...
CopyStates(r) ==
  /\ Up /\ reader[r] = "none" /\ runner[HealthServer] = "serving"
  /\ shown' = [shown EXCEPT ![r] =
                 [g \in Gateways |-> [running |-> running[g], error |-> lastError[g]]]]
  /\ reader' = [reader EXCEPT ![r] = "copied"]
  /\ UNCHANGED <<main, signalled, wg, enabled, runner, tracker, handler, via>>

\* ... and calls tracker.ready, which takes the lock again.
Ready == enabled \intersect Gateways = {} \/ \E g \in Gateways : running[g]

CallReady(r) ==
  /\ Up /\ reader[r] = "copied"
  /\ reader' = [reader EXCEPT ![r] = IF Ready THEN "ready" ELSE "not ready"]
  /\ UNCHANGED <<main, signalled, wg, enabled, runner, tracker, handler, via, shown>>

(***************************************************************************)
(* Handlers                                                                *)
(***************************************************************************)
HandlerGoto(h, phase) ==
  /\ handler' = [handler EXCEPT ![h] = phase]
  /\ UNCHANGED <<main, signalled, wg, enabled, runner, tracker, via, reader, shown>>

\* A connected gateway starts a goroutine for a message it has received.  A
\* Telegram user who is not allowed is answered without further processing.
Handle(h) ==
  /\ handler[h] = "none" /\ runner[via[h]] = "serving"
  /\ \/ HandlerGoto(h, "processing")
     \/ via[h] \in Cancelled /\ HandlerGoto(h, "sending")

\* Process returns a reply or an error, which is answered too, or nothing.
ProcessReturns(h) ==
  /\ Up /\ handler[h] = "processing"
  /\ HandlerGoto(h, "sending") \/ HandlerGoto(h, "answered")

\* SendMessage needs the connection, and for Telegram a context not done.  With
\* both it may fail all the same: the error is logged, and the reply not sent.
Connected(h) == runner[via[h]] = "serving" /\ ~ (signalled /\ via[h] \in Cancelled)

Send(h) ==
  /\ Up /\ handler[h] = "sending"
  /\ \/ Connected(h) /\ (HandlerGoto(h, "answered") \/ HandlerGoto(h, "unsent"))
     \/ ~ Connected(h) /\ HandlerGoto(h, "lost")

-----------------------------------------------------------------------------
RunGateway(g) == \/ MarkRunning(g) \/ Connect(g) \/ StartFails(g) \/ Disconnect(g)
                 \/ MarkStopped(g) \/ RecordError(g) \/ Done(g)

RunHealth == Listen \/ StopListening \/ Done(HealthServer)

Main == (\E p \in Runners : Spawn(p)) \/ AllSpawned \/ SeeSignal \/ Join \/ Exit

Next == \/ Main
        \/ Signal
        \/ \E g \in Gateways : RunGateway(g)
        \/ RunHealth
        \/ \E h \in Handlers : Handle(h) \/ ProcessReturns(h) \/ Send(h)
        \/ \E r \in Readers : CopyStates(r) \/ CallReady(r)

\* Goroutines are scheduled; connecting, disconnecting, sending and Process
\* take bounded time.  Neither a signal nor a message need ever come.
Fairness ==
  /\ WF_vars(Main)
  /\ \A g \in Gateways : WF_vars(RunGateway(g))
  /\ WF_vars(RunHealth)
  /\ \A h \in Handlers : WF_vars(ProcessReturns(h) \/ Send(h))

Spec == Init /\ [][Next]_vars /\ Fairness

-----------------------------------------------------------------------------
(***************************************************************************)
(* Properties                                                              *)
(***************************************************************************)
\* No status report shows a gateway that runs and has failed: the runner
\* clears Running before it sets LastError, and the tracker's lock keeps a
\* report from reading one before and the other after.
StatusCoherent ==
  \A r \in Readers, g \in Gateways : ~ (shown[r][g].running /\ shown[r][g].error)

\* When the browser is closed every goroutine main has started is gone, no
\* gateway is connected, and the tracker says so.
JoinedMeansStopped ==
  main \in {"closing", "exited"} =>
    /\ \A p \in enabled : runner[p] = "done"
    /\ \A g \in Gateways : ~ running[g]

\* After that no message is taken on: the tools that Close has shut down are
\* at most used by requests that were accepted before.
NoWorkAfterClose ==
  [][\A h \in Handlers : handler[h] = "none" /\ handler'[h] # "none"
       => main \notin {"closing", "exited"}]_vars

\* Apart from what the network refuses, a reply is lost only when the process
\* is shutting down: while it is not, a gateway that accepted a message is
\* connected when its reply is due.
LostOnlyInShutdown ==
  \A h \in Handlers : handler[h] = "lost" => signalled

\* A signal ends the process, whenever it comes.
ShutdownCompletes == signalled ~> main = "exited"

\* A gateway that failed ends up with its error in the status.
FailureIsReported == \A g \in Gateways : runner[g] = "failed" ~> lastError[g]
=============================================================================
