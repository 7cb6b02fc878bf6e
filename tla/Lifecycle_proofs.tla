-------------------------- MODULE Lifecycle_proofs --------------------------
(***************************************************************************)
(* Proofs about Lifecycle, for any gateways, messages and status requests. *)
(***************************************************************************)
EXTENDS Lifecycle, TLAPS

\* A goroutine that main has started and that has not returned is waited
\* for, and once main waits none is left to start.
WaitInv ==
  /\ \A p \in Runners : runner[p] \notin {"none", "done"} => p \in wg
  /\ main # "starting" => \A p \in enabled : runner[p] # "none"
  /\ main \in {"closing", "exited"} => wg = {}

\* What the tracker says agrees with where the runner is.
TrackerInv ==
  \A g \in Gateways :
    /\ running[g] => runner[g] \in {"start", "serving", "failed", "stopped"}
    /\ lastError[g] => runner[g] \in {"returning", "done"}

\* A handler at work has its connection, unless the process is to end.
HandlerInv ==
  /\ main \in {"joining", "closing", "exited"} => signalled
  /\ \A h \in Handlers :
       handler[h] \in {"processing", "sending"} => signalled \/ runner[via[h]] = "serving"

LifecycleInv ==
  WaitInv /\ TrackerInv /\ HandlerInv /\ StatusCoherent /\ LostOnlyInShutdown

-----------------------------------------------------------------------------
LEMMA TypeInit == Init => TypeOK
<1>1. SUFFICES ASSUME Init
               PROVE  TypeOK
  OBVIOUS
<1>2. shown \in [Readers -> [Gateways -> [running : BOOLEAN, error : BOOLEAN]]]
  BY <1>1 DEF Init
<1>3. QED
  BY <1>1, <1>2 DEF Init, TypeOK

LEMMA TypeStep ==
  ASSUME TypeOK, [Next]_vars
  PROVE  TypeOK'
<1> USE GatewayAssumption DEF TypeOK, Runners, Goto, HandlerGoto, tracker, requests
<1>1. CASE Main
  BY <1>1 DEF Main, Spawn, AllSpawned, SeeSignal, Join, Exit
<1>2. CASE Signal
  BY <1>2 DEF Signal
<1>3. ASSUME NEW g \in Gateways, RunGateway(g)
      PROVE  TypeOK'
  <2>1. CASE MarkRunning(g)
    BY <2>1 DEF MarkRunning
  <2>2. CASE Connect(g)
    BY <2>2 DEF Connect
  <2>3. CASE StartFails(g)
    BY <2>3 DEF StartFails
  <2>4. CASE Disconnect(g)
    BY <2>4 DEF Disconnect
  <2>5. CASE MarkStopped(g)
    BY <2>5 DEF MarkStopped
  <2>6. CASE RecordError(g)
    BY <2>6 DEF RecordError
  <2>7. CASE Done(g)
    BY <2>7 DEF Done
  <2>8. QED
    BY <1>3, <2>1, <2>2, <2>3, <2>4, <2>5, <2>6, <2>7 DEF RunGateway
<1>4. CASE RunHealth
  <2>1. CASE Listen
    BY <2>1 DEF Listen
  <2>2. CASE StopListening
    BY <2>2 DEF StopListening
  <2>3. CASE Done(HealthServer)
    BY <2>3 DEF Done
  <2>4. QED
    BY <1>4, <2>1, <2>2, <2>3 DEF RunHealth
<1>5. ASSUME NEW h \in Handlers, Handle(h) \/ ProcessReturns(h) \/ Send(h)
      PROVE  TypeOK'
  BY <1>5 DEF Handle, ProcessReturns, Send
<1>6. ASSUME NEW r \in Readers, CopyStates(r) \/ CallReady(r)
      PROVE  TypeOK'
  <2>1. CASE CopyStates(r)
    <3>1. [g \in Gateways |-> [running |-> running[g], error |-> lastError[g]]]
            \in [Gateways -> [running : BOOLEAN, error : BOOLEAN]]
      BY DEF TypeOK
    <3>2. shown' \in [Readers -> [Gateways -> [running : BOOLEAN, error : BOOLEAN]]]
      BY <2>1, <3>1 DEF CopyStates
    <3>3. reader' \in [Readers -> {"none", "copied", "ready", "not ready"}]
      BY <2>1 DEF CopyStates
    <3>4. QED
      BY <2>1, <3>2, <3>3 DEF CopyStates
  <2>2. CASE CallReady(r)
    <3>1. reader' \in [Readers -> {"none", "copied", "ready", "not ready"}]
      BY <2>2 DEF CallReady
    <3>2. QED
      BY <2>2, <3>1 DEF CallReady
  <2>3. QED
    BY <1>6, <2>1, <2>2
<1>7. CASE UNCHANGED vars
  BY <1>7 DEF vars
<1>8. QED
  BY <1>1, <1>2, <1>3, <1>4, <1>5, <1>6, <1>7 DEF Next

\* Every variable keeps its type.
THEOREM TypeCorrect == Spec => []TypeOK
<1>1. QED
  BY TypeInit, TypeStep, PTL DEF Spec

LEMMA InvInit == Init => LifecycleInv
BY DEF Init, LifecycleInv, WaitInv, TrackerInv, HandlerInv, StatusCoherent,
       LostOnlyInShutdown, Runners

LEMMA WaitStep ==
  ASSUME TypeOK, WaitInv, [Next]_vars
  PROVE  WaitInv'
<1> USE GatewayAssumption DEF TypeOK, WaitInv, Runners, Goto, HandlerGoto, tracker, requests
<1>1. CASE Main
  BY <1>1 DEF Main, Spawn, AllSpawned, SeeSignal, Join, Exit
<1>2. CASE Signal
  BY <1>2 DEF Signal
<1>3. ASSUME NEW g \in Gateways, RunGateway(g)
      PROVE  WaitInv'
  <2>1. CASE MarkRunning(g)
    BY <2>1 DEF MarkRunning
  <2>2. CASE Connect(g)
    BY <2>2 DEF Connect
  <2>3. CASE StartFails(g)
    <3>1. runner'[g] # "none" /\ \A p \in Runners \ {g} : runner'[p] = runner[p]
      BY <2>3 DEF StartFails
    <3>2. QED
      BY <2>3, <3>1 DEF StartFails
  <2>4. CASE Disconnect(g)
    BY <2>4 DEF Disconnect
  <2>5. CASE MarkStopped(g)
    BY <2>5 DEF MarkStopped
  <2>6. CASE RecordError(g)
    BY <2>6 DEF RecordError
  <2>7. CASE Done(g)
    BY <2>7 DEF Done
  <2>8. QED
    BY <1>3, <2>1, <2>2, <2>3, <2>4, <2>5, <2>6, <2>7 DEF RunGateway
<1>4. CASE RunHealth
  <2>1. CASE Listen
    BY <2>1 DEF Listen
  <2>2. CASE StopListening
    BY <2>2 DEF StopListening
  <2>3. CASE Done(HealthServer)
    BY <2>3 DEF Done
  <2>4. QED
    BY <1>4, <2>1, <2>2, <2>3 DEF RunHealth
<1>5. ASSUME NEW h \in Handlers, Handle(h) \/ ProcessReturns(h) \/ Send(h)
      PROVE  WaitInv'
  BY <1>5 DEF Handle, ProcessReturns, Send
<1>6. ASSUME NEW r \in Readers, CopyStates(r) \/ CallReady(r)
      PROVE  WaitInv'
  BY <1>6 DEF CopyStates, CallReady
<1>7. CASE UNCHANGED vars
  BY <1>7 DEF vars
<1>8. QED
  BY <1>1, <1>2, <1>3, <1>4, <1>5, <1>6, <1>7 DEF Next

LEMMA TrackerStep ==
  ASSUME TypeOK, TrackerInv, StatusCoherent, [Next]_vars
  PROVE  TrackerInv' /\ StatusCoherent'
<1> USE GatewayAssumption DEF TypeOK, TrackerInv, StatusCoherent, Runners, Goto,
                              HandlerGoto, tracker, requests
<1>1. CASE Main
  BY <1>1 DEF Main, Spawn, AllSpawned, SeeSignal, Join, Exit
<1>2. CASE Signal
  BY <1>2 DEF Signal
<1>3. ASSUME NEW g \in Gateways, RunGateway(g)
      PROVE  TrackerInv' /\ StatusCoherent'
  <2>1. CASE MarkRunning(g)
    BY <2>1 DEF MarkRunning
  <2>2. CASE Connect(g)
    BY <2>2 DEF Connect
  <2>3. CASE StartFails(g)
    BY <2>3 DEF StartFails
  <2>4. CASE Disconnect(g)
    BY <2>4 DEF Disconnect
  <2>5. CASE MarkStopped(g)
    BY <2>5 DEF MarkStopped
  <2>6. CASE RecordError(g)
    BY <2>6 DEF RecordError
  <2>7. CASE Done(g)
    BY <2>7 DEF Done
  <2>8. QED
    BY <1>3, <2>1, <2>2, <2>3, <2>4, <2>5, <2>6, <2>7 DEF RunGateway
<1>4. CASE RunHealth
  <2>1. CASE Listen
    BY <2>1 DEF Listen
  <2>2. CASE StopListening
    BY <2>2 DEF StopListening
  <2>3. CASE Done(HealthServer)
    BY <2>3 DEF Done
  <2>4. QED
    BY <1>4, <2>1, <2>2, <2>3 DEF RunHealth
<1>5. ASSUME NEW h \in Handlers, Handle(h) \/ ProcessReturns(h) \/ Send(h)
      PROVE  TrackerInv' /\ StatusCoherent'
  BY <1>5 DEF Handle, ProcessReturns, Send
<1>6. ASSUME NEW r \in Readers, CopyStates(r)
      PROVE  TrackerInv' /\ StatusCoherent'
  BY <1>6 DEF CopyStates
<1>7. ASSUME NEW r \in Readers, CallReady(r)
      PROVE  TrackerInv' /\ StatusCoherent'
  BY <1>7 DEF CallReady
<1>8. CASE UNCHANGED vars
  BY <1>8 DEF vars
<1>9. QED
  BY <1>1, <1>2, <1>3, <1>4, <1>5, <1>6, <1>7, <1>8 DEF Next

LEMMA HandlerStep ==
  ASSUME TypeOK, HandlerInv, LostOnlyInShutdown, [Next]_vars
  PROVE  HandlerInv' /\ LostOnlyInShutdown'
<1> USE GatewayAssumption DEF TypeOK, HandlerInv, LostOnlyInShutdown, Runners, Goto,
                              HandlerGoto, tracker, requests
<1>1. CASE Main
  <2>1. CASE \E p \in Runners : Spawn(p)
    <3>1. /\ UNCHANGED <<main, signalled, handler, via>>
          /\ \A p \in Runners : runner[p] = "serving" => runner'[p] = "serving"
      BY <2>1 DEF Spawn
    <3>2. QED
      BY <3>1
  <2>2. CASE AllSpawned
    BY <2>2 DEF AllSpawned
  <2>3. CASE SeeSignal
    BY <2>3 DEF SeeSignal
  <2>4. CASE Join
    BY <2>4 DEF Join
  <2>5. CASE Exit
    <3>1. signalled' /\ \A h \in Handlers : handler'[h] \notin {"processing", "sending"}
      BY <2>5 DEF Exit
    <3>2. QED
      BY <3>1
  <2>6. QED
    BY <1>1, <2>1, <2>2, <2>3, <2>4, <2>5 DEF Main
<1>2. CASE Signal
  BY <1>2 DEF Signal
<1>3. ASSUME NEW g \in Gateways, RunGateway(g)
      PROVE  HandlerInv' /\ LostOnlyInShutdown'
  <2>1. CASE MarkRunning(g)
    BY <2>1 DEF MarkRunning
  <2>2. CASE Connect(g)
    BY <2>2 DEF Connect
  <2>3. CASE StartFails(g)
    BY <2>3 DEF StartFails
  <2>4. CASE Disconnect(g)
    BY <2>4 DEF Disconnect
  <2>5. CASE MarkStopped(g)
    BY <2>5 DEF MarkStopped
  <2>6. CASE RecordError(g)
    BY <2>6 DEF RecordError
  <2>7. CASE Done(g)
    BY <2>7 DEF Done
  <2>8. QED
    BY <1>3, <2>1, <2>2, <2>3, <2>4, <2>5, <2>6, <2>7 DEF RunGateway
<1>4. CASE RunHealth
  <2>1. CASE Listen
    BY <2>1 DEF Listen
  <2>2. CASE StopListening
    BY <2>2 DEF StopListening
  <2>3. CASE Done(HealthServer)
    BY <2>3 DEF Done
  <2>4. QED
    BY <1>4, <2>1, <2>2, <2>3 DEF RunHealth
<1>5. ASSUME NEW h \in Handlers, Handle(h) \/ ProcessReturns(h) \/ Send(h)
      PROVE  HandlerInv' /\ LostOnlyInShutdown'
  <2>1. ASSUME NEW phase, HandlerGoto(h, phase), phase = "lost" => signalled,
               signalled \/ runner[via[h]] = "serving"
        PROVE  HandlerInv' /\ LostOnlyInShutdown'
    <3>1. /\ UNCHANGED <<main, signalled, runner, via>>
          /\ handler' = [handler EXCEPT ![h] = phase]
      BY <2>1
    <3>2. signalled' = signalled /\ main' = main /\ runner' = runner /\ via' = via
      BY <3>1
    <3>3. handler'[h] = phase /\ \A k \in Handlers : k # h => handler'[k] = handler[k]
      BY <3>1
    <3>4. phase = "lost" => signalled
      BY <2>1
    <3>5. LostOnlyInShutdown'
      <4>1. ASSUME NEW k \in Handlers, handler'[k] = "lost" PROVE signalled'
        BY <3>2, <3>3, <3>4, <4>1
      <4>2. QED
        BY <4>1
    <3>6. HandlerInv'
      <4>1. (main \in {"joining", "closing", "exited"} => signalled)'
        BY <3>2
      <4>2. ASSUME NEW k \in Handlers, handler'[k] \in {"processing", "sending"}
            PROVE  signalled' \/ runner'[via'[k]] = "serving"
        <5>1. CASE k = h
          <6>1. signalled \/ runner[via[h]] = "serving"
            BY <2>1
          <6>2. QED
            BY ONLY <3>2, <5>1, <6>1
        <5>2. CASE k # h
          <6>1. handler[k] \in {"processing", "sending"}
            BY <3>3, <4>2, <5>2
          <6>2. signalled \/ runner[via[k]] = "serving"
            BY <6>1
          <6>3. QED
            BY ONLY <3>2, <6>2
        <5>3. QED
          BY <5>1, <5>2
      <4>3. QED
        BY <4>1, <4>2
    <3>7. QED
      BY <3>5, <3>6
  <2>2. CASE Handle(h)
    BY <2>1, <2>2, Zenon DEF Handle
  <2>3. CASE ProcessReturns(h)
    <3>1. signalled \/ runner[via[h]] = "serving"
      BY <2>3 DEF ProcessReturns
    <3>2. HandlerGoto(h, "sending") \/ HandlerGoto(h, "answered")
      BY <2>3, Zenon DEF ProcessReturns
    <3> HIDE DEF HandlerGoto
    <3>3. QED
      BY <2>1, <3>1, <3>2
  <2>4. CASE Send(h)
    <3>1. signalled \/ runner[via[h]] = "serving"
      BY <2>4 DEF Send
    <3>2. ~ Connected(h) => signalled
      BY <3>1 DEF Connected
    <3>3. \/ HandlerGoto(h, "answered") \/ HandlerGoto(h, "unsent")
          \/ ~ Connected(h) /\ HandlerGoto(h, "lost")
      BY <2>4, Zenon DEF Send
    <3> HIDE DEF HandlerGoto
    <3>4. QED
      BY <2>1, <3>1, <3>2, <3>3
  <2>5. QED
    BY <1>5, <2>2, <2>3, <2>4
<1>6. ASSUME NEW r \in Readers, CopyStates(r) \/ CallReady(r)
      PROVE  HandlerInv' /\ LostOnlyInShutdown'
  BY <1>6 DEF CopyStates, CallReady
<1>7. CASE UNCHANGED vars
  BY <1>7 DEF vars
<1>8. QED
  BY <1>1, <1>2, <1>3, <1>4, <1>5, <1>6, <1>7 DEF Next

LEMMA LifecycleInvariant == Spec => [](TypeOK /\ LifecycleInv)
<1>1. Init => TypeOK /\ LifecycleInv
  BY TypeInit, InvInit
<1>2. TypeOK /\ LifecycleInv /\ [Next]_vars => (TypeOK /\ LifecycleInv)'
  BY TypeStep, WaitStep, TrackerStep, HandlerStep DEF LifecycleInv
<1>3. QED
  BY <1>1, <1>2, PTL DEF Spec

-----------------------------------------------------------------------------
(***************************************************************************)
(* The results                                                             *)
(***************************************************************************)
\* No status report shows a gateway that runs and has failed.
THEOREM StatusIsCoherent == Spec => []StatusCoherent
<1>1. LifecycleInv => StatusCoherent
  BY DEF LifecycleInv
<1>2. QED
  BY <1>1, LifecycleInvariant, PTL

\* The browser is closed only when all goroutines main started are gone.
THEOREM JoinWaitsForAll == Spec => []JoinedMeansStopped
<1>1. TypeOK /\ LifecycleInv => JoinedMeansStopped
  BY DEF TypeOK, LifecycleInv, WaitInv, TrackerInv, JoinedMeansStopped, Runners
<1>2. QED
  BY <1>1, LifecycleInvariant, PTL

\* A reply is lost only to a shutdown.
THEOREM RepliesLostOnlyInShutdown == Spec => []LostOnlyInShutdown
<1>1. LifecycleInv => LostOnlyInShutdown
  BY DEF LifecycleInv
<1>2. QED
  BY <1>1, LifecycleInvariant, PTL

\* No message is taken on when the browser is being closed.
THEOREM CloseEndsIntake == Spec => NoWorkAfterClose
<1>1. ASSUME TypeOK, LifecycleInv, [Next]_vars,
             NEW h \in Handlers, handler[h] = "none", handler'[h] # "none"
      PROVE  main \notin {"closing", "exited"}
  <2>1. PICK k \in Handlers : Handle(k) \/ ProcessReturns(k) \/ Send(k)
    BY <1>1 DEF Next, vars, Main, Spawn, AllSpawned, SeeSignal, Join, Exit, Signal,
                RunGateway, MarkRunning, Connect, StartFails, Disconnect, MarkStopped,
                RecordError, Done, RunHealth, Listen, StopListening, CopyStates,
                CallReady, requests
  <2>2. Handle(h)
    BY <1>1, <2>1 DEF Handle, ProcessReturns, Send, HandlerGoto, TypeOK
  <2>3. runner[via[h]] = "serving" /\ via[h] \in Runners
    BY <1>1, <2>2 DEF Handle, TypeOK, Runners
  <2>4. QED
    BY <1>1, <2>3 DEF LifecycleInv, WaitInv
<1>2. TypeOK /\ LifecycleInv /\ [Next]_vars =>
        [\A h \in Handlers : handler[h] = "none" /\ handler'[h] # "none"
           => main \notin {"closing", "exited"}]_vars
  BY <1>1
<1>3. QED
  BY <1>2, LifecycleInvariant, PTL DEF Spec, NoWorkAfterClose
=============================================================================
