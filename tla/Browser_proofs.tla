--------------------------- MODULE Browser_proofs ---------------------------
(***************************************************************************)
(* Proofs about Browser, for any number of calls and any timeouts with     *)
(* NavTimeout < IdleTimeout.                                               *)
(***************************************************************************)
EXTENDS Browser, TLAPS

\* The holder of the mutex is the one call that starts a Chrome, and while
\* it does there is no browser.
StartInv ==
  /\ holder # None => pc[holder] = "starting" /\ current = None
  /\ \A c \in Calls : pc[c] = "starting" => holder = c

\* A call that navigates has a context, and if that of the current browser,
\* the browser has been idle no longer than the call has navigated.
UseInv ==
  \A c \in Calls :
    /\ pc[c] \in {"starting", "navigate", "evaluate"} => ctx[c] # None
    /\ Navigating(c) /\ ctx[c] = current => idleFor <= navAge[c]

\* Past the timeout a tick is waiting, or the watchdog has taken one and asks
\* for the mutex, or the next tick is less than a period after the moment the
\* timeout ran out.
IdleInv ==
  watchdog # "stopped" /\ current # None =>
    /\ idleFor < MaxIdle
    /\ idleFor < IdleTimeout \/ tick \/ watchdog = "killing" \/ idleFor + untilTick < MaxIdle

BrowserInv == StartInv /\ NoStrayChrome /\ UseInv /\ IdleInv

-----------------------------------------------------------------------------
LEMMA TypeInit == Init => TypeOK
<1>1. SUFFICES ASSUME Init
               PROVE  TypeOK
  OBVIOUS
<1>2. 0 \in 0 .. MaxIdle /\ 0 \in 0 .. NavTimeout /\ Period \in 1 .. Period
  BY TimeAssumption DEF MaxIdle
<1>3. QED
  BY <1>1, <1>2 DEF Init, TypeOK, Phases

LEMMA TypeStep ==
  ASSUME TypeOK, [Next]_vars
  PROVE  TypeOK'
<1> USE TimeAssumption DEF TypeOK, Phases, Goto, clock, MaxIdle
<1>1. ASSUME NEW c \in Calls, Browse(c)
      PROVE  TypeOK'
  <2>1. CASE Reuse(c)
    BY <2>1 DEF Reuse
  <2>2. CASE Launch(c)
    BY <2>2 DEF Launch
  <2>3. CASE Started(c)
    BY <2>3 DEF Started
  <2>4. CASE StartFails(c)
    BY <2>4 DEF StartFails
  <2>5. CASE Navigate(c)
    BY <2>5 DEF Navigate
  <2>6. CASE Evaluate(c)
    BY <2>6 DEF Evaluate
  <2>7. CASE NavigationFails(c)
    BY <2>7 DEF NavigationFails
  <2>8. CASE Touch(c)
    BY <2>8 DEF Touch
  <2>9. CASE Begin(c)
    BY <2>9 DEF Begin
  <2>10. QED
    BY <1>1, <2>1, <2>2, <2>3, <2>4, <2>5, <2>6, <2>7, <2>8, <2>9 DEF Browse
<1>2. CASE Watchdog
  <2>1. CASE KillIfIdle
    <3>1. /\ current' \in Chromes \union {None} /\ live' \in SUBSET Chromes
          /\ idleFor' \in 0 .. MaxIdle
      BY <2>1 DEF KillIfIdle, Kill
    <3>2. QED
      BY <2>1, <3>1 DEF KillIfIdle
  <2>2. CASE TakeTick
    BY <2>2 DEF TakeTick
  <2>3. CASE WatchdogStops
    BY <2>3 DEF WatchdogStops
  <2>4. QED
    BY <1>2, <2>1, <2>2, <2>3 DEF Watchdog
<1>3. CASE Close
  <2>1. CASE BeginClose
    BY <2>1 DEF BeginClose
  <2>2. CASE FinishClose
    BY <2>2 DEF FinishClose, Kill
  <2>3. QED
    BY <1>3, <2>1, <2>2 DEF Close
<1>4. CASE ChromeDies
  <2>1. live' \in SUBSET Chromes
    BY <1>4 DEF ChromeDies
  <2>2. QED
    BY <1>4, <2>1 DEF ChromeDies
<1>5. CASE Tick
  <2>1. idleFor' \in 0 .. MaxIdle /\ untilTick' \in 1 .. Period /\ tick' \in BOOLEAN
    BY <1>5 DEF Tick
  <2>2. navAge' \in [Calls -> 0 .. NavTimeout]
    BY <1>5 DEF Tick, NothingDue
  <2>3. QED
    BY <1>5, <2>1, <2>2 DEF Tick
<1>6. CASE UNCHANGED vars
  BY <1>6 DEF vars
<1>7. QED
  BY <1>1, <1>2, <1>3, <1>4, <1>5, <1>6 DEF Next

\* Every variable keeps its type; the ages stay within their limits, so no
\* navigation outlasts its deadline.
THEOREM TypeCorrect == Spec => []TypeOK
<1>1. QED
  BY TypeInit, TypeStep, PTL DEF Spec

-----------------------------------------------------------------------------
LEMMA InvInit == Init => BrowserInv
<1>1. SUFFICES ASSUME Init
               PROVE  BrowserInv
  OBVIOUS
<1>2. StartInv /\ NoStrayChrome /\ UseInv /\ IdleInv
  BY <1>1 DEF Init, StartInv, NoStrayChrome, UseInv, IdleInv, Navigating
<1>3. QED
  BY <1>2 DEF BrowserInv

\* acquireBrowser: the steps that take or leave the mutex with a Chrome.
LEMMA AcquireKeeps ==
  ASSUME TypeOK, BrowserInv, NEW c \in Calls,
         Reuse(c) \/ Launch(c) \/ Started(c) \/ StartFails(c)
  PROVE  BrowserInv'
<1> USE NameAssumption, TimeAssumption DEF TypeOK, Goto, clock, MutexFree, Navigating
<1>1. CASE Reuse(c)
  <2>1. StartInv'
    BY <1>1 DEF Reuse, BrowserInv, StartInv
  <2>2. NoStrayChrome'
    BY <1>1 DEF Reuse, BrowserInv, NoStrayChrome
  <2>3. UseInv'
    BY <1>1 DEF Reuse, BrowserInv, UseInv
  <2>4. IdleInv'
    BY <1>1 DEF Reuse, BrowserInv, IdleInv, MaxIdle
  <2>5. QED
    BY <2>1, <2>2, <2>3, <2>4 DEF BrowserInv
<1>2. CASE Launch(c)
  <2>1. PICK x \in Chromes : live' = live \union {x} /\ ctx' = [ctx EXCEPT ![c] = x]
    BY <1>2 DEF Launch
  <2>2. StartInv'
    BY <1>2 DEF Launch, BrowserInv, StartInv
  <2>3. live = {}
    BY <1>2 DEF Launch, BrowserInv, NoStrayChrome
  <2>4. NoStrayChrome'
    BY <1>2, <2>1, <2>3 DEF Launch, NoStrayChrome
  <2>5. UseInv'
    BY <1>2, <2>1 DEF Launch, BrowserInv, UseInv
  <2>6. IdleInv'
    BY <1>2 DEF Launch, IdleInv
  <2>7. QED
    BY <2>2, <2>4, <2>5, <2>6 DEF BrowserInv
<1>3. CASE Started(c)
  <2>1. holder = c
    BY <1>3 DEF Started, BrowserInv, StartInv
  <2>2. StartInv'
    BY <1>3, <2>1 DEF Started, BrowserInv, StartInv
  <2>3. NoStrayChrome'
    BY <1>3, <2>1 DEF Started, BrowserInv, NoStrayChrome, StartInv
  <2>4. UseInv'
    BY <1>3 DEF Started, BrowserInv, UseInv
  <2>5. IdleInv'
    BY <1>3 DEF Started, IdleInv, MaxIdle
  <2>6. QED
    BY <2>2, <2>3, <2>4, <2>5 DEF BrowserInv
<1>4. CASE StartFails(c)
  <2>1. holder = c /\ current = None
    BY <1>4 DEF StartFails, BrowserInv, StartInv
  <2>2. StartInv'
    BY <1>4, <2>1 DEF StartFails, BrowserInv, StartInv
  <2>3. live' = {}
    BY <1>4, <2>1 DEF StartFails, BrowserInv, NoStrayChrome
  <2>4. NoStrayChrome'
    BY <2>3 DEF NoStrayChrome
  <2>5. UseInv'
    BY <1>4, <2>1 DEF StartFails, BrowserInv, UseInv
  <2>6. IdleInv'
    BY <1>4, <2>1 DEF StartFails, IdleInv
  <2>7. QED
    BY <2>2, <2>4, <2>5, <2>6 DEF BrowserInv
<1>5. QED
  BY <1>1, <1>2, <1>3, <1>4

\* The other steps of Browse change neither the Chromes nor the holder.
LEMMA NavigateKeeps ==
  ASSUME TypeOK, BrowserInv, NEW c \in Calls,
         Begin(c) \/ Navigate(c) \/ Evaluate(c) \/ NavigationFails(c) \/ Touch(c)
  PROVE  BrowserInv'
<1> USE NameAssumption, TimeAssumption DEF TypeOK, Goto, clock, MutexFree, Navigating
<1>1. CASE Touch(c)
  <2>1. StartInv'
    BY <1>1 DEF Touch, BrowserInv, StartInv
  <2>2. NoStrayChrome'
    BY <1>1 DEF Touch, BrowserInv, NoStrayChrome
  <2>3. UseInv'
    BY <1>1 DEF Touch, BrowserInv, UseInv
  <2>4. IdleInv'
    BY <1>1 DEF Touch, BrowserInv, IdleInv, MaxIdle
  <2>5. QED
    BY <2>1, <2>2, <2>3, <2>4 DEF BrowserInv
<1>2. CASE Begin(c) \/ Navigate(c) \/ Evaluate(c) \/ NavigationFails(c)
  <2>1. StartInv'
    BY <1>2 DEF Begin, Navigate, Evaluate, NavigationFails, BrowserInv, StartInv
  <2>2. NoStrayChrome'
    BY <1>2 DEF Begin, Navigate, Evaluate, NavigationFails, BrowserInv, NoStrayChrome
  <2>3. UseInv'
    BY <1>2 DEF Begin, Navigate, Evaluate, NavigationFails, BrowserInv, UseInv
  <2>4. IdleInv'
    BY <1>2 DEF Begin, Navigate, Evaluate, NavigationFails, BrowserInv, IdleInv
  <2>5. QED
    BY <2>1, <2>2, <2>3, <2>4 DEF BrowserInv
<1>3. QED
  BY <1>1, <1>2

LEMMA KillIfIdleKeeps ==
  ASSUME TypeOK, BrowserInv, KillIfIdle
  PROVE  BrowserInv'
<1> USE NameAssumption, TimeAssumption DEF TypeOK, MutexFree, Navigating
<1>1. CASE Kill
  <2>1. live' = {}
    BY <1>1 DEF KillIfIdle, Kill, BrowserInv, NoStrayChrome
  <2>2. current' = None /\ holder' = None
    BY <1>1 DEF KillIfIdle, Kill
  <2>3. StartInv' /\ NoStrayChrome' /\ UseInv' /\ IdleInv'
    BY <2>1, <2>2 DEF KillIfIdle, BrowserInv, StartInv, NoStrayChrome, UseInv, IdleInv
  <2>4. QED
    BY <2>3 DEF BrowserInv
<1>2. CASE (current = None \/ idleFor < IdleTimeout) /\ UNCHANGED <<current, live, idleFor>>
  <2>1. StartInv' /\ NoStrayChrome' /\ UseInv'
    BY <1>2 DEF KillIfIdle, BrowserInv, StartInv, NoStrayChrome, UseInv
  <2>2. IdleInv'
    BY <1>2 DEF KillIfIdle, BrowserInv, IdleInv
  <2>3. QED
    BY <2>1, <2>2 DEF BrowserInv
<1>3. QED
  BY <1>1, <1>2 DEF KillIfIdle

\* The steps of the watchdog and of Close without the mutex.
LEMMA StopKeeps ==
  ASSUME TypeOK, BrowserInv, TakeTick \/ WatchdogStops \/ BeginClose
  PROVE  BrowserInv'
<1>1. StartInv' /\ NoStrayChrome' /\ UseInv'
  BY DEF TakeTick, WatchdogStops, BeginClose, clock, Navigating,
         BrowserInv, StartInv, NoStrayChrome, UseInv
<1>2. IdleInv'
  BY DEF TakeTick, WatchdogStops, BeginClose, clock, BrowserInv, IdleInv
<1>3. QED
  BY <1>1, <1>2 DEF BrowserInv

LEMMA FinishCloseKeeps ==
  ASSUME TypeOK, BrowserInv, FinishClose
  PROVE  BrowserInv'
<1> USE NameAssumption DEF TypeOK, MutexFree, Navigating, clock
<1>1. live' = {}
  BY DEF FinishClose, Kill, BrowserInv, NoStrayChrome
<1>2. current' = None /\ holder' = None
  BY DEF FinishClose, Kill
<1>3. StartInv' /\ NoStrayChrome' /\ UseInv' /\ IdleInv'
  BY <1>1, <1>2 DEF FinishClose, BrowserInv, StartInv, NoStrayChrome, UseInv, IdleInv
<1>4. QED
  BY <1>3 DEF BrowserInv

LEMMA ChromeDiesKeeps ==
  ASSUME TypeOK, BrowserInv, ChromeDies
  PROVE  BrowserInv'
<1>1. live' \subseteq live
  BY DEF ChromeDies
<1>2. NoStrayChrome'
  BY <1>1 DEF ChromeDies, BrowserInv, NoStrayChrome
<1>3. StartInv' /\ UseInv' /\ IdleInv'
  BY DEF ChromeDies, clock, BrowserInv, StartInv, UseInv, IdleInv, Navigating
<1>4. QED
  BY <1>2, <1>3 DEF BrowserInv

LEMMA TickKeeps ==
  ASSUME TypeOK, BrowserInv, Tick
  PROVE  BrowserInv'
<1> USE NameAssumption, TimeAssumption DEF TypeOK, MaxIdle
<1>1. StartInv' /\ NoStrayChrome'
  BY DEF Tick, BrowserInv, StartInv, NoStrayChrome
<1>2. UseInv'
  <2>1. SUFFICES ASSUME NEW c \in Calls
                 PROVE  /\ pc[c] \in {"starting", "navigate", "evaluate"} => ctx[c] # None
                        /\ Navigating(c) /\ ctx[c] = current => idleFor' <= navAge'[c]
    BY DEF Tick, UseInv, Navigating
  <2>2. pc[c] \in {"starting", "navigate", "evaluate"} => ctx[c] # None
    BY DEF BrowserInv, UseInv
  <2>3. ASSUME Navigating(c), ctx[c] = current
        PROVE  idleFor' <= navAge'[c]
    <3>1. idleFor <= navAge[c]
      BY <2>3 DEF BrowserInv, UseInv
    <3>2. navAge'[c] = navAge[c] + 1
      BY <2>3 DEF Tick
    <3>3. idleFor' <= idleFor + 1
      BY DEF Tick
    <3>4. QED
      BY <3>1, <3>2, <3>3 DEF Tick
  <2>4. QED
    BY <2>2, <2>3
<1>3. IdleInv'
  <2>1. SUFFICES ASSUME watchdog # "stopped", current # None
                 PROVE  /\ idleFor' < MaxIdle
                        /\ idleFor' < IdleTimeout \/ tick' \/ idleFor' + untilTick' < MaxIdle
    BY DEF Tick, IdleInv
  <2>2. holder = None
    BY <2>1 DEF BrowserInv, StartInv
  <2>3. watchdog # "killing" /\ ~ tick
    BY <2>1, <2>2 DEF Tick, NothingDue, MutexFree
  <2>4. idleFor < IdleTimeout \/ idleFor + untilTick < MaxIdle
    BY <2>1, <2>3 DEF BrowserInv, IdleInv
  <2>5. idleFor < MaxIdle /\ idleFor' = idleFor + 1
    BY <2>1 DEF Tick, BrowserInv, IdleInv
  <2>6. CASE untilTick = 1
    <3>1. idleFor + 1 < MaxIdle
      BY <2>4, <2>6
    <3>2. tick'
      BY <2>1, <2>6, Zenon DEF Tick
    <3>3. QED
      BY <2>5, <3>1, <3>2
  <2>7. CASE untilTick > 1
    <3>1. untilTick' = untilTick - 1
      BY <2>1, <2>7 DEF Tick
    <3>2. QED
      BY <2>4, <2>5, <2>7, <3>1
  <2>8. QED
    BY <2>6, <2>7
<1>4. QED
  BY <1>1, <1>2, <1>3 DEF BrowserInv

LEMMA InvStep ==
  ASSUME TypeOK, BrowserInv, [Next]_vars
  PROVE  BrowserInv'
<1>1. ASSUME NEW c \in Calls, Browse(c)
      PROVE  BrowserInv'
  BY <1>1, AcquireKeeps, NavigateKeeps DEF Browse
<1>2. CASE Watchdog
  BY <1>2, KillIfIdleKeeps, StopKeeps DEF Watchdog
<1>3. CASE Close
  BY <1>3, StopKeeps, FinishCloseKeeps DEF Close
<1>4. CASE ChromeDies
  BY <1>4, ChromeDiesKeeps
<1>5. CASE Tick
  BY <1>5, TickKeeps
<1>6. CASE UNCHANGED vars
  BY <1>6 DEF vars, BrowserInv, StartInv, NoStrayChrome, UseInv, IdleInv, Navigating
<1>7. QED
  BY <1>1, <1>2, <1>3, <1>4, <1>5, <1>6 DEF Next

LEMMA BrowserInvariant == Spec => [](TypeOK /\ BrowserInv)
<1>1. Init => TypeOK /\ BrowserInv
  BY TypeInit, InvInit
<1>2. TypeOK /\ BrowserInv /\ [Next]_vars => (TypeOK /\ BrowserInv)'
  BY TypeStep, InvStep
<1>3. QED
  BY <1>1, <1>2, PTL DEF Spec

-----------------------------------------------------------------------------
(***************************************************************************)
(* The results                                                             *)
(***************************************************************************)
\* At most one Chrome runs, and the tool can still kill it.
THEOREM ChromeIsKnown == Spec => []NoStrayChrome
<1>1. BrowserInv => NoStrayChrome
  BY DEF BrowserInv
<1>2. QED
  BY <1>1, BrowserInvariant, PTL

\* An unused browser is gone within a period of the watchdog after the
\* timeout.
THEOREM IdleBrowserIsKilled == Spec => []IdleBrowserKilled
<1>1. BrowserInv => IdleBrowserKilled
  BY DEF BrowserInv, IdleInv, IdleBrowserKilled
<1>2. QED
  BY <1>1, BrowserInvariant, PTL

\* With an idle timeout above the navigation deadline, the watchdog never
\* kills the browser a call is navigating with.
THEOREM NavigationIsSafe == Spec => NotKilledInUse
<1>1. ASSUME TypeOK, BrowserInv, [Next]_vars,
             NEW c \in Calls, Navigating(c), ctx[c] = current, current' # current
      PROVE  close' = "closed"
  <2>1. current # None
    BY <1>1 DEF BrowserInv, UseInv, Navigating
  <2>2. ~ (KillIfIdle /\ Kill)
    <3>1. navAge[c] <= NavTimeout /\ idleFor <= navAge[c]
      BY <1>1 DEF BrowserInv, UseInv, TypeOK
    <3>2. idleFor < IdleTimeout
      BY <1>1, <3>1, IdleAssumption, TimeAssumption DEF TypeOK, MaxIdle
    <3>3. QED
      BY <1>1, <2>1, <3>2, TimeAssumption DEF KillIfIdle, Kill, TypeOK, MaxIdle
  <2>3. ~ \E d \in Calls : Browse(d)
    BY <1>1, <2>1, NameAssumption DEF Browse, Begin, Reuse, Launch, Started, StartFails, Navigate,
                      Evaluate, NavigationFails, Touch, BrowserInv, StartInv
  <2>4. FinishClose
    BY <1>1, <2>2, <2>3 DEF Next, vars, Watchdog, TakeTick, KillIfIdle, WatchdogStops,
                            Close, BeginClose, ChromeDies, Tick
  <2>5. QED
    BY <2>4 DEF FinishClose
<1>2. TypeOK /\ BrowserInv /\ [Next]_vars =>
        [\A c \in Calls :
           Navigating(c) /\ ctx[c] = current /\ current' # current => close' = "closed"]_vars
  BY <1>1
<1>3. QED
  BY <1>2, BrowserInvariant, PTL DEF Spec, NotKilledInUse

\* When Close has killed the browser, no Chrome is left.
THEOREM CloseIsClean == Spec => CloseKillsChrome
<1>1. ASSUME TypeOK, BrowserInv, [Next]_vars, close # "closed", close' = "closed"
      PROVE  live' = {}
  <2>1. FinishClose
    BY <1>1 DEF Next, vars, Browse, Begin, Reuse, Launch, Started, StartFails, Navigate,
                Evaluate, NavigationFails, Touch, Watchdog, TakeTick, KillIfIdle,
                WatchdogStops, Close, BeginClose, ChromeDies, Tick
  <2>2. QED
    BY <1>1, <2>1 DEF FinishClose, Kill, MutexFree, BrowserInv, NoStrayChrome
<1>2. TypeOK /\ BrowserInv /\ [Next]_vars =>
        [close # "closed" /\ close' = "closed" => live' = {}]_vars
  BY <1>1
<1>3. QED
  BY <1>2, BrowserInvariant, PTL DEF Spec, CloseKillsChrome
=============================================================================
