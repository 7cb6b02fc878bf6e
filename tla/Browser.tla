------------------------------ MODULE Browser ------------------------------
(***************************************************************************)
(* internal/tools/browser.go: one headless Chrome, started on demand,      *)
(* shared by all requests and killed by a watchdog when it has been idle.  *)
(*                                                                         *)
(* The mutex b.mu is held for one step at a time, except by acquireBrowser *)
(* while Chrome starts: the variable "holder" is the call that holds it    *)
(* then, and Chrome may take any time, for its context has no deadline.    *)
(* A call, the watchdog and Close can each be waiting for the mutex; the   *)
(* watchdog waits for it inside KillIfIdle, where it does not see that     *)
(* Close has asked it to stop.                                             *)
(*                                                                         *)
(* Time advances in units by the action Tick, which waits for what is due: *)
(* a navigation ends at its deadline, and who waits for the mutex gets it  *)
(* when it is free.                                                        *)
(*                                                                         *)
(* A page is known by the call that navigated to it.  An invalid URL is    *)
(* rejected before any of this, and Stats changes nothing.                 *)
(***************************************************************************)
EXTENDS Naturals, FiniteSets

CONSTANTS
  Calls,         \* concurrent calls of Browse
  Chromes,       \* names for Chrome processes
  None,          \* no Chrome, no call, no page
  IdleTimeout,   \* b.idleTimeout: 300 s by default
  NavTimeout,    \* defaultNavTimeout: 45 s
  Period         \* of the watchdog's ticker: 60 s

ASSUME NameAssumption == None \notin Chromes \union Calls

ASSUME TimeAssumption ==
  /\ IdleTimeout \in Nat \ {0} /\ NavTimeout \in Nat \ {0} /\ Period \in Nat \ {0}

\* The configuration may break this one; its default does not.
ASSUME IdleAssumption == NavTimeout < IdleTimeout

VARIABLES
  current,    \* b.browserCtx, as the Chrome behind it
  live,       \* Chrome processes that run
  holder,     \* the call that holds b.mu while its Chrome starts
  idleFor,    \* time since b.lastUsed while there is a browser, up to MaxIdle
  untilTick,  \* time until the ticker fires
  tick,       \* a tick waits in ticker.C, which holds one
  watchdog,   \* watchdogLoop: in "select", in KillIfIdle ("killing") or "stopped"
  close,      \* where Close is: "no", "stopping" or "closed"
  pc,         \* where each call is
  ctx,        \* the Chrome whose context it uses
  navAge,     \* how long it has been navigating
  page,       \* what the tab shows
  body        \* what Evaluate returned to each call, None for an error

vars == <<current, live, holder, idleFor, untilTick, tick, watchdog, close,
          pc, ctx, navAge, page, body>>

clock == <<untilTick, tick>>

\* idleFor counts no further: the code only compares it with IdleTimeout.
MaxIdle == IdleTimeout + Period

Phases == {"idle", "acquire", "starting", "navigate", "evaluate", "touch"}

TypeOK ==
  /\ current \in Chromes \union {None}
  /\ live \in SUBSET Chromes
  /\ holder \in Calls \union {None}
  /\ idleFor \in 0 .. MaxIdle
  /\ untilTick \in 1 .. Period
  /\ tick \in BOOLEAN
  /\ watchdog \in {"select", "killing", "stopped"}
  /\ close \in {"no", "stopping", "closed"}
  /\ pc \in [Calls -> Phases]
  /\ ctx \in [Calls -> Chromes \union {None}]
  /\ navAge \in [Calls -> 0 .. NavTimeout]
  /\ page \in Calls \union {None}
  /\ body \in [Calls -> Calls \union {None}]

\* NewBrowser
Init ==
  /\ current = None /\ live = {} /\ holder = None
  /\ idleFor = 0 /\ untilTick = Period /\ tick = FALSE
  /\ watchdog = "select" /\ close = "no"
  /\ pc = [c \in Calls |-> "idle"]
  /\ ctx = [c \in Calls |-> None]
  /\ navAge = [c \in Calls |-> 0]
  /\ page = None
  /\ body = [c \in Calls |-> None]

-----------------------------------------------------------------------------
Goto(c, phase) == pc' = [pc EXCEPT ![c] = phase]

Navigating(c) == pc[c] \in {"navigate", "evaluate"}

MutexFree == holder = None

(***************************************************************************)
(* acquireBrowser                                                          *)
(***************************************************************************)
\* Browse is called with a good URL: it asks for the mutex.
Begin(c) ==
  /\ pc[c] = "idle"
  /\ Goto(c, "acquire")
  /\ UNCHANGED <<current, live, holder, idleFor, clock, watchdog, close, ctx, navAge, page, body>>

\* A variant with a bug: lastUsed is not set when a browser is reused.
ReuseUntouched(c) ==
  /\ pc[c] = "acquire" /\ MutexFree /\ current # None
  /\ ctx' = [ctx EXCEPT ![c] = current]
  /\ Goto(c, "navigate")
  /\ UNCHANGED <<current, live, holder, idleFor, clock, watchdog, close, navAge, page, body>>

\* There is a browser, or what is left of one: b.browserCtx is not nil.
Reuse(c) ==
  /\ pc[c] = "acquire" /\ MutexFree /\ current # None
  /\ idleFor' = 0
  /\ ctx' = [ctx EXCEPT ![c] = current]
  /\ Goto(c, "navigate")
  /\ UNCHANGED <<current, live, holder, clock, watchdog, close, navAge, page, body>>

\* There is none: chromedp.Run(browserCtx) launches Chrome, under the mutex.
Launch(c) ==
  /\ pc[c] = "acquire" /\ MutexFree /\ current = None
  /\ \E x \in Chromes \ (live \union {ctx[d] : d \in Calls}) :
       /\ live' = live \union {x}
       /\ ctx' = [ctx EXCEPT ![c] = x]
  /\ holder' = c
  /\ Goto(c, "starting")
  /\ UNCHANGED <<current, idleFor, clock, watchdog, close, navAge, page, body>>

Started(c) ==
  /\ pc[c] = "starting" /\ ctx[c] \in live
  /\ current' = ctx[c]
  /\ idleFor' = 0
  /\ holder' = None
  /\ page' = None
  /\ Goto(c, "navigate")
  /\ UNCHANGED <<live, clock, watchdog, close, ctx, navAge, body>>

\* Variants with a bug: allocCancel is not called; the error return does not
\* release the mutex.
StartFailsUncancelled(c) ==
  /\ pc[c] = "starting"
  /\ holder' = None
  /\ ctx' = [ctx EXCEPT ![c] = None]
  /\ Goto(c, "idle")
  /\ UNCHANGED <<current, live, idleFor, clock, watchdog, close, navAge, page, body>>

StartFailsLocked(c) ==
  /\ pc[c] = "starting"
  /\ live' = live \ {ctx[c]}
  /\ ctx' = [ctx EXCEPT ![c] = None]
  /\ Goto(c, "idle")
  /\ UNCHANGED <<current, holder, idleFor, clock, watchdog, close, navAge, page, body>>

\* Both contexts are cancelled, which ends the process.
StartFails(c) ==
  /\ pc[c] = "starting"
  /\ live' = live \ {ctx[c]}
  /\ holder' = None
  /\ ctx' = [ctx EXCEPT ![c] = None]
  /\ Goto(c, "idle")
  /\ UNCHANGED <<current, idleFor, clock, watchdog, close, navAge, page, body>>

(***************************************************************************)
(* Browse, once it has a browser.  All calls use its one tab.              *)
(***************************************************************************)
Navigate(c) ==
  /\ pc[c] = "navigate" /\ ctx[c] \in live
  /\ page' = c
  /\ Goto(c, "evaluate")
  /\ UNCHANGED <<current, live, holder, idleFor, clock, watchdog, close, ctx, navAge, body>>

\* WaitReady and Evaluate
Evaluate(c) ==
  /\ pc[c] = "evaluate" /\ ctx[c] \in live
  /\ body' = [body EXCEPT ![c] = page]
  /\ Goto(c, "touch")
  /\ UNCHANGED <<current, live, holder, idleFor, clock, watchdog, close, ctx, navAge, page>>

\* The page does not load, the deadline passes, or Chrome is gone.
NavigationFails(c) ==
  /\ Navigating(c)
  /\ body' = [body EXCEPT ![c] = None]
  /\ Goto(c, "touch")
  /\ UNCHANGED <<current, live, holder, idleFor, clock, watchdog, close, ctx, navAge, page>>

\* touch, after a success or a failure; Browse returns.
Touch(c) ==
  /\ pc[c] = "touch" /\ MutexFree
  /\ idleFor' = 0
  /\ ctx' = [ctx EXCEPT ![c] = None]
  /\ navAge' = [navAge EXCEPT ![c] = 0]
  /\ body' = [body EXCEPT ![c] = None]
  /\ Goto(c, "idle")
  /\ UNCHANGED <<current, live, holder, clock, watchdog, close, page>>

(***************************************************************************)
(* The watchdog, Close, and Chrome itself                                  *)
(***************************************************************************)
\* killLocked
Kill == /\ live' = live \ {current}
        /\ current' = None
        /\ idleFor' = 0

\* select in watchdogLoop: a tick, after which KillIfIdle asks for the mutex ...
TakeTick ==
  /\ watchdog = "select" /\ tick
  /\ watchdog' = "killing"
  /\ tick' = FALSE
  /\ UNCHANGED <<current, live, holder, idleFor, untilTick, close, pc, ctx, navAge, page, body>>

\* ... or the request to stop; with both there, either is chosen.
WatchdogStops ==
  /\ watchdog = "select" /\ close = "stopping"
  /\ watchdog' = "stopped"
  /\ UNCHANGED <<current, live, holder, idleFor, clock, close, pc, ctx, navAge, page, body>>

\* A variant with a bug: the timeout has to be exceeded.
KillIfIdleLonger ==
  /\ watchdog = "killing" /\ MutexFree
  /\ \/ current # None /\ idleFor > IdleTimeout /\ Kill
     \/ (current = None \/ idleFor <= IdleTimeout) /\ UNCHANGED <<current, live, idleFor>>
  /\ watchdog' = "select"
  /\ UNCHANGED <<holder, clock, close, pc, ctx, navAge, page, body>>

KillIfIdle ==
  /\ watchdog = "killing" /\ MutexFree
  /\ \/ current # None /\ idleFor >= IdleTimeout /\ Kill
     \/ (current = None \/ idleFor < IdleTimeout) /\ UNCHANGED <<current, live, idleFor>>
  /\ watchdog' = "select"
  /\ UNCHANGED <<holder, clock, close, pc, ctx, navAge, page, body>>

\* Close, deferred by main, closes watchdogStop and waits until the watchdog
\* has left its loop ...
BeginClose ==
  /\ close = "no"
  /\ close' = "stopping"
  /\ UNCHANGED <<current, live, holder, idleFor, clock, watchdog, pc, ctx, navAge, page, body>>

\* A variant with a bug: Close does not take the mutex.
FinishCloseUnlocked ==
  /\ close = "stopping" /\ watchdog = "stopped"
  /\ Kill
  /\ close' = "closed"
  /\ UNCHANGED <<holder, clock, watchdog, pc, ctx, navAge, page, body>>

\* ... takes the mutex and kills the browser.  The calls in progress were
\* not awaited.
FinishClose ==
  /\ close = "stopping" /\ watchdog = "stopped" /\ MutexFree
  /\ Kill
  /\ close' = "closed"
  /\ UNCHANGED <<holder, clock, watchdog, pc, ctx, navAge, page, body>>

\* Chrome crashes, or something else kills it; b.browserCtx stays as it is.
ChromeDies ==
  /\ \E x \in live : live' = live \ {x}
  /\ UNCHANGED <<current, holder, idleFor, clock, watchdog, close, pc, ctx, navAge, page, body>>

-----------------------------------------------------------------------------
(***************************************************************************)
(* Time                                                                    *)
(***************************************************************************)
\* Nothing is due: a navigation that has run out of time, or lost its Chrome,
\* ends first; a free mutex goes to who waits for it; and the watchdog's
\* select takes what is there.
NothingDue ==
  /\ \A c \in Calls : Navigating(c) => navAge[c] < NavTimeout /\ ctx[c] \in live
  /\ MutexFree =>
       watchdog # "killing" /\ \A c \in Calls : pc[c] \notin {"acquire", "touch"}
  /\ watchdog = "select" => ~ tick /\ close # "stopping"

Tick ==
  /\ NothingDue
  /\ idleFor' = IF current # None /\ idleFor < MaxIdle THEN idleFor + 1 ELSE idleFor
  /\ navAge' = [c \in Calls |-> IF Navigating(c) THEN navAge[c] + 1 ELSE navAge[c]]
  /\ untilTick' = IF watchdog # "stopped" /\ untilTick > 1 THEN untilTick - 1 ELSE Period
  /\ tick' = (tick \/ (watchdog # "stopped" /\ untilTick = 1))
  /\ UNCHANGED <<current, live, holder, watchdog, close, pc, ctx, page, body>>

Browse(c) == \/ Begin(c) \/ Reuse(c) \/ Launch(c) \/ Started(c) \/ StartFails(c)
             \/ Navigate(c) \/ Evaluate(c) \/ NavigationFails(c) \/ Touch(c)

Watchdog == TakeTick \/ KillIfIdle \/ WatchdogStops

\* A variant with a bug: Close holds the mutex from its start, so that it
\* waits for a watchdog that may be waiting for the mutex.
CloseLocksFirst ==
  \/ /\ close = "no" /\ MutexFree
     /\ holder' = "Close"
     /\ close' = "stopping"
     /\ UNCHANGED <<current, live, idleFor, clock, watchdog, pc, ctx, navAge, page, body>>
  \/ /\ close = "stopping" /\ watchdog = "stopped"
     /\ Kill
     /\ holder' = None
     /\ close' = "closed"
     /\ UNCHANGED <<clock, watchdog, pc, ctx, navAge, page, body>>

Close == BeginClose \/ FinishClose

Next == (\E c \in Calls : Browse(c)) \/ Watchdog \/ Close \/ ChromeDies \/ Tick

\* A call that has begun goes on, except that Chrome may start for as long as
\* it likes, and so do the watchdog and Close.  They may have to wait for the
\* mutex while others use it: sync.Mutex hands it to a waiter that has been
\* starved.  A select with two choices does not ignore one forever.
Fairness ==
  /\ \A c \in Calls : SF_vars(pc[c] \notin {"idle", "starting"} /\ Browse(c))
  /\ SF_vars(KillIfIdle)
  /\ SF_vars(WatchdogStops)
  /\ SF_vars(close # "no" /\ Close)

Spec == Init /\ [][Next]_vars /\ Fairness

-----------------------------------------------------------------------------
(***************************************************************************)
(* Properties                                                              *)
(***************************************************************************)
\* At most one Chrome runs, and it is one the tool knows of: the current
\* browser, or the one that the holder of the mutex is starting.  Nothing
\* else could be killed again.
NoStrayChrome ==
  \A x \in live :
    /\ x = current \/ (holder # None /\ x = ctx[holder])
    /\ \A y \in live : x = y

\* The idle timeout never takes the browser from a call that is using it,
\* however long that navigation takes: only Close does.
NotKilledInUse ==
  [][\A c \in Calls :
       Navigating(c) /\ ctx[c] = current /\ current' # current => close' = "closed"]_vars

\* A browser nobody uses is gone within one period of the watchdog after the
\* timeout, also one that crashed.
IdleBrowserKilled ==
  watchdog # "stopped" /\ current # None => idleFor < MaxIdle

\* Close leaves no Chrome, whatever was under way.
CloseKillsChrome ==
  [][close # "closed" /\ close' = "closed" => live' = {}]_vars

\* What the code takes on trust: it gives Chrome no deadline to start, so a
\* Chrome that hangs would keep the mutex.
StartsEnd == \A c \in Calls : []<>(pc[c] # "starting")

\* If every start of Chrome ends, whichever way, then Close returns and so
\* does each call from the moment it asks for the mutex, although Close waits
\* for the watchdog, and the watchdog, Close and the calls for the mutex.
CallsReturn ==
  StartsEnd => /\ close = "stopping" ~> close = "closed"
               /\ \A c \in Calls : pc[c] # "idle" ~> pc[c] = "idle"
=============================================================================
