\* Two units of time to navigate, which is 45 s, and three between ticks, for
\* 60 s; the idle timeout is as short as it may be.
CONSTANTS
  c1 = c1  c2 = c2
  x1 = x1  x2 = x2  x3 = x3
  Calls = {c1, c2}
  Chromes = {x1, x2, x3}
  None = None
  IdleTimeout = 3
  NavTimeout = 2
  Period = 3
SPECIFICATION Spec
INVARIANTS NoStrayChrome IdleBrowserKilled
PROPERTIES NotKilledInUse CloseKillsChrome CallsReturn
