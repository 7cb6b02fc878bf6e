\* Units of 15 s: 45 s to navigate, 60 s between ticks; the idle timeout is
\* as short as it may be.
CONSTANTS
  c1 = c1  c2 = c2
  x1 = x1  x2 = x2  x3 = x3
  Calls = {c1, c2}
  Chromes = {x1, x2, x3}
  None = None
  IdleTimeout = 4
  NavTimeout = 3
  Period = 4
SPECIFICATION Spec
INVARIANT OwnPage
