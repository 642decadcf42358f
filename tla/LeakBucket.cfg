\* Two requests a second, a second of two ticks; the clock may be set back and
\* ahead by a second; a grain of error in a call, where eight leak in a tick.
CONSTANTS
  qps = 2
  Second = 2
  Epoch = 3
  MaxTime = 3
  MaxSkew = 2
  StepsBack = {2}
  StepsAhead = {2}
  Grain = 4
  Rounding = 1
  MaxCalls = 3
SPECIFICATION BothSpec
INVARIANTS TypeOK SteadyRate
PROPERTIES Limits CountLimits
