\* One caller; a window of three ticks that holds two calls.
SPECIFICATION LimiterSpec
CONSTANTS
  Callers = {c1}
  Realms = {r1, r2}
  RpmLimit = 2
  WindowMs = 3
  MaxTime = 5
  MaxCalls = 5
  MaxQueue = 2
  MaxRestarts = 1
INVARIANTS LimiterOK WindowRespected
