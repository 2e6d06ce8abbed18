\* Two requests; the clock passes the end of a stored token's lease.
SPECIFICATION Spec
CONSTANTS
  Tok = {0, 1}
  Root = 0
  Stored = {1}
  Sec = {9}
  Checker = checker
  None = None
  Ttl = 1
  MaxUses = 1
  MaxTime = 3
  MaxOps = 2
  MaxFaults = 0
PROPERTIES ExpiredHandled
CHECK_DEADLOCK FALSE
