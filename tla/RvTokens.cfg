\* Two requests at a time, a storage error or a crash.
SPECIFICATION Spec
CONSTANTS
  Tok = {0, 1, 2, 3}
  Root = 0
  Stored = {1}
  Sec = {9}
  Checker = checker
  None = None
  Ttl = 1
  MaxUses = 1
  MaxTime = 2
  MaxOps = 2
  MaxFaults = 1
INVARIANTS LeasesOK RevokedStayRevoked HeldTokenHasLease
PROPERTIES NoEarlyExpiry ExpiredRevoked
CHECK_DEADLOCK FALSE
