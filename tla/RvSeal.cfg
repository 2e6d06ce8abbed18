\* One operator unseals, one seals, one client writes.
SPECIFICATION Spec
CONSTANTS
  N = 3
  T = 2
  Unsealers = {u}
  Sealers = {s}
  Clients = {c}
  MaxGen = 3
  MaxOps = 7
  MaxFaults = 2
INVARIANTS KeysOK StateTracksBarrier Recoverable
PROPERTIES DeprecatedForGood
CHECK_DEADLOCK FALSE
