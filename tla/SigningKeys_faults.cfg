\* One rotator at a time, two failing statements, one crash.
SPECIFICATION Spec
CONSTANTS
  Rotators = {r1}
  JwksReaders = {j1}
  Issuers = {i1}
  Kids = {k1, k2, k3}
  NoCache = nocache
  NoArg = noarg
  MaxFailures = 2
  MaxCrashes = 1
INVARIANTS TableOK CurrentExists SeedKept HandoffComplete
CHECK_DEADLOCK FALSE
