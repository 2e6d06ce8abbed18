\* Two callers and tidy; two roles, one there with a secret id; an error or a crash.
SPECIFICATION Spec
CONSTANTS
  Role = {web, db}
  Name = {web, Web, db}
  Second = Web
  Lower <- Small
  Rid = {x, y}
  Sid = {s}
  First = web
  FirstUses = 1
  Callers = {c1, c2}
  Tidy = tidy
  None = None
  MaxUses = 1
  MaxInc = 2
  MaxAcc = 2
  MaxTime = 2
  MaxOps = 3
  MaxFaults = 1
SYMMETRY Symmetry
INVARIANTS EntriesOK UsesBounded GoneRefused TidyCollects NoLockCycle
CHECK_DEADLOCK FALSE
