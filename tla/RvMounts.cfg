\* One administrator, the monitor, a storage error and a restart.
SPECIFICATION Spec
CONSTANTS
  team = team
  teamA = teamA
  kv = kv
  ldap = ldap
  Path <- Paths
  AuthPath <- Auths
  Below <- Nested
  Default = kv
  Admins = {a1}
  Monitored = TRUE
  None = None
  MaxId = 2
  MaxOps = 3
  MaxFaults = 2
INVARIANTS RoutesOK ClearedNotServed RestartSafe
PROPERTIES MonitorHeals
CHECK_DEADLOCK FALSE
