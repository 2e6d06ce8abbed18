\* One lifecycle process, one writer, two clients.
SPECIFICATION Spec
CONSTANTS
  Lifecycle = {boot}
  Writers = {w1}
  Clients = {c1, c2}
  Names = {n1}
  Values = {x1, empty}
  EmptyValue = empty
  Keys = {k1}
  ShortKey = short
  NoKey = none
  Ttls <- MCTtls
  MaxCalls = 6
  MaxTime = 1
  NoArg = noarg
INVARIANTS HandleOK LedgerBalances
PROPERTIES ServedUntilPromised ImplementsVersionedStore
CHECK_DEADLOCK FALSE
