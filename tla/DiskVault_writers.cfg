\* Two writers race for versions; one crash.
SPECIFICATION Spec
CONSTANTS
  Lifecycle = {a1}
  Writers = {w1, w2}
  Readers = {}
  Names = {n1}
  Values = {x1, x2}
  Keys = {k1}
  ShortKey = short
  NoKey = none
  Free = free
  Poisoned = poisoned
  NoArg = noarg
  MaxVersion = 2
  MaxCrashes = 1
INVARIANTS VersionsContiguous AuditIsTruthful
PROPERTY ImplementsVersionedStore
