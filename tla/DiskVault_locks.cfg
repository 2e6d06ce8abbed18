\* Two threads unseal and seal, one writes, one reads; two keys; one crash.
SPECIFICATION Spec
CONSTANTS
  Lifecycle = {a1, a2}
  Writers = {w1}
  Readers = {r1}
  Names = {n1}
  Values = {x1}
  Keys = {k1, k2}
  ShortKey = short
  NoKey = none
  Free = free
  Poisoned = poisoned
  NoArg = noarg
  MaxVersion = 1
  MaxCrashes = 1
INVARIANTS HandleOK PoisonedIsSealed
PROPERTY StateLockReleased
