\* Two writers or a writer and a checker over two names.
SPECIFICATION Spec
CONSTANTS
  Literal <- MCLiteral
  Size <- MCSize
  StartsWith <- MCStartsWith
  Name = {"default", "p"}
  Default = "default"
  DefaultDoc = "base"
  Text <- MCText
  Doc <- MCDoc
  Written = {"deny"}
  Request <- MCRequest
  RootPath <- MCRootPath
  Writers = {w1, w2}
  Checkers = {c}
  MaxSegments = 4
  MaxOps = 3
  MaxFaults = 1
  None = None
INVARIANTS StoreOK DecisionCurrent NarrowestDecides
SYMMETRY Symmetry
CHECK_DEADLOCK FALSE
