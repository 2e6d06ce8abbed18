\* Three replicas, one add each, two snapshots in flight, one restart.
SPECIFICATION OrSetSpec
CONSTANTS
  Nodes = {a, b, c}
  Values = {v, w}
  MaxAdds = 1
  MaxSnapshots = 2
  MaxLosses = 1
SYMMETRY Symmetry
INVARIANTS ReplicasOK AddWins
PROPERTIES NeverReturns
