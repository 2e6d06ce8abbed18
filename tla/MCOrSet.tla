------------------------------ MODULE MCOrSet ------------------------------
(* OrSet on small sets; nodes and values are interchangeable.              *)
EXTENDS OrSet, TLC
Symmetry == Permutations(Nodes) \cup Permutations(Values)
=============================================================================
