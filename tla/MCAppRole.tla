----------------------------- MODULE MCAppRole ------------------------------
(* AppRole on two roles, one of them spelt in two ways; callers and          *)
(* role_ids are interchangeable.                                             *)
EXTENDS AppRole, TLC
CONSTANT Second   \* the other spelling of First
Small == [n \in Name |-> IF n = Second THEN First ELSE n]
Symmetry == Permutations(Callers) \cup Permutations(Rid)
=============================================================================
