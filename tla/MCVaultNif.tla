----------------------------- MODULE MCVaultNif -----------------------------
(* VaultNif on small sets: one lifecycle process and one writer per vault, *)
(* or two of either, as the .cfg chooses.                                  *)
EXTENDS VaultNif

(* A ttl that expires within the clock's bound, one that never passes the  *)
(* guard, and one whose max_ttl is shorter than its ttl.                   *)
MCTtls == {<<1, 1>>, <<1, 2>>, <<0, 1>>, <<2, 1>>}
=============================================================================
