--------------------------- MODULE VersionedStore ---------------------------
(***************************************************************************)
(* What both vaults promise about versions (SC-VAULT-011, "monotonic       *)
(* version per name"), with every mechanism left out: a table of rows      *)
(* <name, version, value> in which a row is only ever added above the      *)
(* versions its name already has, is never rewritten, and may be removed.  *)
(*                                                                         *)
(* VaultNif (the in-RAM vault of the NIF) and DiskVault (the SQLite vault) *)
(* are each shown to implement this specification, under the conditions    *)
(* their MC modules state.                                                 *)
(***************************************************************************)
EXTENDS Naturals

CONSTANTS Names, Values

VARIABLE rows   \* the stored rows

Row == [name : Names, version : Nat \ {0}, value : Values]

(* Every version of n that is stored lies below v. *)
Above(n, v) == \A r \in rows : r.name = n => r.version < v

Init == rows = {}

(* A step adds one row above its name's others.  (r is drawn from rows' so *)
(* that the formula needs no choice from all versions.)                    *)
AddRow ==
  \E r \in rows' \ rows :
    /\ r \in Row
    /\ Above(r.name, r.version)
    /\ rows' = rows \cup {r}

RemoveRow == \E r \in rows : rows' = rows \ {r}

Next == AddRow \/ RemoveRow

Spec == Init /\ [][Next]_rows
=============================================================================
