------------------------------- MODULE OrSet -------------------------------
(***************************************************************************)
(* The observed-remove set of the state backplane                          *)
(* (lib/cepaf_gleam/src/cepaf_gleam/ha/crdt.gleam), replicated.            *)
(*                                                                         *)
(* The four functions on ORSet values are the code's.  How values travel   *)
(* is not in the repository: the module header says "over Zenoh pub/sub",  *)
(* so a replica publishes its whole value, and a published value may reach *)
(* any replica at any time, in any order, several times or never.          *)
(*                                                                         *)
(* The code keeps lists; every reader of them filters, asks for membership *)
(* or removes duplicates, so here they are sets.  timestamp_ms is carried  *)
(* and never read, and is left out.                                        *)
(***************************************************************************)
EXTENDS Integers, FiniteSets

CONSTANTS
  Nodes,         \* replicas
  Values,        \* what callers add and remove
  MaxAdds,       \* bound: adds of one node
  MaxSnapshots,  \* bound: values ever published
  MaxLosses      \* bound: replicas that lose their value

(* "The tag MUST be globally unique (e.g., node_id + logical clock)"       *)
Tags == Nodes \X (Nat \ {0})
Element == [value : Values, tag : Tags]
ORSet == [elements : SUBSET Element, tombstones : SUBSET Tags]

orset_new == [elements |-> {}, tombstones |-> {}]

orset_add(s, value, tag) ==
  IF tag \in s.tombstones
  THEN s
  ELSE [s EXCEPT !.elements = @ \cup {[value |-> value, tag |-> tag]}]

TagsOf(es) == {e.tag : e \in es}
Having(s, value) == {e \in s.elements : e.value = value}

(* Mutant: the remove leaves no tombstone. *)
RemoveUntombstoned(s, value) == [s EXCEPT !.elements = @ \ Having(s, value)]

orset_remove(s, value) ==
  [elements   |-> s.elements \ Having(s, value),
   tombstones |-> s.tombstones \cup TagsOf(Having(s, value))]

(* Mutant: the union is not filtered. *)
MergeUnfiltered(a, b) ==
  [elements |-> a.elements \cup b.elements, tombstones |-> a.tombstones \cup b.tombstones]

(* Mutant: the other value's tombstones are used and forgotten. *)
MergeOwnTombstones(a, b) ==
  [elements   |-> {e \in a.elements \cup b.elements : e.tag \notin a.tombstones \cup b.tombstones},
   tombstones |-> a.tombstones]

orset_merge(a, b) ==
  LET all_tombstones == a.tombstones \cup b.tombstones
  IN  [elements   |-> {e \in a.elements \cup b.elements : e.tag \notin all_tombstones},
       tombstones |-> all_tombstones]

orset_values(s) == {e.value : e \in s.elements}

-----------------------------------------------------------------------------
(* A replica is its ORSet together with what it has seen: the adds, and    *)
(* the removes, each as the adds of its value that had been seen when it   *)
(* was made.  "seen" is a history variable: nothing the code does depends  *)
(* on it.                                                                  *)

History == [adds : SUBSET Element, removes : SUBSET SUBSET Element]
Snapshot == [set : ORSet, seen : History]

Unborn == [adds |-> {}, removes |-> {}]

VARIABLES
  replica,    \* each node's ORSet and its history
  published,  \* the snapshots replicas have published
  counter,    \* each node's logical clock, the second half of its tags
  losses      \* how often a replica has lost its value

orsetVars == <<replica, published, counter, losses>>

OrSetInit ==
  /\ replica = [n \in Nodes |-> [set |-> orset_new, seen |-> Unborn]]
  /\ published = {}
  /\ counter = [n \in Nodes |-> 0]
  /\ losses = 0

(* What each function makes of a replica's value and of its history.       *)
Added(s, v, tag) ==
  [set  |-> orset_add(s.set, v, tag),
   seen |-> [adds    |-> s.seen.adds \cup {[value |-> v, tag |-> tag]},
             removes |-> s.seen.removes]]

Removed(s, v) ==
  LET observed == {a \in s.seen.adds : a.value = v}
  IN  [set  |-> orset_remove(s.set, v),
       seen |-> [adds    |-> s.seen.adds,
                 removes |-> s.seen.removes \cup ({observed} \ {{}})]]

Joined(s, m) ==
  [set  |-> orset_merge(s.set, m.set),
   seen |-> [adds    |-> s.seen.adds \cup m.seen.adds,
             removes |-> s.seen.removes \cup m.seen.removes]]

Add(n, v) ==
  /\ counter[n] < MaxAdds
  /\ counter' = [counter EXCEPT ![n] = @ + 1]
  /\ replica' = [replica EXCEPT ![n] = Added(@, v, <<n, counter[n] + 1>>)]
  /\ UNCHANGED <<published, losses>>

RemoveValue(n, v) ==
  /\ replica' = [replica EXCEPT ![n] = Removed(@, v)]
  /\ UNCHANGED <<published, counter, losses>>

Publish(n) ==
  /\ Cardinality(published) < MaxSnapshots
  /\ published' = published \cup {replica[n]}
  /\ UNCHANGED <<replica, counter, losses>>

Receive(n, m) ==
  /\ replica' = [replica EXCEPT ![n] = Joined(@, m)]
  /\ UNCHANGED <<published, counter, losses>>

(* The value is in the memory of a BEAM process: a restart starts from     *)
(* orset_new.  Tags stay unique, so the clock is not reset.                  *)
Lose(n) ==
  /\ losses < MaxLosses
  /\ losses' = losses + 1
  /\ replica' = [replica EXCEPT ![n] = [set |-> orset_new, seen |-> Unborn]]
  /\ UNCHANGED <<published, counter>>

OrSetNext ==
  \E n \in Nodes :
    \/ \E v \in Values : Add(n, v) \/ RemoveValue(n, v)
    \/ Publish(n)
    \/ \E m \in published : Receive(n, m)
    \/ Lose(n)

OrSetSpec == OrSetInit /\ [][OrSetNext]_orsetVars

-----------------------------------------------------------------------------
OrSetTypeOK ==
  /\ replica \in [Nodes -> Snapshot]
  /\ published \subseteq Snapshot
  /\ counter \in [Nodes -> Nat]
  /\ losses \in Nat

(* Every ORSet there is: held by a replica, or in flight.                  *)
Snapshots == {replica[n] : n \in Nodes} \cup published

(* What an observed-remove set shows to one who has seen history h: the    *)
(* adds that no remove of h had observed.                                  *)
Live(h) == {a \in h.adds : \A observed \in h.removes : a \notin observed}

(* Add-wins: whatever was lost, repeated or reordered on the way, a value  *)
(* holds exactly the adds its history contains and no remove in that       *)
(* history had observed ("concurrent add and remove -> element survives"). *)
(* Two replicas with the same history therefore show the same elements.    *)
AddWins == \A s \in Snapshots : s.set.elements = Live(s.seen)

(* A tag that is tombstoned is never listed, so that merging a value with  *)
(* itself changes nothing: a delayed or repeated delivery of an old value  *)
(* does not bring a removed element back, short of a restart.              *)
NeverReturns ==
  [][\A n \in Nodes :
       \/ replica'[n].set = orset_new
       \/ /\ replica[n].set.tombstones \subseteq replica'[n].set.tombstones
          /\ \A e \in replica'[n].set.elements :
               e.tag \notin replica[n].set.tombstones]_orsetVars

(* "Commutativity, associativity and idempotency" of orset_merge, on every *)
(* value a replica or a delivery can bring together.                       *)
MergeLaws ==
  LET Sets == {s.set : s \in Snapshots}
  IN  \A a, b, c \in Sets :
        /\ orset_merge(a, a) = a
        /\ orset_merge(a, b) = orset_merge(b, a)
        /\ orset_merge(orset_merge(a, b), c) = orset_merge(a, orset_merge(b, c))

(* Every replica and snapshot is well typed, and the laws hold of them all. *)
ReplicasOK == OrSetTypeOK /\ MergeLaws
=============================================================================
