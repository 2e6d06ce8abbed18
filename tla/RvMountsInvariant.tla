------------------------- MODULE RvMountsInvariant -------------------------
(* The inductive invariants of RvMounts, for every set of paths and any     *)
(* bounds; RvMounts_proofs proves them.  Two layers: what every copy of a   *)
(* table agrees on, with any number of administrators (Good), and how       *)
(* memory, routes and storage go together while one administrator works     *)
(* (Settled).                                                               *)
EXTENDS RvMounts

-----------------------------------------------------------------------------
(* The first layer: an engine keeps the key it was mounted under, in every  *)
(* copy of a table there is, and so never has two routes.                   *)

Row == [id : Id, path : Path, tainted : BOOLEAN]

(* Copies of a table: the stored one, the monitor's, those on their way to  *)
(* storage.  own tells the key of every id that has been given out.         *)
IsTable(tab) == DOMAIN tab \subseteq Path /\ \A k \in DOMAIN tab : tab[k] \in Row \cup {None}
Owned(own, tab) ==
  \A k \in DOMAIN tab : tab[k] # None =>
    own[tab[k].id] = k /\ tab[k].id < nextId /\ tab[k].path \in Kind(k)
Copy(own, tab) == IsTable(tab) /\ Owned(own, tab)

(* What a step of a request carries. *)
UndoOK(own, undo) ==
  undo # None => undo[1] \in Id /\ undo[1] < nextId /\ undo[2] \in Kind(own[undo[1]])
StepOK(own, s) ==
  /\ s[1] \in {"persist", "taint", "detach", "remove", "reroute"} => s[2] \in Path
  /\ s[1] \in {"persist", "put"} => UndoOK(own, s[3])
  /\ s[1] = "put" => Copy(own, s[2])
  /\ s[1] = "reroute" => s[3] \in Kind(s[2])

(* S holds every step that is still to do. *)
WorkOK(own, S) ==
  /\ \A s \in S : StepOK(own, s)
  /\ work \in [Admins -> Seq(S)]

TableOK(own) ==
  /\ table \in [Path -> Id \cup {None}]
  /\ \A k \in Path : table[k] # None => own[table[k]] = k /\ table[k] < nextId

RouterOK(own) ==
  /\ router \in [Path -> [id : Id, tainted : BOOLEAN] \cup {None}]
  /\ \A p \in Path : router[p] # None => router[p].id < nextId /\ p \in Kind(own[router[p].id])

EntryOK(own) ==
  /\ entry \in [Id -> [path : Path, tainted : BOOLEAN]]
  /\ \A u \in Id : u < nextId => entry[u].path \in Kind(own[u])

StoredOK(own) ==
  /\ DOMAIN stored = Path /\ stored \in [Path -> Row \cup {None}]
  /\ Copy(own, stored)
  /\ seen # None => DOMAIN seen = Path /\ Copy(own, seen)

Good(own, S) ==
  /\ own \in [Id -> Path]
  /\ nextId \in Nat
  /\ WorkOK(own, S)
  /\ TableOK(own)
  /\ RouterOK(own)
  /\ OneRoute
  /\ EntryOK(own)
  /\ StoredOK(own)

IInv == \E own, S : Good(own, S)

-----------------------------------------------------------------------------
(* The second layer, for one administrator, until a reload of the monitor   *)
(* has overlapped a request or not routed all: RestartSafe and              *)
(* ClearedNotServed.                                                        *)

SoleAdmin == \E a : Admins = {a}

(* Only a remount takes an engine from the path it was mounted at. *)
Fixed(u) == u \in Id \ moved

(* In memory, in storage and in the router; a taint is in memory first. *)
InPlace ==
  /\ \A k \in Path : table[k] # None /\ Fixed(table[k]) => entry[table[k]].path = k
  /\ \A k \in Path : stored[k] # None /\ Fixed(stored[k].id) =>
       stored[k].path = k /\ (stored[k].tainted => entry[stored[k].id].tainted)
  /\ \A p \in Path : router[p] # None /\ Fixed(router[p].id) => table[p] = router[p].id

(* What is in a table and not tainted is served. *)
Shown ==
  ~down => \A k \in Path :
    table[k] # None /\ Fixed(table[k]) /\ ~entry[table[k]].tainted => Serves(k, table[k])

(* u is not served, and no restart will serve it. *)
Gone(u) ==
  /\ \A p \in Path : ~Serves(p, u)
  /\ entry[u].tainted
  /\ \A k \in Path : stored[k] # None /\ stored[k].id = u => stored[k].tainted

ClearedGone == \A u \in cleared : u \in Id /\ u < nextId /\ (Fixed(u) => Gone(u))

(* Without failures and remounts: entries not tainted, but for those at P,  *)
(* in memory and in a copy of a table.                                      *)
Quiet == faults = 0 /\ moved = {}
CleanBut(P) == \A k \in Path \ P : table[k] # None => ~entry[table[k]].tainted
CopyCleanBut(tab, P) == \A k \in DOMAIN tab \ P : tab[k] # None => ~tab[k].tainted
AllClean == CleanBut({}) /\ CopyCleanBut(stored, {})

(* Only the entry at p, which is to be removed, may be tainted. *)
CleanBeside(p) ==
  IF table[p] = None THEN AllClean ELSE CleanBut({p}) /\ CopyCleanBut(stored, {p})

(* An image of the tables under p, as they are. *)
Exact(img, p) ==
  /\ DOMAIN img = Kind(p)
  /\ \A k \in Kind(p) : img[k] # None /\ Fixed(img[k].id) =>
       img[k].path = k /\ img[k].tainted = entry[img[k].id].tainted

Tainted(p) == table[p] # None => entry[table[p]].tainted
TaintStored(p) == table[p] # None /\ stored[p] # None => stored[p].tainted

(* What one request has still to do: w begins with step op; w is the end of *)
(* an unmount of p; of a remount from s to d.                               *)
Now(w, op) == w # <<>> /\ Head(w)[1] = op
Removing(w, p) == Now(w, "remove") /\ Head(w)[2] = p /\ Tail(w) = <<>>
Clearing(w, p) == Now(w, "clear") /\ Removing(Tail(w), p)
Detaching(w, p) ==
  /\ Now(w, "detach") /\ Head(w)[2] = p
  /\ Clearing(Tail(w), p) \/ (router[p] = None /\ Removing(Tail(w), p))
  /\ router[p] # None => Head(Tail(w))[2] = router[p].id
Rerouting(w, s, d) ==
  /\ Now(w, "reroute") /\ Head(w)[2] = s /\ Head(w)[3] = d /\ Tail(w) = <<>>
  /\ router[d] = None
  /\ router[s] # None => ~Fixed(router[s].id)

(* And what is so when it comes to that step. *)
Resting(w) == w = <<>> /\ (Quiet => AllClean)

AtTaint(w, p) ==
  Now(w, "taint") /\ Head(w)[2] = p /\ Detaching(Tail(w), p) /\ (Quiet => AllClean)

AtPersist(w, p) ==
  /\ Now(w, "persist") /\ Head(w)[2] = p /\ Head(w)[3] = None
  /\ Quiet => CopyCleanBut(stored, {p})
  /\ \/ Tail(w) = <<>> /\ (Quiet => CleanBut({}))
     \/ /\ Detaching(Tail(w), p) /\ table[p] # None /\ Tainted(p)
        /\ Quiet => router[p] # None /\ CleanBut({p})

AtPut(w, p) ==
  /\ Now(w, "put") /\ Exact(Head(w)[2], p) /\ Head(w)[3] = None
  /\ Quiet => CopyCleanBut(stored, {p})
  /\ \/ Tail(w) = <<>> /\ (Quiet => CleanBut({}) /\ CopyCleanBut(Head(w)[2], {}))
     \/ /\ Detaching(Tail(w), p) /\ table[p] # None /\ Tainted(p)
        /\ Head(w)[2][p] # None => Head(w)[2][p].tainted
        /\ Quiet => router[p] # None /\ CleanBut({p}) /\ CopyCleanBut(Head(w)[2], {p})

AtDetach(w, p) ==
  /\ Detaching(w, p) /\ Tainted(p) /\ TaintStored(p)
  /\ Quiet => CleanBeside(p) /\ (table[p] # None => router[p] # None)

AtClear(w, p) ==
  /\ Clearing(w, p) /\ router[p] = None /\ (Quiet => CleanBeside(p))
  /\ Head(w)[2] \in Id /\ Head(w)[2] < nextId /\ (Fixed(Head(w)[2]) => Gone(Head(w)[2]))

AtRemove(w, p) == Removing(w, p) /\ router[p] = None /\ (Quiet => CleanBeside(p))

(* A remount may be undone, of an engine that is no longer fixed. *)
Undoable(w) == Head(w)[3] # None => Head(w)[3][1] \in moved
AtRemount(w, s, d) ==
  /\ moved # {}
  /\ \/ Rerouting(w, s, d)
     \/ Now(w, "persist") /\ Head(w)[2] = s /\ Undoable(w) /\ Rerouting(Tail(w), s, d)
     \/ Now(w, "put") /\ Exact(Head(w)[2], s) /\ Undoable(w) /\ Rerouting(Tail(w), s, d)

Doing(w) ==
  \/ Resting(w)
  \/ \E p \in Path : \/ AtTaint(w, p) \/ AtPersist(w, p) \/ AtPut(w, p)
                     \/ AtDetach(w, p) \/ AtClear(w, p) \/ AtRemove(w, p)
  \/ \E s, d \in Path : AtRemount(w, s, d)

Settled ==
  ~disturbed =>
    /\ InPlace /\ Shown /\ ClearedGone
    /\ \A a \in Admins : Doing(work[a])
    /\ faults \in Nat /\ (faults = 0 => ~down)
=============================================================================
