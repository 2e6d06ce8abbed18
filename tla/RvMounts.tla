------------------------------ MODULE RvMounts ------------------------------
(***************************************************************************)
(* The mount tables and the router of the vendored RustyVault              *)
(* (rusty_vault_vendored/src/mount.rs, router.rs, modules/auth/mod.rs).    *)
(*                                                                         *)
(* An engine is an id.  There are two tables, of secret engines and of     *)
(* auth methods, kept here in one function: a path belongs to one of them. *)
(* A table's key is the path an engine was first mounted at; the entry     *)
(* under it has the path where it is now.  table, entry and router are in  *)
(* memory, stored is what the last write of each table left.               *)
(*                                                                         *)
(* As in RvTokens, work[a] is what a request has still to do; a step that  *)
(* fails drops the rest.  Backends, HMACs and protected paths are left out.*)
(***************************************************************************)
EXTENDS Integers, Sequences, FiniteSets

CONSTANTS
  Path,
  AuthPath,   \* those under auth/
  Below,      \* <<p, q>>: q begins with p, and is longer
  Default,    \* the path of the engine that is there from the start
  Admins,     \* requests at a time
  Monitored,  \* mounts_monitor_interval > 0
  None,
  MaxId,      \* bound: engines mounted
  MaxOps,     \* bound: requests
  MaxFaults   \* bound: storage errors and restarts

Id == 0..MaxId

ASSUME PathAssumption == Default \in Path /\ AuthPath \subseteq Path
ASSUME BelowAssumption ==
  /\ Below \subseteq Path \X Path
  /\ \A r \in Below : r[1] # r[2] /\ (r[1] \in AuthPath <=> r[2] \in AuthPath)
  /\ \A q, r \in Below : q[2] = r[1] => <<q[1], r[2]>> \in Below
ASSUME BoundAssumption == MaxId \in Nat
ASSUME NoneAssumption ==
  None \notin Id \cup [id : Id, tainted : BOOLEAN] \cup [id : Id, path : Path, tainted : BOOLEAN]

VARIABLES
  table,      \* MountTable.entries of both tables: path -> id
  entry,      \* MountEntry: the path and taint of an id, shared with the router
  router,     \* Router.root: path -> id and taint
  stored,     \* the tables in storage
  seen,       \* the tables as the monitor has read them
  work,
  cleared,    \* ids whose view is being or has been emptied
  down,       \* unseal failed
  moved,      \* history: ids some remount has touched
  disturbed,  \* history: a reload overlapped a request, or did not route all
  nextId, ops, faults

vars == <<table, entry, router, stored, seen, work, cleared, down, moved,
          disturbed, nextId, ops, faults>>
bounds == <<nextId, ops, faults>>

Within(p, q) == p = q \/ <<p, q>> \in Below          \* q begins with p
Kind(p) == {q \in Path : q \in AuthPath <=> p \in AuthPath}

(* MountTable's serialization: what is under p's table's keys. *)
Image(p) ==
  [k \in Kind(p) |-> IF table[k] = None THEN None
                     ELSE [id |-> table[k], path |-> entry[table[k]].path,
                           tainted |-> entry[table[k]].tainted]]

Init ==
  /\ table = [p \in Path |-> IF p = Default THEN 0 ELSE None]
  /\ entry = [u \in Id |-> [path |-> Default, tainted |-> FALSE]]
  /\ router = [p \in Path |-> IF p = Default THEN [id |-> 0, tainted |-> FALSE] ELSE None]
  /\ stored = [p \in Path |-> IF p = Default
                              THEN [id |-> 0, path |-> p, tainted |-> FALSE] ELSE None]
  /\ seen = None
  /\ work = [a \in Admins |-> <<>>]
  /\ cleared = {} /\ down = FALSE /\ moved = {} /\ disturbed = FALSE
  /\ nextId = 1 /\ ops = 0 /\ faults = 0

-----------------------------------------------------------------------------
(* Router.                                                                 *)

Routed == {p \in Path : router[p] # None}

(* matching_mount: an engine at p or above it; matching_view, matching_entry *)
(* take the nearest.                                                         *)
Matching(p) == {q \in Routed : Within(q, p)}
Nearest(p) == CHOOSE q \in Matching(p) : \A r \in Matching(p) : Within(r, q)

(* Mutant: the engine stays where it was, too. *)
RerouteCopies(s, d) ==
  router' = [router EXCEPT ![d] = [router[s] EXCEPT !.tainted = FALSE]]

(* remount and untaint. *)
Reroute(s, d) ==
  router' = [router EXCEPT ![d] = [router[s] EXCEPT !.tainted = FALSE], ![s] = None]

-----------------------------------------------------------------------------
(* Requests.                                                               *)

Begin(a, steps) ==
  /\ work[a] = <<>> /\ ops < MaxOps /\ ~down
  /\ ops' = ops + 1
  /\ work' = [work EXCEPT ![a] = steps]

At(a, op) == work[a] # <<>> /\ Head(work[a])[1] = op
Arg(a, i) == Head(work[a])[i]
Then(a, steps) == work' = [work EXCEPT ![a] = steps \o Tail(@)]
Refuse(a) == work' = [work EXCEPT ![a] = <<>>]

(* Core::mount and enable_auth under the table's write lock.  Only the     *)
(* latter looks for engines below p.                                       *)
Mount(a, p) ==
  /\ nextId <= MaxId
  /\ Matching(p) = {}
  /\ p \in AuthPath => \A k \in AuthPath : table[k] # None =>
       ~Within(p, entry[table[k]].path) /\ ~Within(entry[table[k]].path, p)
  /\ Begin(a, <<<<"persist", p, None>>>>)
  /\ table' = [table EXCEPT ![p] = nextId]
  /\ entry' = [entry EXCEPT ![nextId] = [path |-> p, tainted |-> FALSE]]
  /\ router' = [router EXCEPT ![p] = [id |-> nextId, tainted |-> FALSE]]
  /\ nextId' = nextId + 1
  /\ UNCHANGED <<stored, seen, cleared, down, moved, disturbed, faults>>

(* Core::unmount asks that p itself is routed, disable_auth does not. *)
Unmount(a, p) ==
  /\ p \notin AuthPath => router[p] # None
  /\ Begin(a, <<<<"taint", p>>, <<"detach", p>>>>
              \o (IF Matching(p) = {} THEN <<>> ELSE <<<<"clear", router[Nearest(p)].id>>>>)
              \o <<<<"remove", p>>>>)
  /\ UNCHANGED <<table, entry, router, stored, seen, cleared, down, moved, disturbed,
                 nextId, faults>>

(* Core::remount and remount_auth up to the write.  The entry found may be  *)
(* that of an engine above s: it is tainted before router.taint(s) fails.   *)
Remount(a, s, d) ==
  /\ d \in Kind(s)
  /\ Matching(d) = {} /\ Matching(s) # {}
  /\ LET u == router[Nearest(s)].id IN
       /\ moved' = moved \cup {u}
       /\ IF router[s] = None
          THEN /\ Begin(a, <<>>)
               /\ entry' = [entry EXCEPT ![u].tainted = TRUE]
               /\ UNCHANGED router
          ELSE /\ Begin(a, <<<<"persist", s, <<u, entry[u].path>>>>, <<"reroute", s, d>>>>)
               /\ entry' = [entry EXCEPT ![u] = [path |-> d, tainted |-> FALSE]]
               /\ router' = [router EXCEPT ![s].tainted = TRUE]
  /\ UNCHANGED <<table, stored, seen, cleared, down, disturbed, nextId, faults>>

(* persist serializes the table as it is now; what undoes a remount goes    *)
(* along.                                                                   *)
Persist(a) ==
  /\ At(a, "persist")
  /\ Then(a, <<<<"put", Image(Arg(a, 2)), Arg(a, 3)>>>>)
  /\ UNCHANGED <<table, entry, router, stored, seen, cleared, down, moved, disturbed, bounds>>

Put(a) ==
  /\ At(a, "put")
  /\ stored' = [k \in Path |-> IF k \in DOMAIN Arg(a, 2) THEN Arg(a, 2)[k] ELSE stored[k]]
  /\ Then(a, <<>>)
  /\ UNCHANGED <<table, entry, router, seen, cleared, down, moved, disturbed, bounds>>

(* Mutant: the taint is kept in memory. *)
TaintInMemory(a) ==
  /\ At(a, "taint")
  /\ IF table[Arg(a, 2)] = None THEN UNCHANGED entry
     ELSE entry' = [entry EXCEPT ![table[Arg(a, 2)]].tainted = TRUE]
  /\ Then(a, <<>>)
  /\ UNCHANGED <<table, router, stored, seen, cleared, down, moved, disturbed, bounds>>

(* taint_mount_entry, taint_auth_entry: by the table's key. *)
Taint(a) ==
  /\ At(a, "taint")
  /\ LET p == Arg(a, 2) IN
       IF table[p] = None THEN UNCHANGED entry /\ Then(a, <<>>)
       ELSE /\ entry' = [entry EXCEPT ![table[p]].tainted = TRUE]
            /\ Then(a, <<<<"persist", p, None>>>>)
  /\ UNCHANGED <<table, router, stored, seen, cleared, down, moved, disturbed, bounds>>

(* Mutant: the route is not removed. *)
DetachKeeps(a) ==
  /\ At(a, "detach")
  /\ IF router[Arg(a, 2)] = None THEN Refuse(a) ELSE Then(a, <<>>)
  /\ UNCHANGED <<table, entry, router, stored, seen, cleared, down, moved, disturbed, bounds>>

(* router.taint, which fails if nothing is there, and router.unmount. *)
Detach(a) ==
  /\ At(a, "detach")
  /\ LET p == Arg(a, 2) IN
       IF router[p] = None THEN Refuse(a) /\ UNCHANGED router
       ELSE Then(a, <<>>) /\ router' = [router EXCEPT ![p] = None]
  /\ UNCHANGED <<table, entry, stored, seen, cleared, down, moved, disturbed, bounds>>

Clear(a) ==
  /\ At(a, "clear")
  /\ cleared' = cleared \cup {Arg(a, 2)}
  /\ Then(a, <<>>)
  /\ UNCHANGED <<table, entry, router, stored, seen, down, moved, disturbed, bounds>>

(* remove_mount_entry, remove_auth_entry. *)
Remove(a) ==
  /\ At(a, "remove")
  /\ LET p == Arg(a, 2) IN
       /\ table' = [table EXCEPT ![p] = None]
       /\ Then(a, IF table[p] = None THEN <<>> ELSE <<<<"persist", p, None>>>>)
  /\ UNCHANGED <<entry, router, stored, seen, cleared, down, moved, disturbed, bounds>>

RerouteStep(a) ==
  /\ At(a, "reroute")
  /\ LET s == Arg(a, 2) d == Arg(a, 3) IN
       IF router[s] = None THEN Refuse(a) /\ UNCHANGED router
       ELSE Then(a, <<>>) /\ Reroute(s, d)
  /\ UNCHANGED <<table, entry, stored, seen, cleared, down, moved, disturbed, bounds>>

(* A write fails, or the emptying of a view after some of it is gone.  A    *)
(* remount that is not written is undone, and stays tainted.                *)
Fail(a) ==
  /\ faults < MaxFaults /\ faults' = faults + 1
  /\ \/ /\ At(a, "put")
        /\ LET undo == Arg(a, 3) IN
             IF undo = None THEN UNCHANGED entry
             ELSE entry' = [entry EXCEPT ![undo[1]] = [path |-> undo[2], tainted |-> TRUE]]
        /\ UNCHANGED cleared
     \/ /\ At(a, "clear")
        /\ cleared' \in {cleared, cleared \cup {Arg(a, 2)}}
        /\ UNCHANGED entry
  /\ Refuse(a)
  /\ UNCHANGED <<table, router, stored, seen, down, moved, disturbed, nextId, ops>>

-----------------------------------------------------------------------------
(* setup, in the order of a hash map: what may be mounted in the end, and   *)
(* whether that is all.  An engine is refused below another, or at a path   *)
(* that is taken; a tainted auth method has no route by its bare path, and  *)
(* is the last to be mounted.                                               *)

Keys(tab) == {k \in DOMAIN tab : tab[k] # None}

Refused(tab, S) == {k \in Keys(tab) \ S : \E j \in S : Within(tab[j].path, tab[k].path)}
Stuck(tab, S) == {k \in S : tab[k].tainted /\ tab[k].path \in AuthPath}
Apart(tab, S) == \A j, k \in S : tab[j].path = tab[k].path => j = k

Setups(tab) ==
  {<<S, FALSE>> : S \in {S \in SUBSET Keys(tab) :
     Apart(tab, S) /\ (Refused(tab, S) # {} \/ Cardinality(Stuck(tab, S)) = 1)}}
  \cup (IF Apart(tab, Keys(tab)) /\ Stuck(tab, Keys(tab)) = {}
         THEN {<<Keys(tab), TRUE>>} ELSE {})

Routes(tab, S) ==
  [p \in Path |->
     IF \E k \in S : tab[k].path = p
     THEN LET k == CHOOSE k \in S : tab[k].path = p
          IN [id |-> tab[k].id, tainted |-> tab[k].tainted]
     ELSE None]

SecretPart(tab) == [k \in Path \ AuthPath |-> tab[k]]
AuthPart(tab) == [k \in AuthPath |-> tab[k]]

(* The entries of table tab are read into memory. *)
Load(tab) ==
  /\ table' = [k \in Path |-> IF tab[k] = None THEN None ELSE tab[k].id]
  /\ entry' = [u \in Id |-> IF \E k \in Keys(tab) : tab[k].id = u
                            THEN LET k == CHOOSE k \in Keys(tab) : tab[k].id = u
                                 IN [path |-> tab[k].path, tainted |-> tab[k].tainted]
                            ELSE entry[u]]

(* load_auth: when the table of auth methods cannot be read, a default one, *)
(* without any of these, is written in its place.                           *)
DefaultAuth == [k \in Path |-> IF k \in AuthPath THEN None ELSE stored[k]]

(* The process dies, or is sealed, and is unsealed: post_unseal loads and   *)
(* sets up the secret engines, then AuthModule::init the auth methods.      *)
Restart ==
  /\ faults < MaxFaults /\ faults' = faults + 1
  /\ stored' \in {stored, DefaultAuth}
  /\ Load(stored')
  /\ work' = [a \in Admins |-> <<>>] /\ seen' = None
  /\ \E m \in Setups(SecretPart(stored')), n \in Setups(AuthPart(stored')) :
       /\ down' = ~(m[2] /\ n[2])
       /\ router' = IF down' THEN [p \in Path |-> None] ELSE Routes(stored', m[1] \cup n[1])
  /\ UNCHANGED <<cleared, moved, disturbed, nextId, ops>>

-----------------------------------------------------------------------------
(* MountsMonitor, a thread.                                                *)

Busy == \E a \in Admins : work[a] # <<>>
Size(tab) == Cardinality(Keys(tab))

MonitorRead ==
  /\ Monitored /\ seen = None /\ ~down
  /\ seen' = stored
  /\ UNCHANGED <<table, entry, router, stored, work, cleared, down, moved, disturbed, bounds>>

(* load of one table: kept as it is when as many engines are in storage. *)
Changed(S) == Size([k \in S |-> table[k]]) # Size([k \in S |-> seen[k]])

(* Mutant: only a table that has grown is loaded. *)
ReloadedGrown ==
  [k \in Path |-> IF Size([j \in Kind(k) |-> table[j]]) < Size([j \in Kind(k) |-> seen[j]])
                  THEN seen[k] ELSE Image(k)[k]]

(* Both tables as they are after load. *)
Reloaded == [k \in Path |-> IF Changed(Kind(k)) THEN seen[k] ELSE Image(k)[k]]

(* The tables are loaded, the routes cleared and set up again: one step     *)
(* here.  An error ends the setup of that table only.                       *)
MonitorLoad ==
  /\ seen # None
  /\ seen' = None
  /\ IF Changed(AuthPath) \/ Changed(Path \ AuthPath)
     THEN \E tab \in {Reloaded} :
            /\ Load(tab)
            /\ \E m \in Setups(SecretPart(tab)), n \in Setups(AuthPart(tab)) :
                 /\ router' = Routes(tab, m[1] \cup n[1])
                 /\ disturbed' = (disturbed \/ Busy \/ seen # stored \/ ~m[2] \/ ~n[2])
     ELSE UNCHANGED <<table, entry, router, disturbed>>
  /\ UNCHANGED <<stored, work, cleared, down, moved, bounds>>

Step(a) ==
  \/ Persist(a) \/ Put(a) \/ Taint(a) \/ Detach(a) \/ Clear(a) \/ Remove(a)
  \/ RerouteStep(a)

MonitorStep == MonitorRead \/ MonitorLoad

Next ==
  \/ \E a \in Admins, p \in Path : Mount(a, p) \/ Unmount(a, p)
  \/ \E a \in Admins, s, d \in Path : Remount(a, s, d)
  \/ \E a \in Admins : Step(a) \/ Fail(a)
  \/ Restart
  \/ MonitorStep

(* Only the monitor's thread must go on; who asks, asks. *)
Spec == Init /\ [][Next]_vars /\ WF_vars(MonitorStep)

-----------------------------------------------------------------------------
(* Properties.                                                             *)

Serves(p, u) == router[p] # None /\ router[p].id = u /\ ~router[p].tainted
StoredAt(p, u) ==
  \E k \in Path : stored[k] # None /\ stored[k] = [id |-> u, path |-> p, tainted |-> FALSE]

(* Each table has as many engines in memory as in storage. *)
InStep == \A S \in {AuthPath, Path \ AuthPath} :
            Size([k \in S |-> table[k]]) = Size([k \in S |-> stored[k]])
SameIds == \A k \in Path : table[k] = IF stored[k] = None THEN None ELSE stored[k].id
AtRest == ~Busy /\ ~down /\ ~disturbed

(* Tables, routes and what is stored are well typed; an id is under one key. *)
TypeOK ==
  /\ table \in [Path -> Id \cup {None}]
  /\ entry \in [Id -> [path : Path, tainted : BOOLEAN]]
  /\ router \in [Path -> [id : Id, tainted : BOOLEAN] \cup {None}]
  /\ stored \in [Path -> [id : Id, path : Path, tainted : BOOLEAN] \cup {None}]
  /\ \A j, k \in Path : table[j] # None /\ table[j] = table[k] => j = k

(* No engine is routed at two paths, whatever remounts, failures, restarts  *)
(* and reloads come together (router.rs, remount; mount.rs, setup).         *)
OneRoute ==
  \A p, q \in Path : router[p] # None /\ router[q] # None /\ router[p].id = router[q].id
    => p = q

(* An engine whose view an unmount has begun to empty is not served, and a  *)
(* restart at any point will not serve it: its taint is stored first        *)
(* (mount.rs, unmount; auth/mod.rs, disable_auth).  Remounted engines are   *)
(* excepted: their taint is looked for under the wrong key.                 *)
ClearedNotServed ==
  ~disturbed => \A u \in cleared \ moved, p \in Path : ~Serves(p, u) /\ ~StoredAt(p, u)

(* Between requests, and with the same engines in memory as in storage, a   *)
(* restart serves what is served now, where it is served now: after any     *)
(* storage error, restart and reload (mount.rs, persist, setup).  Remounted *)
(* engines are excepted, and those that a failed unmount left tainted.      *)
ServedSurvives ==
  AtRest /\ SameIds =>
    \A p \in Path, u \in Id \ moved :
      \/ Serves(p, u) <=> StoredAt(p, u)
      \/ entry[u].tainted /\ \E k \in Path : table[k] = u

(* Without storage errors no taint is left behind in storage: a tainted     *)
(* auth method there would make every later unseal fail (mount.rs, setup).  *)
NoTaintLeft ==
  AtRest /\ faults = 0 /\ moved = {} =>
    \A k \in Path : stored[k] # None => ~stored[k].tainted

(* Tables and routes are well typed and an engine has one route.            *)
RoutesOK == TypeOK /\ OneRoute

(* What is served between requests is what an unseal will serve, and no     *)
(* taint stays behind to stop that unseal.                                  *)
RestartSafe == ServedSurvives /\ NoTaintLeft

(* A table that differs in size from the stored one is loaded again in the  *)
(* end: what a failed write left in memory only does not stay (MountsMonitor*)
(* ::start).                                                                *)
MonitorHeals == (~InStep) ~> (InStep \/ down)

(* "Moves an existing secrets engine to a new path. ... all configuration   *)
(* associated with the engine is preserved" (secrets_move.rs:16-17): an     *)
(* engine that is served is served after a restart, a moved one too.  Not   *)
(* so when its old path is mounted again: README, Known divergences.        *)
MoveSurvives ==
  AtRest /\ faults = 0 => \A p \in Path, u \in Id : Serves(p, u) => StoredAt(p, u)
=============================================================================
