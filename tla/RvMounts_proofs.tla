-------------------------- MODULE RvMounts_proofs --------------------------
(* Proofs about RvMounts, for every set of paths and any bounds: the layers *)
(* of RvMountsInvariant, one after the other.  XKeeps says that action X    *)
(* keeps the first, XSettles that it keeps the second; XView is the part of *)
(* XSettles about memory, storage and routes.  With several administrators  *)
(* an older image of a table may be the last that is written: the theorems  *)
(* on the second layer are for one.                                         *)
EXTENDS RvMountsInvariant, FiniteSetTheorems, SequenceTheorems, TLAPS

-----------------------------------------------------------------------------
(* Paths.                                                                   *)

LEMMA KindFacts ==
  ASSUME NEW p \in Path
  PROVE  /\ p \in Kind(p) /\ Kind(p) \subseteq Path
         /\ \A q \in Kind(p) : Kind(q) = Kind(p) /\ p \in Kind(q)
  BY DEF Kind

(* Of two paths only one can begin with the other. *)
LEMMA BelowOneWay ==
  ASSUME NEW p, NEW q, Within(p, q), Within(q, p)
  PROVE  p = q
<1>1. SUFFICES ASSUME p # q PROVE FALSE
  OBVIOUS
<1>2. <<p, q>> \in Below /\ <<q, p>> \in Below
  BY <1>1 DEF Within
<1>3. \A a, b \in Below : a[2] = b[1] => <<a[1], b[2]>> \in Below
  BY BelowAssumption
<1>4. <<p, q>>[2] = <<q, p>>[1] /\ <<p, q>>[1] = p /\ <<q, p>>[2] = p
  OBVIOUS
<1>5. <<p, p>> \in Below
  BY <1>2, <1>3, <1>4
<1>6. <<p, p>>[1] = <<p, p>>[2]
  OBVIOUS
<1>7. QED
  BY <1>5, <1>6, BelowAssumption

(* matching_view finds the engine at p itself, if there is one. *)
LEMMA NearestIsRouted ==
  ASSUME NEW p \in Path, router[p] # None
  PROVE  Nearest(p) = p
<1>1. p \in Matching(p)
  BY DEF Matching, Routed, Within
<1>2. \A r \in Matching(p) : Within(r, p)
  BY DEF Matching
<1>3. PICK q : q = Nearest(p)
  OBVIOUS
<1>4. q \in Matching(p) /\ \A r \in Matching(p) : Within(r, q)
  BY <1>1, <1>2, <1>3 DEF Nearest
<1>5. Within(q, p) /\ Within(p, q)
  BY <1>1, <1>2, <1>4
<1>6. QED
  BY <1>3, <1>5, BelowOneWay

(* The first layer.                                                         *)

LEMMA GoodIsRoutesOK ==
  ASSUME IInv PROVE RoutesOK
<1>1. PICK own, S : Good(own, S)
  BY DEF IInv
<1>2. \A j, k \in Path : table[j] # None /\ table[j] = table[k] => j = k
  BY <1>1 DEF Good, TableOK
<1>3. QED
  BY <1>1, <1>2 DEF RoutesOK, TypeOK, Good, TableOK, RouterOK, EntryOK, StoredOK, Row

LEMMA GoodInit ==
  ASSUME Init PROVE IInv
<1> DEFINE own == [u \in Id |-> Default]
<1>1. own \in [Id -> Path] /\ nextId \in Nat /\ 0 \in Id
  BY PathAssumption, BoundAssumption DEF Init, Id
<1>2. WorkOK(own, {})
  BY DEF Init, WorkOK
<1>3. TableOK(own) /\ RouterOK(own) /\ EntryOK(own)
  BY <1>1, PathAssumption DEF Init, TableOK, RouterOK, EntryOK, Kind
<1>4. OneRoute
  BY DEF Init, OneRoute
<1>5. StoredOK(own)
  BY <1>1, PathAssumption DEF Init, StoredOK, Copy, IsTable, Owned, Row, Kind
<1>6. Good(own, {})
  BY <1>1, <1>2, <1>3, <1>4, <1>5 DEF Good
<1>7. QED
  BY <1>6 DEF IInv

-----------------------------------------------------------------------------
(* The steps of requests.                                                   *)

LEMMA SeqGrows ==
  ASSUME NEW S, NEW T, NEW w \in Seq(S), S \subseteq T
  PROVE  w \in Seq(T)
  OBVIOUS

(* A request that begins brings new good steps. *)
LEMMA BeginWork ==
  ASSUME NEW own, NEW S, WorkOK(own, S), NEW a \in Admins,
         NEW N, NEW steps \in Seq(N), \A s \in N : StepOK(own, s)',
         \A s \in S : StepOK(own, s)',
         work' = [work EXCEPT ![a] = steps]
  PROVE  WorkOK(own, S \cup N)'
<1>1. \A b \in Admins : work[b] \in Seq(S \cup N)
  BY SeqGrows DEF WorkOK
<1>2. steps \in Seq(S \cup N)
  BY SeqGrows
<1>3. work' \in [Admins -> Seq(S \cup N)]
  BY <1>1, <1>2 DEF WorkOK
<1>4. QED
  BY <1>3 DEF WorkOK

(* One that goes on replaces its first step by new ones. *)
LEMMA ThenWork ==
  ASSUME NEW own, NEW S, WorkOK(own, S), NEW a \in Admins, work[a] # <<>>,
         NEW N, NEW steps \in Seq(N), \A s \in N : StepOK(own, s)',
         \A s \in S : StepOK(own, s)',
         Then(a, steps)
  PROVE  WorkOK(own, S \cup N)'
<1>1. work[a] \in Seq(S \cup N) /\ steps \in Seq(S \cup N)
  BY SeqGrows DEF WorkOK
<1>2. steps \o Tail(work[a]) \in Seq(S \cup N)
  BY <1>1
<1>3. \A b \in Admins : work[b] \in Seq(S \cup N)
  BY SeqGrows DEF WorkOK
<1>4. work' \in [Admins -> Seq(S \cup N)]
  BY <1>2, <1>3 DEF WorkOK, Then
<1>5. QED
  BY <1>4 DEF WorkOK

LEMMA HeadOK ==
  ASSUME NEW own, NEW S, WorkOK(own, S), NEW a \in Admins, work[a] # <<>>
  PROVE  StepOK(own, Head(work[a]))
<1>1. Head(work[a]) \in S
  BY DEF WorkOK
<1>2. QED
  BY <1>1 DEF WorkOK

(* Steps stay good while no id is given out. *)
LEMMA StepsStay ==
  ASSUME NEW own, NEW S, WorkOK(own, S), nextId' = nextId
  PROVE  \A s \in S : StepOK(own, s)'
  BY DEF WorkOK, StepOK, Copy, IsTable, Owned, UndoOK

(* A request that is refused drops its steps. *)
LEMMA RefuseWork ==
  ASSUME NEW own, NEW S, WorkOK(own, S), NEW a \in Admins, Refuse(a), nextId' = nextId
  PROVE  WorkOK(own, S)'
<1>1. work' \in [Admins -> Seq(S)]
  BY DEF WorkOK, Refuse
<1>2. QED
  BY <1>1, StepsStay DEF WorkOK

(* Going on without a new step. *)
LEMMA DoneWork ==
  ASSUME NEW own, NEW S, WorkOK(own, S), NEW a \in Admins, work[a] # <<>>,
         Then(a, <<>>), nextId' = nextId
  PROVE  WorkOK(own, S)'
<1>1. <<>> \in Seq({})
  OBVIOUS
<1>2. WorkOK(own, S \cup {})'
  BY <1>1, StepsStay, ThenWork
<1>3. S \cup {} = S
  OBVIOUS
<1>4. QED
  BY <1>2, <1>3

LEMMA SameTables ==
  ASSUME NEW own, UNCHANGED nextId
  PROVE  /\ TableOK(own) /\ UNCHANGED table => TableOK(own)'
         /\ RouterOK(own) /\ UNCHANGED router => RouterOK(own)'
         /\ OneRoute /\ UNCHANGED router => OneRoute'
         /\ EntryOK(own) /\ UNCHANGED entry => EntryOK(own)'
         /\ StoredOK(own) /\ UNCHANGED <<stored, seen>> => StoredOK(own)'
  BY DEF TableOK, RouterOK, OneRoute, EntryOK, StoredOK, Copy, IsTable, Owned

(* A taint leaves the paths of entries as they are. *)
LEMMA EntryTainted ==
  ASSUME NEW own, EntryOK(own), NEW u, entry' = [entry EXCEPT ![u].tainted = TRUE],
         UNCHANGED nextId
  PROVE  /\ EntryOK(own)'
         /\ \A v \in Id : entry'[v].path = entry[v].path
         /\ \A v \in Id : v # u => entry'[v] = entry[v]
         /\ u \in Id => entry'[u].tainted = TRUE
<1>1. \A v \in Id : entry[v] \in [path : Path, tainted : BOOLEAN]
  BY DEF EntryOK
<1>2. ASSUME NEW v \in Id
      PROVE  /\ entry'[v] \in [path : Path, tainted : BOOLEAN]
             /\ entry'[v].path = entry[v].path
             /\ v # u => entry'[v] = entry[v]
             /\ v = u => entry'[v].tainted = TRUE
  <2>1. PICK e \in [path : Path, tainted : BOOLEAN] : e = entry[v]
    BY <1>1
  <2>2. entry'[v] = IF v = u THEN [e EXCEPT !.tainted = TRUE] ELSE e
    BY <2>1 DEF EntryOK
  <2>3. CASE v = u
    <3>1. PICK f : f = [e EXCEPT !.tainted = TRUE]
      OBVIOUS
    <3>2. f \in [path : Path, tainted : BOOLEAN]
      BY <3>1, <2>1
    <3>3. f.path = e.path
      BY <3>1, <2>1
    <3>4. f.tainted = TRUE
      BY <3>1, <2>1
    <3>5. entry'[v] = f
      BY <2>2, <2>3, <3>1
    <3>6. QED
      BY <2>1, <2>3, <3>2, <3>3, <3>4, <3>5
  <2>4. CASE v # u
    BY <2>1, <2>2, <2>4
  <2>5. QED
    BY <2>3, <2>4
<1>3. entry' \in [Id -> [path : Path, tainted : BOOLEAN]]
  BY <1>2 DEF EntryOK
<1>4. QED
  BY <1>2, <1>3 DEF EntryOK

LEMMA StillGood ==
  ASSUME NEW own, NEW S, NEW T, Good(own, S), WorkOK(own, T)', UNCHANGED nextId,
         TableOK(own)', RouterOK(own)', OneRoute', EntryOK(own)', StoredOK(own)'
  PROVE  IInv'
<1>1. Good(own, T)'
  BY DEF Good
<1>2. QED
  BY <1>1 DEF IInv

LEMMA ImageIsCopy ==
  ASSUME NEW own, NEW S, Good(own, S), NEW p \in Path
  PROVE  Copy(own, Image(p)) /\ DOMAIN Image(p) = Kind(p)
<1>1. DOMAIN Image(p) = Kind(p) /\ Kind(p) \subseteq Path
  BY DEF Image, Kind
<1>2. ASSUME NEW k \in Kind(p), table[k] # None
      PROVE  /\ Image(p)[k] = [id |-> table[k], path |-> entry[table[k]].path,
                               tainted |-> entry[table[k]].tainted]
             /\ Image(p)[k] \in Row /\ own[table[k]] = k /\ table[k] < nextId
             /\ Image(p)[k].path \in Kind(k)
  BY <1>1, <1>2 DEF Image, Row, Good, TableOK, EntryOK
<1>3. ASSUME NEW k \in Kind(p), table[k] = None PROVE Image(p)[k] = None
  BY <1>3 DEF Image
<1>4. QED
  BY <1>1, <1>2, <1>3 DEF Copy, IsTable, Owned

(* A new engine takes an id no table and no route has. *)
LEMMA MountKeeps ==
  ASSUME NEW own, NEW S, Good(own, S), NEW a \in Admins, NEW p \in Path, Mount(a, p)
  PROVE  IInv'
<1> DEFINE s == <<"persist", p, None>>
<1>1. /\ nextId \in Id /\ nextId \in Nat /\ nextId' = nextId + 1
  BY BoundAssumption DEF Good, Mount, Id
<1>2. PICK own2 : own2 = [own EXCEPT ![nextId] = p]
  OBVIOUS
<1>3. own2 \in [Id -> Path] /\ own2[nextId] = p /\ \A u \in Id : u < nextId => own2[u] = own[u]
  BY <1>1, <1>2 DEF Good, Id
<1>4. ASSUME NEW tab, Copy(own, tab) PROVE Copy(own2, tab)'
  <2>1. \A k \in DOMAIN tab : tab[k] # None => tab[k].id \in Id
    BY <1>4 DEF Copy, IsTable, Row
  <2>2. \A u \in Id : u < nextId => u < nextId'
    BY <1>1 DEF Id
  <2>3. QED
    BY <1>3, <1>4, <2>1, <2>2 DEF Copy, IsTable, Owned
<1>5. \A x \in S : StepOK(own2, x)'
  <2>1. ASSUME NEW undo, UndoOK(own, undo) PROVE UndoOK(own2, undo)'
    BY <1>1, <1>3, <2>1 DEF UndoOK, Id
  <2>2. QED
    BY <1>4, <2>1 DEF Good, WorkOK, StepOK
<1>6. WorkOK(own2, S \cup {s})'
  <2>1. <<s>> \in Seq({s}) /\ work' = [work EXCEPT ![a] = <<s>>]
    BY DEF Mount, Begin
  <2>2. StepOK(own2, s)'
    BY DEF StepOK, UndoOK
  <2>3. \A b \in Admins : work[b] \in Seq(S \cup {s})
    BY SeqGrows DEF Good, WorkOK
  <2>4. work' \in [Admins -> Seq(S \cup {s})]
    <3> HIDE DEF s
    <3> QED BY <2>1, <2>3 DEF Good, WorkOK
  <2>5. QED
    BY <1>5, <2>2, <2>4 DEF WorkOK
<1>7. TableOK(own2)'
  <2>1. table' = [table EXCEPT ![p] = nextId]
    BY DEF Mount
  <2>2. \A u \in Id : u < nextId => u < nextId'
    BY <1>1 DEF Id
  <2>3. table' \in [Path -> Id \cup {None}]
    BY <1>1, <2>1 DEF Good, TableOK
  <2>4. ASSUME NEW k \in Path, table'[k] # None
        PROVE  own2[table'[k]] = k /\ table'[k] < nextId'
    <3>1. CASE k = p
      <4>1. table'[k] = nextId
        BY <2>1, <3>1 DEF Good, TableOK
      <4>2. QED
        BY <1>1, <1>3, <3>1, <4>1
    <3>2. CASE k # p
      <4>1. table'[k] = table[k] /\ table[k] \in Id
        BY <2>1, <2>4, <3>2 DEF Good, TableOK
      <4>2. table[k] < nextId /\ own[table[k]] = k
        BY <2>4, <4>1 DEF Good, TableOK
      <4>3. QED
        BY <1>3, <2>2, <4>1, <4>2
    <3>3. QED
      BY <3>1, <3>2
  <2>5. QED
    BY <2>3, <2>4 DEF TableOK
<1>8. RouterOK(own2)' /\ OneRoute'
  <2>1. router' = [router EXCEPT ![p] = [id |-> nextId, tainted |-> FALSE]]
    BY DEF Mount
  <2>2. \A q \in Path : router[q] # None =>
          router[q].id \in Id /\ router[q].id < nextId /\ q \in Kind(own2[router[q].id])
    BY <1>3 DEF Good, RouterOK
  <2>3. \A u \in Id : u < nextId => u < nextId' /\ u # nextId
    BY <1>1 DEF Id
  <2>4. PICK r \in [id : Id, tainted : BOOLEAN] : r = [id |-> nextId, tainted |-> FALSE]
    BY <1>1
  <2>5. \A q \in Path : router'[q] = IF q = p THEN r ELSE router[q]
    BY <2>1, <2>4 DEF Good, RouterOK
  <2>6. RouterOK(own2)'
    <3>1. router' \in [Path -> [id : Id, tainted : BOOLEAN] \cup {None}]
      BY <2>1, <2>4 DEF Good, RouterOK
    <3>2. r.id < nextId' /\ p \in Kind(own2[r.id])
      BY <1>1, <1>3, <2>4, KindFacts
    <3>3. \A q \in Path : router'[q] # None =>
            router'[q].id < nextId' /\ q \in Kind(own2[router'[q].id])
      BY <2>2, <2>3, <2>5, <3>2
    <3>4. QED
      BY <3>1, <3>3 DEF RouterOK
  <2>7. r.id = nextId
    BY <2>4
  <2>8. \A q \in Path : router[q] # None => router[q].id # nextId
    BY <2>2, <2>3
  <2>9. OneRoute'
    BY <2>5, <2>7, <2>8 DEF Good, OneRoute
  <2>10. QED
    BY <2>6, <2>9
<1>9. EntryOK(own2)'
  <2>1. /\ entry' \in [Id -> [path : Path, tainted : BOOLEAN]]
        /\ \A u \in Id : entry'[u] = IF u = nextId THEN [path |-> p, tainted |-> FALSE] ELSE entry[u]
    BY <1>1 DEF Good, EntryOK, Mount
  <2>2. ASSUME NEW u \in Id, u < nextId' PROVE entry'[u].path \in Kind(own2[u])
    <3>1. CASE u = nextId
      BY <1>3, <2>1, <3>1, KindFacts
    <3>2. CASE u # nextId
      <4>1. u < nextId /\ entry'[u] = entry[u] /\ own2[u] = own[u]
        BY <1>1, <1>3, <2>1, <2>2, <3>2 DEF Id
      <4>2. QED
        BY <4>1 DEF Good, EntryOK
    <3>3. QED
      BY <3>1, <3>2
  <2>3. QED
    BY <2>1, <2>2 DEF EntryOK
<1>10. StoredOK(own2)'
  BY <1>4 DEF Good, StoredOK, Mount
<1>11. Good(own2, S \cup {s})'
  BY <1>1, <1>3, <1>6, <1>7, <1>8, <1>9, <1>10 DEF Good
<1>12. QED
  BY <1>11 DEF IInv

LEMMA UnmountKeeps ==
  ASSUME NEW own, NEW S, Good(own, S), NEW a \in Admins, NEW p \in Path, Unmount(a, p)
  PROVE  IInv'
<1>1. PICK c : c = <<"clear", router[Nearest(p)].id>>
  OBVIOUS
<1> DEFINE N == {<<"taint", p>>, <<"detach", p>>, c, <<"remove", p>>}
<1>2. PICK steps \in Seq(N) : work' = [work EXCEPT ![a] = steps]
  <2>1. \/ work' = [work EXCEPT ![a] = <<<<"taint", p>>, <<"detach", p>>>> \o <<>> \o <<<<"remove", p>>>>]
        \/ work' = [work EXCEPT ![a] = <<<<"taint", p>>, <<"detach", p>>>> \o <<c>> \o <<<<"remove", p>>>>]
    BY <1>1 DEF Unmount, Begin
  <2>2. /\ <<<<"taint", p>>, <<"detach", p>>>> \in Seq(N) /\ <<>> \in Seq(N)
        /\ <<c>> \in Seq(N) /\ <<<<"remove", p>>>> \in Seq(N)
    OBVIOUS
  <2>3. /\ <<<<"taint", p>>, <<"detach", p>>>> \o <<>> \o <<<<"remove", p>>>> \in Seq(N)
        /\ <<<<"taint", p>>, <<"detach", p>>>> \o <<c>> \o <<<<"remove", p>>>> \in Seq(N)
    <3> DEFINE t == <<<<"taint", p>>, <<"detach", p>>>>
               z == <<<<"remove", p>>>>
    <3> HIDE DEF N, t, z
    <3>1. t \in Seq(N) /\ z \in Seq(N) /\ <<>> \in Seq(N) /\ <<c>> \in Seq(N)
      BY <2>2 DEF t, z
    <3>2. t \o <<>> \in Seq(N) /\ t \o <<c>> \in Seq(N)
      BY <3>1
    <3>3. t \o <<>> \o z \in Seq(N) /\ t \o <<c>> \o z \in Seq(N)
      BY <3>1, <3>2
    <3>4. QED
      BY <3>3 DEF t, z
  <2>4. QED
    <3> HIDE DEF N
    <3> QED BY <2>1, <2>3
<1>3. nextId' = nextId
  BY DEF Unmount
<1>4. \A s \in N : StepOK(own, s)'
  BY <1>1 DEF StepOK
<1>5. WorkOK(own, S \cup N)'
  <2> HIDE DEF N
  <2> QED BY <1>2, <1>3, <1>4, StepsStay, BeginWork DEF Good
<1>6. QED
  BY <1>3, <1>5, SameTables, StillGood DEF Good, Unmount

LEMMA RemountKeeps ==
  ASSUME NEW own, NEW S, Good(own, S), NEW a \in Admins, NEW s \in Path, NEW d \in Path,
         Remount(a, s, d)
  PROVE  IInv'
<1>1. PICK u : u = router[Nearest(s)].id
  OBVIOUS
<1>2. UNCHANGED <<table, stored, seen, nextId>>
  BY DEF Remount
<1>3. CASE router[s] = None
  <2>1. /\ work' = [work EXCEPT ![a] = <<>>]
        /\ entry' = [entry EXCEPT ![u].tainted = TRUE] /\ UNCHANGED router
    BY <1>1, <1>3 DEF Remount, Begin
  <2>2. WorkOK(own, S)'
    <3>1. work' \in [Admins -> Seq(S)]
      BY <2>1 DEF Good, WorkOK
    <3>2. QED
      BY <1>2, <3>1, StepsStay DEF Good, WorkOK
  <2>3. EntryOK(own)'
    BY <1>2, <2>1, EntryTainted DEF Good
  <2>4. QED
    BY <1>2, <2>1, <2>2, <2>3, SameTables, StillGood DEF Good
<1>4. CASE router[s] # None
  <2>1. PICK x : x = <<"persist", s, <<u, entry[u].path>>>>
    OBVIOUS
  <2> DEFINE N == {x, <<"reroute", s, d>>}
  <2>2. /\ work' = [work EXCEPT ![a] = <<x, <<"reroute", s, d>>>>]
        /\ entry' = [entry EXCEPT ![u] = [path |-> d, tainted |-> FALSE]]
        /\ router' = [router EXCEPT ![s].tainted = TRUE]
    BY <1>1, <1>4, <2>1 DEF Remount, Begin
  <2>0. u = router[s].id /\ u \in Id /\ u < nextId /\ s \in Kind(own[u])
    BY <1>1, <1>4, NearestIsRouted DEF Good, RouterOK
  <2>9. d \in Kind(s) /\ own[u] \in Path
    BY <2>0 DEF Remount, Good
  <2>3. UndoOK(own, <<u, entry[u].path>>)
    BY <2>0 DEF Good, EntryOK, UndoOK
  <2>4. StepOK(own, x)' /\ StepOK(own, <<"reroute", s, d>>)'
    <3>1. x[1] = "persist" /\ x[2] = s /\ UndoOK(own, x[3])'
      BY <1>2, <2>1, <2>3 DEF UndoOK
    <3>2. QED
      BY <2>9, <3>1 DEF StepOK
  <2>5. WorkOK(own, S \cup N)'
    <3>1. <<x, <<"reroute", s, d>>>> \in Seq(N)
      OBVIOUS
    <3>2. \A y \in N : StepOK(own, y)'
      BY <2>4
    <3>3. QED
      <4> HIDE DEF N
      <4> QED BY <1>2, <2>2, <3>1, <3>2, StepsStay, BeginWork DEF Good
  <2>6. EntryOK(own)'
    BY <1>2, <2>0, <2>2, <2>9, KindFacts DEF Good, EntryOK
  <2>7. RouterOK(own)' /\ OneRoute'
    <3>1. /\ router[s] \in [id : Id, tainted : BOOLEAN]
          /\ router'[s] = [router[s] EXCEPT !.tainted = TRUE]
          /\ router' = [router EXCEPT ![s] = router'[s]]
      BY <1>4, <2>2 DEF Good, RouterOK
    <3>2. router'[s] \in [id : Id, tainted : BOOLEAN] /\ router'[s].id = router[s].id
      BY <3>1
    <3>3. PICK r : r = router'[s]
      OBVIOUS
    <3>4. \A q \in Path : router'[q] = IF q = s THEN r ELSE router[q]
      BY <2>2, <3>3 DEF Good, RouterOK
    <3>5. r \in [id : Id, tainted : BOOLEAN] /\ r.id = router[s].id
      BY <3>2, <3>3
    <3>6. router' \in [Path -> [id : Id, tainted : BOOLEAN] \cup {None}]
      BY <2>2, <3>1, <3>3, <3>5 DEF Good, RouterOK
    <3>7. RouterOK(own)'
      BY <1>2, <1>4, <3>4, <3>5, <3>6 DEF Good, RouterOK
    <3>8. OneRoute'
      BY <1>4, <3>4, <3>5 DEF Good, OneRoute
    <3>9. QED
      BY <3>7, <3>8
  <2>8. QED
    BY <1>2, <2>5, <2>6, <2>7, SameTables, StillGood DEF Good
<1>5. QED
  BY <1>3, <1>4

LEMMA PersistKeeps ==
  ASSUME NEW own, NEW S, Good(own, S), NEW a \in Admins, Persist(a)
  PROVE  IInv'
<1> DEFINE h == Head(work[a])
<1>1. work[a] # <<>> /\ h[1] = "persist" /\ UNCHANGED <<table, entry, router, stored, seen, nextId>>
  BY DEF Persist, At, bounds
<1>2. StepOK(own, h)
  BY <1>1, HeadOK DEF Good
<1>3. h[2] \in Path /\ UndoOK(own, h[3])
  BY <1>1, <1>2 DEF StepOK
<1>4. PICK x : x = <<"put", Image(h[2]), h[3]>>
  OBVIOUS
<1>5. Copy(own, Image(h[2]))
  BY <1>3, ImageIsCopy
<1>6. StepOK(own, x)
  BY <1>3, <1>4, <1>5 DEF StepOK
<1>7. StepOK(own, x)'
  BY <1>1, <1>6 DEF StepOK, Copy, IsTable, Owned, UndoOK
<1>8. Then(a, <<x>>)
  BY <1>4 DEF Persist, Arg
<1>9. WorkOK(own, S \cup {x})'
  <2>1. <<x>> \in Seq({x}) /\ \A y \in {x} : StepOK(own, y)'
    BY <1>7
  <2>2. QED
    BY <1>1, <1>8, <2>1, StepsStay, ThenWork DEF Good
<1>10. QED
  BY <1>1, <1>9, SameTables, StillGood DEF Good

(* A write puts a copy of one table over the stored one. *)
LEMMA PutKeeps ==
  ASSUME NEW own, NEW S, Good(own, S), NEW a \in Admins, Put(a)
  PROVE  IInv'
<1> DEFINE h == Head(work[a])
           tab == h[2]
<1>1. work[a] # <<>> /\ h[1] = "put" /\ UNCHANGED <<table, entry, router, seen, nextId>>
  BY DEF Put, At, bounds
<1>2. Copy(own, tab)
  BY <1>1, HeadOK DEF Good, StepOK
<1>3. stored' = [k \in Path |-> IF k \in DOMAIN tab THEN tab[k] ELSE stored[k]]
  BY DEF Put, Arg
<1>4. StoredOK(own)'
  <2>1. ASSUME NEW k \in Path
        PROVE  /\ stored'[k] \in Row \cup {None}
               /\ stored'[k] # None => 
                    /\ own[stored'[k].id] = k /\ stored'[k].id < nextId
                    /\ stored'[k].path \in Kind(k)
    <3> HIDE DEF tab
    <3> QED BY <1>2, <1>3 DEF Good, StoredOK, Copy, IsTable, Owned
  <2>2. DOMAIN stored' = Path /\ stored' \in [Path -> Row \cup {None}]
    <3> HIDE DEF tab
    <3> QED BY <1>3, <2>1
  <2>3. Copy(own, stored)'
    BY <1>1, <2>1, <2>2 DEF Copy, IsTable, Owned
  <2>4. QED
    BY <1>1, <2>2, <2>3 DEF Good, StoredOK, Copy, IsTable, Owned
<1>5. WorkOK(own, S)'
  BY <1>1, DoneWork DEF Good, Put
<1>6. QED
  BY <1>1, <1>4, <1>5, SameTables, StillGood DEF Good

LEMMA TaintKeeps ==
  ASSUME NEW own, NEW S, Good(own, S), NEW a \in Admins, Taint(a)
  PROVE  IInv'
<1>0. PICK p : p = Head(work[a])[2]
  OBVIOUS
<1>1. work[a] # <<>> /\ Head(work[a])[1] = "taint" /\ UNCHANGED <<table, router, stored, seen, nextId>>
  BY DEF Taint, At, bounds
<1>2. p \in Path
  BY <1>0, <1>1, HeadOK DEF Good, StepOK
<1>3. EntryOK(own)'
  <2>1. UNCHANGED entry \/ entry' = [entry EXCEPT ![table[p]].tainted = TRUE]
    BY <1>0 DEF Taint, Arg
  <2>2. QED
    BY <1>1, <2>1, EntryTainted, SameTables DEF Good
<1> DEFINE x == <<"persist", p, None>>
<1>4. \E T : WorkOK(own, T)'
  <2>1. CASE Then(a, <<>>)
    BY <1>1, <2>1, DoneWork DEF Good
  <2>2. CASE Then(a, <<x>>)
    <3>1. StepOK(own, x)'
      BY <1>2 DEF StepOK, UndoOK
    <3>2. <<x>> \in Seq({x}) /\ \A y \in {x} : StepOK(own, y)'
      BY <3>1
    <3>3. WorkOK(own, S \cup {x})'
      <4> HIDE DEF x
      <4> QED BY <1>1, <2>2, <3>2, StepsStay, ThenWork DEF Good
    <3>4. QED
      <4> HIDE DEF x
      <4> QED BY <3>3
  <2>3. QED
    BY <1>0, <2>1, <2>2 DEF Taint, Arg
<1>5. QED
  BY <1>1, <1>3, <1>4, SameTables, StillGood DEF Good

LEMMA DetachStepKeeps ==
  ASSUME NEW own, NEW S, Good(own, S), NEW a \in Admins, Detach(a)
  PROVE  IInv'
<1> DEFINE p == Head(work[a])[2]
<1>1. work[a] # <<>> /\ UNCHANGED <<table, entry, stored, seen, nextId>>
  BY DEF Detach, At, bounds
<1>2. UNCHANGED router \/ router' = [router EXCEPT ![p] = None]
  BY DEF Detach, Arg
<1>3. RouterOK(own)' /\ OneRoute'
  BY <1>1, <1>2 DEF Good, RouterOK, OneRoute
<1>4. WorkOK(own, S)'
  BY <1>1, RefuseWork, DoneWork DEF Good, Detach
<1>5. QED
  BY <1>1, <1>3, <1>4, SameTables, StillGood DEF Good

LEMMA ClearKeeps ==
  ASSUME NEW own, NEW S, Good(own, S), NEW a \in Admins, Clear(a)
  PROVE  IInv'
<1>1. work[a] # <<>> /\ UNCHANGED <<table, entry, router, stored, seen, nextId>>
  BY DEF Clear, At, bounds
<1>2. WorkOK(own, S)'
  BY <1>1, DoneWork DEF Good, Clear
<1>3. QED
  BY <1>1, <1>2, SameTables, StillGood DEF Good

LEMMA RemoveKeeps ==
  ASSUME NEW own, NEW S, Good(own, S), NEW a \in Admins, Remove(a)
  PROVE  IInv'
<1>0. PICK p : p = Head(work[a])[2]
  OBVIOUS
<1> DEFINE x == <<"persist", p, None>>
<1>1. work[a] # <<>> /\ Head(work[a])[1] = "remove" /\ UNCHANGED <<entry, router, stored, seen, nextId>>
  BY DEF Remove, At, bounds
<1>2. p \in Path
  BY <1>0, <1>1, HeadOK DEF Good, StepOK
<1>3. TableOK(own)'
  <2>1. table' = [table EXCEPT ![p] = None]
    BY <1>0 DEF Remove, Arg
  <2>2. QED
    BY <1>1, <2>1 DEF Good, TableOK
<1>4. \E T : WorkOK(own, T)'
  <2>1. CASE Then(a, <<>>)
    BY <1>1, <2>1, DoneWork DEF Good
  <2>2. CASE Then(a, <<x>>)
    <3>1. StepOK(own, x)'
      BY <1>2 DEF StepOK, UndoOK
    <3>2. <<x>> \in Seq({x}) /\ \A y \in {x} : StepOK(own, y)'
      BY <3>1
    <3>3. WorkOK(own, S \cup {x})'
      <4> HIDE DEF x
      <4> QED BY <1>1, <2>2, <3>2, StepsStay, ThenWork DEF Good
    <3>4. QED
      <4> HIDE DEF x
      <4> QED BY <3>3
  <2>3. QED
    BY <1>0, <2>1, <2>2 DEF Remove, Arg
<1>5. QED
  BY <1>1, <1>3, <1>4, SameTables, StillGood DEF Good

(* A remount moves the one route of its engine. *)
LEMMA RerouteKeeps ==
  ASSUME NEW own, NEW S, Good(own, S), NEW a \in Admins, RerouteStep(a)
  PROVE  IInv'
<1> DEFINE h == Head(work[a])
           s == h[2]
           d == h[3]
<1>1. work[a] # <<>> /\ h[1] = "reroute" /\ UNCHANGED <<table, entry, stored, seen, nextId>>
  BY DEF RerouteStep, At, bounds
<1>2. s \in Path /\ d \in Path /\ d \in Kind(s)
  BY <1>1, HeadOK, KindFacts DEF Good, StepOK
<1>3. RouterOK(own)' /\ OneRoute'
  <2>1. CASE UNCHANGED router
    BY <1>1, <2>1, SameTables DEF Good
  <2>2. CASE router[s] # None /\ Reroute(s, d)
    <3>1. PICK r : r = [router[s] EXCEPT !.tainted = FALSE]
      OBVIOUS
    <3>2. router[s] \in [id : Id, tainted : BOOLEAN] /\ router[s].id < nextId
      BY <1>2, <2>2 DEF Good, RouterOK
    <3>3. r \in [id : Id, tainted : BOOLEAN] /\ r.id = router[s].id
      BY <3>1, <3>2
    <3>4. router' = [router EXCEPT ![d] = r, ![s] = None]
      BY <2>2, <3>1 DEF Reroute
    <3>5. \A p \in Path : router'[p] = IF p = s THEN None ELSE IF p = d THEN r ELSE router[p]
      <4> HIDE DEF s, d
      <4> QED BY <1>2, <3>4 DEF Good, RouterOK
    <3>6. router' \in [Path -> [id : Id, tainted : BOOLEAN] \cup {None}]
      <4> HIDE DEF s, d
      <4> QED BY <1>2, <3>3, <3>4 DEF Good, RouterOK
    <3>7. \A p \in Path : router[p] # None =>
            router[p].id < nextId /\ p \in Kind(own[router[p].id]) /\ router[p].id \in Id
      BY DEF Good, RouterOK
    <3>8. d \in Kind(own[router[s].id])
      BY <1>2, <2>2, <3>7, KindFacts DEF Good
    <3>9. RouterOK(own)'
      <4> HIDE DEF s, d
      <4> QED BY <1>1, <1>2, <2>2, <3>3, <3>5, <3>6, <3>7, <3>8 DEF RouterOK
    <3>10. OneRoute'
      <4> HIDE DEF s, d
      <4> QED BY <1>2, <2>2, <3>3, <3>5 DEF Good, OneRoute
    <3>11. QED
      BY <3>9, <3>10
  <2>3. QED
    BY <2>1, <2>2 DEF RerouteStep, Arg
<1>4. WorkOK(own, S)'
  BY <1>1, RefuseWork, DoneWork DEF Good, RerouteStep
<1>5. QED
  BY <1>1, <1>3, <1>4, SameTables, StillGood DEF Good

(* A remount undone gives its entry back a path it had. *)
LEMMA FailKeeps ==
  ASSUME NEW own, NEW S, Good(own, S), NEW a \in Admins, Fail(a)
  PROVE  IInv'
<1> DEFINE h == Head(work[a])
<1>1. work[a] # <<>> /\ Refuse(a) /\ UNCHANGED <<table, router, stored, seen, nextId>>
  BY DEF Fail, At
<1>2. CASE UNCHANGED entry
  BY <1>1, <1>2, RefuseWork, SameTables, StillGood DEF Good
<1>3. CASE h[1] = "put" /\ h[3] # None
           /\ entry' = [entry EXCEPT ![h[3][1]] = [path |-> h[3][2], tainted |-> TRUE]]
  <2>1. UndoOK(own, h[3])
    BY <1>1, <1>3, HeadOK DEF Good, StepOK
  <2>2. /\ h[3][1] \in Id /\ h[3][1] < nextId /\ h[3][2] \in Path
        /\ h[3][2] \in Kind(own[h[3][1]])
    BY <1>3, <2>1, KindFacts DEF UndoOK, Good
  <2>3. EntryOK(own)'
    <3> HIDE DEF h
    <3> QED BY <1>1, <1>3, <2>2 DEF Good, EntryOK
  <2>4. QED
    BY <1>1, <2>3, RefuseWork, SameTables, StillGood DEF Good
<1>4. QED
  BY <1>2, <1>3 DEF Fail, At, Arg
-----------------------------------------------------------------------------
(* Loading a table, at a restart and by the monitor.                        *)

LEMMA LoadIsGood ==
  ASSUME NEW own, NEW S, Good(own, S), NEW tab, DOMAIN tab = Path, Copy(own, tab),
         Load(tab), nextId' = nextId
  PROVE  TableOK(own)' /\ EntryOK(own)'
<1>1. \A k \in Path : tab[k] # None =>
        tab[k] \in Row /\ own[tab[k].id] = k /\ tab[k].id < nextId /\ tab[k].path \in Kind(k)
  BY DEF Copy, IsTable, Owned
<1>2. \A k \in Path : table'[k] = IF tab[k] = None THEN None ELSE tab[k].id
  BY DEF Load
<1>3. table' \in [Path -> Id \cup {None}]
  BY <1>1 DEF Load, Row
<1>4. TableOK(own)'
  BY <1>1, <1>2, <1>3 DEF TableOK
<1>5. ASSUME NEW u \in Id
      PROVE  /\ entry'[u] \in [path : Path, tainted : BOOLEAN]
             /\ u < nextId => entry'[u].path \in Kind(own[u])
  <2>1. CASE \E k \in Keys(tab) : tab[k].id = u
    <3>1. PICK k \in Keys(tab) : /\ entry'[u] = [path |-> tab[k].path, tainted |-> tab[k].tainted]
                                 /\ tab[k].id = u
      BY <2>1 DEF Load
    <3>2. tab[k] \in Row /\ own[u] = k /\ tab[k].path \in Kind(k)
      BY <1>1, <3>1 DEF Keys
    <3>3. QED
      BY <3>1, <3>2 DEF Row
  <2>2. CASE ~\E k \in Keys(tab) : tab[k].id = u
    BY <2>2 DEF Load, Good, EntryOK
  <2>3. QED
    BY <2>1, <2>2
<1>6. EntryOK(own)'
  BY <1>5 DEF Load, EntryOK
<1>7. QED
  BY <1>4, <1>6

(* Whatever setup mounts, it mounts keys of its table. *)
LEMMA SetupsAreKeys ==
  ASSUME NEW tab, NEW m \in Setups(tab)
  PROVE  m[1] \subseteq Keys(tab)
<1>1. \/ \E S \in SUBSET Keys(tab) : m = <<S, FALSE>>
      \/ m = <<Keys(tab), TRUE>>
  <2> DEFINE Mountable(S) == Apart(tab, S) /\ (Refused(tab, S) # {} \/ Cardinality(Stuck(tab, S)) = 1)
             Firsts == {<<S, FALSE>> : S \in {S \in SUBSET Keys(tab) : Mountable(S)}}
             Whole == IF Apart(tab, Keys(tab)) /\ Stuck(tab, Keys(tab)) = {}
                        THEN {<<Keys(tab), TRUE>>} ELSE {}
  <2>1. m \in Firsts \cup Whole
    BY DEF Setups
  <2>2. m \in Firsts => \E S \in SUBSET Keys(tab) : m = <<S, FALSE>>
    <3> HIDE DEF Mountable
    <3> QED OBVIOUS
  <2>3. m \in Whole => m = <<Keys(tab), TRUE>>
    OBVIOUS
  <2>4. QED
    <3> HIDE DEF Firsts, Whole
    <3> QED BY <2>1, <2>2, <2>3
<1>2. QED
  <2>1. ASSUME NEW S \in SUBSET Keys(tab), m = <<S, FALSE>> PROVE m[1] \subseteq Keys(tab)
    <3>1. m[1] = S
      BY <2>1
    <3>2. QED
      BY <3>1
  <2>2. ASSUME m = <<Keys(tab), TRUE>> PROVE m[1] \subseteq Keys(tab)
    <3>1. m[1] = Keys(tab)
      BY <2>2
    <3>2. QED
      BY <3>1
  <2>3. QED
    BY <1>1, <2>1, <2>2

(* Two keys hold two ids, so the routes set up lead to different engines.   *)
LEMMA RoutesAreGood ==
  ASSUME NEW own, NEW tab, DOMAIN tab = Path, Copy(own, tab), NEW S, S \subseteq Keys(tab),
         router' = Routes(tab, S), nextId' = nextId
  PROVE  RouterOK(own)' /\ OneRoute'
<1>1. ASSUME NEW p \in Path
      PROVE  \/ router'[p] = None
             \/ \E k \in S : /\ tab[k].path = p
                             /\ router'[p] = [id |-> tab[k].id, tainted |-> tab[k].tainted]
  BY DEF Routes
<1>2. \A k \in S : /\ tab[k] \in Row /\ own[tab[k].id] = k /\ tab[k].id < nextId
                   /\ tab[k].path \in Kind(k)
  BY DEF Copy, IsTable, Owned, Keys
<1>3. ASSUME NEW p \in Path, router'[p] # None
      PROVE  /\ router'[p] \in [id : Id, tainted : BOOLEAN] /\ router'[p].id < nextId
             /\ tab[own[router'[p].id]].path = p /\ p \in Kind(own[router'[p].id])
  <2>1. PICK k \in S : /\ tab[k].path = p
                       /\ router'[p] = [id |-> tab[k].id, tainted |-> tab[k].tainted]
    BY <1>1, <1>3
  <2>2. tab[k].id \in Id /\ tab[k].tainted \in BOOLEAN /\ own[tab[k].id] = k /\ tab[k].id < nextId
        /\ tab[k].path \in Kind(k)
    BY <1>2 DEF Row
  <2>3. QED
    BY <2>1, <2>2
<1>4. RouterOK(own)'
  <2>1. router' \in [Path -> [id : Id, tainted : BOOLEAN] \cup {None}]
    BY <1>3 DEF Routes
  <2>2. QED
    BY <1>3, <2>1 DEF RouterOK
<1>5. OneRoute'
  BY <1>3 DEF OneRoute
<1>6. QED
  BY <1>4, <1>5

LEMMA SetupIsGood ==
  ASSUME NEW own, NEW tab, DOMAIN tab = Path, Copy(own, tab),
         NEW m \in Setups(SecretPart(tab)), NEW n \in Setups(AuthPart(tab)),
         router' = Routes(tab, m[1] \cup n[1]), nextId' = nextId
  PROVE  RouterOK(own)' /\ OneRoute'
<1>1. Keys(SecretPart(tab)) \subseteq Keys(tab) /\ Keys(AuthPart(tab)) \subseteq Keys(tab)
  BY PathAssumption DEF Keys, SecretPart, AuthPart
<1>2. m[1] \cup n[1] \subseteq Keys(tab)
  BY <1>1, SetupsAreKeys
<1>3. QED
  BY <1>2, RoutesAreGood

LEMMA RestartKeeps ==
  ASSUME NEW own, NEW S, Good(own, S), Restart
  PROVE  IInv'
<1>1. UNCHANGED nextId /\ seen' = None /\ work' = [a \in Admins |-> <<>>]
  BY DEF Restart
<1>2. PICK tab : tab = stored'
  OBVIOUS
<1>3. DOMAIN tab = Path /\ tab \in [Path -> Row \cup {None}] /\ Copy(own, tab)
  <2>1. CASE tab = stored
    BY <2>1 DEF Good, StoredOK
  <2>2. CASE tab = DefaultAuth
    <3>1. \A k \in Path : tab[k] = None \/ tab[k] = stored[k]
      BY <2>2 DEF DefaultAuth
    <3>2. DOMAIN tab = Path /\ tab \in [Path -> Row \cup {None}]
      BY <2>2 DEF DefaultAuth, Good, StoredOK
    <3>3. QED
      BY <3>1, <3>2 DEF Good, StoredOK, Copy, IsTable, Owned
  <2>3. QED
    BY <1>2, <2>1, <2>2 DEF Restart
<1>4. StoredOK(own)'
  BY <1>1, <1>2, <1>3 DEF StoredOK, Copy, IsTable, Owned
<1>5. TableOK(own)' /\ EntryOK(own)'
  BY <1>1, <1>2, <1>3, LoadIsGood DEF Restart
<1>6. RouterOK(own)' /\ OneRoute'
  <2>1. CASE router' = [p \in Path |-> None]
    BY <2>1 DEF RouterOK, OneRoute
  <2>2. CASE \E m \in Setups(SecretPart(tab)), n \in Setups(AuthPart(tab)) :
               router' = Routes(tab, m[1] \cup n[1])
    BY <1>1, <1>3, <2>2, SetupIsGood
  <2>3. QED
    BY <1>2, <2>1, <2>2 DEF Restart
<1>7. WorkOK(own, {})'
  BY <1>1 DEF WorkOK
<1>8. QED
  BY <1>1, <1>4, <1>5, <1>6, <1>7, StillGood

LEMMA MonitorReadKeeps ==
  ASSUME NEW own, NEW S, Good(own, S), MonitorRead
  PROVE  IInv'
<1>1. seen' = stored /\ UNCHANGED <<table, entry, router, stored, work, nextId>>
  BY DEF MonitorRead, bounds
<1>2. WorkOK(own, S)'
  BY <1>1, StepsStay DEF Good, WorkOK
<1>3. StoredOK(own)'
  BY <1>1 DEF Good, StoredOK, Copy, IsTable, Owned
<1>4. QED
  BY <1>1, <1>2, <1>3, SameTables, StillGood DEF Good

(* What the monitor loads is, at each key, what it has read or what is in   *)
(* memory: both agree on whose key it is.                                   *)
LEMMA ReloadedIsCopy ==
  ASSUME NEW own, NEW S, Good(own, S), seen # None
  PROVE  DOMAIN Reloaded = Path /\ Copy(own, Reloaded)
<1>1. DOMAIN Reloaded = Path
  BY DEF Reloaded
<1>2. ASSUME NEW k \in Path
      PROVE  /\ Reloaded[k] \in Row \cup {None}
             /\ Reloaded[k] # None => own[Reloaded[k].id] = k /\ Reloaded[k].id < nextId /\ Reloaded[k].path \in Kind(k)
  <2>1. Reloaded[k] = seen[k] \/ Reloaded[k] = Image(k)[k]
    BY DEF Reloaded
  <2>2. /\ seen[k] \in Row \cup {None}
        /\ seen[k] # None => own[seen[k].id] = k /\ seen[k].id < nextId /\ seen[k].path \in Kind(k)
    BY DEF Good, StoredOK, Copy, IsTable, Owned
  <2>3. k \in DOMAIN Image(k) /\ Copy(own, Image(k))
    BY ImageIsCopy DEF Kind
  <2>4. /\ Image(k)[k] \in Row \cup {None}
        /\ Image(k)[k] # None => own[Image(k)[k].id] = k /\ Image(k)[k].id < nextId /\ Image(k)[k].path \in Kind(k)
    BY <2>3 DEF Copy, IsTable, Owned
  <2>5. QED
    BY <2>1, <2>2, <2>4
<1>3. QED
  BY <1>1, <1>2 DEF Copy, IsTable, Owned

LEMMA MonitorLoadKeeps ==
  ASSUME NEW own, NEW S, Good(own, S), MonitorLoad
  PROVE  IInv'
<1>1. seen # None /\ seen' = None /\ UNCHANGED <<stored, work, nextId>>
  BY DEF MonitorLoad, bounds
<1>2. WorkOK(own, S)'
  BY <1>1, StepsStay DEF Good, WorkOK
<1>3. StoredOK(own)'
  BY <1>1 DEF Good, StoredOK, Copy, IsTable, Owned
<1>4. CASE UNCHANGED <<table, entry, router>>
  BY <1>1, <1>2, <1>3, <1>4, SameTables, StillGood DEF Good
<1>5. CASE ~UNCHANGED <<table, entry, router>>
  <2>1. PICK tab : /\ tab = Reloaded
                   /\ Load(tab)
                   /\ \E m \in Setups(SecretPart(tab)), n \in Setups(AuthPart(tab)) :
                        router' = Routes(tab, m[1] \cup n[1])
    BY <1>5 DEF MonitorLoad
  <2>2. DOMAIN tab = Path /\ Copy(own, tab)
    BY <1>1, <2>1, ReloadedIsCopy
  <2>3. TableOK(own)' /\ EntryOK(own)'
    BY <1>1, <2>1, <2>2, LoadIsGood
  <2>4. RouterOK(own)' /\ OneRoute'
    BY <1>1, <2>1, <2>2, SetupIsGood
  <2>5. QED
    BY <1>1, <1>2, <1>3, <2>3, <2>4, StillGood
<1>6. QED
  BY <1>4, <1>5

(* Every step keeps what the copies of the tables agree on. *)
LEMMA GoodStep ==
  ASSUME IInv, [Next]_vars
  PROVE  IInv'
<1>0. PICK own, S : Good(own, S)
  BY DEF IInv
<1>1. ASSUME NEW a \in Admins, Step(a) PROVE IInv'
  BY <1>0, <1>1, PersistKeeps, PutKeeps, TaintKeeps, DetachStepKeeps, ClearKeeps, RemoveKeeps,
     RerouteKeeps DEF Step
<1>2. CASE UNCHANGED vars
  <2>1. UNCHANGED <<table, entry, router, stored, seen, work, nextId>>
    BY <1>2 DEF vars
  <2>2. WorkOK(own, S)'
    BY <1>0, <2>1, StepsStay DEF Good, WorkOK
  <2>3. QED
    BY <1>0, <2>1, <2>2, SameTables, StillGood DEF Good
<1>3. QED
  BY <1>0, <1>1, <1>2, MountKeeps, UnmountKeeps, RemountKeeps, FailKeeps, RestartKeeps,
     MonitorReadKeeps, MonitorLoadKeeps DEF Next, MonitorStep

(* Through remounts that fail half way, persists of any number of requests  *)
(* out of order, restarts and the monitor's reloads of what it read some    *)
(* time ago, the tables stay well typed, no id comes under two keys and no  *)
(* engine is routed at two paths (mount.rs, router.rs).                     *)
THEOREM RoutesOKHolds == Spec => []RoutesOK
<1>1. Init => IInv
  BY GoodInit
<1>2. IInv /\ [Next]_vars => IInv'
  BY GoodStep
<1>3. IInv => RoutesOK
  BY GoodIsRoutesOK
<1>4. QED
  BY <1>1, <1>2, <1>3, PTL DEF Spec
-----------------------------------------------------------------------------
(* The second layer: what the first says.                                   *)

LEMMA GoodFacts ==
  ASSUME NEW own, NEW S, Good(own, S)
  PROVE  /\ table \in [Path -> Id \cup {None}]
         /\ entry \in [Id -> [path : Path, tainted : BOOLEAN]]
         /\ router \in [Path -> [id : Id, tainted : BOOLEAN] \cup {None}]
         /\ stored \in [Path -> Row \cup {None}]
         /\ \A k \in Path : table[k] # None =>
              table[k] \in Id /\ own[table[k]] = k /\ table[k] < nextId
         /\ \A k \in Path : stored[k] # None =>
              stored[k] \in Row /\ own[stored[k].id] = k /\ stored[k].id < nextId
         /\ \A p \in Path : router[p] # None =>
              router[p] \in [id : Id, tainted : BOOLEAN] /\ router[p].id < nextId
  BY DEF Good, TableOK, RouterOK, EntryOK, StoredOK, Copy, IsTable, Owned

(* With one administrator, what a is at is all that is going on. *)
LEMMA DoingNext ==
  ASSUME SoleAdmin, NEW a \in Admins, NEW w, w = work'[a], Doing(w)'
  PROVE  (\A b \in Admins : Doing(work[b]))'
  BY DEF SoleAdmin

LEMMA TailConsIs ==
  ASSUME NEW R, NEW x \in R, NEW t \in Seq(R)
  PROVE  <<x>> \o t # <<>> /\ Head(<<x>> \o t) = x /\ Tail(<<x>> \o t) = t
<1> DEFINE u == <<x>>
<1>1. u \in Seq(R) /\ Len(u) = 1 /\ u[1] = x
  OBVIOUS
<1> HIDE DEF u
<1>2. /\ u \o t \in Seq(R) /\ Len(u \o t) = Len(u) + Len(t)
      /\ \A i \in 1..Len(u) + Len(t) :
           (u \o t)[i] = IF i <= Len(u) THEN u[i] ELSE t[i - Len(u)]
  BY <1>1, ConcatProperties
<1>3. PICK v \in Seq(R) : v = u \o t
  BY <1>2
<1>4. Len(t) \in Nat
  BY LenProperties
<1>5. Len(v) = 1 + Len(t) /\ v # <<>> /\ v[1] = x
  BY <1>1, <1>2, <1>3, <1>4
<1>6. Tail(v) \in Seq(R) /\ Len(Tail(v)) = Len(v) - 1
      /\ \A i \in 1..Len(Tail(v)) : Tail(v)[i] = v[i + 1]
  BY <1>5, HeadTailProperties
<1>7. ASSUME NEW i \in 1..Len(t) PROVE Tail(v)[i] = t[i]
  <2>1. i + 1 \in 1..(1 + Len(t)) /\ ~(i + 1 <= 1) /\ (i + 1) - 1 = i /\ i \in 1..Len(Tail(v))
    BY <1>4, <1>5, <1>6
  <2>2. Tail(v)[i] = v[i + 1]
    BY <1>6, <2>1
  <2>5. PICK j \in 1..(1 + Len(t)) : j = i + 1 /\ ~(j <= 1) /\ j - 1 = i
    BY <2>1
  <2>6. v[j] = t[j - Len(u)]
    BY <1>1, <1>2, <1>3, <2>5
  <2>3. v[i + 1] = t[(i + 1) - 1]
    BY <1>1, <2>1, <2>5, <2>6
  <2>4. QED
    BY <2>1, <2>2, <2>3
<1>8. Tail(v) = t
  BY <1>4, <1>5, <1>6, <1>7, SeqEqual
<1>9. Head(v) = v[1]
  BY <1>5
<1>10. QED
  BY <1>3, <1>5, <1>8, <1>9 DEF u

(* The first step of what has still to be done, and the others.             *)
LEMMA ThenFacts ==
  ASSUME NEW own, NEW S, Good(own, S), NEW a \in Admins, work[a] # <<>>, NEW x,
         Then(a, <<x>>), NEW w, w = work'[a]
  PROVE  w # <<>> /\ Head(w) = x /\ Tail(w) = Tail(work[a])
<1> DEFINE R == S \cup {x}
<1>1. work[a] \in Seq(S) /\ w = <<x>> \o Tail(work[a])
  BY DEF Good, WorkOK, Then
<1>2. PICK t : t = Tail(work[a])
  OBVIOUS
<1>3. t \in Seq(R) /\ x \in R
  <2>1. t \in Seq(S)
    BY <1>1, <1>2
  <2>2. QED
    BY <2>1, SeqGrows
<1> HIDE DEF R
<1>4. <<x>> \o t # <<>> /\ Head(<<x>> \o t) = x /\ Tail(<<x>> \o t) = t
  BY <1>3, TailConsIs
<1>5. QED
  BY <1>1, <1>2, <1>4

LEMMA DoneFacts ==
  ASSUME NEW own, NEW S, Good(own, S), NEW a \in Admins, work[a] # <<>>, Then(a, <<>>)
  PROVE  work'[a] = Tail(work[a])
<1>1. work[a] \in Seq(S) /\ work'[a] = <<>> \o Tail(work[a])
  BY DEF Good, WorkOK, Then
<1>2. Tail(work[a]) \in Seq(S)
  BY <1>1
<1>3. QED
  BY <1>1, <1>2, ConcatEmptySeq

LEMMA RefuseFacts ==
  ASSUME NEW own, NEW S, Good(own, S), NEW a \in Admins, Refuse(a)
  PROVE  work'[a] = <<>>
  BY DEF Good, WorkOK, Refuse

LEMMA BeginFacts ==
  ASSUME NEW own, NEW S, Good(own, S), NEW a \in Admins, NEW steps, Begin(a, steps)
  PROVE  work[a] = <<>> /\ work'[a] = steps /\ ~down
  BY DEF Good, WorkOK, Begin

(* Only the work changes. *)
LEMMA SameView ==
  ASSUME UNCHANGED <<table, entry, router, stored, moved, down, cleared, nextId>>
  PROVE  /\ InPlace => InPlace'
         /\ Shown => Shown'
         /\ ClearedGone => ClearedGone'
  BY DEF InPlace, Shown, ClearedGone, Gone, Serves, Fixed

(* The end of an unmount depends on the router only, *)
LEMMA SameDetaching ==
  ASSUME NEW w, NEW p, Detaching(w, p), UNCHANGED router
  PROVE  Detaching(w, p)'
  BY DEF Detaching, Clearing, Removing, Now

(* and that of a remount on what is moved. *)
LEMMA SameRerouting ==
  ASSUME NEW w, NEW s, NEW d, Rerouting(w, s, d), UNCHANGED <<router, moved>>
  PROVE  Rerouting(w, s, d)'
  BY DEF Rerouting, Now, Fixed

(* What a request is at, by its next step.                                  *)
LEMMA DoingBy ==
  ASSUME NEW w, Doing(w)
  PROVE  /\ w = <<>> => Resting(w)
         /\ Now(w, "taint") => \E p \in Path : AtTaint(w, p)
         /\ Now(w, "persist") => \/ \E p \in Path : AtPersist(w, p)
                                 \/ \E s, d \in Path : AtRemount(w, s, d)
         /\ Now(w, "put") => \/ \E p \in Path : AtPut(w, p)
                             \/ \E s, d \in Path : AtRemount(w, s, d)
         /\ Now(w, "detach") => \E p \in Path : AtDetach(w, p)
         /\ Now(w, "clear") => \E p \in Path : AtClear(w, p)
         /\ Now(w, "remove") => \E p \in Path : AtRemove(w, p)
         /\ Now(w, "reroute") => \E s, d \in Path : AtRemount(w, s, d)
  BY DEF Doing, Resting, AtTaint, AtPersist, AtPut, AtDetach, AtClear, AtRemove, AtRemount,
         Detaching, Clearing, Removing, Rerouting, Now

-----------------------------------------------------------------------------
(* The second layer: every step keeps it.                                   *)

LEMMA SettledNext ==
  ASSUME SoleAdmin, NEW a \in Admins, NEW w, w = work'[a], ~disturbed',
         InPlace', Shown', ClearedGone', Doing(w)', faults' \in Nat, faults' = 0 => ~down'
  PROVE  Settled'
  BY DoingNext DEF Settled

(* An image shows the entries as they are. *)
LEMMA ImageIsExact ==
  ASSUME NEW own, NEW S, Good(own, S), InPlace, NEW p \in Path
  PROVE  Exact(Image(p), p)
<1>1. DOMAIN Image(p) = Kind(p) /\ Kind(p) \subseteq Path
  BY DEF Image, Kind
<1>2. ASSUME NEW k \in Kind(p), Image(p)[k] # None, Fixed(Image(p)[k].id)
      PROVE  Image(p)[k].path = k /\ Image(p)[k].tainted = entry[Image(p)[k].id].tainted
  <2>1. table[k] # None /\ k \in Path
    BY <1>1, <1>2 DEF Image
  <2>2. Image(p)[k] = [id |-> table[k], path |-> entry[table[k]].path,
                       tainted |-> entry[table[k]].tainted]
    BY <1>2, <2>1 DEF Image
  <2>3. QED
    BY <1>2, <2>1, <2>2 DEF InPlace
<1>3. QED
  BY <1>1, <1>2 DEF Exact

(* If all but P are not tainted, an image shows it. *)
LEMMA ImageIsClean ==
  ASSUME NEW P, CleanBut(P), NEW p \in Path
  PROVE  CopyCleanBut(Image(p), P)
<1>1. ASSUME NEW k \in Kind(p) \ P, Image(p)[k] # None PROVE ~Image(p)[k].tainted
  <2>1. table[k] # None /\ k \in Path
    BY <1>1 DEF Image, Kind
  <2>2. Image(p)[k] = [id |-> table[k], path |-> entry[table[k]].path,
                       tainted |-> entry[table[k]].tainted]
    BY <1>1, <2>1 DEF Image
  <2>3. QED
    BY <1>1, <2>1, <2>2 DEF CleanBut
<1>2. DOMAIN Image(p) = Kind(p)
  BY DEF Image
<1>3. QED
  BY <1>1, <1>2 DEF CopyCleanBut

LEMMA PersistSettles ==
  ASSUME SoleAdmin, NEW own, NEW S, Good(own, S), Settled, NEW a \in Admins, Persist(a)
  PROVE  Settled'
<1>0. SUFFICES ASSUME ~disturbed' PROVE Settled'
  BY DEF Settled
<1>1. /\ work[a] # <<>> /\ Now(work[a], "persist")
      /\ UNCHANGED <<table, entry, router, stored, moved, down, cleared, disturbed, nextId, faults>>
  BY DEF Persist, At, bounds, Now
<1>2. /\ InPlace /\ Shown /\ ClearedGone /\ Doing(work[a])
      /\ faults' \in Nat /\ (faults' = 0 => ~down')
  BY <1>0, <1>1 DEF Settled
<1>3. PICK w : w = work[a]
  OBVIOUS
<1>4. PICK v : v = work'[a]
  OBVIOUS
<1>5. PICK x : x = <<"put", Image(Head(w)[2]), Head(w)[3]>>
  OBVIOUS
<1>6. v # <<>> /\ Head(v) = x /\ Tail(v) = Tail(w)
  <2>1. Then(a, <<x>>)
    BY <1>3, <1>5 DEF Persist, Arg
  <2>2. QED
    BY <1>1, <1>3, <1>4, <2>1, ThenFacts
<1>7. Now(v, "put") /\ Head(v)[2] = Image(Head(w)[2]) /\ Head(v)[3] = Head(w)[3]
  BY <1>5, <1>6 DEF Now
<1>8. ASSUME NEW p \in Path, AtPersist(w, p) PROVE Doing(v)'
  <2>1. Head(v)[2] = Image(p) /\ Head(v)[3] = None
    BY <1>7, <1>8 DEF AtPersist
  <2>2. Exact(Image(p), p) /\ DOMAIN Image(p) = Kind(p) /\ p \in Kind(p)
    BY <1>2, ImageIsExact, KindFacts DEF Image
  <2>3. PICK img : img = Image(p)
    OBVIOUS
  <2>4. Exact(img, p)'
    BY <1>1, <2>2, <2>3 DEF Exact, Fixed
  <2>5. (Quiet => CopyCleanBut(stored, {p}))'
    BY <1>1, <1>8 DEF AtPersist, Quiet, CopyCleanBut
  <2>6. CASE Tail(w) = <<>>
    <3>1. Quiet => CleanBut({}) /\ CopyCleanBut(img, {})
      <4>1. Quiet => CleanBut({})
        BY <1>8, <2>6 DEF AtPersist, Detaching, Now
      <4>2. QED
        BY <2>3, <4>1, ImageIsClean
    <3>2. (Quiet => CleanBut({}) /\ CopyCleanBut(img, {}))'
      BY <1>1, <3>1 DEF Quiet, CleanBut, CopyCleanBut
    <3>3. AtPut(v, p)'
      BY <1>6, <1>7, <2>1, <2>3, <2>4, <2>5, <2>6, <3>2 DEF AtPut, Now
    <3>4. QED
      BY <3>3 DEF Doing
  <2>7. CASE Tail(w) # <<>>
    <3>1. /\ Detaching(Tail(w), p) /\ table[p] # None /\ Tainted(p)
          /\ Quiet => router[p] # None /\ CleanBut({p})
      BY <1>8, <2>7 DEF AtPersist
    <3>2. Quiet => CopyCleanBut(img, {p})
      BY <2>3, <3>1, ImageIsClean
    <3>3. img[p] # None => img[p].tainted
      BY <2>2, <2>3, <3>1 DEF Image, Tainted
    <3>4. Detaching(Tail(v), p)' /\ table'[p] # None /\ Tainted(p)'
      BY <1>1, <1>6, <3>1, SameDetaching DEF Tainted
    <3>5. (Quiet => router[p] # None /\ CleanBut({p}) /\ CopyCleanBut(img, {p}))'
      BY <1>1, <3>1, <3>2 DEF Quiet, CleanBut, CopyCleanBut
    <3>6. AtPut(v, p)'
      BY <1>7, <2>1, <2>3, <2>4, <2>5, <3>3, <3>4, <3>5 DEF AtPut, Now
    <3>7. QED
      BY <3>6 DEF Doing
  <2>8. QED
    BY <2>6, <2>7
<1>9. ASSUME NEW s \in Path, NEW d \in Path, AtRemount(w, s, d) PROVE Doing(v)'
  <2>1. moved # {} /\ Head(w)[2] = s /\ Undoable(w) /\ Rerouting(Tail(w), s, d)
    BY <1>1, <1>3, <1>9 DEF AtRemount, Now, Rerouting
  <2>2. PICK img : img = Image(s)
    OBVIOUS
  <2>3. Exact(img, s)'
    <3>1. Exact(img, s)
      BY <1>2, <2>2, ImageIsExact
    <3>2. QED
      BY <1>1, <3>1 DEF Exact, Fixed
  <2>4. Rerouting(Tail(v), s, d)' /\ Undoable(v)' /\ moved' # {}
    BY <1>1, <1>6, <1>7, <2>1, SameRerouting DEF Undoable
  <2>5. AtRemount(v, s, d)'
    BY <1>7, <2>1, <2>2, <2>3, <2>4 DEF AtRemount, Now
  <2>6. QED
    BY <2>5 DEF Doing
<1>10. Doing(v)'
  BY <1>1, <1>2, <1>3, <1>8, <1>9, DoingBy
<1>11. QED
  BY <1>0, <1>1, <1>2, <1>4, <1>10, SameView, SettledNext

(* What a begun write leaves in storage is what the image shows. *)
LEMMA PutView ==
  ASSUME NEW p \in Path, NEW img, Exact(img, p), InPlace, Shown, ClearedGone,
         stored' = [k \in Path |-> IF k \in DOMAIN img THEN img[k] ELSE stored[k]],
         UNCHANGED <<table, entry, router, moved, down, cleared, nextId>>
  PROVE  InPlace' /\ Shown' /\ ClearedGone'
<1>1. ASSUME NEW k \in Path, stored'[k] # None, Fixed(stored'[k].id)
      PROVE  /\ stored'[k].path = k
             /\ stored'[k].tainted => entry[stored'[k].id].tainted
             /\ stored'[k].tainted \/ (stored[k] # None /\ stored[k] = stored'[k])
                                   \/ ~entry[stored'[k].id].tainted
  <2>1. CASE k \in Kind(p)
    <3>1. stored'[k] = img[k]
      BY <2>1 DEF Exact
    <3>2. img[k].path = k /\ img[k].tainted = entry[img[k].id].tainted
      BY <1>1, <2>1, <3>1 DEF Exact
    <3>3. QED
      BY <3>1, <3>2
  <2>2. CASE k \notin Kind(p)
    <3>1. stored'[k] = stored[k]
      BY <2>2 DEF Exact
    <3>2. QED
      BY <1>1, <3>1 DEF InPlace
  <2>3. QED
    BY <2>1, <2>2
<1>2. InPlace'
  BY <1>1 DEF InPlace, Fixed
<1>3. Shown'
  BY DEF Shown, Serves, Fixed
<1>4. ClearedGone'
  BY <1>1 DEF ClearedGone, Gone, Serves, Fixed
<1>5. QED
  BY <1>2, <1>3, <1>4

LEMMA PutSettles ==
  ASSUME SoleAdmin, NEW own, NEW S, Good(own, S), Settled, NEW a \in Admins, Put(a)
  PROVE  Settled'
<1>0. SUFFICES ASSUME ~disturbed' PROVE Settled'
  BY DEF Settled
<1>1. /\ work[a] # <<>> /\ Now(work[a], "put")
      /\ UNCHANGED <<table, entry, router, moved, down, cleared, disturbed, nextId, faults>>
  BY DEF Put, At, bounds, Now
<1>2. /\ InPlace /\ Shown /\ ClearedGone /\ Doing(work[a])
      /\ faults' \in Nat /\ (faults' = 0 => ~down')
  BY <1>0, <1>1 DEF Settled
<1>3. PICK w : w = work[a]
  OBVIOUS
<1>4. PICK img : img = Head(w)[2]
  OBVIOUS
<1>5. /\ stored' = [k \in Path |-> IF k \in DOMAIN img THEN img[k] ELSE stored[k]]
      /\ DOMAIN stored = Path
  BY <1>3, <1>4 DEF Put, Arg, Good, StoredOK
<1>6. PICK v : v = work'[a]
  OBVIOUS
<1>7. v = Tail(w)
  BY <1>1, <1>3, <1>6, DoneFacts DEF Put
<1>8. ASSUME NEW p \in Path, AtPut(w, p) PROVE Doing(v)' /\ \E q \in Path : Exact(img, q)
  <2>1. Exact(img, p) /\ p \in Kind(p) /\ Kind(p) \subseteq Path /\ DOMAIN img = Kind(p)
    BY <1>4, <1>8, KindFacts DEF AtPut, Exact
  <2>2. /\ \A k \in Path : stored'[k] = IF k \in Kind(p) THEN img[k] ELSE stored[k]
        /\ DOMAIN stored' = Path
    BY <1>5, <2>1
  <2>3. CASE Tail(w) = <<>>
    <3>1. Quiet => CleanBut({}) /\ CopyCleanBut(img, {}) /\ CopyCleanBut(stored, {p})
      BY <1>4, <1>8, <2>3 DEF AtPut, Detaching, Now
    <3>2. (Quiet => CleanBut({}))'
      BY <1>1, <3>1 DEF Quiet, CleanBut
    <3>3. (Quiet => CopyCleanBut(stored, {}))'
      BY <1>1, <1>5, <2>1, <2>2, <3>1 DEF Quiet, CopyCleanBut
    <3>4. Resting(v)'
      BY <1>7, <2>3, <3>2, <3>3 DEF Resting, AllClean
    <3>5. QED
      BY <2>1, <3>4 DEF Doing
  <2>4. CASE Tail(w) # <<>>
    <3>1. /\ Detaching(Tail(w), p) /\ table[p] # None /\ Tainted(p)
          /\ img[p] # None => img[p].tainted
          /\ Quiet => router[p] # None /\ CleanBut({p}) /\ CopyCleanBut(img, {p})
                      /\ CopyCleanBut(stored, {p})
      BY <1>4, <1>8, <2>4 DEF AtPut
    <3>2. Detaching(v, p)' /\ Tainted(p)'
      BY <1>1, <1>7, <3>1, SameDetaching DEF Tainted
    <3>3. TaintStored(p)'
      BY <2>1, <2>2, <3>1 DEF TaintStored
    <3>4. (Quiet => CopyCleanBut(stored, {p}))'
      BY <1>1, <1>5, <2>1, <2>2, <3>1 DEF Quiet, CopyCleanBut
    <3>5. (Quiet => CleanBeside(p) /\ (table[p] # None => router[p] # None))'
      BY <1>1, <3>1, <3>4 DEF Quiet, CleanBeside, CleanBut
    <3>6. AtDetach(v, p)'
      BY <3>2, <3>3, <3>5 DEF AtDetach
    <3>7. QED
      BY <2>1, <3>6 DEF Doing
  <2>5. QED
    BY <2>3, <2>4
<1>9. ASSUME NEW s \in Path, NEW d \in Path, AtRemount(w, s, d)
      PROVE  Doing(v)' /\ \E q \in Path : Exact(img, q)
  <2>1. moved # {} /\ Exact(img, s) /\ Rerouting(Tail(w), s, d)
    BY <1>1, <1>3, <1>4, <1>9 DEF AtRemount, Now, Rerouting
  <2>2. Rerouting(v, s, d)' /\ moved' # {}
    BY <1>1, <1>7, <2>1, SameRerouting
  <2>3. AtRemount(v, s, d)'
    BY <2>2 DEF AtRemount
  <2>4. QED
    BY <2>1, <2>3 DEF Doing
<1>10. Doing(v)' /\ \E q \in Path : Exact(img, q)
  BY <1>1, <1>2, <1>3, <1>8, <1>9, DoingBy
<1>11. InPlace' /\ Shown' /\ ClearedGone'
  BY <1>1, <1>2, <1>5, <1>10, PutView
<1>12. QED
  BY <1>0, <1>2, <1>6, <1>10, <1>11, SettledNext

(* A taint in memory takes nothing back. *)
LEMMA TaintView ==
  ASSUME NEW own, NEW S, Good(own, S), InPlace, Shown, ClearedGone,
         \A u \in Id : entry'[u].path = entry[u].path
                       /\ (entry[u].tainted => entry'[u].tainted),
         UNCHANGED <<table, router, stored, moved, down, cleared, nextId>>
  PROVE  InPlace' /\ Shown' /\ ClearedGone'
<1>1. InPlace'
  BY DEF InPlace, Fixed
<1>2. Shown'
  BY DEF Shown, Serves, Fixed
<1>3. ClearedGone'
  BY DEF ClearedGone, Gone, Serves, Fixed
<1>4. QED
  BY <1>1, <1>2, <1>3

LEMMA TaintSettles ==
  ASSUME SoleAdmin, NEW own, NEW S, Good(own, S), Settled, NEW a \in Admins, Taint(a)
  PROVE  Settled'
<1>0. SUFFICES ASSUME ~disturbed' PROVE Settled'
  BY DEF Settled
<1>1. /\ work[a] # <<>> /\ Now(work[a], "taint")
      /\ UNCHANGED <<table, router, stored, moved, down, cleared, disturbed, nextId, faults>>
  BY DEF Taint, At, bounds, Now
<1>2. /\ InPlace /\ Shown /\ ClearedGone /\ Doing(work[a])
      /\ faults' \in Nat /\ (faults' = 0 => ~down') /\ (faults = 0 => ~down)
  BY <1>0, <1>1 DEF Settled
<1>3. PICK w : w = work[a]
  OBVIOUS
<1>4. PICK v : v = work'[a]
  OBVIOUS
<1>5. PICK p \in Path : AtTaint(w, p)
  BY <1>1, <1>2, <1>3, DoingBy
<1>6. Head(w)[2] = p /\ Detaching(Tail(w), p) /\ (Quiet => AllClean)
  BY <1>5 DEF AtTaint
<1>7. CASE table[p] = None
  <2>1. UNCHANGED entry /\ v = Tail(w)
    BY <1>1, <1>3, <1>4, <1>6, <1>7, DoneFacts DEF Taint, Arg
  <2>2. Detaching(v, p)' /\ Tainted(p)' /\ TaintStored(p)'
    BY <1>1, <1>6, <1>7, <2>1, SameDetaching DEF Tainted, TaintStored
  <2>3. (Quiet => CleanBeside(p) /\ (table[p] # None => router[p] # None))'
    BY <1>1, <1>6, <1>7, <2>1 DEF Quiet, CleanBeside, AllClean, CleanBut, CopyCleanBut
  <2>4. Doing(v)'
    BY <2>2, <2>3 DEF Doing, AtDetach
  <2>5. QED
    BY <1>0, <1>1, <1>2, <1>4, <2>1, <2>4, SameView, SettledNext
<1>8. CASE table[p] # None
  <2>1. PICK u : u = table[p]
    OBVIOUS
  <2>2. PICK x : x = <<"persist", p, None>>
    OBVIOUS
  <2>3. entry' = [entry EXCEPT ![u].tainted = TRUE] /\ Then(a, <<x>>)
    BY <1>3, <1>6, <1>8, <2>1, <2>2 DEF Taint, Arg
  <2>4. /\ \A z \in Id : entry'[z].path = entry[z].path
        /\ \A z \in Id : z # u => entry'[z] = entry[z]
        /\ u \in Id => entry'[u].tainted = TRUE
    <3>1. EntryOK(own) /\ UNCHANGED nextId /\ entry' = [entry EXCEPT ![u].tainted = TRUE]
      BY <1>1, <2>3 DEF Good
    <3>3. \A z \in Id : entry'[z].path = entry[z].path
      BY <3>1, EntryTainted
    <3>4. \A z \in Id : z # u => entry'[z] = entry[z]
      BY <3>1, EntryTainted
    <3>5. u \in Id => entry'[u].tainted = TRUE
      BY <3>1, EntryTainted
    <3>6. QED
      BY <3>3, <3>4, <3>5
  <2>5. u \in Id /\ \A k \in Path : table[k] # None => table[k] \in Id /\ (table[k] = u => k = p)
    BY <1>8, <2>1, GoodFacts
  <2>6. InPlace' /\ Shown' /\ ClearedGone'
    <3>1. \A z \in Id : entry'[z].path = entry[z].path
                        /\ (entry[z].tainted => entry'[z].tainted)
      BY <2>4
    <3>2. QED
      BY <1>1, <1>2, <3>1, TaintView
  <2>7. v # <<>> /\ Head(v) = x /\ Tail(v) = Tail(w)
    BY <1>1, <1>3, <1>4, <2>3, ThenFacts
  <2>8. Now(v, "persist") /\ Head(v)[2] = p /\ Head(v)[3] = None
    BY <2>2, <2>7 DEF Now
  <2>9. Detaching(Tail(v), p)' /\ table'[p] # None /\ Tainted(p)'
    BY <1>1, <1>6, <1>8, <2>1, <2>4, <2>5, <2>7, SameDetaching DEF Tainted
  <2>10. (Quiet => CopyCleanBut(stored, {p}))'
    BY <1>1, <1>6 DEF Quiet, AllClean, CopyCleanBut
  <2>11. Quiet => router[p] # None
    <3>1. ASSUME Quiet PROVE ~down /\ Fixed(u) /\ ~entry[u].tainted
      BY <1>2, <1>6, <1>8, <2>1, <2>5, <3>1 DEF Quiet, Fixed, AllClean, CleanBut
    <3>2. QED
      BY <1>2, <1>8, <2>1, <3>1 DEF Shown, Serves
  <2>12. (Quiet => CleanBut({p}))'
    BY <1>1, <1>6, <2>4, <2>5 DEF Quiet, AllClean, CleanBut
  <2>13. AtPersist(v, p)'
    BY <1>1, <2>8, <2>9, <2>10, <2>11, <2>12 DEF AtPersist, Quiet, Now
  <2>14. QED
    BY <1>0, <1>2, <1>4, <2>6, <2>13, SettledNext DEF Doing
<1>9. QED
  BY <1>7, <1>8

(* A route less: the engine at p is not served from then on. *)
LEMMA DetachView ==
  ASSUME NEW own, NEW S, Good(own, S), InPlace, Shown, ClearedGone, NEW p \in Path,
         router' = [router EXCEPT ![p] = None], Tainted(p),
         UNCHANGED <<table, entry, stored, moved, down, cleared, nextId>>
  PROVE  InPlace' /\ Shown' /\ ClearedGone'
<1>1. \A q \in Path : router'[q] = IF q = p THEN None ELSE router[q]
  BY DEF Good, RouterOK
<1>2. InPlace'
  BY <1>1 DEF InPlace, Fixed
<1>3. Shown'
  BY <1>1 DEF Shown, Serves, Fixed, Tainted
<1>4. ClearedGone'
  BY <1>1 DEF ClearedGone, Gone, Serves, Fixed
<1>5. QED
  BY <1>2, <1>3, <1>4

LEMMA DetachSettles ==
  ASSUME SoleAdmin, NEW own, NEW S, Good(own, S), Settled, NEW a \in Admins, Detach(a)
  PROVE  Settled'
<1>0. SUFFICES ASSUME ~disturbed' PROVE Settled'
  BY DEF Settled
<1>1. /\ work[a] # <<>> /\ Now(work[a], "detach")
      /\ UNCHANGED <<table, entry, stored, moved, down, cleared, disturbed, nextId, faults>>
  BY DEF Detach, At, bounds, Now
<1>2. /\ InPlace /\ Shown /\ ClearedGone /\ Doing(work[a])
      /\ faults' \in Nat /\ (faults' = 0 => ~down')
  BY <1>0, <1>1 DEF Settled
<1>3. PICK w : w = work[a]
  OBVIOUS
<1>4. PICK v : v = work'[a]
  OBVIOUS
<1>5. PICK p \in Path : AtDetach(w, p)
  BY <1>1, <1>2, <1>3, DoingBy
<1>6. /\ Head(w)[2] = p /\ Detaching(w, p) /\ Tainted(p) /\ TaintStored(p)
      /\ Quiet => CleanBeside(p) /\ (table[p] # None => router[p] # None)
  BY <1>5 DEF AtDetach, Detaching
<1>7. CASE router[p] = None
  <2>1. UNCHANGED router /\ v = <<>>
    BY <1>3, <1>4, <1>6, <1>7, RefuseFacts DEF Detach, Arg
  <2>2. Quiet => AllClean
    BY <1>6, <1>7 DEF CleanBeside
  <2>3. (Quiet => AllClean)'
    BY <1>1, <2>2 DEF Quiet, AllClean, CleanBut, CopyCleanBut
  <2>4. Doing(v)'
    BY <2>1, <2>3 DEF Doing, Resting
  <2>5. QED
    BY <1>0, <1>1, <1>2, <1>4, <2>1, <2>4, SameView, SettledNext
<1>8. CASE router[p] # None
  <2>1. router' = [router EXCEPT ![p] = None] /\ v = Tail(w)
    BY <1>1, <1>3, <1>4, <1>6, <1>8, DoneFacts DEF Detach, Arg
  <2>2. PICK c : c = router[p].id
    OBVIOUS
  <2>3. c \in Id /\ c < nextId /\ \A q \in Path : router[q] # None /\ router[q].id = c => q = p
    BY <1>8, <2>2, GoodFacts DEF Good, OneRoute
  <2>4. Clearing(v, p) /\ Head(v)[2] = c
    BY <1>6, <1>8, <2>1, <2>2 DEF Detaching
  <2>5. \A q \in Path : router'[q] = IF q = p THEN None ELSE router[q]
    BY <2>1 DEF Good, RouterOK
  <2>6. ASSUME Fixed(c) PROVE Gone(c)'
    <3>1. \A q \in Path : ~Serves(q, c)'
      BY <2>3, <2>5 DEF Serves
    <3>2. table[p] = c /\ table[p] # None
      BY <1>2, <1>8, <2>2, <2>3, <2>6, NoneAssumption DEF InPlace
    <3>3. entry[c].tainted
      BY <1>6, <3>2 DEF Tainted
    <3>4. ASSUME NEW k \in Path, stored[k] # None, stored[k].id = c PROVE stored[k].tainted
      <4>1. k = p
        BY <3>2, <3>4, GoodFacts
      <4>2. QED
        BY <1>6, <3>2, <3>4, <4>1 DEF TaintStored
    <3>5. QED
      BY <1>1, <3>1, <3>3, <3>4 DEF Gone
  <2>7. (Quiet => CleanBeside(p))'
    BY <1>1, <1>6 DEF Quiet, CleanBeside, AllClean, CleanBut, CopyCleanBut
  <2>8. Clearing(v, p)' /\ router'[p] = None
    BY <2>4, <2>5 DEF Clearing, Removing, Now
  <2>9. (c \in Id /\ c < nextId /\ (Fixed(c) => Gone(c)))'
    BY <1>1, <2>3, <2>6 DEF Fixed
  <2>10. AtClear(v, p)'
    BY <2>4, <2>7, <2>8, <2>9 DEF AtClear
  <2>11. InPlace' /\ Shown' /\ ClearedGone'
    BY <1>1, <1>2, <1>6, <2>1, DetachView
  <2>12. QED
    BY <1>0, <1>2, <1>4, <2>10, <2>11, SettledNext DEF Doing
<1>9. QED
  BY <1>7, <1>8

(* Only the set of those being emptied grows, by one that is gone. *)
LEMMA ClearView ==
  ASSUME InPlace, Shown, ClearedGone, NEW c, c \in Id, c < nextId, Fixed(c) => Gone(c),
         cleared' \in {cleared, cleared \cup {c}},
         UNCHANGED <<table, entry, router, stored, moved, down, nextId>>
  PROVE  InPlace' /\ Shown' /\ ClearedGone'
<1>1. InPlace' /\ Shown'
  BY DEF InPlace, Shown, Serves, Fixed
<1>2. ASSUME NEW u, u \in cleared'
      PROVE  u \in Id /\ u < nextId /\ (Fixed(u) => Gone(u))
  BY <1>2 DEF ClearedGone
<1>3. ClearedGone'
  BY <1>2 DEF ClearedGone, Gone, Serves, Fixed
<1>4. QED
  BY <1>1, <1>3

LEMMA ClearSettles ==
  ASSUME SoleAdmin, NEW own, NEW S, Good(own, S), Settled, NEW a \in Admins, Clear(a)
  PROVE  Settled'
<1>0. SUFFICES ASSUME ~disturbed' PROVE Settled'
  BY DEF Settled
<1>1. /\ work[a] # <<>> /\ Now(work[a], "clear")
      /\ UNCHANGED <<table, entry, router, stored, moved, down, disturbed, nextId, faults>>
  BY DEF Clear, At, bounds, Now
<1>2. /\ InPlace /\ Shown /\ ClearedGone /\ Doing(work[a])
      /\ faults' \in Nat /\ (faults' = 0 => ~down')
  BY <1>0, <1>1 DEF Settled
<1>3. PICK w : w = work[a]
  OBVIOUS
<1>4. PICK v : v = work'[a]
  OBVIOUS
<1>5. PICK p \in Path : AtClear(w, p)
  BY <1>1, <1>2, <1>3, DoingBy
<1>6. PICK c : c = Head(w)[2]
  OBVIOUS
<1>7. /\ c \in Id /\ c < nextId /\ (Fixed(c) => Gone(c))
      /\ Removing(Tail(w), p) /\ router[p] = None /\ (Quiet => CleanBeside(p))
  BY <1>5, <1>6 DEF AtClear, Clearing
<1>8. cleared' = cleared \cup {c} /\ v = Tail(w)
  BY <1>1, <1>3, <1>4, <1>6, DoneFacts DEF Clear, Arg
<1>9. InPlace' /\ Shown' /\ ClearedGone'
  BY <1>1, <1>2, <1>7, <1>8, ClearView
<1>10. (Quiet => CleanBeside(p))'
  BY <1>1, <1>7 DEF Quiet, CleanBeside, AllClean, CleanBut, CopyCleanBut
<1>11. AtRemove(v, p)'
  BY <1>1, <1>7, <1>8, <1>10 DEF AtRemove, Removing, Now
<1>12. QED
  BY <1>0, <1>2, <1>4, <1>9, <1>11, SettledNext DEF Doing

LEMMA RemoveSettles ==
  ASSUME SoleAdmin, NEW own, NEW S, Good(own, S), Settled, NEW a \in Admins, Remove(a)
  PROVE  Settled'
<1>0. SUFFICES ASSUME ~disturbed' PROVE Settled'
  BY DEF Settled
<1>1. /\ work[a] # <<>> /\ Now(work[a], "remove")
      /\ UNCHANGED <<entry, router, stored, moved, down, cleared, disturbed, nextId, faults>>
  BY DEF Remove, At, bounds, Now
<1>2. /\ InPlace /\ Shown /\ ClearedGone /\ Doing(work[a])
      /\ faults' \in Nat /\ (faults' = 0 => ~down')
  BY <1>0, <1>1 DEF Settled
<1>3. PICK w : w = work[a]
  OBVIOUS
<1>4. PICK v : v = work'[a]
  OBVIOUS
<1>5. PICK p \in Path : AtRemove(w, p)
  BY <1>1, <1>2, <1>3, DoingBy
<1>6. /\ Head(w)[2] = p /\ Tail(w) = <<>> /\ router[p] = None /\ (Quiet => CleanBeside(p))
  BY <1>5 DEF AtRemove, Removing
<1>7. \A k \in Path : table'[k] = IF k = p THEN None ELSE table[k]
  BY <1>3, <1>6 DEF Remove, Arg, Good, TableOK
<1>8. InPlace' /\ Shown' /\ ClearedGone'
  <2>1. InPlace'
    BY <1>1, <1>2, <1>6, <1>7 DEF InPlace, Fixed
  <2>2. Shown'
    BY <1>1, <1>2, <1>7 DEF Shown, Serves, Fixed
  <2>3. ClearedGone'
    BY <1>1, <1>2 DEF ClearedGone, Gone, Serves, Fixed
  <2>4. QED
    BY <2>1, <2>2, <2>3
<1>9. Quiet => CopyCleanBut(stored, {p}) /\ (table[p] = None => CopyCleanBut(stored, {}))
               /\ CleanBut({p})
  BY <1>6 DEF CleanBeside, AllClean, CleanBut, CopyCleanBut
<1>10. (Quiet => CleanBut({}))'
  BY <1>1, <1>7, <1>9 DEF Quiet, CleanBut
<1>11. CASE table[p] = None
  <2>1. v = <<>>
    BY <1>1, <1>3, <1>4, <1>6, <1>11, DoneFacts DEF Remove, Arg
  <2>2. (Quiet => AllClean)'
    BY <1>1, <1>9, <1>10, <1>11 DEF Quiet, AllClean, CopyCleanBut
  <2>3. QED
    BY <1>0, <1>2, <1>4, <1>8, <2>1, <2>2, SettledNext DEF Doing, Resting
<1>12. CASE table[p] # None
  <2>1. PICK x : x = <<"persist", p, None>>
    OBVIOUS
  <2>2. Then(a, <<x>>)
    BY <1>3, <1>6, <1>12, <2>1 DEF Remove, Arg
  <2>3. v # <<>> /\ Head(v) = x /\ Tail(v) = <<>>
    BY <1>1, <1>3, <1>4, <1>6, <2>2, ThenFacts
  <2>4. (Quiet => CopyCleanBut(stored, {p}))'
    BY <1>1, <1>9 DEF Quiet, CopyCleanBut
  <2>5. AtPersist(v, p)'
    BY <1>10, <2>1, <2>3, <2>4 DEF AtPersist, Now
  <2>6. QED
    BY <1>0, <1>2, <1>4, <1>8, <2>5, SettledNext DEF Doing
<1>13. QED
  BY <1>11, <1>12

LEMMA RerouteSettles ==
  ASSUME SoleAdmin, NEW own, NEW S, Good(own, S), Settled, NEW a \in Admins, RerouteStep(a)
  PROVE  Settled'
<1>0. SUFFICES ASSUME ~disturbed' PROVE Settled'
  BY DEF Settled
<1>1. /\ work[a] # <<>> /\ Now(work[a], "reroute")
      /\ UNCHANGED <<table, entry, stored, moved, down, cleared, disturbed, nextId, faults>>
  BY DEF RerouteStep, At, bounds, Now
<1>2. /\ InPlace /\ Shown /\ ClearedGone /\ Doing(work[a])
      /\ faults' \in Nat /\ (faults' = 0 => ~down')
  BY <1>0, <1>1 DEF Settled
<1>3. PICK w : w = work[a]
  OBVIOUS
<1>4. PICK v : v = work'[a]
  OBVIOUS
<1>5. PICK s \in Path, d \in Path : AtRemount(w, s, d)
  BY <1>1, <1>2, <1>3, DoingBy
<1>6. /\ Head(w)[2] = s /\ Head(w)[3] = d /\ Tail(w) = <<>> /\ moved # {}
      /\ router[d] = None /\ (router[s] # None => ~Fixed(router[s].id))
  BY <1>1, <1>3, <1>5 DEF AtRemount, Rerouting, Now
<1>7. v = <<>>
  BY <1>1, <1>3, <1>4, <1>6, DoneFacts, RefuseFacts DEF RerouteStep
<1>8. Doing(v)'
  BY <1>1, <1>6, <1>7 DEF Doing, Resting, Quiet
<1>9. CASE router[s] = None
  <2>1. UNCHANGED router
    BY <1>3, <1>6, <1>9 DEF RerouteStep, Arg
  <2>2. QED
    BY <1>0, <1>1, <1>2, <1>4, <1>8, <2>1, SameView, SettledNext
<1>10. CASE router[s] # None
  <2>1. PICK r : r = [router[s] EXCEPT !.tainted = FALSE]
    OBVIOUS
  <2>2. router' = [router EXCEPT ![d] = r, ![s] = None]
    BY <1>3, <1>6, <1>10, <2>1 DEF RerouteStep, Reroute, Arg
  <2>3. \A p \in Path : router'[p] = IF p = s THEN None ELSE IF p = d THEN r ELSE router[p]
    BY <2>2 DEF Good, RouterOK
  <2>4. router[s] \in [id : Id, tainted : BOOLEAN]
    BY <1>10, GoodFacts
  <2>5. r.id = router[s].id /\ ~Fixed(r.id)
    BY <1>6, <1>10, <2>1, <2>4
  <2>6. InPlace'
    BY <1>1, <1>2, <2>3, <2>5 DEF InPlace, Fixed
  <2>7. Shown'
    BY <1>1, <1>2, <1>6, <2>3, <2>5 DEF Shown, Serves, Fixed
  <2>8. ClearedGone'
    BY <1>1, <1>2, <2>3, <2>5 DEF ClearedGone, Gone, Serves, Fixed
  <2>9. QED
    BY <1>0, <1>2, <1>4, <1>8, <2>6, <2>7, <2>8, SettledNext
<1>11. QED
  BY <1>9, <1>10

(* Entries of engines that are no longer fixed may change. *)
LEMMA FixedView ==
  ASSUME InPlace, Shown, ClearedGone, \A u \in Id \ moved : entry'[u] = entry[u],
         UNCHANGED <<table, router, stored, moved, down, cleared, nextId>>
  PROVE  InPlace' /\ Shown' /\ ClearedGone'
<1>1. InPlace'
  BY DEF InPlace, Fixed
<1>2. Shown'
  BY DEF Shown, Serves, Fixed
<1>3. ClearedGone'
  BY DEF ClearedGone, Gone, Serves, Fixed
<1>4. QED
  BY <1>1, <1>2, <1>3

LEMMA FailSettles ==
  ASSUME SoleAdmin, NEW own, NEW S, Good(own, S), Settled, NEW a \in Admins, Fail(a)
  PROVE  Settled'
<1>0. SUFFICES ASSUME ~disturbed' PROVE Settled'
  BY DEF Settled
<1>1. /\ work[a] # <<>> /\ faults' = faults + 1
      /\ UNCHANGED <<table, router, stored, moved, down, disturbed, nextId>>
  BY DEF Fail, At
<1>2. /\ InPlace /\ Shown /\ ClearedGone /\ Doing(work[a]) /\ faults \in Nat
  BY <1>0, <1>1 DEF Settled
<1>3. PICK w : w = work[a]
  OBVIOUS
<1>4. PICK v : v = work'[a]
  OBVIOUS
<1>5. v = <<>> /\ faults' \in Nat /\ faults' # 0
  BY <1>1, <1>2, <1>4, RefuseFacts DEF Fail
<1>6. Doing(v)'
  BY <1>5 DEF Doing, Resting, Quiet
<1>7. CASE Now(w, "put") /\ UNCHANGED cleared
  <2>1. \A u \in Id \ moved : entry'[u] = entry[u]
    <3>1. PICK undo : undo = Head(w)[3]
      OBVIOUS
    <3>2. undo # None => undo[1] \in moved
      BY <1>2, <1>3, <1>7, <3>1, DoingBy DEF AtPut, AtRemount, Undoable, Rerouting, Now
    <3>3. \/ UNCHANGED entry
          \/ undo # None /\ entry' = [entry EXCEPT ![undo[1]] = [path |-> undo[2], tainted |-> TRUE]]
      BY <1>3, <1>7, <3>1 DEF Fail, At, Arg, Now
    <3>4. entry \in [Id -> [path : Path, tainted : BOOLEAN]]
      BY GoodFacts
    <3>5. QED
      BY <3>2, <3>3, <3>4
  <2>2. QED
    BY <1>0, <1>1, <1>2, <1>4, <1>5, <1>6, <1>7, <2>1, FixedView, SettledNext
<1>8. CASE Now(w, "clear") /\ UNCHANGED entry
           /\ cleared' \in {cleared, cleared \cup {Head(w)[2]}}
  <2>1. PICK c : c = Head(w)[2]
    OBVIOUS
  <2>2. c \in Id /\ c < nextId /\ (Fixed(c) => Gone(c))
    BY <1>2, <1>3, <1>8, <2>1, DoingBy DEF AtClear
  <2>3. QED
    BY <1>0, <1>1, <1>2, <1>4, <1>5, <1>6, <1>8, <2>1, <2>2, ClearView, SettledNext
<1>9. QED
  BY <1>3, <1>7, <1>8 DEF Fail, At, Arg, Now

-----------------------------------------------------------------------------
(* The second layer: requests that begin.                                   *)

LEMMA OneStep ==
  ASSUME NEW x
  PROVE  <<x>> # <<>> /\ Head(<<x>>) = x /\ Tail(<<x>>) = <<>>
<1>1. PICK t : t = <<x>>
  OBVIOUS
<1>2. t \in Seq({x}) /\ Len(t) = 1 /\ t[1] = x /\ t # <<>>
  BY <1>1
<1>3. Head(t) = x /\ Tail(t) \in Seq({x}) /\ Len(Tail(t)) = 0
  BY <1>2
<1>4. Tail(t) = <<>>
  BY <1>3, EmptySeq
<1>5. QED
  BY <1>1, <1>2, <1>3, <1>4

LEMMA PairIs ==
  ASSUME NEW x, NEW y
  PROVE  <<x, y>> = <<x>> \o <<y>>
<1> DEFINE R == {x, y}
<1>1. <<x>> \in Seq(R) 
  OBVIOUS
<1>2. <<y>> \in Seq(R)
  OBVIOUS
<1>3. <<x, y>> \in Seq(R)
  OBVIOUS
<1>4. PICK t : t = <<x, y>>
  OBVIOUS
<1>5. PICK u, v : u = <<x>> /\ v = <<y>>
  OBVIOUS
<1>6. Len(t) = 2 /\ t[1] = x /\ t[2] = y
  BY <1>4
<1>7. Len(u) = 1 /\ u[1] = x /\ Len(v) = 1 /\ v[1] = y
  BY <1>5
<1>8. t \in Seq(R) /\ u \in Seq(R) /\ v \in Seq(R)
  BY <1>1, <1>2, <1>3, <1>4, <1>5
<1> HIDE DEF R
<1>9. /\ u \o v \in Seq(R) /\ Len(u \o v) = 2
      /\ (u \o v)[1] = x /\ (u \o v)[2] = y
  <2>1. /\ u \o v \in Seq(R) /\ Len(u \o v) = Len(u) + Len(v)
        /\ \A i \in 1..Len(u) + Len(v) :
             (u \o v)[i] = IF i <= Len(u) THEN u[i] ELSE v[i - Len(u)]
    BY <1>8, ConcatProperties
  <2>2. 1 \in 1..2 /\ 2 \in 1..2 /\ 2 - 1 = 1
    OBVIOUS
  <2>3. QED
    BY <1>7, <2>1, <2>2
<1>10. \A i \in 1..2 : t[i] = (u \o v)[i]
  <2>1. \A i \in 1..2 : i = 1 \/ i = 2
    OBVIOUS
  <2>2. QED
    BY <1>6, <1>9, <2>1
<1>11. PICK c \in Seq(R) : c = u \o v
  BY <1>9
<1>12. t = c
  BY <1>6, <1>8, <1>9, <1>10, <1>11, SeqEqual
<1>13. QED
  BY <1>4, <1>5, <1>11, <1>12

LEMMA TwoSteps ==
  ASSUME NEW x, NEW y
  PROVE  <<x, y>> # <<>> /\ Head(<<x, y>>) = x /\ Tail(<<x, y>>) = <<y>>
<1>1. PICK t : t = <<y>>
  OBVIOUS
<1>2. t \in Seq({x, y}) /\ x \in {x, y}
  BY <1>1
<1>3. <<x, y>> = <<x>> \o t
  BY <1>1, PairIs
<1>4. <<x>> \o t # <<>> /\ Head(<<x>> \o t) = x /\ Tail(<<x>> \o t) = t
  BY <1>2, TailConsIs
<1>5. QED
  BY <1>1, <1>3, <1>4

LEMMA FourParts ==
  ASSUME NEW R, NEW w1 \in Seq(R), NEW w2 \in Seq(R), NEW w3 \in Seq(R), NEW w4 \in Seq(R)
  PROVE  ((w1 \o w2) \o w3) \o w4 = w1 \o (w2 \o (w3 \o w4))
<1>0. (w1 \o w2) \o w3 = w1 \o (w2 \o w3)
  BY ConcatAssociative
<1>1. (w2 \o w3) \o w4 = w2 \o (w3 \o w4)
  BY ConcatAssociative
<1>2. PICK w5 : w5 = w2 \o w3
  OBVIOUS
<1>3. w5 \in Seq(R)
  BY <1>2
<1>4. (w1 \o w5) \o w4 = w1 \o (w5 \o w4)
  BY <1>3, ConcatAssociative, Z3T(40)
<1>5. QED
  BY <1>0, <1>1, <1>2, <1>4

(* The steps of an unmount, one by one. *)
ThreeSteps(w, x, y, z) ==
  /\ w # <<>> /\ Head(w) = x
  /\ Tail(w) # <<>> /\ Head(Tail(w)) = y
  /\ Tail(Tail(w)) # <<>> /\ Head(Tail(Tail(w))) = z
  /\ Tail(Tail(Tail(w))) = <<>>

FourSteps(w, h, x, y, z) == w # <<>> /\ Head(w) = h /\ ThreeSteps(Tail(w), x, y, z)

LEMMA UnmountSteps ==
  ASSUME NEW first, NEW second, NEW third, NEW last
  PROVE  /\ ThreeSteps(<<first, second>> \o <<>> \o <<last>>, first, second, last)
         /\ FourSteps(<<first, second>> \o <<third>> \o <<last>>, first, second, third, last)
<1> DEFINE R == {first, second, third, last}
<1>1. PICK ts, ds, ms, rs : ts = <<first>> /\ ds = <<second>> /\ ms = <<third>> /\ rs = <<last>>
  OBVIOUS
<1>2. /\ ts \in Seq(R) /\ ds \in Seq(R) /\ ms \in Seq(R) /\ rs \in Seq(R) /\ <<>> \in Seq(R)
      /\ first \in R /\ second \in R /\ third \in R /\ last \in R
  BY <1>1
<1> HIDE DEF R
<1>3. PICK both : both = <<first, second>> /\ both = ts \o ds
  BY <1>1, PairIs
<1>4. PICK es : es = <<>>
  OBVIOUS
<1>5. es \in Seq(R) /\ es \o rs = rs
  BY <1>2, <1>4, ConcatEmptySeq
<1>6. ((ts \o ds) \o es) \o rs = ts \o (ds \o (es \o rs))
  <2>1. ts \in Seq(R) /\ ds \in Seq(R) /\ es \in Seq(R) /\ rs \in Seq(R)
    BY <1>2, <1>5
  <2>2. QED
    BY <2>1, FourParts, Z3T(40)
<1>7. ((ts \o ds) \o ms) \o rs = ts \o (ds \o (ms \o rs))
  <2>1. ts \in Seq(R) /\ ds \in Seq(R) /\ ms \in Seq(R) /\ rs \in Seq(R)
    BY <1>2
  <2>2. QED
    BY <2>1, FourParts, Z3T(40)
<1>8. PICK mr, dr, dmr : mr = ms \o rs /\ dr = ds \o rs /\ dmr = ds \o mr
  OBVIOUS
<1>9. mr \in Seq(R) /\ dr \in Seq(R) /\ dmr \in Seq(R)
  BY <1>2, <1>8
<1>10. rs # <<>> /\ Head(rs) = last /\ Tail(rs) = <<>>
  BY <1>1, OneStep
<1>11. mr # <<>> /\ Head(mr) = third /\ Tail(mr) = rs
  BY <1>1, <1>2, <1>8, TailConsIs
<1>12. dr # <<>> /\ Head(dr) = second /\ Tail(dr) = rs
  BY <1>1, <1>2, <1>8, TailConsIs
<1>13. dmr # <<>> /\ Head(dmr) = second /\ Tail(dmr) = mr
  BY <1>1, <1>2, <1>8, <1>9, TailConsIs
<1>14. PICK p, q : p = ts \o dr /\ q = ts \o dmr
  OBVIOUS
<1>15. p # <<>> /\ Head(p) = first /\ Tail(p) = dr
  BY <1>1, <1>2, <1>9, <1>14, TailConsIs
<1>16. q # <<>> /\ Head(q) = first /\ Tail(q) = dmr
  BY <1>1, <1>2, <1>9, <1>14, TailConsIs
<1>17. ThreeSteps(p, first, second, last) /\ FourSteps(q, first, second, third, last)
  BY <1>10, <1>11, <1>12, <1>13, <1>15, <1>16 DEF ThreeSteps, FourSteps
<1>18. both \o <<>> \o <<last>> = p /\ both \o <<third>> \o <<last>> = q
  BY <1>1, <1>3, <1>4, <1>5, <1>6, <1>7, <1>8, <1>14
<1>19. QED
  BY <1>3, <1>17, <1>18

LEMMA MountSettles ==
  ASSUME SoleAdmin, NEW own, NEW S, Good(own, S), Settled, NEW a \in Admins, NEW p \in Path,
         Mount(a, p)
  PROVE  Settled'
<1>0. SUFFICES ASSUME ~disturbed' PROVE Settled'
  BY DEF Settled
<1>1. /\ nextId \in Id /\ nextId \in Nat /\ nextId' = nextId + 1
      /\ UNCHANGED <<stored, down, moved, disturbed, cleared, faults>>
  BY BoundAssumption DEF Good, Mount, Id
<1>2. /\ InPlace /\ Shown /\ ClearedGone /\ Doing(work[a])
      /\ faults' \in Nat /\ (faults' = 0 => ~down')
  BY <1>0, <1>1 DEF Settled
<1>3. PICK x : x = <<"persist", p, None>>
  OBVIOUS
<1>4. PICK v : v = work'[a]
  OBVIOUS
<1>5. work[a] = <<>> /\ v = <<x>>
  BY <1>3, <1>4, BeginFacts DEF Mount
<1>6. Resting(work[a])
  BY <1>2, <1>5, DoingBy
<1>7. PICK r : r = [id |-> nextId, tainted |-> FALSE]
  OBVIOUS
<1>8. r.id = nextId /\ r.tainted = FALSE /\ r # None /\ nextId # None
  <2>1. r \in [id : Id, tainted : BOOLEAN] /\ r.id = nextId /\ r.tainted = FALSE
    BY <1>1, <1>7
  <2>2. r # None /\ nextId # None
    BY <1>1, <2>1, NoneAssumption
  <2>3. QED
    BY <2>1, <2>2
<1>9. \A k \in Path : /\ table'[k] = IF k = p THEN nextId ELSE table[k]
                      /\ router'[k] = IF k = p THEN r ELSE router[k]
  BY <1>7 DEF Mount, Good, TableOK, RouterOK
<1>10. \A u \in Id : /\ u # nextId => entry'[u] = entry[u]
                     /\ u = nextId => entry'[u].path = p /\ entry'[u].tainted = FALSE
  BY DEF Mount, Good, EntryOK
<1>11. \A u \in Id : u < nextId => u # nextId /\ u < nextId'
  BY <1>1 DEF Id
<1>12. \A k \in Path : /\ table[k] # None => table[k] \in Id /\ table[k] # nextId
                       /\ stored[k] # None => stored[k].id \in Id /\ stored[k].id # nextId
                       /\ router[k] # None => router[k].id \in Id /\ router[k].id # nextId
  BY <1>11, GoodFacts DEF Row
<1>13. InPlace'
  BY <1>1, <1>2, <1>8, <1>9, <1>10, <1>12 DEF InPlace, Fixed
<1>14. Shown'
  <2>1. ASSUME ~down, NEW k \in Path, table'[k] # None, table'[k] \in Id \ moved,
               ~entry'[table'[k]].tainted
        PROVE  router'[k] # None /\ router'[k].id = table'[k] /\ ~router'[k].tainted
    <3>1. CASE k = p
      BY <1>8, <1>9, <3>1
    <3>2. CASE k # p
      <4>1. table'[k] = table[k] /\ router'[k] = router[k] /\ entry'[table[k]] = entry[table[k]]
        BY <1>9, <1>10, <1>12, <2>1, <3>2
      <4>2. Serves(k, table[k])
        BY <1>2, <2>1, <4>1 DEF Shown, Fixed
      <4>3. QED
        BY <4>1, <4>2 DEF Serves
    <3>3. QED
      BY <3>1, <3>2
  <2>2. QED
    BY <1>1, <2>1 DEF Shown, Serves, Fixed
<1>15. ClearedGone'
  <2>1. ASSUME NEW u \in cleared
        PROVE  (u \in Id /\ u < nextId /\ (Fixed(u) => Gone(u)))'
    <3>1. u \in Id /\ u < nextId /\ (Fixed(u) => Gone(u)) /\ u # nextId /\ u < nextId'
      BY <1>2, <1>11, <2>1 DEF ClearedGone
    <3>2. ASSUME Fixed(u) PROVE Gone(u)'
      <4>1. Gone(u)
        BY <3>1, <3>2
      <4>2. QED
        BY <1>1, <1>8, <1>9, <1>10, <3>1, <4>1 DEF Gone, Serves
    <3>3. QED
      BY <1>1, <3>1, <3>2 DEF Fixed
  <2>2. QED
    BY <1>1, <2>1 DEF ClearedGone
<1>16. v # <<>> /\ Head(v) = x /\ Tail(v) = <<>>
  BY <1>5, OneStep
<1>17. (Quiet => CopyCleanBut(stored, {p}))'
  BY <1>1, <1>6 DEF Resting, Quiet, AllClean, CopyCleanBut
<1>18. (Quiet => CleanBut({}))'
  BY <1>1, <1>6, <1>9, <1>10, <1>12 DEF Resting, Quiet, AllClean, CleanBut
<1>19. AtPersist(v, p)'
  BY <1>3, <1>16, <1>17, <1>18 DEF AtPersist, Now
<1>20. QED
  BY <1>0, <1>2, <1>4, <1>13, <1>14, <1>15, <1>19, SettledNext DEF Doing

LEMMA UnmountSettles ==
  ASSUME SoleAdmin, NEW own, NEW S, Good(own, S), Settled, NEW a \in Admins, NEW p \in Path,
         Unmount(a, p)
  PROVE  Settled'
<1>0. SUFFICES ASSUME ~disturbed' PROVE Settled'
  BY DEF Settled
<1>1. UNCHANGED <<table, entry, router, stored, moved, down, cleared, disturbed, nextId, faults>>
  BY DEF Unmount
<1>2. /\ InPlace /\ Shown /\ ClearedGone /\ Doing(work[a])
      /\ faults' \in Nat /\ (faults' = 0 => ~down')
  BY <1>0, <1>1 DEF Settled
<1>3. PICK t, d, c, r : /\ t = <<"taint", p>> /\ d = <<"detach", p>>
                        /\ c = <<"clear", router[Nearest(p)].id>> /\ r = <<"remove", p>>
  OBVIOUS
<1>3a. /\ t[1] = "taint" /\ t[2] = p /\ d[1] = "detach" /\ d[2] = p
       /\ c[1] = "clear" /\ c[2] = router[Nearest(p)].id /\ r[1] = "remove" /\ r[2] = p
  BY <1>3
<1>4. PICK m : m = IF Matching(p) = {} THEN <<>> ELSE <<c>>
  OBVIOUS
<1>5. PICK v : v = work'[a]
  OBVIOUS
<1>6. work[a] = <<>> /\ v = <<t, d>> \o m \o <<r>>
  BY <1>3, <1>4, <1>5, BeginFacts DEF Unmount
<1>7. Resting(work[a])
  BY <1>2, <1>6, DoingBy
<1>8. IF Matching(p) = {} THEN ThreeSteps(v, t, d, r) ELSE FourSteps(v, t, d, c, r)
  BY <1>4, <1>6, UnmountSteps
<1>9. /\ Now(v, "taint") /\ Head(v)[2] = p
      /\ Now(Tail(v), "detach") /\ Head(Tail(v))[2] = p
  BY <1>8, <1>3a DEF Now, ThreeSteps, FourSteps
<1>10. Detaching(Tail(v), p)
  <2>1. CASE Matching(p) = {}
    <3>1. router[p] = None
      BY <2>1 DEF Matching, Routed, Within
    <3>2. Removing(Tail(Tail(v)), p)
      BY <1>8, <1>3a, <2>1 DEF Removing, Now, ThreeSteps
    <3>3. QED
      BY <1>9, <3>1, <3>2 DEF Detaching
  <2>2. CASE Matching(p) # {}
    <3>1. /\ Head(Tail(Tail(v))) = c /\ Tail(Tail(v)) # <<>> /\ Tail(Tail(Tail(v))) # <<>>
          /\ Head(Tail(Tail(Tail(v)))) = r /\ Tail(Tail(Tail(Tail(v)))) = <<>>
      BY <1>8, <2>2 DEF ThreeSteps, FourSteps
    <3>2. Clearing(Tail(Tail(v)), p)
      BY <1>3a, <3>1 DEF Clearing, Removing, Now
    <3>3. router[p] # None => Head(Tail(Tail(v)))[2] = router[p].id
      BY <1>3a, <3>1, NearestIsRouted
    <3>4. QED
      BY <1>9, <3>2, <3>3 DEF Detaching
  <2>3. QED
    BY <2>1, <2>2
<1>11. Detaching(Tail(v), p)'
  BY <1>1, <1>10, SameDetaching
<1>12. (Quiet => AllClean)'
  BY <1>1, <1>7 DEF Resting, Quiet, AllClean, CleanBut, CopyCleanBut
<1>13. AtTaint(v, p)'
  BY <1>9, <1>11, <1>12 DEF AtTaint, Now
<1>14. QED
  BY <1>0, <1>1, <1>2, <1>5, <1>13, SameView, SettledNext DEF Doing

(* An engine that is remounted is no longer fixed. *)
LEMMA MovedView ==
  ASSUME InPlace, Shown, ClearedGone, NEW u, moved' = moved \cup {u},
         \A z \in Id : z # u => entry'[z] = entry[z],
         \A q \in Path : \/ router'[q] = router[q]
                         \/ router[q] # None /\ router[q].id = u /\ router'[q].id = u
                            /\ router'[q].tainted,
         UNCHANGED <<table, stored, down, cleared, nextId>>
  PROVE  InPlace' /\ Shown' /\ ClearedGone'
<1>1. InPlace'
  BY DEF InPlace, Fixed
<1>2. Shown'
  BY DEF Shown, Serves, Fixed
<1>3. ClearedGone'
  BY DEF ClearedGone, Gone, Serves, Fixed
<1>4. QED
  BY <1>1, <1>2, <1>3

LEMMA RemountSettles ==
  ASSUME SoleAdmin, NEW own, NEW S, Good(own, S), Settled, NEW a \in Admins,
         NEW s \in Path, NEW d \in Path, Remount(a, s, d)
  PROVE  Settled'
<1>0. SUFFICES ASSUME ~disturbed' PROVE Settled'
  BY DEF Settled
<1>1. PICK u : u = router[Nearest(s)].id
  OBVIOUS
<1>2. /\ UNCHANGED <<table, stored, down, cleared, nextId, disturbed, faults>>
      /\ moved' = moved \cup {u} /\ Matching(d) = {}
  BY <1>1 DEF Remount
<1>3. /\ InPlace /\ Shown /\ ClearedGone /\ Doing(work[a])
      /\ faults' \in Nat /\ (faults' = 0 => ~down')
  BY <1>0, <1>2 DEF Settled
<1>4. PICK v : v = work'[a]
  OBVIOUS
<1>5. entry \in [Id -> [path : Path, tainted : BOOLEAN]]
  BY GoodFacts
<1>6. CASE router[s] = None
  <2>1. v = <<>> /\ entry' = [entry EXCEPT ![u].tainted = TRUE] /\ UNCHANGED router
    BY <1>1, <1>4, <1>6, BeginFacts DEF Remount
  <2>2. \A z \in Id : z # u => entry'[z] = entry[z]
    BY <1>5, <2>1
  <2>3. InPlace' /\ Shown' /\ ClearedGone'
    BY <1>2, <1>3, <2>1, <2>2, MovedView
  <2>4. Doing(v)'
    BY <1>2, <2>1 DEF Doing, Resting, Quiet
  <2>5. QED
    BY <1>0, <1>3, <1>4, <2>3, <2>4, SettledNext
<1>7. CASE router[s] # None
  <2>1. PICK x : x = <<"persist", s, <<u, entry[u].path>>>>
    OBVIOUS
  <2>2. PICK y : y = <<"reroute", s, d>>
    OBVIOUS
  <2>3. /\ Begin(a, <<x, y>>)
        /\ entry' = [entry EXCEPT ![u] = [path |-> d, tainted |-> FALSE]]
        /\ router' = [router EXCEPT ![s].tainted = TRUE]
    BY <1>1, <1>7, <2>1, <2>2 DEF Remount
  <2>4. u = router[s].id /\ router[s] \in [id : Id, tainted : BOOLEAN]
    BY <1>1, <1>7, NearestIsRouted, GoodFacts
  <2>5. PICK r : r = [router[s] EXCEPT !.tainted = TRUE]
    OBVIOUS
  <2>6. r.id = u /\ r.tainted = TRUE
    BY <2>4, <2>5
  <2>7. \A q \in Path : router'[q] = IF q = s THEN r ELSE router[q]
    BY <2>3, <2>5 DEF Good, RouterOK
  <2>8. \A z \in Id : z # u => entry'[z] = entry[z]
    BY <1>5, <2>3
  <2>9. InPlace' /\ Shown' /\ ClearedGone'
    <3>1. \A q \in Path : \/ router'[q] = router[q]
                          \/ router[q] # None /\ router[q].id = u /\ router'[q].id = u
                             /\ router'[q].tainted
      BY <1>7, <2>4, <2>6, <2>7
    <3>2. QED
      BY <1>2, <1>3, <2>8, <3>1, MovedView
  <2>10. v = <<x, y>>
    BY <1>4, <2>3, BeginFacts
  <2>11. v # <<>> /\ Head(v) = x /\ Tail(v) = <<y>>
    BY <2>10, TwoSteps
  <2>12. Tail(v) # <<>> /\ Head(Tail(v)) = y /\ Tail(Tail(v)) = <<>>
    BY <2>11, OneStep
  <2>13. router[d] = None /\ d # s
    BY <1>2, <1>7 DEF Matching, Routed, Within
  <2>14. Rerouting(Tail(v), s, d)'
    BY <1>2, <2>2, <2>6, <2>7, <2>12, <2>13 DEF Rerouting, Now, Fixed
  <2>15. Undoable(v)' /\ Now(v, "persist") /\ Head(v)[2] = s
    BY <1>2, <2>1, <2>11 DEF Undoable, Now
  <2>16. AtRemount(v, s, d)'
    BY <1>2, <2>14, <2>15 DEF AtRemount, Now
  <2>17. QED
    BY <1>0, <1>3, <1>4, <2>9, <2>16, SettledNext DEF Doing
<1>8. QED
  BY <1>6, <1>7

-----------------------------------------------------------------------------
(* The second layer: loading a table.                                       *)

(* Under every key is one id, so what is loaded is what is in the table.    *)
LEMMA LoadFacts ==
  ASSUME NEW own, NEW S, Good(own, S), NEW tab, DOMAIN tab = Path, Copy(own, tab), Load(tab)
  PROVE  /\ \A k \in Path : table'[k] = IF tab[k] = None THEN None ELSE tab[k].id
         /\ \A k \in Path : tab[k] # None =>
              /\ tab[k].id \in Id /\ tab[k].id # None
              /\ entry'[tab[k].id].path = tab[k].path
              /\ entry'[tab[k].id].tainted = tab[k].tainted
         /\ \A u \in Id : (\A k \in Path : tab[k] # None => tab[k].id # u) => entry'[u] = entry[u]
<1>1. \A k \in Path : tab[k] # None => tab[k] \in Row /\ own[tab[k].id] = k
  BY DEF Copy, IsTable, Owned
<1>2. \A k \in Path : table'[k] = IF tab[k] = None THEN None ELSE tab[k].id
  BY DEF Load
<1>3. ASSUME NEW k \in Path, tab[k] # None
      PROVE  /\ tab[k].id \in Id /\ tab[k].id # None
             /\ entry'[tab[k].id].path = tab[k].path
             /\ entry'[tab[k].id].tainted = tab[k].tainted
  <2>1. tab[k].id \in Id
    BY <1>1, <1>3 DEF Row
  <2>2. tab[k].id # None
    BY <2>1, NoneAssumption
  <2>3. PICK u : u = tab[k].id
    OBVIOUS
  <2>4. k \in Keys(tab)
    BY <1>3 DEF Keys
  <2>5. PICK j \in Keys(tab) : /\ tab[j].id = u
                               /\ entry'[u] = [path |-> tab[j].path, tainted |-> tab[j].tainted]
    BY <2>1, <2>3, <2>4 DEF Load
  <2>6. j = k
    BY <1>1, <1>3, <2>3, <2>5 DEF Keys
  <2>7. QED
    BY <2>1, <2>2, <2>3, <2>5, <2>6
<1>4. ASSUME NEW u \in Id, \A k \in Path : tab[k] # None => tab[k].id # u
      PROVE  entry'[u] = entry[u]
  <2>1. ~\E k \in Keys(tab) : tab[k].id = u
    BY <1>4 DEF Keys
  <2>2. QED
    BY <2>1 DEF Load
<1>5. QED
  BY <1>2, <1>3, <1>4

(* A setup that is complete has mounted every key. *)
LEMMA SetupsFull ==
  ASSUME NEW tab, NEW m \in Setups(tab), m[2]
  PROVE  m[1] = Keys(tab) /\ Apart(tab, m[1])
<1> DEFINE Mountable(S) == Apart(tab, S) /\ (Refused(tab, S) # {} \/ Cardinality(Stuck(tab, S)) = 1)
           Firsts == {<<S, FALSE>> : S \in {S \in SUBSET Keys(tab) : Mountable(S)}}
           Complete == Apart(tab, Keys(tab)) /\ Stuck(tab, Keys(tab)) = {}
           Whole == IF Complete THEN {<<Keys(tab), TRUE>>} ELSE {}
<1>1. m \in Firsts \cup Whole
  BY DEF Setups
<1>2. ASSUME m \in Firsts PROVE m[2] = FALSE
  <2>1. PICK T \in SUBSET Keys(tab) : m = <<T, FALSE>>
    <3> HIDE DEF Mountable
    <3> QED BY <1>2
  <2>2. QED
    BY <2>1
<1>3. m \in Whole => Complete /\ m = <<Keys(tab), TRUE>>
  <2> HIDE DEF Complete
  <2> QED OBVIOUS
<1>4. m \in Whole
  <2> HIDE DEF Firsts, Whole
  <2> QED BY <1>1, <1>2
<1>5. Complete /\ m[1] = Keys(tab)
  <2>1. PICK K : K = Keys(tab)
    OBVIOUS
  <2>2. Complete /\ m = <<K, TRUE>>
    <3> HIDE DEF Whole, Complete
    <3> QED BY <1>3, <1>4, <2>1
  <2>3. m[1] = K
    BY <2>2
  <2>4. QED
    BY <2>1, <2>2, <2>3
<1>6. QED
  BY <1>5

(* The routes set up lead to entries of the table, and if both setups are   *)
(* complete there is one for every entry.                                   *)
LEMMA RoutesFacts ==
  ASSUME NEW own, NEW tab, DOMAIN tab = Path, Copy(own, tab),
         NEW m \in Setups(SecretPart(tab)), NEW n \in Setups(AuthPart(tab)),
         router' = Routes(tab, m[1] \cup n[1])
  PROVE  /\ \A p \in Path : router'[p] # None =>
              \E k \in Path : /\ tab[k] # None /\ tab[k].path = p
                              /\ router'[p].id = tab[k].id /\ router'[p].tainted = tab[k].tainted
         /\ m[2] /\ n[2] => \A k \in Path : tab[k] # None =>
              /\ router'[tab[k].path] # None
              /\ router'[tab[k].path].id = tab[k].id
              /\ router'[tab[k].path].tainted = tab[k].tainted
<1>1. \A k \in Path : tab[k] # None => tab[k] \in Row /\ tab[k].path \in Kind(k)
  BY DEF Copy, IsTable, Owned
<1>2. PICK M, N : M = m[1] /\ N = n[1]
  OBVIOUS
<1>3. /\ \A k : k \in Keys(SecretPart(tab)) <=> k \in Path /\ k \notin AuthPath /\ tab[k] # None
      /\ \A k : k \in Keys(AuthPart(tab)) <=> k \in Path /\ k \in AuthPath /\ tab[k] # None
  BY PathAssumption DEF Keys, SecretPart, AuthPart
<1>4. M \subseteq Keys(SecretPart(tab)) /\ N \subseteq Keys(AuthPart(tab))
  BY <1>2, SetupsAreKeys
<1>5. \A k \in M \cup N : k \in Path /\ tab[k] # None
  BY <1>3, <1>4
<1>6. \A p \in Path : router'[p] =
        IF \E k \in M \cup N : tab[k].path = p
        THEN LET k == CHOOSE k \in M \cup N : tab[k].path = p
             IN [id |-> tab[k].id, tainted |-> tab[k].tainted]
        ELSE None
  BY <1>2 DEF Routes
<1>7. ASSUME NEW p \in Path, NEW k \in M \cup N, tab[k].path = p
      PROVE  /\ router'[p] # None
             /\ \E j \in M \cup N : /\ tab[j].path = p
                                    /\ router'[p].id = tab[j].id /\ router'[p].tainted = tab[j].tainted
  <2>1. PICK j \in M \cup N : /\ tab[j].path = p
                              /\ router'[p] = [id |-> tab[j].id, tainted |-> tab[j].tainted]
    BY <1>6, <1>7
  <2>2. tab[j].id \in Id /\ tab[j].tainted \in BOOLEAN
    BY <1>1, <1>5 DEF Row
  <2>3. router'[p] \in [id : Id, tainted : BOOLEAN]
    BY <2>1, <2>2
  <2>4. router'[p] # None
    BY <2>3, NoneAssumption
  <2>5. router'[p].id = tab[j].id /\ router'[p].tainted = tab[j].tainted
    BY <2>1
  <2>6. QED
    BY <2>1, <2>4, <2>5
<1>8. ASSUME NEW p \in Path, router'[p] # None
      PROVE  \E k \in Path : /\ tab[k] # None /\ tab[k].path = p
                             /\ router'[p].id = tab[k].id /\ router'[p].tainted = tab[k].tainted
  <2>1. \E k \in M \cup N : tab[k].path = p
    BY <1>6, <1>8
  <2>2. PICK j \in M \cup N : /\ tab[j].path = p
                              /\ router'[p].id = tab[j].id /\ router'[p].tainted = tab[j].tainted
    BY <1>7, <2>1
  <2>3. QED
    BY <1>5, <2>2
<1>9. ASSUME m[2], n[2], NEW k \in Path, tab[k] # None
      PROVE  /\ router'[tab[k].path] # None
             /\ router'[tab[k].path].id = tab[k].id
             /\ router'[tab[k].path].tainted = tab[k].tainted
  <2>1. /\ M = Keys(SecretPart(tab)) /\ Apart(SecretPart(tab), M)
        /\ N = Keys(AuthPart(tab)) /\ Apart(AuthPart(tab), N)
    BY <1>2, <1>9, SetupsFull
  <2>2. PICK p : p = tab[k].path
    OBVIOUS
  <2>3. k \in M \cup N /\ p \in Path /\ p \in Kind(k)
    BY <1>1, <1>3, <1>9, <2>1, <2>2 DEF Kind
  <2>4. PICK j \in M \cup N : /\ tab[j].path = p
                              /\ router'[p].id = tab[j].id /\ router'[p].tainted = tab[j].tainted
    BY <1>7, <2>2, <2>3
  <2>5. j = k
    <3>1. j \in Path /\ tab[j] # None /\ p \in Kind(j)
      BY <1>1, <1>5, <2>4
    <3>2. j \in AuthPath <=> k \in AuthPath
      BY <2>3, <3>1 DEF Kind
    <3>3. CASE k \in AuthPath
      <4>1. j \in N /\ k \in N /\ AuthPart(tab)[j] = tab[j] /\ AuthPart(tab)[k] = tab[k]
        BY <1>3, <1>9, <2>1, <3>1, <3>2, <3>3 DEF AuthPart
      <4>2. QED
        BY <2>1, <2>2, <2>4, <4>1 DEF Apart
    <3>4. CASE k \notin AuthPath
      <4>1. j \in M /\ k \in M /\ SecretPart(tab)[j] = tab[j] /\ SecretPart(tab)[k] = tab[k]
        BY <1>3, <1>9, <2>1, <3>1, <3>2, <3>4 DEF SecretPart
      <4>2. QED
        BY <2>1, <2>2, <2>4, <4>1 DEF Apart
    <3>5. QED
      BY <3>3, <3>4
  <2>6. router'[p] # None
    BY <1>7, <2>2, <2>3
  <2>7. QED
    BY <2>2, <2>4, <2>5, <2>6
<1>10. QED
  BY <1>8, <1>9

(* The entries and routes loaded from a table which has every fixed engine  *)
(* under the path where it is.                                              *)
LEMMA LoadedView ==
  ASSUME NEW own, NEW S, Good(own, S), NEW tab, DOMAIN tab = Path, Copy(own, tab), Load(tab),
         \A k \in Path : tab[k] # None /\ Fixed(tab[k].id) => tab[k].path = k,
         UNCHANGED moved
  PROVE  /\ \A k \in Path : table'[k] # None /\ Fixed(table'[k]) => entry'[table'[k]].path = k
         /\ (\A p \in Path : router'[p] # None =>
               \E k \in Path : /\ tab[k] # None /\ tab[k].path = p
                               /\ router'[p].id = tab[k].id)
            => \A p \in Path : router'[p] # None /\ Fixed(router'[p].id) => table'[p] = router'[p].id
         /\ (\A k \in Path : tab[k] # None =>
               /\ router'[tab[k].path] # None
               /\ router'[tab[k].path].id = tab[k].id
               /\ router'[tab[k].path].tainted = tab[k].tainted)
            => \A k \in Path : table'[k] # None /\ Fixed(table'[k]) /\ ~entry'[table'[k]].tainted
                 => Serves(k, table[k])'
<1>1. /\ \A k \in Path : table'[k] = IF tab[k] = None THEN None ELSE tab[k].id
      /\ \A k \in Path : tab[k] # None =>
              /\ tab[k].id \in Id /\ tab[k].id # None
              /\ entry'[tab[k].id].path = tab[k].path
              /\ entry'[tab[k].id].tainted = tab[k].tainted
  BY LoadFacts
<1>2. ASSUME NEW k \in Path, table'[k] # None, Fixed(table'[k])
      PROVE  /\ tab[k] # None /\ table'[k] = tab[k].id /\ tab[k].path = k
             /\ entry'[table'[k]].path = k
             /\ entry'[table'[k]].tainted = tab[k].tainted
  <2>1. tab[k] # None /\ table'[k] = tab[k].id
    BY <1>1, <1>2
  <2>2. tab[k].path = k
    BY <1>2, <2>1
  <2>3. QED
    BY <1>1, <2>1, <2>2
<1>3. ASSUME \A p \in Path : router'[p] # None =>
               \E k \in Path : /\ tab[k] # None /\ tab[k].path = p
                               /\ router'[p].id = tab[k].id,
             NEW p \in Path, router'[p] # None, Fixed(router'[p].id)
      PROVE  table'[p] = router'[p].id
  <2>1. PICK k \in Path : tab[k] # None /\ tab[k].path = p /\ router'[p].id = tab[k].id
    BY <1>3
  <2>2. k = p
    BY <1>3, <2>1
  <2>3. QED
    BY <1>1, <2>1, <2>2
<1>4. ASSUME \A k \in Path : tab[k] # None =>
               /\ router'[tab[k].path] # None
               /\ router'[tab[k].path].id = tab[k].id
               /\ router'[tab[k].path].tainted = tab[k].tainted,
             NEW k \in Path, table'[k] # None, Fixed(table'[k]), ~entry'[table'[k]].tainted
      PROVE  Serves(k, table[k])'
  <2>1. /\ tab[k] # None /\ table'[k] = tab[k].id /\ tab[k].path = k
        /\ ~tab[k].tainted
    BY <1>2, <1>4
  <2>2. router'[k] # None /\ router'[k].id = table'[k] /\ ~router'[k].tainted
    BY <1>4, <2>1
  <2>3. QED
    BY <2>2 DEF Serves
<1>5. QED
  BY <1>2, <1>3, <1>4

LEMMA RestartSettles ==
  ASSUME SoleAdmin, NEW own, NEW S, Good(own, S), Settled, Restart
  PROVE  Settled'
<1>0. SUFFICES ASSUME ~disturbed' PROVE Settled'
  BY DEF Settled
<1>1. /\ UNCHANGED <<cleared, moved, disturbed, nextId>> /\ faults' = faults + 1
      /\ \A a \in Admins : work'[a] = <<>>
  BY DEF Restart
<1>2. InPlace /\ Shown /\ ClearedGone /\ faults \in Nat
  BY <1>0, <1>1 DEF Settled
<1>3. faults' \in Nat /\ faults' # 0
  BY <1>1, <1>2
<1>4. PICK tab : tab = stored'
  OBVIOUS
<1>5. Load(tab) /\ tab \in {stored, DefaultAuth}
  BY <1>4 DEF Restart
<1>6. \A k \in Path : tab[k] # None => tab[k] = stored[k]
  BY <1>5 DEF DefaultAuth
<1>7. DOMAIN tab = Path /\ Copy(own, tab)
  <2>1. DOMAIN tab = Path
    BY <1>5 DEF DefaultAuth, Good, StoredOK
  <2>2. \A k \in Path : tab[k] = None \/ tab[k] = stored[k]
    BY <1>6
  <2>3. QED
    BY <2>1, <2>2 DEF Good, StoredOK, Copy, IsTable, Owned
<1>8. PICK m \in Setups(SecretPart(tab)), n \in Setups(AuthPart(tab)) :
        /\ down' = ~(m[2] /\ n[2])
        /\ router' = IF down' THEN [p \in Path |-> None] ELSE Routes(tab, m[1] \cup n[1])
  BY <1>4 DEF Restart
<1>9. \A p \in Path : router'[p] # None =>
        \E k \in Path : /\ tab[k] # None /\ tab[k].path = p
                        /\ router'[p].id = tab[k].id /\ router'[p].tainted = tab[k].tainted
  <2>1. CASE down'
    BY <1>8, <2>1
  <2>2. CASE ~down'
    <3>1. router' = Routes(tab, m[1] \cup n[1])
      BY <1>8, <2>2
    <3>2. QED
      BY <1>7, <3>1, RoutesFacts, Z3T(30)
  <2>3. QED
    BY <2>1, <2>2
<1>10. ASSUME ~down'
       PROVE  \A k \in Path : tab[k] # None =>
                /\ router'[tab[k].path] # None
                /\ router'[tab[k].path].id = tab[k].id
                /\ router'[tab[k].path].tainted = tab[k].tainted
  <2>1. router' = Routes(tab, m[1] \cup n[1]) /\ m[2] /\ n[2]
    BY <1>8, <1>10
  <2>2. QED
    BY <1>7, <2>1, RoutesFacts, Z3T(30)
<1>11. \A k \in Path : tab[k] # None /\ Fixed(tab[k].id) => tab[k].path = k
  BY <1>2, <1>6 DEF InPlace
<1>12. /\ \A k \in Path : table'[k] # None /\ Fixed(table'[k]) => entry'[table'[k]].path = k
       /\ \A p \in Path : router'[p] # None /\ Fixed(router'[p].id) => table'[p] = router'[p].id
       /\ ~down' => \A k \in Path : table'[k] # None /\ Fixed(table'[k]) /\ ~entry'[table'[k]].tainted
                      => Serves(k, table[k])'
  <2>1. UNCHANGED moved
    BY <1>1
  <2>2. \A k \in Path : table'[k] # None /\ Fixed(table'[k]) => entry'[table'[k]].path = k
    BY <1>5, <1>7, <1>11, <2>1, LoadedView
  <2>3. \A p \in Path : router'[p] # None /\ Fixed(router'[p].id) => table'[p] = router'[p].id
    <3>1. \A p \in Path : router'[p] # None =>
            \E k \in Path : tab[k] # None /\ tab[k].path = p /\ router'[p].id = tab[k].id
      BY <1>9
    <3>2. QED
      BY <1>5, <1>7, <1>11, <2>1, <3>1, LoadedView
  <2>4. ASSUME ~down'
        PROVE  \A k \in Path : table'[k] # None /\ Fixed(table'[k]) /\ ~entry'[table'[k]].tainted
                      => Serves(k, table[k])'
    <3>1. \A k \in Path : tab[k] # None =>
            /\ router'[tab[k].path] # None
            /\ router'[tab[k].path].id = tab[k].id
            /\ router'[tab[k].path].tainted = tab[k].tainted
      BY <1>10, <2>4
    <3>2. QED
      BY <1>5, <1>7, <1>11, <2>1, <3>1, LoadedView
  <2>5. QED
    BY <2>2, <2>3, <2>4
<1>13. /\ \A k \in Path : tab[k] # None =>
              tab[k].id \in Id /\ entry'[tab[k].id].tainted = tab[k].tainted
       /\ \A u \in Id : (\A k \in Path : tab[k] # None => tab[k].id # u) => entry'[u] = entry[u]
  BY <1>5, <1>7, LoadFacts
<1>14. InPlace'
  <2>1. ASSUME NEW k \in Path, stored'[k] # None, Fixed(stored'[k].id)
        PROVE  /\ stored'[k].path = k
               /\ stored'[k].tainted => entry'[stored'[k].id].tainted
    BY <1>4, <1>11, <1>13, <2>1
  <2>2. QED
    BY <1>1, <1>12, <2>1 DEF InPlace, Fixed
<1>15. Shown'
  BY <1>1, <1>12 DEF Shown, Fixed
<1>16. ClearedGone'
  <2>1. ASSUME NEW u \in cleared
        PROVE  (u \in Id /\ u < nextId /\ (Fixed(u) => Gone(u)))'
    <3>1. u \in Id /\ u < nextId /\ (Fixed(u) => Gone(u))
      BY <1>2, <2>1 DEF ClearedGone
    <3>2. ASSUME Fixed(u) PROVE Gone(u)'
      <4>1. /\ entry[u].tainted
            /\ \A k \in Path : stored[k] # None /\ stored[k].id = u => stored[k].tainted
        BY <3>1, <3>2 DEF Gone
      <4>2. \A k \in Path : tab[k] # None /\ tab[k].id = u => tab[k].tainted
        BY <1>6, <4>1
      <4>3. entry'[u].tainted
        <5>1. CASE \E k \in Path : tab[k] # None /\ tab[k].id = u
          BY <1>13, <4>2, <5>1
        <5>2. CASE ~\E k \in Path : tab[k] # None /\ tab[k].id = u
          BY <1>13, <3>1, <4>1, <5>2
        <5>3. QED
          BY <5>1, <5>2
      <4>4. \A p \in Path : ~Serves(p, u)'
        BY <1>9, <4>2 DEF Serves
      <4>5. QED
        BY <1>4, <4>2, <4>3, <4>4 DEF Gone
    <3>3. QED
      BY <1>1, <3>1, <3>2 DEF Fixed
  <2>2. QED
    BY <1>1, <2>1 DEF ClearedGone
<1>17. ASSUME NEW a \in Admins PROVE Doing(work[a])'
  BY <1>1, <1>3 DEF Doing, Resting, Quiet
<1>18. QED
  BY <1>3, <1>14, <1>15, <1>16, <1>17 DEF Settled

(* Where a request is depends on these alone. *)
LEMMA SameDoing ==
  ASSUME NEW w, Doing(w), UNCHANGED <<table, entry, router, stored, moved, nextId, faults>>
  PROVE  Doing(w)'
<1>1. \A P : CleanBut(P) => CleanBut(P)'
  BY DEF CleanBut
<1>2. \A P : CopyCleanBut(stored, P) => CopyCleanBut(stored, P)'
  BY DEF CopyCleanBut
<1>3. AllClean => AllClean'
  BY <1>1, <1>2 DEF AllClean
<1>4. Quiet' => Quiet
  BY DEF Quiet
<1>5. ASSUME NEW p PROVE CleanBeside(p) => CleanBeside(p)'
  BY <1>1, <1>2, <1>3 DEF CleanBeside
<1>6. Resting(w) => Resting(w)'
  BY <1>3, <1>4 DEF Resting
<1>7. ASSUME NEW p PROVE (Tainted(p) <=> Tainted(p)') /\ (TaintStored(p) <=> TaintStored(p)')
  BY DEF Tainted, TaintStored
<1>8. ASSUME NEW img, NEW p PROVE Exact(img, p) => Exact(img, p)'
  BY DEF Exact, Fixed
<1>9. ASSUME NEW p \in Path
      PROVE  /\ AtTaint(w, p) => AtTaint(w, p)'
             /\ AtPersist(w, p) => AtPersist(w, p)'
             /\ AtPut(w, p) => AtPut(w, p)'
             /\ AtDetach(w, p) => AtDetach(w, p)'
             /\ AtClear(w, p) => AtClear(w, p)'
             /\ AtRemove(w, p) => AtRemove(w, p)'
  <2>1. AtTaint(w, p) => AtTaint(w, p)'
    BY <1>3, <1>4, SameDetaching DEF AtTaint, Now
  <2>2. AtPersist(w, p) => AtPersist(w, p)'
    BY <1>1, <1>2, <1>4, <1>7, SameDetaching DEF AtPersist, Now
  <2>3. AtPut(w, p) => AtPut(w, p)'
    BY <1>1, <1>2, <1>4, <1>7, <1>8, SameDetaching DEF AtPut, Now, CopyCleanBut
  <2>4. AtDetach(w, p) => AtDetach(w, p)'
    BY <1>4, <1>5, <1>7, SameDetaching DEF AtDetach
  <2>5. AtClear(w, p) => AtClear(w, p)'
    BY <1>4, <1>5 DEF AtClear, Clearing, Removing, Now, Gone, Serves, Fixed
  <2>6. AtRemove(w, p) => AtRemove(w, p)'
    BY <1>4, <1>5 DEF AtRemove, Removing, Now
  <2>7. QED
    BY <2>1, <2>2, <2>3, <2>4, <2>5, <2>6
<1>10. ASSUME NEW s \in Path, NEW d \in Path PROVE AtRemount(w, s, d) => AtRemount(w, s, d)'
  BY <1>8, SameRerouting DEF AtRemount, Now, Undoable
<1>11. QED
  BY <1>6, <1>9, <1>10 DEF Doing

(* The monitor has read the tables, or nothing has happened. *)
LEMMA SeenSettles ==
  ASSUME Settled,
         UNCHANGED <<table, entry, router, stored, work, moved, down, cleared, disturbed, nextId, faults>>
  PROVE  Settled'
<1>1. SUFFICES ASSUME ~disturbed' PROVE Settled'
  BY DEF Settled
<1>2. /\ InPlace /\ Shown /\ ClearedGone /\ \A a \in Admins : Doing(work[a])
      /\ faults' \in Nat /\ (faults' = 0 => ~down')
  BY <1>1 DEF Settled
<1>3. InPlace' /\ Shown' /\ ClearedGone'
  BY <1>2, SameView
<1>4. ASSUME NEW a \in Admins PROVE Doing(work[a])'
  <2>1. PICK w : w = work[a]
    OBVIOUS
  <2>2. Doing(w)
    BY <1>2, <2>1
  <2>3. Doing(w)'
    BY <2>2, SameDoing
  <2>4. w = work'[a]
    BY <2>1
  <2>5. QED
    BY <2>3, <2>4
<1>5. QED
  BY <1>2, <1>3, <1>4 DEF Settled

(* What is loaded when nothing disturbs it is, at each key, what is in      *)
(* storage or in memory.                                                    *)
LEMMA ReloadedFacts ==
  ASSUME NEW own, NEW S, Good(own, S), InPlace, seen = stored,
         NEW k \in Path, Reloaded[k] # None
  PROVE  /\ Fixed(Reloaded[k].id) => Reloaded[k].path = k
         /\ \/ stored[k] # None /\ Reloaded[k] = stored[k]
            \/ Reloaded[k].tainted = entry[Reloaded[k].id].tainted /\ Reloaded[k].id = table[k]
               /\ table[k] # None
<1>1. Reloaded[k] = stored[k] \/ Reloaded[k] = Image(k)[k]
  BY DEF Reloaded
<1>2. CASE Reloaded[k] = stored[k]
  BY <1>2 DEF InPlace
<1>3. CASE Reloaded[k] = Image(k)[k]
  <2>1. k \in Kind(k)
    BY KindFacts
  <2>2. Image(k)[k] = IF table[k] = None THEN None
                      ELSE [id |-> table[k], path |-> entry[table[k]].path,
                            tainted |-> entry[table[k]].tainted]
    BY <2>1 DEF Image
  <2>3. table[k] # None
    BY <1>3, <2>2
  <2>4. /\ Reloaded[k].id = table[k] /\ Reloaded[k].path = entry[table[k]].path
        /\ Reloaded[k].tainted = entry[table[k]].tainted
    BY <1>3, <2>2, <2>3
  <2>5. QED
    BY <2>3, <2>4 DEF InPlace
<1>4. QED
  BY <1>1, <1>2, <1>3

LEMMA MonitorLoadSettles ==
  ASSUME NEW own, NEW S, Good(own, S), Settled, MonitorLoad
  PROVE  Settled'
<1>0. SUFFICES ASSUME ~disturbed' PROVE Settled'
  BY DEF Settled
<1>1. UNCHANGED <<stored, work, cleared, down, moved, nextId, faults>> /\ seen # None
  BY DEF MonitorLoad, bounds
<1>2. CASE UNCHANGED <<table, entry, router, disturbed>>
  BY <1>1, <1>2, SeenSettles
<1>3. CASE ~UNCHANGED <<table, entry, router, disturbed>>
  <2>1. PICK tab : /\ tab = Reloaded
                   /\ Load(tab)
                   /\ \E m \in Setups(SecretPart(tab)), n \in Setups(AuthPart(tab)) :
                        /\ router' = Routes(tab, m[1] \cup n[1])
                        /\ disturbed' = (disturbed \/ Busy \/ seen # stored \/ ~m[2] \/ ~n[2])
    BY <1>3 DEF MonitorLoad
  <2>2. PICK m \in Setups(SecretPart(tab)), n \in Setups(AuthPart(tab)) :
          /\ router' = Routes(tab, m[1] \cup n[1])
          /\ disturbed' = (disturbed \/ Busy \/ seen # stored \/ ~m[2] \/ ~n[2])
    BY <2>1
  <2>3. ~disturbed /\ ~Busy /\ seen = stored /\ m[2] /\ n[2]
    BY <1>0, <2>2
  <2>4. /\ InPlace /\ Shown /\ ClearedGone /\ \A a \in Admins : Doing(work[a])
        /\ faults' \in Nat /\ (faults' = 0 => ~down')
    BY <1>1, <2>3 DEF Settled
  <2>5. DOMAIN tab = Path /\ Copy(own, tab)
    BY <1>1, <2>1, ReloadedIsCopy
  <2>6. \A k \in Path : tab[k] # None =>
          /\ Fixed(tab[k].id) => tab[k].path = k
          /\ \/ stored[k] # None /\ tab[k] = stored[k]
             \/ tab[k].tainted = entry[tab[k].id].tainted /\ tab[k].id = table[k] /\ table[k] # None
    BY <2>1, <2>3, <2>4, ReloadedFacts
  <2>7. /\ \A p \in Path : router'[p] # None =>
             \E k \in Path : /\ tab[k] # None /\ tab[k].path = p
                             /\ router'[p].id = tab[k].id /\ router'[p].tainted = tab[k].tainted
        /\ \A k \in Path : tab[k] # None =>
             /\ router'[tab[k].path] # None
             /\ router'[tab[k].path].id = tab[k].id
             /\ router'[tab[k].path].tainted = tab[k].tainted
    <3>1. router' = Routes(tab, m[1] \cup n[1]) /\ m[2] /\ n[2]
      BY <2>2, <2>3
    <3>2. \A p \in Path : router'[p] # None =>
             \E k \in Path : /\ tab[k] # None /\ tab[k].path = p
                             /\ router'[p].id = tab[k].id /\ router'[p].tainted = tab[k].tainted
      BY <2>5, <3>1, RoutesFacts, Z3T(30)
    <3>3. \A k \in Path : tab[k] # None =>
             /\ router'[tab[k].path] # None
             /\ router'[tab[k].path].id = tab[k].id
             /\ router'[tab[k].path].tainted = tab[k].tainted
      BY <2>5, <3>1, RoutesFacts, Z3T(30)
    <3>4. QED
      BY <3>2, <3>3
  <2>8. /\ \A k \in Path : table'[k] = IF tab[k] = None THEN None ELSE tab[k].id
        /\ \A k \in Path : tab[k] # None =>
             tab[k].id \in Id /\ entry'[tab[k].id].tainted = tab[k].tainted
        /\ \A u \in Id : (\A k \in Path : tab[k] # None => tab[k].id # u) => entry'[u] = entry[u]
    BY <2>1, <2>5, LoadFacts
  <2>9. /\ \A k \in Path : table'[k] # None /\ Fixed(table'[k]) => entry'[table'[k]].path = k
        /\ \A p \in Path : router'[p] # None /\ Fixed(router'[p].id) => table'[p] = router'[p].id
        /\ \A k \in Path : table'[k] # None /\ Fixed(table'[k]) /\ ~entry'[table'[k]].tainted
             => Serves(k, table[k])'
    <3>1. /\ UNCHANGED moved /\ Load(tab)
          /\ \A k \in Path : tab[k] # None /\ Fixed(tab[k].id) => tab[k].path = k
      BY <1>1, <2>1, <2>6
    <3>2. \A k \in Path : table'[k] # None /\ Fixed(table'[k]) => entry'[table'[k]].path = k
      BY <2>5, <3>1, LoadedView
    <3>3. \A p \in Path : router'[p] # None /\ Fixed(router'[p].id) => table'[p] = router'[p].id
      <4>1. \A p \in Path : router'[p] # None =>
              \E k \in Path : tab[k] # None /\ tab[k].path = p /\ router'[p].id = tab[k].id
        BY <2>7
      <4>2. QED
        BY <2>5, <3>1, <4>1, LoadedView
    <3>4. \A k \in Path : table'[k] # None /\ Fixed(table'[k]) /\ ~entry'[table'[k]].tainted
             => Serves(k, table[k])'
      <4>1. \A k \in Path : tab[k] # None =>
              /\ router'[tab[k].path] # None
              /\ router'[tab[k].path].id = tab[k].id
              /\ router'[tab[k].path].tainted = tab[k].tainted
        BY <2>7
      <4>2. QED
        BY <2>5, <3>1, <4>1, LoadedView
    <3>5. QED
      BY <3>2, <3>3, <3>4
  <2>10. ASSUME NEW u \in Id, entry[u].tainted,
                \A k \in Path : stored[k] # None /\ stored[k].id = u => stored[k].tainted
         PROVE  /\ \A k \in Path : tab[k] # None /\ tab[k].id = u => tab[k].tainted
                /\ entry'[u].tainted
    <3>1. \A k \in Path : tab[k] # None /\ tab[k].id = u => tab[k].tainted
      BY <2>6, <2>10
    <3>2. CASE \E k \in Path : tab[k] # None /\ tab[k].id = u
      BY <2>8, <3>1, <3>2
    <3>3. CASE ~\E k \in Path : tab[k] # None /\ tab[k].id = u
      BY <2>8, <2>10, <3>1, <3>3
    <3>4. QED
      BY <3>2, <3>3
  <2>11. InPlace'
    <3>1. ASSUME NEW k \in Path, stored[k] # None, Fixed(stored[k].id)
          PROVE  /\ stored[k].path = k
                 /\ stored[k].tainted => entry'[stored[k].id].tainted
      <4>1. /\ stored[k].path = k
            /\ stored[k].tainted => entry[stored[k].id].tainted
        BY <2>4, <3>1 DEF InPlace
      <4>2. \A j \in Path : stored[j] # None /\ stored[j].id = stored[k].id => j = k
        BY <3>1, GoodFacts
      <4>3. stored[k].id \in Id
        BY <3>1 DEF Fixed
      <4>4. QED
        BY <2>10, <4>1, <4>2, <4>3
    <3>2. QED
      BY <1>1, <2>9, <3>1 DEF InPlace, Fixed
  <2>12. Shown'
    BY <1>1, <2>9 DEF Shown, Fixed
  <2>13. ClearedGone'
    <3>1. ASSUME NEW u \in cleared
          PROVE  (u \in Id /\ u < nextId /\ (Fixed(u) => Gone(u)))'
      <4>1. u \in Id /\ u < nextId /\ (Fixed(u) => Gone(u))
        BY <2>4, <3>1 DEF ClearedGone
      <4>2. ASSUME Fixed(u) PROVE Gone(u)'
        <5>1. /\ entry[u].tainted
              /\ \A k \in Path : stored[k] # None /\ stored[k].id = u => stored[k].tainted
          BY <4>1, <4>2 DEF Gone
        <5>2. /\ \A k \in Path : tab[k] # None /\ tab[k].id = u => tab[k].tainted
              /\ entry'[u].tainted
          BY <2>10, <4>1, <5>1
        <5>3. \A p \in Path : ~Serves(p, u)'
          BY <2>7, <5>2 DEF Serves
        <5>4. QED
          BY <1>1, <5>1, <5>2, <5>3 DEF Gone
      <4>3. QED
        BY <1>1, <4>1, <4>2 DEF Fixed
    <3>2. QED
      BY <1>1, <3>1 DEF ClearedGone
  <2>14. ASSUME NEW a \in Admins PROVE Doing(work[a])'
    <3>1. work[a] = <<>> /\ Doing(work[a])
      BY <2>3, <2>4 DEF Busy
    <3>2. Quiet => AllClean
      BY <3>1, DoingBy DEF Resting
    <3>3. ASSUME Quiet
          PROVE  /\ \A k \in Path : table'[k] # None => ~entry'[table'[k]].tainted
                 /\ \A k \in DOMAIN stored : stored[k] # None => ~stored[k].tainted
      <4>1. /\ \A k \in Path : table[k] # None => ~entry[table[k]].tainted
            /\ \A k \in DOMAIN stored : stored[k] # None => ~stored[k].tainted
            /\ DOMAIN stored = Path
        BY <3>2, <3>3 DEF AllClean, CleanBut, CopyCleanBut, Good, StoredOK
      <4>2. \A k \in Path : tab[k] # None => ~tab[k].tainted
        BY <2>6, <4>1
      <4>3. QED
        BY <2>8, <4>1, <4>2
    <3>4. (Quiet => AllClean)'
      BY <1>1, <3>3 DEF Quiet, AllClean, CleanBut, CopyCleanBut
    <3>5. QED
      BY <1>1, <3>1, <3>4 DEF Doing, Resting
  <2>15. QED
    BY <2>4, <2>11, <2>12, <2>13, <2>14 DEF Settled
<1>4. QED
  BY <1>2, <1>3

LEMMA SettledInit ==
  ASSUME Init PROVE Settled
<1>1. 0 \in Id /\ 0 # None
  BY BoundAssumption, NoneAssumption DEF Id
<1>2. PICK r : r = [id |-> 0, tainted |-> FALSE]
  OBVIOUS
<1>3. r.id = 0 /\ r.tainted = FALSE /\ r # None
  <2>1. r \in [id : Id, tainted : BOOLEAN] /\ r.id = 0 /\ r.tainted = FALSE
    BY <1>1, <1>2
  <2>2. QED
    BY <2>1, NoneAssumption
<1>4. /\ \A p \in Path : table[p] = IF p = Default THEN 0 ELSE None
      /\ \A p \in Path : router[p] = IF p = Default THEN r ELSE None
      /\ \A p \in Path : stored[p] # None => stored[p].id = 0 /\ stored[p].path = p /\ stored[p].tainted = FALSE
      /\ \A p \in Path : stored[p] # None => p = Default
      /\ DOMAIN stored = Path
      /\ entry[0].path = Default /\ entry[0].tainted = FALSE
  BY <1>1, <1>2, PathAssumption DEF Init
<1>5. InPlace
  BY <1>3, <1>4 DEF InPlace
<1>6. Shown
  BY <1>3, <1>4 DEF Shown, Serves
<1>7. ClearedGone
  BY DEF Init, ClearedGone
<1>8. AllClean
  BY <1>4 DEF AllClean, CleanBut, CopyCleanBut
<1>9. \A a \in Admins : Doing(work[a])
  BY <1>8 DEF Init, Doing, Resting
<1>10. QED
  BY <1>5, <1>6, <1>7, <1>9 DEF Init, Settled

LEMMA SettledStep ==
  ASSUME SoleAdmin, IInv, Settled, [Next]_vars
  PROVE  Settled'
<1>0. PICK own, S : Good(own, S)
  BY DEF IInv
<1>1. ASSUME NEW a \in Admins, Step(a) PROVE Settled'
  BY <1>0, <1>1, PersistSettles, PutSettles, TaintSettles, DetachSettles, ClearSettles,
     RemoveSettles, RerouteSettles DEF Step
<1>2. ASSUME NEW a \in Admins, NEW p \in Path, Mount(a, p) \/ Unmount(a, p) PROVE Settled'
  BY <1>0, <1>2, MountSettles, UnmountSettles
<1>3. ASSUME NEW a \in Admins, NEW s \in Path, NEW d \in Path, Remount(a, s, d) PROVE Settled'
  BY <1>0, <1>3, RemountSettles
<1>4. ASSUME NEW a \in Admins, Fail(a) PROVE Settled'
  BY <1>0, <1>4, FailSettles
<1>5. CASE Restart
  BY <1>0, <1>5, RestartSettles
<1>6. CASE MonitorRead
  BY <1>6, SeenSettles DEF MonitorRead, bounds
<1>7. CASE MonitorLoad
  BY <1>0, <1>7, MonitorLoadSettles
<1>8. CASE UNCHANGED vars
  BY <1>8, SeenSettles DEF vars
<1>9. QED
  BY <1>1, <1>2, <1>3, <1>4, <1>5, <1>6, <1>7, <1>8 DEF Next, MonitorStep

-----------------------------------------------------------------------------
(* What the second layer says.                                              *)

LEMMA SettledIsCleared ==
  ASSUME Settled PROVE ClearedNotServed
<1>1. SUFFICES ASSUME ~disturbed, NEW u \in cleared \ moved, NEW p \in Path
               PROVE  ~Serves(p, u) /\ ~StoredAt(p, u)
  BY DEF ClearedNotServed
<1>2. Gone(u)
  BY <1>1 DEF Settled, ClearedGone, Fixed
<1>3. ~StoredAt(p, u)
  <2>1. SUFFICES ASSUME NEW k \in Path, stored[k] # None,
                        stored[k] = [id |-> u, path |-> p, tainted |-> FALSE]
                 PROVE  FALSE
    BY DEF StoredAt
  <2>2. stored[k].id = u /\ stored[k].tainted = FALSE
    BY <2>1
  <2>3. QED
    BY <1>2, <2>1, <2>2 DEF Gone
<1>4. QED
  BY <1>2, <1>3 DEF Gone

LEMMA SettledIsSafe ==
  ASSUME SoleAdmin, IInv, Settled PROVE RestartSafe
<1>0. PICK own, S : Good(own, S)
  BY DEF IInv
<1>1. ServedSurvives
  <2>1. SUFFICES ASSUME AtRest, SameIds, NEW p \in Path, NEW u \in Id \ moved,
                        ~(entry[u].tainted /\ \E k \in Path : table[k] = u)
                 PROVE  Serves(p, u) <=> StoredAt(p, u)
    BY DEF ServedSurvives
  <2>2. InPlace /\ Shown /\ ~down /\ Fixed(u) /\ u # None
    BY <2>1, NoneAssumption DEF AtRest, Settled, Fixed
  <2>3. ASSUME Serves(p, u) PROVE StoredAt(p, u)
    <3>1. table[p] = u
      BY <2>2, <2>3 DEF Serves, InPlace
    <3>2. ~entry[u].tainted
      BY <2>1, <3>1
    <3>3. stored[p] # None /\ stored[p].id = u
      BY <2>1, <2>2, <3>1 DEF SameIds
    <3>4. stored[p].path = p /\ ~stored[p].tainted /\ stored[p] \in Row
      BY <1>0, <2>2, <3>2, <3>3, GoodFacts DEF InPlace
    <3>5. stored[p] = [id |-> u, path |-> p, tainted |-> FALSE]
      BY <3>3, <3>4 DEF Row
    <3>6. QED
      BY <3>3, <3>5 DEF StoredAt
  <2>4. ASSUME StoredAt(p, u) PROVE Serves(p, u)
    <3>1. PICK k \in Path : stored[k] # None /\ stored[k] = [id |-> u, path |-> p, tainted |-> FALSE]
      BY <2>4 DEF StoredAt
    <3>2. stored[k].id = u /\ stored[k].path = p
      BY <3>1
    <3>3. p = k /\ table[k] = u
      BY <2>1, <2>2, <3>1, <3>2 DEF SameIds, InPlace
    <3>4. ~entry[u].tainted
      BY <2>1, <3>3
    <3>5. QED
      BY <2>2, <3>3, <3>4 DEF Shown
  <2>5. QED
    BY <2>3, <2>4
<1>2. NoTaintLeft
  <2>1. SUFFICES ASSUME AtRest, faults = 0, moved = {}, NEW k \in Path, stored[k] # None
                 PROVE  ~stored[k].tainted
    BY DEF NoTaintLeft
  <2>2. PICK a \in Admins : work[a] = <<>>
    BY <2>1 DEF SoleAdmin, AtRest, Busy
  <2>3. Doing(work[a])
    BY <2>1 DEF AtRest, Settled
  <2>4. AllClean
    BY <2>1, <2>2, <2>3, DoingBy DEF Resting, Quiet
  <2>5. k \in DOMAIN stored
    BY <1>0 DEF Good, StoredOK
  <2>6. QED
    BY <2>1, <2>4, <2>5 DEF AllClean, CopyCleanBut
<1>3. QED
  BY <1>1, <1>2 DEF RestartSafe

(* A taint is in storage before the route is taken away and before the view *)
(* is emptied, so an engine whose data is going is served neither now nor   *)
(* after a restart at any step, after any error of storage (mount.rs,       *)
(* unmount, remove_mount_entry; auth/mod.rs, disable_auth).                 *)
THEOREM ClearedNotServedHolds ==
  ASSUME SoleAdmin PROVE Spec => []ClearedNotServed
<1>1. Init => IInv /\ Settled
  BY GoodInit, SettledInit
<1>2. IInv /\ Settled /\ [Next]_vars => IInv' /\ Settled'
  BY GoodStep, SettledStep
<1>3. Settled => ClearedNotServed
  BY SettledIsCleared
<1>4. QED
  BY <1>1, <1>2, <1>3, PTL DEF Spec

(* What is served when no request is under way is what load and setup will  *)
(* serve after an unseal, and without errors no taint is left in storage    *)
(* that would stop the unseal (mount.rs, persist, load, setup; the monitor).*)
THEOREM RestartSafeHolds ==
  ASSUME SoleAdmin PROVE Spec => []RestartSafe
<1>1. Init => IInv /\ Settled
  BY GoodInit, SettledInit
<1>2. IInv /\ Settled /\ [Next]_vars => IInv' /\ Settled'
  BY GoodStep, SettledStep
<1>3. IInv /\ Settled => RestartSafe
  BY SettledIsSafe
<1>4. QED
  BY <1>1, <1>2, <1>3, PTL DEF Spec
=============================================================================
