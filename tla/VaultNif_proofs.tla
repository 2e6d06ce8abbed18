-------------------------- MODULE VaultNif_proofs --------------------------
(* Proofs about VaultNif, for every number of callers, names and calls.    *)
EXTENDS VaultNif, FiniteSetTheorems, WellFoundedInduction, TLAPS

(* A non-empty set of naturals has a least element.                         *)
LEMMA NatSetHasMin ==
  ASSUME NEW T \in SUBSET Nat, T # {}
  PROVE  \E m \in T : \A x \in T : m <= x
<1>1. PICK m \in T : \A x \in T : <<x, m>> \notin OpToRel(<, Nat)
  BY WFMin, NatLessThanWellFounded, Zenon
<1>2. \A x \in T : ~(x < m)
  BY <1>1, Zenon DEF OpToRel
<1>3. QED
  BY <1>2

(* A non-empty set of naturals with an upper bound has a largest element:  *)
(* the entry that versions.last() and "ORDER BY version DESC LIMIT 1" take.*)
LEMMA BoundedSetHasMax ==
  ASSUME NEW T \in SUBSET Nat, T # {},
         NEW b \in Nat, \A x \in T : x <= b
  PROVE  \E m \in T : \A x \in T : x <= m
<1> DEFINE D == {b - x : x \in T}
<1>1. D \subseteq Nat /\ D # {}
  <2>1. \A x \in T : b - x \in Nat
    OBVIOUS
  <2>2. PICK x \in T : TRUE
    OBVIOUS
  <2>3. b - x \in D
    OBVIOUS
  <2>4. QED
    BY <2>1, <2>3
<1>2. PICK d \in D : \A e \in D : <<e, d>> \notin OpToRel(<, Nat)
  BY <1>1, WFMin, NatLessThanWellFounded, Zenon
<1>3. \A e \in D : d <= e
  <2>1. \A e \in D : ~(e < d)
    BY <1>1, <1>2, Zenon DEF OpToRel
  <2>2. d \in Nat /\ \A e \in D : e \in Nat
    BY <1>1
  <2>3. QED
    <3> HIDE DEF D
    <3> QED BY <2>1, <2>2
<1>4. PICK m \in T : d = b - m
  OBVIOUS
<1>5. ASSUME NEW x \in T PROVE x <= m
  <2>1. b - x \in D
    OBVIOUS
  <2>2. QED
    BY <1>3, <1>4, <2>1
<1>6. QED
  BY <1>5

(* The vector of a name is bounded above by some position, so it has a     *)
(* last element: without this versions.last() would not denote an entry.   *)
SeqBounded == \A n \in Names : \E b \in Nat : \A e \in store[n] : e.seq <= b

TypeInv == TypeOK /\ SeqBounded

(* versions.last() of a non-empty vector is one of its entries, the one    *)
(* with the greatest position.                                             *)
LEMMA LatestIsLast ==
  ASSUME TypeInv, NEW n \in Names, store[n] # {}
  PROVE  Latest(n) \in store[n] /\ \A f \in store[n] : f.seq <= Latest(n).seq
<1> DEFINE T == {e.seq : e \in store[n]}
<1>1. T \in SUBSET Nat
  BY DEF TypeInv, TypeOK, Entry
<1>2. T # {}
  OBVIOUS
<1>3. PICK b \in Nat : \A e \in store[n] : e.seq <= b
  BY DEF TypeInv, SeqBounded
<1>4. \A x \in T : x <= b
  BY <1>3
<1>5. PICK m \in T : \A x \in T : x <= m
  <2> HIDE DEF T
  <2> QED BY <1>1, <1>2, <1>4, BoundedSetHasMax
<1>6. \E e \in store[n] : \A f \in store[n] : f.seq <= e.seq
  BY <1>5
<1>7. QED
  BY <1>6 DEF Latest

(* The entry a renewal updates is one of those that hold the lease.        *)
LEMMA FirstIsHolder ==
  ASSUME TypeInv, NEW l \in Lease, Holders(l) # {}
  PROVE  First(Holders(l)) \in Holders(l)
<1> DEFINE H == Holders(l)
           T == {e.seq : e \in H}
<1>1. H \subseteq store[l.name] /\ l.name \in Names
  BY DEF Holders, Lease
<1>2. T \in SUBSET Nat
  BY <1>1 DEF TypeInv, TypeOK, Entry
<1>3. T # {}
  OBVIOUS
<1>4. PICK m \in T : \A x \in T : m <= x
  <2> HIDE DEF T
  <2> QED BY <1>2, <1>3, NatSetHasMin
<1>5. \E e \in H : \A f \in H : e.seq <= f.seq
  BY <1>4
<1>6. QED
  BY <1>5 DEF First

(* Positions and versions handed out are positive.                         *)
LEMMA NextTypes ==
  ASSUME TypeInv, NEW n \in Names
  PROVE  NextSeq(n) \in Nat \ {0} /\ NextVersion(n) \in Nat \ {0}
<1>1. CASE store[n] = {}
  BY <1>1 DEF NextSeq, NextVersion
<1>2. CASE store[n] # {}
  <2>1. Latest(n) \in Entry
    BY <1>2, LatestIsLast DEF TypeInv, TypeOK
  <2>2. QED
    BY <1>2, <2>1 DEF Entry, NextSeq, NextVersion
<1>3. QED
  BY <1>1, <1>2

(* Moving a process to a section with an argument of that section's kind   *)
(* keeps pc and arg well typed.                                            *)
LEMMA GotoTypes ==
  ASSUME TypeInv, NEW p \in Procs,
         NEW step \in Steps \cup BareSteps, NEW a,
         step \in Steps => a \in ArgOf(step),
         Goto(p, step, a)
  PROVE  /\ pc' \in [Procs -> Steps \cup BareSteps]
         /\ DOMAIN arg' = Procs
         /\ \A q \in Procs : pc'[q] \in Steps => arg'[q] \in ArgOf(pc'[q])
<1>1. pc' \in [Procs -> Steps \cup BareSteps] /\ DOMAIN arg' = Procs
  BY DEF TypeInv, TypeOK, Goto
<1>2. ASSUME NEW q \in Procs, pc'[q] \in Steps
      PROVE  arg'[q] \in ArgOf(pc'[q])
  <2>1. CASE q = p
    <3>1. pc'[q] = step /\ arg'[q] = a
      BY <2>1 DEF TypeInv, TypeOK, Goto
    <3>2. QED
      BY <1>2, <3>1
  <2>2. CASE q # p
    <3>1. pc'[q] = pc[q] /\ arg'[q] = arg[q]
      BY <2>2 DEF TypeInv, TypeOK, Goto
    <3>2. QED
      BY <1>2, <3>1 DEF TypeInv, TypeOK
  <2>3. QED
    BY <2>1, <2>2
<1>3. QED
  BY <1>1, <1>2

(* The same when the call returns. *)
LEMMA ReturnTypes ==
  ASSUME TypeInv, NEW p \in Procs, Return(p)
  PROVE  /\ pc' \in [Procs -> Steps \cup BareSteps]
         /\ DOMAIN arg' = Procs
         /\ \A q \in Procs : pc'[q] \in Steps => arg'[q] \in ArgOf(pc'[q])
<1>1. "idle" \in Steps \cup BareSteps /\ "idle" \notin Steps
  BY DEF Steps, BareSteps
<1>2. Goto(p, "idle", NoArg)
  BY DEF Return
<1>3. QED
  BY <1>1, <1>2, GotoTypes, Zenon

(* What the argument of a process in a given section is. *)
LEMMA ArgTypes ==
  ASSUME TypeInv, NEW p \in Procs
  PROVE  /\ pc[p] = "unseal_begin" => arg[p] \in Keys \cup {ShortKey}
         /\ pc[p] = "unseal_store" => arg[p] \in Keys
         /\ pc[p] = "put_version" => arg[p] \in PutArg
         /\ pc[p] = "put_push" => arg[p] \in [name : Names, entry : NewEntry]
         /\ pc[p] = "get_read" => arg[p] \in [name : Names]
         /\ pc[p] = "get_age" => arg[p] \in [name : Names, entry : Entry]
         /\ pc[p] = "destroy_remove" => arg[p] \in [name : Names, version : Int]
         /\ pc[p] = "renew_update" => arg[p] \in [lease : Lease, ttl : Int]
         /\ pc[p] = "audit" => arg[p] \in AuditRow
  BY DEF TypeInv, TypeOK, ArgOf, Steps

(* The guard of a data call leaves everything but pc, arg and calls alone. *)
LEMMA EnterTypes ==
  ASSUME TypeInv, NEW p \in Procs, NEW ok, NEW step \in Steps, NEW a,
         a \in ArgOf(step), Enter(p, ok, step, a)
  PROVE  TypeInv'
<1>1. /\ pc' \in [Procs -> Steps \cup BareSteps]
      /\ DOMAIN arg' = Procs
      /\ \A q \in Procs : pc'[q] \in Steps => arg'[q] \in ArgOf(pc'[q])
  <2>1. Goto(p, step, a) \/ Return(p)
    BY DEF Enter
  <2>2. QED
    BY <2>1, GotoTypes, ReturnTypes, Zenon
<1>2. QED
  BY <1>1 DEF TypeInv, TypeOK, SeqBounded, Enter, Begin

(* A step that leaves the data alone keeps the type invariant if it moves  *)
(* its process properly.                                                   *)
LEMMA ControlStepTypes ==
  ASSUME TypeInv, NEW p \in Procs,
         NEW step \in Steps \cup BareSteps, NEW a,
         step \in Steps => a \in ArgOf(step),
         Goto(p, step, a),
         state' \in VaultState, master' \in Keys \cup {NoKey},
         audit' \in Seq(AuditRow), calls' \in Nat,
         UNCHANGED <<store, now, promised>>
  PROVE  TypeInv'
<1>1. /\ pc' \in [Procs -> Steps \cup BareSteps]
      /\ DOMAIN arg' = Procs
      /\ \A q \in Procs : pc'[q] \in Steps => arg'[q] \in ArgOf(pc'[q])
  BY GotoTypes, Zenon
<1>2. QED
  BY <1>1 DEF TypeInv, TypeOK, SeqBounded

(* An edit of one name's vector that keeps it a bounded set of entries     *)
(* keeps the type invariant.                                               *)
LEMMA StoreStepTypes ==
  ASSUME TypeInv, NEW p \in Procs, NEW a \in AuditRow,
         NEW n \in Names, NEW S \in SUBSET Entry,
         \E b \in Nat : \A e \in S : e.seq <= b,
         store' = [store EXCEPT ![n] = S],
         Goto(p, "audit", a),
         promised' \subseteq PromiseMade,
         UNCHANGED <<state, master, audit, now, calls>>
  PROVE  TypeInv'
<1>1. "audit" \in Steps \cup BareSteps /\ a \in ArgOf("audit")
  BY DEF Steps, ArgOf
<1>2. /\ pc' \in [Procs -> Steps \cup BareSteps]
      /\ DOMAIN arg' = Procs
      /\ \A q \in Procs : pc'[q] \in Steps => arg'[q] \in ArgOf(pc'[q])
  BY <1>1, GotoTypes, Zenon
<1>3. store' \in [Names -> SUBSET Entry] /\ SeqBounded'
  BY DEF TypeInv, TypeOK, SeqBounded
<1>4. QED
  BY <1>2, <1>3 DEF TypeInv, TypeOK

(* Each section of unseal and seal keeps the types. *)
LEMMA LifecycleTypes ==
  ASSUME TypeInv, NEW p \in Lifecycle, LifecycleStep(p)
  PROVE  TypeInv'
<1> p \in Procs
  BY DEF Procs
<1> USE DEF VaultState, Steps, BareSteps, Begin, At, Return
<1>1. ASSUME NEW k \in Keys \cup {ShortKey}, UnsealCheck(p, k) PROVE TypeInv'
  <2>1. k \in ArgOf("unseal_begin")
    BY DEF ArgOf
  <2>2. \/ Goto(p, "idle", NoArg)
        \/ Goto(p, "unseal_begin", k)
    BY <1>1 DEF UnsealCheck
  <2>3. /\ state' \in VaultState /\ master' \in Keys \cup {NoKey}
        /\ audit' \in Seq(AuditRow) /\ calls' \in Nat /\ UNCHANGED <<store, now, promised>>
    BY <1>1 DEF UnsealCheck, TypeInv, TypeOK
  <2>4. QED
    BY <2>1, <2>2, <2>3, ControlStepTypes, ZenonT(30)
<1>2. CASE UnsealBegin(p)
  <2>1. arg[p] \in Keys => arg[p] \in ArgOf("unseal_store")
    BY DEF ArgOf
  <2>2. \/ arg[p] \in Keys /\ Goto(p, "unseal_store", arg[p])
        \/ Goto(p, "unseal_wrong", arg[p])
    BY <1>2 DEF UnsealBegin
  <2>3. /\ state' \in VaultState /\ master' \in Keys \cup {NoKey}
        /\ audit' \in Seq(AuditRow) /\ calls' \in Nat /\ UNCHANGED <<store, now, promised>>
    BY <1>2 DEF UnsealBegin, TypeInv, TypeOK
  <2>4. "unseal_wrong" \notin Steps /\ "unseal_wrong" \in BareSteps /\ "unseal_store" \in Steps
    OBVIOUS
  <2>5. QED
    BY <2>1, <2>2, <2>3, <2>4, ControlStepTypes
<1>3. CASE UnsealWrongKey(p)
  <2>1. /\ state' \in VaultState /\ master' \in Keys \cup {NoKey} /\ Goto(p, "idle", NoArg)
        /\ audit' \in Seq(AuditRow) /\ calls' \in Nat /\ UNCHANGED <<store, now, promised>>
    BY <1>3 DEF UnsealWrongKey, TypeInv, TypeOK
  <2>2. QED
    BY <2>1, ControlStepTypes
<1>4. CASE UnsealStoreKey(p)
  <2>1. arg[p] \in Keys
    BY <1>4, ArgTypes DEF UnsealStoreKey
  <2>2. /\ state' \in VaultState /\ master' \in Keys \cup {NoKey} /\ Goto(p, "unseal_finish", NoArg)
        /\ audit' \in Seq(AuditRow) /\ calls' \in Nat /\ UNCHANGED <<store, now, promised>>
    BY <1>4, <2>1 DEF UnsealStoreKey, TypeInv, TypeOK
  <2>3. QED
    BY <2>2, ControlStepTypes
<1>5. CASE UnsealFinish(p)
  <2>1. /\ state' \in VaultState /\ master' \in Keys \cup {NoKey} /\ Goto(p, "idle", NoArg)
        /\ audit' \in Seq(AuditRow) /\ calls' \in Nat /\ UNCHANGED <<store, now, promised>>
    BY <1>5 DEF UnsealFinish, TypeInv, TypeOK
  <2>2. QED
    BY <2>1, ControlStepTypes
<1>6. CASE SealBegin(p)
  <2>1. /\ state' \in VaultState /\ master' \in Keys \cup {NoKey} /\ Goto(p, "seal_zeroize", NoArg)
        /\ audit' \in Seq(AuditRow) /\ calls' \in Nat /\ UNCHANGED <<store, now, promised>>
    BY <1>6 DEF SealBegin, TypeInv, TypeOK
  <2>2. QED
    BY <2>1, ControlStepTypes
<1>7. CASE SealZeroize(p)
  <2>1. /\ state' \in VaultState /\ master' \in Keys \cup {NoKey} /\ Goto(p, "seal_finish", NoArg)
        /\ audit' \in Seq(AuditRow) /\ calls' \in Nat /\ UNCHANGED <<store, now, promised>>
    BY <1>7 DEF SealZeroize, TypeInv, TypeOK
  <2>2. QED
    BY <2>1, ControlStepTypes
<1>8. CASE SealFinish(p)
  <2>1. /\ state' \in VaultState /\ master' \in Keys \cup {NoKey} /\ Goto(p, "idle", NoArg)
        /\ audit' \in Seq(AuditRow) /\ calls' \in Nat /\ UNCHANGED <<store, now, promised>>
    BY <1>8 DEF SealFinish, TypeInv, TypeOK
  <2>2. QED
    BY <2>1, ControlStepTypes
<1>9. QED
  BY <1>1, <1>2, <1>3, <1>4, <1>5, <1>6, <1>7, <1>8 DEF LifecycleStep

(* Each section of a put keeps the types. *)
LEMMA WriterTypes ==
  ASSUME TypeInv, NEW p \in Writers, WriterStep(p)
  PROVE  TypeInv'
<1> p \in Procs
  BY DEF Procs
<1>1. ASSUME NEW n \in Names, NEW x \in Values, NEW t \in Ttls, PutCheck(p, n, x, t)
      PROVE  TypeInv'
  <2> DEFINE a == [name |-> n, value |-> x, ttl |-> t[1], maxTtl |-> t[2]]
  <2>1. t \in Int \X Int
    BY TtlsAssumption
  <2>2. a \in PutArg
    BY <2>1 DEF PutArg
  <2>3. "put_version" \in Steps /\ a \in ArgOf("put_version")
    BY <2>2 DEF Steps, ArgOf
  <2>4. Enter(p, x # EmptyValue /\ t[1] > 0 /\ t[2] >= t[1], "put_version", a)
    BY <1>1 DEF PutCheck
  <2>5. QED
    <3> HIDE DEF a
    <3> QED BY <2>3, <2>4, EnterTypes
<1>2. CASE PutVersion(p)
  <2> DEFINE n == arg[p].name
             e == [version |-> NextVersion(n), value |-> arg[p].value, created |-> now,
                   ttl |-> arg[p].ttl, maxTtl |-> arg[p].maxTtl]
             a == [name |-> n, entry |-> e]
  <2>1. arg[p] \in PutArg
    BY <1>2, ArgTypes DEF PutVersion, At
  <2>2. NextVersion(n) \in Nat \ {0}
    BY <2>1, NextTypes DEF PutArg
  <2>3. e \in NewEntry
    BY <2>1, <2>2 DEF PutArg, NewEntry, TypeInv, TypeOK
  <2>4. a \in [name : Names, entry : NewEntry]
    BY <2>1, <2>3 DEF PutArg
  <2>5. "put_push" \in Steps /\ a \in ArgOf("put_push")
    BY <2>4 DEF Steps, ArgOf
  <2>6. /\ Goto(p, "put_push", a)
        /\ UNCHANGED <<state, master, store, audit, now, promised, calls>>
    BY <1>2 DEF PutVersion, At
  <2>7. /\ state' \in VaultState /\ master' \in Keys \cup {NoKey}
        /\ audit' \in Seq(AuditRow) /\ calls' \in Nat /\ UNCHANGED <<store, now, promised>>
    BY <2>6 DEF TypeInv, TypeOK
  <2>8. QED
    <3> HIDE DEF a
    <3> QED BY <2>5, <2>6, <2>7, ControlStepTypes
<1>3. CASE PutPush(p)
  <2> DEFINE n == arg[p].name
             e == arg[p].entry
             S == store[n] \cup {Pushed(n, e)}
             a == RowOf("put", n, e.version)
  <2>1. n \in Names /\ e \in NewEntry
    BY <1>3, ArgTypes DEF PutPush, At
  <2>2. NextSeq(n) \in Nat \ {0}
    BY <2>1, NextTypes
  <2>3. Pushed(n, e) \in Entry /\ Pushed(n, e).seq = NextSeq(n)
    BY <2>1, <2>2 DEF Pushed, NewEntry, Entry
  <2>4. S \in SUBSET Entry
    BY <2>1, <2>3 DEF TypeInv, TypeOK
  <2>5. \E b \in Nat : \A f \in S : f.seq <= b
    <3>1. PICK b \in Nat : \A f \in store[n] : f.seq <= b
      BY <2>1 DEF TypeInv, SeqBounded
    <3>2. \A f \in store[n] : f.seq \in Nat
      BY <2>1 DEF TypeInv, TypeOK, Entry
    <3>3. \A f \in S : f.seq <= b + NextSeq(n)
      BY <2>2, <2>3, <3>1, <3>2
    <3>4. b + NextSeq(n) \in Nat
      BY <2>2
    <3>5. QED
      <4> HIDE DEF S
      <4> QED BY <3>3, <3>4
  <2>6. a \in AuditRow
    BY <2>1 DEF RowOf, AuditRow, AuditEvent, NewEntry
  <2>7. /\ store' = [store EXCEPT ![n] = S]
        /\ Goto(p, "audit", a)
        /\ UNCHANGED <<state, master, audit, now, calls>>
    BY <1>3 DEF PutPush, At
  <2>8. promised' \subseteq PromiseMade
    <3>1. Promise(n, e) \in PromiseMade
      BY <2>1 DEF Promise, PromiseMade, NewEntry
    <3>2. promised' = promised \cup {Promise(n, e)}
      BY <1>3 DEF PutPush
    <3>3. QED
      <4> HIDE DEF n, e
      <4> QED BY <3>1, <3>2 DEF TypeInv, TypeOK
  <2>9. QED
    <3> HIDE DEF a, S, n
    <3> QED BY <2>1, <2>4, <2>5, <2>6, <2>7, <2>8, StoreStepTypes
<1>4. QED
  BY <1>1, <1>2, <1>3 DEF WriterStep

(* Each section of a get, a destroy and a renewal keeps the types. *)
LEMMA ClientTypes ==
  ASSUME TypeInv, NEW p \in Clients, ClientStep(p)
  PROVE  TypeInv'
<1> p \in Procs
  BY DEF Procs
<1>a. ASSUME NotFound(p), UNCHANGED calls PROVE TypeInv'
  <2>1. /\ pc' \in [Procs -> Steps \cup BareSteps]
        /\ DOMAIN arg' = Procs
        /\ \A q \in Procs : pc'[q] \in Steps => arg'[q] \in ArgOf(pc'[q])
    BY <1>a, ReturnTypes DEF NotFound
  <2>2. QED
    BY <1>a, <2>1 DEF NotFound, TypeInv, TypeOK, SeqBounded
<1>1. ASSUME NEW n \in Names, GetCheck(p, n) PROVE TypeInv'
  <2>1. "get_read" \in Steps /\ [name |-> n] \in ArgOf("get_read")
    BY DEF Steps, ArgOf
  <2>2. QED
    BY <1>1, <2>1, EnterTypes DEF GetCheck
<1>2. CASE GetRead(p)
  <2> DEFINE n == arg[p].name
             a == [name |-> n, entry |-> Latest(n)]
  <2>1. n \in Names
    BY <1>2, ArgTypes DEF GetRead, At
  <2>2. CASE store[n] = {}
    BY <1>2, <2>2, <1>a DEF GetRead, At, NotFound
  <2>3. CASE store[n] # {}
    <3>1. Latest(n) \in Entry
      BY <2>1, <2>3, LatestIsLast DEF TypeInv, TypeOK
    <3>2. "get_age" \in Steps /\ a \in ArgOf("get_age")
      BY <2>1, <3>1 DEF Steps, ArgOf
    <3>3. Goto(p, "get_age", a)
      BY <1>2, <2>3 DEF GetRead
    <3>4. /\ state' \in VaultState /\ master' \in Keys \cup {NoKey}
          /\ audit' \in Seq(AuditRow) /\ calls' \in Nat /\ UNCHANGED <<store, now, promised>>
      BY <1>2 DEF GetRead, At, TypeInv, TypeOK
    <3>5. QED
      <4> HIDE DEF a
      <4> QED BY <3>2, <3>3, <3>4, ControlStepTypes
  <2>4. QED
    BY <2>2, <2>3
<1>3. CASE GetAge(p)
  <2>1. arg[p] \in [name : Names, entry : Entry]
    BY <1>3, ArgTypes DEF GetAge, At
  <2>2. PICK ev \in AuditEvent : Goto(p, "audit", RowOf(ev, arg[p].name, arg[p].entry.version))
    BY <1>3 DEF GetAge, AuditEvent
  <2>3. RowOf(ev, arg[p].name, arg[p].entry.version) \in AuditRow
    BY <2>1 DEF RowOf, AuditRow, Entry
  <2>4. "audit" \in Steps /\ RowOf(ev, arg[p].name, arg[p].entry.version) \in ArgOf("audit")
    BY <2>3 DEF Steps, ArgOf
  <2>5. /\ state' \in VaultState /\ master' \in Keys \cup {NoKey}
        /\ audit' \in Seq(AuditRow) /\ calls' \in Nat /\ UNCHANGED <<store, now, promised>>
    BY <1>3 DEF GetAge, At, TypeInv, TypeOK
  <2>6. QED
    BY <2>2, <2>4, <2>5, ControlStepTypes
<1>4. ASSUME NEW n \in Names, NEW v \in KnownVersions(n), DestroyCheck(p, n, v)
      PROVE  TypeInv'
  <2>1. v \in Int
    BY DEF KnownVersions, TypeInv, TypeOK, Entry
  <2>2. "destroy_remove" \in Steps /\ [name |-> n, version |-> v] \in ArgOf("destroy_remove")
    BY <2>1 DEF Steps, ArgOf
  <2>3. QED
    BY <1>4, <2>2, EnterTypes DEF DestroyCheck
<1>5. CASE DestroyRemove(p)
  <2> DEFINE n == arg[p].name
             v == arg[p].version
             a == RowOf("destroy", n, v)
  <2>1. n \in Names /\ v \in Int
    BY <1>5, ArgTypes DEF DestroyRemove, At
  <2>2. CASE Retained(n, v) = store[n]
    BY <1>5, <2>2, <1>a DEF DestroyRemove, At
  <2>3. CASE Retained(n, v) # store[n]
    <3>1. Retained(n, v) \subseteq store[n]
      BY DEF Retained
    <3>2. Retained(n, v) \in SUBSET Entry
      BY <2>1, <3>1 DEF TypeInv, TypeOK
    <3>3. \E b \in Nat : \A f \in Retained(n, v) : f.seq <= b
      BY <2>1, <3>1 DEF TypeInv, SeqBounded
    <3>4. a \in AuditRow
      BY <2>1 DEF RowOf, AuditRow, AuditEvent
    <3>5. /\ store' = [store EXCEPT ![n] = Retained(n, v)]
          /\ Goto(p, "audit", a)
          /\ UNCHANGED <<state, master, audit, now, calls>>
      BY <1>5, <2>3 DEF DestroyRemove, At
    <3>6. promised' \subseteq PromiseMade
      BY <1>5, <2>3 DEF DestroyRemove, TypeInv, TypeOK
    <3>7. QED
      <4> HIDE DEF a, n, v
      <4> QED BY <2>1, <3>2, <3>3, <3>4, <3>5, <3>6, StoreStepTypes
  <2>4. QED
    BY <2>2, <2>3
<1>6. ASSUME NEW l \in KnownLeases, NEW t \in Ttls, RenewCheck(p, l, t[1])
      PROVE  TypeInv'
  <2>1. l \in Lease
    BY DEF KnownLeases, LeaseOf, Lease, TypeInv, TypeOK, Entry
  <2>2. t[1] \in Int
    BY TtlsAssumption
  <2>3. "renew_update" \in Steps /\ [lease |-> l, ttl |-> t[1]] \in ArgOf("renew_update")
    BY <2>1, <2>2 DEF Steps, ArgOf
  <2>4. QED
    BY <1>6, <2>3, EnterTypes DEF RenewCheck
<1>7. CASE RenewUpdate(p)
  <2> DEFINE l == arg[p].lease
             t == arg[p].ttl
             e == First(Holders(l))
             S == (store[l.name] \ {e}) \cup {Renewed(e, t)}
             a == RowOf("lease_renew", l.name, l.version)
  <2>1. l \in Lease /\ t \in Int /\ l.name \in Names
    BY <1>7, ArgTypes DEF RenewUpdate, At, Lease
  <2>2. CASE Holders(l) = {}
    BY <1>7, <2>2, <1>a DEF RenewUpdate, At
  <2>3. CASE Holders(l) # {}
    <3>1. e \in store[l.name]
      BY <2>1, <2>3, FirstIsHolder DEF Holders
    <3>2. e \in Entry
      BY <2>1, <3>1 DEF TypeInv, TypeOK
    <3>3. Renewed(e, t) \in Entry /\ Renewed(e, t).seq = e.seq
      <4> HIDE DEF e
      <4> QED BY <2>1, <3>2 DEF Renewed, Entry
    <3>4. S \in SUBSET Entry
      BY <2>1, <3>3 DEF TypeInv, TypeOK
    <3>5. \E b \in Nat : \A f \in S : f.seq <= b
      BY <2>1, <3>1, <3>3 DEF TypeInv, SeqBounded
    <3>6. a \in AuditRow
      BY <2>1 DEF RowOf, AuditRow, AuditEvent, Lease
    <3>7. /\ store' = [store EXCEPT ![l.name] = S]
          /\ Goto(p, "audit", a)
          /\ UNCHANGED <<state, master, audit, now, calls>>
      BY <1>7, <2>3 DEF RenewUpdate, At
    <3>8. promised' \subseteq PromiseMade
      BY <1>7, <2>3 DEF RenewUpdate, TypeInv, TypeOK
    <3>9. QED
      <4> HIDE DEF a, S, l
      <4> QED BY <2>1, <3>4, <3>5, <3>6, <3>7, <3>8, StoreStepTypes
  <2>4. QED
    BY <2>2, <2>3
<1>8. QED
  BY <1>1, <1>2, <1>3, <1>4, <1>5, <1>6, <1>7 DEF ClientStep

(* The types, strengthened by the bound the lemmas on the newest row need. *)
LEMMA TypeInvariance == Spec => []TypeInv
<1>1. Init => TypeInv
  BY NoKeyAssumption
  DEF Init, TypeInv, TypeOK, SeqBounded, VaultState, Steps, BareSteps
<1>2. TypeInv /\ [Next]_vars => TypeInv'
  <2> SUFFICES ASSUME TypeInv, [Next]_vars PROVE TypeInv'
    OBVIOUS
  <2>1. ASSUME NEW p \in Procs, AppendAudit(p) PROVE TypeInv'
    <3>1. arg[p] \in AuditRow
      BY <2>1, ArgTypes DEF AppendAudit, At
    <3>2. /\ pc' \in [Procs -> Steps \cup BareSteps]
          /\ DOMAIN arg' = Procs
          /\ \A q \in Procs : pc'[q] \in Steps => arg'[q] \in ArgOf(pc'[q])
      BY <2>1, ReturnTypes DEF AppendAudit
    <3>3. QED
      BY <2>1, <3>1, <3>2 DEF AppendAudit, At, TypeInv, TypeOK, SeqBounded
  <2>2. CASE Tick
    BY <2>2 DEF Tick, TypeInv, TypeOK, SeqBounded
  <2>3. CASE UNCHANGED vars
    BY <2>3 DEF vars, TypeInv, TypeOK, SeqBounded
  <2>4. QED
    BY <2>1, <2>2, <2>3, LifecycleTypes, WriterTypes, ClientTypes DEF Next
<1>3. QED
  BY <1>1, <1>2, PTL DEF Spec

(* Every state the handle reaches is well typed, whatever the number of    *)
(* callers and whatever order their critical sections run in.              *)
THEOREM TypeCorrect == Spec => []TypeOK
<1>1. TypeInv => TypeOK
  BY DEF TypeInv
<1> QED
  BY <1>1, TypeInvariance, PTL

-----------------------------------------------------------------------------
(* The key and the state word, when one process at a time unseals and      *)
(* seals.  The agreement breaks inside both sequences, so the inductive    *)
(* invariant says section by section what the key and the word are.        *)

LifeSteps == {"unseal_begin", "unseal_wrong", "unseal_store", "unseal_finish",
              "seal_zeroize", "seal_finish"}

(* Only lifecycle processes are in a section of unseal or seal. *)
LifeIsLifecycle == \A p \in Procs : pc[p] \in LifeSteps => p \in Lifecycle

LifeQuiet == \A p \in Lifecycle : pc[p] \notin LifeSteps

KeyAtStep(p) ==
  /\ pc[p] = "unseal_begin" => state = "Sealed" /\ master = NoKey
  /\ pc[p] \in {"unseal_wrong", "unseal_store"} => state = "Unsealing" /\ master = NoKey
  /\ pc[p] = "unseal_finish" => state = "Unsealing" /\ master \in Keys
  /\ pc[p] = "seal_zeroize" => state = "Sealing"
  /\ pc[p] = "seal_finish" => state = "Sealing" /\ master = NoKey

KeyInv ==
  /\ LifeIsLifecycle
  /\ LifeQuiet => state \in {"Sealed", "Active"} /\ KeyTracksState
  /\ \A p \in Lifecycle : KeyAtStep(p)

(* A section of a data call touches neither the key nor the state word and *)
(* stays outside the sections of unseal and seal.                          *)
LEMMA DataCallsKeepKey ==
  ASSUME TypeInv, KeyInv, NEW p \in Procs, NEW s, s \notin LifeSteps, NEW a,
         pc[p] \notin LifeSteps, Goto(p, s, a), UNCHANGED <<state, master>>
  PROVE  KeyInv'
<1>1. \A q \in Procs : pc'[q] = pc[q] \/ (pc'[q] \notin LifeSteps /\ pc[q] \notin LifeSteps)
  BY DEF Goto, TypeInv, TypeOK
<1>2. Lifecycle \subseteq Procs
  BY DEF Procs
<1>3. LifeIsLifecycle'
  BY <1>1 DEF KeyInv, LifeIsLifecycle
<1>4. LifeQuiet' => LifeQuiet
  BY <1>1, <1>2 DEF LifeQuiet
<1>5. ASSUME NEW q \in Lifecycle PROVE KeyAtStep(q)'
  <2>1. KeyAtStep(q)
    BY DEF KeyInv
  <2>2. pc'[q] = pc[q] \/ pc'[q] \notin LifeSteps
    BY <1>1, <1>2
  <2>3. QED
    BY <2>1, <2>2 DEF KeyAtStep, LifeSteps
<1>6. QED
  BY <1>3, <1>4, <1>5 DEF KeyInv, KeyTracksState, SealedHoldsNoKey, ActiveHoldsKey

(* With a single lifecycle process, its own step decides the whole of      *)
(* KeyInv.                                                                 *)
LEMMA LifecycleKeepsKey ==
  ASSUME TypeInv, KeyInv, \A q, r \in Lifecycle : q = r,
         NEW p \in Lifecycle, LifecycleStep(p)
  PROVE  KeyInv'
<1> p \in Procs
  BY DEF Procs
<1> DEFINE Moved(s) == /\ pc' = [pc EXCEPT ![p] = s]
<1> USE NoKeyAssumption DEF LifeSteps, KeyTracksState, SealedHoldsNoKey, ActiveHoldsKey
<1>1. KeyAtStep(p) /\ (pc[p] \notin LifeSteps => state \in {"Sealed", "Active"} /\ KeyTracksState)
  BY DEF KeyInv, LifeQuiet
<1>2. ASSUME NEW s, Moved(s), KeyAtStep(p)',
             s \notin LifeSteps => state' \in {"Sealed", "Active"} /\ KeyTracksState'
      PROVE  KeyInv'
  <2>1. pc'[p] = s /\ \A q \in Procs : q # p => pc'[q] = pc[q]
    BY <1>2 DEF TypeInv, TypeOK
  <2>2. LifeIsLifecycle'
    BY <2>1 DEF KeyInv, LifeIsLifecycle
  <2>3. \A q \in Lifecycle : KeyAtStep(q)'
    BY <1>2
  <2>4. LifeQuiet' => s \notin LifeSteps
    BY <2>1 DEF LifeQuiet
  <2>5. QED
    BY <1>2, <2>2, <2>3, <2>4 DEF KeyInv
<1>3. \A s : Moved(s) => pc'[p] = s
  BY DEF TypeInv, TypeOK
<1>4. ASSUME NEW k \in Keys \cup {ShortKey}, UnsealCheck(p, k) PROVE KeyInv'
  <2>1. pc[p] = "idle" /\ UNCHANGED <<state, master>>
    BY <1>4 DEF UnsealCheck, Begin
  <2>2. CASE state \in {"Active", "Halted", "Corrupt"}
    <3>1. Moved("idle")
      BY <1>4, <2>2 DEF UnsealCheck, Return, Goto
    <3>2. QED
      BY <1>1, <1>2, <1>3, <2>1, <3>1 DEF KeyAtStep
  <2>3. CASE state \notin {"Active", "Halted", "Corrupt"}
    <3>1. Moved("unseal_begin")
      BY <1>4, <2>3 DEF UnsealCheck, Goto
    <3>2. state = "Sealed" /\ master = NoKey
      BY <1>1, <2>1, <2>3
    <3>3. QED
      BY <1>2, <1>3, <2>1, <3>1, <3>2 DEF KeyAtStep
  <2>4. QED
    BY <2>2, <2>3
<1>5. CASE UnsealBegin(p)
  <2>1. pc[p] = "unseal_begin" /\ state' = "Unsealing" /\ master' = master
    BY <1>5 DEF UnsealBegin, At
  <2>2. Moved("unseal_store") \/ Moved("unseal_wrong")
    BY <1>5 DEF UnsealBegin, Goto
  <2>3. QED
    BY <1>1, <1>2, <1>3, <2>1, <2>2 DEF KeyAtStep
<1>6. CASE UnsealWrongKey(p)
  <2>1. pc[p] = "unseal_wrong" /\ state' = "Sealed" /\ master' = master /\ Moved("idle")
    BY <1>6 DEF UnsealWrongKey, At, Return, Goto
  <2>2. QED
    BY <1>1, <1>2, <1>3, <2>1 DEF KeyAtStep
<1>7. CASE UnsealStoreKey(p)
  <2>1. pc[p] = "unseal_store" /\ state' = state /\ master' = arg[p] /\ Moved("unseal_finish")
    BY <1>7 DEF UnsealStoreKey, At, Goto
  <2>2. arg[p] \in Keys
    BY <2>1, ArgTypes
  <2>3. QED
    BY <1>1, <1>2, <1>3, <2>1, <2>2 DEF KeyAtStep
<1>8. CASE UnsealFinish(p)
  <2>1. pc[p] = "unseal_finish" /\ state' = "Active" /\ master' = master /\ Moved("idle")
    BY <1>8 DEF UnsealFinish, At, Return, Goto
  <2>2. QED
    BY <1>1, <1>2, <1>3, <2>1 DEF KeyAtStep
<1>9. CASE SealBegin(p)
  <2>1. state' = "Sealing" /\ Moved("seal_zeroize")
    BY <1>9 DEF SealBegin, Goto
  <2>2. QED
    BY <1>2, <1>3, <2>1 DEF KeyAtStep
<1>10. CASE SealZeroize(p)
  <2>1. pc[p] = "seal_zeroize" /\ state' = state /\ master' = NoKey /\ Moved("seal_finish")
    BY <1>10 DEF SealZeroize, At, Goto
  <2>2. QED
    BY <1>1, <1>2, <1>3, <2>1 DEF KeyAtStep
<1>11. CASE SealFinish(p)
  <2>1. pc[p] = "seal_finish" /\ state' = "Sealed" /\ master' = master /\ Moved("idle")
    BY <1>11 DEF SealFinish, At, Return, Goto
  <2>2. QED
    BY <1>1, <1>2, <1>3, <2>1 DEF KeyAtStep
<1>12. QED
  BY <1>4, <1>5, <1>6, <1>7, <1>8, <1>9, <1>10, <1>11 DEF LifecycleStep

(* If unseal and seal are called by one process only, the handle holds a   *)
(* key when it says Active and none when it says Sealed, in every state,   *)
(* whatever the data calls of any number of other processes do meanwhile.  *)
THEOREM KeyTracksStateHolds ==
  ASSUME \A p, q \in Lifecycle : p = q
  PROVE  Spec => []KeyTracksState
<1>1. Init => KeyInv
  BY NoKeyAssumption DEF Init, KeyInv, LifeIsLifecycle, LifeQuiet, KeyAtStep, LifeSteps,
     KeyTracksState, SealedHoldsNoKey, ActiveHoldsKey, Procs
<1>2. TypeInv /\ KeyInv /\ [Next]_vars => KeyInv'
  <2> SUFFICES ASSUME TypeInv, KeyInv, [Next]_vars PROVE KeyInv'
    OBVIOUS
  <2>1. ASSUME NEW p \in Procs, NEW s, s \notin LifeSteps, NEW a, pc[p] \notin LifeSteps,
               Goto(p, s, a), UNCHANGED <<state, master>>
        PROVE  KeyInv'
    BY <2>1, DataCallsKeepKey
  <2>2. ASSUME NEW p \in Procs, NEW ok, NEW s, s \notin LifeSteps, NEW a, Enter(p, ok, s, a)
        PROVE  KeyInv'
    BY <2>1, <2>2 DEF Enter, Begin, Return, LifeSteps
  <2>3. ASSUME NEW p \in Writers, WriterStep(p) PROVE KeyInv'
    <3> p \in Procs
      BY DEF Procs
    <3> USE DEF LifeSteps, At
    <3>1. ASSUME NEW n \in Names, NEW x \in Values, NEW t \in Ttls, PutCheck(p, n, x, t)
          PROVE  KeyInv'
      BY <2>2, <3>1 DEF PutCheck
    <3>2. CASE PutVersion(p)
      BY <2>1, <3>2 DEF PutVersion
    <3>3. CASE PutPush(p)
      BY <2>1, <3>3 DEF PutPush
    <3>4. QED
      BY <2>3, <3>1, <3>2, <3>3 DEF WriterStep
  <2>4. ASSUME NEW p \in Clients, ClientStep(p) PROVE KeyInv'
    <3> p \in Procs
      BY DEF Procs
    <3> USE DEF LifeSteps, At, Return, NotFound
    <3>1. ASSUME NEW n \in Names, GetCheck(p, n) PROVE KeyInv'
      BY <2>2, <3>1 DEF GetCheck
    <3>2. CASE GetRead(p)
      BY <2>1, <3>2 DEF GetRead
    <3>3. CASE GetAge(p)
      BY <2>1, <3>3 DEF GetAge
    <3>4. ASSUME NEW n \in Names, NEW v \in KnownVersions(n), DestroyCheck(p, n, v)
          PROVE  KeyInv'
      BY <2>2, <3>4 DEF DestroyCheck
    <3>5. CASE DestroyRemove(p)
      BY <2>1, <3>5 DEF DestroyRemove
    <3>6. ASSUME NEW l \in KnownLeases, NEW t \in Ttls, RenewCheck(p, l, t[1]) PROVE KeyInv'
      BY <2>2, <3>6 DEF RenewCheck
    <3>7. CASE RenewUpdate(p)
      BY <2>1, <3>7 DEF RenewUpdate
    <3>8. QED
      BY <2>4, <3>1, <3>2, <3>3, <3>4, <3>5, <3>6, <3>7 DEF ClientStep
  <2>5. ASSUME NEW p \in Procs, AppendAudit(p) PROVE KeyInv'
    BY <2>1, <2>5 DEF AppendAudit, At, Return, LifeSteps
  <2>6. CASE Tick \/ UNCHANGED vars
    BY <2>6 DEF Tick, vars, KeyInv, LifeIsLifecycle, LifeQuiet, KeyAtStep, KeyTracksState,
       SealedHoldsNoKey, ActiveHoldsKey
  <2>7. QED
    BY <2>3, <2>4, <2>5, <2>6, LifecycleKeepsKey DEF Next
<1>3. TypeInv /\ KeyInv => KeyTracksState
  <2> SUFFICES ASSUME TypeInv, KeyInv PROVE KeyTracksState
    OBVIOUS
  <2>1. CASE LifeQuiet
    BY <2>1 DEF KeyInv
  <2>2. CASE ~LifeQuiet
    <3>1. PICK p \in Lifecycle : pc[p] \in LifeSteps
      BY <2>2 DEF LifeQuiet
    <3>2. QED
      BY <3>1 DEF KeyInv, KeyAtStep, LifeSteps, KeyTracksState, SealedHoldsNoKey, ActiveHoldsKey
  <2>3. QED
    BY <2>1, <2>2
<1>4. QED
  BY <1>1, <1>2, <1>3, TypeInvariance, PTL DEF Spec

-----------------------------------------------------------------------------
(* Versions, when one process at a time puts.  Between put's two sections  *)
(* the version it has computed must stay above all versions of its name:   *)
(* PutAbove says so, and is what a second writer breaks.                   *)

SeqUnique == \A n \in Names : \A e, f \in store[n] : e.seq = f.seq => e = f

PutIsWriter == \A p \in Procs : pc[p] \in {"put_version", "put_push"} => p \in Writers

PutAbove ==
  \A p \in Procs : pc[p] = "put_push" =>
    \A f \in store[arg[p].name] : f.version < arg[p].entry.version

VersionInv == SeqUnique /\ VersionsIncrease /\ PutIsWriter /\ PutAbove

(* What next_version computes is above every version the name has.         *)
LEMMA NextVersionAbove ==
  ASSUME TypeInv, VersionInv, NEW n \in Names
  PROVE  \A f \in store[n] : f.version < NextVersion(n)
<1> SUFFICES ASSUME NEW f \in store[n] PROVE f.version < NextVersion(n)
  OBVIOUS
<1>1. /\ Latest(n) \in store[n]
      /\ f.seq <= Latest(n).seq
  BY LatestIsLast
<1>2. f \in Entry /\ Latest(n) \in Entry
  BY <1>1 DEF TypeInv, TypeOK
<1>3. f.version <= Latest(n).version
  <2>1. CASE f.seq = Latest(n).seq
    <3>1. f = Latest(n)
      BY <1>1, <2>1 DEF VersionInv, SeqUnique
    <3>2. QED
      BY <1>2, <3>1 DEF Entry
  <2>2. CASE f.seq < Latest(n).seq
    BY <1>1, <1>2, <2>2 DEF VersionInv, VersionsIncrease, Entry
  <2>3. QED
    BY <1>1, <1>2, <2>1, <2>2 DEF Entry
<1>4. QED
  BY <1>2, <1>3 DEF NextVersion, Entry

(* The position push_back takes is above every position in the vector.     *)
LEMMA NextSeqAbove ==
  ASSUME TypeInv, NEW n \in Names
  PROVE  \A f \in store[n] : f.seq < NextSeq(n)
<1> SUFFICES ASSUME NEW f \in store[n] PROVE f.seq < NextSeq(n)
  OBVIOUS
<1>1. Latest(n) \in store[n] /\ f.seq <= Latest(n).seq
  BY LatestIsLast
<1>2. f \in Entry /\ Latest(n) \in Entry
  BY <1>1 DEF TypeInv, TypeOK
<1>3. QED
  BY <1>1, <1>2 DEF NextSeq, Entry

(* A step that leaves the store alone and starts no push keeps VersionInv. *)
LEMMA QuietStepKeepsVersions ==
  ASSUME TypeInv, VersionInv, NEW p \in Procs, NEW s, NEW a, s # "put_push",
         s = "put_version" => p \in Writers,
         Goto(p, s, a), UNCHANGED store
  PROVE  VersionInv'
<1>1. \A q \in Procs : \/ pc'[q] = pc[q] /\ arg'[q] = arg[q]
                       \/ q = p /\ pc'[q] = s
  BY DEF Goto, TypeInv, TypeOK
<1>2. PutIsWriter' /\ PutAbove'
  BY <1>1 DEF VersionInv, PutIsWriter, PutAbove
<1>3. QED
  BY <1>2 DEF VersionInv, SeqUnique, VersionsIncrease

(* Shrinking a vector, or replacing an entry by one with its position and  *)
(* version, keeps VersionInv.                                              *)
LEMMA EditKeepsVersions ==
  ASSUME TypeInv, VersionInv, NEW p \in Procs, NEW a, NEW n \in Names, NEW S,
         \A e \in S : \E f \in store[n] : e.seq = f.seq /\ e.version = f.version,
         \A e, f \in S : e.seq = f.seq => e = f,
         store' = [store EXCEPT ![n] = S],
         Goto(p, "audit", a)
  PROVE  VersionInv'
<1>1. \A q \in Procs : pc'[q] \in {"put_version", "put_push"} => pc'[q] = pc[q] /\ arg'[q] = arg[q]
  BY DEF Goto, TypeInv, TypeOK
<1>2. \A m \in Names : \A e \in store'[m] :
        \E f \in store[m] : e.seq = f.seq /\ e.version = f.version
  BY DEF TypeInv, TypeOK
<1>3. SeqUnique'
  BY DEF VersionInv, SeqUnique, TypeInv, TypeOK
<1>4. VersionsIncrease'
  BY <1>2 DEF VersionInv, VersionsIncrease
<1>5. PutAbove'
  <2> SUFFICES ASSUME NEW q \in Procs, pc'[q] = "put_push", NEW f \in store'[arg'[q].name]
               PROVE  f.version < arg'[q].entry.version
    BY DEF PutAbove
  <2>1. pc[q] = "put_push" /\ arg'[q] = arg[q] /\ arg[q].name \in Names
    BY <1>1, ArgTypes
  <2>2. PICK g \in store[arg[q].name] : f.version = g.version
    BY <1>2, <2>1
  <2>3. QED
    BY <2>1, <2>2 DEF VersionInv, PutAbove
<1>6. PutIsWriter'
  BY <1>1 DEF VersionInv, PutIsWriter
<1>7. QED
  BY <1>3, <1>4, <1>5, <1>6 DEF VersionInv

(* The three actions that touch the store or start a push. *)
LEMMA PutVersionKeepsVersions ==
  ASSUME TypeInv, VersionInv, NEW p \in Writers, PutVersion(p)
  PROVE  VersionInv'
<1> p \in Procs
  BY DEF Procs
<1>1. arg[p].name \in Names
  BY ArgTypes DEF PutVersion, At, PutArg
<1>2. /\ \A q \in Procs : q # p => pc'[q] = pc[q] /\ arg'[q] = arg[q]
      /\ pc'[p] = "put_push" /\ arg'[p].name = arg[p].name
      /\ arg'[p].entry.version = NextVersion(arg[p].name)
      /\ store' = store
  BY DEF PutVersion, Goto, TypeInv, TypeOK
<1>3. \A f \in store[arg[p].name] : f.version < NextVersion(arg[p].name)
  BY <1>1, NextVersionAbove
<1>4. PutAbove'
  BY <1>2, <1>3 DEF VersionInv, PutAbove
<1>5. PutIsWriter'
  BY <1>2 DEF VersionInv, PutIsWriter
<1>6. QED
  BY <1>2, <1>4, <1>5 DEF VersionInv, SeqUnique, VersionsIncrease

LEMMA PutPushKeepsVersions ==
  ASSUME TypeInv, VersionInv, \A q, r \in Writers : q = r,
         NEW p \in Writers, PutPush(p)
  PROVE  VersionInv'
<1> p \in Procs
  BY DEF Procs
<1> DEFINE n == arg[p].name
           e == Pushed(n, arg[p].entry)
<1>1. n \in Names /\ arg[p].entry \in NewEntry
  BY ArgTypes DEF PutPush, At
<1>2. /\ store' = [store EXCEPT ![n] = store[n] \cup {e}]
      /\ e.version = arg[p].entry.version /\ e.seq = NextSeq(n)
  BY DEF PutPush, Pushed
<1>3. \A f \in store[n] : f.seq < e.seq /\ f.version < e.version
  BY <1>1, <1>2, NextSeqAbove DEF VersionInv, PutAbove, PutPush, At
<1>4. \A f \in store[n] : f.seq \in Int
  BY <1>1 DEF TypeInv, TypeOK, Entry
<1>5. e.seq \in Int
  BY <1>1, <1>2, NextTypes
<1>6. \A q \in Procs : pc'[q] \in {"put_version", "put_push"} =>
        pc'[q] = pc[q] /\ arg'[q] = arg[q] /\ q # p
  BY DEF PutPush, Goto, TypeInv, TypeOK
<1>7. PutIsWriter'
  BY <1>6 DEF VersionInv, PutIsWriter
<1>8. PutAbove'
  BY <1>6 DEF VersionInv, PutIsWriter, PutAbove
<1>9. \A m \in Names : m # n => store'[m] = store[m]
  BY <1>1, <1>2 DEF TypeInv, TypeOK
<1>10. store'[n] = store[n] \cup {e}
  BY <1>1, <1>2 DEF TypeInv, TypeOK
<1>11. SeqUnique' /\ VersionsIncrease'
  <2> HIDE DEF e, n
  <2>1. ASSUME NEW m \in Names, NEW f \in store'[m], NEW g \in store'[m]
        PROVE  (f.seq = g.seq => f = g) /\ (f.seq < g.seq => f.version < g.version)
    <3>1. CASE m # n
      BY <1>9, <3>1 DEF VersionInv, SeqUnique, VersionsIncrease
    <3>2. CASE m = n
      BY <1>1, <1>3, <1>4, <1>5, <1>10, <3>2 DEF VersionInv, SeqUnique, VersionsIncrease
    <3>3. QED
      BY <3>1, <3>2
  <2>2. QED
    BY <2>1 DEF SeqUnique, VersionsIncrease
<1>12. QED
  BY <1>7, <1>8, <1>11 DEF VersionInv

LEMMA ClientsKeepVersions ==
  ASSUME TypeInv, VersionInv, NEW p \in Clients, ClientStep(p)
  PROVE  VersionInv'
<1> p \in Procs
  BY DEF Procs
<1>q. ASSUME NEW s, NEW a, s \notin {"put_push", "put_version"}, Goto(p, s, a), UNCHANGED store
      PROVE  VersionInv'
  BY <1>q, QuietStepKeepsVersions
<1> USE DEF Return, NotFound
<1>1. ASSUME NEW n \in Names, GetCheck(p, n) PROVE VersionInv'
  BY <1>1, <1>q DEF GetCheck, Enter
<1>2. CASE GetRead(p)
  BY <1>2, <1>q DEF GetRead
<1>3. CASE GetAge(p)
  BY <1>3, <1>q DEF GetAge
<1>4. ASSUME NEW n \in Names, NEW v \in KnownVersions(n), DestroyCheck(p, n, v) PROVE VersionInv'
  BY <1>4, <1>q DEF DestroyCheck, Enter
<1>5. CASE DestroyRemove(p)
  <2> DEFINE n == arg[p].name
             v == arg[p].version
  <2>1. CASE Retained(n, v) = store[n]
    BY <1>5, <1>q, <2>1 DEF DestroyRemove
  <2>2. CASE Retained(n, v) # store[n]
    <3>1. n \in Names
      BY <1>5, ArgTypes DEF DestroyRemove, At
    <3>2. Retained(n, v) \subseteq store[n]
      BY DEF Retained
    <3>3. \A e, f \in Retained(n, v) : e.seq = f.seq => e = f
      BY <3>1, <3>2 DEF VersionInv, SeqUnique
    <3>4. store' = [store EXCEPT ![n] = Retained(n, v)] /\ Goto(p, "audit", RowOf("destroy", n, v))
      BY <1>5, <2>2 DEF DestroyRemove
    <3>5. QED
      <4> HIDE DEF n, v
      <4> QED BY <3>1, <3>2, <3>3, <3>4, EditKeepsVersions
  <2>3. QED
    BY <2>1, <2>2
<1>6. ASSUME NEW l \in KnownLeases, NEW t \in Ttls, RenewCheck(p, l, t[1]) PROVE VersionInv'
  BY <1>6, <1>q DEF RenewCheck, Enter
<1>7. CASE RenewUpdate(p)
  <2> DEFINE l == arg[p].lease
             e == First(Holders(l))
             r == Renewed(e, arg[p].ttl)
             S == (store[l.name] \ {e}) \cup {r}
  <2>1. l \in Lease /\ l.name \in Names
    BY <1>7, ArgTypes DEF RenewUpdate, At, Lease
  <2>2. CASE Holders(l) = {}
    BY <1>7, <1>q, <2>2 DEF RenewUpdate
  <2>3. CASE Holders(l) # {}
    <3>1. e \in store[l.name]
      BY <2>1, <2>3, FirstIsHolder DEF Holders
    <3>2. e \in Entry
      BY <2>1, <3>1 DEF TypeInv, TypeOK
    <3>3. r.seq = e.seq /\ r.version = e.version
      <4> HIDE DEF e
      <4> QED BY <3>2 DEF Renewed, Entry
    <3>4. \A x \in S : \E f \in store[l.name] : x.seq = f.seq /\ x.version = f.version
      <4> HIDE DEF e, r
      <4> QED BY <3>1, <3>3
    <3>5. \A x, y \in S : x.seq = y.seq => x = y
      <4> HIDE DEF e, r
      <4> QED BY <2>1, <3>1, <3>3 DEF VersionInv, SeqUnique
    <3>6. /\ store' = [store EXCEPT ![l.name] = S]
          /\ Goto(p, "audit", RowOf("lease_renew", l.name, l.version))
      BY <1>7, <2>3 DEF RenewUpdate
    <3>7. QED
      <4> HIDE DEF S, l
      <4> QED BY <2>1, <3>4, <3>5, <3>6, EditKeepsVersions
  <2>4. QED
    BY <2>2, <2>3
<1>8. QED
  BY <1>1, <1>2, <1>3, <1>4, <1>5, <1>6, <1>7 DEF ClientStep

(* What a process other than a lifecycle, writer or client step does.      *)
LEMMA OthersKeepVersions ==
  ASSUME TypeInv, VersionInv,
         \/ \E p \in Lifecycle : LifecycleStep(p)
         \/ \E p \in Procs : AppendAudit(p)
         \/ Tick \/ UNCHANGED vars
  PROVE  VersionInv'
<1>1. ASSUME NEW p \in Lifecycle, LifecycleStep(p) PROVE VersionInv'
  <2>1. p \in Procs
    BY DEF Procs
  <2>2. \E s \in {"idle", "unseal_begin", "unseal_store", "unseal_wrong", "unseal_finish",
                  "seal_zeroize", "seal_finish"}, a \in {NoArg, arg[p]} \cup Keys \cup {ShortKey} :
          Goto(p, s, a)
    BY <1>1 DEF LifecycleStep, UnsealCheck, UnsealBegin, UnsealWrongKey, UnsealStoreKey,
       UnsealFinish, SealBegin, SealZeroize, SealFinish, Return
  <2>3. UNCHANGED store
    BY <1>1 DEF LifecycleStep, UnsealCheck, UnsealBegin, UnsealWrongKey, UnsealStoreKey,
       UnsealFinish, SealBegin, SealZeroize, SealFinish
  <2>4. QED
    BY <2>1, <2>2, <2>3, QuietStepKeepsVersions
<1>2. ASSUME NEW p \in Procs, AppendAudit(p) PROVE VersionInv'
  BY <1>2, QuietStepKeepsVersions DEF AppendAudit, Return
<1>3. CASE Tick \/ UNCHANGED vars
  BY <1>3 DEF Tick, vars, VersionInv, SeqUnique, VersionsIncrease, PutIsWriter, PutAbove
<1>4. QED
  BY <1>1, <1>2, <1>3

LEMMA VersionStep ==
  ASSUME TypeInv, VersionInv, \A p, q \in Writers : p = q, [Next]_vars
  PROVE  VersionInv'
<1>1. ASSUME NEW p \in Writers, WriterStep(p) PROVE VersionInv'
  <2>1. ASSUME NEW n \in Names, NEW x \in Values, NEW t \in Ttls, PutCheck(p, n, x, t)
        PROVE  VersionInv'
    BY <2>1, QuietStepKeepsVersions DEF PutCheck, Enter, Return, Procs
  <2>2. QED
    BY <1>1, <2>1, PutVersionKeepsVersions, PutPushKeepsVersions DEF WriterStep
<1>2. QED
  BY <1>1, ClientsKeepVersions, OthersKeepVersions DEF Next

(* With one process that puts, the versions along each name's vector       *)
(* strictly increase for ever, whatever gets, destroys, renewals, seals    *)
(* and unseals run between the two sections of its puts.                   *)
THEOREM VersionsIncreaseHolds ==
  ASSUME \A p, q \in Writers : p = q
  PROVE  Spec => []VersionsIncrease
<1>1. Init => VersionInv
  BY DEF Init, VersionInv, SeqUnique, VersionsIncrease, PutIsWriter, PutAbove
<1>2. TypeInv /\ VersionInv /\ [Next]_vars => VersionInv'
  BY VersionStep
<1>3. VersionInv => VersionsIncrease
  BY DEF VersionInv
<1>4. QED
  BY <1>1, <1>2, <1>3, TypeInvariance, PTL DEF Spec

-----------------------------------------------------------------------------
(* Refinement: the stored rows step as VersionedStore allows.              *)

RowIn(n, e) == [name |-> n, version |-> e.version, value |-> e.value]

LEMMA RowMember ==
  \A r : r \in StoredRows <=> \E n \in Names : \E e \in store[n] : r = RowIn(n, e)
  BY DEF StoredRows, RowIn

LEMMA RowMemberNext ==
  \A r : r \in StoredRows' <=> \E n \in Names : \E e \in store'[n] : r = RowIn(n, e)
  BY DEF StoredRows, RowIn

LEMMA SameStoreSameRows ==
  ASSUME UNCHANGED store PROVE UNCHANGED StoredRows
  BY DEF StoredRows

(* The push adds one row, above all rows of its name. *)
LEMMA PutPushAddsRow ==
  ASSUME TypeInv, VersionInv, NEW p \in Writers, PutPush(p)
  PROVE  VS!AddRow
<1> p \in Procs
  BY DEF Procs
<1> DEFINE n == arg[p].name
           e == Pushed(n, arg[p].entry)
           r == RowIn(n, e)
<1>1. n \in Names /\ arg[p].entry \in NewEntry
  BY ArgTypes DEF PutPush, At
<1>2. e.version = arg[p].entry.version /\ e.value = arg[p].entry.value
  BY DEF Pushed
<1>3. r \in VS!Row /\ r.name = n /\ r.version = e.version
  <2> HIDE DEF e, n
  <2> QED BY <1>1, <1>2 DEF RowIn, NewEntry, VS!Row
<1>4. \A f \in store[n] : f.version < e.version
  BY <1>1, <1>2 DEF VersionInv, PutAbove, PutPush, At
<1>5. VS!Above(n, e.version)
  <2> SUFFICES ASSUME NEW s \in StoredRows, s.name = n PROVE s.version < e.version
    BY DEF VS!Above
  <2>1. PICK m \in Names : \E f \in store[m] : s = RowIn(m, f)
    BY RowMember
  <2>2. PICK f \in store[m] : s = RowIn(m, f)
    BY <2>1
  <2>3. m = n /\ s.version = f.version
    BY <2>2 DEF RowIn
  <2>4. QED
    BY <1>4, <2>2, <2>3
<1>6. r \notin StoredRows
  <2>1. e.version \in Int
    BY <1>1, <1>2 DEF NewEntry
  <2>2. QED
    <3> HIDE DEF e, n, r
    <3> QED BY <1>3, <1>5, <2>1 DEF VS!Above
<1>7. store' = [store EXCEPT ![n] = store[n] \cup {e}]
  BY DEF PutPush
<1>8. StoredRows' = StoredRows \cup {r}
  <2>1. \A m \in Names : store'[m] = IF m = n THEN store[n] \cup {e} ELSE store[m]
    BY <1>1, <1>7 DEF TypeInv, TypeOK
  <2>2. \A s : s \in StoredRows' <=> s \in StoredRows \/ s = r
    <3> HIDE DEF e, n
    <3> QED BY <1>1, <2>1, RowMember, RowMemberNext
  <2>3. QED
    <3> HIDE DEF r
    <3> QED BY <2>2
<1>9. QED
  <2> HIDE DEF r, e, n
  <2> QED BY <1>3, <1>5, <1>6, <1>8 DEF VS!AddRow

(* Destroying a version removes exactly its row: versions are unique. *)
LEMMA DestroyRemovesRow ==
  ASSUME TypeInv, VersionInv, NEW p \in Procs, DestroyRemove(p)
  PROVE  VS!RemoveRow \/ UNCHANGED StoredRows
<1> DEFINE n == arg[p].name
           v == arg[p].version
<1>1. n \in Names
  BY ArgTypes DEF DestroyRemove, At
<1>2. CASE Retained(n, v) = store[n]
  BY <1>2, SameStoreSameRows DEF DestroyRemove, NotFound
<1>3. CASE Retained(n, v) # store[n]
  <2>1. PICK e \in store[n] : e.version = v
    BY <1>3 DEF Retained
  <2>2. \A f \in store[n] : f.version = v => f = e
    <3> SUFFICES ASSUME NEW f \in store[n], f.version = v PROVE f = e
      OBVIOUS
    <3>1. e \in Entry /\ f \in Entry
      BY <1>1, <2>1 DEF TypeInv, TypeOK
    <3>2. ~(e.seq < f.seq) /\ ~(f.seq < e.seq)
      <4> HIDE DEF n, v
      <4> QED BY <1>1, <2>1, <3>1 DEF VersionInv, VersionsIncrease, Entry
    <3>3. e.seq = f.seq
      BY <3>1, <3>2 DEF Entry
    <3>4. QED
      BY <1>1, <3>3 DEF VersionInv, SeqUnique
  <2>3. \A m \in Names : store'[m] = IF m = n THEN Retained(n, v) ELSE store[m]
    BY <1>1, <1>3 DEF DestroyRemove, TypeInv, TypeOK
  <2>4. \A f : f \in Retained(n, v) <=> f \in store[n] /\ f # e
    BY <2>1, <2>2 DEF Retained
  <2> DEFINE r == RowIn(n, e)
  <2>5. r \in StoredRows
    BY <1>1, <2>1, RowMember
  <2>6. \A f \in store[n] : f # e => RowIn(n, f) # r
    BY <2>1, <2>2 DEF RowIn
  <2>7. \A m \in Names : \A f \in store[m] : m # n => RowIn(m, f) # r
    BY DEF RowIn
  <2>8. \A s : s \in StoredRows' <=> s \in StoredRows /\ s # r
    <3> HIDE DEF r, n, v
    <3>1. ASSUME NEW s \in StoredRows' PROVE s \in StoredRows /\ s # r
      <4>1. PICK m \in Names : \E f \in store'[m] : s = RowIn(m, f)
        BY RowMemberNext
      <4>2. PICK f \in store'[m] : s = RowIn(m, f)
        BY <4>1
      <4>3. f \in store[m] /\ (m = n => f # e)
        BY <2>3, <2>4, <4>2
      <4>4. QED
        BY <2>6, <2>7, <4>2, <4>3, RowMember
    <3>2. ASSUME NEW s \in StoredRows, s # r PROVE s \in StoredRows'
      <4>1. PICK m \in Names : \E f \in store[m] : s = RowIn(m, f)
        BY RowMember
      <4>2. PICK f \in store[m] : s = RowIn(m, f)
        BY <4>1
      <4>3. f \in store'[m]
        BY <2>3, <2>4, <3>2, <4>2 DEF r
      <4>4. QED
        BY <4>2, <4>3, RowMemberNext
    <3>3. QED
      BY <3>1, <3>2
  <2>9. StoredRows' = StoredRows \ {r}
    <3> HIDE DEF r
    <3> QED BY <2>8
  <2>10. QED
    <3> HIDE DEF r
    <3> QED BY <2>5, <2>9 DEF VS!RemoveRow
<1>4. QED
  BY <1>2, <1>3

(* A renewal changes no row: only the lease of an entry. *)
LEMMA RenewKeepsRows ==
  ASSUME TypeInv, NEW p \in Procs, RenewUpdate(p)
  PROVE  UNCHANGED StoredRows
<1> DEFINE l == arg[p].lease
           n == l.name
           e == First(Holders(l))
           g == Renewed(e, arg[p].ttl)
<1>1. l \in Lease /\ n \in Names
  BY ArgTypes DEF RenewUpdate, At, Lease
<1>2. CASE Holders(l) = {}
  BY <1>2, SameStoreSameRows DEF RenewUpdate, NotFound
<1>3. CASE Holders(l) # {}
  <2>1. e \in store[n]
    BY <1>1, <1>3, FirstIsHolder DEF Holders
  <2>2. e \in Entry
    BY <1>1, <2>1 DEF TypeInv, TypeOK
  <2>3. RowIn(n, g) = RowIn(n, e)
    <3> HIDE DEF e
    <3> QED BY <2>2 DEF Renewed, RowIn, Entry
  <2>4. \A m \in Names : store'[m] = IF m = n THEN (store[n] \ {e}) \cup {g} ELSE store[m]
    BY <1>1, <1>3 DEF RenewUpdate, TypeInv, TypeOK
  <2>5. \A s : s \in StoredRows' <=> s \in StoredRows
    <3> HIDE DEF n, e, g
    <3> QED BY <1>1, <2>1, <2>3, <2>4, RowMember, RowMemberNext
  <2>6. QED
    BY <2>5
<1>4. QED
  BY <1>2, <1>3

(* With one writer, the three sections of put and the sections of destroy  *)
(* and renewal together implement the abstract table of versioned rows.    *)
THEOREM VaultImplementsVersionedStore ==
  ASSUME \A p, q \in Writers : p = q
  PROVE  Spec => ImplementsVersionedStore
<1>1. Init => VS!Init
  BY DEF Init, StoredRows, VS!Init
<1>2. TypeInv /\ VersionInv /\ [Next]_vars => [VS!Next]_StoredRows
  <2> SUFFICES ASSUME TypeInv, VersionInv, [Next]_vars
               PROVE  VS!Next \/ UNCHANGED StoredRows
    OBVIOUS
  <2>1. ASSUME NEW p \in Writers, WriterStep(p) PROVE VS!Next \/ UNCHANGED StoredRows
    BY <2>1, PutPushAddsRow, SameStoreSameRows
    DEF WriterStep, PutCheck, Enter, PutVersion, VS!Next
  <2>2. ASSUME NEW p \in Clients, ClientStep(p) PROVE VS!Next \/ UNCHANGED StoredRows
    <3>1. p \in Procs
      BY DEF Procs
    <3>2. CASE UNCHANGED store
      BY <3>2, SameStoreSameRows
    <3>3. CASE DestroyRemove(p) \/ RenewUpdate(p)
      BY <3>1, <3>3, DestroyRemovesRow, RenewKeepsRows DEF VS!Next
    <3>4. QED
      BY <2>2, <3>2, <3>3
      DEF ClientStep, GetCheck, GetRead, GetAge, DestroyCheck, RenewCheck, Enter
  <2>3. ASSUME \/ \E p \in Lifecycle : LifecycleStep(p)
               \/ \E p \in Procs : AppendAudit(p)
               \/ Tick \/ UNCHANGED vars
        PROVE  UNCHANGED StoredRows
    BY <2>3, SameStoreSameRows
    DEF LifecycleStep, UnsealCheck, UnsealBegin, UnsealWrongKey, UnsealStoreKey,
        UnsealFinish, SealBegin, SealZeroize, SealFinish, AppendAudit, Tick, vars
  <2>4. QED
    BY <2>1, <2>2, <2>3 DEF Next
<1>3. Init => VersionInv
  BY DEF Init, VersionInv, SeqUnique, VersionsIncrease, PutIsWriter, PutAbove
<1>4. TypeInv /\ VersionInv /\ [Next]_vars => VersionInv'
  BY VersionStep
<1>5. QED
  BY <1>1, <1>2, <1>3, <1>4, TypeInvariance, PTL DEF Spec, ImplementsVersionedStore, VS!Spec

-----------------------------------------------------------------------------
(* The audit ledger.  Of one row, Occurs counts the appended copies and    *)
(* the calls that are about to append one.                                 *)

AuditedAs(r) == {i \in 1..Len(audit) : audit[i] = r}
PendingAs(r) == {p \in Procs : pc[p] = "audit" /\ arg[p] = r}

LEMMA AuditedFinite ==
  ASSUME TypeInv, NEW r
  PROVE  IsFiniteSet(AuditedAs(r)) /\ Cardinality(AuditedAs(r)) \in Nat
<1>1. Len(audit) \in Nat
  BY DEF TypeInv, TypeOK
<1>2. IsFiniteSet(1..Len(audit))
  BY <1>1, FS_Interval
<1>3. AuditedAs(r) \in SUBSET (1..Len(audit))
  BY DEF AuditedAs
<1>4. QED
  BY <1>2, <1>3, FS_Subset, FS_CardinalityType

LEMMA PendingFinite ==
  ASSUME IsFiniteSet(Procs), NEW r
  PROVE  IsFiniteSet(PendingAs(r)) /\ Cardinality(PendingAs(r)) \in Nat
<1>1. PendingAs(r) \in SUBSET Procs
  BY DEF PendingAs
<1>2. QED
  BY <1>1, FS_Subset, FS_CardinalityType

LEMMA OccursIsSum ==
  ASSUME NEW r
  PROVE  /\ Occurs(r) = Cardinality(AuditedAs(r)) + Cardinality(PendingAs(r))
         /\ Occurs(r)' = Cardinality(AuditedAs(r)') + Cardinality(PendingAs(r)')
  BY DEF Occurs, AuditedAs, PendingAs

(* A section that leaves its call short of the audit section, or ends it,  *)
(* changes no count.                                                       *)
LEMMA OccursKept ==
  ASSUME TypeInv, NEW p \in Procs, NEW s, NEW a, pc[p] # "audit", s # "audit",
         Goto(p, s, a), UNCHANGED audit, NEW r
  PROVE  Occurs(r)' = Occurs(r)
<1>1. \A q \in Procs : pc'[q] = "audit" /\ arg'[q] = r <=> pc[q] = "audit" /\ arg[q] = r
  BY DEF Goto, TypeInv, TypeOK
<1>2. PendingAs(r)' = PendingAs(r) /\ AuditedAs(r)' = AuditedAs(r)
  BY <1>1 DEF PendingAs, AuditedAs
<1>3. QED
  BY <1>2, OccursIsSum

(* A section that sends its call to the audit section counts its row.      *)
LEMMA OccursCounted ==
  ASSUME IsFiniteSet(Procs), TypeInv, NEW p \in Procs, NEW a, pc[p] # "audit",
         Goto(p, "audit", a), UNCHANGED audit, NEW r
  PROVE  Occurs(r)' = IF a = r THEN Occurs(r) + 1 ELSE Occurs(r)
<1>1. \A q \in Procs : pc'[q] = "audit" /\ arg'[q] = r
                         <=> (pc[q] = "audit" /\ arg[q] = r) \/ (q = p /\ a = r)
  BY DEF Goto, TypeInv, TypeOK
<1>2. p \notin PendingAs(r) /\ AuditedAs(r)' = AuditedAs(r)
  BY DEF PendingAs, AuditedAs
<1>3. Cardinality(AuditedAs(r)) \in Nat /\ Cardinality(PendingAs(r)) \in Nat
  BY AuditedFinite, PendingFinite
<1>4. CASE a = r
  <2>1. PendingAs(r)' = PendingAs(r) \cup {p}
    BY <1>1, <1>4 DEF PendingAs
  <2>2. Cardinality(PendingAs(r) \cup {p}) = Cardinality(PendingAs(r)) + 1
    BY <1>2, PendingFinite, FS_AddElement
  <2>3. Occurs(r) = Cardinality(AuditedAs(r)) + Cardinality(PendingAs(r))
    BY OccursIsSum
  <2>4. Occurs(r)' = Cardinality(AuditedAs(r)) + (Cardinality(PendingAs(r)) + 1)
    BY <1>2, <2>1, <2>2, OccursIsSum
  <2>5. QED
    BY <1>3, <1>4, <2>3, <2>4
<1>5. CASE a # r
  <2>1. PendingAs(r)' = PendingAs(r)
    BY <1>1, <1>5 DEF PendingAs
  <2>2. QED
    BY <1>2, <1>5, <2>1, OccursIsSum
<1>6. QED
  BY <1>4, <1>5

(* Appending moves the row from the call to the log.                       *)
LEMMA OccursMoved ==
  ASSUME IsFiniteSet(Procs), TypeInv, NEW p \in Procs, AppendAudit(p), NEW r
  PROVE  Occurs(r)' = Occurs(r)
<1>1. /\ pc[p] = "audit" /\ arg[p] \in AuditRow
      /\ audit' = Append(audit, arg[p]) /\ audit \in Seq(AuditRow)
  BY ArgTypes DEF AppendAudit, At, TypeInv, TypeOK
<1>2. /\ Len(audit) \in Nat /\ Len(audit') = Len(audit) + 1
      /\ \A i \in 1..Len(audit) : audit'[i] = audit[i]
      /\ audit'[Len(audit) + 1] = arg[p]
  BY <1>1
<1>3. \A q \in Procs : pc'[q] = "audit" /\ arg'[q] = r
                         <=> (pc[q] = "audit" /\ arg[q] = r) /\ q # p
  BY DEF AppendAudit, Return, Goto, TypeInv, TypeOK
<1>4. PendingAs(r)' = PendingAs(r) \ {p}
  BY <1>3 DEF PendingAs
<1>5. Cardinality(AuditedAs(r)) \in Nat /\ Cardinality(PendingAs(r)) \in Nat
  BY AuditedFinite, PendingFinite
<1>6. CASE arg[p] = r
  <2>1. p \in PendingAs(r)
    BY <1>1, <1>6 DEF PendingAs
  <2>2. Cardinality(PendingAs(r)') = Cardinality(PendingAs(r)) - 1
    BY <1>4, <2>1, PendingFinite, FS_RemoveElement
  <2>3. AuditedAs(r)' = AuditedAs(r) \cup {Len(audit) + 1}
    BY <1>2, <1>6 DEF AuditedAs
  <2>4. Len(audit) + 1 \notin AuditedAs(r)
    BY <1>2 DEF AuditedAs
  <2>5. Cardinality(AuditedAs(r)') = Cardinality(AuditedAs(r)) + 1
    BY <2>3, <2>4, AuditedFinite, FS_AddElement
  <2>6. QED
    BY <1>5, <2>2, <2>5, OccursIsSum
<1>7. CASE arg[p] # r
  <2>1. PendingAs(r)' = PendingAs(r)
    BY <1>4, <1>7 DEF PendingAs
  <2>2. AuditedAs(r)' = AuditedAs(r)
    BY <1>2, <1>7 DEF AuditedAs
  <2>3. QED
    BY <2>1, <2>2, OccursIsSum
<1>8. QED
  BY <1>6, <1>7

(* The live entries of one version: none or one, by VersionInv.            *)
Live(n, v) == {e \in store[n] : e.version = v}

Balanced(n, v) ==
  Occurs(RowOf("put", n, v)) = Occurs(RowOf("destroy", n, v)) + Cardinality(Live(n, v))

LEMMA LiveAtMostOne ==
  ASSUME TypeInv, VersionInv, NEW n \in Names, NEW v,
         NEW e \in Live(n, v), NEW f \in Live(n, v)
  PROVE  e = f
<1>1. e \in Entry /\ f \in Entry /\ e \in store[n] /\ f \in store[n] /\ e.version = f.version
  BY DEF Live, TypeInv, TypeOK
<1>2. ~(e.seq < f.seq) /\ ~(f.seq < e.seq)
  BY <1>1 DEF VersionInv, VersionsIncrease, Entry
<1>3. e.seq = f.seq
  BY <1>1, <1>2 DEF Entry
<1>4. QED
  BY <1>1, <1>3 DEF VersionInv, SeqUnique

(* A step that ends or advances a call without a row for put or destroy,   *)
(* and leaves as many entries of each version, keeps the balance.          *)
LEMMA BalanceKept ==
  ASSUME TypeInv, NEW n \in Names, NEW v, Balanced(n, v),
         Occurs(RowOf("put", n, v))' = Occurs(RowOf("put", n, v)),
         Occurs(RowOf("destroy", n, v))' = Occurs(RowOf("destroy", n, v)),
         Cardinality(Live(n, v)') = Cardinality(Live(n, v))
  PROVE  Balanced(n, v)'
  BY DEF Balanced

LEMMA QuietBalance ==
  ASSUME TypeInv, NEW n \in Names, NEW v, Balanced(n, v),
         NEW p \in Procs, NEW s, NEW a, pc[p] # "audit", s # "audit",
         Goto(p, s, a), UNCHANGED <<audit, store>>
  PROVE  Balanced(n, v)'
<1>1. Live(n, v)' = Live(n, v)
  BY DEF Live
<1>2. QED
  BY <1>1, OccursKept, BalanceKept

(* The push adds the one entry of its version and counts one put.          *)
LEMMA PushBalance ==
  ASSUME IsFiniteSet(Procs), TypeInv, VersionInv, NEW n \in Names, NEW v, Balanced(n, v),
         NEW p \in Procs, PutPush(p)
  PROVE  Balanced(n, v)'
<1> DEFINE m == arg[p].name
           x == arg[p].entry
           e == Pushed(m, x)
<1>1. m \in Names /\ x \in NewEntry /\ pc[p] = "put_push"
  BY ArgTypes DEF PutPush, At
<1>2. \A f \in store[m] : f.version < x.version
  BY <1>1 DEF VersionInv, PutAbove
<1>3. e.version = x.version
  BY DEF Pushed
<1>4. \A k \in Names : store'[k] = IF k = m THEN store[m] \cup {e} ELSE store[k]
  BY <1>1 DEF PutPush, TypeInv, TypeOK
<1>5. Goto(p, "audit", RowOf("put", m, x.version)) /\ UNCHANGED audit
  BY DEF PutPush
<1>6. /\ RowOf("put", m, x.version) = RowOf("put", n, v) <=> m = n /\ x.version = v
      /\ RowOf("put", m, x.version) # RowOf("destroy", n, v)
  BY DEF RowOf
<1>7. Occurs(RowOf("destroy", n, v))' = Occurs(RowOf("destroy", n, v))
  BY <1>1, <1>5, <1>6, OccursCounted
<1>8. CASE m = n /\ x.version = v
  <2>1. Live(n, v) = {}
    BY <1>1, <1>2, <1>8 DEF Live, NewEntry
  <2>2. Live(n, v)' = {e}
    <3> HIDE DEF e
    <3> QED BY <1>3, <1>4, <1>8, <2>1 DEF Live
  <2>3. Cardinality(Live(n, v)) = 0 /\ Cardinality(Live(n, v)') = 1
    <3> HIDE DEF e
    <3> QED BY <2>1, <2>2, FS_EmptySet, FS_Singleton
  <2>4. Occurs(RowOf("put", n, v))' = Occurs(RowOf("put", n, v)) + 1
    BY <1>1, <1>5, <1>6, <1>8, OccursCounted
  <2>5. Occurs(RowOf("destroy", n, v)) \in Int
    BY AuditedFinite, PendingFinite, OccursIsSum
  <2>6. QED
    BY <1>7, <2>3, <2>4, <2>5 DEF Balanced
<1>9. CASE ~(m = n /\ x.version = v)
  <2>1. Live(n, v)' = Live(n, v)
    <3> HIDE DEF e, m
    <3> QED BY <1>3, <1>4, <1>9 DEF Live
  <2>2. Occurs(RowOf("put", n, v))' = Occurs(RowOf("put", n, v))
    BY <1>1, <1>5, <1>6, <1>9, OccursCounted
  <2>3. QED
    BY <1>7, <2>1, <2>2, BalanceKept
<1>10. QED
  BY <1>8, <1>9

(* A destroy that found its version removes its one entry and counts one   *)
(* destroy; one that did not counts nothing.                               *)
LEMMA DestroyBalance ==
  ASSUME IsFiniteSet(Procs), TypeInv, VersionInv, NEW n \in Names, NEW v, Balanced(n, v),
         NEW p \in Procs, DestroyRemove(p)
  PROVE  Balanced(n, v)'
<1> DEFINE m == arg[p].name
           w == arg[p].version
<1>1. m \in Names /\ pc[p] = "destroy_remove"
  BY ArgTypes DEF DestroyRemove, At
<1>2. CASE Retained(m, w) = store[m]
  BY <1>1, <1>2, QuietBalance DEF DestroyRemove, NotFound, Return
<1>3. CASE Retained(m, w) # store[m]
  <2>1. PICK e \in store[m] : e.version = w
    BY <1>3 DEF Retained
  <2>2. \A k \in Names : store'[k] = IF k = m THEN Retained(m, w) ELSE store[k]
    BY <1>1, <1>3 DEF DestroyRemove, TypeInv, TypeOK
  <2>3. Goto(p, "audit", RowOf("destroy", m, w)) /\ UNCHANGED audit
    BY <1>3 DEF DestroyRemove
  <2>4. /\ RowOf("destroy", m, w) = RowOf("destroy", n, v) <=> m = n /\ w = v
        /\ RowOf("destroy", m, w) # RowOf("put", n, v)
    BY DEF RowOf
  <2>5. Occurs(RowOf("put", n, v))' = Occurs(RowOf("put", n, v))
    BY <1>1, <2>3, <2>4, OccursCounted
  <2>6. CASE m = n /\ w = v
    <3>1. e \in Live(n, v)
      BY <2>1, <2>6 DEF Live
    <3>2. Live(n, v) = {e}
      BY <3>1, LiveAtMostOne
    <3>3. Live(n, v)' = {}
      BY <2>2, <2>6 DEF Live, Retained
    <3>4. Cardinality(Live(n, v)) = 1 /\ Cardinality(Live(n, v)') = 0
      BY <3>2, <3>3, FS_EmptySet, FS_Singleton
    <3>5. Occurs(RowOf("destroy", n, v))' = Occurs(RowOf("destroy", n, v)) + 1
      BY <1>1, <2>3, <2>4, <2>6, OccursCounted
    <3>6. Occurs(RowOf("destroy", n, v)) \in Int
      BY AuditedFinite, PendingFinite, OccursIsSum
    <3>7. QED
      BY <2>5, <3>4, <3>5, <3>6 DEF Balanced
  <2>7. CASE ~(m = n /\ w = v)
    <3>1. Live(n, v)' = Live(n, v)
      <4> HIDE DEF m, w
      <4> QED BY <2>2, <2>7 DEF Live, Retained
    <3>2. Occurs(RowOf("destroy", n, v))' = Occurs(RowOf("destroy", n, v))
      BY <1>1, <2>3, <2>4, <2>7, OccursCounted
    <3>3. QED
      BY <2>5, <3>1, <3>2, BalanceKept
  <2>8. QED
    BY <2>6, <2>7
<1>4. QED
  BY <1>2, <1>3

(* A renewal replaces an entry by one of its version.                      *)
LEMMA RenewBalance ==
  ASSUME IsFiniteSet(Procs), TypeInv, VersionInv, NEW n \in Names, NEW v, Balanced(n, v),
         NEW p \in Procs, RenewUpdate(p)
  PROVE  Balanced(n, v)'
<1> DEFINE l == arg[p].lease
           e == First(Holders(l))
           g == Renewed(e, arg[p].ttl)
<1>1. l \in Lease /\ l.name \in Names /\ pc[p] = "renew_update"
  BY ArgTypes DEF RenewUpdate, At, Lease
<1>2. CASE Holders(l) = {}
  BY <1>1, <1>2, QuietBalance DEF RenewUpdate, NotFound, Return
<1>3. CASE Holders(l) # {}
  <2>1. e \in store[l.name]
    BY <1>1, <1>3, FirstIsHolder DEF Holders
  <2>2. e \in Entry
    BY <1>1, <2>1 DEF TypeInv, TypeOK
  <2>3. g.version = e.version
    <3> HIDE DEF e
    <3> QED BY <2>2 DEF Renewed, Entry
  <2>4. \A k \in Names : store'[k] = IF k = l.name THEN (store[l.name] \ {e}) \cup {g} ELSE store[k]
    BY <1>1, <1>3 DEF RenewUpdate, TypeInv, TypeOK
  <2>5. Goto(p, "audit", RowOf("lease_renew", l.name, l.version)) /\ UNCHANGED audit
    BY <1>3 DEF RenewUpdate
  <2>6. /\ RowOf("lease_renew", l.name, l.version) # RowOf("put", n, v)
        /\ RowOf("lease_renew", l.name, l.version) # RowOf("destroy", n, v)
    BY DEF RowOf
  <2>7. /\ Occurs(RowOf("put", n, v))' = Occurs(RowOf("put", n, v))
        /\ Occurs(RowOf("destroy", n, v))' = Occurs(RowOf("destroy", n, v))
    BY <1>1, <2>5, <2>6, OccursCounted
  <2>8. Cardinality(Live(n, v)') = Cardinality(Live(n, v))
    <3>1. CASE l.name = n /\ e.version = v
      <4>1. e \in Live(n, v)
        BY <2>1, <3>1 DEF Live
      <4>2. Live(n, v) = {e}
        BY <4>1, LiveAtMostOne
      <4>3. Live(n, v)' = {g}
        <5>1. \A f \in store[n] : f.version = v => f = e
          BY <4>2 DEF Live
        <5>2. QED
          <6> HIDE DEF e, g
          <6> QED BY <2>3, <2>4, <3>1, <5>1 DEF Live
      <4>4. QED
        <5> HIDE DEF e, g
        <5> QED BY <4>2, <4>3, FS_Singleton
    <3>2. CASE ~(l.name = n /\ e.version = v)
      <4>1. Live(n, v)' = Live(n, v)
        <5> HIDE DEF e, g, l
        <5> QED BY <2>1, <2>3, <2>4, <3>2 DEF Live
      <4>2. QED
        BY <4>1
    <3>3. QED
      BY <3>1, <3>2
  <2>9. QED
    BY <2>7, <2>8, BalanceKept
<1>4. QED
  BY <1>2, <1>3

LEMMA BalanceStep ==
  ASSUME IsFiniteSet(Procs), TypeInv, VersionInv, NEW n \in Names, NEW v, Balanced(n, v),
         [Next]_vars
  PROVE  Balanced(n, v)'
<1>q. ASSUME NEW p \in Procs, NEW s, NEW a, pc[p] # "audit", s # "audit",
             Goto(p, s, a), UNCHANGED <<audit, store>>
      PROVE  Balanced(n, v)'
  BY <1>q, QuietBalance
<1>e. ASSUME NEW p \in Procs, NEW ok, NEW s, s # "audit", NEW a, Enter(p, ok, s, a)
      PROVE  Balanced(n, v)'
  BY <1>q, <1>e DEF Enter, Begin, Return
<1>1. ASSUME NEW p \in Lifecycle, LifecycleStep(p) PROVE Balanced(n, v)'
  <2>1. p \in Procs /\ UNCHANGED <<audit, store>>
    BY <1>1 DEF Procs, LifecycleStep, UnsealCheck, UnsealBegin, UnsealWrongKey, UnsealStoreKey,
       UnsealFinish, SealBegin, SealZeroize, SealFinish
  <2>2. pc[p] # "audit" /\ \E s, a : s # "audit" /\ Goto(p, s, a)
    BY <1>1 DEF LifecycleStep, UnsealCheck, UnsealBegin, UnsealWrongKey, UnsealStoreKey,
       UnsealFinish, SealBegin, SealZeroize, SealFinish, Return, Begin, At
  <2>3. QED
    BY <1>q, <2>1, <2>2
<1>2. ASSUME NEW p \in Writers, WriterStep(p) PROVE Balanced(n, v)'
  <2> p \in Procs
    BY DEF Procs
  <2>1. ASSUME NEW k \in Names, NEW x \in Values, NEW t \in Ttls, PutCheck(p, k, x, t)
        PROVE  Balanced(n, v)'
    BY <1>e, <2>1 DEF PutCheck
  <2>2. CASE PutVersion(p)
    BY <1>q, <2>2 DEF PutVersion, At
  <2>3. QED
    BY <1>2, <2>1, <2>2, PushBalance DEF WriterStep
<1>3. ASSUME NEW p \in Clients, ClientStep(p) PROVE Balanced(n, v)'
  <2> p \in Procs
    BY DEF Procs
  <2>1. ASSUME NEW k \in Names, GetCheck(p, k) PROVE Balanced(n, v)'
    BY <1>e, <2>1 DEF GetCheck
  <2>2. CASE GetRead(p)
    BY <1>q, <2>2 DEF GetRead, At, Return
  <2>3. CASE GetAge(p)
    <3>1. PICK ev \in {"get", "get_failed_stale"} :
             Goto(p, "audit", RowOf(ev, arg[p].name, arg[p].entry.version))
      BY <2>3 DEF GetAge
    <3>2. /\ RowOf(ev, arg[p].name, arg[p].entry.version) # RowOf("put", n, v)
          /\ RowOf(ev, arg[p].name, arg[p].entry.version) # RowOf("destroy", n, v)
      BY DEF RowOf
    <3>3. pc[p] # "audit" /\ UNCHANGED <<audit, store>>
      BY <2>3 DEF GetAge, At
    <3>4. /\ Occurs(RowOf("put", n, v))' = Occurs(RowOf("put", n, v))
          /\ Occurs(RowOf("destroy", n, v))' = Occurs(RowOf("destroy", n, v))
      BY <3>1, <3>2, <3>3, OccursCounted
    <3>5. Live(n, v)' = Live(n, v)
      BY <3>3 DEF Live
    <3>6. QED
      BY <3>4, <3>5, BalanceKept
  <2>4. ASSUME NEW k \in Names, NEW w \in KnownVersions(k), DestroyCheck(p, k, w)
        PROVE  Balanced(n, v)'
    BY <1>e, <2>4 DEF DestroyCheck
  <2>5. ASSUME NEW l \in KnownLeases, NEW t \in Ttls, RenewCheck(p, l, t[1])
        PROVE  Balanced(n, v)'
    BY <1>e, <2>5 DEF RenewCheck
  <2>6. QED
    BY <1>3, <2>1, <2>2, <2>3, <2>4, <2>5, DestroyBalance, RenewBalance DEF ClientStep
<1>4. ASSUME NEW p \in Procs, AppendAudit(p) PROVE Balanced(n, v)'
  <2>1. Live(n, v)' = Live(n, v)
    BY <1>4 DEF AppendAudit, Live
  <2>2. QED
    BY <1>4, <2>1, OccursMoved, BalanceKept
<1>5. CASE Tick \/ UNCHANGED vars
  BY <1>5 DEF Tick, vars, Balanced, Occurs, Live
<1>6. QED
  BY <1>1, <1>2, <1>3, <1>4, <1>5 DEF Next

(* With one process that puts, and finitely many callers, the audit rows   *)
(* written and about to be written account for every live entry for ever:  *)
(* of each version, puts = destroys + entries.                             *)
THEOREM LedgerBalancesHolds ==
  ASSUME \A p, q \in Writers : p = q,
         IsFiniteSet(Procs)
  PROVE  Spec => []LedgerBalances
<1> DEFINE Ledger == \A n \in Names : \A v \in 1..MaxCalls : Balanced(n, v)
<1>1. Init => Ledger
  <2> SUFFICES ASSUME Init, NEW n \in Names, NEW v \in 1..MaxCalls PROVE Balanced(n, v)
    OBVIOUS
  <2>1. Live(n, v) = {}
    BY DEF Init, Live
  <2>2. \A r : AuditedAs(r) = {} /\ PendingAs(r) = {}
    BY DEF Init, AuditedAs, PendingAs
  <2>3. QED
    BY <2>1, <2>2, OccursIsSum, FS_EmptySet DEF Balanced
<1>2. TypeInv /\ VersionInv /\ Ledger /\ [Next]_vars => Ledger'
  BY BalanceStep
<1>3. Ledger => LedgerBalances
  BY DEF LedgerBalances, Balanced, Live
<1>4. Init => VersionInv
  BY DEF Init, VersionInv, SeqUnique, VersionsIncrease, PutIsWriter, PutAbove
<1>5. TypeInv /\ VersionInv /\ [Next]_vars => VersionInv'
  BY VersionStep
<1> HIDE DEF Ledger
<1>6. QED
  BY <1>1, <1>2, <1>3, <1>4, <1>5, TypeInvariance, PTL DEF Spec

-----------------------------------------------------------------------------
(* The deadline of what a get serves, for any number of writers.           *)

(* Every entry, and every copy a get has read and not judged yet, is still *)
(* what its put promised: a renewal moves its ttl_sec and nothing else.    *)
PromisesKept ==
  /\ \A n \in Names : \A e \in store[n] : Promise(n, e) \in promised
  /\ \A p \in Procs : pc[p] = "get_age" => Promise(arg[p].name, arg[p].entry) \in promised

(* A process moves alone.  Only GetRead comes to "get_age" and only GetAge *)
(* leaves it.                                                              *)
Elsewhere(p) == \E s, a : s # "get_age" /\ pc[p] # "get_age" /\ Goto(p, s, a)

LEMMA MoveKinds ==
  ASSUME [Next]_vars
  PROVE  \/ UNCHANGED <<pc, arg>>
         \/ \E p \in Procs : Elsewhere(p) \/ GetRead(p) \/ GetAge(p)
<1> USE DEF At, Begin, Return
<1>1. ASSUME NEW p \in Lifecycle, LifecycleStep(p) PROVE Elsewhere(p)
  <2>1. CASE \E k \in Keys \cup {ShortKey} : UnsealCheck(p, k)
    BY <2>1 DEF UnsealCheck, Elsewhere
  <2>2. CASE UnsealBegin(p)
    <3>1. pc[p] = "unseal_begin" /\ \E s \in {"unseal_store", "unseal_wrong"} : Goto(p, s, arg[p])
      BY <2>2 DEF UnsealBegin
    <3>2. QED
      BY <3>1 DEF Elsewhere
  <2>3. CASE UnsealWrongKey(p) \/ UnsealStoreKey(p) \/ UnsealFinish(p)
    BY <2>3 DEF UnsealWrongKey, UnsealStoreKey, UnsealFinish, Elsewhere
  <2>4. CASE SealBegin(p) \/ SealZeroize(p) \/ SealFinish(p)
    BY <2>4 DEF SealBegin, SealZeroize, SealFinish, Elsewhere
  <2>5. QED
    BY <1>1, <2>1, <2>2, <2>3, <2>4 DEF LifecycleStep
<1>2. ASSUME NEW p, NEW ok, NEW s, NEW a, s # "get_age", Enter(p, ok, s, a) PROVE Elsewhere(p)
  BY <1>2 DEF Enter, Elsewhere
<1>3. ASSUME NEW p \in Writers, WriterStep(p) PROVE Elsewhere(p)
  <2>1. CASE \E n \in Names, x \in Values, t \in Ttls : PutCheck(p, n, x, t)
    BY <1>2, <2>1 DEF PutCheck
  <2>2. CASE PutVersion(p)
    BY <2>2 DEF PutVersion, Elsewhere
  <2>3. CASE PutPush(p)
    BY <2>3 DEF PutPush, Elsewhere
  <2>4. QED
    BY <1>3, <2>1, <2>2, <2>3 DEF WriterStep
<1>4. ASSUME NEW p \in Clients, ClientStep(p) PROVE Elsewhere(p) \/ GetRead(p) \/ GetAge(p)
  <2>1. CASE \E n \in Names : GetCheck(p, n)
    BY <1>2, <2>1 DEF GetCheck
  <2>2. CASE \E n \in Names : \E v \in KnownVersions(n) : DestroyCheck(p, n, v)
    BY <1>2, <2>2 DEF DestroyCheck
  <2>3. CASE \E l \in KnownLeases, t \in Ttls : RenewCheck(p, l, t[1])
    BY <1>2, <2>3 DEF RenewCheck
  <2>4. CASE DestroyRemove(p)
    BY <2>4 DEF DestroyRemove, NotFound, Elsewhere
  <2>5. CASE RenewUpdate(p)
    BY <2>5 DEF RenewUpdate, NotFound, Elsewhere
  <2>6. QED
    BY <1>4, <2>1, <2>2, <2>3, <2>4, <2>5 DEF ClientStep
<1>5. ASSUME NEW p \in Procs, AppendAudit(p) PROVE Elsewhere(p)
  BY <1>5 DEF AppendAudit, Elsewhere
<1>6. CASE Tick \/ UNCHANGED vars
  BY <1>6 DEF Tick, vars
<1>7. QED
  BY <1>1, <1>3, <1>4, <1>5, <1>6 DEF Next, Procs

(* What a step may do to the store and to the promises. *)
LEMMA StoreSteps ==
  ASSUME [Next]_vars
  PROVE  \/ UNCHANGED <<store, promised>>
         \/ \E p \in Procs : PutPush(p) \/ DestroyRemove(p) \/ RenewUpdate(p)
<1>1. ASSUME NEW p \in Writers, WriterStep(p) PROVE UNCHANGED <<store, promised>> \/ PutPush(p)
  BY <1>1 DEF WriterStep, PutCheck, PutVersion, Enter
<1>2. ASSUME NEW p \in Clients, ClientStep(p)
      PROVE  UNCHANGED <<store, promised>> \/ DestroyRemove(p) \/ RenewUpdate(p)
  BY <1>2 DEF ClientStep, GetCheck, GetRead, GetAge, DestroyCheck, RenewCheck, Enter
<1>3. ASSUME NEW p \in Lifecycle, LifecycleStep(p) PROVE UNCHANGED <<store, promised>>
  BY <1>3 DEF LifecycleStep, UnsealCheck, UnsealBegin, UnsealWrongKey, UnsealStoreKey,
     UnsealFinish, SealBegin, SealZeroize, SealFinish
<1>4. QED
  BY <1>1, <1>2, <1>3 DEF Next, Procs, AppendAudit, Tick, vars

(* A pushed entry is promised as it is pushed; a renewed one is promised   *)
(* what it was before.                                                     *)
LEMMA EntriesPromised ==
  ASSUME TypeInv, PromisesKept, [Next]_vars
  PROVE  /\ promised \subseteq promised'
         /\ \A n \in Names : \A f \in store'[n] : Promise(n, f) \in promised'
<1>0. \A n \in Names : \A e \in store[n] : Promise(n, e) \in promised
  BY DEF PromisesKept
<1>1. CASE UNCHANGED <<store, promised>>
  BY <1>0, <1>1
<1>2. ASSUME NEW p \in Procs, PutPush(p)
      PROVE  /\ promised \subseteq promised'
             /\ \A n \in Names : \A f \in store'[n] : Promise(n, f) \in promised'
  <2> DEFINE m == arg[p].name
             e == arg[p].entry
             g == Pushed(m, e)
  <2>1. m \in Names
    BY <1>2, ArgTypes DEF PutPush, At
  <2>2. \A k \in Names : store'[k] = IF k = m THEN store[m] \cup {g} ELSE store[k]
    BY <1>2, <2>1 DEF PutPush, TypeInv, TypeOK
  <2>3. Promise(m, g) = Promise(m, e)
    BY DEF Promise, Pushed
  <2>4. promised' = promised \cup {Promise(m, e)}
    BY <1>2 DEF PutPush
  <2>5. QED
    <3> HIDE DEF m, e, g
    <3> QED BY <1>0, <2>1, <2>2, <2>3, <2>4
<1>3. ASSUME NEW p \in Procs, DestroyRemove(p)
      PROVE  /\ promised \subseteq promised'
             /\ \A n \in Names : \A f \in store'[n] : Promise(n, f) \in promised'
  <2>1. arg[p].name \in Names
    BY <1>3, ArgTypes DEF DestroyRemove, At
  <2>2. \A k \in Names : store'[k] \subseteq store[k]
    BY <1>3, <2>1 DEF DestroyRemove, NotFound, Retained, TypeInv, TypeOK
  <2>3. promised' = promised
    BY <1>3 DEF DestroyRemove, NotFound
  <2>4. QED
    BY <1>0, <2>2, <2>3
<1>4. ASSUME NEW p \in Procs, RenewUpdate(p)
      PROVE  /\ promised \subseteq promised'
             /\ \A n \in Names : \A f \in store'[n] : Promise(n, f) \in promised'
  <2> DEFINE l == arg[p].lease
             x == First(Holders(l))
             t == arg[p].ttl
             g == Renewed(x, t)
  <2>1. l \in Lease /\ l.name \in Names
    BY <1>4, ArgTypes DEF RenewUpdate, At, Lease
  <2>2. promised' = promised
    BY <1>4 DEF RenewUpdate, NotFound
  <2>3. CASE Holders(l) = {}
    BY <1>0, <1>4, <2>2, <2>3 DEF RenewUpdate, NotFound
  <2>4. CASE Holders(l) # {}
    <3>1. x \in store[l.name]
      BY <2>1, <2>4, FirstIsHolder DEF Holders
    <3>2. x \in Entry
      BY <2>1, <3>1 DEF TypeInv, TypeOK
    <3>3. Promise(l.name, g) = Promise(l.name, x)
      <4> HIDE DEF x, t, l
      <4> QED BY <3>2 DEF Renewed, Entry, Promise
    <3>4. \A k \in Names : store'[k] = IF k = l.name THEN (store[l.name] \ {x}) \cup {g} ELSE store[k]
      BY <1>4, <2>1, <2>4 DEF RenewUpdate, TypeInv, TypeOK
    <3>5. QED
      <4> HIDE DEF x, g, l
      <4> QED BY <1>0, <2>1, <2>2, <3>1, <3>3, <3>4
  <2>5. QED
    BY <2>3, <2>4
<1>5. QED
  BY <1>1, <1>2, <1>3, <1>4, StoreSteps

(* A get carries to its judgement the entry it read, and that one only.    *)
LEMMA ReadIsPromised ==
  ASSUME TypeInv, PromisesKept, [Next]_vars, NEW q \in Procs, pc'[q] = "get_age"
  PROVE  Promise(arg'[q].name, arg'[q].entry) \in promised
<1>1. CASE pc[q] = "get_age" /\ arg'[q] = arg[q]
  BY <1>1 DEF PromisesKept
<1>2. ASSUME NEW p \in Procs, NEW s, NEW a, Goto(p, s, a), s # "get_age"
      PROVE  pc[q] = "get_age" /\ arg'[q] = arg[q]
  BY <1>2 DEF Goto, TypeInv, TypeOK
<1>3. ASSUME NEW p \in Procs, GetRead(p)
      PROVE  Promise(arg'[q].name, arg'[q].entry) \in promised
  <2> DEFINE n == arg[p].name
             a == [name |-> n, entry |-> Latest(n)]
  <2>1. n \in Names
    BY <1>3, ArgTypes DEF GetRead, At
  <2>2. CASE store[n] = {}
    <3>1. Goto(p, "idle", NoArg)
      BY <1>3, <2>2 DEF GetRead, Return
    <3>2. QED
      BY <1>1, <1>2, <3>1
  <2>3. CASE store[n] # {}
    <3>1. Goto(p, "get_age", a)
      BY <1>3, <2>3 DEF GetRead
    <3>2. CASE q = p
      <4>1. arg'[q] = a
        <5> HIDE DEF a
        <5> QED BY <3>1, <3>2 DEF Goto, TypeInv, TypeOK
      <4>2. Latest(n) \in store[n]
        BY <2>1, <2>3, LatestIsLast
      <4>3. Promise(n, Latest(n)) \in promised
        BY <2>1, <4>2 DEF PromisesKept
      <4>4. QED
        BY <4>1, <4>3
    <3>3. CASE q # p
      <4>1. pc[q] = pc'[q] /\ arg'[q] = arg[q]
        <5> HIDE DEF a
        <5> QED BY <3>1, <3>3 DEF Goto, TypeInv, TypeOK
      <4>2. QED
        BY <1>1, <4>1
    <3>4. QED
      BY <3>2, <3>3
  <2>4. QED
    BY <2>2, <2>3
<1>4. ASSUME NEW p \in Procs, GetAge(p) PROVE pc[q] = "get_age" /\ arg'[q] = arg[q]
  <2>1. PICK a : Goto(p, "audit", a)
    BY <1>4 DEF GetAge
  <2>2. QED
    BY <1>2, <2>1
<1>5. ASSUME NEW p \in Procs, Elsewhere(p) PROVE pc[q] = "get_age" /\ arg'[q] = arg[q]
  BY <1>2, <1>5 DEF Elsewhere
<1>6. CASE UNCHANGED <<pc, arg>>
  BY <1>1, <1>6
<1>7. QED
  BY <1>1, <1>3, <1>4, <1>5, <1>6, MoveKinds

LEMMA PromisesInvariance == Spec => []PromisesKept
<1>1. Init => PromisesKept
  BY DEF Init, PromisesKept
<1>2. TypeInv /\ PromisesKept /\ [Next]_vars => PromisesKept'
  BY EntriesPromised, ReadIsPromised DEF PromisesKept
<1>3. QED
  BY <1>1, <1>2, TypeInvariance, PTL DEF Spec

(* A get that is judged compares the clock with what was promised.         *)
LEMMA JudgedByPromise ==
  ASSUME TypeInv, PromisesKept, [Next]_vars, NEW p \in Procs, Judges(p)
  PROVE  \E q \in promised :
           /\ q.name = arg[p].name
           /\ q.version = arg[p].entry.version /\ q.value = arg[p].entry.value
           /\ Serves(p) <=> now < q.until
<1> DEFINE e == arg[p].entry
           q == Promise(arg[p].name, e)
<1>1. q \in promised
  BY DEF PromisesKept, Judges
<1>2. e \in Entry
  BY ArgTypes DEF Judges, Steps, ArgOf, TypeInv, TypeOK
<1>3. GetAge(p)
  <2>1. pc'[p] # pc[p]
    BY DEF Judges
  <2>2. ASSUME NEW r \in Procs, NEW s, NEW a, Goto(r, s, a) PROVE r = p
    BY <2>1, <2>2 DEF Goto, TypeInv, TypeOK
  <2>3. ASSUME NEW r \in Procs, Elsewhere(r) PROVE FALSE
    BY <2>2, <2>3 DEF Elsewhere, Judges
  <2>4. ASSUME NEW r \in Procs, GetRead(r) PROVE FALSE
    <3>1. pc[r] = "get_read" /\ \E s, a : Goto(r, s, a)
      BY <2>4 DEF GetRead, At, Return
    <3>2. QED
      BY <2>2, <3>1 DEF Judges
  <2>5. ASSUME NEW r \in Procs, GetAge(r) PROVE r = p
    BY <2>2, <2>5 DEF GetAge
  <2>6. QED
    BY <2>1, <2>3, <2>4, <2>5, MoveKinds
<1>4. arg'[p].event = IF now - e.created >= e.maxTtl THEN "get_failed_stale" ELSE "get"
  BY <1>3 DEF GetAge, Goto, RowOf, TypeInv, TypeOK
<1>5. now \in Int /\ e.created \in Int /\ e.maxTtl \in Int
  BY <1>2 DEF Entry, TypeInv, TypeOK
<1>6. q.until = e.created + e.maxTtl
  BY DEF Promise
<1>7. Serves(p) <=> now < q.until
  <2> HIDE DEF e, q
  <2> QED BY <1>4, <1>5, <1>6 DEF Serves
<1>8. q.name = arg[p].name /\ q.version = e.version /\ q.value = e.value
  BY DEF Promise
<1>9. QED
  <2> HIDE DEF q
  <2> QED BY <1>1, <1>7, <1>8

(* Whatever calls run together, a get serves the value of a put exactly    *)
(* until the deadline that put was given.                                  *)
THEOREM ServedUntilPromisedHolds == Spec => ServedUntilPromised
<1> DEFINE Judged == \A p \in Procs : Judges(p) =>
                       \E q \in promised :
                         /\ q.name = arg[p].name
                         /\ q.version = arg[p].entry.version /\ q.value = arg[p].entry.value
                         /\ Serves(p) <=> now < q.until
<1>1. TypeInv /\ PromisesKept /\ [Next]_vars => [Judged]_vars
  BY JudgedByPromise
<1>2. QED
  BY <1>1, TypeInvariance, PromisesInvariance, PTL DEF Spec, ServedUntilPromised

(* With one process that unseals and seals and one writer, the handle is   *)
(* well typed, its key follows its state word and its versions increase.   *)
THEOREM HandleOKHolds ==
  ASSUME \A p, q \in Lifecycle : p = q,
         \A p, q \in Writers : p = q
  PROVE  Spec => []HandleOK
<1>1. Spec => []KeyTracksState
  BY KeyTracksStateHolds
<1>2. Spec => []VersionsIncrease
  BY VersionsIncreaseHolds
<1>3. TypeOK /\ KeyTracksState /\ VersionsIncrease => HandleOK
  BY DEF HandleOK
<1>4. QED
  BY <1>1, <1>2, <1>3, TypeCorrect, PTL

=============================================================================
