-------------------------- MODULE DiskVault_proofs --------------------------
(* Proofs about DiskVault, for every number of threads, names, keys,       *)
(* versions and crashes.                                                   *)
EXTENDS DiskVault, WellFoundedInduction, TLAPS

(* A non-empty set of naturals with an upper bound has a largest element:  *)
(* the entry that versions.last() and "ORDER BY version DESC LIMIT 1" take.*)
LEMMA BoundedSetHasMax ==
  ASSUME NEW T \in SUBSET Nat, T # {},
         NEW b \in Nat, \A x \in T : x <= b
  PROVE  \E m \in T : \A x \in T : x <= m
<1> DEFINE D == {b - x : x \in T}
<1>1. D \subseteq Nat /\ D # {}
  <2>1. \A x \in T : b - x \in Nat
    OBVIOUS
  <2>2. PICK x \in T : TRUE
    OBVIOUS
  <2>3. b - x \in D
    OBVIOUS
  <2>4. QED
    BY <2>1, <2>3
<1>2. PICK d \in D : \A e \in D : <<e, d>> \notin OpToRel(<, Nat)
  BY <1>1, WFMin, NatLessThanWellFounded, Zenon
<1>3. \A e \in D : d <= e
  <2>1. \A e \in D : ~(e < d)
    BY <1>1, <1>2, Zenon DEF OpToRel
  <2>2. d \in Nat /\ \A e \in D : e \in Nat
    BY <1>1
  <2>3. QED
    <3> HIDE DEF D
    <3> QED BY <2>1, <2>2
<1>4. PICK m \in T : d = b - m
  OBVIOUS
<1>5. ASSUME NEW x \in T PROVE x <= m
  <2>1. b - x \in D
    OBVIOUS
  <2>2. QED
    BY <1>3, <1>4, <2>1
<1>6. QED
  BY <1>5

(* The rows are bounded above, so versions(name).last() and ORDER BY       *)
(* version DESC LIMIT 1 denote a row.                                      *)
KvBounded == \E b \in Nat : \A r \in kv : r.version <= b

TypeInv == TypeOK /\ KvBounded

LEMMA MaxVersionExists ==
  ASSUME TypeInv, NEW n \in Names, Versions(n) # {}
  PROVE  \E m \in Versions(n) : \A v \in Versions(n) : v <= m
<1>1. Versions(n) \in SUBSET Nat
  BY DEF Versions, TypeInv, TypeOK, KvRow
<1>2. PICK b \in Nat : \A v \in Versions(n) : v <= b
  BY DEF TypeInv, KvBounded, Versions
<1>3. QED
  BY <1>1, <1>2, BoundedSetHasMax

(* The version a put computes is positive, and the one below it, if any,   *)
(* is stored.                                                              *)
LEMMA NextVersionFact ==
  ASSUME TypeInv, NEW n \in Names
  PROVE  /\ NextVersion(n) \in Nat \ {0}
         /\ NextVersion(n) = 1 \/ NextVersion(n) - 1 \in Versions(n)
<1>1. CASE Versions(n) = {}
  BY <1>1 DEF NextVersion
<1>2. CASE Versions(n) # {}
  <2> DEFINE m == CHOOSE v \in Versions(n) : \A u \in Versions(n) : u <= v
  <2>1. m \in Versions(n)
    BY <1>2, MaxVersionExists
  <2>2. Versions(n) \subseteq Nat
    BY DEF Versions, TypeInv, TypeOK, KvRow
  <2>3. NextVersion(n) = m + 1
    BY <1>2 DEF NextVersion
  <2>4. QED
    <3> HIDE DEF m
    <3> QED BY <2>1, <2>2, <2>3
<1>3. QED
  BY <1>1, <1>2

(* A get reads a stored row of the name it was asked for. *)
LEMMA LatestRowFact ==
  ASSUME TypeInv, NEW n \in Names, Versions(n) # {}
  PROVE  LatestRow(n) \in kv /\ LatestRow(n).name = n
<1>1. PICK m \in Versions(n) : \A v \in Versions(n) : v <= m
  BY MaxVersionExists
<1>2. PICK r \in kv : r.name = n /\ r.version = m
  BY DEF Versions
<1>3. \E s \in kv : s.name = n /\ \A v \in Versions(n) : v <= s.version
  BY <1>1, <1>2
<1>4. QED
  BY <1>3 DEF LatestRow

-----------------------------------------------------------------------------
(* What a step does, in the shapes the proofs below treat alike.           *)

(* Moving a thread to a section with an argument of its kind keeps pc and  *)
(* arg well typed.                                                         *)
LEMMA GotoTypes ==
  ASSUME TypeInv, NEW p \in Procs, NEW step \in Steps, NEW a,
         pc' = [pc EXCEPT ![p] = step], arg' = [arg EXCEPT ![p] = a],
         /\ step = "unseal_key" => a \in Keys
         /\ step \in {"put_key", "put_encrypt"} => a \in [name : Names, value : Values]
         /\ step = "put_version" => a \in [name : Names, value : Values, key : Keys]
         /\ step \in {"put_insert", "get_key", "get_decrypt"} => a \in KvRow
         /\ step \in {"put_audit", "get_audit"} => a \in [name : Names, version : Nat]
         /\ step = "get_read" => a \in [name : Names]
  PROVE  pc' \in [Procs -> Steps] /\ DOMAIN arg' = Procs /\ \A q \in Procs : ArgTyped(q)'
<1>1. pc' \in [Procs -> Steps] /\ DOMAIN arg' = Procs
  BY DEF TypeInv, TypeOK
<1>2. ASSUME NEW q \in Procs PROVE ArgTyped(q)'
  <2>1. CASE q = p
    <3>1. pc'[q] = step /\ arg'[q] = a
      BY <2>1 DEF TypeInv, TypeOK
    <3>2. QED
      BY <3>1 DEF ArgTyped
  <2>2. CASE q # p
    <3>1. pc'[q] = pc[q] /\ arg'[q] = arg[q]
      BY <2>2 DEF TypeInv, TypeOK
    <3>2. ArgTyped(q)
      BY DEF TypeInv, TypeOK
    <3>3. QED
      BY <3>1, <3>2 DEF ArgTyped
  <2>3. QED
    BY <2>1, <2>2
<1>3. QED
  BY <1>1, <1>2

(* A call that returns or panics is idle and carries nothing.              *)
LEMMA EndTypes ==
  ASSUME TypeInv, NEW p \in Procs, Return(p) \/ Panic(p)
  PROVE  /\ pc' \in [Procs -> Steps] /\ DOMAIN arg' = Procs
         /\ \A q \in Procs : ArgTyped(q)'
         /\ panicked' \subseteq Procs /\ crashes' \in Nat
<1>1. pc' = [pc EXCEPT ![p] = "idle"] /\ arg' = [arg EXCEPT ![p] = NoArg]
  BY DEF Return, Goto, Panic
<1>2. "idle" \in Steps
  BY DEF Steps
<1>3. pc' \in [Procs -> Steps] /\ DOMAIN arg' = Procs /\ \A q \in Procs : ArgTyped(q)'
  BY <1>1, <1>2, GotoTypes
<1>4. panicked' \subseteq Procs /\ crashes' \in Nat
  BY DEF Return, Goto, Panic, TypeInv, TypeOK
<1>5. QED
  BY <1>3, <1>4

(* What the section with the key does, and the taking of its mutex. *)
LEMMA WithKeyCases ==
  ASSUME NEW p \in Procs, NEW s, NEW a,
         WithKey(p, Goto(p, s, a))
  PROVE  /\ \/ master # NoKey /\ mkLock' = Free /\ Goto(p, s, a)
            \/ master = NoKey /\ mkLock' = Poisoned /\ Panic(p)
         /\ UNCHANGED <<state, stateLock, master, disk>>
  BY DEF WithKey

LEMMA TakeKeyCases ==
  ASSUME NEW p \in Procs, NEW s, NEW t, TakeKey(p, s, t)
  PROVE  /\ pc[p] = s
         /\ \/ mkLock = Free /\ mkLock' = p /\ Goto(p, t, arg[p])
            \/ mkLock = Poisoned /\ mkLock' = mkLock /\ Panic(p)
         /\ UNCHANGED <<state, stateLock, master, disk>>
  BY DEF TakeKey

(* The handle and the tables stay in their types. *)
DataTyped ==
  /\ state' \in {"Sealed", "Active"}
  /\ stateLock' \in Locks /\ mkLock' \in Locks
  /\ master' \in Keys \cup {NoKey}
  /\ kv' \subseteq KvRow /\ auditLog' \subseteq LogRow
  /\ KvBounded'

LEMMA UnchangedDataTyped ==
  ASSUME TypeInv PROVE UNCHANGED <<ram, disk>> => DataTyped
  BY DEF TypeInv, TypeOK, KvBounded, DataTyped, ram, disk

LEMMA EndKeepsType ==
  ASSUME TypeInv, NEW p \in Procs, Return(p) \/ Panic(p), DataTyped
  PROVE  TypeInv'
<1>1. /\ pc' \in [Procs -> Steps] /\ DOMAIN arg' = Procs
      /\ \A q \in Procs : ArgTyped(q)'
      /\ panicked' \subseteq Procs /\ crashes' \in Nat
  BY EndTypes, Zenon
<1>2. QED
  BY <1>1 DEF DataTyped, TypeInv, TypeOK

LEMMA GotoKeepsType ==
  ASSUME TypeInv, NEW p \in Procs, NEW step \in Steps, NEW a,
         Goto(p, step, a), DataTyped,
         /\ step = "unseal_key" => a \in Keys
         /\ step \in {"put_key", "put_encrypt"} => a \in [name : Names, value : Values]
         /\ step = "put_version" => a \in [name : Names, value : Values, key : Keys]
         /\ step \in {"put_insert", "get_key", "get_decrypt"} => a \in KvRow
         /\ step \in {"put_audit", "get_audit"} => a \in [name : Names, version : Nat]
         /\ step = "get_read" => a \in [name : Names]
  PROVE  TypeInv'
<1>1. pc' = [pc EXCEPT ![p] = step] /\ arg' = [arg EXCEPT ![p] = a]
      /\ UNCHANGED <<panicked, crashes>>
  BY DEF Goto
<1>2. /\ pc' \in [Procs -> Steps] /\ DOMAIN arg' = Procs
      /\ \A q \in Procs : ArgTyped(q)'
  BY <1>1, GotoTypes
<1>3. QED
  BY <1>1, <1>2 DEF DataTyped, TypeInv, TypeOK

LEMMA AppendTyped ==
  ASSUME TypeInv, NEW ev, NEW n, NEW v, Logged(ev, n, v) \in LogRow, AppendAudit(ev, n, v)
  PROVE  auditLog' \subseteq LogRow
  BY DEF AppendAudit, TypeInv, TypeOK

LEMMA LifecycleTypes ==
  ASSUME TypeInv, NEW p \in Lifecycle, LifecycleBegins(p) \/ LifecycleContinues(p)
  PROVE  TypeInv'
<1> p \in Procs
  BY DEF Procs
<1> USE DEF Steps, Locks
<1>a. ASSUME NEW key \in Keys \cup {NoKey}, NEW next \in {"unseal_state", "seal_state"},
             LockKey(p, key, next)
      PROVE  TypeInv'
  <2>1. DataTyped
    BY <1>a DEF LockKey, DataTyped, TypeInv, TypeOK, KvBounded, disk
  <2>2. Goto(p, next, NoArg) \/ Panic(p)
    BY <1>a DEF LockKey
  <2>3. QED
    BY <2>1, <2>2, GotoKeepsType, EndKeepsType
<1>b. ASSUME NEW from, NEW word \in {"Sealed", "Active"},
             NEW next \in {"unseal_audit", "seal_audit"}, SetState(p, from, word, next)
      PROVE  TypeInv'
  <2>1. DataTyped /\ Goto(p, next, NoArg)
    BY <1>b DEF SetState, DataTyped, TypeInv, TypeOK, KvBounded, disk
  <2>2. QED
    BY <2>1, GotoKeepsType
<1>c. ASSUME NEW from, NEW ev \in {"unseal", "seal"}, Finish(p, from, ev)
      PROVE  TypeInv'
  <2>1. Logged(ev, NoName, 0) \in LogRow
    BY DEF Logged, LogRow
  <2>2. auditLog' \subseteq LogRow
    BY <1>c, <2>1, AppendTyped DEF Finish
  <2>3. DataTyped /\ Return(p)
    BY <1>c, <2>2 DEF Finish, DataTyped, TypeInv, TypeOK, KvBounded
  <2>4. QED
    BY <2>3, EndKeepsType
<1>1. CASE UnsealBadKey(p) \/ EntryPanics(p)
  BY <1>1, UnchangedDataTyped, EndKeepsType DEF UnsealBadKey, EntryPanics
<1>2. ASSUME NEW k \in Keys, UnsealLock(p, k) PROVE TypeInv'
  <2>1. DataTyped
    BY <1>2 DEF UnsealLock, DataTyped, TypeInv, TypeOK, KvBounded, disk
  <2>2. Return(p) \/ Goto(p, "unseal_key", k)
    BY <1>2 DEF UnsealLock
  <2>3. QED
    BY <2>1, <2>2, GotoKeepsType, EndKeepsType
<1>3. CASE SealLock(p)
  <2>1. DataTyped /\ Goto(p, "seal_key", NoArg)
    BY <1>3 DEF SealLock, DataTyped, TypeInv, TypeOK, KvBounded, disk
  <2>2. QED
    BY <2>1, GotoKeepsType
<1>4. CASE UnsealKey(p)
  <2>1. arg[p] \in Keys
    BY <1>4 DEF UnsealKey, TypeInv, TypeOK, ArgTyped
  <2>2. QED
    BY <1>4, <1>a, <2>1 DEF UnsealKey
<1>5. CASE SealKey(p)
  BY <1>5, <1>a DEF SealKey
<1>6. CASE UnsealState(p) \/ SealState(p)
  BY <1>6, <1>b DEF UnsealState, SealState
<1>7. CASE UnsealFinish(p) \/ SealFinish(p)
  BY <1>7, <1>c DEF UnsealFinish, SealFinish
<1>8. QED
  BY <1>1, <1>2, <1>3, <1>4, <1>5, <1>6, <1>7 DEF LifecycleBegins, LifecycleContinues

LEMMA RequireActiveTypes ==
  ASSUME TypeInv, NEW p \in Procs, NEW n \in Names,
         \/ \E x \in Values : RequireActive(p, "put_key", [name |-> n, value |-> x])
         \/ RequireActive(p, "get_read", [name |-> n])
  PROVE  TypeInv'
<1>1. DataTyped
  BY UnchangedDataTyped DEF RequireActive
<1>2. \/ Return(p)
      \/ \E x \in Values : Goto(p, "put_key", [name |-> n, value |-> x])
      \/ Goto(p, "get_read", [name |-> n])
  BY DEF RequireActive
<1>3. QED
  BY <1>1, <1>2, GotoKeepsType, EndKeepsType DEF Steps

LEMMA WithKeyTypes ==
  ASSUME TypeInv, NEW p \in Procs, NEW s, NEW a, WithKey(p, Goto(p, s, a)),
         \/ s = "put_version" /\ (master \in Keys => a \in [name : Names, value : Values, key : Keys])
         \/ s = "get_audit" /\ a \in [name : Names, version : Nat]
         \/ s = "idle"
  PROVE  TypeInv'
<1>1. DataTyped
  BY WithKeyCases DEF DataTyped, TypeInv, TypeOK, KvBounded, disk, Locks
<1>2. (master \in Keys /\ Goto(p, s, a)) \/ Panic(p)
  BY WithKeyCases DEF TypeInv, TypeOK
<1>3. QED
  BY <1>1, <1>2, GotoKeepsType, EndKeepsType DEF Steps

LEMMA TakeKeyTypes ==
  ASSUME TypeInv, NEW p \in Procs,
         TakeKey(p, "put_key", "put_encrypt") \/ TakeKey(p, "get_key", "get_decrypt")
  PROVE  TypeInv'
<1>1. DataTyped
  BY TakeKeyCases DEF DataTyped, TypeInv, TypeOK, KvBounded, disk, Locks
<1>2. CASE TakeKey(p, "put_key", "put_encrypt")
  <2>1. arg[p] \in [name : Names, value : Values]
    BY <1>2, TakeKeyCases DEF TypeInv, TypeOK, ArgTyped
  <2>2. Goto(p, "put_encrypt", arg[p]) \/ Panic(p)
    BY <1>2, TakeKeyCases
  <2>3. QED
    BY <1>1, <2>1, <2>2, GotoKeepsType, EndKeepsType DEF Steps
<1>3. CASE TakeKey(p, "get_key", "get_decrypt")
  <2>1. arg[p] \in KvRow
    BY <1>3, TakeKeyCases DEF TypeInv, TypeOK, ArgTyped
  <2>2. Goto(p, "get_decrypt", arg[p]) \/ Panic(p)
    BY <1>3, TakeKeyCases
  <2>3. QED
    BY <1>1, <2>1, <2>2, GotoKeepsType, EndKeepsType DEF Steps
<1>4. QED
  BY <1>2, <1>3

LEMMA DataAuditTypes ==
  ASSUME TypeInv, NEW p \in Procs,
         PutAudit(p) \/ GetAudit(p)
  PROVE  TypeInv'
<1>1. arg[p] \in [name : Names, version : Nat]
  BY DEF PutAudit, GetAudit, DataAudit, TypeInv, TypeOK, ArgTyped
<1>2. PICK ev \in {"put", "get"} : AppendAudit(ev, arg[p].name, arg[p].version)
  BY DEF PutAudit, GetAudit, DataAudit
<1>3. auditLog' \subseteq LogRow
  <2>1. Logged(ev, arg[p].name, arg[p].version) \in LogRow
    BY <1>1 DEF Logged, LogRow
  <2>2. QED
    BY <1>2, <2>1, AppendTyped
<1>4. DataTyped /\ Return(p)
  BY <1>3 DEF PutAudit, GetAudit, DataAudit, DataTyped, TypeInv, TypeOK, KvBounded, ram
<1>5. QED
  BY <1>4, EndKeepsType

LEMMA WriterTypes ==
  ASSUME TypeInv, NEW p \in Writers, WriterBegins(p) \/ WriterContinues(p)
  PROVE  TypeInv'
<1> p \in Procs
  BY DEF Procs
<1>1. CASE EntryPanics(p) \/ BackendError(p)
  BY <1>1, UnchangedDataTyped, EndKeepsType DEF EntryPanics, BackendError
<1>2. ASSUME NEW n \in Names, NEW x \in Values, PutCheck(p, n, x) PROVE TypeInv'
  BY <1>2, RequireActiveTypes DEF PutCheck
<1>3. CASE PutEncrypt(p)
  <2>1. arg[p] \in [name : Names, value : Values]
    BY <1>3 DEF PutEncrypt, TypeInv, TypeOK, ArgTyped
  <2>2. QED
    BY <1>3, <2>1, WithKeyTypes DEF PutEncrypt
<1>4. CASE PutVersion(p)
  <2>1. arg[p] \in [name : Names, value : Values, key : Keys]
    BY <1>4 DEF PutVersion, TypeInv, TypeOK, ArgTyped
  <2>2. NextVersion(arg[p].name) \in Nat \ {0}
    BY <2>1, NextVersionFact
  <2> DEFINE a == [name |-> arg[p].name, version |-> NextVersion(arg[p].name),
                   value |-> arg[p].value, key |-> arg[p].key]
  <2>3. a \in KvRow
    BY <2>1, <2>2 DEF KvRow
  <2>4. Goto(p, "put_insert", a) /\ DataTyped
    BY <1>4, UnchangedDataTyped DEF PutVersion
  <2>5. QED
    <3> HIDE DEF a
    <3> QED BY <2>3, <2>4, GotoKeepsType DEF Steps
<1>5. CASE PutInsert(p)
  <2>1. arg[p] \in KvRow
    BY <1>5 DEF PutInsert, TypeInv, TypeOK, ArgTyped
  <2>2. kv' = kv \/ kv' = kv \cup {arg[p]}
    BY <1>5 DEF PutInsert
  <2>3. KvBounded'
    <3>1. PICK b \in Nat : \A r \in kv : r.version <= b
      BY DEF TypeInv, KvBounded
    <3>2. arg[p].version \in Nat /\ \A r \in kv : r.version \in Nat
      BY <2>1 DEF KvRow, TypeInv, TypeOK
    <3>3. b + arg[p].version \in Nat /\ \A r \in kv' : r.version <= b + arg[p].version
      BY <2>2, <3>1, <3>2
    <3>4. QED
      BY <3>3 DEF KvBounded
  <2>4. DataTyped
    BY <1>5, <2>1, <2>2, <2>3 DEF PutInsert, DataTyped, TypeInv, TypeOK, ram
  <2>5. \/ Return(p)
        \/ Goto(p, "put_audit", [name |-> arg[p].name, version |-> arg[p].version])
    BY <1>5 DEF PutInsert
  <2>6. QED
    BY <2>1, <2>4, <2>5, GotoKeepsType, EndKeepsType DEF Steps, KvRow
<1>6. CASE PutAudit(p)
  BY <1>6, DataAuditTypes
<1>7. CASE PutKey(p)
  BY <1>7, TakeKeyTypes DEF PutKey
<1>8. QED
  BY <1>1, <1>2, <1>3, <1>4, <1>5, <1>6, <1>7 DEF WriterBegins, WriterContinues

LEMMA ReaderTypes ==
  ASSUME TypeInv, NEW p \in Readers, ReaderBegins(p) \/ ReaderContinues(p)
  PROVE  TypeInv'
<1> p \in Procs
  BY DEF Procs
<1>1. CASE EntryPanics(p) \/ BackendError(p)
  BY <1>1, UnchangedDataTyped, EndKeepsType DEF EntryPanics, BackendError
<1>2. ASSUME NEW n \in Names, GetCheck(p, n) PROVE TypeInv'
  BY <1>2, RequireActiveTypes DEF GetCheck
<1>3. CASE GetRead(p)
  <2>1. arg[p].name \in Names
    BY <1>3 DEF GetRead, TypeInv, TypeOK, ArgTyped
  <2>2. DataTyped
    BY <1>3, UnchangedDataTyped DEF GetRead
  <2>3. Return(p) \/ (Versions(arg[p].name) # {} /\ Goto(p, "get_key", LatestRow(arg[p].name)))
    BY <1>3 DEF GetRead
  <2>4. Versions(arg[p].name) # {} => LatestRow(arg[p].name) \in KvRow
    BY <2>1, LatestRowFact DEF TypeInv, TypeOK
  <2>5. QED
    BY <2>2, <2>3, <2>4, GotoKeepsType, EndKeepsType DEF Steps
<1>4. CASE GetDecrypt(p)
  <2>1. arg[p] \in KvRow
    BY <1>4 DEF GetDecrypt, TypeInv, TypeOK, ArgTyped
  <2>2. \/ WithKey(p, Goto(p, "get_audit", [name |-> arg[p].name, version |-> arg[p].version]))
        \/ WithKey(p, Goto(p, "idle", NoArg))
    BY <1>4 DEF GetDecrypt, WithKey, Return
  <2>3. [name |-> arg[p].name, version |-> arg[p].version] \in [name : Names, version : Nat]
    BY <2>1 DEF KvRow
  <2>4. QED
    BY <2>2, <2>3, WithKeyTypes
<1>5. CASE GetAudit(p)
  BY <1>5, DataAuditTypes
<1>6. CASE GetKey(p)
  BY <1>6, TakeKeyTypes DEF GetKey
<1>7. QED
  BY <1>1, <1>2, <1>3, <1>4, <1>5, <1>6 DEF ReaderBegins, ReaderContinues

(* The types, strengthened by the bound the lemmas on the newest row need. *)
LEMMA TypeInvariance == Spec => []TypeInv
<1>1. Init => TypeInv
  BY DEF Init, TypeInv, TypeOK, KvBounded, Locks, Steps, ArgTyped
<1>2. TypeInv /\ [Next]_vars => TypeInv'
  <2> SUFFICES ASSUME TypeInv, [Next]_vars PROVE TypeInv'
    OBVIOUS
  <2>1. CASE Crash
    <3>1. KvBounded'
      BY <2>1 DEF Crash, disk, TypeInv, KvBounded
    <3>2. QED
      BY <2>1, <3>1 DEF Crash, disk, TypeInv, TypeOK, Locks, Steps, ArgTyped
  <2>2. CASE UNCHANGED vars
    BY <2>2 DEF vars, TypeInv, TypeOK, KvBounded, ArgTyped
  <2>3. QED
    BY <2>1, <2>2, LifecycleTypes, WriterTypes, ReaderTypes DEF Next
<1>3. QED
  BY <1>1, <1>2, PTL DEF Spec

(* Every state the vault reaches is well typed, through panics and crashes.*)
THEOREM TypeCorrect == Spec => []TypeOK
<1>1. TypeInv => TypeOK
  BY DEF TypeInv
<1> QED
  BY <1>1, TypeInvariance, PTL

-----------------------------------------------------------------------------
(* The two mutexes.                                                        *)

LifeSteps == {"unseal_key", "unseal_state", "unseal_audit",
              "seal_key", "seal_state", "seal_audit"}
KeySteps == {"unseal_state", "unseal_audit", "seal_state", "seal_audit"}
UseSteps == {"put_encrypt", "get_decrypt"}

(* A thread holds a mutex exactly in the sections that need it: unseal and *)
(* seal take the key's while they hold the state's, put and get without.   *)
Holders ==
  \A p \in Procs : /\ stateLock = p <=> pc[p] \in LifeSteps
                   /\ mkLock = p <=> pc[p] \in KeySteps \cup UseSteps

(* The word and the key at each section of unseal and seal. *)
AtSection(p) ==
  /\ pc[p] = "unseal_key" => state = "Sealed"
  /\ pc[p] = "unseal_state" => state = "Sealed" /\ master \in Keys
  /\ pc[p] = "unseal_audit" => state = "Active" /\ master \in Keys
  /\ pc[p] = "seal_state" => master = NoKey
  /\ pc[p] = "seal_audit" => state = "Sealed" /\ master = NoKey

(* Outside the one section between the two assignments they agree. *)
BetweenAssignments == \E p \in Procs : pc[p] \in {"unseal_state", "seal_state"}
Agree == state = "Active" <=> master \in Keys

LockInv ==
  /\ Holders
  /\ \A p \in Procs : AtSection(p)
  /\ ~BetweenAssignments => Agree
  /\ PoisonedIsSealed
  /\ stateLock = Poisoned => mkLock = Poisoned

(* A step of a thread that stays outside unseal and seal, holds no mutex   *)
(* and leaves the handle alone.                                            *)
LEMMA OutsideKeepsLocks ==
  ASSUME TypeInv, LockInv, NEW p \in Procs, NEW s, s \notin LifeSteps \cup UseSteps,
         pc[p] \notin LifeSteps \cup UseSteps, pc' = [pc EXCEPT ![p] = s], UNCHANGED ram
  PROVE  LockInv'
<1>1. \A q \in Procs : \/ pc'[q] = pc[q]
                       \/ /\ pc'[q] \notin LifeSteps \cup UseSteps
                          /\ pc[q] \notin LifeSteps \cup UseSteps
  BY DEF TypeInv, TypeOK
<1>2. Holders'
  BY <1>1 DEF LockInv, Holders, ram, LifeSteps, KeySteps, UseSteps
<1>3. \A q \in Procs : AtSection(q)'
  BY <1>1 DEF LockInv, AtSection, ram, LifeSteps
<1>4. BetweenAssignments => BetweenAssignments'
  BY <1>1 DEF BetweenAssignments, LifeSteps
<1>5. QED
  BY <1>2, <1>3, <1>4 DEF LockInv, Agree, PoisonedIsSealed, ram

(* put and get take the key mutex for the section that uses the key. *)
LEMMA TakeKeyKeepsLocks ==
  ASSUME TypeInv, LockInv, NEW p \in Procs, NEW s \in UseSteps, mkLock = Free, mkLock' = p,
         pc[p] \notin LifeSteps \cup UseSteps, pc' = [pc EXCEPT ![p] = s],
         UNCHANGED <<state, stateLock, master>>
  PROVE  LockInv'
<1> USE LockAssumption DEF LifeSteps, KeySteps, UseSteps
<1>1. pc'[p] = s /\ \A q \in Procs : q # p => pc'[q] = pc[q]
  BY DEF TypeInv, TypeOK
<1>2. Holders'
  <2>1. \A q \in Procs : pc[q] \notin KeySteps \cup UseSteps
    BY DEF LockInv, Holders
  <2>2. \A q \in Procs : stateLock = q <=> pc[q] \in LifeSteps
    BY DEF LockInv, Holders
  <2>3. QED
    BY <1>1, <2>1, <2>2 DEF Holders
<1>3. \A q \in Procs : AtSection(q)'
  BY <1>1 DEF LockInv, AtSection
<1>4. BetweenAssignments => BetweenAssignments'
  BY <1>1 DEF BetweenAssignments
<1>5. PoisonedIsSealed' /\ stateLock # Poisoned
  BY DEF LockInv, PoisonedIsSealed
<1>6. ~BetweenAssignments => Agree
  BY DEF LockInv
<1>7. QED
  BY <1>2, <1>3, <1>4, <1>5, <1>6 DEF LockInv, Agree

(* The thread in that section drops the mutex, or poisons it because there *)
(* is no key.  Nobody is inside unseal or seal past its second lock then,  *)
(* so word and key agree and the handle is sealed.                         *)
LEMMA UseKeyKeepsLocks ==
  ASSUME TypeInv, LockInv, NEW p \in Procs, NEW s, s \notin LifeSteps \cup UseSteps,
         pc[p] \in UseSteps, pc' = [pc EXCEPT ![p] = s],
         mkLock' = Free \/ (master = NoKey /\ mkLock' = Poisoned),
         UNCHANGED <<state, stateLock, master>>
  PROVE  LockInv'
<1> USE LockAssumption DEF LifeSteps, KeySteps, UseSteps
<1>1. pc'[p] = s /\ \A q \in Procs : q # p => pc'[q] = pc[q]
  BY DEF TypeInv, TypeOK
<1>2. mkLock = p /\ \A q \in Procs : q # p => pc[q] \notin KeySteps \cup UseSteps
  BY DEF LockInv, Holders
<1>3. ~BetweenAssignments
  BY <1>2 DEF BetweenAssignments
<1>4. Agree /\ Agree'
  BY <1>3 DEF LockInv, Agree
<1>5. Holders'
  <2>1. \A q \in Procs : stateLock = q <=> pc[q] \in LifeSteps
    BY DEF LockInv, Holders
  <2>2. QED
    BY <1>1, <1>2, <2>1 DEF Holders
<1>6. \A q \in Procs : AtSection(q)'
  BY <1>1 DEF LockInv, AtSection
<1>7. stateLock # Poisoned
  BY <1>2 DEF LockInv
<1>8. PoisonedIsSealed'
  BY <1>4, <1>7, KeyAssumption DEF Agree, PoisonedIsSealed, TypeInv, TypeOK
<1>9. QED
  BY <1>4, <1>5, <1>6, <1>7, <1>8 DEF LockInv

LEMMA WithKeyKeepsLocks ==
  ASSUME TypeInv, LockInv, NEW p \in Procs, NEW s, NEW a, s \notin LifeSteps \cup UseSteps,
         pc[p] \in UseSteps, WithKey(p, Goto(p, s, a))
  PROVE  LockInv'
<1>1. \E t : /\ t \notin LifeSteps \cup UseSteps
             /\ pc' = [pc EXCEPT ![p] = t]
             /\ mkLock' = Free \/ (master = NoKey /\ mkLock' = Poisoned)
  BY WithKeyCases DEF Goto, Panic, LifeSteps, UseSteps
<1>2. UNCHANGED <<state, stateLock, master>>
  BY WithKeyCases
<1>3. QED
  BY <1>1, <1>2, UseKeyKeepsLocks

LEMMA TakesKeyKeepsLocks ==
  ASSUME TypeInv, LockInv, NEW p \in Procs, NEW from, NEW s \in UseSteps,
         from \notin LifeSteps \cup UseSteps, TakeKey(p, from, s)
  PROVE  LockInv'
<1>1. pc[p] \notin LifeSteps \cup UseSteps
  BY TakeKeyCases
<1>2. CASE mkLock = Free /\ mkLock' = p /\ Goto(p, s, arg[p])
  <2>1. UNCHANGED <<state, stateLock, master>> /\ pc' = [pc EXCEPT ![p] = s]
    BY <1>2, TakeKeyCases DEF Goto
  <2>2. QED
    BY <1>1, <1>2, <2>1, TakeKeyKeepsLocks
<1>3. CASE mkLock' = mkLock /\ Panic(p)
  <2>1. UNCHANGED ram /\ pc' = [pc EXCEPT ![p] = "idle"]
    BY <1>3, TakeKeyCases DEF Panic, ram
  <2>2. QED
    BY <1>1, <2>1, OutsideKeepsLocks DEF LifeSteps, UseSteps
<1>4. QED
  BY <1>2, <1>3, TakeKeyCases

LEMMA DataCallsKeepLocks ==
  ASSUME TypeInv, LockInv, NEW p \in Procs,
         \/ EntryPanics(p) \/ BackendError(p)
         \/ \E n \in Names, x \in Values : PutCheck(p, n, x)
         \/ PutKey(p) \/ PutEncrypt(p) \/ PutVersion(p) \/ PutInsert(p) \/ PutAudit(p)
         \/ \E n \in Names : GetCheck(p, n)
         \/ GetRead(p) \/ GetKey(p) \/ GetDecrypt(p) \/ GetAudit(p)
  PROVE  LockInv'
<1> USE DEF LifeSteps, UseSteps, Return
<1>1. ASSUME NEW s, s \notin LifeSteps \cup UseSteps, NEW a, Goto(p, s, a) \/ Panic(p),
             pc[p] \notin LifeSteps \cup UseSteps, UNCHANGED ram
      PROVE  LockInv'
  BY <1>1, OutsideKeepsLocks DEF Goto, Panic
<1>2. CASE EntryPanics(p) \/ BackendError(p)
  BY <1>1, <1>2 DEF EntryPanics, BackendError
<1>3. ASSUME NEW n \in Names, NEW x \in Values, PutCheck(p, n, x) PROVE LockInv'
  BY <1>1, <1>3 DEF PutCheck, RequireActive
<1>4. CASE PutEncrypt(p)
  BY <1>4, WithKeyKeepsLocks DEF PutEncrypt
<1>5. CASE PutVersion(p)
  BY <1>1, <1>5 DEF PutVersion
<1>6. CASE PutInsert(p)
  BY <1>1, <1>6 DEF PutInsert
<1>7. CASE PutAudit(p) \/ GetAudit(p)
  BY <1>1, <1>7 DEF PutAudit, GetAudit, DataAudit
<1>8. ASSUME NEW n \in Names, GetCheck(p, n) PROVE LockInv'
  BY <1>1, <1>8 DEF GetCheck, RequireActive
<1>9. CASE GetRead(p)
  BY <1>1, <1>9 DEF GetRead
<1>10. CASE GetDecrypt(p)
  <2>1. \/ WithKey(p, Goto(p, "get_audit", [name |-> arg[p].name, version |-> arg[p].version]))
        \/ WithKey(p, Goto(p, "idle", NoArg))
    BY <1>10 DEF GetDecrypt, WithKey, Return
  <2>2. QED
    BY <1>10, <2>1, WithKeyKeepsLocks DEF GetDecrypt
<1>11. CASE PutKey(p) \/ GetKey(p)
  BY <1>11, TakesKeyKeepsLocks DEF PutKey, GetKey
<1>12. QED
  BY <1>2, <1>3, <1>4, <1>5, <1>6, <1>7, <1>8, <1>9, <1>10, <1>11

(* A step of the thread inside unseal or seal decides the whole invariant. *)
LEMMA MoverDecides ==
  ASSUME TypeInv, LockInv, NEW p \in Procs, NEW s \in LifeSteps \cup {"idle"},
         pc' = [pc EXCEPT ![p] = s],
         \A q \in Procs : q # p => pc[q] \notin LifeSteps,
         stateLock' = IF s \in LifeSteps THEN p ELSE stateLock',
         stateLock' \in {p, Free, Poisoned}, stateLock' = p => s \in LifeSteps,
         mkLock' = p <=> s \in KeySteps,
         \A q \in Procs : q # p => (mkLock' = q <=> pc[q] \in UseSteps),
         AtSection(p)',
         s \notin {"unseal_state", "seal_state"} => Agree',
         PoisonedIsSealed',
         stateLock' = Poisoned => mkLock' = Poisoned
  PROVE  LockInv'
<1>1. pc'[p] = s /\ \A q \in Procs : q # p => pc'[q] = pc[q]
  BY DEF TypeInv, TypeOK
<1>2. Holders'
  BY <1>1, LockAssumption DEF Holders, LifeSteps, KeySteps, UseSteps
<1>3. \A q \in Procs : AtSection(q)'
  BY <1>1 DEF AtSection, LifeSteps
<1>4. ~BetweenAssignments' => s \notin {"unseal_state", "seal_state"}
  BY <1>1 DEF BetweenAssignments
<1>5. QED
  BY <1>2, <1>3, <1>4 DEF LockInv

LEMMA LifecycleKeepsLocks ==
  ASSUME TypeInv, LockInv, NEW p \in Lifecycle, LifecycleBegins(p) \/ LifecycleContinues(p)
  PROVE  LockInv'
<1> p \in Procs
  BY DEF Procs
<1> USE LockAssumption, KeyAssumption DEF LifeSteps, KeySteps, UseSteps
<1>0. \A s : pc' = [pc EXCEPT ![p] = s] => pc'[p] = s
  BY DEF TypeInv, TypeOK
<1>a. ASSUME stateLock \in {Free, p} PROVE \A q \in Procs : q # p => pc[q] \notin LifeSteps
  BY <1>a DEF LockInv, Holders
<1>b. pc[p] \in LifeSteps => stateLock = p
  BY DEF LockInv, Holders
<1>c. stateLock \in {Free, p} /\ pc[p] \notin {"unseal_state", "seal_state"} => Agree
  BY <1>a DEF LockInv, BetweenAssignments
<1>d. stateLock \in {Free, p} => \A q \in Procs : q # p => (mkLock = q <=> pc[q] \in UseSteps)
  BY <1>a DEF LockInv, Holders
<1>e. pc[p] \notin KeySteps \cup UseSteps => mkLock # p
  BY DEF LockInv, Holders
<1>f. mkLock \in {Free, p} => \A q \in Procs : q # p => pc[q] \notin UseSteps
  BY DEF LockInv, Holders
<1>1. CASE UnsealBadKey(p) \/ EntryPanics(p)
  BY <1>1, OutsideKeepsLocks DEF UnsealBadKey, EntryPanics, Return, Goto, Panic
<1>2. ASSUME NEW k \in Keys, UnsealLock(p, k) PROVE LockInv'
  <2>1. CASE state = "Active"
    BY <1>2, <2>1, OutsideKeepsLocks DEF UnsealLock, Return, Goto, ram
  <2>2. CASE state # "Active"
    <3>1. /\ pc' = [pc EXCEPT ![p] = "unseal_key"] /\ stateLock' = p
          /\ stateLock = Free /\ pc[p] = "idle" /\ UNCHANGED <<state, master, mkLock>>
      BY <1>2, <2>2 DEF UnsealLock, Goto
    <3>2. Agree' /\ mkLock' # p /\ state = "Sealed"
      BY <1>c, <1>e, <2>2, <3>1 DEF Agree, TypeInv, TypeOK
    <3>3. PoisonedIsSealed'
      BY <3>1 DEF LockInv, PoisonedIsSealed
    <3>4. AtSection(p)'
      BY <1>0, <3>1, <3>2 DEF AtSection
    <3>5. QED
      BY <1>a, <1>d, <3>1, <3>2, <3>3, <3>4, MoverDecides
  <2>3. QED
    BY <2>1, <2>2
<1>3. CASE SealLock(p)
  <2>1. /\ pc' = [pc EXCEPT ![p] = "seal_key"] /\ stateLock' = p
        /\ stateLock = Free /\ pc[p] = "idle" /\ UNCHANGED <<state, master, mkLock>>
    BY <1>3 DEF SealLock, Goto
  <2>2. Agree' /\ mkLock' # p
    BY <1>c, <1>e, <2>1 DEF Agree
  <2>3. PoisonedIsSealed'
    BY <2>1 DEF LockInv, PoisonedIsSealed
  <2>4. AtSection(p)'
    BY <1>0, <2>1 DEF AtSection
  <2>5. QED
    BY <1>a, <1>d, <2>1, <2>2, <2>3, <2>4, MoverDecides
<1>4. ASSUME NEW key, NEW next \in {"unseal_state", "seal_state"}, LockKey(p, key, next),
             pc[p] \in {"unseal_key", "seal_key"},
             next = "unseal_state" => pc[p] = "unseal_key" /\ key \in Keys,
             next = "seal_state" => pc[p] = "seal_key" /\ key = NoKey
      PROVE  LockInv'
  <2>1. stateLock = p
    BY <1>4, <1>b
  <2>2. CASE mkLock = Free
    <3>1. /\ pc' = [pc EXCEPT ![p] = next] /\ mkLock' = p /\ master' = key
          /\ UNCHANGED <<state, stateLock>>
      BY <1>4, <2>2 DEF LockKey, Goto
    <3>2. AtSection(p)'
      BY <1>0, <1>4, <3>1 DEF AtSection, LockInv
    <3>3. PoisonedIsSealed'
      BY <2>1, <3>1 DEF PoisonedIsSealed
    <3>4. QED
      BY <1>a, <1>f, <2>1, <2>2, <3>1, <3>2, <3>3, MoverDecides
  <2>3. CASE mkLock = Poisoned
    <3>1. /\ pc' = [pc EXCEPT ![p] = "idle"] /\ stateLock' = Poisoned
          /\ UNCHANGED <<state, master, mkLock>>
      BY <1>4, <2>3 DEF LockKey, Panic
    <3>2. AtSection(p)'
      BY <1>0, <3>1 DEF AtSection
    <3>3. PoisonedIsSealed' /\ Agree'
      BY <1>4, <1>c, <2>1, <2>3, <3>1 DEF LockInv, PoisonedIsSealed, Agree
    <3>4. QED
      BY <1>a, <1>d, <2>1, <2>3, <3>1, <3>2, <3>3, MoverDecides
  <2>4. QED
    BY <1>4, <2>2, <2>3 DEF LockKey
<1>5. CASE UnsealKey(p)
  <2>1. arg[p] \in Keys
    BY <1>5 DEF UnsealKey, TypeInv, TypeOK, ArgTyped
  <2>2. QED
    BY <1>4, <1>5, <2>1 DEF UnsealKey
<1>6. CASE SealKey(p)
  BY <1>4, <1>6 DEF SealKey
<1>7. CASE UnsealState(p) \/ SealState(p)
  <2>1. stateLock = p /\ mkLock = p
    BY <1>7 DEF UnsealState, SealState, SetState, LockInv, Holders
  <2>2. UNCHANGED <<stateLock, master, mkLock>>
    BY <1>7 DEF UnsealState, SealState, SetState
  <2>3. \/ /\ pc' = [pc EXCEPT ![p] = "unseal_audit"] /\ state' = "Active" /\ master \in Keys
        \/ /\ pc' = [pc EXCEPT ![p] = "seal_audit"] /\ state' = "Sealed" /\ master = NoKey
    BY <1>7 DEF UnsealState, SealState, SetState, Goto, LockInv, AtSection
  <2>4. AtSection(p)' /\ Agree'
    BY <1>0, <2>2, <2>3 DEF AtSection, Agree
  <2>5. PoisonedIsSealed'
    BY <2>1, <2>2 DEF PoisonedIsSealed
  <2>6. QED
    BY <1>a, <1>f, <2>1, <2>2, <2>3, <2>4, <2>5, MoverDecides
<1>8. CASE UnsealFinish(p) \/ SealFinish(p)
  <2>1. /\ pc' = [pc EXCEPT ![p] = "idle"] /\ stateLock' = Free /\ mkLock' = Free
        /\ UNCHANGED <<state, master>>
    BY <1>8 DEF UnsealFinish, SealFinish, Finish, Return, Goto
  <2>2. Agree'
    BY <1>8, <2>1 DEF UnsealFinish, SealFinish, Finish, LockInv, AtSection, Agree
  <2>3. AtSection(p)' /\ PoisonedIsSealed'
    BY <1>0, <2>1 DEF AtSection, PoisonedIsSealed
  <2>4. \A q \in Procs : q # p => pc[q] \notin LifeSteps
    BY <1>8, <1>a, <1>b DEF UnsealFinish, SealFinish, Finish
  <2>5. \A q \in Procs : q # p => pc[q] \notin UseSteps
    BY <1>8, <1>f DEF UnsealFinish, SealFinish, Finish, LockInv, Holders
  <2>6. QED
    BY <2>1, <2>2, <2>3, <2>4, <2>5, MoverDecides
<1>9. QED
  BY <1>1, <1>2, <1>3, <1>5, <1>6, <1>7, <1>8 DEF LifecycleBegins, LifecycleContinues

LEMMA LockInvariance == Spec => []LockInv
<1>1. Init => LockInv
  BY LockAssumption, KeyAssumption
  DEF Init, LockInv, Holders, AtSection, BetweenAssignments, Agree, PoisonedIsSealed,
      LifeSteps, KeySteps, UseSteps
<1>2. TypeInv /\ LockInv /\ [Next]_vars => LockInv'
  <2> SUFFICES ASSUME TypeInv, LockInv, [Next]_vars PROVE LockInv'
    OBVIOUS
  <2>1. CASE Crash
    BY <2>1, LockAssumption, KeyAssumption
    DEF Crash, LockInv, Holders, AtSection, BetweenAssignments, Agree, PoisonedIsSealed,
        LifeSteps, KeySteps, UseSteps
  <2>2. CASE UNCHANGED vars
    BY <2>2 DEF vars, LockInv, Holders, AtSection, BetweenAssignments, Agree, PoisonedIsSealed
  <2>3. ASSUME NEW p \in Writers, WriterBegins(p) \/ WriterContinues(p) PROVE LockInv'
    BY <2>3, DataCallsKeepLocks DEF WriterBegins, WriterContinues, Procs
  <2>4. ASSUME NEW p \in Readers, ReaderBegins(p) \/ ReaderContinues(p) PROVE LockInv'
    BY <2>4, DataCallsKeepLocks DEF ReaderBegins, ReaderContinues, Procs
  <2>5. QED
    BY <2>1, <2>2, <2>3, <2>4, LifecycleKeepsLocks DEF Next
<1>3. QED
  BY <1>1, <1>2, TypeInvariance, PTL DEF Spec

(* Whoever can take the state mutex finds word and key in agreement,       *)
(* however many threads unseal, seal, put and get at once and whichever of *)
(* them panic.                                                             *)
THEOREM KeyTracksStateHolds == Spec => []KeyTracksState
<1>1. TypeInv /\ LockInv => KeyTracksState
  <2> SUFFICES ASSUME TypeInv, LockInv, stateLock \in {Free, Poisoned} PROVE Agree
    BY DEF KeyTracksState, Agree
  <2>1. ~BetweenAssignments
    BY LockAssumption DEF LockInv, Holders, BetweenAssignments, LifeSteps
  <2>2. QED
    BY <2>1 DEF LockInv
<1>2. QED
  BY <1>1, TypeInvariance, LockInvariance, PTL

(* A panic can make the handle useless but never leaves a key in it. *)
THEOREM PoisonedIsSealedHolds == Spec => []PoisonedIsSealed
<1>1. LockInv => PoisonedIsSealed
  BY DEF LockInv
<1>2. QED
  BY <1>1, LockInvariance, PTL

-----------------------------------------------------------------------------
(* Versions, the audit log and the refinement.  What a step can do to the  *)
(* tables and to what the calls in progress carry, in one place.           *)

Carrying == {"put_insert", "put_audit", "get_key", "get_decrypt", "get_audit"}

Moves(q) ==
  \/ pc'[q] = pc[q] /\ arg'[q] = arg[q]
  \/ pc'[q] \notin Carrying
  \/ /\ pc'[q] = "put_insert" /\ arg'[q].name \in Names
     /\ arg'[q].version = NextVersion(arg'[q].name)
  \/ /\ pc'[q] = "put_audit" /\ pc[q] = "put_insert"
     /\ arg'[q] = [name |-> arg[q].name, version |-> arg[q].version]
     /\ kv' = kv \cup {arg[q]}
  \/ pc'[q] = "get_key" /\ arg'[q] \in kv
  \/ pc'[q] = "get_decrypt" /\ pc[q] = "get_key" /\ arg'[q] = arg[q]
  \/ /\ pc'[q] = "get_audit" /\ pc[q] = "get_decrypt"
     /\ arg'[q] = [name |-> arg[q].name, version |-> arg[q].version]

Stores ==
  \/ kv' = kv
  \/ \E p \in Procs : /\ pc[p] = "put_insert"
                      /\ ~Conflicts(arg[p].name, arg[p].version)
                      /\ kv' = kv \cup {arg[p]}

Logs ==
  \/ auditLog' = auditLog
  \/ \E ev \in {"unseal", "seal"} : auditLog' = auditLog \cup {Logged(ev, NoName, 0)}
  \/ \E p \in Procs, ev \in {"put", "get"} :
        /\ pc[p] \in {"put_audit", "get_audit"}
        /\ auditLog' = auditLog \cup {Logged(ev, arg[p].name, arg[p].version)}

StepShape == Stores /\ Logs /\ \A q \in Procs : Moves(q)

(* A thread that moves moves alone. *)
LEMMA MovesAlone ==
  ASSUME TypeInv, NEW p \in Procs, NEW s, NEW a,
         pc' = [pc EXCEPT ![p] = s], arg' = [arg EXCEPT ![p] = a],
         (pc'[p] = s /\ arg'[p] = a) => Moves(p)
  PROVE  \A q \in Procs : Moves(q)
<1>1. pc'[p] = s /\ arg'[p] = a
  BY DEF TypeInv, TypeOK
<1>2. ASSUME NEW q \in Procs, q # p PROVE Moves(q)
  BY <1>2 DEF TypeInv, TypeOK, Moves
<1>3. QED
  BY <1>1, <1>2

LEMMA ToOther ==
  ASSUME TypeInv, NEW p \in Procs, NEW s, NEW a, s \notin Carrying,
         Goto(p, s, a) \/ Panic(p)
  PROVE  \A q \in Procs : Moves(q)
<1>1. CASE Goto(p, s, a)
  BY <1>1, MovesAlone DEF Goto, Moves
<1>2. CASE Panic(p)
  BY <1>2, MovesAlone DEF Panic, Moves, Carrying
<1>3. QED
  BY <1>1, <1>2

LEMMA LifecycleShape ==
  ASSUME TypeInv, NEW p \in Lifecycle, LifecycleBegins(p) \/ LifecycleContinues(p)
  PROVE  StepShape
<1> p \in Procs
  BY DEF Procs
<1> USE DEF disk
<1>1. Stores
  BY DEF LifecycleBegins, LifecycleContinues, UnsealBadKey, UnsealLock, SealLock, EntryPanics,
     UnsealKey, SealKey, LockKey, UnsealState, SealState, SetState, UnsealFinish, SealFinish,
     Finish, Stores
<1>2. Logs
  <2>1. CASE LifecycleBegins(p)
    BY <2>1 DEF LifecycleBegins, UnsealBadKey, UnsealLock, SealLock, EntryPanics, Logs
  <2>2. CASE UnsealKey(p) \/ SealKey(p) \/ UnsealState(p) \/ SealState(p)
    BY <2>2 DEF UnsealKey, SealKey, LockKey, UnsealState, SealState, SetState, Logs
  <2>3. CASE UnsealFinish(p) \/ SealFinish(p)
    BY <2>3 DEF UnsealFinish, SealFinish, Finish, AppendAudit, Logs
  <2>4. QED
    BY <2>1, <2>2, <2>3 DEF LifecycleContinues
<1>3. \E s \in LifeSteps \cup {"idle"}, a \in Keys \cup {NoArg} : Goto(p, s, a) \/ Panic(p)
  BY DEF LifecycleBegins, LifecycleContinues, UnsealBadKey, UnsealLock, SealLock, EntryPanics,
     UnsealKey, SealKey, LockKey, UnsealState, SealState, SetState, UnsealFinish, SealFinish,
     Finish, Return, LifeSteps
<1>4. \A q \in Procs : Moves(q)
  BY <1>3, ToOther DEF LifeSteps, Carrying
<1>5. QED
  BY <1>1, <1>2, <1>4 DEF StepShape

LEMMA WriterShape ==
  ASSUME TypeInv, NEW p \in Writers, WriterBegins(p) \/ WriterContinues(p)
  PROVE  StepShape
<1> p \in Procs
  BY DEF Procs
<1> USE DEF Return, disk
<1>a. ASSUME UNCHANGED <<kv, auditLog>>, NEW s, NEW a, s \notin Carrying, Goto(p, s, a) \/ Panic(p)
      PROVE  StepShape
  BY <1>a, ToOther DEF StepShape, Stores, Logs
<1>1. CASE EntryPanics(p) \/ BackendError(p)
  BY <1>1, <1>a DEF EntryPanics, BackendError, Carrying
<1>2. ASSUME NEW n \in Names, NEW x \in Values, PutCheck(p, n, x) PROVE StepShape
  BY <1>2, <1>a DEF PutCheck, RequireActive, Carrying
<1>3. CASE PutEncrypt(p)
  <2> DEFINE a == [name |-> arg[p].name, value |-> arg[p].value, key |-> master]
  <2>1. WithKey(p, Goto(p, "put_version", a))
    BY <1>3 DEF PutEncrypt
  <2>2. UNCHANGED <<kv, auditLog>> /\ (Goto(p, "put_version", a) \/ Panic(p))
    <3> HIDE DEF a
    <3> QED BY <2>1, WithKeyCases
  <2>3. QED
    <3> HIDE DEF a
    <3> QED BY <1>a, <2>2 DEF Carrying
<1>4. CASE PutVersion(p)
  <2>1. arg[p].name \in Names
    BY <1>4 DEF PutVersion, TypeInv, TypeOK, ArgTyped
  <2> DEFINE a == [name |-> arg[p].name, version |-> NextVersion(arg[p].name),
                   value |-> arg[p].value, key |-> arg[p].key]
  <2>2. a.name \in Names /\ a.version = NextVersion(a.name)
    BY <2>1
  <2>3. pc' = [pc EXCEPT ![p] = "put_insert"] /\ arg' = [arg EXCEPT ![p] = a]
    BY <1>4 DEF PutVersion, Goto
  <2>4. \A q \in Procs : Moves(q)
    <3> HIDE DEF a
    <3> QED BY <2>2, <2>3, MovesAlone DEF Moves
  <2>5. QED
    BY <1>4, <2>4 DEF PutVersion, StepShape, Stores, Logs
<1>5. CASE PutInsert(p)
  <2>1. CASE Conflicts(arg[p].name, arg[p].version)
    BY <1>5, <1>a, <2>1 DEF PutInsert, Carrying
  <2>2. CASE ~Conflicts(arg[p].name, arg[p].version)
    <3>1. /\ pc[p] = "put_insert"
          /\ kv' = kv \cup {arg[p]} /\ auditLog' = auditLog
          /\ pc' = [pc EXCEPT ![p] = "put_audit"]
          /\ arg' = [arg EXCEPT ![p] = [name |-> arg[p].name, version |-> arg[p].version]]
      BY <1>5, <2>2 DEF PutInsert, Goto
    <3>2. \A q \in Procs : Moves(q)
      BY <3>1, MovesAlone DEF Moves
    <3>3. Stores
      BY <2>2, <3>1 DEF Stores
    <3>4. QED
      BY <3>1, <3>2, <3>3 DEF StepShape, Logs
  <2>3. QED
    BY <2>1, <2>2
<1>6. CASE PutAudit(p)
  <2>1. \A q \in Procs : Moves(q)
    BY <1>6, ToOther DEF PutAudit, DataAudit, Carrying
  <2>2. Logs
    BY <1>6 DEF PutAudit, DataAudit, AppendAudit, Logs
  <2>3. QED
    BY <1>6, <2>1, <2>2 DEF PutAudit, DataAudit, StepShape, Stores
<1>7. CASE PutKey(p)
  <2>1. UNCHANGED <<kv, auditLog>> /\ (Goto(p, "put_encrypt", arg[p]) \/ Panic(p))
    BY <1>7, TakeKeyCases DEF PutKey
  <2>2. QED
    BY <1>a, <2>1 DEF Carrying
<1>8. QED
  BY <1>1, <1>2, <1>3, <1>4, <1>5, <1>6, <1>7 DEF WriterBegins, WriterContinues

LEMMA ReaderShape ==
  ASSUME TypeInv, NEW p \in Readers, ReaderBegins(p) \/ ReaderContinues(p)
  PROVE  StepShape
<1> p \in Procs
  BY DEF Procs
<1> USE DEF Return, disk
<1>a. ASSUME UNCHANGED <<kv, auditLog>>, NEW s, NEW a, s \notin Carrying, Goto(p, s, a) \/ Panic(p)
      PROVE  StepShape
  BY <1>a, ToOther DEF StepShape, Stores, Logs
<1>1. CASE EntryPanics(p) \/ BackendError(p)
  BY <1>1, <1>a DEF EntryPanics, BackendError, Carrying
<1>2. ASSUME NEW n \in Names, GetCheck(p, n) PROVE StepShape
  BY <1>2, <1>a DEF GetCheck, RequireActive, Carrying
<1>3. CASE GetRead(p)
  <2>1. CASE Versions(arg[p].name) = {}
    BY <1>3, <1>a, <2>1 DEF GetRead, Carrying
  <2>2. CASE Versions(arg[p].name) # {}
    <3>1. arg[p].name \in Names
      BY <1>3 DEF GetRead, TypeInv, TypeOK, ArgTyped
    <3>2. LatestRow(arg[p].name) \in kv
      BY <2>2, <3>1, LatestRowFact
    <3>3. /\ pc' = [pc EXCEPT ![p] = "get_key"]
          /\ arg' = [arg EXCEPT ![p] = LatestRow(arg[p].name)]
      BY <1>3, <2>2 DEF GetRead, Goto
    <3>4. \A q \in Procs : Moves(q)
      BY <3>2, <3>3, MovesAlone DEF Moves
    <3>5. QED
      BY <1>3, <3>4 DEF GetRead, StepShape, Stores, Logs
  <2>3. QED
    BY <2>1, <2>2
<1>4. CASE GetDecrypt(p)
  <2> DEFINE a == [name |-> arg[p].name, version |-> arg[p].version]
  <2>1. WithKey(p, Goto(p, "get_audit", a)) \/ WithKey(p, Goto(p, "idle", NoArg))
    BY <1>4 DEF GetDecrypt, WithKey
  <2>2. UNCHANGED <<kv, auditLog>> /\ (Goto(p, "get_audit", a) \/ Goto(p, "idle", NoArg) \/ Panic(p))
    <3> HIDE DEF a
    <3> QED BY <2>1, WithKeyCases
  <2>3. CASE Goto(p, "get_audit", a)
    <3>1. pc' = [pc EXCEPT ![p] = "get_audit"] /\ arg' = [arg EXCEPT ![p] = a]
          /\ pc[p] = "get_decrypt"
      BY <1>4, <2>3 DEF Goto, GetDecrypt
    <3>2. \A q \in Procs : Moves(q)
      BY <3>1, MovesAlone DEF Moves
    <3>3. QED
      BY <2>2, <3>2 DEF StepShape, Stores, Logs
  <2>4. QED
    BY <1>a, <2>2, <2>3 DEF Carrying
<1>5. CASE GetAudit(p)
  <2>1. \A q \in Procs : Moves(q)
    BY <1>5, ToOther DEF GetAudit, DataAudit, Carrying
  <2>2. Logs
    BY <1>5 DEF GetAudit, DataAudit, AppendAudit, Logs
  <2>3. QED
    BY <1>5, <2>1, <2>2 DEF GetAudit, DataAudit, StepShape, Stores
<1>6. CASE GetKey(p)
  <2>1. /\ UNCHANGED <<kv, auditLog>> /\ pc[p] = "get_key"
        /\ Goto(p, "get_decrypt", arg[p]) \/ Panic(p)
    BY <1>6, TakeKeyCases DEF GetKey
  <2>2. CASE Goto(p, "get_decrypt", arg[p])
    <3>1. pc' = [pc EXCEPT ![p] = "get_decrypt"] /\ arg' = [arg EXCEPT ![p] = arg[p]]
      BY <2>2 DEF Goto
    <3>2. \A q \in Procs : Moves(q)
      BY <2>1, <3>1, MovesAlone DEF Moves
    <3>3. QED
      BY <2>1, <3>2 DEF StepShape, Stores, Logs
  <2>3. CASE Panic(p)
    <3>1. "idle" \notin Carrying
      BY DEF Carrying
    <3>2. QED
      BY <1>a, <2>1, <2>3, <3>1
  <2>4. QED
    BY <2>1, <2>2, <2>3
<1>7. QED
  BY <1>1, <1>2, <1>3, <1>4, <1>5, <1>6 DEF ReaderBegins, ReaderContinues

LEMMA NextShape ==
  ASSUME TypeInv, [Next]_vars PROVE StepShape
<1>1. CASE Crash
  BY <1>1 DEF Crash, disk, StepShape, Stores, Logs, Moves, Carrying
<1>2. CASE UNCHANGED vars
  BY <1>2 DEF vars, StepShape, Stores, Logs, Moves
<1>3. QED
  BY <1>1, <1>2, LifecycleShape, WriterShape, ReaderShape DEF Next

(* Rows are never removed; what a call in progress carries stays true of   *)
(* the table: a put about to insert has no gap below its version, a call   *)
(* about to log names a stored version.                                    *)
Pending(p) ==
  /\ pc[p] = "put_insert" =>
       \A v \in 1 .. (arg[p].version - 1) : v \in Versions(arg[p].name)
  /\ pc[p] \in {"put_audit", "get_audit"} => arg[p].version \in Versions(arg[p].name)
  /\ pc[p] \in {"get_key", "get_decrypt"} => arg[p] \in kv

TableInv == VersionsContiguous /\ AuditIsTruthful /\ \A p \in Procs : Pending(p)

LEMMA VersionsGrow ==
  ASSUME StepShape PROVE kv \subseteq kv' /\ \A n : Versions(n) \subseteq Versions(n)'
<1>1. kv \subseteq kv'
  BY DEF StepShape, Stores
<1>2. QED
  BY <1>1 DEF Versions

(* Below the version a put computes every version is stored. *)
LEMMA NextVersionContiguous ==
  ASSUME TypeInv, TableInv, NEW n \in Names
  PROVE  \A v \in 1 .. (NextVersion(n) - 1) : v \in Versions(n)
<1>1. CASE NextVersion(n) = 1
  BY <1>1
<1>2. CASE NextVersion(n) - 1 \in Versions(n)
  <2>1. PICK r \in kv : r.name = n /\ r.version = NextVersion(n) - 1
    BY <1>2 DEF Versions
  <2>2. \A v \in 1 .. r.version : v \in Versions(n)
    BY <2>1 DEF TableInv, VersionsContiguous
  <2>3. QED
    BY <2>1, <2>2
<1>3. QED
  BY <1>1, <1>2, NextVersionFact

LEMMA TableStep ==
  ASSUME TypeInv, TableInv, [Next]_vars PROVE TableInv'
<1>1. StepShape
  BY NextShape
<1>2. kv \subseteq kv' /\ \A n : Versions(n) \subseteq Versions(n)'
  BY <1>1, VersionsGrow
<1>3. VersionsContiguous'
  <2> SUFFICES ASSUME NEW r \in kv', NEW v \in 1 .. r.version PROVE v \in Versions(r.name)'
    BY DEF VersionsContiguous
  <2>1. CASE r \in kv
    BY <1>2, <2>1 DEF TableInv, VersionsContiguous
  <2>2. CASE r \notin kv
    <3>1. PICK p \in Procs : pc[p] = "put_insert" /\ r = arg[p]
      BY <1>1, <2>2 DEF StepShape, Stores
    <3>2. r.version \in Nat
      BY <3>1 DEF TypeInv, TypeOK, ArgTyped, KvRow
    <3>3. CASE v = r.version
      BY <3>3 DEF Versions
    <3>4. CASE v # r.version
      <4>1. v \in 1 .. (r.version - 1)
        BY <3>2, <3>4
      <4>2. v \in Versions(r.name)
        BY <3>1, <4>1 DEF TableInv, Pending
      <4>3. QED
        BY <1>2, <4>2
    <3>5. QED
      BY <3>3, <3>4
  <2>3. QED
    BY <2>1, <2>2
<1>4. AuditIsTruthful'
  <2> SUFFICES ASSUME NEW l \in auditLog', l.event \in {"put", "get"}
               PROVE  l.version \in Versions(l.name)'
    BY DEF AuditIsTruthful
  <2>1. CASE l \in auditLog
    BY <1>2, <2>1 DEF TableInv, AuditIsTruthful
  <2>2. CASE l \notin auditLog
    <3>1. PICK p \in Procs : /\ pc[p] \in {"put_audit", "get_audit"}
                             /\ l.name = arg[p].name /\ l.version = arg[p].version
      BY <1>1, <2>2 DEF StepShape, Logs, Logged
    <3>2. l.version \in Versions(l.name)
      BY <3>1 DEF TableInv, Pending
    <3>3. QED
      BY <1>2, <3>2
  <2>3. QED
    BY <2>1, <2>2
<1>5. ASSUME NEW q \in Procs PROVE Pending(q)'
  <2> USE DEF Carrying
  <2>1. Moves(q) /\ Pending(q)
    BY <1>1 DEF StepShape, TableInv
  <2>2. CASE pc'[q] = pc[q] /\ arg'[q] = arg[q]
    BY <1>2, <2>1, <2>2 DEF Pending
  <2>3. CASE pc'[q] \notin Carrying
    BY <2>3 DEF Pending
  <2>4. CASE /\ pc'[q] = "put_insert" /\ arg'[q].name \in Names
             /\ arg'[q].version = NextVersion(arg'[q].name)
    <3>1. \A v \in 1 .. (arg'[q].version - 1) : v \in Versions(arg'[q].name)
      BY <2>4, NextVersionContiguous
    <3>2. \A v \in 1 .. (arg'[q].version - 1) : v \in Versions(arg[q].name)'
      BY <3>1, <1>1 DEF StepShape, Stores, Versions
    <3>3. QED
      BY <2>4, <3>2 DEF Pending
  <2>5. CASE /\ pc'[q] = "put_audit"
             /\ arg'[q] = [name |-> arg[q].name, version |-> arg[q].version]
             /\ kv' = kv \cup {arg[q]}
    BY <2>5 DEF Pending, Versions
  <2>6. CASE pc'[q] = "get_key" /\ arg'[q] \in kv
    BY <1>2, <2>6 DEF Pending
  <2>7. CASE /\ pc'[q] = "get_audit" /\ pc[q] = "get_decrypt"
             /\ arg'[q] = [name |-> arg[q].name, version |-> arg[q].version]
    BY <1>2, <2>1, <2>7 DEF Pending, Versions
  <2>8. CASE pc'[q] = "get_decrypt" /\ pc[q] = "get_key" /\ arg'[q] = arg[q]
    BY <1>2, <2>1, <2>8 DEF Pending
  <2>9. QED
    BY <2>1, <2>2, <2>3, <2>4, <2>5, <2>6, <2>7, <2>8 DEF Moves
<1>6. QED
  BY <1>3, <1>4, <1>5 DEF TableInv

LEMMA TableInvariance == Spec => []TableInv
<1>1. Init => TableInv
  BY DEF Init, TableInv, VersionsContiguous, AuditIsTruthful, Pending
<1>2. TypeInv /\ TableInv /\ [Next]_vars => TableInv'
  BY TableStep
<1>3. QED
  BY <1>1, <1>2, TypeInvariance, PTL DEF Spec

(* Versions have no gaps, for any number of writers, failed statements and *)
(* crashes: the primary key turns a lost race into a refused put.          *)
THEOREM VersionsContiguousHolds == Spec => []VersionsContiguous
<1>1. TableInv => VersionsContiguous
  BY DEF TableInv
<1>2. QED
  BY <1>1, TableInvariance, PTL

(* The audit log only ever names versions that are stored. *)
THEOREM AuditIsTruthfulHolds == Spec => []AuditIsTruthful
<1>1. TableInv => AuditIsTruthful
  BY DEF TableInv
<1>2. QED
  BY <1>1, TableInvariance, PTL

(* The insert adds a row above its name's rows: its version is missing,    *)
(* all lower ones are stored, and there are no gaps.                       *)
LEMMA InsertIsAbove ==
  ASSUME TypeInv, TableInv, NEW p \in Procs, pc[p] = "put_insert",
         ~Conflicts(arg[p].name, arg[p].version), kv' = kv \cup {arg[p]}
  PROVE  VS!AddRow
<1> DEFINE n == arg[p].name
           r == [name |-> n, version |-> arg[p].version, value |-> arg[p].value]
<1>1. arg[p] \in KvRow
  BY DEF TypeInv, TypeOK, ArgTyped
<1>2. r \in VS!Row
  BY <1>1 DEF KvRow, VS!Row
<1>3. \A s \in kv : s.name = n => s.version < arg[p].version
  <2> SUFFICES ASSUME NEW s \in kv, s.name = n PROVE s.version < arg[p].version
    OBVIOUS
  <2>1. s \in KvRow
    BY DEF TypeInv, TypeOK
  <2>2. CASE s.version >= arg[p].version
    <3>1. arg[p].version \in 1 .. s.version
      BY <1>1, <2>1, <2>2 DEF KvRow
    <3>2. arg[p].version \in Versions(n)
      BY <3>1 DEF TableInv, VersionsContiguous
    <3>3. QED
      BY <3>2 DEF Conflicts
  <2>3. QED
    BY <1>1, <2>1, <2>2 DEF KvRow
<1>4. VS!Above(n, arg[p].version)
  BY <1>3 DEF VS!Above, StoredRows
<1>5. r \notin StoredRows
  <2>1. \A s \in kv : s.name = n => s.version # arg[p].version
    BY <1>1, <1>3 DEF KvRow
  <2>2. QED
    BY <2>1 DEF StoredRows
<1>6. StoredRows' = StoredRows \cup {r}
  BY DEF StoredRows
<1>7. r.name = n /\ r.version = arg[p].version
  OBVIOUS
<1>8. QED
  <2> HIDE DEF r, n
  <2> QED BY <1>2, <1>4, <1>5, <1>6, <1>7 DEF VS!AddRow

(* The SQLite vault implements the abstract versioned table whatever the   *)
(* number of writers: no step ever stores a row below another of its name. *)
THEOREM DiskImplementsVersionedStore == Spec => ImplementsVersionedStore
<1>1. Init => VS!Init
  BY DEF Init, StoredRows, VS!Init
<1>2. TypeInv /\ TableInv /\ [Next]_vars => [VS!Next]_StoredRows
  <2> SUFFICES ASSUME TypeInv, TableInv, [Next]_vars
               PROVE  VS!Next \/ UNCHANGED StoredRows
    OBVIOUS
  <2>1. CASE kv' = kv
    BY <2>1 DEF StoredRows
  <2>2. CASE kv' # kv
    BY <2>2, NextShape, InsertIsAbove DEF StepShape, Stores, VS!Next
  <2>3. QED
    BY <2>1, <2>2
<1>3. QED
  BY <1>1, <1>2, TypeInvariance, TableInvariance, PTL DEF Spec, ImplementsVersionedStore, VS!Spec

(* The handle is well typed, and its word and its key agree for whoever    *)
(* can take the state mutex, for any number of threads.                    *)
THEOREM HandleOKHolds == Spec => []HandleOK
<1>1. TypeOK /\ KeyTracksState => HandleOK
  BY DEF HandleOK
<1>2. QED
  BY <1>1, TypeCorrect, KeyTracksStateHolds, PTL

=============================================================================
