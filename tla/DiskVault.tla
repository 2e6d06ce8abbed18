----------------------------- MODULE DiskVault -----------------------------
(***************************************************************************)
(* The SQLite-backed vault DiskVaultHandle                                 *)
(* (lib/cepaf_gleam/native/rusty_vault_nif/src/vault_handle.rs and         *)
(* sqlite_backend.rs): any number of threads call one handle, and the      *)
(* process may crash and open the same database again.                     *)
(*                                                                         *)
(* The handle has two mutexes, over the state word and over the master     *)
(* key.  unseal and seal hold both to their end; put and get take them one *)
(* after the other, and hold the key's while they encrypt or decrypt.  A   *)
(* thread that panics with a mutex in its hands poisons it, and from then  *)
(* on every lock().expect(..) of it panics too.  A panic ends the call,    *)
(* not the thread: the caller may call again.                              *)
(*                                                                         *)
(* Each SQL statement is a transaction on a connection of its own, durable *)
(* when it returns, and may fail (a locked or full database).              *)
(***************************************************************************)
EXTENDS Integers, FiniteSets

CONSTANTS
  Lifecycle,   \* threads that call unseal and seal
  Writers,     \* threads that call put
  Readers,     \* threads that call get_latest
  Names,       \* secret names
  Values,      \* plaintexts
  Keys,        \* 32-byte master keys
  ShortKey,    \* a key of any other length
  NoKey,       \* master_key = None
  Free,        \* a mutex nobody holds
  Poisoned,    \* a mutex whose holder panicked
  NoArg,       \* arg[p] of a thread that is in no call
  MaxVersion,  \* bound: puts start only below this version
  MaxCrashes   \* bound: crashes in a behaviour

Procs == Lifecycle \cup Writers \cup Readers

ASSUME KeyAssumption == NoKey \notin Keys /\ ShortKey \notin Keys
ASSUME LockAssumption == Free \notin Procs /\ Poisoned \notin Procs /\ Free # Poisoned

VARIABLES
  state,      \* Mutex<DiskVaultState>: the word
  stateLock,  \* ... and its holder
  master,     \* Mutex<Option<key>>: the key
  mkLock,     \* ... and its holder
  kv,         \* table kv_entries
  auditLog,   \* table audit_log, as the set of its (event, name, version)
  pc, arg,    \* the next section of each thread's call, what it carries
  panicked,   \* threads a call of which has panicked since the last open
  crashes

ram == <<state, stateLock, master, mkLock>>
disk == <<kv, auditLog>>
vars == <<state, stateLock, master, mkLock, kv, auditLog, pc, arg, panicked, crashes>>

-----------------------------------------------------------------------------
(* Data *)

(* A row of kv_entries: the value is encrypted, so a row is what decrypts  *)
(* to value under key and fails under any other (AES-256-GCM).             *)
KvRow == [name : Names, version : Nat \ {0}, value : Values, key : Keys]

NoName == "none"   \* the "" and 0 unseal and seal log
LogRow == [event : {"put", "get"}, name : Names, version : Nat]
          \cup [event : {"unseal", "seal"}, name : {NoName}, version : {0}]
Logged(ev, n, v) == [event |-> ev, name |-> n, version |-> v]

Versions(n) == {r.version : r \in {s \in kv : s.name = n}}
LatestRow(n) == CHOOSE r \in kv : r.name = n /\ \A v \in Versions(n) : v <= r.version

NextVersionSkips(n) ==
  IF Versions(n) = {} THEN 1 ELSE (CHOOSE v \in Versions(n) : \A u \in Versions(n) : u <= v) + 2

(* versions(name).last() + 1, or 1. *)
NextVersion(n) ==
  IF Versions(n) = {} THEN 1 ELSE (CHOOSE v \in Versions(n) : \A u \in Versions(n) : u <= v) + 1

(* Mutant: no primary key. *)
NeverConflicts(n, v) == FALSE

(* PRIMARY KEY (name, version). *)
Conflicts(n, v) == v \in Versions(n)

-----------------------------------------------------------------------------
(* Control *)

Init ==
  /\ state = "Sealed"
  /\ stateLock = Free
  /\ master = NoKey
  /\ mkLock = Free
  /\ kv = {}
  /\ auditLog = {}
  /\ pc = [p \in Procs |-> "idle"]
  /\ arg = [p \in Procs |-> NoArg]
  /\ panicked = {}
  /\ crashes = 0

Goto(p, step, a) ==
  /\ pc' = [pc EXCEPT ![p] = step]
  /\ arg' = [arg EXCEPT ![p] = a]
  /\ UNCHANGED <<panicked, crashes>>

Return(p) == Goto(p, "idle", NoArg)

Panic(p) ==
  /\ pc' = [pc EXCEPT ![p] = "idle"]
  /\ arg' = [arg EXCEPT ![p] = NoArg]
  /\ panicked' = panicked \cup {p}
  /\ UNCHANGED crashes

(* append_audit: best effort, a failed insert is swallowed. *)
AppendAudit(ev, n, v) ==
  \/ auditLog' = auditLog \cup {Logged(ev, n, v)}
  \/ UNCHANGED auditLog

(* lock().expect(..) of the state mutex as a call's first step.            *)
EntryPanics(p) ==
  /\ pc[p] = "idle"
  /\ stateLock = Poisoned
  /\ Panic(p)
  /\ UNCHANGED <<ram, disk>>

-----------------------------------------------------------------------------
(* unseal and seal: the state mutex, then the key mutex, both held until   *)
(* the audit row is written.                                               *)

UnsealBadKey(p) ==
  /\ pc[p] = "idle"
  /\ Return(p)
  /\ UNCHANGED <<ram, disk>>

(* Mutant: unseal sets the word before it takes the key mutex. *)
UnsealLockEager(p, k) ==
  /\ pc[p] = "idle"
  /\ stateLock = Free
  /\ IF state = "Active"
       THEN Return(p) /\ UNCHANGED <<state, stateLock>>
       ELSE Goto(p, "unseal_key", k) /\ stateLock' = p /\ state' = "Active"
  /\ UNCHANGED <<master, mkLock, disk>>

UnsealLock(p, k) ==
  /\ pc[p] = "idle"
  /\ stateLock = Free
  /\ IF state = "Active"
       THEN Return(p) /\ UNCHANGED stateLock
       ELSE Goto(p, "unseal_key", k) /\ stateLock' = p
  /\ UNCHANGED <<state, master, mkLock, disk>>

SealLock(p) ==
  /\ pc[p] = "idle"
  /\ stateLock = Free
  /\ stateLock' = p
  /\ Goto(p, "seal_key", NoArg)
  /\ UNCHANGED <<state, master, mkLock, disk>>

(* Taking the key mutex in unseal or seal: if it is poisoned the panic     *)
(* unwinds through the state guard and poisons the state mutex as well.    *)
LockKey(p, key, next) ==
  \/ /\ mkLock = Free
     /\ mkLock' = p
     /\ master' = key
     /\ Goto(p, next, NoArg)
     /\ UNCHANGED <<state, stateLock, disk>>
  \/ /\ mkLock = Poisoned
     /\ stateLock' = Poisoned
     /\ Panic(p)
     /\ UNCHANGED <<state, master, mkLock, disk>>

UnsealKey(p) == pc[p] = "unseal_key" /\ LockKey(p, arg[p], "unseal_state")

(* Mutant: seal forgets to drop the key. *)
SealKeyKept(p) == pc[p] = "seal_key" /\ LockKey(p, master, "seal_state")
SealKey(p) == pc[p] = "seal_key" /\ LockKey(p, NoKey, "seal_state")

SetState(p, from, word, next) ==
  /\ pc[p] = from
  /\ state' = word
  /\ Goto(p, next, NoArg)
  /\ UNCHANGED <<stateLock, master, mkLock, disk>>

UnsealState(p) == SetState(p, "unseal_state", "Active", "unseal_audit")
SealState(p) == SetState(p, "seal_state", "Sealed", "seal_audit")

(* Mutant: the guards outlive the call. *)
FinishKeepingLocks(p, from, ev) ==
  /\ pc[p] = from
  /\ AppendAudit(ev, NoName, 0)
  /\ Return(p)
  /\ UNCHANGED <<ram, kv>>

(* The audit row, and the guards go out of scope. *)
Finish(p, from, ev) ==
  /\ pc[p] = from
  /\ AppendAudit(ev, NoName, 0)
  /\ stateLock' = Free
  /\ mkLock' = Free
  /\ Return(p)
  /\ UNCHANGED <<state, master, kv>>

UnsealFinish(p) == Finish(p, "unseal_audit", "unseal")
SealFinish(p) == Finish(p, "seal_audit", "seal")

-----------------------------------------------------------------------------
(* put and get_latest *)

(* require_active: the state mutex is taken and released. *)
RequireActive(p, step, a) ==
  /\ pc[p] = "idle"
  /\ stateLock = Free
  /\ IF state = "Active" THEN Goto(p, step, a) ELSE Return(p)
  /\ UNCHANGED <<ram, disk>>

(* master_key.lock().expect(..) of put and get: the state mutex is free    *)
(* again, or somebody else's.                                              *)
TakeKey(p, from, to) ==
  /\ pc[p] = from
  /\ \/ /\ mkLock = Free
        /\ mkLock' = p
        /\ Goto(p, to, arg[p])
     \/ /\ mkLock = Poisoned
        /\ Panic(p)
        /\ UNCHANGED mkLock
  /\ UNCHANGED <<state, stateLock, master, disk>>

(* The rest of the block in which the key's guard lives: the key is used   *)
(* and the guard dropped.  "require_active guarantees Some" is the message *)
(* of the expect() it meets a None with, mutex in hand.                    *)
WithKey(p, use) ==
  /\ IF master = NoKey
       THEN mkLock' = Poisoned /\ Panic(p)
       ELSE mkLock' = Free /\ use
  /\ UNCHANGED <<state, stateLock, master, disk>>

(* Mutant: put ignores the error of its insert and logs the put. *)
BackendErrorIgnored(p) ==
  /\ pc[p] = "put_insert"
  /\ Goto(p, "put_audit", [name |-> arg[p].name, version |-> arg[p].version])
  /\ UNCHANGED <<ram, disk>>

(* A statement of the backend fails: the call returns the error. *)
BackendError(p) ==
  /\ pc[p] \in {"put_version", "put_insert", "get_read"}
  /\ Return(p)
  /\ UNCHANGED <<ram, disk>>

PutCheck(p, n, x) ==
  /\ \A v \in Versions(n) : v < MaxVersion
  /\ RequireActive(p, "put_key", [name |-> n, value |-> x])

PutKey(p) == TakeKey(p, "put_key", "put_encrypt")

PutEncrypt(p) ==
  /\ pc[p] = "put_encrypt"
  /\ WithKey(p, Goto(p, "put_version",
                     [name |-> arg[p].name, value |-> arg[p].value, key |-> master]))

PutVersion(p) ==
  /\ pc[p] = "put_version"
  /\ Goto(p, "put_insert",
          [name |-> arg[p].name, version |-> NextVersion(arg[p].name),
           value |-> arg[p].value, key |-> arg[p].key])
  /\ UNCHANGED <<ram, disk>>

PutInsert(p) ==
  LET r == arg[p]
  IN /\ pc[p] = "put_insert"
     /\ IF Conflicts(r.name, r.version)
          THEN Return(p) /\ UNCHANGED kv
          ELSE /\ kv' = kv \cup {r}
               /\ Goto(p, "put_audit", [name |-> r.name, version |-> r.version])
     /\ UNCHANGED <<ram, auditLog>>

DataAudit(p, from, ev) ==
  /\ pc[p] = from
  /\ AppendAudit(ev, arg[p].name, arg[p].version)
  /\ Return(p)
  /\ UNCHANGED <<ram, kv>>

PutAudit(p) == DataAudit(p, "put_audit", "put")

GetCheck(p, n) == RequireActive(p, "get_read", [name |-> n])

GetRead(p) ==
  LET n == arg[p].name
  IN /\ pc[p] = "get_read"
     /\ IF Versions(n) = {} THEN Return(p) ELSE Goto(p, "get_key", LatestRow(n))
     /\ UNCHANGED <<ram, disk>>

GetKey(p) == TakeKey(p, "get_key", "get_decrypt")

(* decrypt fails under any key but the row's. *)
GetDecrypt(p) ==
  LET r == arg[p]
  IN /\ pc[p] = "get_decrypt"
     /\ WithKey(p, IF master = r.key
                     THEN Goto(p, "get_audit", [name |-> r.name, version |-> r.version])
                     ELSE Return(p))

GetAudit(p) == DataAudit(p, "get_audit", "get")

-----------------------------------------------------------------------------

(* The process dies and DiskVaultHandle::new opens the database again.     *)
Crash ==
  /\ crashes < MaxCrashes
  /\ crashes' = crashes + 1
  /\ state' = "Sealed"
  /\ stateLock' = Free
  /\ master' = NoKey
  /\ mkLock' = Free
  /\ pc' = [p \in Procs |-> "idle"]
  /\ arg' = [p \in Procs |-> NoArg]
  /\ panicked' = {}
  /\ UNCHANGED disk

(* A step that continues a call in progress. *)
LifecycleContinues(p) ==
  \/ UnsealKey(p) \/ UnsealState(p) \/ UnsealFinish(p)
  \/ SealKey(p) \/ SealState(p) \/ SealFinish(p)

WriterContinues(p) ==
  \/ PutKey(p) \/ PutEncrypt(p) \/ PutVersion(p) \/ PutInsert(p) \/ PutAudit(p)
  \/ BackendError(p)

ReaderContinues(p) ==
  GetRead(p) \/ GetKey(p) \/ GetDecrypt(p) \/ GetAudit(p) \/ BackendError(p)

(* A step that begins one. *)
LifecycleBegins(p) ==
  \/ UnsealBadKey(p)
  \/ \E k \in Keys : UnsealLock(p, k)
  \/ SealLock(p)
  \/ EntryPanics(p)

WriterBegins(p) == EntryPanics(p) \/ \E n \in Names, x \in Values : PutCheck(p, n, x)

ReaderBegins(p) == EntryPanics(p) \/ \E n \in Names : GetCheck(p, n)

Next ==
  \/ \E p \in Lifecycle : LifecycleBegins(p) \/ LifecycleContinues(p)
  \/ \E p \in Writers : WriterBegins(p) \/ WriterContinues(p)
  \/ \E p \in Readers : ReaderBegins(p) \/ ReaderContinues(p)
  \/ Crash

(* The operating system runs every thread that can run; nobody is obliged  *)
(* to call.                                                                *)
Fairness ==
  /\ \A p \in Lifecycle : WF_vars(LifecycleContinues(p))
  /\ \A p \in Writers : WF_vars(WriterContinues(p))
  /\ \A p \in Readers : WF_vars(ReaderContinues(p))

Spec == Init /\ [][Next]_vars /\ Fairness

-----------------------------------------------------------------------------
(* Properties *)

Locks == Procs \cup {Free, Poisoned}

Steps == {"idle", "unseal_key", "unseal_state", "unseal_audit",
          "seal_key", "seal_state", "seal_audit",
          "put_key", "put_encrypt", "put_version", "put_insert", "put_audit",
          "get_read", "get_key", "get_decrypt", "get_audit"}

ArgTyped(p) ==
  /\ pc[p] = "unseal_key" => arg[p] \in Keys
  /\ pc[p] \in {"put_key", "put_encrypt"} => arg[p] \in [name : Names, value : Values]
  /\ pc[p] = "put_version" => arg[p] \in [name : Names, value : Values, key : Keys]
  /\ pc[p] \in {"put_insert", "get_key", "get_decrypt"} => arg[p] \in KvRow
  /\ pc[p] \in {"put_audit", "get_audit"} => arg[p] \in [name : Names, version : Nat]
  /\ pc[p] = "get_read" => arg[p] \in [name : Names]

(* Types of the handle, the tables and what each pending call carries.     *)
TypeOK ==
  /\ state \in {"Sealed", "Active"}
  /\ stateLock \in Locks /\ mkLock \in Locks
  /\ master \in Keys \cup {NoKey}
  /\ kv \subseteq KvRow
  /\ auditLog \subseteq LogRow
  /\ pc \in [Procs -> Steps] /\ DOMAIN arg = Procs
  /\ \A p \in Procs : ArgTyped(p)
  /\ panicked \subseteq Procs
  /\ crashes \in Nat

(* SC-VAULT-002: whoever can take the state mutex finds the word and the   *)
(* key in agreement, with any number of threads that unseal and seal.      *)
KeyTracksState == stateLock \in {Free, Poisoned} => (state = "Active" <=> master \in Keys)

(* A panic never leaves key material behind: once either mutex is poisoned *)
(* the handle is sealed and empty, for good.                               *)
PoisonedIsSealed ==
  Poisoned \in {stateLock, mkLock} => state = "Sealed" /\ master = NoKey

(* The handle is well typed, and its state word and key go together,       *)
(* whatever threads unseal, seal, use the key, panic or die.               *)
HandleOK == TypeOK /\ KeyTracksState

(* SC-VAULT-011: versions of a name are 1, 2, 3, ... without a gap,        *)
(* through races between writers, failed statements and crashes.           *)
VersionsContiguous == \A r \in kv : \A v \in 1..r.version : v \in Versions(r.name)

(* SC-VAULT-008: the audit log never names a version that is not stored.   *)
AuditIsTruthful ==
  \A l \in auditLog : l.event \in {"put", "get"} => l.version \in Versions(l.name)

(* "Fails closed with VaultHandleError::Sealed when the vault is sealed":  *)
(* no call ends in a panic instead.  A seal after require_active breaks it: *)
(* README, Known divergences.                                              *)
NeverPanics == panicked = {}

(* No thread keeps the state mutex for ever, so unseal, seal and every     *)
(* require_active get their turn at it.                                    *)
StateLockReleased == \A p \in Procs : (stateLock = p) ~> (stateLock # p)

StoredRows == {[name |-> r.name, version |-> r.version, value |-> r.value] : r \in kv}

VS == INSTANCE VersionedStore WITH rows <- StoredRows

(* The SQLite vault implements the abstract versioned table with any       *)
(* number of writers: a put that lost the race for a version is refused.   *)
ImplementsVersionedStore == VS!Spec
=============================================================================
