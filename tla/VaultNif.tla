------------------------------ MODULE VaultNif ------------------------------
(***************************************************************************)
(* The in-RAM vault behind the rustler resource VaultHandle                *)
(* (lib/cepaf_gleam/native/rusty_vault_nif/src/lib.rs).                    *)
(*                                                                         *)
(* Every NIF runs on a dirty I/O scheduler, so any number of calls are in  *)
(* progress at once.  A call is a sequence of critical sections on four    *)
(* separate locks (state, master_in_ram, kv_store, audit_log); no call     *)
(* ever holds two of them, so a critical section is one atomic step here   *)
(* and calls interleave between sections.  pc[p] is the next section of    *)
(* the call process p is making, arg[p] what the call carries to it.       *)
(*                                                                         *)
(* A Vec<KvEntry> is a set of entries stamped with their position: "seq"   *)
(* orders them as the vector does and the newest entry is the last one.    *)
(***************************************************************************)
EXTENDS Integers, Sequences, FiniteSets

CONSTANTS
  Lifecycle,   \* processes that call vault_unseal and vault_seal
  Writers,     \* processes that call vault_kv_put
  Clients,     \* processes that call get, destroy and lease_renew
  Names,       \* secret names
  Values,      \* secret values
  EmptyValue,  \* the empty binary, one of Values
  Keys,        \* 32-byte master keys
  ShortKey,    \* a binary of any other length
  NoKey,       \* master_in_ram = None
  Ttls,        \* the <<ttl_sec, max_ttl_sec>> arguments callers pass
  MaxCalls,    \* bound: calls made in a behaviour
  MaxTime,     \* bound: seconds of clock
  NoArg        \* arg[p] of a process that is in no call

ASSUME NoKeyAssumption == NoKey \notin Keys /\ ShortKey \notin Keys
ASSUME ValuesAssumption == EmptyValue \in Values
ASSUME TtlsAssumption == Ttls \subseteq Int \X Int

Procs == Lifecycle \cup Writers \cup Clients

VARIABLES
  state,    \* RwLock<VaultState>
  master,   \* Mutex<Option<key>>
  store,    \* Mutex<HashMap<name, Vec<KvEntry>>>
  audit,    \* Mutex<Vec<AuditEntry>>
  now,      \* the clock, in seconds
  pc,       \* the next critical section of each process
  arg,      \* what its call carries there
  calls,    \* calls begun so far
  promised  \* history: what was put, and until when it was to be served

vars == <<state, master, store, audit, now, pc, arg, calls, promised>>

-----------------------------------------------------------------------------
(* Data *)

VaultState == {"Sealed", "Unsealing", "Active", "Sealing", "Corrupt", "Halted"}

Entry == [seq : Nat \ {0}, version : Nat \ {0}, value : Values,
          created : Nat, ttl : Int, maxTtl : Int]

(* lease_id is "lease-<name>-<version>-<created_at>": those three parts.    *)
LeaseOf(n, e) == [name |-> n, version |-> e.version, created |-> e.created]

AuditEvent == {"put", "get", "get_failed_stale", "destroy", "lease_renew"}
AuditRow == [event : AuditEvent, name : Names, version : Int]
RowOf(ev, n, v) == [event |-> ev, name |-> n, version |-> v]

(* versions.last() of a non-empty vector. *)
Latest(n) == CHOOSE e \in store[n] : \A f \in store[n] : f.seq <= e.seq

NextSeq(n) == IF store[n] = {} THEN 1 ELSE Latest(n).seq + 1

(* Mutant of next_version: the last version is used again. *)
NextVersionRepeats(n) == IF store[n] = {} THEN 1 ELSE Latest(n).version

(* VaultHandle::next_version. *)
NextVersion(n) == IF store[n] = {} THEN 1 ELSE Latest(n).version + 1

-----------------------------------------------------------------------------
(* Control *)

Begin(p) ==
  /\ pc[p] = "idle"
  /\ calls < MaxCalls
  /\ calls' = calls + 1

At(p, step) == pc[p] = step /\ UNCHANGED calls

Goto(p, step, a) ==
  /\ pc' = [pc EXCEPT ![p] = step]
  /\ arg' = [arg EXCEPT ![p] = a]

Return(p) == Goto(p, "idle", NoArg)

Init ==
  /\ state = "Sealed"
  /\ master = NoKey
  /\ store = [n \in Names |-> {}]
  /\ audit = <<>>
  /\ now = 0
  /\ pc = [p \in Procs |-> "idle"]
  /\ arg = [p \in Procs |-> NoArg]
  /\ calls = 0
  /\ promised = {}

-----------------------------------------------------------------------------
(* vault_unseal: four sections, the state lock released between them. *)

UnsealCheck(p, k) ==
  /\ Begin(p)
  /\ IF state \in {"Active", "Halted", "Corrupt"}
       THEN Return(p)
       ELSE Goto(p, "unseal_begin", k)
  /\ UNCHANGED <<state, master, store, audit, now, promised>>

UnsealBegin(p) ==
  /\ At(p, "unseal_begin")
  /\ state' = "Unsealing"
  /\ Goto(p, IF arg[p] \in Keys THEN "unseal_store" ELSE "unseal_wrong", arg[p])
  /\ UNCHANGED <<master, store, audit, now, promised>>

UnsealWrongKey(p) ==
  /\ At(p, "unseal_wrong")
  /\ state' = "Sealed"
  /\ Return(p)
  /\ UNCHANGED <<master, store, audit, now, promised>>

UnsealStoreKey(p) ==
  /\ At(p, "unseal_store")
  /\ master' = arg[p]
  /\ Goto(p, "unseal_finish", NoArg)
  /\ UNCHANGED <<state, store, audit, now, promised>>

UnsealFinish(p) ==
  /\ At(p, "unseal_finish")
  /\ state' = "Active"
  /\ Return(p)
  /\ UNCHANGED <<master, store, audit, now, promised>>

(* vault_seal: no look at the current state, three sections. *)

SealBegin(p) ==
  /\ Begin(p)
  /\ state' = "Sealing"
  /\ Goto(p, "seal_zeroize", NoArg)
  /\ UNCHANGED <<master, store, audit, now, promised>>

SealZeroize(p) ==
  /\ At(p, "seal_zeroize")
  /\ master' = NoKey
  /\ Goto(p, "seal_finish", NoArg)
  /\ UNCHANGED <<state, store, audit, now, promised>>

SealFinish(p) ==
  /\ At(p, "seal_finish")
  /\ state' = "Sealed"
  /\ Return(p)
  /\ UNCHANGED <<master, store, audit, now, promised>>

-----------------------------------------------------------------------------
(* The guard every data call starts with; a refused call returns at once. *)

Enter(p, accepted, step, a) ==
  /\ Begin(p)
  /\ IF state = "Active" /\ accepted THEN Goto(p, step, a) ELSE Return(p)
  /\ UNCHANGED <<state, master, store, audit, now, promised>>

(* The section ends the call without effect: not_found. *)
NotFound(p) == Return(p) /\ UNCHANGED <<state, master, store, audit, now, promised>>

(* Mutant: the row is dropped. *)
AppendAuditDropped(p) == At(p, "audit") /\ NotFound(p)

(* audit_append, and with it the end of the call. *)
AppendAudit(p) ==
  /\ At(p, "audit")
  /\ audit' = Append(audit, arg[p])
  /\ Return(p)
  /\ UNCHANGED <<state, master, store, now, promised>>

-----------------------------------------------------------------------------
(* vault_kv_put: next_version takes and releases the kv_store lock, the    *)
(* push takes it again.                                                    *)

PutCheck(p, n, x, t) ==
  Enter(p, x # EmptyValue /\ t[1] > 0 /\ t[2] >= t[1], "put_version",
        [name |-> n, value |-> x, ttl |-> t[1], maxTtl |-> t[2]])

PutVersion(p) ==
  /\ At(p, "put_version")
  /\ Goto(p, "put_push",
          [name |-> arg[p].name,
           entry |-> [version |-> NextVersion(arg[p].name),
                      value |-> arg[p].value, created |-> now,
                      ttl |-> arg[p].ttl, maxTtl |-> arg[p].maxTtl]])
  /\ UNCHANGED <<state, master, store, audit, now, promised>>

Pushed(n, e) ==
  [seq |-> NextSeq(n), version |-> e.version, value |-> e.value,
   created |-> e.created, ttl |-> e.ttl, maxTtl |-> e.maxTtl]

(* "hard-stale fail-closed on max_ttl": what a put says of its value.       *)
Promise(n, e) ==
  [name |-> n, version |-> e.version, value |-> e.value, until |-> e.created + e.maxTtl]

PutPush(p) ==
  LET n == arg[p].name
      e == arg[p].entry
  IN /\ At(p, "put_push")
     /\ store' = [store EXCEPT ![n] = @ \cup {Pushed(n, e)}]
     /\ promised' = promised \cup {Promise(n, e)}
     /\ Goto(p, "audit", RowOf("put", n, e.version))
     /\ UNCHANGED <<state, master, audit, now>>

-----------------------------------------------------------------------------
(* vault_kv_get: the newest entry is copied under the lock, its age looked *)
(* at after the lock is released.                                          *)

GetCheck(p, n) == Enter(p, TRUE, "get_read", [name |-> n])

GetRead(p) ==
  LET n == arg[p].name
  IN /\ At(p, "get_read")
     /\ IF store[n] = {}
          THEN Return(p)
          ELSE Goto(p, "get_age", [name |-> n, entry |-> Latest(n)])
     /\ UNCHANGED <<state, master, store, audit, now, promised>>

GetAge(p) ==
  LET e == arg[p].entry
      stale == now - e.created >= e.maxTtl
  IN /\ At(p, "get_age")
     /\ Goto(p, "audit",
             RowOf(IF stale THEN "get_failed_stale" ELSE "get", arg[p].name, e.version))
     /\ UNCHANGED <<state, master, store, audit, now, promised>>

-----------------------------------------------------------------------------
(* vault_kv_destroy and vault_lease_renew: one section on kv_store, then   *)
(* the audit section.                                                      *)

DestroyCheck(p, n, v) ==
  Enter(p, TRUE, "destroy_remove", [name |-> n, version |-> v])

(* Mutant: retain with the test the wrong way round. *)
RetainedInverted(n, v) == {e \in store[n] : e.version = v}

(* versions.retain(|e| e.version != version) *)
Retained(n, v) == {e \in store[n] : e.version # v}

DestroyRemove(p) ==
  LET n == arg[p].name
      v == arg[p].version
      kept == Retained(n, v)
  IN /\ At(p, "destroy_remove")
     /\ \/ /\ kept = store[n]
           /\ NotFound(p)
        \/ /\ kept # store[n]
           /\ store' = [store EXCEPT ![n] = kept]
           /\ Goto(p, "audit", RowOf("destroy", n, v))
           /\ UNCHANGED <<state, master, audit, now, promised>>

RenewCheck(p, l, t) == Enter(p, t > 0, "renew_update", [lease |-> l, ttl |-> t])

(* The entries holding the lease; the loop stops at the first of them.     *)
Holders(l) == {e \in store[l.name] : LeaseOf(l.name, e) = l}
First(S) == CHOOSE e \in S : \A f \in S : e.seq <= f.seq

(* Mutant: the renewal also moves the hard deadline. *)
RenewedWithMax(e, t) == [e EXCEPT !.ttl = t, !.maxTtl = t]

Renewed(e, t) == [e EXCEPT !.ttl = t]

RenewUpdate(p) ==
  LET l == arg[p].lease
      e == First(Holders(l))
  IN /\ At(p, "renew_update")
     /\ \/ /\ Holders(l) = {}
           /\ NotFound(p)
        \/ /\ Holders(l) # {}
           /\ store' = [store EXCEPT ![l.name] =
                          (@ \ {e}) \cup {Renewed(e, arg[p].ttl)}]
           /\ Goto(p, "audit", RowOf("lease_renew", l.name, l.version))
           /\ UNCHANGED <<state, master, audit, now, promised>>

-----------------------------------------------------------------------------

(* The leases and versions callers can name: those they were told of.      *)
KnownLeases == UNION {{LeaseOf(n, e) : e \in store[n]} : n \in Names}
KnownVersions(n) == {e.version : e \in store[n]}

Tick ==
  /\ now < MaxTime
  /\ now' = now + 1
  /\ UNCHANGED <<state, master, store, audit, pc, arg, calls, promised>>

LifecycleStep(p) ==
  \/ \E k \in Keys \cup {ShortKey} : UnsealCheck(p, k)
  \/ UnsealBegin(p) \/ UnsealWrongKey(p) \/ UnsealStoreKey(p) \/ UnsealFinish(p)
  \/ SealBegin(p) \/ SealZeroize(p) \/ SealFinish(p)

WriterStep(p) ==
  \/ \E n \in Names, x \in Values, t \in Ttls : PutCheck(p, n, x, t)
  \/ PutVersion(p) \/ PutPush(p)

ClientStep(p) ==
  \/ \E n \in Names : GetCheck(p, n)
  \/ GetRead(p) \/ GetAge(p)
  \/ \E n \in Names : \E v \in KnownVersions(n) : DestroyCheck(p, n, v)
  \/ DestroyRemove(p)
  \/ \E l \in KnownLeases, t \in Ttls : RenewCheck(p, l, t[1])
  \/ RenewUpdate(p)

Next ==
  \/ \E p \in Lifecycle : LifecycleStep(p)
  \/ \E p \in Writers : WriterStep(p)
  \/ \E p \in Clients : ClientStep(p)
  \/ \E p \in Procs : AppendAudit(p)
  \/ Tick

Spec == Init /\ [][Next]_vars

-----------------------------------------------------------------------------
(* Properties *)

PutArg == [name : Names, value : Values, ttl : Int, maxTtl : Int]
PromiseMade == [name : Names, version : Nat \ {0}, value : Values, until : Int]
NewEntry == [version : Nat \ {0}, value : Values, created : Nat, ttl : Int, maxTtl : Int]
Lease == [name : Names, version : Int, created : Int]

ArgOf(step) ==
  CASE step = "unseal_begin" -> Keys \cup {ShortKey}
    [] step = "unseal_store" -> Keys
    [] step = "put_version" -> PutArg
    [] step = "put_push" -> [name : Names, entry : NewEntry]
    [] step = "get_read" -> [name : Names]
    [] step = "get_age" -> [name : Names, entry : Entry]
    [] step = "destroy_remove" -> [name : Names, version : Int]
    [] step = "renew_update" -> [lease : Lease, ttl : Int]
    [] step = "audit" -> AuditRow

Steps == {"unseal_begin", "unseal_store", "put_version", "put_push", "get_read",
          "get_age", "destroy_remove", "renew_update", "audit"}
BareSteps == {"idle", "unseal_wrong", "unseal_finish", "seal_zeroize", "seal_finish"}

(* Types of the handle's fields and of what each pending call carries.     *)
TypeOK ==
  /\ state \in VaultState
  /\ master \in Keys \cup {NoKey}
  /\ store \in [Names -> SUBSET Entry]
  /\ audit \in Seq(AuditRow)
  /\ now \in Nat
  /\ calls \in Nat
  /\ promised \subseteq PromiseMade
  /\ pc \in [Procs -> Steps \cup BareSteps]
  /\ DOMAIN arg = Procs
  /\ \A p \in Procs : pc[p] \in Steps => arg[p] \in ArgOf(pc[p])

(* vault_seal zeroizes the key (SC-VAULT-002): a Sealed handle holds none. *)
SealedHoldsNoKey == state = "Sealed" => master = NoKey

(* The same, asked only when no call is in progress.  Two processes that   *)
(* unseal and seal break it: README, Known divergences.                    *)
Quiet == \A p \in Procs : pc[p] = "idle"
SealedAndQuietHoldsNoKey == Quiet => SealedHoldsNoKey

(* "In-RAM master key, present only when Active" (VaultHandle), read the   *)
(* other way: an Active handle does hold a key.                            *)
ActiveHoldsKey == state = "Active" => master \in Keys

(* The key in RAM and the state word agree at both stable ends of the      *)
(* unseal and seal sequences although they live under two locks.           *)
KeyTracksState == SealedHoldsNoKey /\ ActiveHoldsKey

(* "monotonic version per name" (SC-VAULT-011, next_version): along the    *)
(* vector of a name versions strictly increase.                            *)
VersionsIncrease ==
  \A n \in Names : \A e, f \in store[n] : e.seq < f.seq => e.version < f.version

(* The handle is well typed, and through every interleaving of calls with   *)
(* unseal and seal its key follows its state word and its versions increase.*)
HandleOK == TypeOK /\ KeyTracksState /\ VersionsIncrease

(* The audit log and the rows calls are about to append account for every  *)
(* live entry: for each version, puts = live entries + destroys.           *)
Occurs(r) == Cardinality({i \in 1..Len(audit) : audit[i] = r})
             + Cardinality({p \in Procs : pc[p] = "audit" /\ arg[p] = r})

LedgerBalances ==
  \A n \in Names : \A v \in 1..MaxCalls :
    Occurs(RowOf("put", n, v)) =
      Occurs(RowOf("destroy", n, v)) + Cardinality({e \in store[n] : e.version = v})

(* SC-VAULT-006: a get answers with a value, or refuses it as stale, exactly *)
(* by the deadline created_at + max_ttl_sec of the put that stored it,       *)
(* whatever was renewed, destroyed, put again or read in between, and        *)
(* although the entry is looked at after the lock is released.               *)
Judges(p) == pc[p] = "get_age" /\ pc'[p] = "audit"
Serves(p) == arg'[p].event = "get"

ServedUntilPromised ==
  [][\A p \in Procs : Judges(p) =>
       \E q \in promised :
         /\ q.name = arg[p].name
         /\ q.version = arg[p].entry.version /\ q.value = arg[p].entry.value
         /\ Serves(p) <=> now < q.until]_vars

StoredRows ==
  UNION {{[name |-> n, version |-> e.version, value |-> e.value] : e \in store[n]} : n \in Names}

VS == INSTANCE VersionedStore WITH rows <- StoredRows

(* The critical sections of put, destroy and renew implement the abstract  *)
(* table of monotonically versioned rows (VersionedStore).                 *)
ImplementsVersionedStore == VS!Spec
=============================================================================
