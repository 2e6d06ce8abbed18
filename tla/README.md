# C3I: models and proofs

TLA+ models of the stateful core of this repository, the TLC runs that check
them on small instances, and theorems about them whose proofs TLAPS checks for
every value of the constants. `PROJECT.json` is the index: components, runs,
which definition models which lines, hazards, findings, theorems.

Paths below are relative to `lib/cepaf_gleam/`, those of RustyVault (sections
marked so) to `sub-projects/rusty_vault_vendored/src/`, unless they start with
`sub-projects/` or `lib/`.

    tlc -workers 2 -config OrSet.cfg MCOrSet      # one run
    tlapm DiskVault_proofs.tla                    # one module's proofs

The specifications under `specs/tla` and `specs/quint` describe intended
designs; nothing here is taken from them. Every definition is read from the
code.

## 1. Inventory

### Modelled: the C3I side

| Component | State | Operations | What makes it correct |
|---|---|---|---|
| **RustyVault NIF**, `native/rusty_vault_nif/src/lib.rs` | rustler resource with four separate locks: state word, master key, versioned store, audit log | unseal, seal, put, get, destroy, lease_renew | key in RAM exactly when Active; versions of a name rise; a get serves until the deadline its put promised, whatever is renewed; every live entry has its audit row |
| **Disk vault**, `vault_handle.rs`, `sqlite_backend.rs`, `crypto.rs` | two mutexes (state, key) that can be poisoned; tables `kv_entries`, `audit_log` | unseal, seal, put, get_latest | word and key agree whenever the state mutex is free; nobody keeps it; a panic leaves no key; versions have no gap; the log is truthful; all through crashes and failed statements |
| **Signing keys**, `native/ferriskey_nif/src/token.rs`, `jwks.rs`, `src/.../iam/lifecycle.gleam`, `auth/vault_bridge.gleam` | tables `signing_keys`, `signing_key_secrets`; a JWKS cache; seeds in the RAM vault | rotate, rotate_to_vault, issue, issue_via_vault, jwks get_cached | one current key; no seed lost or left behind by the handoff; tokens keep their key |
| **OR-Set**, `src/.../ha/crdt.gleam` | elements with tags, tombstones | add, remove, merge | replicas that saw the same operations agree, whatever the delivery; a removed element does not return |
| **STS rate limiter**, `src/.../iam/sts_token_cache_actor.gleam` | a window of stamps per realm | CheckAllow, Reset | at most `rpm_limit` per window; `retry_after_ms` exact |

### Modelled: RustyVault

The repository carries its own copy of a vault server,
`sub-projects/rusty_vault_vendored`. Its 46 000 lines hold most of the
repository's concurrency: async tasks over one storage backend, which has no
transactions.

| Component | State | Operations | What makes it correct |
|---|---|---|---|
| **Tokens and leases**, `modules/auth/token_store.rs`, `expiration.rs` | in storage: token entries, parent/child records, leases, an index from token to leases; in memory: a priority queue and its lock | create, login, a leased read, renew, revoke-tree, revoke-orphan, use counting, the checker thread, restore at unseal | what is revoked stays revoked; no token outlives its lease; no lease is lost; none ends early; what is due ends |
| **Mounts, router, auth mounts**, `mount.rs`, `router.rs`, `modules/auth/mod.rs` | two tables in storage, their copy in memory (entries shared by reference), the radix tree of routes | mount, unmount, remount, of secret engines and auth methods; load and setup at unseal; the monitor that reloads every 5 s | an engine has one route; an emptied engine is not served; what is served now is what a restart serves |
| **AppRole**, `modules/credential/approle/*` | roles, an index from role_id, secret ids, their accessors; a lock for each name as it is spelt | role setters, read (which repairs the index), delete; register, look up, destroy secret ids; login; tidy | uses are bounded; what is gone is refused; the cross references hold; tidy collects; no circle of waiting tasks |
| **Seal, unseal, init, barrier, Shamir**, `core.rs`, `storage/barrier_aes_gcm.rs`, `shamir.rs` | the core's state (sealed, shares so far, kek) behind an ArcSwap; the barrier's flag and cipher; in storage the key record, the seal configuration, deprecated shares | init, unseal share by share, unseal_once, seal, post_unseal | state and barrier agree; one data key; a used share is used up; the operators can always open the vault |
| **Policies and ACL**, `modules/policy/*.rs` | stored policies, a cache of parsed ones, a map of types | set, get, delete, the check of each request; parse, merge, precedence of rules | cache and map agree with storage; a check answers what the documents grant, whatever their order; the narrower rule decides |

### How they interact

`iam/lifecycle.gleam` calls `token.rs` (rotate), then writes the seed to the
RAM vault through `auth/vault_bridge.gleam` and `rusty_vault_nif`, then purges
the SQLite copy; `SigningKeys` models the vault end of these calls as a set of
seeds in RAM, `VaultNif` the vault itself. `jwks.rs` is invalidated by the
rotate NIF. The IAM supervisor (`iam/supervisor.gleam`, OneForAll) owns the STS
limiter: the death of any sibling restarts it. The disk vault is a second
implementation of the vault's promise, used from Rust only: the handle Gleam
holds is the RAM one. `VersionedStore` is what the two vaults promise in common.
The OR-Set is a value type; its header says the values travel over Zenoh
pub/sub, which is not in the repository.

In RustyVault an unseal (`RvSeal`) runs `post_unseal`, which loads and sets up
the mount tables (`RvMounts`, `Restart`), then every module: the auth module
restores the lease queue (`RvTokens`, `Crash`) and the policy module builds its
cache (`RvPolicy`, `Restart`). A request passes the token store's `pre_route`
(`RvTokens`, `CheckToken`), the policy check (`RvPolicy`, `CheckRequest`), the
router (`RvMounts`), a backend (`AppRole`, for one) and the token store's
`post_route` (`RvTokens`). Each module models the others by what they do to it:
a sealed vault is one in which the calls have ended; a login is a response with
`auth`; a policy decides who may revoke whom. They share no variable but the
storage backend, and in it no prefix, so they are not composed into one state
space: the product would show no behaviour that the parts do not.

### Where it is hard

NIF calls run on dirty schedulers, so any number of calls interleave between
critical sections; mutexes can be poisoned; SQLite statements commit one by one
with no enclosing transaction and may fail; the BEAM may die between any two
steps while tables survive and RAM does not; a cache is filled from a read made
before the lock is taken; snapshots are lost, repeated and reordered; messages
of different senders overtake each other. In RustyVault every storage operation
is an await, so every request is a sequence of separate steps of which any may
fail and end it, and two threads (the lease checker, the mounts monitor) run
beside the requests. The hazards are listed with their lines in `PROJECT.json`,
each with the properties that cover it.

### Not modelled

| Component | Why |
|---|---|
| Other CRDTs of `ha/crdt.gleam`, `crdt/spatial.gleam` | pointwise maxima and comparisons that no caller uses; hazards of the spatial one below |
| SCIM outbound queue (`scim.rs`) | nothing drains it: `drain_due` and `mark_failed` are reached from NIFs without caller |
| Realm creation (`realm.rs`), user/group/role store | single statements, except that `create` inserts the realm and then its four roles: a failure leaves a realm without roles and the name taken (`realm.rs:104`) |
| Sutra Matrix server (`sub-projects/sutra/sutra_server`) | `sutra_server/api/handlers`, through which its requests come, is not in the repository |
| Federation, leadership (`ha/zenoh_federation.gleam`, `agents/leadership.gleam`) | pure decisions; no process calls them or keeps their result |
| Vault boot chain (`vault_supervisor.gleam`), KEK derivation | pure decisions around stubs (TPM, KMS); see *Known divergences* |
| Vault sync (`vault_sync_actor.gleam`) | the sync returns 0/0 and nothing drives it |
| Other IAM workers, GCP clients | metrics only; HTTP |
| Pi bridge (`bridge/`) | as wired, no port message reaches the actor and its send result matches no clause, so its handlers cannot run |
| Planning, knowledge, graphene and rule NIFs | one SQL statement or one pure function per call |
| Two-phase commit (`db/transaction_manager.gleam`) | every operation panics as not implemented |
| `ha/*` calculus, event chain, circuit breaker | pure functions on values no process keeps |
| RustyVault: PKI, certificate auth | a request reads one bundle or role and writes at most two entries; what could go wrong is in OpenSSL and in encodings |
| RustyVault: KV, userpass, system backends | one storage operation a request, or calls to the components above |
| RustyVault: storage backends, HTTP server, CLI, ciphers | get, put, delete, list; wrappers. The models fail any of their operations |
| UI, web, scripts, generators | rendering and sequential tools |

Hazards seen in the parts that are not modelled, for whoever takes them up:
`scim.rs:713` (attempts read and written in two statements, so two drainers
lose a failure); `crdt/spatial.gleam:174` (equal timestamps settled by argument
order: replicas differ for ever) and `:95` (insert ignores removed ids);
`ha/zenoh_federation.gleam:245` (two quorums on two health views);
`agents/leadership.gleam:73` (failures are counted in all, not in a row);
`vault_sync_actor.gleam:128` (the failure count survives the cooldown);
`sutra_server.gleam:3812` (to-device events leave the store before the answer
has arrived) and `sync_engine.gleam:141` (events of the sync token's own
millisecond are skipped).

Most of the tree's lines are out of reach of such models. More than a third of
RustyVault's are tests inside the source files; most of the rest, here and in
the C3I side, are X.509 and encodings, command line and HTTP glue, rendering,
and calls of one statement, in which no state is shared by two steps.

## 2. Modules

| Module | Models | Notes |
|---|---|---|
| `VersionedStore` | what both vaults promise: rows added above the versions a name has, never rewritten, possibly removed | abstract specification |
| `VaultNif` | `lib.rs` | one action per critical section; `pc[p]`, `arg[p]` are the call in progress |
| `DiskVault` | `vault_handle.rs` over `sqlite_backend.rs` | mutexes with holder or `Poisoned`; each SQL statement a step; `Crash` reopens the database |
| `SigningKeys` | `token.rs`, `jwks.rs`, `lifecycle.gleam` | each SQL statement, vault call and cache access a step |
| `OrSet` | OR-Set of `ha/crdt.gleam` | the four functions, replicas that exchange whole values |
| `StsLimiter` | `sts_token_cache_actor.gleam` | a mailbox per sender |
| `RvTokens` | `token_store.rs`, `expiration.rs` | a task is a sequence of steps, one per storage operation; the checker is a thread |
| `RvMounts` | `mount.rs`, `router.rs`, `auth/mod.rs` | tables as functions from key to id; the entries they share; the monitor |
| `RvMountsInvariant` | the inductive invariants of `RvMounts`, in two layers | definitions only; `RvMounts_proofs` is about it |
| `AppRole` | the AppRole backend | tasks as in `RvTokens`, with tokio read and write locks |
| `RvSeal` | `core.rs`, barrier, shares | shares are records of key and polynomial; which of them combine is an operator |
| `RvAcl` | `policy.rs`, `acl.rs` | pure: parsing to permissions, merge, precedence, check |
| `RvPolicy` | `policy_store.rs` over `RvAcl` | view, cache and type map in separate steps |
| `MC*` | constants for TLC | `MCRvPolicy` holds four documents whose rules overlap |
| `AppRoleInvariant` | the inductive invariant of `AppRole`, in five layers | definitions only; `AppRole_proofs` is about it |
| `RvSealInvariant` | the inductive invariants of `RvSeal`, in three layers | definitions only; `RvSeal_proofs` is about it |
| `RvTokensInvariant` | the inductive invariant of `RvTokens`, in eight layers | definitions only; `RvTokens_proofs` is about it |
| `*_proofs` | theorems and proofs | one per component; `Cepaf_proofs` for `SigningKeys`, `StsLimiter` and `OrSet`, in which the latter two have names of their own (`LimiterSpec`, `OrSetSpec`, ...) |

**State.** In `VaultNif`, `state`, `master`, `store`, `audit` are the four
locked fields of `VaultHandle`. A `Vec<KvEntry>` is a set of entries with a
position `seq`; `Latest` is `versions.last()`. A lease id, formatted
`lease-<name>-<version>-<created_at>`, is the record of those three. Ciphertext
is not in `VaultNif` because that store holds plaintext bytes; in `DiskVault` a
row carries the key it is encrypted under, and decryption under any other key
fails. In `SigningKeys` a key is its kid, `rotated_at IS NULL` is membership of
`current`, `retired_at` does not exist because no statement sets it. In `OrSet`
lists are sets: every reader filters, tests membership or removes duplicates;
`timestamp_ms` is carried and never read. In `StsLimiter` a window is a set of
numbered calls because only the number of stamps and the least are read.

In `RvTokens` a lease id is the token's own number or that of a secret: the code
builds it from path and salted token, one to one. Every lease lasts `Ttl`; a
priority is an expiry time, 0 is the epoch with which revocation moves a lease to
the front. In `RvMounts` an engine is its uuid, `table` the in-memory table,
`entry` the shared `MountEntry` that a remount renames under the old key, `stored`
a persisted table by value; paths may be nested. In `AppRole` a role's
`hmac_key`, under which its secrets are stored, is the number of its creation.
In `RvSeal` a share is what `split` made it from, key and polynomial and index;
fewer or mixed shares combine to `Wrong`. In `RvAcl` a path is the sequence of
its segments and `StartsWith` says which segments begin which.

**Steps.** A step is what the code does atomically: a critical section, one SQL
statement, one storage operation between awaits, one message of an actor, one
pure function. A refused call is the step that refuses it. In the RustyVault
modules an action named for a handler says what its task is to do, and the
actions below it do the parts; `Fail(p)` is a storage operation that returns an
error, upon which the task ends, as `?` ends it.

History variables are never read by a guard that models code (`promised` in
`VaultNif`, `seen` in `OrSet`,
`allowed` in `StsLimiter`, `handoffs` and `issued` in `SigningKeys`, `panicked`
in `DiskVault`, `given` and `raced` in `RvTokens`, `cleared`, `moved` and
`disturbed` in `RvMounts`, `accepts`, `limit`, `made`, `gone`, `overlap` and
`outdated` in `AppRole`, `blind`, `cut` and `late` in `RvSeal`, `clean` in `RvPolicy`), with
two exceptions: `handoffs` is also what a caller of `issue_via_vault` holds,
`given` what a client of `RvTokens` knows. Several of these histories name an
exception that a property makes; each exception is a race the code really loses,
and section 6 describes it.

## 3. Runs

Every `.cfg` starts with a line that says what it sets up.

| Run | Instance | States | Shows |
|---|---|---|---|
| `vault_nif` | 1 lifecycle process, 1 writer, 2 clients, 6 calls | 1 316 290 | `HandleOK`, `LedgerBalances`, `ServedUntilPromised`, refinement of `VersionedStore` |
| `disk_vault_locks` | 2 threads unseal and seal, 1 writer, 1 reader, 1 crash | 15 752 | `HandleOK`, `PoisonedIsSealed`, no deadlock, `StateLockReleased` (liveness) |
| `disk_vault_writers` | 2 racing writers, 2 versions, 1 crash | 107 984 | `VersionsContiguous`, `AuditIsTruthful`, refinement of `VersionedStore` |
| `signing_keys` | 1 rotator, 1 cache reader, 1 issuer, 3 kids, 2 failed steps, 1 crash | 261 222 | `TableOK`, `CurrentExists`, `SeedKept`, `HandoffComplete` |
| `or_set` | 3 replicas, 1 add each, 2 snapshots in flight, 1 restart | 35 193 | `ReplicasOK`, `AddWins`, `NeverReturns` |
| `sts_limiter` | 1 caller, 2 realms, limit 2 in a window of 3 ticks, 5 calls, 1 restart | 187 904 | `LimiterOK`, `WindowRespected` |
| `rv_tokens` | root, 1 stored token, 2 more, 1 secret; 2 requests at a time, the checker, 2 ticks, 1 error or crash | 892 184 | `LeasesOK`, `RevokedStayRevoked`, `HeldTokenHasLease`, `NoEarlyExpiry`, `ExpiredRevoked` (liveness) |
| `rv_mounts` | 4 paths, two nested and one of them for auth methods, 1 administrator with 3 requests, the monitor, 2 errors or restarts | 282 298 | `RoutesOK`, `ClearedNotServed`, `RestartSafe`, `MonitorHeals` (liveness) |
| `approle` | 2 roles, one of them there and spelt in 2 ways, 2 role_ids, 1 secret id, 2 callers with 3 requests, tidy, 1 error or crash | 1 703 796 | `EntriesOK`, `UsesBounded`, `GoneRefused`, `TidyCollects`, `NoLockCycle` |
| `rv_seal` | 3 shares of which 2 open, 3 polynomials; 1 operator, 1 who seals, 1 client; 7 requests, 2 errors or crashes | 1 122 193 | `KeysOK`, `StateTracksBarrier`, `Recoverable`, `DeprecatedForGood` |
| `rv_policy` | 2 names, 4 documents, 8 requests, paths of at most 4 segments, 2 writers, 1 checker, 3 calls, 1 error or restart | 1 088 628 | `StoreOK`, `DecisionCurrent`, `NarrowestDecides` |

One run expects a violation: `rv_tokens_expiry` (62 229 states when
it is found). The checker's thread holds `queue.write()` while it revokes the
lease of a token; the revocation reaches `revoke_by_token`, and that asks for the
same lock for each secret the token had leased. The thread waits for itself, and
every later lease and renewal waits for it (`modules/auth/expiration.rs:465`,
`:430`, `:524`). `ExpiredRevoked` in `rv_tokens` says that this is the only way
in which a due lease is left: everything due is handled in the end *unless* the
checker is in that wait.

Some properties are conjunctions of parts that belong together, each part named:
`HandleOK` (types, key and state word; in `vault_nif` versions too), `TableOK` (types, one
current key, tokens verify), `ReplicasOK` (types, merge laws), `LimiterOK` (types,
`RetryExact`), `LeasesOK` (types, `LeaseWatched`, `LeaseIndexed`), `RoutesOK`
(types, `OneRoute`), `RestartSafe` (`ServedSurvives`, `NoTaintLeft`), `EntriesOK`
(types, `SecretHasAccessor`, `IndexAgrees`), `KeysOK` (types, `OneDataKey`,
`UsedOnce`), `StateTracksBarrier` (`SealedHoldsNoKey`, `ServesWhole`), `StoreOK`
(types, `CleanAgrees`).

Five passing runs and the proofs about them state a premise: one lifecycle
process and one writer (`vault_nif`), one rotator, one caller of the limiter, one
administrator of mounts, one who submits shares. Section 6 says what happens
without it. The disk vault, the tokens, AppRole and the policies need none.

### Bounds

Names and realms are independent of each other in the code (keyed maps, `WHERE
name = ?`), so one or two are enough. Two concurrent callers of a kind reach
every race in these modules, since each race is between one stale read and one
write; `disk_vault_locks` has four threads so that a poisoned lock meets a
holder and a waiter. `MaxCalls = 6` in `vault_nif` covers unseal, two puts, a
destroy, a renewal and a seal, in any interleaving. Three kids let a rotation
find a current key and a demoted one. Two snapshots and three replicas let an old
snapshot arrive after a newer one at a third replica. In the limiter a window of
three ticks and a clock of five lets entries leave, and limit two distinguishes
`>=` from `>`.

In `rv_tokens` two tokens may be generated, enough for a child with the second
token that `post_route` makes, while the stored token's lease comes due; with two
requests any handler meets any other and the checker; two ticks let a lease come
due beside its renewal, and the theorems have no such limits. In `rv_mounts` three
requests reach mount, remount, mount again at the old path; an id is used by one
engine, so `MaxId` bounds the engines. In `approle` three requests over two tasks
reach register, login and destroy beside tidy; with two roles and two role_ids
one role can take the other's id while that one leaves it. One secret id with one
use is enough for two logins to meet on its last use; the theorems have no such
limits. In `rv_seal` seven requests reach init, two shares,
`unseal_once`, a seal and two shares of the new polynomial. In `rv_policy` the
writers write one document: which one does not matter to a race, and the proof of
`StoreOK` has no such limit; the initial states hold any two of the four
documents, for which the decisions are compared. `MaxSegments` is one more than
the longest rule has: a rule with "*" then covers paths that no rule without it
does, which is what makes the latter narrower.

The theorems remove the bounds for what they cover: `MaxCalls`, `MaxOps`,
`MaxFaults` and the like are arbitrary there.

`CHECK_DEADLOCK FALSE` is set where calls, kids or ids are bounded and the system
then has nothing to do: `vault_nif`, `signing_keys`, `rv_tokens`,
`rv_tokens_expiry`, `rv_mounts`, `approle`, `rv_seal`, `rv_policy`. The other runs check for
deadlock; in `approle`, `NoLockCycle` says it of the locks.

### Fairness

Three modules assume it. `DiskVault`: weak fairness of each thread's *continuing*
steps, never of beginning a call. A thread inside a call is runnable unless it
waits for a mutex, and the operating system runs runnable threads. `RvTokens`:
weak fairness of the checker, and `RvMounts`: of the monitor; each is a thread in
an endless loop with a sleep. Nobody is obliged to unseal, seal, put, mount or make
any request, or to finish one; errors, crashes and the clock are never fair.
With it `StateLockReleased` says no thread keeps the state mutex for ever,
`ExpiredRevoked` that due leases are handled, `MonitorHeals` that a table which
differs from storage in size is loaded again.

## 4. Proofs

All theorems are for arbitrary sets of processes, names, values and bounds.

**VaultNif.** `TypeInv` is `TypeOK` with `SeqBounded`: the positions of a vector
are bounded, so `Latest` exists; without it `CHOOSE` in `Latest` says nothing.
`KeyTracksStateHolds` (one lifecycle process) uses `KeyInv`: which of state word
and key is already set at each step of the one unseal or seal in progress.
`VersionsIncreaseHolds` (one writer) uses `VersionInv`: positions are unique and
a put that carries a version carries one above everything stored, which stays
true because others only remove or renew. `VaultImplementsVersionedStore`
follows: `PutPush` is `AddRow`, `DestroyRemove` is `RemoveRow`, the rest stutters.
`LedgerBalancesHolds` (one writer, finitely many callers) counts for each version
the rows of the log and the rows calls are about to append; a put's row is
counted from the moment its entry is pushed, and `VersionInv` says that a destroy
removes exactly one entry and a put's version has none yet.
`ServedUntilPromisedHolds` is for any number of writers. A put promises a deadline
with its push (`promised`); a get reads an entry under the lock and judges its age
after it, when the entry may be renewed, destroyed, or its version used again.
`PromisesKept` is the invariant: every stored entry, and every copy a get has
taken and not judged, still carries the value and deadline of some promise. Then
a get can only answer with what was promised, and only before the deadline.

**DiskVault.** `KvBounded` plays the part of `SeqBounded`. `LockInv` says who may
hold each mutex at each section, that word and key agree outside the two
assignments, and that a poisoned state mutex implies a poisoned key mutex. A put
or a get holds the key's mutex while somebody else has the state's, or nobody:
`require_active` has given that back. The invariant only says that such a thread
is at the section that uses the key. `KeyTracksStateHolds`, `PoisonedIsSealedHolds`
and `HandleOKHolds` follow for any number of threads. `TableInv` adds to `VersionsContiguous` and `AuditIsTruthful`
what a pending put knows about the table: a version it computed is at most one
above what is stored. The primary key does the rest, so
`DiskImplementsVersionedStore` has no premise about writers.

**SigningKeys** (in `Cepaf_proofs`). `CurrentInv`: with one rotator, no key is current while an
insert is pending. `HandoffInv`: kids in progress are apart from one another, a
reported kid is not being minted again, the put is before the purge. `SeedInv`
and `CurrentOrPending` carry the two fault-free properties.

**OrSet** (in `Cepaf_proofs`). `OrSetInv`: every value is *sound*, meaning its elements are the adds of
its history no remove had observed and its tombstones are the tags of those some
remove had; a tag identifies one add; tags are below their node's clock. The
last two are the documented precondition that tags are unique, and the add step
needs them: a new tag is in nobody's history, so no old remove can kill it.
`MergeAssociates` and `MergeCommutes` hold on all values; idempotence needs a
*clean* one (no element with a tombstoned tag), and every reachable value is.

**StsLimiter** (in `Cepaf_proofs`). `WindowInv`, with one caller: stamps still to be handled are in
order (`InOrder`) and none is before a handled one (`Past`), and an allowed call
that is no longer in the window is older by `WindowMs` than every stamp to come
(`Forgotten`). Then what `Pruned` counts is everything the span holds.
`RetryExactHolds` needs only that a window never outgrows the limit
(`SmallWindows`) and holds for any number of callers.

**RvMounts.** `RoutesOKHolds`: an engine has one route, for any paths and any
number of requests at a time, through storage errors, restarts and reloads. That
is not inductive: a route comes from a table, and a table from storage, from what
the monitor has read, or from an image some request is about to write. `IInv`
therefore says that there is one assignment `own` of keys to ids such that every
such copy has an id at most under its own key, for every id given out so far, with
a path in that key's table.
`Mount` extends `own`; nothing else changes it, since a remount renames the entry
and leaves the key. Routes set up from a table are then of different ids, and the
steps still to do (a set of steps `S` closed under what each leaves to do) move
a route only from the path it is at.

`ClearedNotServedHolds` and `RestartSafeHolds` are about the *order* in which
images reach storage. Their premise is one administrator (`SoleAdmin`): with several,
an older image may be written last. The second layer, `Settled`, holds on top of `IInv`
until a reload of the monitor has overlapped a request (`disturbed`):

- `InPlace`: memory, storage and router have an engine under one path, unless a
  remount has taken it from there (`Fixed`); a taint in storage is in memory too,
  since it gets there first.
- `Shown`: what is in a table and not tainted is served.
- `ClearedGone`: an engine whose view an unmount has begun to empty is `Gone`, that is,
  not served, and tainted in memory and in whatever storage has of it, so that no
  restart brings it back; again unless a remount has moved it.
- `Doing`: what the one request has still to do, by its first step, and what is so
  when it gets there (`AtTaint`, `AtPersist`, `AtPut`, `AtDetach`, `AtClear`, `AtRemove`,
  `AtRemount`, or `Resting`). A request about to `put` carries an `Exact` image of
  memory, because nobody else changes memory between `persist` and `put`; this is
  where one administrator is needed. In `Quiet` runs, without failures and remounts, it
  also says which single entry may be tainted at that step, and at rest none is.

A step that fails drops the rest of its request and ends `Quiet`; what is left to
show is the first three parts, which do not speak of what is still to do.
TLC checked `Settled` as an invariant of the `rv_mounts` instance before it was
proved.

**RvPolicy.** `StoreOKHolds`: a name on which no two calls have overlapped since
it was last clean is cached as it is stored and typed if stored; for any number
of writers and checkers, any documents, evictions, errors and restarts. `StoreOK`
speaks of names that nobody touches; the induction needs what a call in the
middle leaves for the end. `Apart`: of two calls on a clean name neither writes.
`WriterAlone`: a write that is still alone is the only call on its name. `StageOK`:
what a write has done so far, step by step. `FillOK`: a check about to fill the
cache carries, for a clean name, what is stored. `Agreed`: cache and type map
agree where no write is. A write that began on an unclean name and stayed alone
establishes all of it anew, which is why it mends what earlier races left.

`DecisionCurrentHolds`: what a check answers that no write of its policies
overlapped is what the stored documents grant, for any documents, tokens, requests
and calls. The answer is computed from what the check had, by merging one document
after another and asking the one rule that decides; what is promised (`Granted`)
is said of the set of stored documents, without an order. The proof has two parts.
`CheckInv`, inductive with the invariant above: a check no write overlaps has had,
of each name it is through with, the stored document and nothing else, and its
answer stays right as long as it stays alone. `AclSums`: the list that `ACL::new`
makes is the sum of the documents (`Sums`): a deny anywhere leaves nothing else,
without one capabilities and parameter lists add up. This is an induction over the
documents, and `AtMostOne` says that it does not matter in which order the rules
are walked. TLC checked `CheckInv` on the instance before it was proved.

`NarrowestDecidesHolds`: exactly one rule decides a path that some rule covers,
and no rule that covers the path and fewer paths than the one that decides is passed
over, unless it has more segment wildcards. The first half is `ExactlyOne`:
`Before` is asymmetric, transitive, and total among rules that cover one path. Two
that begin alike, count alike and are not ordered by their text are the same rule,
since a prefix of a segment is fixed by its length. For the second half, a rule j
whose paths are all covered by k also covers the shortest instances of itself
(`Instance`), with any segment in place of a wildcard; so j asks of each segment
what k asks, or, where k ends with "*", more (`Fixed`). Then j's first wildcard is
no earlier (`FixedFirst`), its characters less its wildcards are no fewer
(`FixedNet`), and where it has a wildcard in place of a literal it has more of
them (`FixedLex`): no clause of `Before` sorts it before k. A prefix rule that is
not the longest is no candidate at all; it too would have its first wildcard, the
end of its path, too early.

**AppRole.** Seven theorems, for any roles, role_ids, secret ids, callers, uses,
requests and failures: everything the run checks. In `AppRole` a task's program
counter is the sequence of steps it has still to take, so the invariant must first
say which sequences there are. `AppRoleInvariant` builds it in layers, and
`AppRole_proofs` shows that every step keeps each layer, given those before it.

1. `Shapes`: entries are typed; what a task has still to do is, by its first step
   and the locks it holds, one of the forms listed in `CallerBody` and `TidyBody`; a
   lock held for writing is held once. A task that asks for a role's lock holds
   none, and one that asks for a secret id's holds no other secret id's. From this
   alone follows `NoLockCycleHolds`: in a set of waiting tasks some one waits for a
   lock whose holders wait for nothing in the set.
2. `Secrets`: accessors are handed out in turn, each made for one secret id
   (`made`). `UsesOK` is the invariant behind `UsesBoundedHolds`: logins accepted,
   logins about to be accepted, and uses left in the entry never exceed `num_uses`.
   It is kept because a use is counted under the write lock from the entry as it is
   then (`Used`), which no other task can change meanwhile. `GoneOK` says that
   what was deleted by half is not usable, whichever half; with it a login that
   compares what was `gone` when it began ends in `GoneRefusedHolds`.
3. `Indexed`: a role is found by its role_id unless a task that holds the role's lock
   is about to write one of the two (`Moving`), an operation failed, or the
   role_id was contested (`outdated`). That holds only as long as one task at a time
   writes a role, which the lock does not ensure between two spellings of its name:
   `Indexed` begins with `outdated = Rid`, which `Lock` makes so when two tasks hold two
   spellings, and otherwise says that there is one (`Apiece`). `IndexAgreesHolds`.
4. `Kept`: a secret id without its accessor is being deleted under its lock, or
   something failed, or it was registered beside tidy (`overlap`); what tidy has
   listed as dangling has no entry (`NotNeeded`). `SecretHasAccessorHolds` and, with
   types and index, `EntriesOKHolds`.
5. `Tidied`: as long as nothing is registered beside it, whatever tidy promised when
   it began is gone or lies in what it has still to do (`ToDo`, `ToFind`); the
   accessors it skips are among those it listed, so equal counts mean equal sets
   (`Looked`), which is why comparing lengths is enough. `TidyCollectsHolds`.

Every action has a lemma that states its effect on the task that takes it
(`XEffect`, proved by `XMoves`); the layers' lemmas use that instead of the action.
The third layer is where the proof found the model wanting: with one role in the
instance the index had agreed by default, with two it does not (section 6).

**RvSeal.** Four theorems, for any number of shares, threshold, tasks, requests,
polynomials and failures: everything the run checks. `do_unseal`, `init` and `seal`
take no lock, so the theorems say which tasks may run at a time, and why that is
needed is a run away (section 6). As in `AppRole`, what a task has still to do is a
sequence of steps; `RvSealInvariant` says of it, by two conditions on single steps
and one on neighbours (`Ops`, `Proper`, `Follows`), what it may be and what its steps
carry. The layers:

1. `KeyInv`, with one task that unseals, any number that seal and write. Before it is
   initialised a vault serves nothing (`Blank`); a task between `do_unseal` and
   `Open` finds the barrier sealed (`Stages`), so a cipher that is used is that of
   the data key (`Barrier`). The set that do_unseal read before it unsealed, and
   writes back after, contains what is deprecated, since nobody else writes it; and
   a copy of the state that a task is to store holds no deprecated share (`Copy`).
   `KeysOKHolds` and `DeprecatedForGoodHolds`.
2. `TrackInv`, with one task that seals as well, and a threshold of 2 or a single
   share. The barrier opens only with the key the task goes on to store (`Right`).
   While a seal runs its steps come between those of the task that unseals:
   `Closing` follows the cipher and `Whole` the state through both, and both are
   waived from the moment the seal is seen to have hit a task half way (`cut`,
   `late`). `StateTracksBarrierHolds`. With two tasks that seal, one that found
   the barrier open runs into the next unseal, and TLC finds the state unsealed over
   a closed barrier after 33 steps. With 2 shares and threshold 1, init is refused
   by the split with the barrier and the state left open, after 11.
3. `RecoverInv`, on the first layer and `Right`, with any number of tasks that seal and a
   threshold of 2 or more: some polynomial is wholly in the operators' hands and not
   deprecated (`Usable`), or the task that makes one is about to (`generate`,
   `Inits`) and nothing but a failure or a seal can stop it: the state it finds is
   unsealed with the kek, or `Initialising`. `RecoverableHolds`. Without the
   premise it is false: with one share `unseal_once` deprecates it, and
   `generate_unseal_keys` then refuses to split the key for a threshold below 2.

**RvTokens.** Four theorems, for any tokens, secrets, requests, uses, times, errors
and crashes: every safety property the run checks. A task is a sequence of steps,
and what a handler leaves to do is interleaved with what others do, so none of the
four is inductive: a finished revocation is safe only if nobody still has a write
of the entry before him, a lease may go only if the token has gone or goes first.
`RvTokensInvariant` says, in layers, of each step wherever it stands in a task's
sequence, what is so now or which earlier step of the same task will make it so:

1. `Typed`: the steps come from some set of well-formed ones, with ids that have
   been generated; the checker works only with the lock and does nothing but
   revoke; what may stop a task with an error is not followed by a write that
   the error would lose (`Ordered`).
2. `Puts`: a pending write of an entry without use limit is the only one its
   token will see. A use that was counted writes back an entry with uses left,
   so never one of those (`PutOK`).
3. `Leased`: a token with a lease is `Final`, that is, generated and never
   written again; a lease is deleted, by any task, only after the entry is
   (`LeaseEndOK`), and a token is given to a client only after its lease is stored
   (`GiveOK`). `HeldTokenHasLeaseHolds`.
4. `Linked`: a stored child without use limit is listed under its parent, and
   unlinked only behind the delete of its entry (`UnlinkOK`), so `revoke_tree` finds it.
5. `Secrets`: a secret's lease is registered once (`RegisterOK`); it is in the index
   under its token, or a request is about to put it there, unless an operation
   failed (`LeaseIndexed`); the index loses it only behind the lease's own delete
   (`SecretOK`).
6. `Promises`: what a revocation will claim at its end is gone, or lies before
   the claim in what it has still to do, and cannot come back (`Final`,
   `Registered`). `RevokedStayRevokedHolds`.
7. `Watched`: a stored lease is in the queue or a request is about to queue it,
   unless a task has failed since the start; the checker takes one out only behind
   the lease's end (`PopOK`). With the first and the fifth layer `LeasesOKHolds`.
8. `Timely`: the queue's priority of a token's lease is the stored expiry, unless a
   renewal waits for the lock or has overlapped with another. What the checker is
   at was due when it looked, and time does not go back. `NoEarlyExpiryHolds`.

An action is replaced by its effect once (`Takes`, with `LeftBy` saying which
steps it leaves), and the layers use only that. The last layer is where the proof
found the property wanting: within the clock of the run two renewals that overlap
queue their times in an order that makes no difference, and one tick later they do
not (section 6); `raced` names the exception. Children and secrets are revoked in
any order storage may list them in (`Orders`), for which there must be finitely many.

**Assumptions.** Sentinels (`NoKey`, `Free`, `NoArg`, `None`, ...) are not real
values; `EmptyValue` is a value; ttls are integers; limit and window are positive;
a path's table does not depend on the paths below it; "is below" is transitive, as
it is for prefixes of strings. They are named `ASSUME`s in
the modules, and TLC evaluates them in the runs. For `AppRole`: finitely many
callers, since tasks about to be accepted are counted; names of roles are not keys of
secret ids (they lock different tables, `role_locks` and `secret_id_locks`); `Lower`
maps a name to a role and a role to itself. For `RvTokens`: tokens and secrets are
finitely many different numbers, leases last a natural number of ticks, and the
bounds are numbers. For `RvSeal`: the
bounds are numbers, and a task is of one kind. Premises about who runs
at a time (one rotator, one writer, one
administrator of mounts, one task that unseals) are stated in the theorems
that need them.

For `RvPolicy`: what is parsed is a document (finitely many rules, each key's
`wild` says whether it has a "+", a deny is alone; `ParsedIsDocument` shows that
parsing makes nothing else), rules have fewer segments than `MaxSegments`, which
bounds paths; starting with a segment behaves as prefixes of strings do: it is
reflexive, everything starts with "", which has no characters, a prefix is not
longer, and two prefixes of one segment that are equally long are equal; some
segment is not empty.

**Model-checked only.** The liveness properties `StateLockReleased`,
`ExpiredRevoked` and `MonitorHeals`, since liveness under fairness is out of the
prover's reach. Every safety and action property of a passing run is a theorem,
and so is the refinement of `VersionedStore`.

## 5. Correspondence, in brief

`PROJECT.json` maps each definition to its lines. The longest chains:

- `vault_unseal`: `UnsealCheck` (read the word) → `UnsealBegin` (Unsealing) →
  `UnsealStoreKey` or `UnsealWrongKey` → `UnsealFinish` (Active).
- `vault_kv_put`: `PutCheck` → `PutVersion` (lock, count, unlock) → `PutPush`
  (lock, push) → `AppendAudit`.
- `DiskVaultHandle::put`: `PutCheck` (require_active) → `PutKey` (take the key's
  mutex) → `PutEncrypt` (use the key, drop the guard, or panic with it) → `PutVersion` (SELECT) → `PutInsert` → `PutAudit` (best effort).
- `rotate_to_vault`: `RotateDemote` (UPDATE) → `RotateInsertKey` →
  `RotateInsertSeed` → `RotateInvalidate` → `HandoffPut` → `HandoffPurge`.
- `get_cached`: `JwksMiss` → `JwksPublish` (SELECT, no lock) → `JwksFill`.
- `handle_create` and what encloses it: `CheckToken` → (`LookupParent`,
  `PutParent`, `PutId` of `create`) → `create` of a second token → `RegisterAuth`
  → `Push` → `Give`.
- `revoke_lease_id`: `RevokeLeaseId` → `RevokeTreeStep` → `Revoke` → `Delete` →
  `DeleteParent` → `RevokeByToken` → … → `DeleteLeaseEntry` → `RemoveIndex` → `Push`.
- `unmount`: `Taint` → `Persist`, `Put` → `Detach` → `Clear` → `Remove` → `Persist`,
  `Put`.
- `login` of AppRole: `LoginIndex` → read lock of the role → `LoginRole` → read lock
  of the secret → `LoginSecret` → write lock → `LoginUse` → `Accept`.
- `do_unseal`: `DoUnseal` (copy of the state) → `Count` → `BarrierUnseal` →
  `InitCipher` → `Decrypt` → `Open` → `Opened` → `Deprecate` → `Generate` → `Load` →
  `TokenStore` → `AddHandler` → `Policy`.
- `get_policy`: `Look` → `Read` → `Retype` → `Fill`.

`jwks::get_cached`'s look at the age of the entry is `JwksExpire`, which may
happen at any time. `created_at` orders keys by a clock in seconds, so among
current keys `IssueLocal` may take any. External definitions (no source in the
repository): delivery and restart of OR-Set replicas, the limiter's callers and
their clock, the arrival of requests, clocks, storage errors and crashes.

## 6. Known divergences

Found while reading, and where possible reproduced by TLC. "Instance" says which
constants to change in which `.cfg`, and which definition is then violated.

### The C3I side

- Two processes unseal and seal: the handle ends Sealed, idle, with the key in
  RAM (`lib.rs:255`, although `:102` says "Zeroized on transition out"). Instance:
  `VaultNif_one.cfg`, two in `Lifecycle`, `SealedAndQuietHoldsNoKey`.
- Two puts choose one version before either pushes (`lib.rs:337`, `:104`
  "monotonic"). Instance: two in `Writers`, `VersionsIncrease`.
- A seal between `require_active` and the use of the key: `put` panics on its own
  `expect("require_active guarantees Some")` (`vault_handle.rs:172`). Instance:
  `DiskVault_locks.cfg`, `NeverPanics`.
- Two rotations both demote, then both insert: two current keys (`token.rs:124`).
  Instance: `SigningKeys_faults.cfg`, two in `Rotators`, `OneCurrent`.
- A cache fill that read before a rotation is stored after its invalidate
  (`jwks.rs:87`, `:86` "refresh under write lock"), and its age counts from the
  store (`:94`). Instance: the same cfg, `CachedJwksServesCurrent`.
- A late message of a second caller is judged against a window already pruned by
  a later stamp: more than the limit is allowed in one window
  (`sts_token_cache_actor.gleam:63`). Instance: `StsLimiter_one.cfg`, two in
  `Callers`, `WindowRespected`.
- `lib.rs:88` lists state transitions among the audit events; `vault_unseal` and
  `vault_seal` (227-289) append nothing.
- Destroying the newest version and putting again gives the new secret the old
  version number, in the RAM vault (`lib.rs:160-171`); `VersionedStore`
  therefore only promises versions above those still stored.
- `DiskVaultHandle::put` does not look at the state again after
  `require_active`: a row encrypted before a seal is stored after it
  (`vault_handle.rs:181`).
- A crash, or a failed audit insert, leaves a row without an audit row
  (`vault_handle.rs:182`, `237-247`). The converse never happens:
  `AuditIsTruthful`.
- A crash or a failure between the UPDATE and the INSERT of `token.rs:124-131`
  leaves a realm with no current key; `CurrentExists` is stated for behaviours
  without faults.
- After a reported handoff the only copy of a seed is in the RAM vault
  (`lifecycle.gleam:83-88`): a restart loses it. `SeedKept` is stated for
  behaviours without faults.
- The boot chain derives the master key under a salt generated at every boot,
  although `kek_chain.rs:76` says the caller persists it, and ignores the result
  of `vault.unseal` (`vault_supervisor.gleam:83`, `98`, `108`).
- Nothing sets `retired_at`, so keys never leave the JWKS although the rotation
  actor decides `RetireOld` after seven days.

### RustyVault: tokens and leases

- The checker's self-deadlock: section 3, `rv_tokens_expiry`.
- `post_route` gives the answer to `auth/token/create` a token of its own, without
  parent: revoking the maker's tree does not reach it.
- Two renewals at once may push their priorities in the other order than they
  stored the lease (`expiration.rs:289-290`, `:521-526`): the lease then ends at the
  earlier time, and the token with it, although the later renewal was answered.
  `NoEarlyExpiry` excepts a token whose renewals have overlapped since the start
  (`raced`), as it does one whose renewal still waits for the lock. Instance:
  `RvTokens.cfg`, `MaxTime = 3`, `NeverEarly`, after 21 steps.
- A use that was counted before a revocation writes the entry back after it
  (`token_store.rs:345-397`): a token with limited uses may survive. A failed
  revocation, tried again, finds no entry and skips the secret leases; the child
  of `handle_create` has no lease.
- The async `revoke_tree_salted` lists the children without the trailing "/" that
  the sync one has (`token_store.rs:481`, `:500`): with a backend that lists by
  prefix, as the SQL ones, the names found are wrong and children stay. The file
  backend is assumed.
- `sys/renew`, `sys/revoke` and `sys/revoke-prefix` do nothing
  (`modules/system/mod.rs:442-461`); `renew` and `revoke_prefix` of the expiration
  manager have no caller; `calculate_ttl` panics past the longest time it admits.

### RustyVault: mounts

- A remounted engine keeps its old key in the table (`mount.rs:612`). To unmount it
  at its new path then neither taints nor deletes the entry; to mount at the old
  path overwrites it. Instance: `RvMounts.cfg`, `MoveSurvives`. Two entries with one
  path make every later unseal fail.
- A remount below another engine's path fails after it has tainted the entry in
  memory; to disable an auth method at its old path taints it in storage, and the
  next unseal fails.
- "team/a", then "team", may be mounted; which of them a setup accepts depends on
  the order of a hash map.
- The monitor compares sizes only: tables of equal size with different engines
  are never reloaded. Its reload, beside a request, may drop a mount that is not
  stored yet, serve an engine that is being emptied, or bring one back that was
  removed. `disturbed` excepts these.
- Two requests store the images they took in either order: the older may win.
- Any error in loading the auth table writes the default one over it
  (`modules/auth/mod.rs:257-265`).

### RustyVault: AppRole

- tidy may delete the accessor of a secret id that was registered while it ran;
  the comment says "at worst this may mean that we fail to clean up something we
  ought to" (`path_tidy_secret_id.rs:163-166`), but the login then refuses it.
  Instance: `AppRole.cfg`, `TidySpares`.
- A secret id without ttl expires when it is made (`validation.rs`,
  `register_secret_id_entry`), so the first tidy removes it; a login does not look
  at the expiry, although `path_login.rs:119` says so; no periodic function runs
  tidy, although `validation.rs:49-51` says each minute.
- `read_role`'s repair looks at the index again and not at the role: it may index a
  role_id its role no longer has (`outdated`). A flush leaves accessors. A secret
  id registered again with no limit while a login counts may be counted below
  nought.
- A role_id is looked up and, later, written (`path_role.rs:1031-1052`) under the
  lock of the role's name; nothing locks the role_id itself (`role_id_locks`,
  `approle/mod.rs:95`, is never taken). Two new roles that ask for one role_id at the same
  time may both find it free and both take it: the index then leads to the one that
  wrote last, and both roles say they have it. `Contested` puts such a role_id into
  `outdated`, which `IndexAgrees` excepts; without the exception TLC finds the
  race in two requests at the instance `AppRole.cfg`.
- A role is stored under its name in small letters (`path_role.rs:978`, `1047`), its
  lock is that of the name as the request spells it (`:1076`, `1179`, `1241`, `1450`;
  `locks.rs:31`). "Web" and "web" are one role with two locks: two requests that write
  it under the two spellings interleave, and may leave the role with one role_id and
  the index with another; `outdated` excepts every role_id from the moment two tasks
  hold such locks for writing. Instance: `AppRole.cfg` with `Respelt` false, where TLC
  finds role web with role_id x while y leads to it, after 11 steps.
- The handlers of single fields index a role_id under the name as spelt (`:1303`,
  `1324`, `1513`, `1583`). A role that got its role_id as "Web" is then refused as
  "web", the role_id being "already in use", until it gets another one.

### RustyVault: seal and unseal

- Two shares at a time: each copies the state and stores its copy, and one is
  lost. Two unsealers also write the deprecated set over each other
  (`core.rs:454`). Instance: `RvSeal.cfg`, two in `Unsealers`, none in `Clients`,
  `MaxFaults = 0`, `DeprecatedForGood`.
- `barrier.unseal` says Ok when the barrier is open, whatever the key: a second,
  wrong combination is then kept as the kek and split by `unseal_once`.
- A failed `post_unseal` leaves the barrier open with the state sealed; a `seal`
  then panics if the token store was never set (`modules/auth/mod.rs:361`). A seal
  beside an unseal leaves the handler installed.
- A storage error in reading the deprecated set is passed over (`blind`);
  `unseal_once` deprecates before it has made new shares, so an error in between
  leaves the operators with none (`Recoverable` excepts errors). Shares of the old
  polynomial that were not used stay good, although `core.rs:457` says otherwise.
- `SealConfig::validate` accepts a threshold of 1, `ShamirSecret::split` does not
  (`shamir.rs:164`). With several shares `init` then fails after the barrier was
  opened and the state stored, before its `defer!`: both stay open (`core.rs:203-216`).
  With one share `unseal_once` deprecates it and makes no other: after the next seal
  nothing opens the vault. Instances: `RvSeal.cfg` with `N = 2`, `T = 1`
  and `StateTracksBarrier`; `N = 1`, `T = 1` and `Recoverable`.
- Two seals at a time: one goes on into the unseal that follows the other. Instance:
  `RvSeal.cfg`, two in `Sealers`, `StateTracksBarrier`.
- A threshold of 0 is accepted; two initialisations at a time overwrite each other.

### RustyVault: policies

- `get_policy` fills the cache after it has read storage, no lock held: with a
  write or delete in between the old policy stays in force until a write that is
  alone, an eviction or a restart. Two writes may leave one in storage and the
  other in the cache. A refused cache insert fails a write that is stored.
- A token that names a deleted policy is refused everything
  (`policy_store.rs:342-344`), one whose name still has a type is not; a token
  without policies is not checked at all (`:648-650`).
- A path given twice in a document keeps the capabilities of the first alone, also
  when the second denies; only parameters are merged (`policy.rs:264-299`). Documents
  here have one rule for a path. The larger of two wrapping ttls is kept, the comment says
  the smaller (`:519-530`). A narrower rule with more "+" loses to a wider one with
  fewer, which `NarrowestDecides` excepts. `has_mount_access` underflows on a path
  without slash (`acl.rs:360`).

## 7. What the models leave out

Cryptography is symbolic; signatures always verify under their key and nothing
else, shares combine or they do not. Wall clocks are monotone. Token expiry, KEK
derivation, the text of audit rows, the other kinds of secret in `vault_bridge`,
and the transport of OR-Set values are abstracted or absent. A poisoned
`audit_log` lock of the RAM vault is not modelled: nothing panics while it is held.
Memory exhaustion is not modelled.

Of RustyVault: leases all last as long; renewal's policy checks, CIDRs, metadata,
periods and wrapping are left out; backends' own state but AppRole's; HMACs of
mount entries and the tables' legacy formats; RGP and EGP policies, which are
stubs; the buffering inside the cache library; HCL as text. In `RvSeal` the storage
does not fail in `barrier.unseal`'s own read of the key record, nor as `init` makes
the root token; and the policy module's handler, which a seal beside an unseal may
find already there (`core.rs:277-281`), is not refused.

## 8. What could come next

In this order, if the code grows towards it or larger instances are wanted:

1. A queue module for `scim.rs`, once something drains it: at most three attempts,
   no operation forgotten before it is done or given up.
2. A clock in `SigningKeys` for the age of the cache and the overlap window.
3. Two replicas of the spatial CRDT, once something merges them.
