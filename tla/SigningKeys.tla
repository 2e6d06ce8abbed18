---------------------------- MODULE SigningKeys ----------------------------
(***************************************************************************)
(* Signing keys of one realm: rotation, the handoff of the private seed to *)
(* the vault, the JWKS cache and the issue of tokens                       *)
(* (lib/cepaf_gleam/native/ferriskey_nif/src/token.rs and jwks.rs,         *)
(* lib/cepaf_gleam/src/cepaf_gleam/iam/lifecycle.gleam).                   *)
(*                                                                         *)
(* Every SQL statement commits on its own: no transaction spans two of     *)
(* them, so another call, a failure or a crash can fall between any two.   *)
(* The tables survive a crash; the JWKS cache and the vault are in RAM     *)
(* (VaultNif) and do not.                                                  *)
(*                                                                         *)
(* A key is its kid.  rotated_at is membership of "current"; nothing in    *)
(* the code ever sets retired_at, so every key of the table is published.  *)
(***************************************************************************)
EXTENDS Integers, FiniteSets

CONSTANTS
  Rotators,     \* callers of signing_key_rotate and rotate_to_vault
  JwksReaders,  \* callers of jwks_get_cached
  Issuers,      \* callers of token_issue and issue_via_vault
  Kids,         \* bound: the key ids rotations can mint
  NoCache,      \* no live entry of the realm in CACHE
  NoArg,        \* arg[p] of a caller that is in no call
  MaxFailures,  \* bound: SQL and vault calls that fail
  MaxCrashes    \* bound: crashes of the BEAM

Procs == Rotators \cup JwksReaders \cup Issuers

ASSUME SentinelAssumption == NoArg \notin Kids

VARIABLES
  keys,      \* table signing_keys
  current,   \* ... its rows with rotated_at IS NULL
  secrets,   \* table signing_key_secrets: kids whose seed is in SQLite
  vault,     \* kids whose seed is in the RAM vault
  cache,     \* the kids of the cached JWKS
  handoffs,  \* VaultHandoffs rotate_to_vault has returned to its callers
  issued,    \* kids in the headers of issued tokens
  pc, arg,   \* the next step of each caller's call, what it carries
  failures, crashes

tables == <<keys, current, secrets>>
vars == <<keys, current, secrets, vault, cache, handoffs, issued, pc, arg, failures, crashes>>

Init ==
  /\ keys = {} /\ current = {} /\ secrets = {}
  /\ vault = {} /\ cache = NoCache
  /\ handoffs = {} /\ issued = {}
  /\ pc = [p \in Procs |-> "idle"]
  /\ arg = [p \in Procs |-> NoArg]
  /\ failures = 0 /\ crashes = 0

Step(p, from, to, a) ==
  /\ pc[p] = from
  /\ pc' = [pc EXCEPT ![p] = to]
  /\ arg' = [arg EXCEPT ![p] = a]
  /\ UNCHANGED <<failures, crashes>>

-----------------------------------------------------------------------------
(* token::rotate: UPDATE, INSERT, INSERT; then jwks::invalidate. *)

RotateSteps == {"insert_key", "insert_seed", "invalidate", "vault_put", "purge"}

Minting(k) == \E p \in Procs : pc[p] \in RotateSteps /\ arg[p] = k

(* Mutant: the old current key is not demoted. *)
RotateKeepsCurrent(p) ==
  \E k \in Kids \ keys :
    /\ ~Minting(k)
    /\ Step(p, "idle", "insert_key", k)
    /\ UNCHANGED <<tables, vault, cache, handoffs, issued>>

(* A fresh keypair; UPDATE ... SET rotated_at where it is NULL. *)
RotateDemote(p) ==
  \E k \in Kids \ keys :
    /\ ~Minting(k)
    /\ Step(p, "idle", "insert_key", k)
    /\ current' = {}
    /\ UNCHANGED <<keys, secrets, vault, cache, handoffs, issued>>

(* Mutant: the new row arrives with rotated_at set. *)
RotateInsertDemoted(p) ==
  /\ Step(p, "insert_key", "insert_seed", arg[p])
  /\ keys' = keys \cup {arg[p]}
  /\ UNCHANGED <<current, secrets, vault, cache, handoffs, issued>>

RotateInsertKey(p) ==
  /\ Step(p, "insert_key", "insert_seed", arg[p])
  /\ keys' = keys \cup {arg[p]}
  /\ current' = current \cup {arg[p]}
  /\ UNCHANGED <<secrets, vault, cache, handoffs, issued>>

RotateInsertSeed(p) ==
  /\ Step(p, "insert_seed", "invalidate", arg[p])
  /\ secrets' = secrets \cup {arg[p]}
  /\ UNCHANGED <<keys, current, vault, cache, handoffs, issued>>

(* The HTTP endpoint stops here; rotate_to_vault goes on to the handoff.   *)
RotateInvalidate(p) ==
  /\ \/ Step(p, "invalidate", "idle", NoArg)
     \/ Step(p, "invalidate", "vault_put", arg[p])
  /\ cache' = NoCache
  /\ UNCHANGED <<tables, vault, handoffs, issued>>

(* Mutant: purge first, put afterwards. *)
HandoffPurgeFirst(p) ==
  /\ Step(p, "vault_put", "purge", arg[p])
  /\ secrets' = secrets \ {arg[p]}
  /\ UNCHANGED <<keys, current, vault, cache, handoffs, issued>>

HandoffPut(p) ==
  /\ Step(p, "vault_put", "purge", arg[p])
  /\ vault' = vault \cup {arg[p]}
  /\ UNCHANGED <<tables, cache, handoffs, issued>>

(* Mutant: the handoff is reported although the purge was skipped. *)
HandoffUnpurged(p) ==
  /\ Step(p, "purge", "idle", NoArg)
  /\ handoffs' = handoffs \cup {arg[p]}
  /\ UNCHANGED <<tables, vault, cache, issued>>

HandoffPurge(p) ==
  /\ Step(p, "purge", "idle", NoArg)
  /\ secrets' = secrets \ {arg[p]}
  /\ handoffs' = handoffs \cup {arg[p]}
  /\ UNCHANGED <<keys, current, vault, cache, issued>>

(* The statement, or the vault call, of the next step fails (database      *)
(* busy, vault sealed): the call returns the error and undoes nothing.     *)
RotateFails(p) ==
  /\ pc[p] \in {"insert_key", "insert_seed", "vault_put", "purge"}
  /\ failures < MaxFailures
  /\ failures' = failures + 1
  /\ pc' = [pc EXCEPT ![p] = "idle"]
  /\ arg' = [arg EXCEPT ![p] = NoArg]
  /\ UNCHANGED <<tables, vault, cache, handoffs, issued, crashes>>

-----------------------------------------------------------------------------
(* jwks::get_cached: look under the read lock, read the table with no lock *)
(* held, store under the write lock.                                       *)

JwksMiss(p) ==
  /\ cache = NoCache
  /\ Step(p, "idle", "publish", NoArg)
  /\ UNCHANGED <<tables, vault, cache, handoffs, issued>>

JwksPublish(p) ==
  /\ Step(p, "publish", "fill", keys)
  /\ UNCHANGED <<tables, vault, cache, handoffs, issued>>

JwksFill(p) ==
  /\ Step(p, "fill", "idle", NoArg)
  /\ cache' = arg[p]
  /\ UNCHANGED <<tables, vault, handoffs, issued>>

(* The entry reaches TTL_MS: the next reader finds it stale. *)
JwksExpire ==
  /\ cache # NoCache
  /\ cache' = NoCache
  /\ UNCHANGED <<tables, vault, handoffs, issued, pc, arg, failures, crashes>>

-----------------------------------------------------------------------------
(* token::issue picks a current key with a local seed in one query.  (The  *)
(* order is by created_at, a wall clock in seconds: any of them.)          *)
IssueLocal(p) ==
  /\ pc[p] = "idle"
  /\ \E k \in current \cap secrets : issued' = issued \cup {k}
  /\ UNCHANGED <<tables, vault, cache, handoffs, pc, arg, failures, crashes>>

(* issue_via_vault: the seed from the vault, then issue_with_seed, which   *)
(* signs if the handoff's key is current.                                  *)
IssueFetchSeed(p) ==
  \E k \in handoffs \cap vault :
    /\ Step(p, "idle", "sign", k)
    /\ UNCHANGED <<tables, vault, cache, handoffs, issued>>

IssueWithSeed(p) ==
  /\ Step(p, "sign", "idle", NoArg)
  /\ issued' = IF arg[p] \in current THEN issued \cup {arg[p]} ELSE issued
  /\ UNCHANGED <<tables, vault, cache, handoffs>>

-----------------------------------------------------------------------------
(* The BEAM dies: calls, handoffs, cache and the RAM vault are gone.       *)
Crash ==
  /\ crashes < MaxCrashes
  /\ crashes' = crashes + 1
  /\ vault' = {} /\ cache' = NoCache /\ handoffs' = {}
  /\ pc' = [p \in Procs |-> "idle"]
  /\ arg' = [p \in Procs |-> NoArg]
  /\ UNCHANGED <<tables, issued, failures>>

RotatorStep(p) ==
  \/ RotateDemote(p) \/ RotateInsertKey(p) \/ RotateInsertSeed(p)
  \/ RotateInvalidate(p) \/ HandoffPut(p) \/ HandoffPurge(p)
  \/ RotateFails(p)

JwksStep(p) == JwksMiss(p) \/ JwksPublish(p) \/ JwksFill(p)

IssuerStep(p) == IssueLocal(p) \/ IssueFetchSeed(p) \/ IssueWithSeed(p)

Next ==
  \/ \E p \in Rotators : RotatorStep(p)
  \/ \E p \in JwksReaders : JwksStep(p)
  \/ \E p \in Issuers : IssuerStep(p)
  \/ JwksExpire
  \/ Crash

Spec == Init /\ [][Next]_vars

-----------------------------------------------------------------------------
(* Properties *)

Steps == RotateSteps \cup {"idle", "publish", "fill", "sign"}

ArgTyped(p) ==
  /\ pc[p] \in RotateSteps \cup {"sign"} => arg[p] \in Kids
  /\ pc[p] = "fill" => arg[p] \in SUBSET Kids

(* Types of the tables, the RAM state and what pending calls carry.        *)
TypeOK ==
  /\ keys \subseteq Kids /\ current \subseteq keys
  /\ secrets \subseteq Kids /\ vault \subseteq Kids
  /\ cache = NoCache \/ cache \subseteq Kids
  /\ handoffs \subseteq Kids /\ issued \subseteq Kids
  /\ pc \in [Procs -> Steps] /\ DOMAIN arg = Procs
  /\ \A p \in Procs : ArgTyped(p)
  /\ failures \in Nat /\ crashes \in Nat

NoRotation == \A p \in Procs : pc[p] \notin RotateSteps

(* "rotation creates a `current` key and demotes the old `current`"        *)
(* (SC-FERRISKEY-NIF-008): never two current keys at once.                 *)
OneCurrent == \A k, l \in current : k = l

Faultless == failures = 0 /\ crashes = 0

(* The same sentence's other half: once a key has been minted, whenever no *)
(* rotation is in progress there is a current key to sign with, as long as *)
(* no statement has failed and nothing has crashed.                        *)
CurrentExists == (Faultless /\ NoRotation /\ keys # {}) => current # {}

(* validate() finds the public key of every token ever issued: rotation    *)
(* and failures never drop a row a token refers to.                        *)
TokensVerify == issued \subseteq keys

(* The tables are well typed, with at most one current key and the row of   *)
(* every key that has signed, through failed statements and crashes.        *)
TableOK == TypeOK /\ OneCurrent /\ TokensVerify

(* A key's seed is in SQLite or in the vault from the moment the row is    *)
(* complete: the handoff never leaves it nowhere.  (A failed insert or a   *)
(* restart of the RAM vault does.)                                         *)
SeedKept ==
  Faultless => \A k \in keys :
    k \in secrets \cup vault \/ \E p \in Procs : pc[p] = "insert_seed" /\ arg[p] = k

(* "no plaintext outside vault store" (SC-FERRISKEY-NIF-010): a handoff    *)
(* that was reported has its seed in the vault and no longer in SQLite.    *)
HandoffComplete == handoffs \subseteq (vault \ secrets) \cap keys

(* "Refresh under write lock", "force-evict the cache after rotate": with  *)
(* no rotation in progress the cached JWKS holds the current key, so       *)
(* relying parties can verify what is being issued.  A fill that overtakes *)
(* a rotation breaks it: README, Known divergences.                        *)
CachedJwksServesCurrent == (NoRotation /\ cache # NoCache) => current \subseteq cache
=============================================================================
