------------------------------- MODULE RvSeal -------------------------------
(***************************************************************************)
(* Initialising, unsealing and sealing the vendored RustyVault             *)
(* (rusty_vault_vendored/src/core.rs, shamir.rs,                           *)
(* storage/barrier_aes_gcm.rs, modules/auth/mod.rs).                       *)
(*                                                                         *)
(* Core holds no lock: work[p] is what task p has still to do, step by     *)
(* step, and do_unseal carries a copy of the state from its beginning to   *)
(* its end.  A share is <<k, g, i>>, the i-th point of the g-th polynomial *)
(* for the key encryption key k; T points of one polynomial give k, others *)
(* a key that opens nothing.  recordKey is the k that encrypts the stored  *)
(* key, Enc, under which the data is stored.                               *)
(***************************************************************************)
EXTENDS Integers, Sequences, FiniteSets, SequencesExt

CONSTANTS
  N, T,       \* SealConfig: secret_shares, secret_threshold
  Unsealers,  \* tasks that initialise and unseal
  Sealers,    \* tasks that seal
  Clients,    \* tasks that write through handle_request
  MaxGen,     \* bound: polynomials made
  MaxOps,     \* bound: calls
  MaxFaults   \* bound: storage errors and crashes

ASSUME ConfigAssumption == N \in Nat /\ T \in 1..N
ASSUME BoundAssumption == MaxGen \in Nat \ {0} /\ MaxOps \in Nat /\ MaxFaults \in Nat
ASSUME ProcAssumption ==
  Unsealers \cap Sealers = {} /\ Clients \cap (Unsealers \cup Sealers) = {}

VARIABLES
  recordKey,  \* core/barrier/init: the k it is encrypted with, 0 if it is not there
  deprecated, \* core/used-unseal-keys-set
  barrier,    \* barrier_info: sealed, key
  state,      \* CoreState: sealed, unseal_key_shares, kek
  mounted,    \* core.router has routes
  handler,    \* the token store is among core.handlers
  made,       \* AuthModule.token_store is set; it is never unset
  work,
  gen,        \* polynomials made
  handed,     \* shares returned to an operator
  written,    \* history: the keys that entries were stored under
  blind,      \* history: do_unseal could not read the deprecated set
  cut,        \* history: a seal came while a task was initialising or unsealing
  late,       \* history: init closed the barrier while a seal was under way
  ops, faults

vars == <<recordKey, deprecated, barrier, state, mounted, handler, made, work, gen,
          handed, written, blind, cut, late, ops, faults>>

Proc == Unsealers \cup Sealers \cup Clients
Key == 1..MaxGen                       \* init makes a key with its polynomial
Share == Key \X (1..MaxGen) \X (1..N)
(* Other keys of the cipher: none, one that opens nothing, the data key. *)
None == 0
Wrong == -1
Enc == -2
Cipher == Key \cup {None, Wrong, Enc}

CoreState == [sealed : BOOLEAN, shares : Seq(Share), kek : Key \cup {None, Wrong}]
DefaultState == [sealed |-> TRUE, shares |-> <<>>, kek |-> None]

Polynomial(k, g) == {<<k, g, i>> : i \in 1..N}

Init ==
  /\ \/ recordKey = 0 /\ handed = {} /\ gen = 0
     \/ recordKey = 1 /\ handed = Polynomial(1, 1) /\ gen = 1
  /\ deprecated = {}
  /\ barrier = [sealed |-> TRUE, key |-> None]
  /\ state = DefaultState
  /\ mounted = FALSE /\ handler = FALSE /\ made = FALSE
  /\ work = [p \in Proc |-> <<>>]
  /\ written = {} /\ blind = FALSE /\ cut = FALSE /\ late = FALSE
  /\ ops = 0 /\ faults = 0

-----------------------------------------------------------------------------
At(p, op) == work[p] # <<>> /\ Head(work[p])[1] = op
Arg(p, i) == Head(work[p])[i]
Then(p, steps) == work' = [work EXCEPT ![p] = steps \o Tail(@)]
Refuse(p) == work' = [work EXCEPT ![p] = <<>>]

modules == <<mounted, handler, made>>
storage == <<recordKey, deprecated, written>>
operators == <<gen, handed, ops>>
ghosts == <<blind, cut, late, faults>>

Request(p, steps) ==
  /\ work[p] = <<>> /\ ops < MaxOps
  /\ ops' = ops + 1
  /\ work' = [work EXCEPT ![p] = steps]
  /\ UNCHANGED <<storage, barrier, state, modules, gen, handed, ghosts>>

-----------------------------------------------------------------------------
(* AESGCMBarrier.                                                          *)

(* barrier.unseal with key k, for a task that falls back on old. *)
unseal(k, old) == <<"unseal", k, old>>

(* Mutant: the barrier is opened before the key is there. *)
BarrierUnsealOpensFirst(p) ==
  /\ At(p, "unseal")
  /\ Then(p, IF barrier.sealed
             THEN <<<<"open">>, <<"init_cipher", Arg(p, 2)>>, <<"decrypt", Arg(p, 2), Arg(p, 3)>>>>
             ELSE <<>>)
  /\ UNCHANGED <<storage, barrier, state, modules, operators, ghosts>>

BarrierUnseal(p) ==
  /\ At(p, "unseal")
  /\ Then(p, IF barrier.sealed
             THEN <<<<"init_cipher", Arg(p, 2)>>, <<"decrypt", Arg(p, 2), Arg(p, 3)>>>>
             ELSE <<>>)
  /\ UNCHANGED <<storage, barrier, state, modules, operators, ghosts>>

InitCipher(p) ==
  /\ At(p, "init_cipher")
  /\ barrier' = [barrier EXCEPT !.key = Arg(p, 2)]
  /\ Then(p, <<>>)
  /\ UNCHANGED <<storage, state, modules, operators, ghosts>>

(* With a wrong key the cipher keeps it, and the caller stores its copy of  *)
(* the state without shares.                                                *)
Decrypt(p) ==
  /\ At(p, "decrypt")
  /\ IF Arg(p, 2) = recordKey
     THEN Then(p, <<<<"open">>>>) /\ barrier' = [barrier EXCEPT !.key = Enc]
          /\ UNCHANGED state
     ELSE Refuse(p) /\ state' = Arg(p, 3) /\ UNCHANGED barrier
  /\ UNCHANGED <<storage, modules, operators, ghosts>>

Open(p) ==
  /\ At(p, "open")
  /\ barrier' = [barrier EXCEPT !.sealed = FALSE]
  /\ Then(p, <<>>)
  /\ UNCHANGED <<storage, state, modules, operators, ghosts>>

(* reset_cipher, then sealed: AESGCMBarrier::seal. *)
ResetCipher(p) ==
  /\ At(p, "reset_cipher")
  /\ barrier' = [barrier EXCEPT !.key = None]
  /\ Then(p, <<>>)
  /\ UNCHANGED <<storage, state, modules, operators, ghosts>>

Close(p) ==
  /\ At(p, "close")
  /\ barrier' = [barrier EXCEPT !.sealed = TRUE]
  /\ Then(p, <<>>)
  /\ UNCHANGED <<storage, state, modules, operators, ghosts>>

-----------------------------------------------------------------------------
(* Core::do_unseal.                                                        *)

Submit(p) ==
  /\ p \in Unsealers
  /\ \E x \in handed, once \in BOOLEAN :
       /\ once => gen < MaxGen
       /\ Request(p, <<<<"do_unseal", x, once>>>>)

DoUnseal(p) ==
  /\ At(p, "do_unseal")
  /\ IF recordKey = 0 \/ ~barrier.sealed THEN Refuse(p)
     ELSE Then(p, <<<<"count", Arg(p, 2), Arg(p, 3), state>>>>)
  /\ UNCHANGED <<storage, barrier, state, modules, operators, ghosts>>

(* ShamirSecret::combine: no two points with one index. *)
Combinable(shares) == \A i, j \in DOMAIN shares : i # j => shares[i][3] # shares[j][3]
Combined(shares) ==
  IF Cardinality({<<shares[i][1], shares[i][2]>> : i \in DOMAIN shares}) = 1
  THEN shares[1][1] ELSE Wrong

Cleared(s) == [s EXCEPT !.shares = <<>>]

Enough(shares) == Len(shares) >= T

(* An error of the read of the deprecated set is passed over. *)
Refused(x, readable) == readable /\ x \in deprecated

(* From the copy of the state to barrier.unseal.                            *)
Count(p) ==
  /\ At(p, "count")
  /\ \E readable \in BOOLEAN :
       LET x == Arg(p, 2) old == Arg(p, 4) shares == Append(old.shares, x) IN
         /\ \/ readable /\ UNCHANGED <<faults, blind>>
            \/ ~readable /\ faults < MaxFaults /\ faults' = faults + 1 /\ blind' = TRUE
         /\ IF x \in ToSet(old.shares) \/ Refused(x, readable)
            THEN Refuse(p) /\ UNCHANGED state
            ELSE IF ~Enough(shares)
            THEN Refuse(p) /\ state' = [old EXCEPT !.shares = shares]
            ELSE IF ~Combinable(shares)
            THEN Refuse(p) /\ state' = Cleared(old)
            ELSE /\ Then(p, <<unseal(Combined(shares), Cleared(old)),
                              <<"opened", shares, Arg(p, 3), readable, deprecated>>>>)
                 /\ UNCHANGED state
  /\ UNCHANGED <<storage, barrier, modules, operators, cut, late>>

post_unseal(inInit) ==
  <<<<"load", inInit>>, <<"token_store", inInit>>, <<"handler", inInit>>, <<"policy", inInit>>>>

(* Mutant: the set that was read is forgotten. *)
renewalOwnOnly(shares, once, readable, set) ==
  (IF once /\ readable THEN <<<<"deprecate", ToSet(shares)>>>> ELSE <<>>)
  \o (IF once THEN <<<<"generate">>>> ELSE <<>>)

(* An unreadable deprecated set is not written either. *)
renewal(shares, once, readable, set) ==
  (IF once /\ readable THEN <<<<"deprecate", set \cup ToSet(shares)>>>> ELSE <<>>)
  \o (IF once THEN <<<<"generate">>>> ELSE <<>>)

(* Mutant: kek is not stored. *)
OpenedForgetsKek(p) ==
  /\ At(p, "opened")
  /\ IF barrier.sealed \/ barrier.key = None THEN Refuse(p) /\ UNCHANGED state
     ELSE /\ state' = [sealed |-> FALSE, shares |-> <<>>, kek |-> None]
          /\ Then(p, post_unseal(FALSE)
                     \o renewal(Arg(p, 2), Arg(p, 3), Arg(p, 4), Arg(p, 5)))
  /\ UNCHANGED <<storage, barrier, modules, operators, ghosts>>

(* derive_hmac_key fails on a barrier sealed since; the shares stay then.   *)
Opened(p) ==
  /\ At(p, "opened")
  /\ IF barrier.sealed \/ barrier.key = None THEN Refuse(p) /\ UNCHANGED state
     ELSE /\ state' = [sealed |-> FALSE, shares |-> <<>>, kek |-> Combined(Arg(p, 2))]
          /\ Then(p, post_unseal(FALSE)
                     \o renewal(Arg(p, 2), Arg(p, 3), Arg(p, 4), Arg(p, 5)))
  /\ UNCHANGED <<storage, barrier, modules, operators, ghosts>>

Deprecate(p) ==
  /\ At(p, "deprecate")
  /\ deprecated' = Arg(p, 2)
  /\ Then(p, <<>>)
  /\ UNCHANGED <<recordKey, written, barrier, state, modules, operators, ghosts>>

(* generate_unseal_keys for unseal_once; ShamirSecret::split refuses T < 2. *)
Generate(p) ==
  /\ At(p, "generate")
  /\ IF state.sealed \/ state.kek = None \/ T < 2 \/ gen = MaxGen
     THEN UNCHANGED <<gen, handed>>
     ELSE /\ gen' = gen + 1
          /\ handed' = IF state.kek = Wrong THEN handed
                       ELSE handed \cup Polynomial(state.kek, gen + 1)
  /\ Then(p, <<>>)
  /\ UNCHANGED <<storage, barrier, state, modules, ops, ghosts>>

-----------------------------------------------------------------------------
(* Core::post_unseal.                                                      *)

Sealing == \E q \in Sealers : work[q] # <<>>

Readable == ~barrier.sealed /\ barrier.key = Enc

(* Mutant: the state is left unsealed. *)
PostFailedOpen(p) ==
  /\ Refuse(p)
  /\ IF Arg(p, 2)
     THEN barrier' = [sealed |-> TRUE, key |-> None] /\ state' = DefaultState
     ELSE UNCHANGED <<barrier, state>>
  /\ late' = (late \/ (Arg(p, 2) /\ Sealing))

(* do_unseal takes back the state, not the barrier; init seals both. *)
PostFailed(p) ==
  /\ Refuse(p)
  /\ state' = DefaultState
  /\ barrier' = IF Arg(p, 2) THEN [sealed |-> TRUE, key |-> None] ELSE barrier
  /\ late' = (late \/ (Arg(p, 2) /\ Sealing))

(* load_or_default and setup: a route that is there is a conflict. *)
Load(p) ==
  /\ At(p, "load")
  /\ IF Readable /\ ~mounted
     THEN mounted' = TRUE /\ Then(p, <<>>) /\ UNCHANGED <<barrier, state, late>>
     ELSE PostFailed(p) /\ UNCHANGED mounted
  /\ UNCHANGED <<storage, handler, made, operators, blind, cut, faults>>

(* AuthModule::init up to the token store, *)
TokenStore(p) ==
  /\ At(p, "token_store")
  /\ IF Readable
     THEN made' = TRUE /\ Then(p, <<>>) /\ UNCHANGED <<barrier, state, late>>
     ELSE PostFailed(p) /\ UNCHANGED made
  /\ UNCHANGED <<storage, mounted, handler, operators, blind, cut, faults>>

(* and from load_auth to add_handler. *)
AddHandler(p) ==
  /\ At(p, "handler")
  /\ IF Readable /\ ~handler
     THEN handler' = TRUE /\ Then(p, <<>>) /\ UNCHANGED <<barrier, state, late>>
     ELSE PostFailed(p) /\ UNCHANGED handler
  /\ UNCHANGED <<storage, mounted, made, operators, blind, cut, faults>>

(* PolicyModule::init, the last. *)
Policy(p) ==
  /\ At(p, "policy")
  /\ IF Readable THEN Then(p, <<>>) /\ UNCHANGED <<barrier, state, late>> ELSE PostFailed(p)
  /\ UNCHANGED <<storage, modules, operators, blind, cut, faults>>

-----------------------------------------------------------------------------
(* Core::init.                                                             *)

Initialise(p) ==
  /\ p \in Unsealers /\ gen < MaxGen
  /\ Request(p, IF recordKey # 0 THEN <<>> ELSE <<<<"put_config">>>>)

(* The seal configuration and an empty deprecated set. *)
PutConfig(p) ==
  /\ At(p, "put_config")
  /\ deprecated' = {}
  /\ Then(p, <<<<"barrier_init">>>>)
  /\ UNCHANGED <<recordKey, written, barrier, state, modules, operators, ghosts>>

BarrierInit(p) ==
  /\ At(p, "barrier_init")
  /\ IF recordKey # 0 \/ gen = MaxGen THEN Refuse(p) /\ UNCHANGED gen
     ELSE LET k == gen + 1 IN
       /\ gen' = k
       /\ Then(p, <<<<"init_cipher", k>>, <<"put_record", k>>, <<"reset_cipher">>,
                    unseal(k, state), <<"split", k>>>>)
  /\ UNCHANGED <<storage, barrier, state, modules, handed, ops, ghosts>>

PutRecord(p) ==
  /\ At(p, "put_record")
  /\ recordKey' = Arg(p, 2)
  /\ Then(p, <<>>)
  /\ UNCHANGED <<deprecated, written, barrier, state, modules, operators, ghosts>>

(* With one share it is the key; several with T = 1 are refused, and what   *)
(* was opened stays open.                                                   *)
Split(p) ==
  /\ At(p, "split")
  /\ IF barrier.sealed \/ barrier.key = None THEN Refuse(p) /\ UNCHANGED state
     ELSE /\ state' = [state EXCEPT !.sealed = FALSE, !.kek = Arg(p, 2)]
          /\ IF N > 1 /\ T < 2 THEN Refuse(p)
             ELSE Then(p, post_unseal(TRUE) \o <<<<"init_done", Arg(p, 2)>>>>)
  /\ UNCHANGED <<storage, barrier, modules, operators, ghosts>>

(* root_token, pre_seal, and the deferred seal. *)
InitDone(p) ==
  /\ At(p, "init_done")
  /\ IF Readable THEN handed' = handed \cup Polynomial(Arg(p, 2), Arg(p, 2))
                      /\ mounted' = FALSE /\ handler' = FALSE
     ELSE UNCHANGED <<handed, mounted, handler>>
  /\ barrier' = [sealed |-> TRUE, key |-> None] /\ state' = DefaultState
  /\ Then(p, <<>>)
  /\ late' = (late \/ Sealing)
  /\ UNCHANGED <<storage, made, gen, ops, blind, cut, faults>>

-----------------------------------------------------------------------------
(* Core::seal and Core::handle_request.                                    *)

Seal(p) ==
  /\ p \in Sealers
  /\ Request(p, IF recordKey = 0 \/ barrier.sealed THEN <<>>
                ELSE <<<<"pre_seal">>, <<"reset_cipher">>, <<"close">>>>)

(* AuthModule::cleanup unwraps the token store, and panics without one. *)
PreSeal(p) ==
  /\ At(p, "pre_seal")
  /\ IF ~made THEN Refuse(p) /\ UNCHANGED <<mounted, handler, state>>
     ELSE /\ handler' = FALSE /\ mounted' = FALSE /\ state' = DefaultState
          /\ Then(p, <<>>)
  /\ cut' = (cut \/ \E q \in Unsealers : work[q] # <<>>)
  /\ UNCHANGED <<storage, barrier, made, operators, blind, late, faults>>

Write(p) ==
  /\ p \in Clients
  /\ Request(p, IF state.sealed \/ ~mounted THEN <<>> ELSE <<<<"put">>>>)

Put(p) ==
  /\ At(p, "put")
  /\ written' = IF barrier.sealed \/ barrier.key = None THEN written
                ELSE written \cup {barrier.key}
  /\ Then(p, <<>>)
  /\ UNCHANGED <<recordKey, deprecated, barrier, state, modules, operators, ghosts>>

-----------------------------------------------------------------------------
(* A storage operation fails. *)
Fail(p) ==
  /\ faults < MaxFaults /\ faults' = faults + 1
  /\ \/ /\ \E op \in {"put_config", "put_record", "put", "deprecate", "generate"} : At(p, op)
        /\ Refuse(p)
        /\ UNCHANGED <<barrier, state, late>>
     \/ /\ \E op \in {"load", "token_store", "handler", "policy"} : At(p, op)
        /\ PostFailed(p)
  /\ UNCHANGED <<storage, modules, operators, blind, cut>>

Crash ==
  /\ faults < MaxFaults /\ faults' = faults + 1
  /\ barrier' = [sealed |-> TRUE, key |-> None] /\ state' = DefaultState
  /\ mounted' = FALSE /\ handler' = FALSE /\ made' = FALSE
  /\ work' = [p \in Proc |-> <<>>]
  /\ UNCHANGED <<storage, operators, blind, cut, late>>

UnsealStep(p) ==
  \/ BarrierUnseal(p) \/ InitCipher(p) \/ Decrypt(p) \/ Open(p)
  \/ DoUnseal(p) \/ Count(p) \/ Opened(p) \/ Deprecate(p) \/ Generate(p)
  \/ Load(p) \/ TokenStore(p) \/ AddHandler(p) \/ Policy(p)

InitStep(p) ==
  PutConfig(p) \/ BarrierInit(p) \/ PutRecord(p) \/ Split(p) \/ InitDone(p)

Next ==
  \/ \E p \in Proc :
       \/ Submit(p) \/ Initialise(p) \/ Seal(p) \/ Write(p)
       \/ UnsealStep(p) \/ InitStep(p)
       \/ ResetCipher(p) \/ Close(p) \/ PreSeal(p) \/ Put(p) \/ Fail(p)
  \/ Crash

Spec == Init /\ [][Next]_vars

-----------------------------------------------------------------------------
(* Properties.                                                             *)

Idle == \A p \in Proc : work[p] = <<>>

(* Barrier, state and stored sets are well typed; shares were handed out.   *)
TypeOK ==
  /\ recordKey \in Key \cup {0}
  /\ deprecated \subseteq handed /\ handed \subseteq Share
  /\ barrier \in [sealed : BOOLEAN, key : Cipher]
  /\ state.sealed \in BOOLEAN /\ state.kek \in Key \cup {None, Wrong}
  /\ ToSet(state.shares) \subseteq handed /\ Len(state.shares) < T

(* Everything is stored under the one key the barrier generated, whatever   *)
(* unseal, seal, errors and restarts come before and between (handle_request*)
(* checks one sealed flag, the barrier another).                            *)
OneDataKey == written \subseteq {Enc}

(* When nothing is under way, neither a sealed barrier nor a sealed state   *)
(* holds a key that opens anything, also after an unseal, an init or a      *)
(* post_unseal that failed or was cut by a seal; a seal that had found the  *)
(* barrier open just before init closed it is excepted.                     *)
SealedHoldsNoKey ==
  Idle /\ ~late =>
    /\ barrier.sealed => barrier.key \notin {recordKey, Enc} \ {None}
    /\ state.sealed => state.kek = None

(* A core that serves is whole: when nothing is under way, the state is     *)
(* unsealed only if the barrier is, with its key, the routes and the token  *)
(* store's handler, whatever failed before; a seal that runs beside init or *)
(* beside an unseal is excepted.                                            *)
ServesWhole ==
  Idle /\ ~state.sealed /\ ~cut /\ ~late =>
    Readable /\ mounted /\ handler /\ state.kek = recordKey

(* "ensures that unseal keys can only be used once" (core.rs:439-440): a share  *)
(* that an unseal_once has deprecated does not help to unseal again, unless *)
(* the deprecated set could not be read.                                    *)
UsedOnce ==
  \A p \in Proc : At(p, "opened") => blind \/ ToSet(Arg(p, 2)) \cap deprecated = {}

(* Barrier and state are well typed, there is one data key, and nobody gets *)
(* to it with a deprecated share.                                           *)
KeysOK == TypeOK /\ OneDataKey /\ UsedOnce

(* The core's state says of the barrier what is so, once every call is over:*)
(* sealed, there is no key left; unsealed, all of it serves.                *)
StateTracksBarrier == SealedHoldsNoKey /\ ServesWhole

(* "Marks used unseal keys as deprecated to prevent reuse" (core.rs:454): a *)
(* share that is in the deprecated set stays there (do_unseal reads the set *)
(* before it unseals, and writes it afterwards).                            *)
DeprecatedForGood == [][deprecated \subseteq deprecated']_vars

(* The operators can always open the vault again: T shares of one           *)
(* polynomial are in their hands and not deprecated; unless an operation    *)
(* failed, or a seal came before the shares that init and unseal_once made  *)
(* were returned (do_unseal deprecates before generate_unseal_keys).        *)
Recoverable ==
  Idle /\ recordKey # 0 /\ faults = 0 /\ ~cut =>
    \E g \in 1..gen : Cardinality(Polynomial(recordKey, g) \cap (handed \ deprecated)) >= T
=============================================================================
