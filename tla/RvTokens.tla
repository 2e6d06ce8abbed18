------------------------------ MODULE RvTokens ------------------------------
(***************************************************************************)
(* Tokens and leases of the vendored RustyVault                            *)
(* (rusty_vault_vendored/src/modules/auth/token_store.rs, expiration.rs).  *)
(*                                                                         *)
(* A request is an async task: between two storage operations any other    *)
(* task may run.  work[p] is what task p has still to do, a sequence of    *)
(* steps of which the first is next; a step that fails drops the rest, as  *)
(* the code's ? does.  The checker is a thread with one task of its own.   *)
(*                                                                         *)
(* entry, children, lease and index are in storage; queue and what the     *)
(* tasks do are lost in a crash.  Policies, paths and durations are left   *)
(* out: every lease lasts Ttl.  The file backend is assumed, whose list    *)
(* returns the names below a directory.                                    *)
(***************************************************************************)
EXTENDS Integers, Sequences, FiniteSets, SequencesExt

CONSTANTS
  Tok,        \* token ids, numbers
  Root,       \* the token Core::init returned
  Stored,     \* tokens of earlier logins, found in storage at unseal
  Sec,        \* lease ids of secrets, other numbers; a token's lease has its id
  Checker,    \* the thread of start_check_expired_lease_entries
  None,
  Ttl,        \* of every lease
  MaxUses,    \* bound: num_uses
  MaxTime,    \* bound: of the clock
  MaxOps,     \* bound: requests
  MaxFaults   \* bound: storage errors and crashes

ASSUME RootAssumption == Root \in Tok /\ Tok \cup Sec \subseteq Nat /\ Tok \cap Sec = {}
ASSUME StoredAssumption == Stored \subseteq Tok \ {Root}
ASSUME BoundAssumption ==
  MaxUses \in Nat /\ MaxTime \in Nat \ {0} /\ MaxOps \in Nat /\ MaxFaults \in Nat
ASSUME TtlAssumption == Ttl \in Nat
ASSUME FiniteAssumption == IsFiniteSet(Tok) /\ IsFiniteSet(Sec)

(* The tasks that serve requests, in the order the requests come.          *)
Callers == 1..MaxOps
ASSUME ProcAssumption == Checker \notin Callers

VARIABLES
  entry,      \* id/<token>: the TokenEntry, or None
  children,   \* parent/<parent>/<child>
  lease,      \* the LeaseEntry stored under a lease id, or None
  index,      \* <token>/<lease>: the secrets a token leased
  queue,      \* ExpirationManager.queue: a lease's priority, or None
  locked,     \* the checker holds queue.write()
  now,
  work,
  fresh,      \* ids not generated yet
  chosen,     \* tokens whose id a root client chose itself
  given,      \* tokens sent to a client in a response
  created,    \* tokens of auth/token/create
  ops, faults,
  broken,     \* a task has failed since the start of the process
  raced       \* history: tokens two of whose renewals overlapped since then

vars == <<entry, children, lease, index, queue, locked, now, work, fresh,
          chosen, given, created, ops, faults, broken, raced>>

Proc == Callers \cup {Checker}
Lease == Tok \cup Sec
storage == <<entry, children, lease, index>>
ghosts == <<fresh, chosen, given, created, ops, faults, broken, raced>>

(* The tokens a client knows. *)
held == {Root} \cup chosen \cup given

ASSUME NoneAssumption == None \notin Nat \cup [parent : Tok \cup {None}, uses : 0..MaxUses]
                              \cup [token : Tok, expire : Nat]

Entry == [parent : Tok \cup {None}, uses : 0..MaxUses]
LeaseEntry == [token : Tok, expire : Nat]

(* Mutant: the child's entry is stored before parent/<parent>/<child>. *)
CreateEntryFirst(e, c) ==
  <<<<"putId", c, e>>>> \o
  (IF e.parent = None THEN <<>>
   ELSE <<<<"lookupParent", e.parent>>, <<"putParent", e.parent, c>>>>)

(* TokenStore::create of token c. *)
create(e, c) ==
  (IF e.parent = None THEN <<>>
   ELSE <<<<"lookupParent", e.parent>>, <<"putParent", e.parent, c>>>>) \o
  <<<<"putId", c, e>>>>

(* TokenStore::post_route on a response with auth: a token of its own,     *)
(* without parent and use limit, and its lease.                            *)
post_route(m) ==
  create([parent |-> None, uses |-> 0], m) \o
  <<<<"register_auth", m>>, <<"give", m>>>>

(* Mutant: leases that are past their time are not queued. *)
restoreUnexpired ==
  [l \in Lease |-> IF lease[l] = None THEN None
                  ELSE IF lease[l].expire < now THEN None ELSE lease[l].expire]

(* AuthModule::init restores the queue from the stored leases. *)
restore == [l \in Lease |-> IF lease[l] = None THEN None ELSE lease[l].expire]

Init ==
  /\ entry = [t \in Tok |-> IF t \in {Root} \cup Stored
                            THEN [parent |-> None, uses |-> 0] ELSE None]
  /\ children = {} /\ index = {}
  /\ lease = [l \in Lease |-> IF l \in Stored THEN [token |-> l, expire |-> 1] ELSE None]
  /\ now = 1 /\ queue = restore
  /\ locked = FALSE
  /\ work = [p \in Proc |-> <<>>]
  /\ fresh = Lease \ ({Root} \cup Stored)
  /\ chosen = {} /\ given = Stored
  /\ created = {}
  /\ ops = 0 /\ faults = 0 /\ broken = FALSE /\ raced = {}

-----------------------------------------------------------------------------
(* The requests: what the task of a handler is to do.                      *)

(* Ids are generated in order; which is which makes no difference. *)
Generated(S, n) == {i \in fresh \cap S : Cardinality({j \in fresh \cap S : j <= i}) <= n}

Request(p, steps, ids) ==
  /\ p = ops + 1
  /\ ids \subseteq fresh
  /\ fresh' = fresh \ ids
  /\ work' = [work EXCEPT ![p] = steps]
  /\ ops' = ops + 1
  /\ UNCHANGED <<storage, queue, locked, now, given, faults, broken, raced>>

(* A request with token t passes pre_route first. *)
With(t, steps) == <<<<"check_token", t>>>> \o steps

(* Only root may choose the child's id, or leave out the parent.  A child   *)
(* whose id is not chosen is known to nobody: how it differs is left out.   *)
(* That post_route refuses a child with the root policy, which is stored    *)
(* by then, leaves what a storage error in post_route leaves.               *)
Create(p) ==
  \E t \in held, c, m \in Generated(Tok, 2), u \in 0..MaxUses :
    \E par \in {t, None}, named \in BOOLEAN :
      /\ c < m
      /\ t # Root => ~named
      /\ ~named => par = t /\ u = 0
      /\ Request(p, With(t, (IF par = None THEN <<<<"lookupParent", t>>>> ELSE <<>>)
                         \o create([parent |-> par, uses |-> u], c)
                         \o post_route(m)), {c, m})
      /\ chosen' = IF named THEN chosen \cup {c} ELSE chosen
      /\ created' = created \cup {c, m}

Login(p) ==
  \E m \in Generated(Tok, 1) :
    Request(p, post_route(m), {m}) /\ UNCHANGED <<chosen, created>>

ReadLeased(p) ==
  \E t \in held, s \in Generated(Sec, 1) :
    /\ Request(p, With(t, <<<<"register_secret", t, s>>>>), {s})
    /\ UNCHANGED <<chosen, created>>

Renew(p) ==
  /\ \E t \in held, m \in Generated(Tok, 1) :
       /\ Request(p, With(t, <<<<"renew_token", t>>>> \o post_route(m)), {m})
       /\ UNCHANGED <<chosen, created>>

(* Policies decide who revokes whom: root anyone, others themselves. *)
RevokeTree(p) ==
  \E t, x \in held :
    /\ t \in {Root, x}
    /\ Request(p, With(t, <<<<"revoke_tree", x>>>>), {})
    /\ UNCHANGED <<chosen, created>>

(* revoke-orphan is a root path. *)
RevokeOrphan(p) ==
  \E x \in held :
    /\ Request(p, With(Root, <<<<"revoke", x>>>>), {})
    /\ UNCHANGED <<chosen, created>>

-----------------------------------------------------------------------------
(* The steps.                                                              *)

Steps(p) == ToSet(work[p])

(* A request is about to queue lease l, which it has stored. *)
Pending(l) == \E p \in Callers : \E s \in Steps(p) : s[1] = "push" /\ s[2] = l

At(p, op) == work[p] # <<>> /\ Head(work[p])[1] = op
Arg(p, i) == Head(work[p])[i]
Then(p, steps) == work' = [work EXCEPT ![p] = steps \o Tail(@)]
Refuse(p) == work' = [work EXCEPT ![p] = <<>>]

(* check_token and use_token up to the write. *)
CheckToken(p) ==
  /\ At(p, "check_token")
  /\ LET t == Arg(p, 2) e == entry[t] IN
       IF e = None THEN Refuse(p)
       ELSE Then(p, CASE e.uses = 0 -> <<>>
                      [] e.uses = 1 -> <<<<"revoke", t>>>>
                      [] OTHER -> <<<<"putId", t, [e EXCEPT !.uses = @ - 1]>>>>)
  /\ UNCHANGED <<storage, queue, locked, now, ghosts>>

(* The lookup of the parent, handle_create's and create's own: between the  *)
(* two nothing is done.                                                     *)
LookupParent(p) ==
  /\ At(p, "lookupParent")
  /\ LET e == entry[Arg(p, 2)] IN
       IF e = None THEN Refuse(p)
       ELSE IF e.uses > 0 THEN Refuse(p) ELSE Then(p, <<>>)
  /\ UNCHANGED <<storage, queue, locked, now, ghosts>>

PutParent(p) ==
  /\ At(p, "putParent")
  /\ children' = children \cup {<<Arg(p, 2), Arg(p, 3)>>}
  /\ Then(p, <<>>)
  /\ UNCHANGED <<entry, lease, index, queue, locked, now, ghosts>>

PutId(p) ==
  /\ At(p, "putId")
  /\ entry' = [entry EXCEPT ![Arg(p, 2)] = Arg(p, 3)]
  /\ Then(p, <<>>)
  /\ UNCHANGED <<children, lease, index, queue, locked, now, ghosts>>

persist_lease_entry(l, t, e) == lease' = [lease EXCEPT ![l] = [token |-> t, expire |-> e]]

RegisterAuth(p) ==
  /\ At(p, "register_auth")
  /\ LET t == Arg(p, 2) IN
       /\ persist_lease_entry(t, t, now + Ttl)
       /\ Then(p, <<<<"push", t, now + Ttl>>>>)
  /\ UNCHANGED <<entry, children, index, queue, locked, now, ghosts>>

RegisterSecret(p) ==
  /\ At(p, "register_secret")
  /\ LET t == Arg(p, 2) s == Arg(p, 3) IN
       /\ persist_lease_entry(s, t, now + Ttl)
       /\ Then(p, <<<<"create_index", t, s>>, <<"push", s, now + Ttl>>>>)
  /\ UNCHANGED <<entry, children, index, queue, locked, now, ghosts>>

CreateIndex(p) ==
  /\ At(p, "create_index")
  /\ index' = index \cup {<<Arg(p, 2), Arg(p, 3)>>}
  /\ Then(p, <<>>)
  /\ UNCHANGED <<entry, children, lease, queue, locked, now, ghosts>>

Give(p) ==
  /\ At(p, "give")
  /\ given' = given \cup {Arg(p, 2)}
  /\ Then(p, <<>>)
  /\ UNCHANGED <<storage, queue, locked, now, fresh, chosen, created, ops, faults, broken, raced>>

(* renew_token up to the backend's answer. *)
RenewToken(p) ==
  /\ At(p, "renew_token")
  /\ LET t == Arg(p, 2) IN
       IF entry[t] = None \/ lease[t] = None THEN Refuse(p)
       ELSE IF lease[t].expire < now THEN Refuse(p)
       ELSE Then(p, <<<<"renewed", t>>>>)
  /\ UNCHANGED <<storage, queue, locked, now, ghosts>>

(* Mutant: the queue gets the time of the lease that was read. *)
RenewedOldPriority(p) ==
  /\ At(p, "renewed")
  /\ LET t == Arg(p, 2) IN
       IF (t \in created /\ entry[t] = None) \/ lease[t] = None
       THEN Refuse(p) /\ UNCHANGED lease
       ELSE /\ persist_lease_entry(t, t, now + Ttl)
            /\ Then(p, <<<<"push", t, lease[t].expire>>>>)
  /\ UNCHANGED <<entry, children, index, queue, locked, now, ghosts>>

(* auth_renew looks the token up again for the leases of auth/token/; a     *)
(* login's own backend does not.                                            *)
Renewed(p) ==
  /\ At(p, "renewed")
  /\ LET t == Arg(p, 2) IN
       IF t \in created /\ entry[t] = None
       THEN Refuse(p) /\ UNCHANGED <<lease, raced>>
       ELSE /\ persist_lease_entry(t, t, now + Ttl)
            /\ Then(p, <<<<"push", t, now + Ttl>>>>)
            /\ raced' = IF Pending(t) THEN raced \cup {t} ELSE raced
  /\ UNCHANGED <<entry, children, index, queue, locked, now, fresh, chosen, given,
                created, ops, faults, broken>>

(* register_lease_entry: waits for the queue's lock; pushing a lease that   *)
(* is in the queue changes its priority.                                    *)
Push(p) ==
  /\ At(p, "push") /\ ~locked
  /\ queue' = [queue EXCEPT ![Arg(p, 2)] = Arg(p, 3)]
  /\ Then(p, <<>>)
  /\ UNCHANGED <<storage, locked, now, ghosts>>

-----------------------------------------------------------------------------
(* Revocation.                                                             *)

(* Step op for each element of S, in the order in which storage lists them. *)
Orders(S) == {s \in [1..Cardinality(S) -> S] : Range(s) = S}
Each(op, S, rest) == {[i \in DOMAIN s |-> <<op, s[i]>> \o rest] : s \in Orders(S)}

(* What a finished revoke_tree(t) promises: t and the children stored when  *)
(* they were listed are gone.  A token with limited uses is left out: the   *)
(* write of a use that was counted earlier may store it again.              *)
Covered(t) ==
  {c \in Tok : entry[c] # None /\ (c = t \/ entry[c].parent = t) /\ entry[c].uses = 0}

Promise(gone) == IF gone = {} THEN <<>> ELSE <<<<"done", gone>>>>

RevokeTreeStep(p) ==
  /\ At(p, "revoke_tree")
  /\ LET t == Arg(p, 2) IN
       \E subtrees \in Each("revoke_tree", {c \in Tok : <<t, c>> \in children}, <<>>) :
         Then(p, subtrees \o <<<<"revoke", t>>>> \o Promise(Covered(t)))
  /\ UNCHANGED <<storage, queue, locked, now, ghosts>>

Unlink(t, parent) ==
  <<<<"delete", t>>>> \o
  (IF parent = None THEN <<>> ELSE <<<<"deleteParent", parent, t>>>>)

(* ... and all the secrets t has leased by then. *)
Leases(t) == Promise({s \in Sec : <<t, s>> \in index})

(* revoke_salted: its lookup decides what else is to be done. *)
Revoke(p) ==
  /\ At(p, "revoke")
  /\ LET t == Arg(p, 2) e == entry[t] IN
       Then(p, IF e = None THEN <<<<"delete", t>>>>
               ELSE Unlink(t, e.parent) \o <<<<"revoke_by_token", t>>>> \o Leases(t))
  /\ UNCHANGED <<storage, queue, locked, now, ghosts>>

Delete(p) ==
  /\ At(p, "delete")
  /\ entry' = [entry EXCEPT ![Arg(p, 2)] = None]
  /\ Then(p, <<>>)
  /\ UNCHANGED <<children, lease, index, queue, locked, now, ghosts>>

DeleteParent(p) ==
  /\ At(p, "deleteParent")
  /\ children' = children \ {<<Arg(p, 2), Arg(p, 3)>>}
  /\ Then(p, <<>>)
  /\ UNCHANGED <<entry, lease, index, queue, locked, now, ghosts>>

RevokeByToken(p) ==
  /\ At(p, "revoke_by_token")
  /\ \E leases \in Each("revoke_lease_id", {s \in Sec : <<Arg(p, 2), s>> \in index}, <<TRUE>>) :
       Then(p, leases)
  /\ UNCHANGED <<storage, queue, locked, now, ghosts>>

(* Mutant: the lease is deleted before what it stands for is revoked. *)
RevokeLeaseRecordFirst(p) ==
  /\ At(p, "revoke_lease_id")
  /\ LET l == Arg(p, 2) le == lease[l] IN
       Then(p, IF le = None THEN <<>>
               ELSE <<<<"delete_lease_entry", l>>>>
                    \o (IF l \in Tok THEN <<<<"revoke_tree", l>>>>
                        ELSE <<<<"remove_index", le.token, l>>>>)
                    \o (IF Arg(p, 3) THEN <<<<"push", l, 0>>>> ELSE <<>>))
  /\ UNCHANGED <<storage, queue, locked, now, ghosts>>

(* revoke_lease_id.  The backend's answer to the revocation of a secret is  *)
(* only logged.                                                             *)
RevokeLeaseId(p) ==
  /\ At(p, "revoke_lease_id")
  /\ LET l == Arg(p, 2) le == lease[l] IN
       Then(p, IF le = None THEN <<>>
               ELSE (IF l \in Tok
                     THEN <<<<"revoke_tree", l>>, <<"delete_lease_entry", l>>>>
                     ELSE <<<<"delete_lease_entry", l>>, <<"remove_index", le.token, l>>>>)
                    \o (IF Arg(p, 3) THEN <<<<"push", l, 0>>>> ELSE <<>>))
  /\ UNCHANGED <<storage, queue, locked, now, ghosts>>

DeleteLeaseEntry(p) ==
  /\ At(p, "delete_lease_entry")
  /\ lease' = [lease EXCEPT ![Arg(p, 2)] = None]
  /\ Then(p, <<>>)
  /\ UNCHANGED <<entry, children, index, queue, locked, now, ghosts>>

RemoveIndex(p) ==
  /\ At(p, "remove_index")
  /\ index' = index \ {<<Arg(p, 2), Arg(p, 3)>>}
  /\ Then(p, <<>>)
  /\ UNCHANGED <<entry, children, lease, queue, locked, now, ghosts>>

(* Nothing is done: the task is at the end of the revocation. *)
Done(p) ==
  /\ At(p, "done")
  /\ Then(p, <<>>)
  /\ UNCHANGED <<storage, queue, locked, now, ghosts>>

-----------------------------------------------------------------------------
(* The checker.                                                            *)

Queued == {l \in Lease : queue[l] # None}
Soonest(l) == l \in Queued /\ \A k \in Queued : queue[l] <= queue[k]

(* A tick finds a due lease and takes the lock. *)
CheckerTick ==
  /\ ~locked
  /\ \E l \in Queued : queue[l] < now
  /\ locked' = TRUE
  /\ UNCHANGED <<storage, queue, now, work, ghosts>>

(* Mutant: a lease that was revoked already ends the loop. *)
CheckerStopsAtRevoked ==
  /\ locked /\ work[Checker] = <<>>
  /\ \/ \E l \in Lease :
          /\ Soonest(l) /\ queue[l] \in 1..now
          /\ work' = [work EXCEPT ![Checker] =
               <<<<"revoke_lease_id", l, FALSE>>, <<"pop", l>>>>]
          /\ UNCHANGED locked
     \/ /\ \A l \in Queued : queue[l] > now \/ \E k \in Queued : queue[k] = 0
        /\ locked' = FALSE
        /\ UNCHANGED work
  /\ UNCHANGED <<storage, queue, now, ghosts>>

(* The inner loop: the soonest lease while it is due, the lock held. *)
CheckerPeek ==
  /\ locked /\ work[Checker] = <<>>
  /\ \/ \E l \in Lease :
          /\ Soonest(l) /\ queue[l] <= now
          /\ work' = [work EXCEPT ![Checker] =
               (IF queue[l] = 0 THEN <<>> ELSE <<<<"revoke_lease_id", l, FALSE>>>>)
               \o <<<<"pop", l>>>>]
          /\ UNCHANGED locked
     \/ /\ \A l \in Queued : queue[l] > now
        /\ locked' = FALSE
        /\ UNCHANGED work
  /\ UNCHANGED <<storage, queue, now, ghosts>>

CheckerPop ==
  /\ At(Checker, "pop")
  /\ queue' = [queue EXCEPT ![Arg(Checker, 2)] = None]
  /\ Then(Checker, <<>>)
  /\ UNCHANGED <<storage, locked, now, ghosts>>

-----------------------------------------------------------------------------
Tick == now < MaxTime /\ now' = now + 1
        /\ UNCHANGED <<storage, queue, locked, work, ghosts>>

(* A storage operation fails: the task returns the error, the checker       *)
(* leaves its loop and with it the lock.  A read that fails leaves what the *)
(* failure of the next write would.                                         *)
Writes == {"putParent", "putId", "register_auth", "register_secret", "create_index",
           "renewed", "delete", "deleteParent", "delete_lease_entry", "remove_index"}

Fail(p) ==
  /\ faults < MaxFaults
  /\ \E op \in Writes : At(p, op)
  /\ Refuse(p)
  /\ locked' = (locked /\ p # Checker)
  /\ faults' = faults + 1 /\ broken' = TRUE
  /\ UNCHANGED <<storage, queue, now, fresh, chosen, given, created, ops, raced>>

(* The process dies and is unsealed again, with a checker of its own. *)
Crash ==
  /\ faults < MaxFaults
  /\ faults' = faults + 1 /\ broken' = FALSE /\ raced' = {}
  /\ queue' = restore
  /\ work' = [p \in Proc |-> <<>>]
  /\ locked' = FALSE
  /\ UNCHANGED <<storage, now, fresh, chosen, given, created, ops>>

TokenStep(p) ==
  \/ CheckToken(p) \/ LookupParent(p) \/ PutParent(p) \/ PutId(p)
  \/ RegisterAuth(p) \/ RegisterSecret(p) \/ CreateIndex(p) \/ Give(p)
  \/ RenewToken(p) \/ Renewed(p)

RevokeStep(p) ==
  \/ RevokeTreeStep(p) \/ Revoke(p) \/ Delete(p) \/ DeleteParent(p)
  \/ RevokeByToken(p) \/ RevokeLeaseId(p) \/ DeleteLeaseEntry(p)
  \/ RemoveIndex(p) \/ Done(p) \/ Push(p)

CheckerStep == CheckerTick \/ CheckerPeek \/ CheckerPop \/ RevokeStep(Checker)

Next ==
  \/ \E p \in Callers :
       \/ Create(p) \/ Login(p) \/ ReadLeased(p) \/ Renew(p)
       \/ RevokeTree(p) \/ RevokeOrphan(p)
       \/ TokenStep(p) \/ RevokeStep(p)
  \/ CheckerStep
  \/ Tick
  \/ \E p \in Proc : Fail(p)
  \/ Crash

(* The checker's thread runs whenever it can; nobody is obliged to make a   *)
(* request.                                                                 *)
Spec == Init /\ [][Next]_vars /\ WF_vars(CheckerStep)

-----------------------------------------------------------------------------
(* Properties.                                                             *)

(* Every stored piece is well typed; a lease's token was generated. *)
TypeOK ==
  /\ entry \in [Tok -> Entry \cup {None}]
  /\ children \subseteq Tok \X Tok /\ index \subseteq Tok \X Sec
  /\ lease \in [Lease -> LeaseEntry \cup {None}]
  /\ queue \in [Lease -> Nat \cup {None}]
  /\ locked \in BOOLEAN /\ now \in 1..MaxTime
  /\ held \subseteq Tok \ fresh
  /\ \A l \in Lease : lease[l] # None => {l, lease[l].token} \cap fresh = {}

(* Once revoke_tree has finished, neither the token nor a child that was    *)
(* stored when the children were listed is ever stored again, and once      *)
(* revoke_salted has finished for a token it found, no secret the token had *)
(* leased by then has a lease; whatever other requests, errors and crashes  *)
(* come between (token_store.rs, revoke_tree_salted, revoke_salted).        *)
RevokedStayRevoked ==
  \A p \in Proc : At(p, "done") =>
    \A i \in Arg(p, 2) : (i \in Tok => entry[i] = None) /\ (i \in Sec => lease[i] = None)

(* A token without use limit that post_route gave to a client never         *)
(* outlives its lease: as long as the token is stored, so is the lease that *)
(* will end it, also while it is being revoked or renewed, and after errors *)
(* and crashes (token_store.rs, post_route; expiration.rs, revoke_lease_id).*)
HeldTokenHasLease ==
  \A t \in given : entry[t] # None => lease[t] # None

(* Every stored lease is in the queue, or a task will put it there: none is *)
(* forgotten (expiration.rs, register_secret, register_auth, the checker's  *)
(* pop, restore).  A request that fails may leave one out until a restart.  *)
LeaseWatched ==
  \A l \in Lease : lease[l] # None =>
    queue[l] # None \/ Pending(l) \/ broken

(* Every stored secret lease is found under its token, so that revoking the *)
(* token finds it, or a task will index it; unless an operation failed or   *)
(* the process died (register_secret, revoke_lease_id).                     *)
LeaseIndexed ==
  \A s \in Sec : lease[s] # None =>
    \/ <<lease[s].token, s>> \in index \/ faults > 0
    \/ \E p \in Callers : <<"create_index", lease[s].token, s>> \in Steps(p)

(* No lease is lost: the checker will come to it, and a secret's is found   *)
(* under its token.                                                         *)
LeasesOK == TypeOK /\ LeaseWatched /\ LeaseIndexed

(* The checker ends a lease before its time only if a renewal has stored a  *)
(* later time and still waits for the queue's lock, or if renewals of the   *)
(* token have overlapped, since they may queue their times in the other     *)
(* order (renew_token, register_lease_entry; the inner loop of              *)
(* start_check_expired_lease_entries does not look at expire_time).         *)
NoEarlyExpiry ==
  [][\A t \in Tok :
       (lease[t] # None /\ lease'[t] = None) =>
         lease[t].expire <= now \/ Pending(t) \/ t \in raced]_vars

(* The same without that exception.  Not so: README, Known divergences.    *)
NeverEarly ==
  [][\A t \in Tok :
       (lease[t] # None /\ lease'[t] = None) => lease[t].expire <= now \/ Pending(t)]_vars

(* The checker waits for a lock it holds itself. *)
CheckerStuck == locked /\ At(Checker, "push")

Due(l) == lease[l] # None /\ queue[l] # None /\ queue[l] < now

SomeDue == \E l \in Lease : Due(l)

(* Leases past their time are all revoked or renewed in the end, in spite   *)
(* of storage errors and restarts - unless the checker locks itself out.    *)
ExpiredRevoked == SomeDue ~> (~SomeDue \/ CheckerStuck)

(* "Starts a background task to check for and handle expired lease          *)
(* entries" (expiration.rs:441): expired leases are handled.                *)
ExpiredHandled == SomeDue ~> ~SomeDue
=============================================================================
