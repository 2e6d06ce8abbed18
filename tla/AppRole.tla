------------------------------ MODULE AppRole -------------------------------
(***************************************************************************)
(* The AppRole credential backend of the vendored RustyVault: roles, their *)
(* role_id index, secret ids with their accessors, login and tidy          *)
(* (rusty_vault_vendored/src/modules/credential/approle).                  *)
(*                                                                         *)
(* A request is an async task that takes tokio locks: work[p] is what it   *)
(* has still to do, held[p] the locks it has.  A step that fails drops the *)
(* rest and the locks.  Policies, CIDRs, periods and metadata are left     *)
(* out; bind_secret_id is set.  A role's secrets are stored under its name *)
(* and hmac_key: under the number of its creation here.  A request may     *)
(* spell a role's name with capitals: the role is stored under the name in *)
(* small letters, its lock is that of the name as it is spelt.             *)
(***************************************************************************)
EXTENDS Integers, Sequences, FiniteSets

CONSTANTS
  Role, Rid, Sid,   \* role names, role_ids, secret ids (a client may choose one)
  Name, Lower,      \* role names as requests spell them, and in small letters
  First, FirstUses, \* the role that is there from the start, num_uses of its secret id
  Callers, Tidy,    \* tasks
  None,
  MaxUses,          \* bound: secret_id_num_uses
  MaxInc, MaxAcc,   \* bounds: roles created, secret ids registered
  MaxTime, MaxOps,  \* bounds: the clock, requests
  MaxFaults         \* bound: storage errors and crashes

ASSUME NoneAssumption == None \notin Name \cup Rid \cup Sid
ASSUME LowerAssumption ==
  Role \subseteq Name /\ Lower \in [Name -> Role] /\ \A r \in Role : Lower[r] = r
ASSUME ProcAssumption == First \in Role /\ Tidy \notin Callers
ASSUME FiniteAssumption == IsFiniteSet(Callers)
ASSUME BoundAssumption ==
  /\ MaxUses \in Nat /\ MaxOps \in Nat /\ FirstUses \in 0..MaxUses
  /\ MaxTime \in Nat \ {0} /\ MaxInc \in Nat \ {0} /\ MaxAcc \in Nat \ {0}

VARIABLES
  role,       \* role/<name>: role_id and number
  index,      \* role_id/<role_id>: a role's name, as it was spelt
  secret,     \* secret_id/<role>/<secret id>
  accessor,   \* accessor/<accessor>: the secret id it stands for
  held, work, now,
  inc, acc,   \* hmac_keys and accessors generated
  accepts,    \* history: logins by the secret with this accessor
  limit,      \* history: the num_uses it was registered with
  made,       \* history: the secret id it was made for
  gone,       \* history: accessors whose entry or secret was deleted
  overlap,    \* history: accessors or their secrets written while tidy was running
  outdated,   \* history: role_ids indexed for a role that had changed, or for two at once;
              \*   all of them once two tasks wrote under two spellings of a name
  ops, faults

storage == <<role, index, secret, accessor>>
history == <<accepts, limit, made, gone, overlap, outdated>>
vars == <<storage, held, work, now, inc, acc, history, ops, faults>>

Proc == Callers \cup {Tidy}
Key == (1..MaxInc) \X Sid
Acc == 1..MaxAcc
(* The locks of roles and of secret ids are kept apart; an entry is a record. *)
ASSUME NameAssumption ==
  Name \cap Key = {} /\ None \notin Key \cup [rid : Rid, inc : 1..MaxInc]
SecretEntry == [acc : Acc, uses : Int, exp : Nat]

Init ==
  \E x \in Rid, s \in Sid :
    /\ role = [r \in Role |-> IF r = First THEN [rid |-> x, inc |-> 1] ELSE None]
    /\ index = [y \in Rid |-> IF y = x THEN First ELSE None]
    /\ secret = [k \in Key |-> IF k = <<1, s>> THEN [acc |-> 1, uses |-> FirstUses, exp |-> 1]
                               ELSE None]
    /\ accessor = [a \in Acc |-> IF a = 1 THEN <<1, s>> ELSE None]
    /\ held = [p \in Proc |-> {}] /\ work = [p \in Proc |-> <<>>]
    /\ now = 1 /\ inc = 1 /\ acc = 1
    /\ accepts = [a \in Acc |-> 0]
    /\ limit = [a \in Acc |-> IF a = 1 THEN FirstUses ELSE 0]
    /\ made = accessor
    /\ gone = {} /\ overlap = {} /\ outdated = {}
    /\ ops = 0 /\ faults = 0

-----------------------------------------------------------------------------
(* Tasks and locks.                                                        *)

At(p, op) == work[p] # <<>> /\ work[p][1][1] = op
Arg(p, i) == work[p][1][i]

(* What p does next; at its end the locks are dropped. *)
Rest(p, steps) ==
  /\ work' = [work EXCEPT ![p] = steps]
  /\ held' = [held EXCEPT ![p] = IF steps = <<>> THEN {} ELSE @]
Then(p, steps) == Rest(p, steps \o Tail(work[p]))
Refuse(p) == Rest(p, <<>>)

Free(k, write) ==
  \A q \in Proc : \A h \in held[q] : h[1] = k => ~write /\ ~h[2]

read(k) == <<"lock", k, FALSE>>
write(k) == <<"lock", k, TRUE>>

(* Another spelling of the name is locked for writing. *)
Respelt(n) == n \in Name /\ \E q \in Proc : \E h \in held[q] :
  h[1] \in Name \ {n} /\ Lower[h[1]] = Lower[n] /\ h[2]

Lock(p) ==
  /\ At(p, "lock") /\ Free(Arg(p, 2), Arg(p, 3))
  /\ work' = [work EXCEPT ![p] = Tail(@)]
  /\ held' = [held EXCEPT ![p] = @ \cup {<<Arg(p, 2), Arg(p, 3)>>}]
  /\ outdated' = IF Arg(p, 3) /\ Respelt(Arg(p, 2)) THEN Rid ELSE outdated
  /\ UNCHANGED <<storage, now, inc, acc, accepts, limit, made, gone, overlap, ops, faults>>

Unlock(p) ==
  /\ At(p, "unlock")
  /\ work' = [work EXCEPT ![p] = Tail(@)]
  /\ held' = [held EXCEPT ![p] = {h \in @ : h[1] # Arg(p, 2)}]
  /\ UNCHANGED <<storage, now, inc, acc, history, ops, faults>>

(* A loop over what a listing found, in the storage's order. *)
ForEach(p, op, body(_)) ==
  /\ At(p, op)
  /\ \/ Arg(p, 2) = {} /\ Then(p, <<>>)
     \/ \E k \in Arg(p, 2) :
          Then(p, body(k) \o <<[work[p][1] EXCEPT ![2] = @ \ {k}]>>)
  /\ UNCHANGED <<storage, now, inc, acc, history, ops, faults>>

Request(p, steps) ==
  /\ work[p] = <<>> /\ ops < MaxOps
  /\ ops' = ops + 1
  /\ work' = [work EXCEPT ![p] = steps]
  /\ UNCHANGED <<storage, held, now, inc, acc, history, faults>>

-----------------------------------------------------------------------------
(* Roles.  write_role may make a role, and indexes it in small letters.  The  *)
(* handlers of single fields index it as it is spelt: that of role_id may     *)
(* change the role_id - which is what write_role does to a role that is       *)
(* there, in small letters -, the others keep it, which is None here.         *)

WriteRole(p) == \E n \in Name, x \in Rid :
  Request(p, <<write(n), <<"set_role", Lower[n], x>>>>)
SetField(p) == \E n \in Name, x \in Rid \cup {None} :
  /\ n # Lower[n] \/ x = None
  /\ Request(p, <<write(n), <<"set_role", n, x>>>>)
DeleteRole(p) == \E n \in Name : Request(p, <<write(n), <<"delete_role", n>>>>)
ReadRole(p) == \E n \in Name : Request(p, <<read(n), <<"read_role", n>>>>)

(* What get_role and the request make of the role_id. *)
NewRid(p) == IF Arg(p, 3) # None THEN Arg(p, 3) ELSE role[Lower[Arg(p, 2)]].rid

(* Another task is about to index x, for another role: no lock keeps two    *)
(* roles from taking a role_id that both found free.                        *)
Contested(p, x, r) == \E q \in Proc \ {p} : \E i \in DOMAIN work[q] :
  work[q][i][1] = "set_role_id" /\ work[q][i][2] = x /\ Lower[work[q][i][3]] # r

(* The role may not be set: only write_role makes one, and a role_id stays   *)
(* with the name, spelling included, that has it.                            *)
SetRefused(p) == LET n == Arg(p, 2) old == role[Lower[n]] IN
  IF old = None /\ (n # Lower[n] \/ Arg(p, 3) = None \/ inc = MaxInc) THEN TRUE
  ELSE index[NewRid(p)] \notin {None, n}

(* Mutant: the index is written before the role. *)
SetRoleIndexFirst(p) ==
  /\ At(p, "set_role")
  /\ IF SetRefused(p) THEN Refuse(p) /\ UNCHANGED <<inc, outdated>>
     ELSE LET n == Arg(p, 2) r == Lower[n] old == role[r] x == NewRid(p)
              e == [rid |-> x, inc |-> IF old = None THEN inc + 1 ELSE old.inc]
          IN
          /\ inc' = IF old = None THEN inc + 1 ELSE inc
          /\ outdated' = IF Contested(p, x, r) THEN outdated \cup {x} ELSE outdated
          /\ Then(p, (IF old # None /\ old.rid # x THEN <<<<"delete_role_id", old.rid, n>>>>
                      ELSE <<>>)
                     \o <<<<"set_role_id", x, n>>, <<"put_role", n, e>>>>)
  /\ UNCHANGED <<storage, now, acc, accepts, limit, made, gone, overlap, ops, faults>>

(* get_role, and set_role up to its first write.  The index is written      *)
(* again by every setter but write_role and a write of the same role_id.    *)
SetRole(p) ==
  /\ At(p, "set_role")
  /\ IF SetRefused(p) THEN Refuse(p) /\ UNCHANGED <<inc, outdated>>
     ELSE LET n == Arg(p, 2) r == Lower[n] old == role[r] x == NewRid(p)
              e == [rid |-> x, inc |-> IF old = None THEN inc + 1 ELSE old.inc]
              indexed == old = None \/ Arg(p, 3) # x \/ old.rid # x
          IN
          /\ inc' = IF old = None THEN inc + 1 ELSE inc
          /\ outdated' = IF indexed /\ Contested(p, x, r) THEN outdated \cup {x}
                         ELSE outdated
          /\ Then(p, (IF old # None /\ old.rid # x THEN <<<<"delete_role_id", old.rid, n>>>>
                      ELSE <<>>)
                     \o <<<<"put_role", n, e>>>>
                     \o (IF indexed THEN <<<<"set_role_id", x, n>>>> ELSE <<>>))
  /\ UNCHANGED <<storage, now, acc, accepts, limit, made, gone, overlap, ops, faults>>

PutRole(p) ==
  /\ At(p, "put_role")
  /\ role' = [role EXCEPT ![Lower[Arg(p, 2)]] = Arg(p, 3)]
  /\ Then(p, <<>>)
  /\ UNCHANGED <<index, secret, accessor, now, inc, acc, history, ops, faults>>

SetRoleId(p) ==
  /\ At(p, "set_role_id")
  /\ index' = [index EXCEPT ![Arg(p, 2)] = Arg(p, 3)]
  /\ Then(p, <<>>)
  /\ UNCHANGED <<role, secret, accessor, now, inc, acc, history, ops, faults>>

DeleteRoleId(p) ==
  /\ At(p, "delete_role_id")
  /\ index' = [index EXCEPT ![Arg(p, 2)] = None]
  /\ Then(p, <<>>)
  /\ UNCHANGED <<role, secret, accessor, now, inc, acc, history, ops, faults>>

(* flush_role_secrets deletes the listed secrets one by one, each under its *)
(* lock, and leaves their accessors.                                        *)
Flushed(k) == <<write(k), <<"delete_secret", k>>, <<"unlock", k>>>>

DeleteRoleStep(p) ==
  /\ At(p, "delete_role")
  /\ LET n == Arg(p, 2) e == role[Lower[n]] IN
       IF e = None THEN Refuse(p)
       ELSE Then(p, <<<<"flush", {k \in Key : k[1] = e.inc /\ secret[k] # None}>>,
                      <<"delete_role_id", e.rid, n>>, <<"put_role", n, None>>>>)
  /\ UNCHANGED <<storage, now, inc, acc, history, ops, faults>>

Flush(p) == ForEach(p, "flush", Flushed)

ReadRoleStep(p) ==
  /\ At(p, "read_role")
  /\ LET n == Arg(p, 2) e == role[Lower[n]] IN
       IF e = None THEN Refuse(p)
       ELSE IF index[e.rid] # None THEN Refuse(p)
       ELSE Then(p, <<<<"unlock", n>>, write(n), <<"repair", e.rid, n>>>>)
  /\ UNCHANGED <<storage, now, inc, acc, history, ops, faults>>

(* The index is looked at again, the role is not. *)
Repair(p) ==
  /\ At(p, "repair")
  /\ LET x == Arg(p, 2) r == Lower[Arg(p, 3)] IN
       IF index[x] # None THEN Refuse(p) /\ UNCHANGED outdated
       ELSE /\ Then(p, <<<<"set_role_id", x, r>>>>)
            /\ outdated' = IF role[r] # None /\ role[r].rid = x /\ ~Contested(p, x, r)
                           THEN outdated ELSE outdated \cup {x}
  /\ UNCHANGED <<storage, now, inc, acc, accepts, limit, made, gone, overlap, ops, faults>>

-----------------------------------------------------------------------------
(* Secret ids.                                                             *)

Register(p) == \E n \in Name, s \in Sid, u \in 0..MaxUses, ttl \in 0..1 :
  Request(p, <<read(n), <<"register", n, s, u, ttl>>>>)
Destroy(p) == \E n \in Name, s \in Sid :
  Request(p, <<read(n), <<"destroy", n, s>>>>)
Lookup(p) == \E n \in Name, s \in Sid :
  Request(p, <<read(n), <<"lookup", n, s>>>>)

(* Mutant: the secret's lock is taken before the role's. *)
DestroyByAccessorSecretFirst(p) == \E n \in Name, a \in Acc :
  /\ accessor[a] # None
  /\ Request(p, <<write(accessor[a]), write(n), <<"destroy_accessor", n, a>>>>)

DestroyByAccessor(p) == \E n \in Name, a \in Acc :
  /\ a <= acc
  /\ Request(p, <<write(n), <<"destroy_accessor", n, a>>>>)

(* update_role_secret_id_common reads the role; register_secret_id_entry's  *)
(* first look, under the read lock, can only refuse what the second does.   *)
RegisterStep(p) ==
  /\ At(p, "register")
  /\ LET e == role[Lower[Arg(p, 2)]] IN
       IF e = None THEN Refuse(p)
       ELSE LET k == <<e.inc, Arg(p, 3)>> IN
            Then(p, <<write(k), <<"register_entry", k, Arg(p, 4), Arg(p, 5)>>>>)
  /\ UNCHANGED <<storage, now, inc, acc, history, ops, faults>>

(* Without ttl the expiration_time is the time the entry was made. *)
RegisterEntry(p) ==
  /\ At(p, "register_entry")
  /\ LET k == Arg(p, 2) a == acc + 1 IN
       IF secret[k] # None \/ acc = MaxAcc
       THEN Refuse(p) /\ UNCHANGED <<accessor, acc, limit, made, overlap>>
       ELSE /\ acc' = a
            /\ accessor' = [accessor EXCEPT ![a] = k]
            /\ limit' = [limit EXCEPT ![a] = Arg(p, 3)] /\ made' = [made EXCEPT ![a] = k]
            /\ overlap' = IF work[Tidy] = <<>> THEN overlap ELSE overlap \cup {a}
            /\ Then(p, <<<<"put_secret", k, [acc |-> a, uses |-> Arg(p, 3),
                                              exp |-> now + Arg(p, 4)]>>>>)
  /\ UNCHANGED <<role, index, secret, now, inc, accepts, gone, outdated, ops, faults>>

PutSecret(p) ==
  /\ At(p, "put_secret")
  /\ secret' = [secret EXCEPT ![Arg(p, 2)] = Arg(p, 3)]
  /\ overlap' = IF work[Tidy] = <<>> \/ secret[Arg(p, 2)] # None THEN overlap
                ELSE overlap \cup {Arg(p, 3).acc}
  /\ Then(p, <<>>)
  /\ UNCHANGED <<role, index, accessor, now, inc, acc, accepts, limit, made, gone, outdated,
                 ops, faults>>

DeleteAccessor(p) ==
  /\ At(p, "delete_accessor")
  /\ accessor' = [accessor EXCEPT ![Arg(p, 2)] = None]
  /\ gone' = gone \cup {Arg(p, 2)}
  /\ Then(p, <<>>)
  /\ UNCHANGED <<role, index, secret, now, inc, acc, accepts, limit, made, overlap, outdated,
                 ops, faults>>

DeleteSecret(p) ==
  /\ At(p, "delete_secret")
  /\ LET k == Arg(p, 2) IN
       /\ secret' = [secret EXCEPT ![k] = None]
       /\ gone' = IF secret[k] = None THEN gone ELSE gone \cup {secret[k].acc}
  /\ Then(p, <<>>)
  /\ UNCHANGED <<role, index, accessor, now, inc, acc, accepts, limit, made, overlap, outdated,
                 ops, faults>>

(* The accessor first, then the secret. *)
Revoked(k) == <<<<"delete_accessor", secret[k].acc>>, <<"delete_secret", k>>>>

(* The role is read, its secret is locked, and then looked at. *)
OnSecret(p, op, next) ==
  /\ At(p, op)
  /\ LET e == role[Lower[Arg(p, 2)]] IN
       IF e = None THEN Refuse(p)
       ELSE LET k == <<e.inc, Arg(p, 3)>> IN Then(p, <<write(k), <<next, k>>>>)
  /\ UNCHANGED <<storage, now, inc, acc, history, ops, faults>>

DestroyStep(p) == OnSecret(p, "destroy", "destroy_entry")
LookupStep(p) == OnSecret(p, "lookup", "lookup_entry")

DestroyEntry(p) ==
  /\ At(p, "destroy_entry")
  /\ Then(p, IF secret[Arg(p, 2)] = None THEN <<>> ELSE Revoked(Arg(p, 2)))
  /\ UNCHANGED <<storage, now, inc, acc, history, ops, faults>>

LookupEntry(p) ==
  /\ At(p, "lookup_entry")
  /\ LET k == Arg(p, 2) e == secret[k] IN
       Then(p, IF e = None THEN <<>> ELSE IF accessor[e.acc] # None THEN <<>>
               ELSE <<<<"delete_secret", k>>>>)
  /\ UNCHANGED <<storage, now, inc, acc, history, ops, faults>>

(* The secret id may be one of an earlier role of that name: its hmac is not *)
(* found under the present one.                                              *)
DestroyAccessorStep(p) ==
  /\ At(p, "destroy_accessor")
  /\ LET e == role[Lower[Arg(p, 2)]] a == Arg(p, 3) k == accessor[a] IN
       IF e = None \/ k = None THEN Refuse(p)
       ELSE IF k[1] # e.inc THEN Refuse(p)
       ELSE Then(p, <<write(k), <<"destroy_found", k, a>>>>)
  /\ UNCHANGED <<storage, now, inc, acc, history, ops, faults>>

DestroyFound(p) ==
  /\ At(p, "destroy_found")
  /\ Then(p, IF secret[Arg(p, 2)] = None THEN <<>>
             ELSE <<<<"delete_accessor", Arg(p, 3)>>, <<"delete_secret", Arg(p, 2)>>>>)
  /\ UNCHANGED <<storage, now, inc, acc, history, ops, faults>>

-----------------------------------------------------------------------------
(* Login.  The last argument is what was gone when it began.               *)

Login(p) == \E x \in Rid, s \in Sid : Request(p, <<<<"login", x, s, gone>>>>)

LoginIndex(p) ==
  /\ At(p, "login")
  /\ LET n == index[Arg(p, 2)] IN
       IF n = None THEN Refuse(p)
       ELSE Then(p, <<read(n), <<"login_role", n, Arg(p, 3), Arg(p, 4)>>>>)
  /\ UNCHANGED <<storage, now, inc, acc, history, ops, faults>>

LoginRole(p) ==
  /\ At(p, "login_role")
  /\ LET n == Arg(p, 2) e == role[Lower[n]] IN
       IF e = None THEN Refuse(p)
       ELSE LET k == <<e.inc, Arg(p, 3)>> IN
            Then(p, <<<<"unlock", n>>, read(k), <<"login_secret", k, Arg(p, 4)>>>>)
  /\ UNCHANGED <<storage, now, inc, acc, history, ops, faults>>

(* Mutant: a secret whose accessor is missing is good. *)
LoginSecretNoAccessor(p) ==
  /\ At(p, "login_secret")
  /\ LET k == Arg(p, 2) e == secret[k] IN
       IF e = None THEN Refuse(p)
       ELSE Then(p, IF e.uses = 0 THEN <<<<"accept", e.acc, Arg(p, 3)>>>>
                    ELSE <<<<"unlock", k>>, write(k), <<"login_use", k, Arg(p, 3)>>>>)
  /\ UNCHANGED <<storage, now, inc, acc, history, ops, faults>>

(* Mutant: the use is counted from what was read before the locks were     *)
(* switched.                                                               *)
LoginSecretStale(p) ==
  /\ At(p, "login_secret")
  /\ LET k == Arg(p, 2) e == secret[k] IN
       IF e = None THEN Refuse(p)
       ELSE Then(p, IF accessor[e.acc] = None THEN <<<<"delete_secret", k>>>>
                    ELSE IF e.uses = 0 THEN <<<<"accept", e.acc, Arg(p, 3)>>>>
                    ELSE <<<<"unlock", k>>, write(k)>>
                         \o (IF e.uses = 1 THEN Revoked(k)
                             ELSE <<<<"put_secret", k, [e EXCEPT !.uses = @ - 1]>>>>)
                         \o <<<<"accept", e.acc, Arg(p, 3)>>>>)
  /\ UNCHANGED <<storage, now, inc, acc, history, ops, faults>>

(* Under the read lock; nobody looks at the expiration. *)
LoginSecret(p) ==
  /\ At(p, "login_secret")
  /\ LET k == Arg(p, 2) e == secret[k] IN
       IF e = None THEN Refuse(p)
       ELSE Then(p, IF accessor[e.acc] = None THEN <<<<"delete_secret", k>>>>
                    ELSE IF e.uses = 0 THEN <<<<"accept", e.acc, Arg(p, 3)>>>>
                    ELSE <<<<"unlock", k>>, write(k), <<"login_use", k, Arg(p, 3)>>>>)
  /\ UNCHANGED <<storage, now, inc, acc, history, ops, faults>>

(* "Lock switching may change the data": a secret registered again without  *)
(* num_uses meanwhile is counted down below nought.                         *)
LoginUse(p) ==
  /\ At(p, "login_use")
  /\ LET k == Arg(p, 2) e == secret[k] IN
       IF e = None THEN Refuse(p)
       ELSE Then(p, (IF e.uses = 1 THEN Revoked(k)
                     ELSE <<<<"put_secret", k, [e EXCEPT !.uses = @ - 1]>>>>)
                    \o <<<<"accept", e.acc, Arg(p, 3)>>>>)
  /\ UNCHANGED <<storage, now, inc, acc, history, ops, faults>>

Accept(p) ==
  /\ At(p, "accept")
  /\ accepts' = [accepts EXCEPT ![Arg(p, 2)] = @ + 1]
  /\ Then(p, <<>>)
  /\ UNCHANGED <<storage, now, inc, acc, limit, made, gone, overlap, outdated, ops, faults>>

-----------------------------------------------------------------------------
(* tidy_secret_id_routine, one at a time (tidy_secret_id_cas_guard).        *)

Expired(k) == secret[k] # None /\ now > secret[k].exp
Orphan(a) == accessor[a] # None /\ secret[accessor[a]] = None
Stored == {k \in Key : secret[k] # None}

(* The last argument is what a finished tidy promises to have removed. *)
TidyStart ==
  Request(Tidy, <<<<"tidy", {k \in Stored : Expired(k)}, {a \in Acc : Orphan(a)}>>>>)

Cleanup(k) == <<write(k), <<"tidy_secret", k>>, <<"unlock", k>>>>

(* The accessors are listed, and the secrets; skip_hashes is empty. *)
TidyList ==
  /\ At(Tidy, "tidy")
  /\ Then(Tidy, <<<<"cleanup", Stored>>,
                  <<"tidy_rest", [a \in {b \in Acc : accessor[b] # None} |-> accessor[a]],
                                 {}, {k[1] : k \in Stored}>>,
                  <<"tidied", Arg(Tidy, 2), Arg(Tidy, 3)>>>>)
  /\ UNCHANGED <<storage, now, inc, acc, history, ops, faults>>

TidyEach == ForEach(Tidy, "cleanup", Cleanup)

(* skip_hashes grows: an argument of the step after the loop, the third from here. *)
Skip(a) == [Tail(work[Tidy]) EXCEPT ![3][3] = @ \cup {a}]

(* secret_id_cleanup_func: a secret that has gone since ends the tidying. *)
TidySecret ==
  /\ At(Tidy, "tidy_secret")
  /\ LET k == Arg(Tidy, 2) e == secret[k] IN
       IF e = None THEN Refuse(Tidy)
       ELSE IF accessor[e.acc] = None THEN Then(Tidy, <<<<"delete_secret", k>>>>)
       ELSE IF Expired(k) THEN Then(Tidy, Revoked(k))
       ELSE Rest(Tidy, Skip(e.acc))
  /\ UNCHANGED <<storage, now, inc, acc, history, ops, faults>>

(* The accessors no listed secret stands behind; the second listing is of   *)
(* the roles listed before.                                                 *)
Dangling(found, skip, roles) ==
  LET all == {k \in Stored : k[1] \in roles}
  IN {a \in DOMAIN found : a \notin skip /\ found[a] \notin all}

(* Mutant: one accessor more than skipped is not looked for. *)
TidyRestOffByOne ==
  /\ At(Tidy, "tidy_rest")
  /\ LET found == Arg(Tidy, 2) skip == Arg(Tidy, 3) IN
       Then(Tidy, IF Cardinality(DOMAIN found) <= Cardinality(skip) + 1 THEN <<>>
                  ELSE <<<<"dangling", Dangling(found, skip, Arg(Tidy, 4)), found>>>>)
  /\ UNCHANGED <<storage, now, inc, acc, history, ops, faults>>

TidyRest ==
  /\ At(Tidy, "tidy_rest")
  /\ LET found == Arg(Tidy, 2) skip == Arg(Tidy, 3) IN
       Then(Tidy, IF Cardinality(DOMAIN found) <= Cardinality(skip) THEN <<>>
                  ELSE <<<<"dangling", Dangling(found, skip, Arg(Tidy, 4)), found>>>>)
  /\ UNCHANGED <<storage, now, inc, acc, history, ops, faults>>

Removed(a) == LET k == Arg(Tidy, 3)[a]
              IN <<write(k), <<"delete_accessor", a>>, <<"unlock", k>>>>

TidyDangling == ForEach(Tidy, "dangling", Removed)

(* Nothing is done: the routine is at its end. *)
TidyEnd ==
  /\ At(Tidy, "tidied")
  /\ Then(Tidy, <<>>)
  /\ UNCHANGED <<storage, now, inc, acc, history, ops, faults>>

-----------------------------------------------------------------------------
Tick == now < MaxTime /\ now' = now + 1
        /\ UNCHANGED <<storage, held, work, inc, acc, history, ops, faults>>

Writes == {"put_role", "set_role_id", "delete_role_id", "put_secret",
           "delete_accessor", "delete_secret"}

Fail(p) ==
  /\ faults < MaxFaults /\ faults' = faults + 1
  /\ \E op \in Writes : At(p, op)
  /\ Refuse(p)
  /\ UNCHANGED <<storage, now, inc, acc, history, ops>>

Crash ==
  /\ faults < MaxFaults /\ faults' = faults + 1
  /\ work' = [p \in Proc |-> <<>>] /\ held' = [p \in Proc |-> {}]
  /\ UNCHANGED <<storage, now, inc, acc, history, ops>>

RoleStep(p) ==
  \/ SetRole(p) \/ PutRole(p) \/ SetRoleId(p) \/ DeleteRoleId(p) \/ DeleteRoleStep(p)
  \/ Flush(p) \/ ReadRoleStep(p) \/ Repair(p)

SecretStep(p) ==
  \/ RegisterStep(p) \/ RegisterEntry(p) \/ PutSecret(p) \/ DestroyStep(p) \/ DestroyEntry(p)
  \/ LookupStep(p) \/ LookupEntry(p) \/ DestroyAccessorStep(p) \/ DestroyFound(p)
  \/ LoginIndex(p) \/ LoginRole(p) \/ LoginSecret(p) \/ LoginUse(p) \/ Accept(p)

Step(p) == Lock(p) \/ Unlock(p) \/ DeleteAccessor(p) \/ DeleteSecret(p) \/ Fail(p)

Next ==
  \/ \E p \in Callers :
       \/ WriteRole(p) \/ SetField(p) \/ DeleteRole(p) \/ ReadRole(p) \/ Register(p) \/ Destroy(p)
       \/ Lookup(p) \/ DestroyByAccessor(p) \/ Login(p)
       \/ RoleStep(p) \/ SecretStep(p)
  \/ TidyStart \/ TidyList \/ TidyEach \/ TidySecret \/ TidyRest \/ TidyDangling
  \/ TidyEnd
  \/ \E p \in Proc : Step(p)
  \/ Tick \/ Crash

Spec == Init /\ [][Next]_vars

-----------------------------------------------------------------------------
(* Properties.                                                             *)

Written(k) == \E p \in Proc : <<k, TRUE>> \in held[p]

(* Stored entries and locks are well typed. *)
TypeOK ==
  /\ role \in [Role -> [rid : Rid, inc : 1..MaxInc] \cup {None}]
  /\ index \in [Rid -> Name \cup {None}]
  /\ secret \in [Key -> SecretEntry \cup {None}]
  /\ accessor \in [Acc -> Key \cup {None}]
  /\ held \in [Proc -> SUBSET ((Name \cup Key) \X BOOLEAN)]
  /\ now \in 1..MaxTime /\ inc \in 1..MaxInc /\ acc \in Acc

(* A secret id with num_uses is good for that many logins, however they     *)
(* overlap and whatever fails: the lock is switched, the entry read again   *)
(* (path_login.rs, login).                                                  *)
UsesBounded == \A a \in Acc : limit[a] > 0 => accepts[a] <= limit[a]

(* A login that begins after a secret id's accessor or entry was deleted -  *)
(* destroyed, used up, tidied, or its role deleted, also by half because of *)
(* an error or a crash - is not accepted with it (path_login.rs, login).    *)
GoneRefused ==
  \A p \in Callers : At(p, "accept") => Arg(p, 2) \notin Arg(p, 3)

(* Nobody but the holder of its lock sees a secret without its accessor,    *)
(* unless an operation failed; tidy's race with registration is excepted.   *)
SecretHasAccessor ==
  \A k \in Key : secret[k] # None =>
    accessor[secret[k].acc] = k \/ Written(k) \/ faults > 0 \/ secret[k].acc \in overlap

(* A tidying that comes to its end has removed what was expired, and every  *)
(* accessor that stood for nothing and still does, when it began; unless a  *)
(* secret id was registered meanwhile (tidy_secret_id_routine).             *)
TidyCollects ==
  At(Tidy, "tidied") =>
    \/ overlap # {}
    \/ /\ \A k \in Arg(Tidy, 2) : ~Expired(k)
       /\ \A a \in Arg(Tidy, 3) : ~Orphan(a)

(* The role a role_id leads to, and whether r is locked for writing. *)
leads == [x \in Rid |-> IF index[x] = None THEN None ELSE Lower[index[x]]]
Rewritten(r) == \E n \in Name : Lower[n] = r /\ Written(n)

(* A role_id leads to the role that has it, at any time, and a role is      *)
(* found by its role_id, but while its lock is held for writing; after      *)
(* errors the index may be missing, never wrong (path_role.rs, set_role,    *)
(* delete_role).  What read_role writes for a role that has changed and a   *)
(* role_id two roles took at once are excepted; and everything from the     *)
(* moment two tasks hold two spellings of a role's name for writing, which  *)
(* do not exclude each other: see README, Known divergences.                *)
IndexAgrees ==
  /\ \A r \in Role : role[r] # None =>
       \/ leads[role[r].rid] = r \/ Rewritten(r) \/ faults > 0
       \/ role[r].rid \in outdated
  /\ \A x \in Rid \ outdated : leads[x] # None =>
       role[leads[x]] # None /\ role[leads[x]].rid = x

(* What is stored is well typed, and its two cross references, from secret  *)
(* id to accessor and between role and role_id, hold outside the locks.     *)
EntriesOK == TypeOK /\ SecretHasAccessor /\ IndexAgrees

Waits(p, q) ==
  /\ At(p, "lock")
  /\ \E h \in held[q] : h[1] = Arg(p, 2) /\ (h[2] \/ Arg(p, 3))

(* No task waits for a lock it holds, and none wait in a circle             *)
(* (path_role.rs, path_login.rs, path_tidy_secret_id.rs).                   *)
NoLockCycle ==
  \A S \in (SUBSET {p \in Proc : At(p, "lock")}) \ {{}} : \E p \in S : \A q \in S : ~Waits(p, q)

(* "at worst this may mean that we fail to clean up something we ought to." *)
(* (path_tidy_secret_id.rs:165): tidy does not take the accessor from a     *)
(* secret id that has just been registered.  It may: README, Known          *)
(* divergences.                                                             *)
TidySpares ==
  \A k \in Key : secret[k] # None /\ now <= secret[k].exp =>
    accessor[secret[k].acc] = k \/ Written(k) \/ faults > 0
=============================================================================
