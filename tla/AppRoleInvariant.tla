------------------------- MODULE AppRoleInvariant --------------------------
(* The inductive invariant of AppRole, for any roles, role_ids, secret ids, *)
(* tasks and bounds, and what its steps do in these terms; AppRole_proofs   *)
(* proves it.  It is built in layers, each kept by every step given those   *)
(* before it: what the tasks have to do and the locks they hold meanwhile   *)
(* (Shapes); secret ids, their accessors, uses and logins (Secrets); the    *)
(* index of role_ids (Indexed); accessors that are not lost (Kept); and     *)
(* what tidying has still to find (Tidied).                                 *)
EXTENDS AppRole

RoleEntry == [rid : Rid, inc : 1..MaxInc]
Lock1 == (Name \cup Key) \X BOOLEAN
Found == UNION {[D -> Key] : D \in SUBSET Acc}

-----------------------------------------------------------------------------
(* The first layer.  What a task has to do once it holds H and does not     *)
(* begin with a lock: by the first step, all of it.                         *)

(* The lock held to write the role of a name: that of some spelling of it.  *)
ForRole(H, r) == \E n \in Name : Lower[n] = Lower[r] /\ H = {<<n, TRUE>>}

RoleBody(H, w) ==
  /\ w[1][1] = "set_role" => \E r \in Name, x \in Rid \cup {None} :
       w = <<<<"set_role", r, x>>>> /\ ForRole(H, r)
  /\ w[1][1] = "delete_role" => \E r \in Name :
       w = <<<<"delete_role", r>>>> /\ H = {<<r, TRUE>>}
  /\ w[1][1] = "read_role" => \E r \in Name :
       w = <<<<"read_role", r>>>> /\ H = {<<r, FALSE>>}
  /\ w[1][1] = "repair" => \E r \in Name, x \in Rid :
       w = <<<<"repair", x, r>>>> /\ H = {<<r, TRUE>>}
  /\ w[1][1] = "flush" => \E K \in SUBSET Key, o \in Rid, r \in Name :
       w = <<<<"flush", K>>, <<"delete_role_id", o, r>>, <<"put_role", r, None>>>>
       /\ H = {<<r, TRUE>>}
  /\ w[1][1] = "delete_role_id" => \E o \in Rid, r \in Name :
       /\ ForRole(H, r)
       /\ \/ w = <<<<"delete_role_id", o, r>>, <<"put_role", r, None>>>>
          \/ \E e \in RoleEntry : e.rid # o /\
               w = <<<<"delete_role_id", o, r>>, <<"put_role", r, e>>,
                     <<"set_role_id", e.rid, r>>>>
  /\ w[1][1] = "put_role" => \E r \in Name :
       /\ ForRole(H, r)
       /\ \/ w = <<<<"put_role", r, None>>>>
          \/ \E e \in RoleEntry :
               \/ w = <<<<"put_role", r, e>>>>
               \/ w = <<<<"put_role", r, e>>, <<"set_role_id", e.rid, r>>>>
  /\ w[1][1] = "set_role_id" => \E x \in Rid, r \in Name :
       w = <<<<"set_role_id", x, r>>>> /\ ForRole(H, r)

SecretBody(H, w) ==
  /\ w[1][1] = "register" => \E r \in Name, s \in Sid, u \in 0..MaxUses, ttl \in 0..1 :
       w = <<<<"register", r, s, u, ttl>>>> /\ H = {<<r, FALSE>>}
  /\ w[1][1] = "register_entry" =>
       \E r \in Name, k \in Key, u \in 0..MaxUses, ttl \in 0..1 :
         w = <<<<"register_entry", k, u, ttl>>>> /\ H = {<<r, FALSE>>, <<k, TRUE>>}
  /\ w[1][1] = "destroy" => \E r \in Name, s \in Sid :
       w = <<<<"destroy", r, s>>>> /\ H = {<<r, FALSE>>}
  /\ w[1][1] = "destroy_entry" => \E r \in Name, k \in Key :
       w = <<<<"destroy_entry", k>>>> /\ H = {<<r, FALSE>>, <<k, TRUE>>}
  /\ w[1][1] = "lookup" => \E r \in Name, s \in Sid :
       w = <<<<"lookup", r, s>>>> /\ H = {<<r, FALSE>>}
  /\ w[1][1] = "lookup_entry" => \E r \in Name, k \in Key :
       w = <<<<"lookup_entry", k>>>> /\ H = {<<r, FALSE>>, <<k, TRUE>>}
  /\ w[1][1] = "destroy_accessor" => \E r \in Name, a \in Acc :
       w = <<<<"destroy_accessor", r, a>>>> /\ H = {<<r, TRUE>>}
  /\ w[1][1] = "destroy_found" => \E r \in Name, k \in Key, a \in Acc :
       w = <<<<"destroy_found", k, a>>>> /\ H = {<<r, TRUE>>, <<k, TRUE>>}

LoginBody(H, w) ==
  /\ w[1][1] = "login" => \E x \in Rid, s \in Sid, g \in SUBSET Acc :
       w = <<<<"login", x, s, g>>>> /\ H = {}
  /\ w[1][1] = "login_role" => \E r \in Name, s \in Sid, g \in SUBSET Acc :
       w = <<<<"login_role", r, s, g>>>> /\ H = {<<r, FALSE>>}
  /\ w[1][1] = "login_secret" => \E k \in Key, g \in SUBSET Acc :
       w = <<<<"login_secret", k, g>>>> /\ H = {<<k, FALSE>>}
  /\ w[1][1] = "login_use" => \E k \in Key, g \in SUBSET Acc :
       w = <<<<"login_use", k, g>>>> /\ H = {<<k, TRUE>>}
  /\ w[1][1] = "accept" => \E k \in Key, b \in BOOLEAN, a \in Acc, g \in SUBSET Acc :
       w = <<<<"accept", a, g>>>> /\ H = {<<k, b>>}

(* Steps that write the entries of secret ids. *)
WriteBody(H, w) ==
  /\ w[1][1] = "put_secret" => \E k \in Key :
       \/ \E r \in Name : w = <<<<"put_secret", k, w[1][3]>>>>
            /\ w[1][3] \in SecretEntry /\ H = {<<r, FALSE>>, <<k, TRUE>>}
       \/ \E g \in SUBSET Acc :
            /\ w = <<<<"put_secret", k, w[1][3]>>, <<"accept", w[1][3].acc, g>>>>
            /\ w[1][3] \in SecretEntry /\ H = {<<k, TRUE>>}
  /\ w[1][1] = "delete_accessor" => \E k \in Key, a \in Acc :
       \/ \E r \in Name, b \in BOOLEAN :
            w = <<<<"delete_accessor", a>>, <<"delete_secret", k>>>>
            /\ H = {<<r, b>>, <<k, TRUE>>}
       \/ \E g \in SUBSET Acc :
            w = <<<<"delete_accessor", a>>, <<"delete_secret", k>>, <<"accept", a, g>>>>
            /\ H = {<<k, TRUE>>}
  /\ w[1][1] = "delete_secret" => \E k \in Key :
       \/ \E r \in Name, b \in BOOLEAN : w = <<<<"delete_secret", k>>>>
            /\ H = {<<r, b>>, <<k, TRUE>>}
       \/ w = <<<<"delete_secret", k>>>> /\ H = {<<k, FALSE>>}
       \/ \E a \in Acc, g \in SUBSET Acc :
            w = <<<<"delete_secret", k>>, <<"accept", a, g>>>> /\ H = {<<k, TRUE>>}
       \/ \E K \in SUBSET Key, o \in Rid, r \in Name :
            w = <<<<"delete_secret", k>>, <<"unlock", k>>, <<"flush", K>>,
                  <<"delete_role_id", o, r>>, <<"put_role", r, None>>>>
            /\ H = {<<r, TRUE>>, <<k, TRUE>>}

CallerOps ==
  {"set_role", "delete_role", "read_role", "repair", "flush", "delete_role_id", "put_role",
   "set_role_id", "register", "register_entry", "destroy", "destroy_entry", "lookup",
   "lookup_entry", "destroy_accessor", "destroy_found", "login", "login_role",
   "login_secret", "login_use", "accept", "put_secret", "delete_accessor", "delete_secret"}

CallerBody(H, w) ==
  /\ w # <<>> /\ w[1][1] \in CallerOps
  /\ RoleBody(H, w) /\ SecretBody(H, w) /\ LoginBody(H, w) /\ WriteBody(H, w)

(* The end of tidy_secret_id_routine, from either loop on. *)
CleanupRests(w1, w2, w3) ==
  \E E \in SUBSET Key, O \in SUBSET Acc, f \in Found :
    \E K \in SUBSET Key, s \in SUBSET Acc, R \in SUBSET (1..MaxInc) :
      w1 = <<"cleanup", K>> /\ w2 = <<"tidy_rest", f, s, R>> /\ w3 = <<"tidied", E, O>>

DanglingRests(w1, w2) ==
  \E E \in SUBSET Key, O \in SUBSET Acc, f \in Found : \E K \in SUBSET (DOMAIN f) :
    w1 = <<"dangling", K, f>> /\ w2 = <<"tidied", E, O>>

TidyOps == {"tidy", "cleanup", "tidy_secret", "tidy_rest", "dangling", "tidied",
            "delete_accessor", "delete_secret"}

TidyBody(H, w) ==
  /\ w # <<>> /\ w[1][1] \in TidyOps
  /\ w[1][1] = "tidy" => \E E \in SUBSET Key, O \in SUBSET Acc :
       w = <<<<"tidy", E, O>>>> /\ H = {}
  /\ w[1][1] = "cleanup" =>
       Len(w) = 3 /\ w = <<w[1], w[2], w[3]>> /\ CleanupRests(w[1], w[2], w[3]) /\ H = {}
  /\ w[1][1] = "dangling" =>
       Len(w) = 2 /\ w = <<w[1], w[2]>> /\ DanglingRests(w[1], w[2]) /\ H = {}
  /\ w[1][1] = "tidy_rest" =>
       \E E \in SUBSET Key, O \in SUBSET Acc, f \in Found, s \in SUBSET Acc :
         \E R \in SUBSET (1..MaxInc) :
           w = <<<<"tidy_rest", f, s, R>>, <<"tidied", E, O>>>> /\ H = {}
  /\ w[1][1] = "tidied" => \E E \in SUBSET Key, O \in SUBSET Acc :
       w = <<<<"tidied", E, O>>>> /\ H = {}
  /\ w[1][1] = "tidy_secret" => \E k \in Key :
       /\ Len(w) = 5 /\ w = <<<<"tidy_secret", k>>, <<"unlock", k>>, w[3], w[4], w[5]>>
       /\ CleanupRests(w[3], w[4], w[5]) /\ H = {<<k, TRUE>>}
  /\ w[1][1] = "delete_accessor" => \E k \in Key, a \in Acc :
       /\ H = {<<k, TRUE>>}
       /\ \/ /\ Len(w) = 4 /\ w = <<<<"delete_accessor", a>>, <<"unlock", k>>, w[3], w[4]>>
             /\ DanglingRests(w[3], w[4])
          \/ /\ Len(w) = 6
             /\ w = <<<<"delete_accessor", a>>, <<"delete_secret", k>>, <<"unlock", k>>,
                      w[4], w[5], w[6]>>
             /\ CleanupRests(w[4], w[5], w[6])
  /\ w[1][1] = "delete_secret" => \E k \in Key :
       /\ Len(w) = 5 /\ w = <<<<"delete_secret", k>>, <<"unlock", k>>, w[3], w[4], w[5]>>
       /\ CleanupRests(w[3], w[4], w[5]) /\ H = {<<k, TRUE>>}

Body(p, H, w) == IF p = Tidy THEN TidyBody(H, w) ELSE CallerBody(H, w)

(* What comes after a lock. *)
Locked(w) ==
  \/ w[1][1] \in {"set_role", "delete_role", "read_role", "repair", "register", "destroy",
       "lookup", "destroy_accessor", "register_entry", "destroy_entry", "lookup_entry",
       "destroy_found", "login_role", "login_secret", "login_use", "tidy_secret"}
  \/ w[1][1] \in {"delete_secret", "delete_accessor"} /\ Len(w) > 1 /\ w[2][1] = "unlock"

StepsOf(w) == {w[i] : i \in DOMAIN w}
Chain(w) == StepsOf(w) = {w[1]} \cup StepsOf(Tail(w))

(* Role locks are asked for with no lock held, a secret's with no other's.  *)
Locking(p, H, w) ==
  \E k \in Name \cup Key, b \in BOOLEAN :
    /\ w[1] = <<"lock", k, b>> /\ Chain(w)
    /\ Body(p, H \cup {<<k, b>>}, Tail(w)) /\ Locked(Tail(w))
    /\ k \in Name => H = {}
    /\ \A h \in H : h[1] \notin Key

Without(H, k) == {h \in H : h[1] # k}

Unlocking(p, H, w) ==
  \E k \in Name \cup Key :
    /\ w[1] = <<"unlock", k>> /\ Chain(w)
    /\ \/ Body(p, Without(H, k), Tail(w))
          /\ Tail(w)[1][1] \in {"flush", "cleanup", "dangling"}
       \/ Locking(p, Without(H, k), Tail(w))

Fits(p, H, w) ==
  IF w = <<>> THEN H = {}
  ELSE IF w[1][1] = "lock" THEN Locking(p, H, w)
  ELSE IF w[1][1] = "unlock" THEN Unlocking(p, H, w)
  ELSE Body(p, H, w)

(* A lock that is held for writing is held by one task, once. *)
Exclusive ==
  \A p, q \in Proc : \A h \in held[p], g \in held[q] : h[1] = g[1] /\ h[2] => p = q /\ h = g

EntriesTyped ==
  /\ role \in [Role -> RoleEntry \cup {None}]
  /\ index \in [Rid -> Name \cup {None}]
  /\ secret \in [Key -> SecretEntry \cup {None}]
  /\ accessor \in [Acc -> Key \cup {None}]
  /\ now \in 1..MaxTime /\ inc \in 1..MaxInc /\ acc \in Acc

HistoryTyped ==
  /\ limit \in [Acc -> 0..MaxUses] /\ accepts \in [Acc -> Nat]
  /\ made \in [Acc -> Key \cup {None}]
  /\ gone \subseteq Acc /\ overlap \subseteq Acc /\ outdated \subseteq Rid
  /\ faults \in Nat

TasksTyped ==
  /\ DOMAIN work = Proc
  /\ held \in [Proc -> SUBSET Lock1]
  /\ \A p \in Proc : Fits(p, held[p], work[p])

Shapes == EntriesTyped /\ HistoryTyped /\ TasksTyped /\ Exclusive

-----------------------------------------------------------------------------
(* The second layer: secret ids.                                            *)

Steps(p) == StepsOf(work[p])

(* Accessors are made in turn, each for one secret id. *)
MadeOK ==
  /\ \A a \in Acc : made[a] = None <=> a > acc
  /\ \A a \in Acc : accessor[a] # None => accessor[a] = made[a]
  /\ \A k \in Key : secret[k] # None => made[secret[k].acc] = k
  /\ \A a \in Acc : made[a] = None => limit[a] = 0 /\ accepts[a] = 0
  /\ \A a \in gone : made[a] # None

(* What the steps still to do say of accessors and secret ids. *)
StepOK(t) ==
  /\ t[1] = "delete_accessor" => t[2] \in Acc /\ made[t[2]] # None
  /\ t[1] = "put_secret" => t[2] \in Key /\ t[3] \in SecretEntry /\ made[t[3].acc] = t[2]
  /\ t[1] = "destroy_found" => t[2] \in Key /\ t[3] \in Acc /\ made[t[3]] = t[2]
  /\ t[1] \in {"login", "login_role"} => t[4] \subseteq gone
  /\ t[1] \in {"login_secret", "login_use"} => t[2] \in Key /\ t[3] \subseteq gone
  /\ t[1] = "login_use" /\ secret[t[2]] # None => secret[t[2]].acc \notin t[3]
  /\ t[1] = "accept" => t[2] \in Acc /\ made[t[2]] # None /\ t[2] \notin t[3]
  /\ t[1] = "tidy_rest" => t[2] \in Found /\ \A a \in DOMAIN t[2] : t[2][a] = made[a]
  /\ t[1] = "dangling" => t[3] \in Found /\ \A a \in DOMAIN t[3] : t[3][a] = made[a]

(* A new secret id is between its accessor and its entry. *)
Fresh(p) ==
  At(p, "put_secret") /\ Len(work[p]) = 1 =>
    LET k == Arg(p, 2) a == Arg(p, 3).acc IN
    /\ secret[k] = None /\ accessor[a] = k
    /\ limit[a] = Arg(p, 3).uses /\ accepts[a] = 0
    /\ \A q \in Proc : \A t \in Steps(q) : t[1] = "accept" => t[2] # a

(* A use has been counted; the last one deletes the secret id. *)
Used(p) ==
  /\ At(p, "put_secret") /\ Len(work[p]) = 2 =>
       LET e == secret[Arg(p, 2)] IN
       e # None /\ e.uses # 1 /\ Arg(p, 3) = [e EXCEPT !.uses = @ - 1]
  /\ At(p, "delete_accessor") /\ Len(work[p]) = 3 =>
       LET e == secret[work[p][2][2]] IN e # None /\ e.uses = 1 /\ e.acc = Arg(p, 2)
  /\ At(p, "delete_secret") /\ Len(work[p]) = 2 =>
       LET e == secret[Arg(p, 2)] IN e # None /\ e.uses = 1 /\ e.acc = work[p][2][2]

(* An accessor is deleted under the lock of what it was made for. *)
Doing(p) == \A t, u \in Steps(p) :
  t[1] = "delete_accessor" /\ u[1] \in {"delete_secret", "unlock"} => u[2] = made[t[2]]

Accepting(a) == {p \in Callers : At(p, "accept") /\ Arg(p, 2) = a}

(* Uses: what is left and what was taken. *)
Left(a, n) == limit[a] > 0 => accepts[a] + Cardinality(Accepting(a)) + n <= limit[a]
UsesOK ==
  /\ \A a \in Acc : Left(a, 0)
  /\ \A k \in Key : secret[k] # None =>
       /\ Left(secret[k].acc, secret[k].uses)
       /\ limit[secret[k].acc] > 0 => secret[k].uses > 0

GoneOK ==
  \A a \in gone : accessor[a] # None =>
    /\ secret[made[a]] = None \/ secret[made[a]].acc # a
    /\ \A p \in Proc : At(p, "put_secret") => Arg(p, 3).acc # a

Secrets ==
  /\ MadeOK /\ UsesOK /\ GoneOK
  /\ \A p \in Proc : (\A t \in Steps(p) : StepOK(t)) /\ Fresh(p) /\ Used(p) /\ Doing(p)

-----------------------------------------------------------------------------
(* The third layer: roles and their index, until two spellings of a name    *)
(* are written under at once (outdated is Rid then).                        *)

(* The index of r is about to be written. *)
Moving(p, r) ==
  \/ At(p, "put_role") /\ Lower[Arg(p, 2)] = r /\
       (Arg(p, 3) = None \/ (role[r] # None /\ Arg(p, 3).rid # role[r].rid))
  \/ At(p, "set_role_id") /\ Lower[Arg(p, 3)] = r /\ role[r] # None
       /\ role[r].rid = Arg(p, 2)

(* Before the role is changed it leaves the index; an index is written for  *)
(* what the role says.                                                      *)
RoleStepOK(p) ==
  /\ At(p, "put_role") /\ Len(work[p]) = 1 /\ Arg(p, 3) # None =>
       role[Lower[Arg(p, 2)]] # None /\ role[Lower[Arg(p, 2)]].rid = Arg(p, 3).rid
  /\ At(p, "put_role") /\ role[Lower[Arg(p, 2)]] # None
       /\ (Arg(p, 3) = None \/ Arg(p, 3).rid # role[Lower[Arg(p, 2)]].rid) =>
       \/ leads[role[Lower[Arg(p, 2)]].rid] # Lower[Arg(p, 2)]
       \/ role[Lower[Arg(p, 2)]].rid \in outdated
  /\ At(p, "set_role_id") =>
       \/ Arg(p, 2) \in outdated
       \/ role[Lower[Arg(p, 3)]] # None /\ role[Lower[Arg(p, 3)]].rid = Arg(p, 2)
  /\ \A t \in Steps(p) :
       /\ t[1] = "delete_role_id" => role[Lower[t[3]]] # None /\ role[Lower[t[3]]].rid = t[2]
       /\ t[1] = "set_role_id" => t[2] \in outdated \/ leads[t[2]] \in {None, Lower[t[3]]}

Agreeing ==
  /\ \A r \in Role : role[r] # None =>
       \/ leads[role[r].rid] = r \/ faults > 0 \/ role[r].rid \in outdated
       \/ \E p \in Proc : Moving(p, r)
  /\ \A x \in Rid \ outdated : leads[x] # None => role[leads[x]] # None /\ role[leads[x]].rid = x
  /\ \A p \in Proc : RoleStepOK(p)
  /\ \A p, q \in Proc : \A s \in Steps(p), t \in Steps(q) :
       s[1] = "set_role_id" /\ t[1] = "set_role_id" /\ s[2] = t[2]
         /\ Lower[s[3]] # Lower[t[3]] => s[2] \in outdated

(* Two tasks write no role under two spellings. *)
Apiece ==
  \A p, q \in Proc : \A h \in held[p], g \in held[q] :
    h[1] \in Name /\ g[1] \in Name /\ Lower[h[1]] = Lower[g[1]] /\ h[2] /\ g[2] => p = q

Indexed == outdated = Rid \/ (Apiece /\ Agreeing)

-----------------------------------------------------------------------------
(* The fourth layer: secrets keep their accessors.                          *)

HalfDeleted(k) == \E p \in Proc : At(p, "delete_secret") /\ Arg(p, 2) = k /\ <<k, TRUE>> \in held[p]

NotNeeded(a) == secret[made[a]] # None /\ secret[made[a]].acc = a => a \in overlap

KeptStep(t, S) ==
  /\ t[1] = "tidy_rest" => \A k \in Key : secret[k] # None =>
       k[1] \in t[4] \/ secret[k].acc \in overlap
  /\ t[1] = "dangling" => t[2] \subseteq DOMAIN t[3] /\ \A a \in t[2] : NotNeeded(a)
  /\ t[1] = "delete_accessor" /\ (\E u \in S : u[1] = "dangling") => NotNeeded(t[2])

Kept ==
  /\ \A k \in Key : secret[k] # None /\ accessor[secret[k].acc] = None =>
       HalfDeleted(k) \/ faults > 0 \/ secret[k].acc \in overlap
  /\ \A t \in Steps(Tidy) : KeptStep(t, Steps(Tidy))

-----------------------------------------------------------------------------
(* The fifth layer: tidying, as long as nothing was registered meanwhile.   *)

(* S: what tidy has still to do. *)
ToDo(k, S) == \E t \in S :
  \/ t[1] = "tidy"
  \/ t[1] = "cleanup" /\ k \in t[2]
  \/ t[1] \in {"tidy_secret", "delete_secret"} /\ t[2] = k
ToFind(a, S) == \E t \in S :
  \/ t[1] = "tidy"
  \/ t[1] = "tidy_rest" /\ a \in DOMAIN t[2]
  \/ t[1] = "dangling" /\ a \in t[2]
  \/ t[1] = "delete_accessor" /\ t[2] = a

(* What was promised and is still there will be come upon. *)
Promised(t, S) ==
  /\ t[2] \subseteq Key /\ t[3] \subseteq Acc
  /\ \A k \in t[2] : secret[k] # None => now > secret[k].exp /\ ToDo(k, S)
  /\ \A a \in t[3] : /\ made[a] # None /\ secret[made[a]] = None
                     /\ accessor[a] # None => ToFind(a, S)

Looked(t, S) ==
  /\ \A a \in Acc : accessor[a] # None => a \in DOMAIN t[2]
  /\ t[3] \subseteq DOMAIN t[2]
  /\ \A s \in S : s[1] = "tidied" => t[3] \cap s[3] = {}

TidiedStep(t, S) ==
  /\ t[1] \in {"tidy", "tidied"} => Promised(t, S)
  /\ t[1] = "tidy_rest" => Looked(t, S)

Tidied == overlap = {} => \A t \in Steps(Tidy) : TidiedStep(t, Steps(Tidy))

IInv == Shapes /\ Secrets /\ Indexed /\ Kept /\ Tidied

-----------------------------------------------------------------------------
(* What a step does to its task.  The task has w to do next and holds the    *)
(* locks H; no other task is touched.                                        *)

Moved(p, w, H) ==
  /\ work'[p] = w /\ held'[p] = H /\ DOMAIN work' = Proc /\ held' = [q \in Proc |-> held'[q]]
  /\ \A q \in Proc \ {p} : work'[q] = work[q] /\ held'[q] = held[q]

(* The steps, one by one: what the task had to do, what it holds, and each   *)
(* way it can go on.                                                         *)

SetRoleEffect(p, r, y) ==
  /\ work[p] = <<<<"set_role", r, y>>>> /\ ForRole(held[p], r)
  /\ \/ Moved(p, <<>>, {}) /\ UNCHANGED <<inc, outdated>>
     \/ \E x \in Rid, e \in RoleEntry :
          /\ x = NewRid(p) /\ index[x] \in {None, r} /\ e.rid = x
          /\ inc' \in 1..MaxInc
          /\ \/ /\ role[Lower[r]] # None /\ role[Lower[r]].rid # x
                /\ Moved(p, <<<<"delete_role_id", role[Lower[r]].rid, r>>,
                              <<"put_role", r, e>>, <<"set_role_id", x, r>>>>, held[p])
                /\ outdated' = IF Contested(p, x, Lower[r]) THEN outdated \cup {x} ELSE outdated
             \/ /\ role[Lower[r]] # None => role[Lower[r]].rid = x
                /\ Moved(p, <<<<"put_role", r, e>>, <<"set_role_id", x, r>>>>, held[p])
                /\ outdated' = IF Contested(p, x, Lower[r]) THEN outdated \cup {x} ELSE outdated
             \/ /\ role[Lower[r]] # None /\ role[Lower[r]].rid = x
                /\ Moved(p, <<<<"put_role", r, e>>>>, held[p])
                /\ outdated' = outdated

PutRoleEffect(p, r) ==
  /\ ForRole(held[p], r)
  /\ \/ /\ work[p] = <<<<"put_role", r, None>>>> /\ Moved(p, <<>>, {})
        /\ role' = [role EXCEPT ![Lower[r]] = None]
     \/ \E e \in RoleEntry :
          /\ role' = [role EXCEPT ![Lower[r]] = e]
          /\ \/ work[p] = <<<<"put_role", r, e>>>> /\ Moved(p, <<>>, {})
             \/ /\ work[p] = <<<<"put_role", r, e>>, <<"set_role_id", e.rid, r>>>>
                /\ Moved(p, <<<<"set_role_id", e.rid, r>>>>, held[p])

DeleteRoleIdEffect(p, x, r) ==
  /\ ForRole(held[p], r) /\ index' = [index EXCEPT ![x] = None]
  /\ \/ /\ work[p] = <<<<"delete_role_id", x, r>>, <<"put_role", r, None>>>>
        /\ Moved(p, <<<<"put_role", r, None>>>>, held[p])
     \/ \E e \in RoleEntry :
          /\ e.rid # x
          /\ work[p] = <<<<"delete_role_id", x, r>>, <<"put_role", r, e>>,
                         <<"set_role_id", e.rid, r>>>>
          /\ Moved(p, <<<<"put_role", r, e>>, <<"set_role_id", e.rid, r>>>>, held[p])

DeleteRoleStepEffect(p, r) ==
  /\ work[p] = <<<<"delete_role", r>>>> /\ held[p] = {<<r, TRUE>>}
  /\ \/ Moved(p, <<>>, {})
     \/ \E K \in SUBSET Key :
          /\ role[Lower[r]] \in RoleEntry
          /\ Moved(p, <<<<"flush", K>>, <<"delete_role_id", role[Lower[r]].rid, r>>,
                        <<"put_role", r, None>>>>, held[p])

FlushEffect(p, K, x, r) ==
  /\ work[p] = <<<<"flush", K>>, <<"delete_role_id", x, r>>, <<"put_role", r, None>>>>
  /\ held[p] = {<<r, TRUE>>}
  /\ \/ Moved(p, <<<<"delete_role_id", x, r>>, <<"put_role", r, None>>>>, held[p])
     \/ \E k \in K :
          Moved(p, <<write(k), <<"delete_secret", k>>, <<"unlock", k>>,
                     <<"flush", K \ {k}>>, <<"delete_role_id", x, r>>,
                     <<"put_role", r, None>>>>, held[p])

RepairEffect(p, x, r) ==
  /\ work[p] = <<<<"repair", x, r>>>> /\ held[p] = {<<r, TRUE>>}
  /\ \/ Moved(p, <<>>, {}) /\ UNCHANGED outdated
     \/ /\ index[x] = None /\ Moved(p, <<<<"set_role_id", x, Lower[r]>>>>, held[p])
        /\ outdated' = IF role[Lower[r]] # None /\ role[Lower[r]].rid = x /\ ~Contested(p, x, Lower[r])
                       THEN outdated ELSE outdated \cup {x}

RegisterEntryEffect(p, r, k, u, ttl) ==
  /\ work[p] = <<<<"register_entry", k, u, ttl>>>>
  /\ held[p] = {<<r, FALSE>>, <<k, TRUE>>}
  /\ \/ Moved(p, <<>>, {}) /\ UNCHANGED <<accessor, acc, limit, made, overlap>>
     \/ \E a \in Acc, e \in SecretEntry :
          /\ secret[k] = None /\ a = acc + 1 /\ acc' = a
          /\ e.acc = a /\ e.uses = u
          /\ accessor' = [accessor EXCEPT ![a] = k]
          /\ limit' = [limit EXCEPT ![a] = u] /\ made' = [made EXCEPT ![a] = k]
          /\ overlap' = IF work[Tidy] = <<>> THEN overlap ELSE overlap \cup {a}
          /\ Moved(p, <<<<"put_secret", k, e>>>>, held[p])

PutSecretEffect(p, k, e) ==
  /\ secret' = [secret EXCEPT ![k] = e]
  /\ overlap' = IF work[Tidy] = <<>> \/ secret[k] # None THEN overlap
                ELSE overlap \cup {e.acc}
  /\ \/ \E r \in Name :
          /\ work[p] = <<<<"put_secret", k, e>>>>
          /\ held[p] = {<<r, FALSE>>, <<k, TRUE>>} /\ Moved(p, <<>>, {})
     \/ \E g \in SUBSET Acc :
          /\ work[p] = <<<<"put_secret", k, e>>, <<"accept", e.acc, g>>>>
          /\ held[p] = {<<k, TRUE>>} /\ Moved(p, <<<<"accept", e.acc, g>>>>, held[p])

DestroyEntryEffect(p, r, k) ==
  /\ work[p] = <<<<"destroy_entry", k>>>> /\ held[p] = {<<r, FALSE>>, <<k, TRUE>>}
  /\ \/ Moved(p, <<>>, {})
     \/ /\ secret[k] # None /\ secret[k] \in SecretEntry
        /\ Moved(p, <<<<"delete_accessor", secret[k].acc>>, <<"delete_secret", k>>>>,
                 held[p])

DestroyFoundEffect(p, r, k, a) ==
  /\ work[p] = <<<<"destroy_found", k, a>>>> /\ held[p] = {<<r, TRUE>>, <<k, TRUE>>}
  /\ \/ Moved(p, <<>>, {})
     \/ Moved(p, <<<<"delete_accessor", a>>, <<"delete_secret", k>>>>, held[p])

LoginSecretEffect(p, k, g) ==
  /\ work[p] = <<<<"login_secret", k, g>>>> /\ held[p] = {<<k, FALSE>>}
  /\ \/ Moved(p, <<>>, {})
     \/ Moved(p, <<<<"delete_secret", k>>>>, held[p])
     \/ \E e \in SecretEntry :
          /\ secret[k] # None /\ secret[k] = e /\ accessor[e.acc] # None
          /\ \/ e.uses = 0 /\ Moved(p, <<<<"accept", e.acc, g>>>>, held[p])
             \/ Moved(p, <<<<"unlock", k>>, write(k), <<"login_use", k, g>>>>, held[p])

LoginUseEffect(p, k, g) ==
  /\ work[p] = <<<<"login_use", k, g>>>> /\ held[p] = {<<k, TRUE>>}
  /\ \/ Moved(p, <<>>, {})
     \/ \E e \in SecretEntry :
          /\ secret[k] # None /\ secret[k] = e
          /\ \/ /\ e.uses = 1
                /\ Moved(p, <<<<"delete_accessor", e.acc>>, <<"delete_secret", k>>,
                              <<"accept", e.acc, g>>>>, held[p])
             \/ \E f \in SecretEntry :
                  /\ e.uses # 1 /\ f = [e EXCEPT !.uses = @ - 1] /\ f.acc = e.acc
                  /\ Moved(p, <<<<"put_secret", k, f>>, <<"accept", f.acc, g>>>>,
                           held[p])

DeleteAccessorEffect(p, k, a) ==
  /\ accessor' = [accessor EXCEPT ![a] = None] /\ gone' = gone \cup {a}
  /\ \/ \E r \in Name, b \in BOOLEAN :
          /\ work[p] = <<<<"delete_accessor", a>>, <<"delete_secret", k>>>>
          /\ held[p] = {<<r, b>>, <<k, TRUE>>}
          /\ Moved(p, <<<<"delete_secret", k>>>>, held[p])
     \/ \E g \in SUBSET Acc :
          /\ work[p] = <<<<"delete_accessor", a>>, <<"delete_secret", k>>,
                         <<"accept", a, g>>>>
          /\ held[p] = {<<k, TRUE>>}
          /\ Moved(p, <<<<"delete_secret", k>>, <<"accept", a, g>>>>, held[p])

TidyDeleteAccessorEffect(k, a) ==
  /\ accessor' = [accessor EXCEPT ![a] = None] /\ gone' = gone \cup {a}
  /\ held[Tidy] = {<<k, TRUE>>}
  /\ \/ \E w1, w2 :
          /\ DanglingRests(w1, w2)
          /\ work[Tidy] = <<<<"delete_accessor", a>>, <<"unlock", k>>, w1, w2>>
          /\ Moved(Tidy, <<<<"unlock", k>>, w1, w2>>, held[Tidy])
     \/ \E w1, w2, w3 :
          /\ CleanupRests(w1, w2, w3)
          /\ work[Tidy] = <<<<"delete_accessor", a>>, <<"delete_secret", k>>,
                            <<"unlock", k>>, w1, w2, w3>>
          /\ Moved(Tidy, <<<<"delete_secret", k>>, <<"unlock", k>>, w1, w2, w3>>,
                   held[Tidy])

DeleteSecretEffect(p, k) ==
  /\ secret' = [secret EXCEPT ![k] = None]
  /\ gone' = IF secret[k] = None THEN gone ELSE gone \cup {secret[k].acc}
  /\ \/ \E r \in Name, b \in BOOLEAN :
          /\ work[p] = <<<<"delete_secret", k>>>>
          /\ held[p] = {<<r, b>>, <<k, TRUE>>} /\ Moved(p, <<>>, {})
     \/ /\ work[p] = <<<<"delete_secret", k>>>>
        /\ held[p] = {<<k, FALSE>>} /\ Moved(p, <<>>, {})
     \/ \E a \in Acc, g \in SUBSET Acc :
          /\ work[p] = <<<<"delete_secret", k>>, <<"accept", a, g>>>>
          /\ held[p] = {<<k, TRUE>>} /\ Moved(p, <<<<"accept", a, g>>>>, held[p])
     \/ \E K \in SUBSET Key, o \in Rid, r \in Name :
          /\ work[p] = <<<<"delete_secret", k>>, <<"unlock", k>>, <<"flush", K>>,
                         <<"delete_role_id", o, r>>, <<"put_role", r, None>>>>
          /\ held[p] = {<<r, TRUE>>, <<k, TRUE>>}
          /\ Moved(p, <<<<"unlock", k>>, <<"flush", K>>, <<"delete_role_id", o, r>>,
                        <<"put_role", r, None>>>>, held[p])

TidyDeleteSecretEffect(k, w1, w2, w3) ==
  /\ k \in Key /\ secret' = [secret EXCEPT ![k] = None]
  /\ gone' = IF secret[k] = None THEN gone ELSE gone \cup {secret[k].acc}
  /\ CleanupRests(w1, w2, w3)
  /\ work[Tidy] = <<<<"delete_secret", k>>, <<"unlock", k>>, w1, w2, w3>>
  /\ held[Tidy] = {<<k, TRUE>>}
  /\ Moved(Tidy, <<<<"unlock", k>>, w1, w2, w3>>, held[Tidy])

TidyListEffect(E, O, f, R) ==
  /\ work[Tidy] = <<<<"tidy", E, O>>>> /\ held[Tidy] = {}
  /\ f = [a \in {b \in Acc : accessor[b] # None} |-> accessor[a]]
  /\ R = {k[1] : k \in Stored}
  /\ Moved(Tidy, <<<<"cleanup", Stored>>, <<"tidy_rest", f, {}, R>>,
                   <<"tidied", E, O>>>>, {})

TidyEachEffect(E, O, f, K, s, R) ==
  /\ work[Tidy] = <<<<"cleanup", K>>, <<"tidy_rest", f, s, R>>, <<"tidied", E, O>>>>
  /\ held[Tidy] = {}
  /\ \/ K = {} /\ Moved(Tidy, <<<<"tidy_rest", f, s, R>>, <<"tidied", E, O>>>>, {})
     \/ \E k \in K :
          Moved(Tidy, <<write(k), <<"tidy_secret", k>>, <<"unlock", k>>,
                        <<"cleanup", K \ {k}>>, <<"tidy_rest", f, s, R>>,
                        <<"tidied", E, O>>>>, {})

TidySecretEffect(E, O, f, K, s, R, k) ==
  /\ work[Tidy] = <<<<"tidy_secret", k>>, <<"unlock", k>>, <<"cleanup", K>>,
                    <<"tidy_rest", f, s, R>>, <<"tidied", E, O>>>>
  /\ held[Tidy] = {<<k, TRUE>>}
  /\ \/ Moved(Tidy, <<>>, {})
     \/ /\ secret[k] # None
        /\ Moved(Tidy, <<<<"delete_secret", k>>, <<"unlock", k>>, <<"cleanup", K>>,
                         <<"tidy_rest", f, s, R>>, <<"tidied", E, O>>>>, held[Tidy])
     \/ /\ secret[k] # None
        /\ Moved(Tidy, <<<<"delete_accessor", secret[k].acc>>, <<"delete_secret", k>>,
                         <<"unlock", k>>, <<"cleanup", K>>,
                         <<"tidy_rest", f, s, R>>, <<"tidied", E, O>>>>, held[Tidy])
     \/ /\ secret[k] # None /\ accessor[secret[k].acc] # None /\ ~Expired(k)
        /\ Moved(Tidy, <<<<"unlock", k>>, <<"cleanup", K>>,
                         <<"tidy_rest", f, s \cup {secret[k].acc}, R>>,
                         <<"tidied", E, O>>>>, held[Tidy])

TidyRestEffect(E, O, f, s, R) ==
  /\ work[Tidy] = <<<<"tidy_rest", f, s, R>>, <<"tidied", E, O>>>> /\ held[Tidy] = {}
  /\ \/ /\ Cardinality(DOMAIN f) <= Cardinality(s)
        /\ Moved(Tidy, <<<<"tidied", E, O>>>>, {})
     \/ \E K \in SUBSET (DOMAIN f) :
          /\ K = Dangling(f, s, R)
          /\ Moved(Tidy, <<<<"dangling", K, f>>, <<"tidied", E, O>>>>, {})

TidyDanglingEffect(E, O, f, K) ==
  /\ K \in SUBSET (DOMAIN f)
  /\ work[Tidy] = <<<<"dangling", K, f>>, <<"tidied", E, O>>>> /\ held[Tidy] = {}
  /\ \/ K = {} /\ Moved(Tidy, <<<<"tidied", E, O>>>>, {})
     \/ \E a \in K :
          /\ a \in Acc /\ f[a] \in Key
          /\ Moved(Tidy, <<write(f[a]), <<"delete_accessor", a>>, <<"unlock", f[a]>>,
                           <<"dangling", K \ {a}, f>>, <<"tidied", E, O>>>>, {})

UnlockEffect(p, k) ==
  /\ work[p] # <<>> /\ work[p][1] = <<"unlock", k>> /\ Chain(work[p])
  /\ Moved(p, Tail(work[p]), Without(held[p], k))
  /\ \/ /\ Body(p, Without(held[p], k), Tail(work[p]))
        /\ Tail(work[p])[1][1] \in {"flush", "cleanup", "dangling"}
     \/ Locking(p, Without(held[p], k), Tail(work[p]))

LockEffect(p, k, b) ==
  /\ work[p] # <<>> /\ work[p][1] = <<"lock", k, b>> /\ Chain(work[p]) /\ Free(k, b)
  /\ Body(p, held[p] \cup {<<k, b>>}, Tail(work[p])) /\ Locked(Tail(work[p]))
  /\ (k \in Name => held[p] = {}) /\ (\A h \in held[p] : h[1] \notin Key)
  /\ Moved(p, Tail(work[p]), held[p] \cup {<<k, b>>})

(* What callers do, by kind: a request; looking for what to do about secret *)
(* ids; the steps of a login that delete and write nothing.                  *)

Requests(p) ==
  \/ WriteRole(p) \/ SetField(p) \/ DeleteRole(p) \/ ReadRole(p) \/ Register(p)
  \/ Destroy(p) \/ Lookup(p) \/ DestroyByAccessor(p) \/ Login(p)

Looking(p) ==
  \/ RegisterStep(p) \/ DestroyStep(p) \/ LookupStep(p) \/ DestroyEntry(p)
  \/ LookupEntry(p) \/ DestroyAccessorStep(p) \/ DestroyFound(p)

LoggingIn(p) == LoginIndex(p) \/ LoginRole(p) \/ LoginSecret(p) \/ LoginUse(p) \/ Accept(p)

(* What the first step of w, and DoingOK what the steps of w, may be about. *)
HeadOK(w) == w # <<>> =>
  /\ w[1][1] = "put_secret" =>
       /\ Len(w) = 2 /\ w[1][2] \in Key
       /\ LET e == secret[w[1][2]] IN
          e # None /\ e.uses # 1 /\ w[1][3] = [e EXCEPT !.uses = @ - 1]
  /\ w[1][1] = "delete_accessor" /\ Len(w) = 3 =>
       LET e == secret[w[2][2]] IN e # None /\ e.uses = 1 /\ e.acc = w[1][2]
  /\ w[1][1] = "delete_secret" /\ Len(w) = 2 =>
       LET e == secret[w[1][2]] IN e # None /\ e.uses = 1 /\ e.acc = w[2][2]
  /\ w[1][1] = "accept" => limit[w[1][2]] = 0

DoingOK(w) == \A t, u \in StepsOf(w) :
  t[1] = "delete_accessor" /\ u[1] \in {"delete_secret", "unlock"} => u[2] = made[t[2]]

(* Steps that say nothing of accessors. *)
Plain(t) ==
  t[1] \in {"lock", "unlock", "set_role", "delete_role", "read_role", "repair", "flush",
            "delete_role_id", "put_role", "set_role_id", "register", "register_entry",
            "destroy", "destroy_entry", "lookup", "lookup_entry", "destroy_accessor",
            "delete_secret", "tidy", "cleanup", "tidy_secret", "tidied"}

Mild(p, t) == (Plain(t) \/ t \in Steps(p)) /\ t[1] # "delete_accessor"

(* The steps that write a role or its index, and the role's lock held for them. *)
RoleOps == {"put_role", "delete_role_id", "set_role_id"}

RoleOf(t) == Lower[IF t[1] = "put_role" THEN t[2] ELSE t[3]]

Holds(H, r) == \E n \in Name : Lower[n] = r /\ <<n, TRUE>> \in H

WithRole(H, t) ==
  /\ RoleOf(t) \in Role /\ Holds(H, RoleOf(t))
  /\ t[1] # "put_role" => t[2] \in Rid

HasRole(H, w, t) == WithRole(H, t) /\ (Locked(w) => \E k \in Key : <<k, TRUE>> \in H)

TidyStepOps == TidyOps \cup {"lock", "unlock"}

(* Nobody else's work moves. *)
Apart(p) == \A q \in Proc \ {p} : work'[q] = work[q]

(* Whose lock the writers of roles hold, and that tidying is none of them. *)
RolesHeld == \A p \in Proc :
  /\ \A t \in Steps(p) : t[1] \in RoleOps => WithRole(held[p], t)
  /\ At(p, "put_role") => \E r \in Name : <<r, TRUE>> \in held[p]
  /\ At(p, "set_role_id") => \E r \in Name : <<r, TRUE>> \in held[p]

TidyApart == \A t \in Steps(Tidy) : t[1] \in TidyStepOps

TidyHead == ~At(Tidy, "put_role") /\ ~At(Tidy, "set_role_id")

(* What readers do: they hold no role to write, and write none. *)
RestOf(p) == \E w : Rest(p, w)

ReaderOps == {"register", "register_entry", "destroy", "destroy_entry", "lookup", "lookup_entry",
              "login", "login_role", "login_secret", "login_use", "accept", "put_secret"}

(* What callers do but to write secret ids and accessors: none of them is changed. *)
Quiet(p) ==
  UNCHANGED <<secret, accessor, made, overlap, faults, now>> /\ ~At(p, "delete_secret")

(* Nothing new is stored. *)
Shrinks ==
  /\ \A k \in Key : secret'[k] # None => secret[k] # None /\ secret'[k].exp = secret[k].exp
  /\ \A a \in Acc : accessor'[a] # None => accessor[a] # None
  /\ UNCHANGED made /\ now' \in Int /\ now' >= now

=============================================================================
