------------------------------ MODULE RvPolicy ------------------------------
(***************************************************************************)
(* The policy store of the vendored RustyVault and the check that each     *)
(* authenticated request passes                                            *)
(* (rusty_vault_vendored/src/modules/policy/policy_store.rs, mod.rs).      *)
(*                                                                         *)
(* A policy is kept in the store's view, stored, in a cache of parsed      *)
(* policies, and in policy_type_map, typed, which says which names a token *)
(* may use.  No lock covers the three: a caller reads or writes each in a  *)
(* step of its own, and another caller's steps fall in between.            *)
(***************************************************************************)
EXTENDS RvAcl

CONSTANTS
  Name,          \* names of stored policies
  Default,       \* the one that is never deleted
  DefaultDoc,    \* DEFAULT_POLICY
  Text,          \* Text[d]: document d, parsed
  Doc,           \* documents the vault may start with
  Written,       \* those that the handler writes
  Request,       \* requests whose policies are checked
  RootPath,      \* paths the router holds for root paths
  Writers, Checkers,
  MaxSegments,   \* bound: segments of a path, more than those of any rule
  MaxOps,        \* bound: calls
  MaxFaults,     \* bound: storage errors
  None

ASSUME PolicyAssumption ==
  /\ Default \in Name /\ DefaultDoc \in Doc /\ Written \subseteq Doc
  /\ None \notin Doc /\ DOMAIN Text = Doc /\ "root" \notin Name

(* Paths: of requests, and to compare rules over. *)
Path == SeqOf(Literal, MaxSegments) \ {<<>>}

ASSUME DocumentAssumption ==
  \A d \in Doc : IsDocument(Text[d]) /\ \A k \in DOMAIN Text[d] : Len(k.path) < MaxSegments
ASSUME RequestAssumption ==
  \A r \in Request : r.operation \in Operation /\ r.path \in Path
ASSUME BoundAssumption == MaxSegments \in Nat /\ MaxOps \in Nat /\ MaxFaults \in Nat

VARIABLES
  stored,  \* acl_view: a document for each name, or None
  cache,   \* token_policies_lru
  typed,   \* policy_type_map; "root" is always in it
  work,    \* work[p]: the call of p, or the answer of its last check
  clean,   \* history: names whose last write overlapped no other call
  ops, faults

vars == <<stored, cache, typed, work, clean, ops, faults>>

Proc == Writers \cup Checkers
Tokens == {<<>>, <<"root">>} \cup {<<n>> : n \in Name}
            \cup {t \in Name \X (Name \cup {"root"}) : t[1] # t[2]}
Slot == Doc \cup {None}

Idle == [at |-> "idle"]
Busy(p) == work[p].at \notin {"idle", "answered"}

(* load_default_acl_policy: the default policy is written if it is not there. *)
WithDefault(s) == IF s[Default] = None THEN [s EXCEPT ![Default] = DefaultDoc] ELSE s

(* PolicyStore::new and setup_policy, over what the view then holds. *)
CachesAtStart(s) ==
  {[n \in Name |-> IF n = Default THEN d ELSE None] : d \in {None, s[Default]}}
TypesAtStart(s) == {n \in Name : s[n] # None}

Init ==
  /\ \E s \in [Name -> Slot] : stored = WithDefault(s)
  /\ cache \in CachesAtStart(stored)
  /\ typed = TypesAtStart(stored)
  /\ work = [p \in Proc |-> Idle]
  /\ clean = Name
  /\ ops = 0 /\ faults = 0

-----------------------------------------------------------------------------
(* The names a call touches, and whether it writes them. *)
Touches(w) == IF w.at \in {"idle", "answered"} THEN {} ELSE w.names
Writes(w) == w.at \in {"put", "type", "insert", "erase", "uncache", "untype"}

(* p begins call w.  A call is alone while no other one runs on its names, *)
(* either of them writing.  Answers are kept until the next call begins.   *)
Begin(p, w) ==
  LET met(q) == Busy(q) /\ (Writes(w) \/ Writes(work[q])) /\ w.names \cap work[q].names # {}
      others == {q \in Proc : met(q)}
  IN /\ ops < MaxOps /\ ~Busy(p)
     /\ ops' = ops + 1
     /\ work' = [q \in Proc |->
          IF q = p THEN [w EXCEPT !.alone = others = {} /\ (Writes(w) \/ w.names \subseteq clean)]
          ELSE IF ~Busy(q) THEN Idle
          ELSE IF met(q) THEN [work[q] EXCEPT !.alone = FALSE]
          ELSE work[q]]
     /\ clean' = clean \ UNION {w.names \cap work[q].names : q \in others}
     /\ UNCHANGED <<stored, cache, typed, faults>>

Step(p, w) == work' = [work EXCEPT ![p] = w]
At(p, at) == work[p].at = at
Name1(p) == CHOOSE n \in work[p].names : TRUE

(* A storage error ends the call. *)
Fail(p) ==
  /\ faults < MaxFaults
  /\ faults' = faults + 1
  /\ Step(p, IF p \in Writers THEN Idle
             ELSE [work[p] EXCEPT !.at = "answered", !.answer = "failed"])
  /\ UNCHANGED <<stored, cache, typed, clean, ops>>

(* Cache::insert: a policy that is there is replaced, another may be refused. *)
Inserted(n, d) ==
  {[cache EXCEPT ![n] = d]} \cup (IF cache[n] = None THEN {cache} ELSE {})

-----------------------------------------------------------------------------
(* handle_policy_write: set_policy, set_policy_internal. *)
SetPolicy(p) ==
  \E n \in Name, d \in Written :
    Begin(p, [at |-> "put", names |-> {n}, doc |-> d, alone |-> TRUE])

(* rgp_view.get, which never finds the name as nothing is stored there; view.put. *)
Put(p) ==
  /\ At(p, "put")
  /\ \/ Fail(p)
     \/ /\ stored' = [stored EXCEPT ![Name1(p)] = work[p].doc]
        /\ Step(p, [work[p] EXCEPT !.at = "type"])
        /\ UNCHANGED <<cache, typed, clean, ops, faults>>

SetType(p) ==
  /\ At(p, "type")
  /\ typed' = typed \cup work[p].names
  /\ Step(p, [work[p] EXCEPT !.at = "insert"])
  /\ UNCHANGED <<stored, cache, clean, ops, faults>>

(* A write that was alone makes its name clean again. *)
Cleaned(p) == IF work[p].alone THEN clean \cup work[p].names ELSE clean

(* Mutant: a policy that is in the cache stays there. *)
InsertIfAbsent(p) ==
  /\ At(p, "insert")
  /\ cache' \in IF cache[Name1(p)] # None THEN {cache} ELSE Inserted(Name1(p), work[p].doc)
  /\ clean' = Cleaned(p)
  /\ Step(p, Idle)
  /\ UNCHANGED <<stored, typed, ops, faults>>

(* save_token_policy_cache; an insert that is refused is an error answer. *)
Insert(p) ==
  /\ At(p, "insert")
  /\ cache' \in Inserted(Name1(p), work[p].doc)
  /\ clean' = Cleaned(p)
  /\ Step(p, Idle)
  /\ UNCHANGED <<stored, typed, ops, faults>>

-----------------------------------------------------------------------------
(* handle_policy_delete: delete_policy. *)
DeletePolicy(p) ==
  \E n \in Name \ {Default} :
    Begin(p, [at |-> "erase", names |-> {n}, alone |-> TRUE])

Erase(p) ==
  /\ At(p, "erase")
  /\ \/ Fail(p)
     \/ /\ stored' = [stored EXCEPT ![Name1(p)] = None]
        /\ Step(p, [work[p] EXCEPT !.at = "uncache"])
        /\ UNCHANGED <<cache, typed, clean, ops, faults>>

Uncache(p) ==
  /\ At(p, "uncache")
  /\ cache' = [cache EXCEPT ![Name1(p)] = None]
  /\ Step(p, [work[p] EXCEPT !.at = "untype"])
  /\ UNCHANGED <<stored, typed, clean, ops, faults>>

Untype(p) ==
  /\ At(p, "untype")
  /\ typed' = typed \ work[p].names
  /\ clean' = Cleaned(p)
  /\ Step(p, Idle)
  /\ UNCHANGED <<stored, cache, ops, faults>>

-----------------------------------------------------------------------------
(* post_auth: new_acl fetches the token's policies in turn, with get_policy. *)
CheckRequest(p) ==
  \E tok \in Tokens :
    Begin(p, [at |-> "look", names |-> Range(tok) \ {"root"}, token |-> tok, todo |-> tok,
              found |-> <<>>, request |-> None, doc |-> None, answer |-> "none", alone |-> TRUE,
              acl |-> TRUE])

Answer(p, r, a) ==
  Step(p, [work[p] EXCEPT !.at = "answered", !.doc = None, !.request = r, !.answer = a])

(* The policy at the head of todo is had, or is passed over. *)
Fetched(p, docs) ==
  Step(p, [work[p] EXCEPT !.at = "look", !.doc = None, !.found = @ \o docs, !.todo = Tail(@)])

(* A name without a type is an error, for a token. *)
Look(p) ==
  /\ At(p, "look") /\ work[p].todo # <<>> /\ Head(work[p].todo) # "root"
  /\ LET n == Head(work[p].todo)
     IN IF work[p].acl /\ n \notin typed THEN Answer(p, None, "error")
        ELSE IF cache[n] # None THEN Fetched(p, <<cache[n]>>)
        ELSE Step(p, [work[p] EXCEPT !.at = "read"])
  /\ UNCHANGED <<stored, cache, typed, clean, ops, faults>>

(* A policy that has a type and is not stored is passed over. *)
Read(p) ==
  /\ At(p, "read")
  /\ \/ Fail(p)
     \/ /\ LET d == stored[Head(work[p].todo)]
           IN IF d = None THEN Fetched(p, <<>>)
              ELSE Step(p, [work[p] EXCEPT !.at = "retype", !.doc = d])
        /\ UNCHANGED <<stored, cache, typed, clean, ops, faults>>

Retype(p) ==
  /\ At(p, "retype")
  /\ typed' = typed \cup {Head(work[p].todo)}
  /\ Step(p, [work[p] EXCEPT !.at = "fill"])
  /\ UNCHANGED <<stored, cache, clean, ops, faults>>

Fill(p) ==
  /\ At(p, "fill")
  /\ cache' \in Inserted(Head(work[p].todo), work[p].doc)
  /\ Fetched(p, <<work[p].doc>>)
  /\ UNCHANGED <<stored, typed, clean, ops, faults>>

(* The root policy is made on the spot. *)
LookRoot(p) ==
  /\ At(p, "look") /\ work[p].todo # <<>> /\ Head(work[p].todo) = "root"
  /\ Fetched(p, <<>>)
  /\ UNCHANGED <<stored, cache, typed, clean, ops, faults>>

(* ACL::new refuses root among others; a token without policies is not checked. *)
Verdict(w, req) ==
  LET acl == ACL([i \in DOMAIN w.found |-> Text[w.found[i]]])
  IN IF w.token = <<>> THEN "allowed"
     ELSE IF "root" \in Range(w.token)
          THEN IF w.found = <<>> THEN "allowed" ELSE "error"
     ELSE IF req.path \in RootPath /\ req.operation # "help" /\ ~RootPrivs(acl, req)
          THEN "denied"
     ELSE IF Allowed(acl, req) THEN "allowed" ELSE "denied"

Decide(p) ==
  /\ At(p, "look") /\ work[p].todo = <<>>
  /\ IF work[p].acl THEN \E r \in Request : Answer(p, r, Verdict(work[p], r))
     ELSE Answer(p, None, IF work[p].found = <<>> THEN "no policy" ELSE "policy")
  /\ UNCHANGED <<stored, cache, typed, clean, ops, faults>>

-----------------------------------------------------------------------------
(* handle_policy_read: get_policy for one name, whatever its type. *)
ReadPolicy(p) ==
  \E n \in Name :
    Begin(p, [at |-> "look", names |-> {n}, token |-> <<n>>, todo |-> <<n>>, found |-> <<>>,
              request |-> None, doc |-> None, answer |-> "none", alone |-> TRUE,
              acl |-> FALSE])

-----------------------------------------------------------------------------
(* The cache gives an entry up when it likes. *)
Evict(n) ==
  /\ cache[n] # None
  /\ cache' = [cache EXCEPT ![n] = None]
  /\ UNCHANGED <<stored, typed, work, clean, ops, faults>>

(* The vault is sealed, or its process dies, and is unsealed again: the      *)
(* calls end and the module is set up anew.                                  *)
Restart ==
  /\ faults < MaxFaults
  /\ faults' = faults + 1
  /\ stored' = WithDefault(stored)
  /\ cache' \in CachesAtStart(stored')
  /\ typed' = TypesAtStart(stored')
  /\ work' = [p \in Proc |-> Idle]
  /\ clean' = Name
  /\ UNCHANGED ops

WriterStep(p) ==
  \/ SetPolicy(p) \/ Put(p) \/ SetType(p) \/ Insert(p)
  \/ DeletePolicy(p) \/ Erase(p) \/ Uncache(p) \/ Untype(p)

CheckerStep(p) ==
  \/ CheckRequest(p) \/ ReadPolicy(p)
  \/ Look(p) \/ LookRoot(p) \/ Read(p) \/ Retype(p) \/ Fill(p) \/ Decide(p)

Next ==
  \/ \E p \in Writers : WriterStep(p)
  \/ \E p \in Checkers : CheckerStep(p)
  \/ \E n \in Name : Evict(n)
  \/ Restart

Spec == Init /\ [][Next]_vars

-----------------------------------------------------------------------------
(* Calls are at their steps, with what the steps need. *)
WorkOK(p) ==
  LET w == work[p]
  IN \/ w = Idle
     \/ /\ p \in Writers
        /\ w.at \in {"put", "type", "insert", "erase", "uncache", "untype"}
        /\ \E n \in Name : w.names = {n}
        /\ w.at \in {"put", "type", "insert"} => w.doc \in Written
        /\ w.at \in {"erase", "uncache", "untype"} => w.names # {Default}
     \/ /\ p \in Checkers
        /\ w.at \in {"look", "read", "retype", "fill", "answered"}
        /\ w.token \in Tokens /\ w.request \in Request \cup {None}
        /\ Len(w.found) + Len(w.todo) <= Len(w.token)
        /\ Range(w.found) \subseteq Doc
        /\ w.at \in {"retype", "fill"} => w.doc \in Doc
        /\ w.at = "answered" <=> w.answer # "none"

(* The types of the state; the default policy is always there. *)
TypeOK ==
  /\ stored \in [Name -> Slot] /\ cache \in [Name -> Slot]
  /\ stored[Default] # None
  /\ typed \subseteq Name /\ clean \subseteq Name
  /\ \A p \in Proc : WorkOK(p)
  /\ ops \in 0..MaxOps /\ faults \in 0..MaxFaults

(* Storage, cache and type map agree about every name that no call touches    *)
(* and whose last write overlapped no other call: such a write mends whatever *)
(* earlier races left in the cache or the type map                            *)
(* (policy_store.rs:299-390, 409-442, 489-540, which hold no lock).           *)
CleanAgrees ==
  \A n \in clean :
    (\A p \in Proc : n \notin Touches(work[p])) =>
      /\ cache[n] \in {None, stored[n]}
      /\ n \in typed <=> stored[n] # None

(* The store is well typed and, where nothing is under way, agrees.         *)
StoreOK == TypeOK /\ CleanAgrees

(* What the documents ds allow, said of each document and without an order: *)
(* no deny, a capability from one, required parameters of all, ...          *)
Granted(ds, req) ==
  LET keys == UNION {DOMAIN d : d \in ds}
      Says(k) == {d[k] : d \in {e \in ds : k \in DOMAIN e}}
      Ok(ps) ==
        /\ \A q \in ps : "deny" \notin q.caps
        /\ \E q \in ps : q.caps \cap Needed(req.operation) # {}
        /\ req.operation \in {"read", "write"} =>
             /\ \A q \in ps : q.required \subseteq DOMAIN req.data
             /\ \A q \in ps : DOMAIN req.data # {} => "*" \notin DOMAIN q.denied
             /\ \A k \in DOMAIN req.data :
                  /\ \A q \in ps : ~Lists(q.denied, k, req.data[k])
                  /\ \/ \A q \in ps : DOMAIN q.allowed \subseteq {"*"}
                     \/ \E q \in ps : Lists(q.allowed, k, req.data[k])
                     \/ /\ \A q \in ps : k \notin DOMAIN q.allowed
                        /\ \E q \in ps : "*" \in DOMAIN q.allowed
      Sudo(ps) == \E q \in ps : "sudo" \in q.caps /\ \A r \in ps : "deny" \notin r.caps
  IN \/ req.operation = "help"
     \/ \E k \in Deciding(keys, req) : Ok(Says(k)) /\ (req.path \in RootPath => Sudo(Says(k)))

(* The answer owed to a token when the documents s are stored.              *)
Promised(s, token, req) ==
  IF token = <<>> \/ token = <<"root">> THEN "allowed"
  ELSE IF "root" \in Range(token) \/ \E n \in Range(token) : s[n] = None THEN "error"
  ELSE IF Granted({Text[s[n]] : n \in Range(token)}, req) THEN "allowed" ELSE "denied"

(* A check that no write of its policies overlapped answers what the stored *)
(* documents grant, in whatever order the token names them and whatever the *)
(* cache held: a deny in one of them sticks, a policy that is not there is  *)
(* an error (policy_store.rs:639-677, acl.rs:125-162, policy.rs:384-580).   *)
DecisionCurrent ==
  \A p \in Checkers :
    LET w == work[p]
    IN w.at = "answered" /\ w.acl /\ w.alone /\ w.answer # "failed" =>
         w.answer = Promised(stored, w.token, w.request)

Hits(k, path) ==
  IF k.wild THEN Covers(k, path) ELSE IF k.glob THEN HasPrefix(path, k) ELSE path = k.path

(* The rules that cover some of the paths that rule k covers, no other, and *)
(* have no more segment wildcards.                                          *)
Keys == UNION {DOMAIN Text[d] : d \in Doc}
PathsOf == [k \in Keys |-> {path \in Path : Hits(k, path)}]
Narrower ==
  [k \in Keys |->
     {j \in Keys : /\ PathsOf[j] \subseteq PathsOf[k] /\ PathsOf[j] # PathsOf[k]
                   /\ Wildcards(j) <= Wildcards(k)}]

(* The rules, of the documents that check w had, that cover its path.       *)
Rules(w) == UNION {DOMAIN Text[d] : d \in Range(w.found)}
Hit(w) == {k \in Rules(w) : Hits(k, w.request.path)}
Decided(w) == w.at = "answered" /\ w.answer \in {"allowed", "denied"}

(* One rule decides a path that some rule covers, whichever order the hash  *)
(* map of rules is walked in (acl.rs:230-267, 281-386).                     *)
OneDecides ==
  \A p \in Checkers :
    Decided(work[p]) /\ Hit(work[p]) # {} =>
      Cardinality(Deciding(Rules(work[p]), work[p].request)) = 1

(* One rule decides, and no rule that covers the path and less than it is   *)
(* passed over, unless that one has more segment wildcards                  *)
(* (acl.rs:281-386).                                                        *)
NarrowestDecides ==
  /\ OneDecides
  /\ \A p \in Checkers :
       Decided(work[p]) =>
         \A k \in Deciding(Rules(work[p]), work[p].request) : Hit(work[p]) \cap Narrower[k] = {}
=============================================================================
