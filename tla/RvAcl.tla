------------------------------- MODULE RvAcl --------------------------------
(***************************************************************************)
(* What the policies of a token allow: the rules of a policy document,     *)
(* their merge into one access control list, the rule that decides a path  *)
(* and the check of a request against it                                   *)
(* (rusty_vault_vendored/src/modules/policy/policy.rs and acl.rs).         *)
(*                                                                         *)
(* A path is the sequence of its segments, "a/" being <<"a", "">>.  A rule *)
(* written in a document is a record whose star says that its path ended   *)
(* with "*".  A parsed document maps the key of each rule to permissions.  *)
(***************************************************************************)
EXTENDS Integers, Sequences, FiniteSets, SequencesExt

CONSTANTS
  Literal,    \* path segments without wildcard, "" among them
  Size,       \* Size[s]: characters of segment s
  StartsWith  \* pairs <<s, t>>: segment s starts with segment t

Plus == "+"

(* To start with a segment is to have it as a prefix.                      *)
ASSUME SegmentAssumption ==
  /\ Plus \notin Literal /\ "" \in Literal /\ Literal # {""}
  /\ Size \in [Literal -> Nat] /\ Size[""] = 0
  /\ StartsWith \subseteq Literal \X Literal
  /\ \A s \in Literal : <<s, s>> \in StartsWith /\ <<s, "">> \in StartsWith
  /\ \A s, t \in Literal : <<s, t>> \in StartsWith => Size[t] <= Size[s]
  /\ \A s, t, u \in Literal :
       <<s, t>> \in StartsWith /\ <<s, u>> \in StartsWith /\ Size[t] = Size[u] => t = u

Capability == {"deny", "create", "read", "update", "delete", "list", "sudo"}
NoParams == [k \in {} |-> {}]

-----------------------------------------------------------------------------
(* Policy::init.                                                           *)

(* The capabilities of an old-style policy = "..." attribute. *)
OldPathPolicy(old) ==
  CASE old = "none" -> {}
    [] old = "deny" -> {"deny"}
    [] old = "read" -> {"read", "list"}
    [] old = "write" -> {"read", "list", "create", "update", "delete"}
    [] old = "sudo" -> {"read", "list", "create", "update", "delete", "sudo"}

Key(rule) == [path |-> rule.path, wild |-> Plus \in Range(rule.path), glob |-> rule.star]

(* A deny leaves no other capability. *)
Permissions(rule) ==
  LET all == rule.caps \cup OldPathPolicy(rule.old)
  IN [caps |-> IF "deny" \in all THEN {"deny"} ELSE all,
      allowed |-> rule.allowed, denied |-> rule.denied, required |-> rule.required]

(* The document whose rules, one for each path, are the given set. *)
Parsed(rules) ==
  [k \in {Key(r) : r \in rules} |-> Permissions(CHOOSE r \in rules : Key(r) = k)]

(* What a parsed document is. *)
IsKey(k) ==
  /\ k \in [path : Seq(Literal \cup {Plus}), wild : BOOLEAN, glob : BOOLEAN]
  /\ k.path # <<>> /\ k.wild = (Plus \in Range(k.path))
IsDocument(doc) ==
  /\ IsFiniteSet(DOMAIN doc)
  /\ \A k \in DOMAIN doc : IsKey(k) /\ ("deny" \in doc[k].caps => doc[k].caps = {"deny"})

-----------------------------------------------------------------------------
(* ACL::new.                                                               *)

(* An empty list of values admits every value. *)
MergeParams(f, g) ==
  [k \in DOMAIN f \cup DOMAIN g |->
     IF k \notin DOMAIN g THEN f[k]
     ELSE IF k \notin DOMAIN f THEN g[k]
     ELSE IF f[k] = {} \/ g[k] = {} THEN {} ELSE f[k] \cup g[k]]

(* Mutant: the capabilities of the policy that came first win over a deny. *)
MergeKeepsFirst(p, q) ==
  IF "deny" \in p.caps \/ "deny" \in q.caps THEN p
  ELSE [caps |-> p.caps \cup q.caps,
        allowed |-> MergeParams(p.allowed, q.allowed),
        denied |-> MergeParams(p.denied, q.denied),
        required |-> p.required \cup q.required]

Merge(p, q) ==
  IF "deny" \in p.caps THEN p
  ELSE IF "deny" \in q.caps
       THEN [caps |-> {"deny"}, allowed |-> NoParams, denied |-> NoParams,
             required |-> p.required]
  ELSE [caps |-> p.caps \cup q.caps,
        allowed |-> MergeParams(p.allowed, q.allowed),
        denied |-> MergeParams(p.denied, q.denied),
        required |-> p.required \cup q.required]

Added(acl, doc) ==
  [k \in DOMAIN acl \cup DOMAIN doc |->
     IF k \notin DOMAIN doc THEN acl[k]
     ELSE IF k \notin DOMAIN acl THEN doc[k]
     ELSE Merge(acl[k], doc[k])]

(* The documents are added one after another. *)
ACL(docs) ==
  LET merged[n \in 0..Len(docs)] ==
        IF n = 0 THEN [k \in {} |-> {}] ELSE Added(merged[n - 1], docs[n])
  IN merged[Len(docs)]

-----------------------------------------------------------------------------
(* ACL::get_none_exact_paths_permissions.                                  *)

Plain(path) == [path |-> path, wild |-> FALSE, glob |-> FALSE]

(* Characters of a path, its slashes included. *)
SegmentSize(s) == IF s = Plus THEN 1 ELSE Size[s]
Chars(path) ==
  LET upTo[n \in 0..Len(path)] ==
        IF n = 0 THEN -1 ELSE upTo[n - 1] + SegmentSize(path[n]) + 1
  IN upTo[Len(path)]

(* Path begins, character by character, with the path of prefix rule k. *)
HasPrefix(path, k) ==
  LET n == Len(k.path)
  IN /\ n <= Len(path)
     /\ \A i \in 1..n - 1 : path[i] = k.path[i]
     /\ <<path[n], k.path[n]>> \in StartsWith

(* Rule k with segment wildcards covers path. *)
Covers(k, path) ==
  /\ Len(k.path) <= Len(path)
  /\ k.glob \/ Len(k.path) = Len(path)
  /\ \A i \in DOMAIN k.path :
       \/ k.path[i] = Plus
       \/ k.path[i] = path[i]
       \/ k.glob /\ i = Len(k.path) /\ <<path[i], k.path[i]>> \in StartsWith

Wildcards(k) == Cardinality({i \in DOMAIN k.path : k.path[i] = Plus})

FirstWildcard(k) ==
  IF ~k.wild THEN Chars(k.path)
  ELSE LET i == SelectInSeq(k.path, LAMBDA s : s = Plus)
       IN Chars(SubSeq(k.path, 1, i - 1)) + 1

(* "+" comes before every letter. *)
LexBefore(p, q) ==
  \E i \in DOMAIN p \cap DOMAIN q :
    p[i] = Plus /\ q[i] # Plus /\ \A j \in 1..i - 1 : p[j] = q[j]

(* WcPathDescr's order: rule j is sorted before rule k. *)
(* Mutant: between two rules that begin alike, the one with "*" counts more. *)
BeforeGlobLast(j, k) ==
  \/ FirstWildcard(j) < FirstWildcard(k)
  \/ /\ FirstWildcard(j) = FirstWildcard(k)
     /\ \/ ~j.glob /\ k.glob
        \/ /\ j.glob = k.glob
           /\ \/ Wildcards(j) > Wildcards(k)
              \/ /\ Wildcards(j) = Wildcards(k)
                 /\ \/ Chars(j.path) < Chars(k.path)
                    \/ Chars(j.path) = Chars(k.path) /\ LexBefore(j.path, k.path)

Before(j, k) ==
  \/ FirstWildcard(j) < FirstWildcard(k)
  \/ /\ FirstWildcard(j) = FirstWildcard(k)
     /\ \/ j.glob /\ ~k.glob
        \/ /\ j.glob = k.glob
           /\ \/ Wildcards(j) > Wildcards(k)
              \/ /\ Wildcards(j) = Wildcards(k)
                 /\ \/ Chars(j.path) < Chars(k.path)
                    \/ Chars(j.path) = Chars(k.path) /\ LexBefore(j.path, k.path)

(* The longest prefix rule, and every rule with wildcards, that covers path. *)
Candidates(keys, path) ==
  LET prefixes == {k \in keys : ~k.wild /\ k.glob /\ HasPrefix(path, k)}
  IN {k \in prefixes : \A j \in prefixes : Chars(j.path) <= Chars(k.path)}
       \cup {k \in keys : k.wild /\ Covers(k, path)}

(* ACL::allow_operation: the rule that decides, the only element of this set; *)
(* a list of "a/" is also decided by the exact rule for "a".                  *)
Trimmed(path) ==
  SubSeq(path, 1, Max({1} \cup {i \in DOMAIN path : path[i] # ""}))

Deciding(keys, req) ==
  IF Plain(req.path) \in keys THEN {Plain(req.path)}
  ELSE IF req.operation = "list" /\ Plain(Trimmed(req.path)) \in keys
       THEN {Plain(Trimmed(req.path))}
  ELSE LET all == Candidates(keys, req.path)
       IN {k \in all : \A j \in all \ {k} : Before(j, k)}

-----------------------------------------------------------------------------
(* Permissions::check.  req.data maps the request's fields to values.      *)

Operation == {"read", "list", "write", "delete", "renew", "revoke", "rollback", "help"}

Needed(operation) ==
  CASE operation = "read" -> {"read"}
    [] operation = "list" -> {"list"}
    [] operation = "write" -> {"update", "create"}
    [] operation = "delete" -> {"delete"}
    [] operation \in {"renew", "revoke", "rollback"} -> {"update"}

(* glob_contains. *)
Lists(f, k, v) == k \in DOMAIN f /\ (f[k] = {} \/ v \in f[k])

ParamsAllowed(p, data) ==
  /\ p.required \subseteq DOMAIN data
  /\ \/ DOMAIN data = {}
     \/ /\ "*" \notin DOMAIN p.denied
        /\ \A k \in DOMAIN data : ~Lists(p.denied, k, data[k])
        /\ \/ DOMAIN p.allowed \subseteq {"*"}
           \/ \A k \in DOMAIN data :
                IF k \in DOMAIN p.allowed THEN Lists(p.allowed, k, data[k])
                ELSE "*" \in DOMAIN p.allowed

Check(p, req) ==
  /\ p.caps \cap Needed(req.operation) # {}
  /\ req.operation \in {"read", "write"} => ParamsAllowed(p, req.data)

(* ACL::allow_operation over the merged rules. *)
Allowed(acl, req) ==
  \/ req.operation = "help"
  \/ \E k \in Deciding(DOMAIN acl, req) : Check(acl[k], req)

RootPrivs(acl, req) ==
  \E k \in Deciding(DOMAIN acl, req) : req.operation # "help" /\ "sudo" \in acl[k].caps
=============================================================================
