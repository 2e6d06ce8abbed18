-------------------------- MODULE RvTokens_proofs --------------------------
(***************************************************************************)
(* Proofs about RvTokens: the layers of RvTokensInvariant, one after       *)
(* another, for any tokens, secrets, requests, failures and crashes.       *)
(*                                                                         *)
(* Takes(p, st) is the effect of a step of task p: what it changes, by the *)
(* step it is at, and which steps st it leaves to do before the rest       *)
(* (LeftBy).  Every action of a task has it (ActionTakes), or the task     *)
(* stops (Dropped); besides, the checker turns to a lease (Peeks), takes   *)
(* or leaves its lock (Locks), a request begins (Asks), time passes, or    *)
(* the process starts anew.  A layer L is kept by each of them: LTaken,    *)
(* LFewer or LDropped, LPeeks, LAsks, and LStill, LAdds or LCrash where    *)
(* the rest needs one.                                                     *)
(***************************************************************************)
EXTENDS RvTokensInvariant, FiniteSetTheorems, SequenceTheorems, TLAPS

-----------------------------------------------------------------------------
(* Sequences.                                                               *)

LEMMA CatAt ==
  ASSUME NEW S, NEW T, NEW s \in Seq(S), NEW t \in Seq(T)
  PROVE  /\ s \o t \in Seq(S \cup T)
         /\ \A i \in DOMAIN s : i \in DOMAIN (s \o t) /\ (s \o t)[i] = s[i]
         /\ \A i \in DOMAIN t : Len(s) + i \in DOMAIN (s \o t) /\ (s \o t)[Len(s) + i] = t[i]
         /\ \A i \in DOMAIN (s \o t) :
              \/ i \in DOMAIN s
              \/ i > Len(s) /\ i - Len(s) \in DOMAIN t /\ i = Len(s) + (i - Len(s))
<1>1. s \in Seq(S \cup T) /\ t \in Seq(S \cup T)
  OBVIOUS
<1>2. /\ s \o t \in Seq(S \cup T) /\ Len(s \o t) = Len(s) + Len(t)
      /\ \A i \in 1..Len(s) + Len(t) : (s \o t)[i] = IF i <= Len(s) THEN s[i] ELSE t[i - Len(s)]
  BY <1>1, ConcatProperties
<1>3. /\ DOMAIN s = 1..Len(s) /\ DOMAIN t = 1..Len(t) /\ DOMAIN (s \o t) = 1..Len(s) + Len(t)
      /\ Len(s) \in Nat /\ Len(t) \in Nat
  BY <1>1, <1>2, LenProperties
<1>4. ASSUME NEW i \in DOMAIN t
      PROVE  Len(s) + i \in DOMAIN (s \o t) /\ (s \o t)[Len(s) + i] = t[i]
  <2>1. Len(s) + i \in 1..Len(s) + Len(t) /\ ~(Len(s) + i <= Len(s)) /\ Len(s) + i - Len(s) = i
    BY <1>3
  <2>2. QED BY <1>2, <1>3, <2>1
<1>5. QED BY <1>2, <1>3, <1>4

LEMMA TailAt ==
  ASSUME NEW S, NEW w \in Seq(S), w # <<>>
  PROVE  /\ Tail(w) \in Seq(S) /\ 1 \in DOMAIN w /\ Head(w) = w[1]
         /\ \A k \in DOMAIN w : k > 1 => k - 1 \in DOMAIN Tail(w) /\ Tail(w)[k - 1] = w[k]
         /\ \A i \in DOMAIN Tail(w) : i + 1 \in DOMAIN w /\ i + 1 > 1
<1>1. /\ Tail(w) \in Seq(S) /\ Len(Tail(w)) = Len(w) - 1
      /\ \A i \in 1..Len(Tail(w)) : Tail(w)[i] = w[i + 1]
  BY HeadTailProperties
<1>2. DOMAIN w = 1..Len(w) /\ DOMAIN Tail(w) = 1..Len(w) - 1 /\ Len(w) \in Nat \ {0}
  BY <1>1, LenProperties, EmptySeq
<1>3. 1 \in DOMAIN w /\ Head(w) = w[1]
  BY <1>2
<1>4. ASSUME NEW k \in DOMAIN w, k > 1 PROVE k - 1 \in DOMAIN Tail(w) /\ Tail(w)[k - 1] = w[k]
  <2>1. k - 1 \in 1..Len(Tail(w)) /\ (k - 1) + 1 = k
    BY <1>1, <1>2, <1>4
  <2>2. QED BY <1>1, <1>2, <2>1
<1>5. QED BY <1>1, <1>2, <1>3, <1>4

-----------------------------------------------------------------------------
(* What a step does.                                                        *)

(* Task p has taken its first step, which leaves st to do before the rest:  *)
(* what was step k is now step k - 1 + Len(st).                             *)
Moved(p, st) ==
  /\ p \in Proc /\ 1 \in DOMAIN work[p]
  /\ Len(st) \in Nat /\ DOMAIN st = 1..Len(st)
  /\ \A q \in Proc : DOMAIN work[q] \subseteq Nat \ {0}
  /\ \A q \in Proc : q # p => work'[q] = work[q]
  /\ \A i \in DOMAIN st : i \in DOMAIN work'[p] /\ work'[p][i] = st[i]
  /\ \A k \in DOMAIN work[p] : k > 1 =>
       k - 1 + Len(st) \in DOMAIN work'[p] /\ work'[p][k - 1 + Len(st)] = work[p][k]
  /\ \A i \in DOMAIN work'[p] :
       i \in DOMAIN st \/ \E k \in DOMAIN work[p] : k > 1 /\ i = k - 1 + Len(st)

LEMMA ThenMoves ==
  ASSUME NEW S, work \in [Proc -> Seq(S)], NEW p \in Proc, work[p] # <<>>,
         NEW T, NEW st \in Seq(T), Then(p, st)
  PROVE  work' \in [Proc -> Seq(S \cup T)] /\ Moved(p, st)
<1> DEFINE w == work[p] t == Tail(w) n == Len(st)
<1>1. w \in Seq(S) /\ w # <<>>
  OBVIOUS
<1>2. /\ t \in Seq(S) /\ 1 \in DOMAIN w
      /\ \A k \in DOMAIN w : k > 1 => k - 1 \in DOMAIN t /\ t[k - 1] = w[k]
      /\ \A i \in DOMAIN t : i + 1 \in DOMAIN w /\ i + 1 > 1
  BY <1>1, TailAt
<1>3. work' = [work EXCEPT ![p] = st \o t]
  BY DEF Then
<1>4. work'[p] = st \o t /\ \A q \in Proc : q # p => work'[q] = work[q]
  BY <1>3
<1>5. /\ st \o t \in Seq(T \cup S)
      /\ \A i \in DOMAIN st : i \in DOMAIN (st \o t) /\ (st \o t)[i] = st[i]
      /\ \A i \in DOMAIN t : n + i \in DOMAIN (st \o t) /\ (st \o t)[n + i] = t[i]
      /\ \A i \in DOMAIN (st \o t) :
           \/ i \in DOMAIN st
           \/ i > n /\ i - n \in DOMAIN t /\ i = n + (i - n)
  BY <1>2, CatAt
<1>6. work' \in [Proc -> Seq(S \cup T)]
  <2>1. S \cup T = T \cup S /\ \A q \in Proc : work[q] \in Seq(S \cup T)
    OBVIOUS
  <2>2. QED BY <1>3, <1>5, <2>1
<1>7. /\ n \in Nat /\ DOMAIN st = 1..n
      /\ \A q \in Proc : DOMAIN work[q] = 1..Len(work[q]) /\ Len(work[q]) \in Nat
  BY LenProperties
<1>8. \A q \in Proc : DOMAIN work[q] \subseteq Nat \ {0}
  BY <1>7
<1> HIDE DEF w, t, n
<1>9. \A k \in DOMAIN w : k > 1 =>
        k - 1 + n \in DOMAIN (st \o t) /\ (st \o t)[k - 1 + n] = w[k]
  <2> TAKE k \in DOMAIN w
  <2>1. CASE k > 1
    <3>1. k - 1 \in DOMAIN t /\ t[k - 1] = w[k]
      BY <1>2, <2>1
    <3>2. k \in Nat
      BY <1>8 DEF w
    <3>3. n + (k - 1) \in DOMAIN (st \o t) /\ (st \o t)[n + (k - 1)] = t[k - 1]
      BY <1>5, <3>1
    <3>4. n + (k - 1) = k - 1 + n
      BY <1>7, <3>2
    <3>5. QED BY <3>1, <3>3, <3>4
  <2>2. QED BY <2>1
<1>10. \A i \in DOMAIN (st \o t) : i \in DOMAIN st \/ \E k \in DOMAIN w : k > 1 /\ i = k - 1 + n
  <2> TAKE i \in DOMAIN (st \o t)
  <2>1. CASE i > n /\ i - n \in DOMAIN t /\ i = n + (i - n)
    <3>1. (i - n) + 1 \in DOMAIN w /\ (i - n) + 1 > 1
      BY <1>2, <2>1
    <3>2. (i - n) + 1 \in Nat
      BY <3>1, <1>8 DEF w
    <3>3. i \in Nat
      <4>1. DOMAIN (st \o t) = 1..Len(st \o t)
        BY <1>5, LenProperties
      <4>2. QED BY <4>1, <1>5, LenProperties
    <3>4. i = ((i - n) + 1) - 1 + n
      BY <3>3, <1>7
    <3>5. QED BY <3>1, <3>4
  <2>2. QED BY <2>1, <1>5
<1>11. QED
  BY <1>2, <1>4, <1>5, <1>6, <1>7, <1>8, <1>9, <1>10 DEF Moved, w, n, t

-----------------------------------------------------------------------------
(* Steps that are put before the rest.                                      *)

Elems(st) == {st[i] : i \in DOMAIN st}
IsWork(st) == st \in Seq(Elems(st))

LEMMA WorkIs ==
  ASSUME NEW T, NEW st \in Seq(T)
  PROVE  IsWork(st)
<1>1. DOMAIN st = 1..Len(st) /\ Len(st) \in Nat
  BY LenProperties
<1>2. st = [i \in 1..Len(st) |-> st[i]]
  BY <1>1
<1>3. \A i \in 1..Len(st) : st[i] \in Elems(st)
  BY <1>1 DEF Elems
<1>4. QED BY <1>1, <1>2, <1>3, SeqDef DEF IsWork

LEMMA Short0 == IsWork(<<>>) /\ DOMAIN <<>> = {}
<1>1. <<>> \in Seq({})
  OBVIOUS
<1>2. IsWork(<<>>)
  BY <1>1, WorkIs
<1>3. QED BY <1>2

LEMMA Short1 ==
  ASSUME NEW a
  PROVE  IsWork(<<a>>) /\ DOMAIN <<a>> = {1} /\ <<a>>[1] = a
<1>1. <<a>> \in Seq({a})
  OBVIOUS
<1>2. IsWork(<<a>>)
  BY <1>1, WorkIs
<1>3. QED BY <1>2

LEMMA Short2 ==
  ASSUME NEW a, NEW b
  PROVE  IsWork(<<a, b>>) /\ DOMAIN <<a, b>> = {1, 2} /\ <<a, b>>[1] = a /\ <<a, b>>[2] = b
<1>1. <<a, b>> \in Seq({a, b})
  OBVIOUS
<1>2. IsWork(<<a, b>>)
  BY <1>1, WorkIs
<1>3. QED BY <1>2

LEMMA Short3 ==
  ASSUME NEW a, NEW b, NEW c
  PROVE  /\ IsWork(<<a, b, c>>) /\ DOMAIN <<a, b, c>> = {1, 2, 3}
         /\ <<a, b, c>>[1] = a /\ <<a, b, c>>[2] = b /\ <<a, b, c>>[3] = c
<1>1. <<a, b, c>> \in Seq({a, b, c})
  OBVIOUS
<1>2. IsWork(<<a, b, c>>)
  BY <1>1, WorkIs
<1>3. QED BY <1>2

LEMMA CatWork ==
  ASSUME NEW s, NEW t, IsWork(s), IsWork(t)
  PROVE  /\ IsWork(s \o t) /\ Len(s) \in Nat /\ DOMAIN s = 1..Len(s) /\ DOMAIN t \subseteq Nat \ {0}
         /\ \A i \in DOMAIN s : i \in DOMAIN (s \o t) /\ (s \o t)[i] = s[i]
         /\ \A i \in DOMAIN t : Len(s) + i \in DOMAIN (s \o t) /\ (s \o t)[Len(s) + i] = t[i]
         /\ \A i \in DOMAIN (s \o t) :
              \/ i \in DOMAIN s
              \/ i > Len(s) /\ i - Len(s) \in DOMAIN t /\ i = Len(s) + (i - Len(s))
<1>1. s \in Seq(Elems(s)) /\ t \in Seq(Elems(t))
  BY DEF IsWork
<1>2. IsWork(s \o t)
  BY <1>1, CatAt, WorkIs
<1>3. Len(s) \in Nat /\ DOMAIN s = 1..Len(s) /\ DOMAIN t = 1..Len(t) /\ Len(t) \in Nat
  BY <1>1, LenProperties
<1>4. QED BY <1>1, <1>2, <1>3, CatAt

LEMMA OrdersFinite ==
  ASSUME NEW S, IsFiniteSet(S), NEW s \in Orders(S)
  PROVE  /\ s \in Seq(S)
         /\ \A x \in S : \E i \in DOMAIN s : s[i] = x
<1>1. Cardinality(S) \in Nat
  BY FS_CardinalityType
<1>2. s \in [1..Cardinality(S) -> S] /\ Range(s) = S
  BY DEF Orders
<1>3. s \in Seq(S)
  BY <1>1, <1>2
<1>4. QED BY <1>2, <1>3 DEF Range

LEMMA EachPlain ==
  ASSUME NEW op, NEW S, IsFiniteSet(S), NEW st \in Each(op, S, <<>>)
  PROVE  /\ IsWork(st)
         /\ \A i \in DOMAIN st : st[i][1] = op /\ st[i][2] \in S
         /\ \A x \in S : \E i \in DOMAIN st : st[i][1] = op /\ st[i][2] = x
<1>1. PICK s \in Orders(S) : st = [i \in DOMAIN s |-> <<op, s[i]>> \o <<>>]
  BY DEF Each
<1>2. s \in Seq(S) /\ \A x \in S : \E i \in DOMAIN s : s[i] = x
  BY OrdersFinite
<1>3. \A x : <<op, x>> \o <<>> = <<op, x>>
  OBVIOUS
<1>4. st = [i \in DOMAIN s |-> <<op, s[i]>>]
  BY <1>1, <1>3
<1>5. DOMAIN s = 1..Len(s) /\ Len(s) \in Nat
  BY <1>2, LenProperties
<1>6. st \in Seq({<<op, x>> : x \in S})
  BY <1>2, <1>4, <1>5
<1>7. \A i \in DOMAIN st : st[i][1] = op /\ st[i][2] = s[i] /\ s[i] \in S
  BY <1>2, <1>4, <1>5
<1>8. DOMAIN st = DOMAIN s
  BY <1>4
<1>9. QED BY <1>2, <1>6, <1>7, <1>8, WorkIs

LEMMA EachTrue ==
  ASSUME NEW S, IsFiniteSet(S), NEW st \in Each("revoke_lease_id", S, <<TRUE>>)
  PROVE  /\ IsWork(st)
         /\ \A i \in DOMAIN st : st[i][1] = "revoke_lease_id" /\ st[i][2] \in S
         /\ \A i \in DOMAIN st : st[i][3]
         /\ \A x \in S : \E i \in DOMAIN st : st[i][1] = "revoke_lease_id" /\ st[i][2] = x
<1> DEFINE op == "revoke_lease_id"
<1>1. PICK s \in Orders(S) : st = [i \in DOMAIN s |-> <<op, s[i]>> \o <<TRUE>>]
  BY DEF Each
<1>2. s \in Seq(S) /\ \A x \in S : \E i \in DOMAIN s : s[i] = x
  BY OrdersFinite
<1> HIDE DEF op
<1>3. ASSUME NEW x PROVE <<op, x>> \o <<TRUE>> = <<op, x, TRUE>>
  <2> DEFINE u == <<op, x>> v == <<TRUE>> uv == <<op, x, TRUE>>
  <2>1. /\ u \in Seq({op, x, TRUE}) /\ v \in Seq({op, x, TRUE}) /\ uv \in Seq({op, x, TRUE})
        /\ Len(u) = 2 /\ Len(v) = 1 /\ Len(uv) = 3
    OBVIOUS
  <2>2. uv[1] = u[1] /\ uv[2] = u[2] /\ uv[3] = v[1]
    OBVIOUS
  <2> HIDE DEF u, v, uv
  <2>a. /\ u \o v \in Seq({op, x, TRUE}) /\ Len(u \o v) = Len(u) + Len(v)
        /\ \A i \in 1..Len(u) + Len(v) : (u \o v)[i] = IF i <= Len(u) THEN u[i] ELSE v[i - Len(u)]
    BY <2>1, ConcatProperties, Zenon
  <2>3. /\ u \o v \in Seq({op, x, TRUE}) /\ Len(u \o v) = 3
        /\ \A i \in 1..3 : (u \o v)[i] = IF i <= 2 THEN u[i] ELSE v[i - 2]
    BY <2>1, <2>a
  <2>4. \A i \in 1..3 : (u \o v)[i] = uv[i]
    BY <2>2, <2>3
  <2>5. u \o v = uv
    BY <2>1, <2>3, <2>4, SeqEqual
  <2>6. QED BY <2>5 DEF u, v, uv
<1>4. st = [i \in DOMAIN s |-> <<op, s[i], TRUE>>]
  BY <1>1, <1>3
<1>5. DOMAIN s = 1..Len(s) /\ Len(s) \in Nat
  BY <1>2, LenProperties
<1>6. st \in Seq({<<op, x, TRUE>> : x \in S})
  BY <1>2, <1>4, <1>5 DEF op
<1>7. \A i \in DOMAIN st : st[i][1] = "revoke_lease_id" /\ st[i][2] = s[i] /\ s[i] \in S
  BY <1>2, <1>4, <1>5 DEF op
<1>a. \A i \in DOMAIN st : st[i][3]
  BY <1>2, <1>4, <1>5
<1>8. DOMAIN st = DOMAIN s
  BY <1>4
<1>9. QED BY <1>2, <1>6, <1>7, <1>a, <1>8, WorkIs

-----------------------------------------------------------------------------
(* What the actions do.                                                     *)

(* Step i of st is one that step h leaves to do. *)
LeftBy(h, st, i) ==
  LET s == st[i] op == s[1] IN
    \/ h[1] = "check_token" /\ op = "revoke" /\ s[2] = h[2]
    \/ /\ h[1] = "check_token" /\ op = "putId" /\ s[2] = h[2]
       /\ entry[h[2]] # None /\ entry[h[2]].uses > 1
       /\ s[3] = [entry[h[2]] EXCEPT !.uses = @ - 1]
    \/ /\ h[1] \in {"register_auth", "renewed"} /\ op = "push"
       /\ s[2] = h[2] /\ s[3] = now + Ttl /\ i = 1
    \/ h[1] = "register_secret" /\ op = "create_index" /\ s[2] = h[2] /\ s[3] = h[3]
    \/ h[1] = "register_secret" /\ op = "push" /\ s[2] = h[3] /\ s[3] = now + Ttl
    \/ h[1] = "renew_token" /\ op = "renewed" /\ s[2] = h[2] /\ lease[h[2]] # None
    \/ h[1] = "revoke_tree" /\ op = "revoke_tree" /\ <<h[2], s[2]>> \in children
    \/ h[1] = "revoke_tree" /\ op = "revoke" /\ s[2] = h[2]
    \/ /\ h[1] = "revoke_tree" /\ op = "done" /\ s[2] = Covered(h[2])
       /\ \A c \in Tok : c = h[2] \/ <<h[2], c>> \in children =>
            \E j \in DOMAIN st : j < i /\ Ends(st[j], c)
    \/ h[1] = "revoke" /\ op = "delete" /\ s[2] = h[2]
    \/ /\ h[1] = "revoke" /\ op = "deleteParent" /\ s[3] = h[2]
       /\ entry[h[2]] # None /\ s[2] = entry[h[2]].parent /\ s[2] # None
       /\ \E j \in DOMAIN st : j < i /\ Ends(st[j], h[2])
    \/ h[1] = "revoke" /\ op = "revoke_by_token" /\ s[2] = h[2]
    \/ /\ h[1] = "revoke" /\ op = "done" /\ s[2] = {x \in Sec : <<h[2], x>> \in index}
       /\ \E j \in DOMAIN st : j < i /\ st[j][1] = "revoke_by_token" /\ st[j][2] = h[2]
    \/ /\ h[1] = "revoke_by_token" /\ op = "revoke_lease_id" /\ s[3]
       /\ s[2] \in Sec /\ <<h[2], s[2]>> \in index
    \/ h[1] = "revoke_lease_id" /\ op = "revoke_tree" /\ s[2] = h[2] /\ h[2] \in Tok
    \/ /\ h[1] = "revoke_lease_id" /\ op = "delete_lease_entry" /\ s[2] = h[2]
       /\ lease[h[2]] # None
       /\ h[2] \in Tok => \E j \in DOMAIN st : j < i /\ Ends(st[j], h[2])
    \/ /\ h[1] = "revoke_lease_id" /\ op = "remove_index" /\ s[3] = h[2] /\ h[2] \notin Tok
       /\ lease[h[2]] # None /\ s[2] = lease[h[2]].token
       /\ \E j \in DOMAIN st : j < i /\ st[j][1] = "delete_lease_entry" /\ st[j][2] = h[2]
    \/ /\ h[1] = "revoke_lease_id" /\ op = "push" /\ s[2] = h[2] /\ s[3] = 0 /\ h[3]
       /\ lease[h[2]] # None
       /\ \E j \in DOMAIN st : j < i /\ st[j][1] = "delete_lease_entry" /\ st[j][2] = h[2]

(* And st holds what step h has to leave. *)
Completes(h, st) ==
  /\ h[1] \in {"revoke_tree", "revoke"} => \E j \in DOMAIN st : Ends(st[j], h[2])
  /\ h[1] \in {"register_auth", "renewed"} =>
       \E j \in DOMAIN st : st[j][1] = "push" /\ st[j][2] = h[2]
  /\ h[1] = "register_secret" =>
       /\ \E j \in DOMAIN st : st[j][1] = "push" /\ st[j][2] = h[3]
       /\ \E j \in DOMAIN st : st[j] = <<"create_index", h[2], h[3]>>
  /\ h[1] = "revoke_lease_id" /\ lease[h[2]] # None =>
       \E j \in DOMAIN st : st[j][1] = "delete_lease_entry" /\ st[j][2] = h[2]
  /\ h[1] = "revoke_by_token" => \A x \in Sec : <<h[2], x>> \in index =>
       \E j \in DOMAIN st : st[j][1] = "revoke_lease_id" /\ st[j][2] = x

(* How step h changes the stores, the queue and the history. *)
EntriesMove(h) ==
  /\ h[1] \notin {"putId", "delete"} => entry' = entry
  /\ h[1] = "putId" => entry' = [entry EXCEPT ![h[2]] = h[3]]
  /\ h[1] = "delete" => entry' = [entry EXCEPT ![h[2]] = None]
ChildrenMove(h) ==
  /\ h[1] \notin {"putParent", "deleteParent"} => children' = children
  /\ h[1] = "putParent" => children' = children \cup {<<h[2], h[3]>>}
  /\ h[1] = "deleteParent" => children' = children \ {<<h[2], h[3]>>}
LeasesMove(h) ==
  /\ h[1] \notin {"register_auth", "renewed", "register_secret", "delete_lease_entry"} =>
       lease' = lease
  /\ h[1] \in {"register_auth", "renewed"} =>
       lease' = [lease EXCEPT ![h[2]] = [token |-> h[2], expire |-> now + Ttl]]
  /\ h[1] = "register_secret" =>
       lease' = [lease EXCEPT ![h[3]] = [token |-> h[2], expire |-> now + Ttl]]
  /\ h[1] = "delete_lease_entry" => lease' = [lease EXCEPT ![h[2]] = None]
IndexMoves(h) ==
  /\ h[1] \notin {"create_index", "remove_index"} => index' = index
  /\ h[1] = "create_index" => index' = index \cup {<<h[2], h[3]>>}
  /\ h[1] = "remove_index" => index' = index \ {<<h[2], h[3]>>}
QueueMoves(h) ==
  /\ h[1] \notin {"push", "pop"} => queue' = queue
  /\ h[1] = "push" => queue' = [queue EXCEPT ![h[2]] = h[3]]
  /\ h[1] = "pop" => queue' = [queue EXCEPT ![h[2]] = None]
  /\ h[1] = "push" => ~locked
HistoryMoves(h) ==
  /\ given' = IF h[1] = "give" THEN given \cup {h[2]} ELSE given
  /\ raced' = IF h[1] = "renewed" /\ Pending(h[2]) THEN raced \cup {h[2]} ELSE raced
  /\ UNCHANGED <<locked, now, fresh, chosen, created, ops, faults, broken>>

Changes(h) ==
  /\ EntriesMove(h) /\ ChildrenMove(h) /\ LeasesMove(h) /\ IndexMoves(h)
  /\ QueueMoves(h) /\ HistoryMoves(h)

Takes(p, st) ==
  /\ work[p] # <<>> /\ IsWork(st) /\ Then(p, st)
  /\ \A i \in DOMAIN st : LeftBy(Head(work[p]), st, i)
  /\ Completes(Head(work[p]), st) /\ Changes(Head(work[p]))

(* Task p stops with an error. *)
Stops(p) ==
  /\ work[p] # <<>> /\ Head(work[p])[1] \in Refusing /\ Refuse(p)
  /\ UNCHANGED <<storage, queue, locked, now, ghosts>>

LEMMA Unmoved ==
  ASSUME NEW h, UNCHANGED <<storage, queue, locked, now, ghosts>>,
         h[1] \in {"check_token", "lookupParent", "renew_token", "revoke_tree", "revoke",
                   "revoke_by_token", "revoke_lease_id", "done"}
  PROVE  Changes(h)
<1>1. EntriesMove(h) /\ ChildrenMove(h) /\ LeasesMove(h) /\ IndexMoves(h) /\ QueueMoves(h)
  BY DEF storage, EntriesMove, ChildrenMove, LeasesMove, IndexMoves, QueueMoves
<1>2. HistoryMoves(h)
  BY DEF ghosts, HistoryMoves
<1>3. QED BY <1>1, <1>2 DEF Changes

(* Steps that leave nothing to do. *)
LEMMA LeavesNothing ==
  ASSUME NEW h, h[1] \notin {"revoke_tree", "revoke", "register_auth", "renewed",
                             "register_secret", "revoke_lease_id", "revoke_by_token"}
  PROVE  IsWork(<<>>) /\ (\A i \in DOMAIN <<>> : LeftBy(h, <<>>, i)) /\ Completes(h, <<>>)
BY Short0 DEF Completes

LEMMA HeadOK ==
  ASSUME NEW S, Typed(S), NEW p \in Proc, work[p] # <<>>
  PROVE  /\ Head(work[p]) \in S /\ StepOK(Head(work[p]))
         /\ 1 \in DOMAIN work[p] /\ work[p][1] = Head(work[p])
<1>1. work[p] \in Seq(S) /\ \A s \in S : StepOK(s)
  BY DEF Typed
<1>2. Head(work[p]) \in S
  BY <1>1, HeadTailProperties
<1>3. 1 \in DOMAIN work[p] /\ work[p][1] = Head(work[p])
  BY <1>1, TailAt, Zenon
<1>4. QED BY <1>1, <1>2, <1>3

LEMMA CheckTokenTakes ==
  ASSUME NEW S, Typed(S), NEW p \in Proc, CheckToken(p)
  PROVE  Stops(p) \/ \E st : Takes(p, st)
<1> DEFINE h == Head(work[p]) t == h[2]
<1>1. work[p] # <<>> /\ h[1] = "check_token" /\ UNCHANGED <<storage, queue, locked, now, ghosts>>
  BY DEF CheckToken, At
<1>2. Changes(h)
  BY <1>1, Unmoved
<1>3. CASE entry[t] = None
  BY <1>1, <1>3 DEF CheckToken, Stops, Refusing, Arg
<1>4. ASSUME NEW st, IsWork(st), Then(p, st), \A i \in DOMAIN st : LeftBy(h, st, i)
      PROVE  Takes(p, st)
  <2>1. Completes(h, st)
    BY <1>1 DEF Completes
  <2>2. QED BY <1>1, <1>2, <1>4, <2>1 DEF Takes
<1>5. CASE entry[t] # None
  <2>1. Then(p, CASE entry[t].uses = 0 -> <<>>
                  [] entry[t].uses = 1 -> <<<<"revoke", t>>>>
                  [] OTHER -> <<<<"putId", t, [entry[t] EXCEPT !.uses = @ - 1]>>>>)
    BY <1>5 DEF CheckToken, Arg
  <2>2. CASE entry[t].uses = 0
    <3>1. Then(p, <<>>)
      BY <2>1, <2>2
    <3>2. QED BY <3>1, <1>1, <1>4, LeavesNothing
  <2>3. CASE entry[t].uses = 1
    <3> DEFINE st == <<<<"revoke", t>>>>
    <3>1. Then(p, st)
      BY <2>1, <2>3
    <3>2. IsWork(st) /\ DOMAIN st = {1} /\ st[1] = <<"revoke", t>>
      BY Short1
    <3>3. LeftBy(h, st, 1)
      BY <1>1, <3>2 DEF LeftBy
    <3>4. QED BY <3>1, <3>2, <3>3, <1>4
  <2>4. CASE entry[t].uses # 0 /\ entry[t].uses # 1
    <3> DEFINE e == [entry[t] EXCEPT !.uses = @ - 1] st == <<<<"putId", t, e>>>>
    <3>1. Then(p, st)
      BY <2>1, <2>4
    <3>2. IsWork(st) /\ DOMAIN st = {1} /\ st[1] = <<"putId", t, e>>
      BY Short1
    <3>a. t \in Tok
      <4>1. StepOK(h)
        BY <1>1, HeadOK
      <4>2. QED BY <4>1, <1>1 DEF StepOK, OfTok, UsedTok
    <3>b. entry[t].uses \in 0..MaxUses
      BY <1>5, <3>a DEF Typed, Stores, EntryOK, Entry
    <3>c. entry[t].uses > 1
      BY <2>4, <3>b, BoundAssumption
    <3>3. LeftBy(h, st, 1)
      BY <1>1, <1>5, <3>c, <3>2 DEF LeftBy
    <3>4. QED BY <3>1, <3>2, <3>3, <1>4
  <2>5. QED BY <2>2, <2>3, <2>4
<1>6. QED BY <1>3, <1>5

LEMMA LookupParentTakes ==
  ASSUME NEW p, LookupParent(p)
  PROVE  Stops(p) \/ \E st : Takes(p, st)
<1> DEFINE h == Head(work[p])
<1>1. /\ work[p] # <<>> /\ h[1] = "lookupParent" /\ UNCHANGED <<storage, queue, locked, now, ghosts>>
      /\ Refuse(p) \/ Then(p, <<>>)
  BY DEF LookupParent, At
<1>2. QED BY <1>1, Unmoved, LeavesNothing DEF Stops, Takes, Refusing

(* Steps that leave nothing and cannot stop. *)
Plain(p, op) == work[p] # <<>> /\ Head(work[p])[1] = op /\ Then(p, <<>>)

LEMMA PlainTakes ==
  ASSUME NEW p, NEW op, Plain(p, op), Changes(Head(work[p])),
         op \notin {"revoke_tree", "revoke", "register_auth", "renewed",
                    "register_secret", "revoke_lease_id", "revoke_by_token"}
  PROVE  Takes(p, <<>>)
BY LeavesNothing DEF Plain, Takes

LEMMA PutParentTakes ==
  ASSUME NEW p, PutParent(p)
  PROVE  \E st : Takes(p, st)
<1>1. Plain(p, "putParent")
  BY DEF PutParent, Plain, At
<1>2. Changes(Head(work[p]))
  BY DEF PutParent, At, Arg, ghosts, Changes, EntriesMove, ChildrenMove, LeasesMove,
         IndexMoves, QueueMoves, HistoryMoves
<1>3. QED BY <1>1, <1>2, PlainTakes

LEMMA PutIdTakes ==
  ASSUME NEW p, PutId(p)
  PROVE  \E st : Takes(p, st)
<1>1. Plain(p, "putId")
  BY DEF PutId, Plain, At
<1>2. Changes(Head(work[p]))
  BY DEF PutId, At, Arg, ghosts, Changes, EntriesMove, ChildrenMove, LeasesMove,
         IndexMoves, QueueMoves, HistoryMoves
<1>3. QED BY <1>1, <1>2, PlainTakes

LEMMA CreateIndexTakes ==
  ASSUME NEW p, CreateIndex(p)
  PROVE  \E st : Takes(p, st)
<1>1. Plain(p, "create_index")
  BY DEF CreateIndex, Plain, At
<1>2. Changes(Head(work[p]))
  BY DEF CreateIndex, At, Arg, ghosts, Changes, EntriesMove, ChildrenMove, LeasesMove,
         IndexMoves, QueueMoves, HistoryMoves
<1>3. QED BY <1>1, <1>2, PlainTakes

LEMMA GiveTakes ==
  ASSUME NEW p, Give(p)
  PROVE  \E st : Takes(p, st)
<1>1. Plain(p, "give")
  BY DEF Give, Plain, At
<1>2. Changes(Head(work[p]))
  BY DEF Give, At, Arg, storage, Changes, EntriesMove, ChildrenMove, LeasesMove,
         IndexMoves, QueueMoves, HistoryMoves
<1>3. QED BY <1>1, <1>2, PlainTakes

LEMMA DeleteTakes ==
  ASSUME NEW p, Delete(p)
  PROVE  \E st : Takes(p, st)
<1>1. Plain(p, "delete")
  BY DEF Delete, Plain, At
<1>2. Changes(Head(work[p]))
  BY DEF Delete, At, Arg, ghosts, Changes, EntriesMove, ChildrenMove, LeasesMove,
         IndexMoves, QueueMoves, HistoryMoves
<1>3. QED BY <1>1, <1>2, PlainTakes

LEMMA DeleteParentTakes ==
  ASSUME NEW p, DeleteParent(p)
  PROVE  \E st : Takes(p, st)
<1>1. Plain(p, "deleteParent")
  BY DEF DeleteParent, Plain, At
<1>2. Changes(Head(work[p]))
  BY DEF DeleteParent, At, Arg, ghosts, Changes, EntriesMove, ChildrenMove, LeasesMove,
         IndexMoves, QueueMoves, HistoryMoves
<1>3. QED BY <1>1, <1>2, PlainTakes

LEMMA DeleteLeaseEntryTakes ==
  ASSUME NEW p, DeleteLeaseEntry(p)
  PROVE  \E st : Takes(p, st)
<1>1. Plain(p, "delete_lease_entry")
  BY DEF DeleteLeaseEntry, Plain, At
<1>2. Changes(Head(work[p]))
  BY DEF DeleteLeaseEntry, At, Arg, ghosts, Changes, EntriesMove, ChildrenMove, LeasesMove,
         IndexMoves, QueueMoves, HistoryMoves
<1>3. QED BY <1>1, <1>2, PlainTakes

LEMMA RemoveIndexTakes ==
  ASSUME NEW p, RemoveIndex(p)
  PROVE  \E st : Takes(p, st)
<1>1. Plain(p, "remove_index")
  BY DEF RemoveIndex, Plain, At
<1>2. Changes(Head(work[p]))
  BY DEF RemoveIndex, At, Arg, ghosts, Changes, EntriesMove, ChildrenMove, LeasesMove,
         IndexMoves, QueueMoves, HistoryMoves
<1>3. QED BY <1>1, <1>2, PlainTakes

LEMMA DoneTakes ==
  ASSUME NEW p, Done(p)
  PROVE  \E st : Takes(p, st)
<1>1. Plain(p, "done")
  BY DEF Done, Plain, At
<1>2. Changes(Head(work[p]))
  BY Unmoved DEF Done, At
<1>3. QED BY <1>1, <1>2, PlainTakes

LEMMA PushTakes ==
  ASSUME NEW p, Push(p)
  PROVE  \E st : Takes(p, st)
<1>1. Plain(p, "push")
  BY DEF Push, Plain, At
<1>2. Changes(Head(work[p]))
  BY DEF Push, At, Arg, storage, ghosts, Changes, EntriesMove, ChildrenMove, LeasesMove,
         IndexMoves, QueueMoves, HistoryMoves
<1>3. QED BY <1>1, <1>2, PlainTakes

LEMMA CheckerPopTakes ==
  ASSUME CheckerPop
  PROVE  \E st : Takes(Checker, st)
<1>1. Plain(Checker, "pop")
  BY DEF CheckerPop, Plain, At
<1>2. Changes(Head(work[Checker]))
  BY DEF CheckerPop, At, Arg, storage, ghosts, Changes, EntriesMove, ChildrenMove, LeasesMove,
         IndexMoves, QueueMoves, HistoryMoves
<1>3. QED BY <1>1, <1>2, PlainTakes

LEMMA RegisterAuthTakes ==
  ASSUME NEW p, RegisterAuth(p)
  PROVE  \E st : Takes(p, st)
<1> DEFINE h == Head(work[p]) st == <<<<"push", h[2], now + Ttl>>>>
<1>1. work[p] # <<>> /\ h[1] = "register_auth" /\ Then(p, st)
  BY DEF RegisterAuth, At, Arg
<1>2. Changes(h)
  BY DEF RegisterAuth, persist_lease_entry, At, Arg, ghosts, Changes, EntriesMove, ChildrenMove,
         LeasesMove, IndexMoves, QueueMoves, HistoryMoves
<1>3. IsWork(st) /\ DOMAIN st = {1} /\ st[1] = <<"push", h[2], now + Ttl>>
  BY Short1
<1>4. LeftBy(h, st, 1)
  BY <1>1, <1>3 DEF LeftBy
<1>5. Completes(h, st)
  BY <1>1, <1>3 DEF Completes
<1>6. QED BY <1>1, <1>2, <1>3, <1>4, <1>5 DEF Takes

LEMMA RegisterSecretTakes ==
  ASSUME NEW p, RegisterSecret(p)
  PROVE  \E st : Takes(p, st)
<1> DEFINE h == Head(work[p])
           a == <<"create_index", h[2], h[3]>> b == <<"push", h[3], now + Ttl>>
           st == <<a, b>>
<1>1. work[p] # <<>> /\ h[1] = "register_secret" /\ Then(p, st)
  BY DEF RegisterSecret, At, Arg
<1>2. Changes(h)
  BY DEF RegisterSecret, persist_lease_entry, At, Arg, ghosts, Changes, EntriesMove, ChildrenMove,
         LeasesMove, IndexMoves, QueueMoves, HistoryMoves
<1>3. IsWork(st) /\ DOMAIN st = {1, 2} /\ st[1] = a /\ st[2] = b
  BY Short2
<1>4. LeftBy(h, st, 1) /\ LeftBy(h, st, 2)
  BY <1>1, <1>3 DEF LeftBy
<1>5. Completes(h, st)
  BY <1>1, <1>3 DEF Completes
<1>6. QED BY <1>1, <1>2, <1>3, <1>4, <1>5 DEF Takes

LEMMA RenewTokenTakes ==
  ASSUME NEW p, RenewToken(p)
  PROVE  Stops(p) \/ \E st : Takes(p, st)
<1> DEFINE h == Head(work[p]) st == <<<<"renewed", h[2]>>>>
<1>1. /\ work[p] # <<>> /\ h[1] = "renew_token" /\ UNCHANGED <<storage, queue, locked, now, ghosts>>
      /\ Refuse(p) \/ (lease[h[2]] # None /\ Then(p, st))
  BY DEF RenewToken, At, Arg
<1>2. CASE Refuse(p)
  BY <1>1, <1>2 DEF Stops, Refusing
<1>3. CASE lease[h[2]] # None /\ Then(p, st)
  <2>1. Changes(h)
    BY <1>1, Unmoved
  <2>2. IsWork(st) /\ DOMAIN st = {1} /\ st[1] = <<"renewed", h[2]>>
    BY Short1
  <2>3. LeftBy(h, st, 1)
    BY <1>1, <1>3, <2>2 DEF LeftBy
  <2>4. Completes(h, st)
    BY <1>1 DEF Completes
  <2>5. QED BY <1>1, <1>3, <2>1, <2>2, <2>3, <2>4 DEF Takes
<1>4. QED BY <1>1, <1>2, <1>3

LEMMA RenewedTakes ==
  ASSUME NEW p, Renewed(p)
  PROVE  Stops(p) \/ \E st : Takes(p, st)
<1> DEFINE h == Head(work[p]) st == <<<<"push", h[2], now + Ttl>>>>
<1>1. work[p] # <<>> /\ h[1] = "renewed"
  BY DEF Renewed, At
<1>2. CASE h[2] \in created /\ entry[h[2]] = None
  BY <1>1, <1>2 DEF Renewed, Arg, Stops, Refusing, storage, ghosts
<1>3. CASE ~(h[2] \in created /\ entry[h[2]] = None)
  <2>1. Then(p, st)
    BY <1>3 DEF Renewed, Arg
  <2>2. Changes(h)
    BY <1>1, <1>3 DEF Renewed, persist_lease_entry, Arg, Changes, EntriesMove, ChildrenMove,
         LeasesMove, IndexMoves, QueueMoves, HistoryMoves
  <2>3. IsWork(st) /\ DOMAIN st = {1} /\ st[1] = <<"push", h[2], now + Ttl>>
    BY Short1
  <2>4. LeftBy(h, st, 1)
    BY <1>1, <2>3 DEF LeftBy
  <2>5. Completes(h, st)
    BY <1>1, <2>3 DEF Completes
  <2>6. QED BY <1>1, <2>1, <2>2, <2>3, <2>4, <2>5 DEF Takes
<1>4. QED BY <1>2, <1>3

LEMMA PromiseWork ==
  ASSUME NEW gone
  PROVE  /\ IsWork(Promise(gone)) /\ DOMAIN Promise(gone) \subseteq {1}
         /\ \A i \in DOMAIN Promise(gone) : Promise(gone)[i] = <<"done", gone>>
<1>1. CASE gone = {}
  <2>1. Promise(gone) = <<>>
    BY <1>1 DEF Promise
  <2>2. QED BY <2>1, Short0
<1>2. CASE gone # {}
  <2>1. Promise(gone) = <<<<"done", gone>>>>
    BY <1>2 DEF Promise
  <2>2. /\ IsWork(<<<<"done", gone>>>>) /\ DOMAIN <<<<"done", gone>>>> = {1}
        /\ <<<<"done", gone>>>>[1] = <<"done", gone>>
    BY Short1
  <2>3. QED BY <2>1, <2>2
<1>3. QED BY <1>1, <1>2

(* One step more after those of s. *)
LEMMA PlusOne ==
  ASSUME NEW s, NEW a, IsWork(s)
  PROVE  /\ IsWork(s \o <<a>>) /\ Len(s) \in Nat
         /\ \A i \in DOMAIN s : i \in DOMAIN (s \o <<a>>) /\ (s \o <<a>>)[i] = s[i] /\ i < Len(s) + 1
         /\ Len(s) + 1 \in DOMAIN (s \o <<a>>) /\ (s \o <<a>>)[Len(s) + 1] = a
         /\ \A i \in DOMAIN (s \o <<a>>) : i \in DOMAIN s \/ i = Len(s) + 1
<1>1. IsWork(<<a>>) /\ DOMAIN <<a>> = {1} /\ <<a>>[1] = a
  BY Short1
<1>2. /\ IsWork(s \o <<a>>) /\ Len(s) \in Nat /\ DOMAIN s = 1..Len(s)
      /\ \A i \in DOMAIN s : i \in DOMAIN (s \o <<a>>) /\ (s \o <<a>>)[i] = s[i]
      /\ \A i \in DOMAIN <<a>> : Len(s) + i \in DOMAIN (s \o <<a>>) /\ (s \o <<a>>)[Len(s) + i] = <<a>>[i]
      /\ \A i \in DOMAIN (s \o <<a>>) :
              \/ i \in DOMAIN s
              \/ i > Len(s) /\ i - Len(s) \in DOMAIN <<a>> /\ i = Len(s) + (i - Len(s))
  BY <1>1, CatWork
<1>3. Len(s) + 1 \in DOMAIN (s \o <<a>>) /\ (s \o <<a>>)[Len(s) + 1] = a
  BY <1>1, <1>2
<1>4. \A i \in DOMAIN s : i < Len(s) + 1
  BY <1>2
<1>5. \A i \in DOMAIN (s \o <<a>>) : i \in DOMAIN s \/ i = Len(s) + 1
  <2> TAKE i \in DOMAIN (s \o <<a>>)
  <2>1. CASE i - Len(s) \in DOMAIN <<a>> /\ i = Len(s) + (i - Len(s))
    <3>1. i - Len(s) = 1
      BY <2>1, <1>1
    <3>2. QED BY <3>1, <2>1
  <2>2. QED BY <1>2, <2>1
<1>6. QED BY <1>2, <1>3, <1>4, <1>5

(* A promise after the steps of s. *)
LEMMA PlusPromise ==
  ASSUME NEW s, NEW gone, IsWork(s)
  PROVE  /\ IsWork(s \o Promise(gone))
         /\ \A i \in DOMAIN s : i \in DOMAIN (s \o Promise(gone)) /\ (s \o Promise(gone))[i] = s[i]
         /\ \A i \in DOMAIN (s \o Promise(gone)) :
              \/ i \in DOMAIN s
              \/ (s \o Promise(gone))[i] = <<"done", gone>> /\ \A j \in DOMAIN s : j < i
<1> DEFINE t == Promise(gone)
<1>1. /\ IsWork(t) /\ DOMAIN t \subseteq {1}
      /\ \A i \in DOMAIN t : t[i] = <<"done", gone>>
  BY PromiseWork
<1> HIDE DEF t
<1>2. /\ IsWork(s \o t) /\ Len(s) \in Nat /\ DOMAIN s = 1..Len(s)
      /\ \A i \in DOMAIN s : i \in DOMAIN (s \o t) /\ (s \o t)[i] = s[i]
      /\ \A i \in DOMAIN t : Len(s) + i \in DOMAIN (s \o t) /\ (s \o t)[Len(s) + i] = t[i]
      /\ \A i \in DOMAIN (s \o t) :
              \/ i \in DOMAIN s
              \/ i > Len(s) /\ i - Len(s) \in DOMAIN t /\ i = Len(s) + (i - Len(s))
  BY <1>1, CatWork
<1>3. ASSUME NEW i \in DOMAIN (s \o t), i \notin DOMAIN s
      PROVE  (s \o t)[i] = <<"done", gone>> /\ \A j \in DOMAIN s : j < i
  <2>1. i - Len(s) \in DOMAIN t /\ i = Len(s) + (i - Len(s))
    BY <1>2, <1>3
  <2>2. (s \o t)[i] = t[i - Len(s)]
    BY <2>1, <1>2
  <2>3. i = Len(s) + 1
    BY <2>1, <1>1
  <2>4. \A j \in DOMAIN s : j < i
    BY <2>3, <1>2
  <2>5. QED BY <2>1, <2>2, <2>4, <1>1
<1>4. QED BY <1>2, <1>3 DEF t

LEMMA RevokeTreeTakes ==
  ASSUME NEW p, RevokeTreeStep(p)
  PROVE  \E st : Takes(p, st)
<1> DEFINE h == Head(work[p]) t == h[2] C == {c \in Tok : <<t, c>> \in children}
<1>1. /\ work[p] # <<>> /\ h[1] = "revoke_tree" /\ UNCHANGED <<storage, queue, locked, now, ghosts>>
      /\ \E subtrees \in Each("revoke_tree", C, <<>>) :
           Then(p, subtrees \o <<<<"revoke", t>>>> \o Promise(Covered(t)))
  BY DEF RevokeTreeStep, At, Arg
<1>2. Changes(h)
  BY <1>1, Unmoved
<1>3. IsFiniteSet(C)
  <2>1. C \subseteq Tok
    OBVIOUS
  <2>2. QED BY <2>1, FiniteAssumption, FS_Subset
<1>4. PICK a \in Each("revoke_tree", C, <<>>) :
        Then(p, a \o <<<<"revoke", t>>>> \o Promise(Covered(t)))
  BY <1>1
<1> DEFINE b == a \o <<<<"revoke", t>>>> st == b \o Promise(Covered(t))
<1> HIDE DEF C
<1>5. /\ IsWork(a)
      /\ \A i \in DOMAIN a : a[i][1] = "revoke_tree" /\ a[i][2] \in C
      /\ \A x \in C : \E i \in DOMAIN a : a[i][1] = "revoke_tree" /\ a[i][2] = x
  BY <1>3, EachPlain
<1>6. /\ IsWork(b)
      /\ \A i \in DOMAIN a : i \in DOMAIN b /\ b[i] = a[i]
      /\ Len(a) + 1 \in DOMAIN b /\ b[Len(a) + 1] = <<"revoke", t>>
      /\ \A i \in DOMAIN b : i \in DOMAIN a \/ i = Len(a) + 1
  BY <1>5, PlusOne
<1>7. Then(p, st)
  BY <1>4
<1> HIDE DEF b, h
<1>8. /\ IsWork(st)
      /\ \A i \in DOMAIN b : i \in DOMAIN st /\ st[i] = b[i]
      /\ \A i \in DOMAIN st :
           \/ i \in DOMAIN b
           \/ st[i] = <<"done", Covered(t)>> /\ \A j \in DOMAIN b : j < i
  BY <1>6, PlusPromise
<1> HIDE DEF st
<1>9. \A c \in Tok : c = t \/ <<t, c>> \in children => \E j \in DOMAIN b : Ends(b[j], c)
  <2> TAKE c \in Tok
  <2>1. CASE c = t
    <3>1. Ends(b[Len(a) + 1], c)
      BY <1>6, <2>1 DEF Ends
    <3>2. QED BY <3>1, <1>6
  <2>2. CASE <<t, c>> \in children
    <3>1. c \in C
      BY <2>2 DEF C
    <3>2. PICK j \in DOMAIN a : a[j][1] = "revoke_tree" /\ a[j][2] = c
      BY <3>1, <1>5
    <3>3. QED BY <3>2, <1>6 DEF Ends
  <2>3. QED BY <2>1, <2>2
<1>10. ASSUME NEW i \in DOMAIN st PROVE LeftBy(h, st, i)
  <2>1. CASE i \in DOMAIN a
    <3>1. st[i] = a[i]
      BY <2>1, <1>6, <1>8
    <3>2. a[i][1] = "revoke_tree" /\ a[i][2] \in C
      BY <2>1, <1>5
    <3>3. <<t, a[i][2]>> \in children
      BY <3>2 DEF C
    <3>4. QED BY <1>1, <3>1, <3>2, <3>3 DEF LeftBy, h
  <2>2. CASE i \in DOMAIN b /\ i = Len(a) + 1
    <3>1. st[i] = <<"revoke", t>>
      BY <2>2, <1>6, <1>8
    <3>2. QED BY <1>1, <3>1 DEF LeftBy, h
  <2>3. CASE st[i] = <<"done", Covered(t)>> /\ \A j \in DOMAIN b : j < i
    <3>1. \A c \in Tok : c = t \/ <<t, c>> \in children =>
            \E j \in DOMAIN st : j < i /\ Ends(st[j], c)
      BY <2>3, <1>8, <1>9
    <3>2. st[i][1] = "done" /\ st[i][2] = Covered(t)
      BY <2>3
    <3>3. QED BY <1>1, <3>1, <3>2 DEF LeftBy, h
  <2>4. QED BY <2>1, <2>2, <2>3, <1>6, <1>8
<1>11. Completes(h, st)
  <2>1. \E j \in DOMAIN st : Ends(st[j], t)
    <3>1. Len(a) + 1 \in DOMAIN st /\ st[Len(a) + 1] = <<"revoke", t>>
      BY <1>6, <1>8
    <3>2. QED BY <3>1 DEF Ends
  <2>2. QED BY <1>1, <2>1 DEF Completes, h
<1>12. QED BY <1>1, <1>2, <1>7, <1>8, <1>10, <1>11 DEF Takes, h

LEMMA UnlinkWork ==
  ASSUME NEW t, NEW parent
  PROVE  /\ IsWork(Unlink(t, parent))
         /\ 1 \in DOMAIN Unlink(t, parent) /\ Unlink(t, parent)[1] = <<"delete", t>>
         /\ \A i \in DOMAIN Unlink(t, parent) :
              \/ i = 1
              \/ i = 2 /\ parent # None /\ Unlink(t, parent)[i] = <<"deleteParent", parent, t>>
<1> DEFINE a == <<<<"delete", t>>>> b == <<"deleteParent", parent, t>>
<1>1. IsWork(a) /\ DOMAIN a = {1} /\ a[1] = <<"delete", t>>
  BY Short1
<1>2. CASE parent = None
  <2>1. Unlink(t, parent) = a
    BY <1>2 DEF Unlink
  <2>2. QED BY <1>1, <2>1
<1>3. CASE parent # None
  <2>1. Unlink(t, parent) = a \o <<b>>
    BY <1>3 DEF Unlink
  <2>2. Len(a) = 1
    OBVIOUS
  <2> HIDE DEF a, b
  <2>3. /\ IsWork(a \o <<b>>)
        /\ \A i \in DOMAIN a : i \in DOMAIN (a \o <<b>>) /\ (a \o <<b>>)[i] = a[i]
        /\ (a \o <<b>>)[Len(a) + 1] = b
        /\ \A i \in DOMAIN (a \o <<b>>) : i \in DOMAIN a \/ i = Len(a) + 1
    BY <1>1, PlusOne
  <2>4. QED BY <1>1, <1>3, <2>1, <2>2, <2>3 DEF b
<1>4. QED BY <1>2, <1>3

LEMMA RevokeTakes ==
  ASSUME NEW p, Revoke(p)
  PROVE  \E st : Takes(p, st)
<1> DEFINE h == Head(work[p]) t == h[2] e == entry[t] L == {s \in Sec : <<t, s>> \in index}
<1>1. work[p] # <<>> /\ h[1] = "revoke" /\ UNCHANGED <<storage, queue, locked, now, ghosts>>
  BY DEF Revoke, At
<1>2. Changes(h)
  BY <1>1, Unmoved
<1>3. CASE e = None
  <2> DEFINE st == <<<<"delete", t>>>>
  <2>1. Then(p, st)
    BY <1>3 DEF Revoke, Arg
  <2>2. IsWork(st) /\ DOMAIN st = {1} /\ st[1] = <<"delete", t>>
    BY Short1
  <2>3. LeftBy(h, st, 1) /\ Completes(h, st)
    BY <1>1, <2>2 DEF LeftBy, Completes, Ends
  <2>4. QED BY <1>1, <1>2, <2>1, <2>2, <2>3 DEF Takes
<1>4. CASE e # None
  <2> DEFINE a == Unlink(t, e.parent) b == a \o <<<<"revoke_by_token", t>>>> st == b \o Promise(L)
  <2>1. Then(p, st)
    BY <1>4 DEF Revoke, Arg, Leases
  <2>2. /\ IsWork(a) /\ 1 \in DOMAIN a /\ a[1] = <<"delete", t>>
        /\ \A i \in DOMAIN a :
             i = 1 \/ (i = 2 /\ e.parent # None /\ a[i] = <<"deleteParent", e.parent, t>>)
    BY UnlinkWork
  <2> HIDE DEF a
  <2>3. /\ IsWork(b) /\ Len(a) \in Nat
        /\ \A i \in DOMAIN a : i \in DOMAIN b /\ b[i] = a[i] /\ i < Len(a) + 1
        /\ Len(a) + 1 \in DOMAIN b /\ b[Len(a) + 1] = <<"revoke_by_token", t>>
        /\ \A i \in DOMAIN b : i \in DOMAIN a \/ i = Len(a) + 1
    BY <2>2, PlusOne
  <2> HIDE DEF b, L, h
  <2>4. /\ IsWork(st)
        /\ \A i \in DOMAIN b : i \in DOMAIN st /\ st[i] = b[i]
        /\ \A i \in DOMAIN st :
             i \in DOMAIN b \/ (st[i] = <<"done", L>> /\ \A j \in DOMAIN b : j < i)
    BY <2>3, PlusPromise
  <2> HIDE DEF st
  <2>5. 1 \in DOMAIN st /\ st[1] = <<"delete", t>> /\ Ends(st[1], t)
    BY <2>2, <2>3, <2>4 DEF Ends
  <2>6. Len(a) + 1 \in DOMAIN st /\ st[Len(a) + 1] = <<"revoke_by_token", t>>
    BY <2>3, <2>4
  <2>7. ASSUME NEW i \in DOMAIN st PROVE LeftBy(h, st, i)
    <3>1. CASE i = 1
      BY <3>1, <2>5, <1>1 DEF LeftBy, h
    <3>2. CASE i = 2 /\ i \in DOMAIN a /\ i # 1
      <4>1. st[i] = <<"deleteParent", e.parent, t>> /\ e.parent # None
        BY <3>2, <2>2, <2>3, <2>4
      <4>2. st[i][1] = "deleteParent" /\ st[i][2] = e.parent /\ st[i][3] = t /\ 1 < i
        BY <4>1, <3>2
      <4>3. QED BY <4>1, <4>2, <2>5, <1>1, <1>4 DEF LeftBy, h
    <3>3. CASE i = Len(a) + 1
      BY <3>3, <2>6, <1>1 DEF LeftBy, h
    <3>4. CASE st[i] = <<"done", L>> /\ \A j \in DOMAIN b : j < i
      <4>1. Len(a) + 1 < i
        BY <3>4, <2>3
      <4>2. \E j \in DOMAIN st : j < i /\ st[j][1] = "revoke_by_token" /\ st[j][2] = t
        BY <4>1, <2>6
      <4>3. st[i][1] = "done" /\ st[i][2] = L
        BY <3>4
      <4>4. QED BY <4>2, <4>3, <1>1 DEF LeftBy, h, L
    <3>5. QED BY <3>1, <3>2, <3>3, <3>4, <2>2, <2>3, <2>4
  <2>8. Completes(h, st)
    BY <2>5, <1>1 DEF Completes, h
  <2>9. QED BY <1>1, <1>2, <2>1, <2>4, <2>7, <2>8 DEF Takes, h
<1>5. QED BY <1>3, <1>4

LEMMA RevokeByTokenTakes ==
  ASSUME NEW p, RevokeByToken(p)
  PROVE  \E st : Takes(p, st)
<1> DEFINE h == Head(work[p]) t == h[2] L == {s \in Sec : <<t, s>> \in index}
<1>1. /\ work[p] # <<>> /\ h[1] = "revoke_by_token" /\ UNCHANGED <<storage, queue, locked, now, ghosts>>
      /\ \E leases \in Each("revoke_lease_id", L, <<TRUE>>) : Then(p, leases)
  BY DEF RevokeByToken, At, Arg
<1>2. Changes(h)
  BY <1>1, Unmoved
<1>3. IsFiniteSet(L)
  <2>1. L \subseteq Sec
    OBVIOUS
  <2>2. QED BY <2>1, FiniteAssumption, FS_Subset
<1>4. PICK a \in Each("revoke_lease_id", L, <<TRUE>>) : Then(p, a)
  BY <1>1
<1> HIDE DEF L
<1>5. /\ IsWork(a)
      /\ \A i \in DOMAIN a : a[i][1] = "revoke_lease_id" /\ a[i][2] \in L
      /\ \A i \in DOMAIN a : a[i][3]
      /\ \A x \in L : \E i \in DOMAIN a : a[i][1] = "revoke_lease_id" /\ a[i][2] = x
  BY <1>3, <1>4, EachTrue
<1>6. \A i \in DOMAIN a : LeftBy(h, a, i)
  BY <1>1, <1>5 DEF LeftBy, L
<1>7. Completes(h, a)
  BY <1>1, <1>5 DEF Completes, L
<1>8. QED BY <1>1, <1>2, <1>4, <1>5, <1>6, <1>7 DEF Takes

LEMMA RevokeLeaseIdTakes ==
  ASSUME NEW p, RevokeLeaseId(p), NEW S, Typed(S), p \in Proc
  PROVE  \E st : Takes(p, st)
<1> DEFINE h == Head(work[p]) l == h[2] le == lease[l]
<1>1. work[p] # <<>> /\ h[1] = "revoke_lease_id" /\ UNCHANGED <<storage, queue, locked, now, ghosts>>
  BY DEF RevokeLeaseId, At
<1>2. Changes(h)
  BY <1>1, Unmoved
<1>3. CASE le = None
  <2>1. Then(p, <<>>)
    BY <1>3 DEF RevokeLeaseId, Arg
  <2>2. Completes(h, <<>>)
    BY <1>1, <1>3 DEF Completes
  <2>3. QED BY <1>1, <1>2, <2>1, <2>2, Short0 DEF Takes
<1>4. CASE le # None
  <2> DEFINE a == <<"revoke_tree", l>> b == <<"delete_lease_entry", l>>
             c == <<"remove_index", le.token, l>> d == <<"push", l, 0>>
             u == IF l \in Tok THEN <<a, b>> ELSE <<b, c>>
             st == u \o (IF h[3] THEN <<d>> ELSE <<>>)
  <2>1. Then(p, st)
    BY <1>4 DEF RevokeLeaseId, Arg
  <2>2. /\ IsWork(u) /\ DOMAIN u = {1, 2} /\ Len(u) = 2
        /\ l \in Tok => u[1] = a /\ u[2] = b
        /\ l \notin Tok => u[1] = b /\ u[2] = c
    BY Short2
  <2>3. h[3] \in BOOLEAN
    BY HeadOK, <1>1 DEF StepOK
  <2> HIDE DEF u
  <2>4. /\ IsWork(st) /\ 1 \in DOMAIN st /\ 2 \in DOMAIN st /\ st[1] = u[1] /\ st[2] = u[2]
        /\ \A i \in DOMAIN st : i = 1 \/ i = 2 \/ (i = 3 /\ h[3] = TRUE /\ st[i] = d)
    <3>1. CASE h[3] = TRUE
      <4> HIDE DEF d
      <4>1. st = u \o <<d>>
        BY <3>1
      <4>2. /\ IsWork(u \o <<d>>)
            /\ \A i \in DOMAIN u : i \in DOMAIN (u \o <<d>>) /\ (u \o <<d>>)[i] = u[i]
            /\ (u \o <<d>>)[Len(u) + 1] = d
            /\ \A i \in DOMAIN (u \o <<d>>) : i \in DOMAIN u \/ i = Len(u) + 1
        BY <2>2, PlusOne
      <4>3. QED BY <2>2, <3>1, <4>1, <4>2
    <3>2. CASE h[3] = FALSE
      <4>1. u \o <<>> = u
        BY <2>2 DEF IsWork
      <4>2. st = u
        BY <3>2, <4>1
      <4>3. QED BY <2>2, <4>2
    <3>3. QED BY <2>3, <3>1, <3>2
  <2> HIDE DEF st
  <2>5. \A i \in DOMAIN st : LeftBy(h, st, i)
    <3>1. CASE l \in Tok
      <4>1. st[1] = a /\ st[2] = b
        BY <3>1, <2>2, <2>4
      <4>2. LeftBy(h, st, 1)
        BY <4>1, <3>1, <1>1 DEF LeftBy
      <4>3. Ends(st[1], l) /\ 1 < 2
        BY <4>1 DEF Ends
      <4>4. LeftBy(h, st, 2)
        BY <4>1, <4>3, <2>4, <1>1, <1>4 DEF LeftBy
      <4>5. st[2][1] = "delete_lease_entry" /\ st[2][2] = l /\ 2 < 3
        BY <4>1
      <4>6. ASSUME NEW i \in DOMAIN st, i = 3, h[3] = TRUE, st[i] = d PROVE LeftBy(h, st, i)
        BY <4>5, <4>6, <2>4, <1>1, <1>4 DEF LeftBy
      <4>7. QED BY <4>2, <4>4, <4>6, <2>4
    <3>2. CASE l \notin Tok
      <4>1. st[1] = b /\ st[2] = c
        BY <3>2, <2>2, <2>4
      <4>2. LeftBy(h, st, 1)
        BY <4>1, <3>2, <1>1, <1>4 DEF LeftBy
      <4>3. st[1][1] = "delete_lease_entry" /\ st[1][2] = l /\ 1 < 2 /\ 1 < 3
        BY <4>1
      <4>4. LeftBy(h, st, 2)
        BY <4>1, <4>3, <3>2, <2>4, <1>1, <1>4 DEF LeftBy
      <4>6. ASSUME NEW i \in DOMAIN st, i = 3, h[3] = TRUE, st[i] = d PROVE LeftBy(h, st, i)
        BY <4>3, <4>6, <2>4, <1>1, <1>4 DEF LeftBy
      <4>7. QED BY <4>2, <4>4, <4>6, <2>4
    <3>3. QED BY <3>1, <3>2
  <2>6. Completes(h, st)
    <3>1. \E j \in DOMAIN st : st[j][1] = "delete_lease_entry" /\ st[j][2] = l
      BY <2>2, <2>4
    <3>2. QED BY <3>1, <1>1 DEF Completes
  <2>7. QED BY <1>1, <1>2, <2>1, <2>4, <2>5, <2>6 DEF Takes
<1>5. QED BY <1>3, <1>4

LEMMA ActionTakes ==
  ASSUME NEW S, Typed(S), NEW p \in Proc,
         TokenStep(p) \/ RevokeStep(p) \/ (p = Checker /\ CheckerPop)
  PROVE  Stops(p) \/ \E st : Takes(p, st)
BY CheckTokenTakes, LookupParentTakes, PutParentTakes, PutIdTakes, RegisterAuthTakes,
   RegisterSecretTakes, CreateIndexTakes, GiveTakes, RenewTokenTakes, RenewedTakes,
   RevokeTreeTakes, RevokeTakes, DeleteTakes, DeleteParentTakes, RevokeByTokenTakes,
   RevokeLeaseIdTakes, DeleteLeaseEntryTakes, RemoveIndexTakes, DoneTakes, PushTakes,
   CheckerPopTakes DEF TokenStep, RevokeStep

-----------------------------------------------------------------------------
(* The requests.                                                            *)

LEMMA CatIs ==
  ASSUME NEW T, NEW r \in Seq(T), NEW s \in Seq(T), NEW t \in Seq(T),
         Len(t) = Len(r) + Len(s),
         \A i \in 1..Len(r) : t[i] = r[i], \A i \in 1..Len(s) : t[Len(r) + i] = s[i]
  PROVE  r \o s = t
<1>1. /\ r \o s \in Seq(T) /\ Len(r \o s) = Len(r) + Len(s)
      /\ \A i \in 1..Len(r) + Len(s) : (r \o s)[i] = IF i <= Len(r) THEN r[i] ELSE s[i - Len(r)]
  BY ConcatProperties
<1>2. ASSUME NEW i \in 1..Len(r) + Len(s) PROVE (r \o s)[i] = t[i]
  <2>1. CASE i <= Len(r)
    BY <2>1, <1>1, LenProperties
  <2>2. CASE ~(i <= Len(r))
    <3>1. Len(r) \in Nat /\ Len(s) \in Nat
      BY LenProperties
    <3>2. i - Len(r) \in 1..Len(s) /\ Len(r) + (i - Len(r)) = i
      BY <2>2, <3>1
    <3>3. (r \o s)[i] = s[i - Len(r)]
      BY <1>1, <2>2
    <3>4. t[Len(r) + (i - Len(r))] = s[i - Len(r)]
      BY <3>2
    <3>5. QED BY <3>2, <3>3, <3>4
  <2>3. QED BY <2>1, <2>2
<1>3. \A i \in 1..Len(r \o s) : (r \o s)[i] = t[i]
  BY <1>1, <1>2
<1>4. QED BY <1>1, <1>3, SeqEqual

LEMMA Cat11 == ASSUME NEW k1, NEW k2 PROVE <<k1>> \o <<k2>> = <<k1, k2>>
<1> DEFINE u == <<k1>> v == <<k2>> w == <<k1, k2>> S == {k1, k2}
<1>1. /\ u \in Seq(S) /\ v \in Seq(S) /\ w \in Seq(S) /\ Len(u) = 1 /\ Len(v) = 1 /\ Len(w) = 2
      /\ w[1] = u[1] /\ w[2] = v[1]
  OBVIOUS
<1> HIDE DEF u, v, w, S
<1>2. /\ Len(w) = Len(u) + Len(v) /\ \A i \in 1..Len(u) : w[i] = u[i]
      /\ \A i \in 1..Len(v) : w[Len(u) + i] = v[i]
  BY <1>1
<1>3. u \o v = w
  BY <1>1, <1>2, CatIs, Zenon
<1>4. QED BY <1>3 DEF u, v, w

LEMMA Cat21 == ASSUME NEW k1, NEW k2, NEW k3 PROVE <<k1, k2>> \o <<k3>> = <<k1, k2, k3>>
<1> DEFINE u == <<k1, k2>> v == <<k3>> w == <<k1, k2, k3>> S == {k1, k2, k3}
<1>1. /\ u \in Seq(S) /\ v \in Seq(S) /\ w \in Seq(S) /\ Len(u) = 2 /\ Len(v) = 1 /\ Len(w) = 3
      /\ w[1] = u[1] /\ w[2] = u[2] /\ w[3] = v[1]
  OBVIOUS
<1> HIDE DEF u, v, w, S
<1>2. /\ Len(w) = Len(u) + Len(v) /\ \A i \in 1..Len(u) : w[i] = u[i]
      /\ \A i \in 1..Len(v) : w[Len(u) + i] = v[i]
  BY <1>1
<1>3. u \o v = w
  BY <1>1, <1>2, CatIs, Zenon
<1>4. QED BY <1>3 DEF u, v, w

LEMMA Cat12 == ASSUME NEW k1, NEW k2, NEW k3 PROVE <<k1>> \o <<k2, k3>> = <<k1, k2, k3>>
<1> DEFINE u == <<k1>> v == <<k2, k3>> w == <<k1, k2, k3>> S == {k1, k2, k3}
<1>1. /\ u \in Seq(S) /\ v \in Seq(S) /\ w \in Seq(S) /\ Len(u) = 1 /\ Len(v) = 2 /\ Len(w) = 3
      /\ w[1] = u[1] /\ w[2] = v[1] /\ w[3] = v[2]
  OBVIOUS
<1> HIDE DEF u, v, w, S
<1>2. /\ Len(w) = Len(u) + Len(v) /\ \A i \in 1..Len(u) : w[i] = u[i]
      /\ \A i \in 1..Len(v) : w[Len(u) + i] = v[i]
  BY <1>1
<1>3. u \o v = w
  BY <1>1, <1>2, CatIs, Zenon
<1>4. QED BY <1>3 DEF u, v, w

LEMMA Cat13 ==
  ASSUME NEW k1, NEW k2, NEW k3, NEW k4 PROVE <<k1>> \o <<k2, k3, k4>> = <<k1, k2, k3, k4>>
<1> DEFINE u == <<k1>> v == <<k2, k3, k4>> w == <<k1, k2, k3, k4>> S == {k1, k2, k3, k4}
<1>1. /\ u \in Seq(S) /\ v \in Seq(S) /\ w \in Seq(S) /\ Len(u) = 1 /\ Len(v) = 3 /\ Len(w) = 4
      /\ w[1] = u[1] /\ w[2] = v[1] /\ w[3] = v[2] /\ w[4] = v[3]
  OBVIOUS
<1> HIDE DEF u, v, w, S
<1>2. /\ Len(w) = Len(u) + Len(v) /\ \A i \in 1..Len(u) : w[i] = u[i]
      /\ \A i \in 1..Len(v) : w[Len(u) + i] = v[i]
  BY <1>1
<1>3. u \o v = w
  BY <1>1, <1>2, CatIs, Zenon
<1>4. QED BY <1>3 DEF u, v, w

LEMMA Cat14 ==
  ASSUME NEW k1, NEW k2, NEW k3, NEW k4, NEW k5 PROVE <<k1>> \o <<k2, k3, k4, k5>> = <<k1, k2, k3, k4, k5>>
<1> DEFINE u == <<k1>> v == <<k2, k3, k4, k5>> w == <<k1, k2, k3, k4, k5>> S == {k1, k2, k3, k4, k5}
<1>1. /\ u \in Seq(S) /\ v \in Seq(S) /\ w \in Seq(S) /\ Len(u) = 1 /\ Len(v) = 4 /\ Len(w) = 5
      /\ w[1] = u[1] /\ w[2] = v[1] /\ w[3] = v[2] /\ w[4] = v[3] /\ w[5] = v[4]
  OBVIOUS
<1> HIDE DEF u, v, w, S
<1>2. /\ Len(w) = Len(u) + Len(v) /\ \A i \in 1..Len(u) : w[i] = u[i]
      /\ \A i \in 1..Len(v) : w[Len(u) + i] = v[i]
  BY <1>1
<1>3. u \o v = w
  BY <1>1, <1>2, CatIs, Zenon
<1>4. QED BY <1>3 DEF u, v, w

LEMMA Cat23 ==
  ASSUME NEW k1, NEW k2, NEW k3, NEW k4, NEW k5 PROVE <<k1, k2>> \o <<k3, k4, k5>> = <<k1, k2, k3, k4, k5>>
<1> DEFINE u == <<k1, k2>> v == <<k3, k4, k5>> w == <<k1, k2, k3, k4, k5>> S == {k1, k2, k3, k4, k5}
<1>1. /\ u \in Seq(S) /\ v \in Seq(S) /\ w \in Seq(S) /\ Len(u) = 2 /\ Len(v) = 3 /\ Len(w) = 5
      /\ w[1] = u[1] /\ w[2] = u[2] /\ w[3] = v[1] /\ w[4] = v[2] /\ w[5] = v[3]
  OBVIOUS
<1> HIDE DEF u, v, w, S
<1>2. /\ Len(w) = Len(u) + Len(v) /\ \A i \in 1..Len(u) : w[i] = u[i]
      /\ \A i \in 1..Len(v) : w[Len(u) + i] = v[i]
  BY <1>1
<1>3. u \o v = w
  BY <1>1, <1>2, CatIs, Zenon
<1>4. QED BY <1>3 DEF u, v, w

LEMMA Cat15 ==
  ASSUME NEW k1, NEW k2, NEW k3, NEW k4, NEW k5, NEW k6
  PROVE  <<k1>> \o <<k2, k3, k4, k5, k6>> = <<k1, k2, k3, k4, k5, k6>>
<1> DEFINE u == <<k1>> v == <<k2, k3, k4, k5, k6>> w == <<k1, k2, k3, k4, k5, k6>> S == {k1, k2, k3, k4, k5, k6}
<1>1. /\ u \in Seq(S) /\ v \in Seq(S) /\ w \in Seq(S) /\ Len(u) = 1 /\ Len(v) = 5 /\ Len(w) = 6
      /\ w[1] = u[1] /\ w[2] = v[1] /\ w[3] = v[2] /\ w[4] = v[3] /\ w[5] = v[4] /\ w[6] = v[5]
  OBVIOUS
<1> HIDE DEF u, v, w, S
<1>2. /\ Len(w) = Len(u) + Len(v) /\ \A i \in 1..Len(u) : w[i] = u[i]
      /\ \A i \in 1..Len(v) : w[Len(u) + i] = v[i]
  BY <1>1
<1>3. u \o v = w
  BY <1>1, <1>2, CatIs, Zenon
<1>4. QED BY <1>3 DEF u, v, w

LEMMA Cat33 ==
  ASSUME NEW k1, NEW k2, NEW k3, NEW k4, NEW k5, NEW k6
  PROVE  <<k1, k2, k3>> \o <<k4, k5, k6>> = <<k1, k2, k3, k4, k5, k6>>
<1> DEFINE u == <<k1, k2, k3>> v == <<k4, k5, k6>> w == <<k1, k2, k3, k4, k5, k6>> S == {k1, k2, k3, k4, k5, k6}
<1>1. /\ u \in Seq(S) /\ v \in Seq(S) /\ w \in Seq(S) /\ Len(u) = 3 /\ Len(v) = 3 /\ Len(w) = 6
      /\ w[1] = u[1] /\ w[2] = u[2] /\ w[3] = u[3] /\ w[4] = v[1] /\ w[5] = v[2] /\ w[6] = v[3]
  OBVIOUS
<1> HIDE DEF u, v, w, S
<1>2. /\ Len(w) = Len(u) + Len(v) /\ \A i \in 1..Len(u) : w[i] = u[i]
      /\ \A i \in 1..Len(v) : w[Len(u) + i] = v[i]
  BY <1>1
<1>3. u \o v = w
  BY <1>1, <1>2, CatIs, Zenon
<1>4. QED BY <1>3 DEF u, v, w

LEMMA Cat16 ==
  ASSUME NEW k1, NEW k2, NEW k3, NEW k4, NEW k5, NEW k6, NEW k7
  PROVE  <<k1>> \o <<k2, k3, k4, k5, k6, k7>> = <<k1, k2, k3, k4, k5, k6, k7>>
<1> DEFINE u == <<k1>> v == <<k2, k3, k4, k5, k6, k7>> w == <<k1, k2, k3, k4, k5, k6, k7>>
           S == {k1, k2, k3, k4, k5, k6, k7}
<1>1. /\ u \in Seq(S) /\ v \in Seq(S) /\ w \in Seq(S) /\ Len(u) = 1 /\ Len(v) = 6 /\ Len(w) = 7
      /\ w[1] = u[1] /\ w[2] = v[1] /\ w[3] = v[2] /\ w[4] = v[3] /\ w[5] = v[4] /\ w[6] = v[5]
      /\ w[7] = v[6]
  OBVIOUS
<1> HIDE DEF u, v, w, S
<1>2. /\ Len(w) = Len(u) + Len(v) /\ \A i \in 1..Len(u) : w[i] = u[i]
      /\ \A i \in 1..Len(v) : w[Len(u) + i] = v[i]
  BY <1>1
<1>3. u \o v = w
  BY <1>1, <1>2, CatIs, Zenon
<1>4. QED BY <1>3 DEF u, v, w

LEMMA Short5 ==
  ASSUME NEW k1, NEW k2, NEW k3, NEW k4, NEW k5, NEW w, w = <<k1, k2, k3, k4, k5>>
  PROVE  /\ IsWork(w) /\ DOMAIN w = 1..5
         /\ w[1] = k1 /\ w[2] = k2 /\ w[3] = k3 /\ w[4] = k4 /\ w[5] = k5
<1>1. w \in Seq({k1, k2, k3, k4, k5})
  OBVIOUS
<1>2. IsWork(w)
  BY <1>1, WorkIs
<1>3. QED BY <1>2

LEMMA Short6 ==
  ASSUME NEW k1, NEW k2, NEW k3, NEW k4, NEW k5, NEW k6, NEW w, w = <<k1, k2, k3, k4, k5, k6>>
  PROVE  /\ IsWork(w) /\ DOMAIN w = 1..6
         /\ w[1] = k1 /\ w[2] = k2 /\ w[3] = k3 /\ w[4] = k4 /\ w[5] = k5 /\ w[6] = k6
<1>1. w \in Seq({k1, k2, k3, k4, k5, k6})
  OBVIOUS
<1>2. IsWork(w)
  BY <1>1, WorkIs
<1>3. QED BY <1>2

LEMMA Short7 ==
  ASSUME NEW k1, NEW k2, NEW k3, NEW k4, NEW k5, NEW k6, NEW k7, NEW w, w = <<k1, k2, k3, k4, k5, k6, k7>>
  PROVE  /\ IsWork(w) /\ DOMAIN w = 1..7
         /\ w[1] = k1 /\ w[2] = k2 /\ w[3] = k3 /\ w[4] = k4 /\ w[5] = k5 /\ w[6] = k6 /\ w[7] = k7
<1>1. w \in Seq({k1, k2, k3, k4, k5, k6, k7})
  OBVIOUS
<1>2. IsWork(w)
  BY <1>1, WorkIs
<1>3. QED BY <1>2

(* Step i of the steps st of a request that begins, whose ids are new. *)
AskOK(st, i, ids) ==
  LET s == st[i] op == s[1] IN
    \/ /\ op \in {"check_token", "lookupParent", "renew_token", "revoke_tree", "revoke"}
       /\ s[2] \in held
    \/ op = "putParent" /\ s[2] \in held /\ s[3] \in ids \cap Tok
    \/ /\ op = "putId" /\ s[2] \in ids \cap Tok
       /\ s[3] \in Entry /\ s[3].parent \in held \cup {None}
       /\ \A j \in DOMAIN st : IsPut(st[j], s[2]) => j = i
       /\ s[3].parent # None =>
            \E j \in DOMAIN st :
              j < i /\ st[j][1] = "putParent" /\ st[j][2] = s[3].parent /\ st[j][3] = s[2]
    \/ /\ op = "register_auth" /\ s[2] \in ids \cap Tok
       /\ \A j \in DOMAIN st :
            /\ IsPut(st[j], s[2]) => j < i /\ st[j][3].uses = 0
            /\ st[j][1] = "register_auth" /\ st[j][2] = s[2] => j = i
    \/ /\ op = "give" /\ s[2] \in ids \cap Tok
       /\ \E j \in DOMAIN st : j < i /\ st[j][1] = "register_auth" /\ st[j][2] = s[2]
    \/ /\ op = "register_secret" /\ s[2] \in held /\ s[3] \in ids \cap Sec
       /\ \A j \in DOMAIN st : Registers(st[j], s[3]) => j = i

Asks(p, st, ids) ==
  /\ p \in Callers /\ p = ops + 1 /\ IsWork(st) /\ ids \subseteq fresh
  /\ work' = [work EXCEPT ![p] = st]
  /\ fresh' = fresh \ ids /\ ops' = ops + 1
  /\ chosen' \subseteq chosen \cup (ids \cap Tok) /\ created' \subseteq created \cup ids
  /\ UNCHANGED <<storage, queue, locked, now, given, faults, broken, raced>>
  /\ \A i \in DOMAIN st : AskOK(st, i, ids)

(* The steps that give a client a token, after others. *)
LEMMA PostRouteIs ==
  ASSUME NEW m
  PROVE  post_route(m) = <<<<"putId", m, [parent |-> None, uses |-> 0]>>,
                           <<"register_auth", m>>, <<"give", m>>>>
<1> DEFINE a == <<"putId", m, [parent |-> None, uses |-> 0]>>
           b == <<"register_auth", m>> c == <<"give", m>>
<1>1. create([parent |-> None, uses |-> 0], m) = <<a>>
  BY DEF create
<1>2. post_route(m) = <<a>> \o <<b, c>>
  BY <1>1 DEF post_route
<1> HIDE DEF a, b, c
<1>3. post_route(m) = <<a, b, c>>
  BY <1>2, Cat12
<1>4. QED BY <1>3 DEF a, b, c

LEMMA LoginAsks ==
  ASSUME NEW p \in Callers, Login(p)
  PROVE  \E st, ids : Asks(p, st, ids)
<1>1. PICK m \in Generated(Tok, 1) : Request(p, post_route(m), {m}) /\ UNCHANGED <<chosen, created>>
  BY DEF Login
<1>2. m \in Tok /\ m \in fresh
  BY DEF Generated
<1> DEFINE st == <<<<"putId", m, [parent |-> None, uses |-> 0]>>, <<"register_auth", m>>, <<"give", m>>>>
<1>3. /\ IsWork(st) /\ DOMAIN st = {1, 2, 3} /\ st[1] = <<"putId", m, [parent |-> None, uses |-> 0]>>
      /\ st[2] = <<"register_auth", m>> /\ st[3] = <<"give", m>>
  BY Short3
<1>4. post_route(m) = st
  BY PostRouteIs
<1> HIDE DEF st
<1>5. AskOK(st, 1, {m})
  BY <1>2, <1>3, BoundAssumption DEF AskOK, IsPut, Entry
<1>6. AskOK(st, 2, {m})
  BY <1>2, <1>3 DEF AskOK, IsPut
<1>7. AskOK(st, 3, {m})
  BY <1>2, <1>3 DEF AskOK
<1>8. Asks(p, st, {m})
  BY <1>1, <1>2, <1>3, <1>4, <1>5, <1>6, <1>7 DEF Asks, Request
<1>9. QED BY <1>8

LEMMA RenewAsks ==
  ASSUME NEW p \in Callers, Renew(p)
  PROVE  \E st, ids : Asks(p, st, ids)
<1>1. PICK t \in held, m \in Generated(Tok, 1) :
        /\ Request(p, With(t, <<<<"renew_token", t>>>> \o post_route(m)), {m})
        /\ UNCHANGED <<chosen, created>>
  BY DEF Renew
<1>2. m \in Tok /\ m \in fresh
  BY DEF Generated
<1> DEFINE x == <<"check_token", t>> y == <<"renew_token", t>>
           a == <<"putId", m, [parent |-> None, uses |-> 0]>>
           b == <<"register_auth", m>> c == <<"give", m>>
           st == <<x, y, a, b, c>>
<1>3. post_route(m) = <<a, b, c>>
  BY PostRouteIs
<1>4. With(t, <<<<"renew_token", t>>>> \o post_route(m)) = <<x>> \o (<<y>> \o <<a, b, c>>)
  BY <1>3 DEF With
<1> HIDE DEF a, b, c, x, y
<1>5. <<x>> \o (<<y>> \o <<a, b, c>>) = st
  <2>1. <<y>> \o <<a, b, c>> = <<y, a, b, c>>
    BY Cat13
  <2>2. <<x>> \o <<y, a, b, c>> = st
    BY Cat14
  <2>3. QED BY <2>1, <2>2
<1>6. /\ IsWork(st) /\ DOMAIN st = 1..5
      /\ st[1] = x /\ st[2] = y /\ st[3] = a /\ st[4] = b /\ st[5] = c
  BY Short5
<1> HIDE DEF st
<1>7. AskOK(st, 1, {m}) /\ AskOK(st, 2, {m})
  BY <1>6 DEF AskOK, x, y
<1>8. AskOK(st, 3, {m})
  BY <1>2, <1>6, BoundAssumption DEF AskOK, IsPut, Entry, a, b, c, x, y
<1>9. AskOK(st, 4, {m})
  BY <1>2, <1>6 DEF AskOK, IsPut, a, b, c, x, y
<1>10. AskOK(st, 5, {m})
  <2>1. 4 \in DOMAIN st /\ 4 < 5 /\ st[4][1] = "register_auth" /\ st[4][2] = m
    BY <1>6 DEF b
  <2>2. QED BY <2>1, <1>2, <1>6 DEF AskOK, c
<1>11. \A i \in DOMAIN st : AskOK(st, i, {m})
  BY <1>6, <1>7, <1>8, <1>9, <1>10
<1>12. Request(p, st, {m})
  BY <1>1, <1>4, <1>5
<1>13. Asks(p, st, {m})
  BY <1>1, <1>2, <1>6, <1>11, <1>12 DEF Asks, Request
<1>14. QED BY <1>13

LEMMA ReadAsks ==
  ASSUME NEW p \in Callers, ReadLeased(p)
  PROVE  \E st, ids : Asks(p, st, ids)
<1>1. PICK t \in held, s \in Generated(Sec, 1) :
        /\ Request(p, With(t, <<<<"register_secret", t, s>>>>), {s})
        /\ UNCHANGED <<chosen, created>>
  BY DEF ReadLeased
<1>2. s \in Sec /\ s \in fresh
  BY DEF Generated
<1> DEFINE a == <<"check_token", t>> b == <<"register_secret", t, s>> st == <<a, b>>
<1>3. With(t, <<<<"register_secret", t, s>>>>) = <<a>> \o <<b>>
  BY DEF With
<1> HIDE DEF a, b
<1>4. <<a>> \o <<b>> = st
  BY Cat11
<1>5. IsWork(st) /\ DOMAIN st = {1, 2} /\ st[1] = a /\ st[2] = b
  BY Short2
<1> HIDE DEF st
<1>6. AskOK(st, 1, {s}) /\ AskOK(st, 2, {s})
  BY <1>2, <1>5 DEF AskOK, Registers, a, b
<1>7. Request(p, st, {s})
  BY <1>1, <1>3, <1>4
<1>8. Asks(p, st, {s})
  BY <1>1, <1>2, <1>5, <1>6, <1>7 DEF Asks, Request
<1>9. QED BY <1>8

LEMMA RevokesAsk ==
  ASSUME NEW p \in Callers, RevokeTree(p) \/ RevokeOrphan(p)
  PROVE  \E st, ids : Asks(p, st, ids)
<1>1. PICK t \in held, x \in held, op \in {"revoke_tree", "revoke"} :
        Request(p, With(t, <<<<op, x>>>>), {}) /\ UNCHANGED <<chosen, created>>
  BY DEF RevokeTree, RevokeOrphan, held
<1> DEFINE a == <<"check_token", t>> b == <<op, x>> st == <<a, b>>
<1>3. With(t, <<<<op, x>>>>) = <<a>> \o <<b>>
  BY DEF With
<1> HIDE DEF a, b
<1>4. <<a>> \o <<b>> = st
  BY Cat11
<1>5. IsWork(st) /\ DOMAIN st = {1, 2} /\ st[1] = a /\ st[2] = b
  BY Short2
<1> HIDE DEF st
<1>6. AskOK(st, 1, {}) /\ AskOK(st, 2, {})
  BY <1>5 DEF AskOK, a, b
<1>7. Request(p, st, {})
  BY <1>1, <1>3, <1>4
<1>8. Asks(p, st, {})
  BY <1>1, <1>5, <1>6, <1>7 DEF Asks, Request
<1>9. QED BY <1>8

LEMMA CreateAsks ==
  ASSUME NEW p \in Callers, Create(p), held \subseteq Tok
  PROVE  \E st, ids : Asks(p, st, ids)
<1> DEFINE e(par, u) == [parent |-> par, uses |-> u]
<1> DEFINE R(t, c, m, u, par, named) ==
             /\ c < m
             /\ t # Root => ~named
             /\ ~named => par = t /\ u = 0
             /\ Request(p, With(t, (IF par = None THEN <<<<"lookupParent", t>>>> ELSE <<>>)
                                \o create([parent |-> par, uses |-> u], c) \o post_route(m)), {c, m})
             /\ chosen' = IF named THEN chosen \cup {c} ELSE chosen
             /\ created' = created \cup {c, m}
<1>1. \E t \in held, c, m \in Generated(Tok, 2), u \in 0..MaxUses :
        \E par \in {t, None}, named \in BOOLEAN : R(t, c, m, u, par, named)
  BY Zenon DEF Create
<1> HIDE DEF R
<1>b. PICK t \in held, c \in Generated(Tok, 2), m \in Generated(Tok, 2), u \in 0..MaxUses :
        \E par \in {t, None}, named \in BOOLEAN : R(t, c, m, u, par, named)
  BY <1>1
<1>c. PICK par \in {t, None}, named \in BOOLEAN : R(t, c, m, u, par, named)
  BY <1>b
<1>a. /\ c < m
      /\ Request(p, With(t, (IF par = None THEN <<<<"lookupParent", t>>>> ELSE <<>>)
                         \o create(e(par, u), c) \o post_route(m)), {c, m})
      /\ chosen' \subseteq chosen \cup {c} /\ created' = created \cup {c, m}
  <2>1. chosen' = IF named THEN chosen \cup {c} ELSE chosen
    BY <1>c DEF R
  <2>2. chosen' \subseteq chosen \cup {c}
    BY <2>1
  <2>3. QED BY <1>c, <2>2 DEF R
<1>2. c \in Tok /\ m \in Tok /\ c \in fresh /\ m \in fresh /\ c # m /\ t \in Tok \cup held
  BY <1>a, RootAssumption DEF Generated
<1> DEFINE x == <<"check_token", t>> y == <<"lookupParent", t>> z == <<"putParent", t, c>>
           d == <<"putId", c, e(par, u)>> a == <<"putId", m, [parent |-> None, uses |-> 0]>>
           b == <<"register_auth", m>> g == <<"give", m>>
<1>3. post_route(m) = <<a, b, g>>
  BY PostRouteIs
<1>4. e(par, u) \in [parent : held \cup {None}, uses : 0..MaxUses] /\ e(par, u).parent = par
  OBVIOUS
<1>5. CASE par = None
  <2> DEFINE st == <<x, y, d, a, b, g>>
  <2>1. create(e(par, u), c) = <<d>>
    BY <1>5, <1>4 DEF create
  <2>2. With(t, (IF par = None THEN <<<<"lookupParent", t>>>> ELSE <<>>)
                \o create(e(par, u), c) \o post_route(m))
        = <<x>> \o ((<<y>> \o <<d>>) \o <<a, b, g>>)
    BY <1>3, <1>5, <2>1 DEF With
  <2>3. e(par, u) \in Entry /\ e(par, u).parent = None
    BY <1>5 DEF Entry
  <2> HIDE DEF a, b, g, x, y, d
  <2>4. <<x>> \o ((<<y>> \o <<d>>) \o <<a, b, g>>) = st
    <3>1. <<y>> \o <<d>> = <<y, d>>
      BY Cat11
    <3>2. <<y, d>> \o <<a, b, g>> = <<y, d, a, b, g>>
      BY Cat23
    <3>3. <<x>> \o <<y, d, a, b, g>> = st
      BY Cat15
    <3>4. QED BY <3>1, <3>2, <3>3
  <2>5. /\ IsWork(st) /\ DOMAIN st = 1..6
        /\ st[1] = x /\ st[2] = y /\ st[3] = d /\ st[4] = a /\ st[5] = b /\ st[6] = g
    BY Short6
  <2> HIDE DEF st, e
  <2>6. AskOK(st, 1, {c, m}) /\ AskOK(st, 2, {c, m})
    BY <2>5 DEF AskOK, x, y
  <2>7. AskOK(st, 3, {c, m})
    BY <1>2, <2>3, <2>5 DEF AskOK, IsPut, a, b, d, g, x, y
  <2>8. AskOK(st, 4, {c, m})
    BY <1>2, <2>5, BoundAssumption DEF AskOK, IsPut, Entry, a, b, d, g, x, y
  <2>9. AskOK(st, 5, {c, m})
    BY <1>2, <2>5 DEF AskOK, IsPut, a, b, d, g, x, y
  <2>10. AskOK(st, 6, {c, m})
    <3>1. 5 \in DOMAIN st /\ 5 < 6 /\ st[5][1] = "register_auth" /\ st[5][2] = m
      BY <2>5 DEF b
    <3>2. QED BY <3>1, <1>2, <2>5 DEF AskOK, g
  <2>11. \A i \in DOMAIN st : AskOK(st, i, {c, m})
    BY <2>5, <2>6, <2>7, <2>8, <2>9, <2>10
  <2>12. Request(p, st, {c, m})
    BY <1>a, <2>2, <2>4
  <2>13. Asks(p, st, {c, m})
    BY <1>a, <1>2, <2>5, <2>11, <2>12 DEF Asks, Request
  <2>14. QED BY <2>13
<1>6. CASE par # None
  <2> DEFINE st == <<x, y, z, d, a, b, g>>
  <2>1. par = t
    BY <1>6
  <2>2. create(e(par, u), c) = <<y, z>> \o <<d>>
    BY <1>6, <1>4, <2>1 DEF create
  <2>3. With(t, (IF par = None THEN <<<<"lookupParent", t>>>> ELSE <<>>)
                \o create(e(par, u), c) \o post_route(m))
        = <<x>> \o ((<<>> \o (<<y, z>> \o <<d>>)) \o <<a, b, g>>)
    BY <1>3, <1>6, <2>2 DEF With
  <2>4. e(par, u).parent = t
    BY <2>1
  <2> HIDE DEF a, b, g, x, y, z, d
  <2>5. <<>> \o <<y, z, d>> = <<y, z, d>>
    <3>1. <<y, z, d>> \in Seq({y, z, d})
      OBVIOUS
    <3>2. QED BY <3>1, ConcatEmptySeq
  <2>6. <<x>> \o ((<<>> \o (<<y, z>> \o <<d>>)) \o <<a, b, g>>) = st
    <3>1. <<y, z>> \o <<d>> = <<y, z, d>>
      BY Cat21
    <3>2. <<y, z, d>> \o <<a, b, g>> = <<y, z, d, a, b, g>>
      BY Cat33
    <3>3. <<x>> \o <<y, z, d, a, b, g>> = st
      BY Cat16
    <3>4. QED BY <2>5, <3>1, <3>2, <3>3
  <2>7. /\ IsWork(st) /\ DOMAIN st = 1..7
        /\ st[1] = x /\ st[2] = y /\ st[3] = z /\ st[4] = d /\ st[5] = a /\ st[6] = b /\ st[7] = g
    BY Short7
  <2>8. e(par, u) \in Entry
    BY <1>4, <1>6 DEF Entry
  <2> HIDE DEF st, e
  <2>9. AskOK(st, 1, {c, m}) /\ AskOK(st, 2, {c, m})
    BY <2>7 DEF AskOK, x, y
  <2>10. AskOK(st, 3, {c, m})
    BY <1>2, <2>7 DEF AskOK, z
  <2>11. AskOK(st, 4, {c, m})
    <3>1. 3 \in DOMAIN st /\ 3 < 4 /\ st[3][1] = "putParent" /\ st[3][2] = t /\ st[3][3] = c
      BY <2>7 DEF z
    <3>2. st[4][1] = "putId" /\ st[4][2] = c /\ st[4][3] = e(par, u)
      BY <2>7 DEF d
    <3>3. \A j \in DOMAIN st : IsPut(st[j], c) => j = 4
      BY <1>2, <2>7 DEF IsPut, a, b, d, g, x, y, z
    <3>4. QED BY <3>1, <3>2, <3>3, <1>2, <2>4, <2>8 DEF AskOK
  <2>12. AskOK(st, 5, {c, m})
    BY <1>2, <2>7, BoundAssumption DEF AskOK, IsPut, Entry, a, b, d, g, x, y, z
  <2>13. AskOK(st, 6, {c, m})
    BY <1>2, <2>7 DEF AskOK, IsPut, a, b, d, g, x, y, z
  <2>14. AskOK(st, 7, {c, m})
    <3>1. 6 \in DOMAIN st /\ 6 < 7 /\ st[6][1] = "register_auth" /\ st[6][2] = m
      BY <2>7 DEF b
    <3>2. QED BY <3>1, <1>2, <2>7 DEF AskOK, g
  <2>15. \A i \in DOMAIN st : AskOK(st, i, {c, m})
    BY <2>7, <2>9, <2>10, <2>11, <2>12, <2>13, <2>14
  <2>16. Request(p, st, {c, m})
    BY <1>a, <2>3, <2>6
  <2>17. Asks(p, st, {c, m})
    BY <1>a, <1>2, <2>7, <2>15, <2>16 DEF Asks, Request
  <2>18. QED BY <2>17
<1>7. QED BY <1>5, <1>6

LEMMA ActionAsks ==
  ASSUME NEW S, Typed(S), NEW p \in Callers,
         \/ Create(p) \/ Login(p) \/ ReadLeased(p) \/ Renew(p)
         \/ RevokeTree(p) \/ RevokeOrphan(p)
  PROVE  \E st, ids : Asks(p, st, ids)
<1>1. held \subseteq Tok
  BY DEF Typed, Stores, TypeOK
<1>2. QED BY <1>1, CreateAsks, LoginAsks, ReadAsks, RenewAsks, RevokesAsk

-----------------------------------------------------------------------------
(* Types.                                                                   *)

LEMMA LeftOK ==
  ASSUME Stores, NEW h, StepOK(h), NEW st, NEW i, LeftBy(h, st, i)
  PROVE  StepOK(st[i])
<1> DEFINE s == st[i]
<1>1. /\ \A t \in Tok : entry[t] # None => t \in UsedTok /\ EntryOK(entry[t])
      /\ children \subseteq UsedTok \X UsedTok /\ index \subseteq UsedTok \X UsedSec
      /\ \A l \in Lease : lease[l] # None => lease[l].token \in UsedTok
      /\ now \in Nat
  <2>1. \A l \in Lease : lease[l] # None => lease[l] \in LeaseEntry
    BY DEF Stores, TypeOK
  <2>2. \A l \in Lease : lease[l] # None => lease[l].token \in UsedTok
    BY <2>1 DEF Stores, TypeOK, UsedTok, LeaseEntry
  <2>3. now \in Nat
    BY BoundAssumption DEF Stores, TypeOK
  <2>4. QED BY <2>2, <2>3 DEF Stores
<1>2. h[1] \in OfTok => h[2] \in UsedTok
  BY DEF StepOK
<1>3. UsedTok \subseteq Tok /\ UsedTok \subseteq Used /\ UsedSec \subseteq Used
  BY DEF UsedTok, UsedSec, Used, Lease
<1> HIDE DEF s
<1>4. CASE h[1] = "check_token"
  <2>1. h[2] \in UsedTok
    BY <1>2, <1>4 DEF OfTok
  <2>2. CASE s[1] = "revoke" /\ s[2] = h[2]
    BY <2>1, <2>2 DEF StepOK, OfTok, OfSec, OfLease, s
  <2>3. CASE /\ s[1] = "putId" /\ s[2] = h[2] /\ entry[h[2]] # None /\ entry[h[2]].uses > 1
             /\ s[3] = [entry[h[2]] EXCEPT !.uses = @ - 1]
    <3>1. entry[h[2]] \in Entry /\ entry[h[2]].parent \notin fresh
      BY <1>1, <1>3, <2>1, <2>3 DEF EntryOK
    <3>2. s[3] \in Entry /\ s[3].parent = entry[h[2]].parent
      BY <3>1, <2>3, BoundAssumption DEF Entry
    <3>3. EntryOK(s[3])
      BY <3>1, <3>2 DEF EntryOK
    <3>4. QED BY <2>1, <2>3, <3>3 DEF StepOK, OfTok, OfSec, OfLease, s
  <2>4. QED BY <1>4, <2>2, <2>3 DEF LeftBy, s
<1>5. CASE h[1] \in {"register_auth", "renewed"}
  <2>1. h[2] \in UsedTok
    BY <1>2, <1>5 DEF OfTok
  <2>2. s[1] = "push" /\ s[2] = h[2] /\ s[3] = now + Ttl
    BY <1>5 DEF LeftBy, s
  <2>3. s[3] \in Nat
    BY <1>1, <2>2, TtlAssumption
  <2>4. QED BY <1>3, <2>1, <2>2, <2>3 DEF StepOK, OfTok, OfSec, OfLease, s
<1>6. CASE h[1] = "register_secret"
  <2>1. h[2] \in UsedTok /\ h[3] \in UsedSec
    BY <1>6 DEF StepOK, OfTok, OfSec
  <2>2. \/ s[1] = "create_index" /\ s[2] = h[2] /\ s[3] = h[3]
        \/ s[1] = "push" /\ s[2] = h[3] /\ s[3] = now + Ttl
    BY <1>6 DEF LeftBy, s
  <2>3. now + Ttl \in Nat
    BY <1>1, TtlAssumption
  <2>4. QED BY <1>3, <2>1, <2>2, <2>3 DEF StepOK, OfTok, OfSec, OfLease, s
<1>7. CASE h[1] = "renew_token"
  <2>1. h[2] \in UsedTok
    BY <1>2, <1>7 DEF OfTok
  <2>2. s[1] = "renewed" /\ s[2] = h[2]
    BY <1>7 DEF LeftBy, s
  <2>3. QED BY <2>1, <2>2 DEF StepOK, OfTok, OfSec, OfLease, s
<1>8. CASE h[1] = "revoke_tree"
  <2>1. h[2] \in UsedTok
    BY <1>2, <1>8 DEF OfTok
  <2>2. CASE s[1] = "revoke_tree" /\ <<h[2], s[2]>> \in children
    <3>1. s[2] \in UsedTok
      BY <1>1, <2>2
    <3>2. QED BY <2>2, <3>1 DEF StepOK, OfTok, OfSec, OfLease, s
  <2>3. CASE s[1] = "revoke" /\ s[2] = h[2]
    BY <2>1, <2>3 DEF StepOK, OfTok, OfSec, OfLease, s
  <2>4. CASE s[1] = "done" /\ s[2] = Covered(h[2])
    <3>1. Covered(h[2]) \subseteq Used
      BY <1>1, <1>3 DEF Covered
    <3>2. QED BY <3>1, <2>4 DEF StepOK, OfTok, OfSec, OfLease, s
  <2>5. QED BY <1>8, <2>2, <2>3, <2>4 DEF LeftBy, s
<1>9. CASE h[1] = "revoke"
  <2>1. h[2] \in UsedTok
    BY <1>2, <1>9 DEF OfTok
  <2>2. CASE s[1] \in {"delete", "revoke_by_token"} /\ s[2] = h[2]
    BY <2>1, <2>2 DEF StepOK, OfTok, OfSec, OfLease, s
  <2>3. CASE /\ s[1] = "deleteParent" /\ s[3] = h[2]
             /\ entry[h[2]] # None /\ s[2] = entry[h[2]].parent /\ s[2] # None
    <3>1. EntryOK(entry[h[2]])
      BY <1>1, <1>3, <2>1, <2>3
    <3>2. s[2] \in UsedTok
      BY <3>1, <2>3 DEF EntryOK, Entry, UsedTok
    <3>3. QED BY <2>1, <2>3, <3>2 DEF StepOK, OfTok, OfSec, OfLease, s
  <2>4. CASE s[1] = "done" /\ s[2] = {x \in Sec : <<h[2], x>> \in index}
    <3>1. s[2] \subseteq Used
      BY <1>1, <1>3, <2>4
    <3>2. QED BY <3>1, <2>4 DEF StepOK, OfTok, OfSec, OfLease, s
  <2>5. QED BY <1>9, <2>2, <2>3, <2>4 DEF LeftBy, s
<1>10. CASE h[1] = "revoke_by_token"
  <2>1. s[1] = "revoke_lease_id" /\ s[2] \in Sec /\ <<h[2], s[2]>> \in index
    BY <1>10 DEF LeftBy, s
  <2>2. s[2] \in Used
    BY <1>1, <1>3, <2>1
  <2>3. s[3] \in BOOLEAN
    BY <1>10 DEF LeftBy, s
  <2>4. QED BY <2>1, <2>2, <2>3 DEF StepOK, OfTok, OfSec, OfLease, s
<1>11. CASE h[1] = "revoke_lease_id"
  <2>1. h[2] \in Used
    BY <1>11 DEF StepOK, OfLease
  <2>2. CASE s[1] = "revoke_tree" /\ s[2] = h[2] /\ h[2] \in Tok
    BY <2>1, <2>2 DEF StepOK, OfTok, OfSec, OfLease, s, UsedTok, Used
  <2>3. CASE s[1] = "delete_lease_entry" /\ s[2] = h[2]
    BY <2>1, <2>3 DEF StepOK, OfTok, OfSec, OfLease, s
  <2>4. CASE /\ s[1] = "remove_index" /\ s[3] = h[2] /\ h[2] \notin Tok
             /\ lease[h[2]] # None /\ s[2] = lease[h[2]].token
    <3>1. h[2] \in UsedSec /\ h[2] \in Lease
      BY <2>1, <2>4 DEF UsedSec, Used, Lease
    <3>2. s[2] \in UsedTok
      BY <1>1, <3>1, <2>4
    <3>3. QED BY <2>4, <3>1, <3>2 DEF StepOK, OfTok, OfSec, OfLease, s
  <2>5. CASE s[1] = "push" /\ s[2] = h[2] /\ s[3] = 0
    BY <2>1, <2>5 DEF StepOK, OfTok, OfSec, OfLease, s
  <2>6. QED BY <1>11, <2>2, <2>3, <2>4, <2>5 DEF LeftBy, s
<1>12. QED BY <1>4, <1>5, <1>6, <1>7, <1>8, <1>9, <1>10, <1>11 DEF LeftBy

(* Steps and what they became. *)
After(p, st) ==
  LET h == Head(work[p]) IN
    /\ Moved(p, st) /\ 1 \in DOMAIN work[p] /\ work[p][1] = h /\ StepOK(h)
    /\ \A i \in DOMAIN st : LeftBy(h, st, i)
    /\ \A q \in Proc : \A i \in DOMAIN work'[q] :
         \/ q # p /\ i \in DOMAIN work[q] /\ work'[q][i] = work[q][i]
         \/ q = p /\ i \in DOMAIN st /\ work'[q][i] = st[i]
         \/ q = p /\ \E k \in DOMAIN work[p] :
              k > 1 /\ i = k - 1 + Len(st) /\ work'[q][i] = work[p][k]

LEMMA StepsAfter ==
  ASSUME NEW S, Typed(S), NEW p \in Proc, NEW st, Takes(p, st)
  PROVE  work' \in [Proc -> Seq(S \cup Elems(st))] /\ After(p, st)
<1>1. work \in [Proc -> Seq(S)] /\ work[p] # <<>> /\ st \in Seq(Elems(st)) /\ Then(p, st)
  BY DEF Typed, Takes, IsWork
<1>2. work' \in [Proc -> Seq(S \cup Elems(st))] /\ Moved(p, st)
  BY <1>1, ThenMoves
<1>3. work[p][1] = Head(work[p]) /\ StepOK(Head(work[p]))
  BY <1>1, HeadOK
<1>4. \A i \in DOMAIN st : LeftBy(Head(work[p]), st, i)
  BY DEF Takes
<1>5. ASSUME NEW q \in Proc, NEW i \in DOMAIN work'[q]
      PROVE  \/ q # p /\ i \in DOMAIN work[q] /\ work'[q][i] = work[q][i]
             \/ q = p /\ i \in DOMAIN st /\ work'[q][i] = st[i]
             \/ q = p /\ \E k \in DOMAIN work[p] :
                  k > 1 /\ i = k - 1 + Len(st) /\ work'[q][i] = work[p][k]
  <2>1. CASE q # p
    BY <2>1, <1>2 DEF Moved
  <2>2. CASE q = p /\ i \in DOMAIN st
    BY <2>2, <1>2, <1>4 DEF Moved
  <2>3. CASE q = p /\ i \notin DOMAIN st
    <3>1. PICK k \in DOMAIN work[p] : k > 1 /\ i = k - 1 + Len(st)
      BY <2>3, <1>2 DEF Moved
    <3>2. work'[p][i] = work[p][k]
      BY <3>1, <1>2 DEF Moved
    <3>3. QED BY <3>1, <3>2, <2>3
  <2>4. QED BY <2>1, <2>2, <2>3
<1>6. 1 \in DOMAIN work[p]
  BY <1>2 DEF Moved
<1>7. QED BY <1>2, <1>3, <1>4, <1>5, <1>6 DEF After

(* The steps before an old step are still before it, and so are the new ones. *)
LEMMA StepsBefore ==
  ASSUME NEW p, NEW st, Moved(p, st), NEW k \in DOMAIN work[p], k > 1
  PROVE  /\ k - 1 + Len(st) \in DOMAIN work'[p] /\ work'[p][k - 1 + Len(st)] = work[p][k]
         /\ \A i \in DOMAIN st :
              i \in DOMAIN work'[p] /\ i < k - 1 + Len(st) /\ work'[p][i] = st[i]
         /\ \A j \in DOMAIN work[p] : j < k =>
              \/ j = 1
              \/ /\ j > 1 /\ j - 1 + Len(st) \in DOMAIN work'[p]
                 /\ j - 1 + Len(st) < k - 1 + Len(st)
                 /\ work'[p][j - 1 + Len(st)] = work[p][j]
<1>1. p \in Proc /\ Len(st) \in Nat /\ DOMAIN st = 1..Len(st) /\ DOMAIN work[p] \subseteq Nat \ {0}
  BY DEF Moved
<1>2. k - 1 + Len(st) \in DOMAIN work'[p] /\ work'[p][k - 1 + Len(st)] = work[p][k]
  BY DEF Moved
<1>3. ASSUME NEW i \in DOMAIN st
      PROVE  i \in DOMAIN work'[p] /\ i < k - 1 + Len(st) /\ work'[p][i] = st[i]
  <2>1. i < k - 1 + Len(st)
    BY <1>1
  <2>2. QED BY <2>1 DEF Moved
<1>4. ASSUME NEW j \in DOMAIN work[p], j < k, j # 1
      PROVE  /\ j > 1 /\ j - 1 + Len(st) \in DOMAIN work'[p]
             /\ j - 1 + Len(st) < k - 1 + Len(st)
             /\ work'[p][j - 1 + Len(st)] = work[p][j]
  <2>1. j > 1 /\ j - 1 + Len(st) < k - 1 + Len(st)
    BY <1>1, <1>4
  <2>2. QED BY <2>1 DEF Moved
<1>5. QED BY <1>2, <1>3, <1>4

LEMMA StepStays ==
  ASSUME NEW s, fresh' \subseteq fresh, StepOK(s)
  PROVE  StepOK(s)'
<1>1. UsedTok \subseteq UsedTok' /\ UsedSec \subseteq UsedSec' /\ Used \subseteq Used'
  BY DEF UsedTok, UsedSec, Used
<1>2. \A e : EntryOK(e) => EntryOK(e)'
  BY DEF EntryOK, Entry
<1>3. QED BY <1>1, <1>2 DEF StepOK, OfTok, OfSec, OfLease

(* The stores' types, one by one. *)
LEMMA StoresTaken ==
  ASSUME NEW S, Typed(S), NEW p \in Proc, NEW st, Takes(p, st)
  PROVE  Stores'
<1> DEFINE h == Head(work[p])
<1>1. Changes(h) /\ StepOK(h) /\ Stores
  BY StepsAfter DEF Takes, Typed, After
<1>2. HistoryMoves(h)
  BY <1>1 DEF Changes
<1>3. fresh' = fresh /\ now' = now /\ locked' = locked /\ chosen' = chosen /\ ops' = ops
      /\ faults' = faults /\ created' = created
  BY <1>2 DEF HistoryMoves
<1>4. UsedTok' = UsedTok /\ UsedSec' = UsedSec /\ Used' = Used /\ \A e : EntryOK(e)' <=> EntryOK(e)
  BY <1>3 DEF UsedTok, UsedSec, Used, EntryOK
<1>5. now \in Nat /\ now + Ttl \in Nat /\ now + Ttl > 0
  BY <1>1, TtlAssumption, BoundAssumption DEF Stores, TypeOK
<1>6. UsedTok \subseteq Tok /\ UsedSec \subseteq Sec /\ Used \subseteq Lease /\ Tok \subseteq Lease
      /\ Sec \subseteq Lease /\ UsedTok \cap fresh = {} /\ UsedSec \cap fresh = {}
      /\ Lease = Tok \cup Sec
  BY DEF UsedTok, UsedSec, Used, Lease
<1>7. /\ entry' \in [Tok -> Entry \cup {None}]
      /\ \A t \in Tok : entry'[t] # None => t \in UsedTok /\ EntryOK(entry'[t])
  <2>1. /\ entry \in [Tok -> Entry \cup {None}]
        /\ \A t \in Tok : entry[t] # None => t \in UsedTok /\ EntryOK(entry[t])
    BY <1>1 DEF Stores, TypeOK
  <2>2. EntriesMove(h)
    BY <1>1 DEF Changes
  <2>3. CASE h[1] = "putId"
    <3>1. h[2] \in UsedTok /\ EntryOK(h[3])
      BY <1>1, <2>3 DEF StepOK, OfTok
    <3>2. entry' = [entry EXCEPT ![h[2]] = h[3]]
      BY <2>2, <2>3 DEF EntriesMove
    <3> HIDE DEF h
    <3>3. h[3] \in Entry /\ h[2] \in Tok
      BY <3>1, <1>6 DEF EntryOK
    <3>4. QED BY <2>1, <3>1, <3>2, <3>3
  <2>4. CASE h[1] = "delete"
    <3>1. entry' = [entry EXCEPT ![h[2]] = None]
      BY <2>2, <2>4 DEF EntriesMove
    <3>2. QED BY <2>1, <3>1
  <2>5. CASE h[1] \notin {"putId", "delete"}
    BY <2>1, <2>2, <2>5 DEF EntriesMove
  <2>6. QED BY <2>3, <2>4, <2>5
<1>8. children' \subseteq UsedTok \X UsedTok
  <2>1. children \subseteq UsedTok \X UsedTok /\ ChildrenMove(h)
    BY <1>1 DEF Stores, Changes
  <2>2. h[1] = "putParent" => h[2] \in UsedTok /\ h[3] \in UsedTok
    BY <1>1 DEF StepOK, OfTok
  <2> HIDE DEF h
  <2>3. CASE h[1] = "putParent"
    BY <2>1, <2>2, <2>3 DEF ChildrenMove
  <2>4. CASE h[1] # "putParent"
    BY <2>1, <2>4 DEF ChildrenMove
  <2>5. QED BY <2>3, <2>4
<1>9. index' \subseteq UsedTok \X UsedSec
  <2>1. index \subseteq UsedTok \X UsedSec /\ IndexMoves(h)
    BY <1>1 DEF Stores, Changes
  <2>2. h[1] = "create_index" => h[2] \in UsedTok /\ h[3] \in UsedSec
    BY <1>1 DEF StepOK, OfTok, OfSec
  <2> HIDE DEF h
  <2>3. CASE h[1] = "create_index"
    BY <2>1, <2>2, <2>3 DEF IndexMoves
  <2>4. CASE h[1] # "create_index"
    BY <2>1, <2>4 DEF IndexMoves
  <2>5. QED BY <2>3, <2>4
<1>10. /\ lease' \in [Lease -> LeaseEntry \cup {None}]
       /\ \A l \in Lease : lease'[l] # None =>
            {l, lease'[l].token} \cap fresh = {} /\ lease'[l].expire > 0
  <2>1. /\ lease \in [Lease -> LeaseEntry \cup {None}] /\ LeasesMove(h)
        /\ \A l \in Lease : lease[l] # None =>
             {l, lease[l].token} \cap fresh = {} /\ lease[l].expire > 0
    BY <1>1 DEF Stores, TypeOK, Changes
  <2>2. CASE h[1] \in {"register_auth", "renewed"}
    <3>1. h[2] \in UsedTok
      BY <1>1, <2>2 DEF StepOK, OfTok
    <3>2. lease' = [lease EXCEPT ![h[2]] = [token |-> h[2], expire |-> now + Ttl]]
      BY <2>1, <2>2 DEF LeasesMove
    <3> HIDE DEF h
    <3>3. [token |-> h[2], expire |-> now + Ttl] \in LeaseEntry
      BY <3>1, <1>5, <1>6 DEF LeaseEntry
    <3>4. QED BY <2>1, <3>1, <3>2, <3>3, <1>5, <1>6
  <2>3. CASE h[1] = "register_secret"
    <3>1. h[2] \in UsedTok /\ h[3] \in UsedSec
      BY <1>1, <2>3 DEF StepOK, OfTok, OfSec
    <3>2. lease' = [lease EXCEPT ![h[3]] = [token |-> h[2], expire |-> now + Ttl]]
      BY <2>1, <2>3 DEF LeasesMove
    <3> HIDE DEF h
    <3>3. [token |-> h[2], expire |-> now + Ttl] \in LeaseEntry
      BY <3>1, <1>5, <1>6 DEF LeaseEntry
    <3>4. QED BY <2>1, <3>1, <3>2, <3>3, <1>5, <1>6
  <2>4. CASE h[1] = "delete_lease_entry"
    <3>1. lease' = [lease EXCEPT ![h[2]] = None]
      BY <2>1, <2>4 DEF LeasesMove
    <3>2. QED BY <2>1, <3>1
  <2>5. CASE h[1] \notin {"register_auth", "renewed", "register_secret", "delete_lease_entry"}
    BY <2>1, <2>5 DEF LeasesMove
  <2>6. QED BY <2>2, <2>3, <2>4, <2>5
<1>11. /\ queue' \in [Lease -> Nat \cup {None}]
       /\ \A l \in Lease : queue'[l] # None => l \in Used
  <2>1. /\ queue \in [Lease -> Nat \cup {None}] /\ QueueMoves(h)
        /\ \A l \in Lease : queue[l] # None => l \in Used
    BY <1>1 DEF Stores, TypeOK, Changes
  <2>2. CASE h[1] = "push"
    <3>1. h[2] \in Used /\ h[3] \in Nat
      BY <1>1, <2>2 DEF StepOK, OfLease
    <3>2. queue' = [queue EXCEPT ![h[2]] = h[3]]
      BY <2>1, <2>2 DEF QueueMoves
    <3> HIDE DEF h
    <3>3. QED BY <2>1, <3>1, <3>2, <1>6
  <2>3. CASE h[1] = "pop"
    <3>1. queue' = [queue EXCEPT ![h[2]] = None]
      BY <2>1, <2>3 DEF QueueMoves
    <3>2. QED BY <2>1, <3>1
  <2>4. CASE h[1] \notin {"push", "pop"}
    BY <2>1, <2>4 DEF QueueMoves
  <2>5. QED BY <2>2, <2>3, <2>4
<1>12. given' \subseteq given \cup UsedTok /\ raced' \subseteq raced \cup UsedTok
  <2>1. h[1] \in {"give", "renewed"} => h[2] \in UsedTok
    BY <1>1 DEF StepOK, OfTok
  <2> HIDE DEF h
  <2>2. QED BY <1>2, <2>1 DEF HistoryMoves
<1>13. held' \subseteq Tok \ fresh' /\ created' \cup raced' \subseteq Lease
  <2>1. held \subseteq Tok \ fresh /\ created \cup raced \subseteq Lease
    BY <1>1 DEF Stores, TypeOK
  <2>2. QED BY <2>1, <1>3, <1>6, <1>12 DEF held
<1>14. children \subseteq Tok \X Tok /\ locked \in BOOLEAN /\ now \in 1..MaxTime /\ fresh \subseteq Lease
       /\ ops \in Nat /\ faults \in Nat
  BY <1>1 DEF Stores, TypeOK
<1>15. children' \subseteq Tok \X Tok /\ index' \subseteq Tok \X Sec
  BY <1>6, <1>8, <1>9
<1>16. TypeOK'
  BY <1>3, <1>7, <1>10, <1>11, <1>13, <1>14, <1>15 DEF TypeOK
<1>17. QED
  BY <1>3, <1>4, <1>7, <1>8, <1>9, <1>10, <1>11, <1>13, <1>14, <1>16 DEF Stores

LEMMA ThreadsTaken ==
  ASSUME NEW S, Typed(S), NEW p \in Proc, NEW st, Takes(p, st)
  PROVE  Threads'
<1> DEFINE h == Head(work[p])
<1>0. /\ Moved(p, st) /\ work[p][1] = h /\ 1 \in DOMAIN work[p] /\ work[p] # <<>>
      /\ \A q \in Proc : \A i \in DOMAIN work'[q] :
           \/ q # p /\ i \in DOMAIN work[q] /\ work'[q][i] = work[q][i]
           \/ q = p /\ i \in DOMAIN st /\ work'[q][i] = st[i] /\ LeftBy(h, st, i)
           \/ q = p /\ \E k \in DOMAIN work[p] :
                k > 1 /\ i = k - 1 + Len(st) /\ work'[q][i] = work[p][k]
  <2>1. After(p, st) /\ work[p] # <<>>
    BY StepsAfter DEF Takes
  <2>2. QED BY <2>1 DEF After
<1>1. Threads /\ HistoryMoves(h)
  BY DEF Typed, Takes, Changes
<1> HIDE DEF h
<1>2. ASSUME NEW i \in DOMAIN work'[Checker] PROVE work'[Checker][i][1] \in CheckerOps
  <2>1. \A k \in DOMAIN work[Checker] : work[Checker][k][1] \in CheckerOps
    BY <1>1 DEF Threads
  <2>2. CASE p = Checker /\ i \in DOMAIN st /\ work'[p][i] = st[i] /\ LeftBy(h, st, i)
    <3>1. h[1] \in CheckerOps
      BY <2>1, <2>2, <1>0
    <3>2. QED BY <3>1, <2>2 DEF LeftBy, CheckerOps
  <2>3. QED BY <1>0, <2>1, <2>2 DEF Proc
<1>3. work'[Checker] # <<>> => locked'
  BY <1>0, <1>1 DEF Threads, HistoryMoves, Moved, Proc
<1>4. ASSUME NEW q \in Callers PROVE Ordered(work'[q]) /\ (q > ops' => work'[q] = <<>>)
  <2>0. q \in Proc /\ Ordered(work[q]) /\ (q > ops => work[q] = <<>>)
    BY <1>1 DEF Threads, Proc
  <2>1. CASE q # p
    BY <2>0, <2>1, <1>0, <1>1 DEF Moved, HistoryMoves
  <2>2. CASE q = p
    <3>1. q > ops' => work'[q] = <<>>
      BY <2>0, <2>2, <1>0, <1>1 DEF HistoryMoves
    <3>2. ASSUME NEW i \in DOMAIN work'[q], work'[q][i][1] \in Refusing,
                 NEW j \in DOMAIN work'[q], j > i
          PROVE  work'[q][j][1] \notin {"push", "create_index"}
      <4>1. \/ i \in DOMAIN st /\ work'[q][i] = st[i] /\ LeftBy(h, st, i)
            \/ \E k \in DOMAIN work[p] : k > 1 /\ i = k - 1 + Len(st) /\ work'[q][i] = work[p][k]
        BY <1>0, <2>0, <2>2
      <4>2. \/ j \in DOMAIN st /\ work'[q][j] = st[j] /\ LeftBy(h, st, j)
            \/ \E k \in DOMAIN work[p] : k > 1 /\ j = k - 1 + Len(st) /\ work'[q][j] = work[p][k]
        BY <1>0, <2>0, <2>2
      <4>3. \A k \in DOMAIN work[p] : work[p][k][1] \in Refusing =>
              \A n \in DOMAIN work[p] : n > k => work[p][n][1] \notin {"push", "create_index"}
        BY <2>0, <2>2 DEF Ordered
      <4>4. CASE i \in DOMAIN st /\ work'[q][i] = st[i] /\ LeftBy(h, st, i)
        <5>1. h[1] = "renew_token"
          BY <3>2, <4>4 DEF LeftBy, Refusing
        <5>2. CASE j \in DOMAIN st /\ work'[q][j] = st[j] /\ LeftBy(h, st, j)
          BY <5>1, <5>2 DEF LeftBy
        <5>3. CASE \E k \in DOMAIN work[p] : k > 1 /\ work'[q][j] = work[p][k]
          BY <5>1, <5>3, <4>3, <1>0 DEF Refusing
        <5>4. QED BY <4>2, <5>2, <5>3
      <4>5. CASE \E k \in DOMAIN work[p] : k > 1 /\ i = k - 1 + Len(st) /\ work'[q][i] = work[p][k]
        <5>1. PICK k \in DOMAIN work[p] : k > 1 /\ i = k - 1 + Len(st) /\ work'[q][i] = work[p][k]
          BY <4>5
        <5>2. \A n \in DOMAIN st : n < i
          BY <5>1, <1>0, StepsBefore
        <5>3. /\ Len(st) \in Nat /\ DOMAIN work[p] \subseteq Nat \ {0} /\ DOMAIN work'[p] \subseteq Int
              /\ DOMAIN st \subseteq Int
          <6>1. DOMAIN st \subseteq Int /\ Len(st) \in Nat /\ DOMAIN work[p] \subseteq Nat \ {0}
            BY <1>0 DEF Moved
          <6>2. \A n \in DOMAIN work'[p] : n \in Int
            BY <1>0, <6>1
          <6>3. QED BY <6>1, <6>2
        <5>4. j \notin DOMAIN st
          BY <5>2, <5>3, <5>1, <3>2
        <5>5. PICK n \in DOMAIN work[p] : n > 1 /\ j = n - 1 + Len(st) /\ work'[q][j] = work[p][n]
          BY <4>2, <5>4
        <5>6. n > k
          BY <3>2, <5>1, <5>3, <5>5
        <5>7. QED BY <3>2, <4>3, <5>1, <5>5, <5>6
      <4>6. QED BY <4>1, <4>4, <4>5
    <3>3. QED BY <3>1, <3>2 DEF Ordered
  <2>3. QED BY <2>1, <2>2
<1>5. QED BY <1>2, <1>3, <1>4 DEF Threads

LEMMA TypedTaken ==
  ASSUME NEW S, Typed(S), NEW p \in Proc, NEW st, Takes(p, st)
  PROVE  \E S2 : Typed(S2)'
<1> DEFINE S2 == S \cup Elems(st)
<1>1. fresh' = fresh
  BY DEF Takes, Changes, HistoryMoves
<1>2. \A s \in S : StepOK(s)
  BY DEF Typed
<1>3. \A i \in DOMAIN st : StepOK(st[i])
  BY StepsAfter, LeftOK DEF Takes, Typed
<1>4. \A s \in S2 : StepOK(s)
  BY <1>2, <1>3 DEF Elems
<1>5. \A s \in S2 : StepOK(s)'
  BY <1>1, <1>4, StepStays
<1>6. work' \in [Proc -> Seq(S2)]
  BY StepsAfter
<1>7. Stores' /\ Threads'
  BY StoresTaken, ThreadsTaken
<1> HIDE DEF S2
<1>8. Typed(S2)'
  BY <1>5, <1>6, <1>7 DEF Typed
<1>9. QED BY <1>8

-----------------------------------------------------------------------------
(* What else happens.                                                       *)

(* Task p stops with an error, of a storage operation or of its own. *)
Dropped(p) ==
  /\ p \in Proc /\ work[p] # <<>> /\ Refuse(p)
  /\ UNCHANGED <<storage, queue, now, fresh, chosen, given, created, ops, raced>>
  /\ \/ Head(work[p])[1] \in Refusing /\ UNCHANGED <<locked, faults, broken>>
     \/ /\ Head(work[p])[1] \in Writes
        /\ locked' = (locked /\ p # Checker) /\ faults' = faults + 1 /\ broken' = TRUE

LEMMA Drop ==
  ASSUME NEW p \in Proc, Stops(p) \/ Fail(p)
  PROVE  Dropped(p)
<1>1. CASE Stops(p)
  BY <1>1 DEF Stops, Dropped, ghosts
<1>2. CASE Fail(p)
  BY <1>2 DEF Fail, At, Dropped
<1>3. QED BY <1>1, <1>2

(* The checker turns to lease l. *)
Peeks(l, st) ==
  /\ locked /\ work[Checker] = <<>> /\ Soonest(l) /\ queue[l] <= now
  /\ IsWork(st) /\ work' = [work EXCEPT ![Checker] = st]
  /\ UNCHANGED <<storage, queue, locked, now, ghosts>>
  /\ queue[l] = 0 => DOMAIN st = {1} /\ st[1] = <<"pop", l>>
  /\ queue[l] # 0 =>
       /\ DOMAIN st = {1, 2} /\ st[2] = <<"pop", l>>
       /\ st[1][1] = "revoke_lease_id" /\ st[1][2] = l /\ st[1][3] = FALSE

(* The lock is taken, or left by a checker that has nothing to do. *)
Locks ==
  /\ UNCHANGED <<storage, queue, now, work, ghosts>>
  /\ \/ locked' = TRUE
     \/ locked' = FALSE /\ work[Checker] = <<>>

LEMMA PeekCases ==
  ASSUME CheckerPeek
  PROVE  Locks \/ \E l \in Lease : \E st : Peeks(l, st)
<1>1. CASE locked' = FALSE /\ UNCHANGED work
  BY <1>1 DEF CheckerPeek, Locks
<1>2. CASE \E l \in Lease :
             /\ Soonest(l) /\ queue[l] <= now
             /\ work' = [work EXCEPT ![Checker] =
                  (IF queue[l] = 0 THEN <<>> ELSE <<<<"revoke_lease_id", l, FALSE>>>>)
                  \o <<<<"pop", l>>>>]
             /\ UNCHANGED locked
  <2>1. PICK l \in Lease :
             /\ Soonest(l) /\ queue[l] <= now
             /\ work' = [work EXCEPT ![Checker] =
                  (IF queue[l] = 0 THEN <<>> ELSE <<<<"revoke_lease_id", l, FALSE>>>>)
                  \o <<<<"pop", l>>>>]
             /\ UNCHANGED locked
    BY <1>2
  <2>2. locked /\ work[Checker] = <<>> /\ UNCHANGED <<storage, queue, locked, now, ghosts>>
    BY <2>1 DEF CheckerPeek
  <2> DEFINE a == <<"revoke_lease_id", l, FALSE>> b == <<"pop", l>>
  <2>3. a[1] = "revoke_lease_id" /\ a[2] = l /\ a[3] = FALSE
    OBVIOUS
  <2>4. CASE queue[l] = 0
    <3>1. work' = [work EXCEPT ![Checker] = <<b>>]
      BY <2>1, <2>4
    <3>2. IsWork(<<b>>) /\ DOMAIN <<b>> = {1} /\ <<b>>[1] = b
      BY Short1
    <3>3. Peeks(l, <<b>>)
      BY <2>1, <2>2, <2>4, <3>1, <3>2 DEF Peeks
    <3>4. QED BY <3>3
  <2>5. CASE queue[l] # 0
    <3>1. work' = [work EXCEPT ![Checker] = <<a>> \o <<b>>]
      BY <2>1, <2>5
    <3> HIDE DEF a
    <3>2. <<a>> \o <<b>> = <<a, b>>
      BY Cat11
    <3>3. IsWork(<<a, b>>) /\ DOMAIN <<a, b>> = {1, 2} /\ <<a, b>>[1] = a /\ <<a, b>>[2] = b
      BY Short2
    <3>4. Peeks(l, <<a, b>>)
      BY <2>1, <2>2, <2>3, <2>5, <3>1, <3>2, <3>3 DEF Peeks
    <3>5. QED BY <3>4
  <2>6. QED BY <2>4, <2>5
<1>3. QED BY <1>1, <1>2 DEF CheckerPeek

LEMMA TickLocks ==
  ASSUME CheckerTick PROVE Locks
BY DEF CheckerTick, Locks

LEMMA TypedDropped ==
  ASSUME NEW S, Typed(S), NEW p \in Proc, Dropped(p)
  PROVE  Typed(S)'
<1>1. work' = [work EXCEPT ![p] = <<>>] /\ work \in [Proc -> Seq(S)] /\ Stores /\ Threads
  BY DEF Dropped, Refuse, Typed
<1>2. work' \in [Proc -> Seq(S)]
  BY <1>1
<1>3. UNCHANGED <<entry, children, lease, index, queue, now, fresh, chosen, given, created, ops, raced>>
  BY DEF Dropped, storage
<1>4. \A s \in S : StepOK(s)'
  BY <1>3, StepStays DEF Typed
<1>5. locked' \in BOOLEAN /\ faults' \in Nat /\ (p # Checker => locked' = locked)
  <2>1. locked \in BOOLEAN /\ faults \in Nat
    BY <1>1 DEF Stores, TypeOK
  <2>2. \/ locked' = locked /\ faults' = faults
        \/ locked' = (locked /\ p # Checker) /\ faults' = faults + 1
    BY DEF Dropped
  <2>3. CASE locked' = locked /\ faults' = faults
    BY <2>1, <2>3
  <2>4. CASE locked' = (locked /\ p # Checker) /\ faults' = faults + 1
    <3>1. p # Checker => locked' = locked
      BY <2>1, <2>4
    <3>2. locked' \in BOOLEAN
      BY <2>4
    <3>3. QED BY <2>1, <2>4, <3>1, <3>2
  <2>5. QED BY <2>2, <2>3, <2>4
<1>6. Stores'
  BY <1>1, <1>3, <1>5 DEF Stores, TypeOK, held, UsedTok, UsedSec, Used, EntryOK
<1>7. Threads'
  <2>1. \A i \in DOMAIN work'[Checker] : work'[Checker][i][1] \in CheckerOps
    BY <1>1 DEF Threads
  <2>2. work'[Checker] # <<>> => locked'
    BY <1>1, <1>5 DEF Threads
  <2>3. \A q \in Callers : Ordered(work'[q]) /\ (q > ops' => work'[q] = <<>>)
    <3>1. Ordered(<<>>)
      BY DEF Ordered
    <3>2. \A q \in Callers : work'[q] = work[q] \/ work'[q] = <<>>
      BY <1>1 DEF Proc
    <3>3. QED BY <1>1, <1>3, <3>1, <3>2 DEF Threads
  <2>4. QED BY <2>1, <2>2, <2>3 DEF Threads
<1>8. QED BY <1>2, <1>4, <1>6, <1>7 DEF Typed

LEMMA TypedLocks ==
  ASSUME NEW S, Typed(S), Locks
  PROVE  Typed(S)'
<1>1. UNCHANGED <<entry, children, lease, index, queue, now, fresh, chosen, given, created, ops, raced,
                  faults, work>> /\ locked' \in BOOLEAN
  BY DEF Locks, storage, ghosts
<1>2. \A s \in S : StepOK(s)'
  BY <1>1, StepStays DEF Typed
<1>3. Stores'
  BY <1>1 DEF Typed, Stores, TypeOK, held, UsedTok, UsedSec, Used, EntryOK
<1>4. Threads'
  BY <1>1 DEF Typed, Threads, Locks
<1>5. QED BY <1>1, <1>2, <1>3, <1>4 DEF Typed

LEMMA TypedPeeks ==
  ASSUME NEW S, Typed(S), NEW l \in Lease, NEW st, Peeks(l, st)
  PROVE  Typed(S \cup Elems(st))'
<1>1. /\ UNCHANGED <<entry, children, lease, index, queue, locked, now, fresh, chosen, given, created,
                     ops, raced, faults>>
      /\ work' = [work EXCEPT ![Checker] = st] /\ st \in Seq(Elems(st))
  BY DEF Peeks, storage, ghosts, IsWork
<1>2. work \in [Proc -> Seq(S)] /\ \A s \in S : StepOK(s)
  BY DEF Typed
<1>3. work' \in [Proc -> Seq(S \cup Elems(st))]
  <2>1. \A w : w \in Seq(S) => w \in Seq(S \cup Elems(st))
    OBVIOUS
  <2>2. st \in Seq(S \cup Elems(st))
    BY <1>1
  <2>3. QED BY <1>1, <1>2, <2>1, <2>2
<1>4. \A i \in DOMAIN st :
        \/ st[i][1] = "pop" /\ st[i][2] = l
        \/ st[i][1] = "revoke_lease_id" /\ st[i][2] = l /\ st[i][3] = FALSE
  BY DEF Peeks
<1>5. l \in Used
  BY DEF Typed, Stores, Peeks, Soonest, Queued
<1>6. \A i \in DOMAIN st : StepOK(st[i])
  BY <1>4, <1>5 DEF StepOK, OfTok, OfSec, OfLease
<1>7. \A s \in S \cup Elems(st) : StepOK(s)'
  BY <1>1, <1>2, <1>6, StepStays DEF Elems
<1>8. Stores'
  BY <1>1 DEF Typed, Stores, TypeOK, held, UsedTok, UsedSec, Used, EntryOK
<1>9. Threads'
  <2>1. work'[Checker] = st /\ \A q \in Callers : work'[q] = work[q]
    BY <1>1, <1>2, ProcAssumption DEF Proc
  <2>2. \A i \in DOMAIN st : st[i][1] \in CheckerOps
    BY <1>4 DEF CheckerOps
  <2>3. locked'
    BY <1>1 DEF Peeks
  <2>4. QED BY <2>1, <2>2, <2>3, <1>1 DEF Typed, Threads
<1>10. QED BY <1>3, <1>7, <1>8, <1>9 DEF Typed

LEMMA TypedAsks ==
  ASSUME NEW S, Typed(S), NEW p, NEW st, NEW ids, Asks(p, st, ids)
  PROVE  Typed(S \cup Elems(st))'
<1>1. /\ UNCHANGED <<entry, children, lease, index, queue, locked, now, given, raced, faults>>
      /\ work' = [work EXCEPT ![p] = st] /\ st \in Seq(Elems(st)) /\ p \in Callers /\ p = ops + 1
      /\ fresh' = fresh \ ids /\ ids \subseteq fresh /\ ops' = ops + 1
      /\ chosen' \subseteq chosen \cup (ids \cap Tok) /\ created' \subseteq created \cup ids
      /\ \A i \in DOMAIN st : AskOK(st, i, ids)
  BY DEF Asks, storage, IsWork
<1>2. work \in [Proc -> Seq(S)] /\ (\A s \in S : StepOK(s)) /\ Stores /\ Threads
  BY DEF Typed
<1>3. work' \in [Proc -> Seq(S \cup Elems(st))]
  <2>1. \A w : w \in Seq(S) => w \in Seq(S \cup Elems(st))
    OBVIOUS
  <2>2. st \in Seq(S \cup Elems(st))
    BY <1>1
  <2>3. QED BY <1>1, <1>2, <2>1, <2>2
<1>4. /\ held \subseteq UsedTok /\ UsedTok \subseteq UsedTok' /\ UsedSec \subseteq UsedSec'
      /\ Used \subseteq Used' /\ ids \cap Tok \subseteq UsedTok' /\ ids \cap Sec \subseteq UsedSec'
      /\ None \notin fresh /\ UsedTok \cap fresh = {} /\ fresh \subseteq Lease
  BY <1>1, <1>2, NoneAssumption, RootAssumption
     DEF Stores, TypeOK, UsedTok, UsedSec, Used, Lease
<1>5. ASSUME NEW i \in DOMAIN st PROVE StepOK(st[i])'
  <2> DEFINE s == st[i] op == s[1]
  <2>1. AskOK(st, i, ids)
    BY <1>1
  <2>2. CASE /\ op \in {"check_token", "lookupParent", "renew_token", "revoke_tree", "revoke"}
             /\ s[2] \in held
    BY <2>2, <1>4 DEF StepOK, OfTok, OfSec, OfLease
  <2>3. CASE op = "putParent" /\ s[2] \in held /\ s[3] \in ids \cap Tok
    BY <2>3, <1>4 DEF StepOK, OfTok, OfSec, OfLease
  <2>4. CASE op = "putId" /\ s[2] \in ids \cap Tok /\ s[3] \in Entry /\ s[3].parent \in held \cup {None}
    <3>1. s[3].parent \notin fresh'
      BY <2>4, <1>1, <1>4
    <3>2. EntryOK(s[3])'
      BY <3>1, <2>4 DEF EntryOK, Entry
    <3>3. QED BY <2>4, <3>2, <1>4 DEF StepOK, OfTok, OfSec, OfLease
  <2>5. CASE op \in {"register_auth", "give"} /\ s[2] \in ids \cap Tok
    BY <2>5, <1>4 DEF StepOK, OfTok, OfSec, OfLease
  <2>6. CASE op = "register_secret" /\ s[2] \in held /\ s[3] \in ids \cap Sec
    BY <2>6, <1>4 DEF StepOK, OfTok, OfSec, OfLease
  <2>7. QED BY <2>1, <2>2, <2>3, <2>4, <2>5, <2>6 DEF AskOK
<1>6. \A s \in S \cup Elems(st) : StepOK(s)'
  BY <1>1, <1>2, <1>5, StepStays DEF Elems
<1>7. Stores'
  <2>1. held' \subseteq Tok \ fresh'
    BY <1>1, <1>4 DEF held, UsedTok
  <2>2. \A e : EntryOK(e) => EntryOK(e)'
    BY <1>1 DEF EntryOK, Entry
  <2>3. \A l \in Lease : lease'[l] # None => {l, lease'[l].token} \cap fresh' = {}
    BY <1>1, <1>2 DEF Stores, TypeOK
  <2>4. TypeOK'
    BY <1>1, <1>2, <2>1, <2>3 DEF Stores, TypeOK
  <2>5. /\ fresh' \subseteq Lease /\ ops' \in Nat /\ faults' \in Nat
        /\ created' \cup raced' \subseteq Lease
    BY <1>1, <1>2 DEF Stores
  <2>6. \A t \in Tok : entry'[t] # None => t \in UsedTok'
    BY <1>1, <1>2, <1>4 DEF Stores
  <2>7. /\ children' \subseteq UsedTok' \X UsedTok' /\ index' \subseteq UsedTok' \X UsedSec'
        /\ \A l \in Lease : queue'[l] # None => l \in Used'
        /\ \A l \in Lease : lease'[l] # None => lease'[l].expire > 0
    BY <1>1, <1>2, <1>4 DEF Stores
  <2>8. \A t \in Tok : entry'[t] # None => EntryOK(entry[t])'
    BY <1>1, <1>2, <2>2 DEF Stores
  <2>9. QED BY <1>1, <2>4, <2>5, <2>6, <2>7, <2>8 DEF Stores
<1>8. Threads'
  <2>1. work'[Checker] = work[Checker]
    BY <1>1, <1>2, ProcAssumption DEF Proc
  <2>2. ASSUME NEW q \in Callers PROVE Ordered(work'[q]) /\ (q > ops' => work'[q] = <<>>)
    <3>1. CASE q = p
      <4>1. work'[q] = st
        BY <3>1, <1>1, <1>2 DEF Proc
      <4>2. \A i \in DOMAIN st : st[i][1] \notin {"push", "create_index"}
        BY <1>1 DEF AskOK
      <4>3. Ordered(st)
        BY <4>2 DEF Ordered
      <4>4. ~(q > ops')
        BY <3>1, <1>1, <1>2 DEF Stores
      <4>5. QED BY <4>1, <4>3, <4>4
    <3>2. CASE q # p
      <4>1. work'[q] = work[q]
        BY <3>2, <1>1, <1>2 DEF Proc
      <4>2. q > ops' => q > ops
        BY <1>1, <1>2 DEF Stores, Callers
      <4>3. QED BY <4>1, <4>2, <1>2 DEF Threads
    <3>3. QED BY <3>1, <3>2
  <2>3. QED BY <1>1, <1>2, <2>1, <2>2 DEF Threads
<1>9. QED BY <1>3, <1>6, <1>7, <1>8 DEF Typed

LEMMA TypedTick ==
  ASSUME NEW S, Typed(S), Tick
  PROVE  Typed(S)'
<1>1. UNCHANGED <<entry, children, lease, index, queue, locked, fresh, chosen, given, created, ops, raced,
                  faults, work>>
  BY DEF Tick, storage, ghosts
<1>2. now' \in 1..MaxTime
  BY BoundAssumption DEF Tick, Typed, Stores, TypeOK
<1>3. \A s \in S : StepOK(s)'
  BY <1>1, StepStays DEF Typed
<1>4. Stores'
  BY <1>1, <1>2 DEF Typed, Stores, TypeOK, held, UsedTok, UsedSec, Used, EntryOK
<1>5. Threads'
  BY <1>1 DEF Typed, Threads
<1>6. QED BY <1>1, <1>3, <1>4, <1>5 DEF Typed

LEMMA TypedCrash ==
  ASSUME NEW S, Typed(S), Crash
  PROVE  Typed(S)'
<1>1. /\ UNCHANGED <<entry, children, lease, index, now, fresh, chosen, given, created, ops>>
      /\ work' = [p \in Proc |-> <<>>] /\ queue' = restore /\ locked' = FALSE /\ raced' = {}
      /\ faults' = faults + 1
  BY DEF Crash, storage
<1>2. work' \in [Proc -> Seq(S)] /\ \A p \in Proc : work'[p] = <<>>
  BY <1>1
<1>3. \A s \in S : StepOK(s)'
  BY <1>1, StepStays DEF Typed
<1>4. /\ \A l \in Lease : lease[l] # None => lease[l].expire \in Nat /\ l \in Used
  BY DEF Typed, Stores, TypeOK, LeaseEntry, Used
<1>5. /\ queue' \in [Lease -> Nat \cup {None}]
      /\ \A l \in Lease : queue'[l] # None => l \in Used
  BY <1>1, <1>4 DEF restore
<1>6. TypeOK'
  BY <1>1, <1>5 DEF Typed, Stores, TypeOK, held
<1>7. faults' \in Nat /\ created' \cup raced' \subseteq Lease
  BY <1>1 DEF Typed, Stores
<1>8. Stores'
  BY <1>1, <1>5, <1>6, <1>7 DEF Typed, Stores, UsedTok, UsedSec, Used, EntryOK
<1>9. Threads'
  BY <1>2 DEF Threads, Ordered, Proc
<1>10. QED BY <1>2, <1>3, <1>8, <1>9 DEF Typed

-----------------------------------------------------------------------------
(* Where steps are after a task has taken one.                              *)

Place(p, st, q, k) == IF q = p THEN k - 1 + Len(st) ELSE k

LEMMA Sources ==
  ASSUME NEW p, NEW st, After(p, st), NEW q \in Proc, NEW i \in DOMAIN work'[q]
  PROVE  \/ q = p /\ i \in DOMAIN st /\ work'[q][i] = st[i] /\ LeftBy(Head(work[p]), st, i)
         \/ \E k \in DOMAIN work[q] :
              (q = p => k > 1) /\ i = Place(p, st, q, k) /\ work'[q][i] = work[q][k]
<1>1. /\ \A n \in DOMAIN st : LeftBy(Head(work[p]), st, n)
      /\ \/ q # p /\ i \in DOMAIN work[q] /\ work'[q][i] = work[q][i]
         \/ q = p /\ i \in DOMAIN st /\ work'[q][i] = st[i]
         \/ q = p /\ \E k \in DOMAIN work[p] :
              k > 1 /\ i = k - 1 + Len(st) /\ work'[q][i] = work[p][k]
  BY DEF After
<1>2. CASE q # p /\ i \in DOMAIN work[q] /\ work'[q][i] = work[q][i]
  BY <1>2 DEF Place
<1>3. CASE q = p /\ i \in DOMAIN st /\ work'[q][i] = st[i]
  BY <1>1, <1>3
<1>4. CASE q = p /\ \E k \in DOMAIN work[p] :
              k > 1 /\ i = k - 1 + Len(st) /\ work'[q][i] = work[p][k]
  BY <1>4 DEF Place
<1>5. QED BY <1>1, <1>2, <1>3, <1>4

LEMMA Before ==
  ASSUME NEW p, NEW st, After(p, st), NEW q \in Proc, NEW k \in DOMAIN work[q], q = p => k > 1
  PROVE  /\ Place(p, st, q, k) \in DOMAIN work'[q] /\ work'[q][Place(p, st, q, k)] = work[q][k]
         /\ q = p => \A i \in DOMAIN st :
              i \in DOMAIN work'[q] /\ i < Place(p, st, q, k) /\ work'[q][i] = st[i]
         /\ \A j \in DOMAIN work[q] : j < k =>
              \/ q = p /\ j = 1 /\ work[q][j] = Head(work[p])
              \/ /\ Place(p, st, q, j) \in DOMAIN work'[q]
                 /\ Place(p, st, q, j) < Place(p, st, q, k)
                 /\ work'[q][Place(p, st, q, j)] = work[q][j]
<1>1. Moved(p, st) /\ work[p][1] = Head(work[p])
  BY DEF After
<1>2. CASE q = p
  <2>1. \A j : Place(p, st, q, j) = j - 1 + Len(st)
    BY <1>2 DEF Place
  <2>2. k > 1
    BY <1>2
  <2>3. QED BY <1>1, <1>2, <2>1, <2>2, StepsBefore
<1>3. CASE q # p
  <2>1. \A j : Place(p, st, q, j) = j
    BY <1>3 DEF Place
  <2>2. work'[q] = work[q]
    BY <1>1, <1>3 DEF Moved
  <2>3. QED BY <1>3, <2>1, <2>2
<1>4. QED BY <1>2, <1>3


LEMMA AllOK ==
  ASSUME NEW S, Typed(S)
  PROVE  \A q \in Proc : \A i \in DOMAIN work[q] : StepOK(work[q][i])
<1> TAKE q \in Proc
<1> TAKE i \in DOMAIN work[q]
<1>1. work[q] \in Seq(S)
  BY DEF Typed
<1>2. work[q][i] \in S
  BY <1>1, LenProperties, ElementOfSeq
<1>3. QED BY <1>2 DEF Typed

(* The entry, and the lease, of one id. *)
LEMMA EntryAt ==
  ASSUME NEW S, Typed(S), NEW h, EntriesMove(h), NEW x \in Tok
  PROVE  \/ IsPut(h, x) /\ entry'[x] = h[3]
         \/ h[1] = "delete" /\ h[2] = x /\ entry'[x] = None
         \/ ~IsPut(h, x) /\ ~(h[1] = "delete" /\ h[2] = x) /\ entry'[x] = entry[x]
<1>1. entry \in [Tok -> Entry \cup {None}]
  BY DEF Typed, Stores, TypeOK
<1>2. CASE h[1] = "putId"
  BY <1>1, <1>2 DEF EntriesMove, IsPut
<1>3. CASE h[1] = "delete"
  BY <1>1, <1>3 DEF EntriesMove, IsPut
<1>4. CASE h[1] \notin {"putId", "delete"}
  BY <1>4 DEF EntriesMove, IsPut
<1>5. QED BY <1>2, <1>3, <1>4

(* Step h stores a lease of l. *)
Registering(h, l) ==
  (h[1] \in {"register_auth", "renewed"} /\ h[2] = l) \/ (h[1] = "register_secret" /\ h[3] = l)

LEMMA LeaseAt ==
  ASSUME NEW S, Typed(S), NEW h, LeasesMove(h), NEW l \in Lease
  PROVE  \/ Registering(h, l) /\ lease'[l] = [token |-> h[2], expire |-> now + Ttl]
         \/ h[1] = "delete_lease_entry" /\ h[2] = l /\ lease'[l] = None
         \/ /\ ~Registering(h, l) /\ ~(h[1] = "delete_lease_entry" /\ h[2] = l)
            /\ lease'[l] = lease[l]
<1>1. lease \in [Lease -> LeaseEntry \cup {None}]
  BY DEF Typed, Stores, TypeOK
<1>2. CASE h[1] \in {"register_auth", "renewed"}
  BY <1>1, <1>2 DEF LeasesMove, Registering
<1>3. CASE h[1] = "register_secret"
  BY <1>1, <1>3 DEF LeasesMove, Registering
<1>4. CASE h[1] = "delete_lease_entry"
  BY <1>1, <1>4 DEF LeasesMove, Registering
<1>5. CASE h[1] \notin {"register_auth", "renewed", "register_secret", "delete_lease_entry"}
  BY <1>5 DEF LeasesMove, Registering
<1>6. QED BY <1>2, <1>3, <1>4, <1>5

(* Tasks only stop, and nothing is stored. *)
Fewer ==
  /\ \A q \in Proc : work'[q] \in {work[q], <<>>}
  /\ UNCHANGED <<entry, children, lease, index, fresh, given>>

LEMMA FewerSteps ==
  ASSUME Fewer, NEW q \in Proc, NEW i \in DOMAIN work'[q]
  PROVE  work'[q] = work[q] /\ i \in DOMAIN work[q]
BY DEF Fewer

LEMMA IsFewer ==
  ASSUME NEW S, Typed(S),
         \/ \E p \in Proc : Dropped(p)
         \/ Locks \/ Tick \/ Crash
  PROVE  Fewer
<1>1. work \in [Proc -> Seq(S)]
  BY DEF Typed
<1>2. CASE \E p \in Proc : Dropped(p)
  BY <1>1, <1>2 DEF Dropped, Refuse, Fewer, storage
<1>3. CASE Locks
  BY <1>3 DEF Locks, Fewer, storage, ghosts
<1>4. CASE Tick
  BY <1>4 DEF Tick, Fewer, storage, ghosts
<1>5. CASE Crash
  BY <1>5 DEF Crash, Fewer, storage
<1>6. QED BY <1>2, <1>3, <1>4, <1>5

(* A task that had nothing to do has st to do. *)
Adds(p, st) ==
  /\ p \in Proc /\ work[p] = <<>> /\ work'[p] = st
  /\ \A q \in Proc : q # p => work'[q] = work[q]
  /\ UNCHANGED <<entry, children, lease, index, queue, locked, now, given, faults, broken, raced>>
  /\ fresh' \subseteq fresh

(* Step i of what the checker does with lease l. *)
PeekOK(st, i, l) ==
  \/ st[i][1] = "pop" /\ st[i][2] = l
  \/ st[i][1] = "revoke_lease_id" /\ st[i][2] = l /\ st[i][3] = FALSE

LEMMA AsksAdd ==
  ASSUME NEW S, Typed(S), NEW p, NEW st, NEW ids, Asks(p, st, ids)
  PROVE  /\ Adds(p, st) /\ p \in Callers /\ fresh' = fresh \ ids /\ ids \subseteq fresh
         /\ \A i \in DOMAIN st : AskOK(st, i, ids)
<1>1. work \in [Proc -> Seq(S)] /\ Threads /\ ops \in Nat
  BY DEF Typed, Stores
<1>2. /\ p \in Callers /\ p = ops + 1 /\ work' = [work EXCEPT ![p] = st] /\ p \in Proc
      /\ fresh' = fresh \ ids /\ ids \subseteq fresh
      /\ UNCHANGED <<entry, children, lease, index, queue, locked, now, given, faults, broken, raced>>
      /\ \A i \in DOMAIN st : AskOK(st, i, ids)
  BY DEF Asks, storage, Proc
<1>3. work[p] = <<>>
  <2>1. p > ops
    BY <1>1, <1>2
  <2>2. QED BY <2>1, <1>1, <1>2 DEF Threads
<1>4. work'[p] = st /\ \A q \in Proc : q # p => work'[q] = work[q]
  BY <1>1, <1>2
<1>5. QED BY <1>2, <1>3, <1>4 DEF Adds

LEMMA PeeksAdd ==
  ASSUME NEW S, Typed(S), NEW l, NEW st, Peeks(l, st)
  PROVE  Adds(Checker, st) /\ fresh' = fresh /\ \A i \in DOMAIN st : PeekOK(st, i, l)
<1>1. work \in [Proc -> Seq(S)] /\ Checker \in Proc
  BY DEF Typed, Proc
<1>2. /\ work[Checker] = <<>> /\ work' = [work EXCEPT ![Checker] = st] /\ fresh' = fresh
      /\ UNCHANGED <<entry, children, lease, index, queue, locked, now, given, faults, broken, raced>>
  BY DEF Peeks, storage, ghosts
<1>3. work'[Checker] = st /\ \A q \in Proc : q # Checker => work'[q] = work[q]
  BY <1>1, <1>2
<1>4. \A i \in DOMAIN st : PeekOK(st, i, l)
  BY DEF Peeks, PeekOK
<1>5. QED BY <1>1, <1>2, <1>3, <1>4 DEF Adds

LEMMA AddsSteps ==
  ASSUME NEW p, NEW st, Adds(p, st), NEW q \in Proc, NEW i \in DOMAIN work'[q]
  PROVE  \/ q = p /\ work'[q] = st /\ i \in DOMAIN st
         \/ q # p /\ work'[q] = work[q] /\ i \in DOMAIN work[q]
BY DEF Adds

LEMMA TakesDoes ==
  ASSUME NEW S, Typed(S), NEW p \in Proc, NEW st, Takes(p, st)
  PROVE  /\ After(p, st) /\ StepOK(Head(work[p]))
         /\ 1 \in DOMAIN work[p] /\ work[p][1] = Head(work[p])
         /\ EntriesMove(Head(work[p])) /\ ChildrenMove(Head(work[p])) /\ LeasesMove(Head(work[p]))
         /\ IndexMoves(Head(work[p])) /\ QueueMoves(Head(work[p])) /\ HistoryMoves(Head(work[p]))
         /\ Completes(Head(work[p]), st) /\ Moved(p, st)
<1>1. After(p, st)
  BY StepsAfter
<1>2. /\ StepOK(Head(work[p])) /\ 1 \in DOMAIN work[p] /\ work[p][1] = Head(work[p])
      /\ Moved(p, st)
  BY <1>1 DEF After
<1>3. Changes(Head(work[p])) /\ Completes(Head(work[p]), st)
  BY DEF Takes
<1>4. QED BY <1>1, <1>2, <1>3 DEF Changes

-----------------------------------------------------------------------------
(* Writes of entries.                                                       *)

LEMMA PutsTaken ==
  ASSUME NEW S, Typed(S), Puts, NEW p \in Proc, NEW st, Takes(p, st)
  PROVE  Puts'
<1> DEFINE h == Head(work[p])
<1>1. After(p, st) /\ EntriesMove(h) /\ StepOK(h) /\ 1 \in DOMAIN work[p] /\ work[p][1] = h
  BY TakesDoes
<1>2. \A x \in Tok :
         \/ IsPut(h, x) /\ entry'[x] = h[3]
         \/ h[1] = "delete" /\ h[2] = x /\ entry'[x] = None
         \/ ~IsPut(h, x) /\ ~(h[1] = "delete" /\ h[2] = x) /\ entry'[x] = entry[x]
  BY <1>1, EntryAt
<1>3. \A q \in Proc : \A i \in DOMAIN work'[q] :
         \/ q = p /\ i \in DOMAIN st /\ work'[q][i] = st[i] /\ LeftBy(h, st, i)
         \/ \E k \in DOMAIN work[q] :
              (q = p => k > 1) /\ i = Place(p, st, q, k) /\ work'[q][i] = work[q][k]
  BY <1>1, Sources
<1>4. \A q \in Proc : \A k \in DOMAIN work[q] : PutOK(q, k)
  BY DEF Puts
<1>5. \A q \in Proc : \A k \in DOMAIN work[q] : StepOK(work[q][k])
  BY AllOK
<1>6. \A t \in Tok : entry[t] # None => entry[t].uses \in Nat
  BY BoundAssumption DEF Typed, Stores, EntryOK, Entry
<1> HIDE DEF h
(* A write left by a use of the token. *)
<1>7. ASSUME NEW i \in DOMAIN st, LeftBy(h, st, i), st[i][1] = "putId"
      PROVE  /\ h[1] = "check_token" /\ h[2] \in Tok /\ st[i][2] = h[2]
             /\ entry[h[2]] # None /\ entry[h[2]].uses > 1 /\ st[i][3].uses # 0
             /\ entry'[h[2]] = entry[h[2]]
  <2>1. /\ h[1] = "check_token" /\ st[i][2] = h[2] /\ entry[h[2]] # None /\ entry[h[2]].uses > 1
        /\ st[i][3] = [entry[h[2]] EXCEPT !.uses = @ - 1]
    BY <1>7 DEF LeftBy
  <2>2. h[2] \in Tok
    BY <1>1, <2>1 DEF StepOK, OfTok, UsedTok
  <2>3. entry[h[2]] \in Entry
    BY <2>1, <2>2 DEF Typed, Stores, EntryOK
  <2>4. st[i][3].uses = entry[h[2]].uses - 1
    BY <2>1, <2>3 DEF Entry
  <2>5. entry'[h[2]] = entry[h[2]]
    BY <1>1, <2>1 DEF EntriesMove
  <2>6. QED BY <1>6, <2>1, <2>2, <2>4, <2>5
<1>8. ASSUME NEW q \in Proc, NEW i \in DOMAIN work'[q], work'[q][i][1] = "putId"
      PROVE  PutOK(q, i)'
  <2> DEFINE s == work'[q][i] x == s[2]
  <2>1. CASE q = p /\ i \in DOMAIN st /\ work'[q][i] = st[i] /\ LeftBy(h, st, i)
    <3>1. s[3].uses # 0 /\ x = h[2] /\ entry'[x].uses # 0
      BY <1>7, <1>8, <2>1, <1>6
    <3>2. QED BY <3>1 DEF PutOK
  <2>2. CASE \E k \in DOMAIN work[q] :
              (q = p => k > 1) /\ i = Place(p, st, q, k) /\ work'[q][i] = work[q][k]
    <3>1. PICK k \in DOMAIN work[q] :
              (q = p => k > 1) /\ i = Place(p, st, q, k) /\ work'[q][i] = work[q][k]
      BY <2>2
    <3>2. s = work[q][k] /\ s[1] = "putId" /\ x \in Tok
      BY <3>1, <1>8, <1>5 DEF StepOK, OfTok, UsedTok
    <3>3. ~(q = p /\ k = 1)
      BY <3>1
    <3>4. CASE s[3].uses = 0
      <4>1. /\ entry[x] = None
            /\ \A r \in Proc : \A j \in DOMAIN work[r] : IsPut(work[r][j], x) => r = q /\ j = k
        BY <1>4, <3>2, <3>4 DEF PutOK
      <4>2. ~IsPut(h, x)
        BY <1>1, <3>3, <4>1
      <4>3. entry'[x] = None
        BY <1>2, <3>2, <4>1, <4>2
      <4>4. ASSUME NEW r \in Proc, NEW j \in DOMAIN work'[r], IsPut(work'[r][j], x)
            PROVE  r = q /\ j = i
        <5>1. CASE r = p /\ j \in DOMAIN st /\ work'[r][j] = st[j] /\ LeftBy(h, st, j)
          <6>1. entry[x] # None
            BY <1>7, <4>4, <5>1 DEF IsPut
          <6>2. QED BY <6>1, <4>1
        <5>2. CASE \E n \in DOMAIN work[r] :
                     j = Place(p, st, r, n) /\ work'[r][j] = work[r][n]
          <6>1. PICK n \in DOMAIN work[r] : j = Place(p, st, r, n) /\ work'[r][j] = work[r][n]
            BY <5>2
          <6>2. r = q /\ n = k
            BY <4>1, <4>4, <6>1
          <6>3. QED BY <3>1, <6>1, <6>2
        <5>3. QED BY <1>3, <5>1, <5>2
      <4>5. QED BY <3>4, <4>3, <4>4 DEF PutOK
    <3>5. CASE s[3].uses # 0
      <4>1. entry[x] # None => entry[x].uses # 0
        BY <1>4, <3>2, <3>5 DEF PutOK
      <4>2. ASSUME IsPut(h, x) PROVE h[3].uses # 0
        <5>1. PutOK(p, 1)
          BY <1>1, <1>4
        <5>2. IsPut(work[q][k], x)
          BY <3>2 DEF IsPut
        <5>3. QED BY <1>1, <3>3, <4>2, <5>1, <5>2 DEF PutOK, IsPut
      <4>3. entry'[x] # None => entry'[x].uses # 0
        BY <1>2, <3>2, <4>1, <4>2
      <4>4. QED BY <3>5, <4>3 DEF PutOK
    <3>6. QED BY <3>4, <3>5
  <2>3. QED BY <1>3, <2>1, <2>2
<1>9. \A q \in Proc : \A i \in DOMAIN work'[q] : PutOK(q, i)'
  <2> TAKE q \in Proc
  <2> TAKE i \in DOMAIN work'[q]
  <2>1. work'[q][i][1] # "putId" => PutOK(q, i)'
    BY DEF PutOK
  <2>2. QED BY <2>1, <1>8
<1>10. QED BY <1>9 DEF Puts

LEMMA PutsFewer ==
  ASSUME Puts, Fewer
  PROVE  Puts'
<1>1. \A q \in Proc : \A i \in DOMAIN work'[q] : work'[q] = work[q] /\ i \in DOMAIN work[q]
  BY FewerSteps
<1>2. entry' = entry
  BY DEF Fewer
<1>3. ASSUME NEW q \in Proc, NEW i \in DOMAIN work'[q] PROVE PutOK(q, i)'
  <2>1. PutOK(q, i) /\ work'[q] = work[q]
    BY <1>1 DEF Puts
  <2>2. QED BY <1>1, <1>2, <2>1 DEF PutOK
<1>4. QED BY <1>3 DEF Puts

LEMMA PutsPeeks ==
  ASSUME NEW S, Typed(S), Puts, NEW l, NEW st, Peeks(l, st)
  PROVE  Puts'
<1>1. Adds(Checker, st) /\ \A i \in DOMAIN st : PeekOK(st, i, l)
  BY PeeksAdd
<1>2. entry' = entry
  BY <1>1 DEF Adds
<1>3. \A q \in Proc : \A i \in DOMAIN work'[q] :
        \/ q = Checker /\ work'[q] = st /\ i \in DOMAIN st
        \/ q # Checker /\ work'[q] = work[q] /\ i \in DOMAIN work[q]
  BY <1>1, AddsSteps
<1>4. \A q \in Proc : \A i \in DOMAIN work'[q] : work'[q][i][1] = "putId" =>
        work'[q] = work[q] /\ i \in DOMAIN work[q]
  BY <1>1, <1>3 DEF PeekOK
<1>5. ASSUME NEW q \in Proc, NEW i \in DOMAIN work'[q], work'[q][i][1] = "putId"
      PROVE  PutOK(q, i)'
  <2>1. PutOK(q, i) /\ work'[q] = work[q]
    BY <1>4, <1>5 DEF Puts
  <2>2. QED BY <1>2, <1>4, <2>1 DEF PutOK, IsPut
<1>6. \A q \in Proc : \A i \in DOMAIN work'[q] : PutOK(q, i)'
  BY <1>5 DEF PutOK
<1>7. QED BY <1>6 DEF Puts

LEMMA PutsAsks ==
  ASSUME NEW S, Typed(S), Puts, NEW p, NEW st, NEW ids, Asks(p, st, ids)
  PROVE  Puts'
<1>1. /\ Adds(p, st) /\ ids \subseteq fresh /\ \A i \in DOMAIN st : AskOK(st, i, ids)
  BY AsksAdd
<1>2. entry' = entry
  BY <1>1 DEF Adds
<1>3. \A q \in Proc : \A i \in DOMAIN work'[q] :
        \/ q = p /\ work'[q] = st /\ i \in DOMAIN st
        \/ q # p /\ work'[q] = work[q] /\ i \in DOMAIN work[q]
  BY <1>1, AddsSteps
<1>4. \A q \in Proc : \A i \in DOMAIN work[q] : work[q][i][1] = "putId" => work[q][i][2] \notin fresh
  BY AllOK DEF StepOK, OfTok, UsedTok
<1>5. \A i \in DOMAIN st : st[i][1] = "putId" =>
        /\ st[i][2] \in ids \cap Tok
        /\ \A j \in DOMAIN st : IsPut(st[j], st[i][2]) => j = i
  BY <1>1 DEF AskOK
<1>6. \A x \in ids \cap Tok : entry[x] = None
  BY <1>1 DEF Typed, Stores, UsedTok
<1>7. ASSUME NEW q \in Proc, NEW i \in DOMAIN work'[q], work'[q][i][1] = "putId"
      PROVE  PutOK(q, i)'
  <2>1. CASE q = p /\ work'[q] = st /\ i \in DOMAIN st
    <3>1. st[i][2] \in ids /\ entry[st[i][2]] = None
      BY <1>5, <1>6, <1>7, <2>1
    <3>2. \A r \in Proc : \A j \in DOMAIN work'[r] : IsPut(work'[r][j], st[i][2]) => r = p /\ j = i
      BY <1>1, <1>3, <1>4, <1>5, <1>7, <2>1, <3>1 DEF IsPut
    <3>3. QED BY <1>2, <2>1, <3>1, <3>2 DEF PutOK
  <2>2. CASE q # p /\ work'[q] = work[q] /\ i \in DOMAIN work[q]
    <3>1. PutOK(q, i)
      BY <2>2 DEF Puts
    <3>2. \A j \in DOMAIN st : ~IsPut(st[j], work[q][i][2])
      BY <1>1, <1>4, <1>5, <1>7, <2>2 DEF IsPut
    <3>3. \A r \in Proc : \A j \in DOMAIN work'[r] : IsPut(work'[r][j], work[q][i][2]) =>
            work'[r] = work[r] /\ j \in DOMAIN work[r]
      BY <1>3, <3>2
    <3>4. QED BY <1>2, <2>2, <3>1, <3>3 DEF PutOK
  <2>3. QED BY <1>3, <2>1, <2>2
<1>8. \A q \in Proc : \A i \in DOMAIN work'[q] : PutOK(q, i)'
  BY <1>7 DEF PutOK
<1>9. QED BY <1>8 DEF Puts

-----------------------------------------------------------------------------
(* Tokens with a lease.                                                     *)

LEMMA FinalTaken ==
  ASSUME NEW S, Typed(S), NEW p \in Proc, NEW st, Takes(p, st), NEW x \in Tok, Final(x)
  PROVE  Final(x)' /\ (entry'[x] = None \/ entry'[x] = entry[x])
<1> DEFINE h == Head(work[p])
<1>1. After(p, st) /\ EntriesMove(h) /\ 1 \in DOMAIN work[p] /\ work[p][1] = h /\ fresh' = fresh
  BY TakesDoes DEF HistoryMoves
<1>2. \/ IsPut(h, x) /\ entry'[x] = h[3]
      \/ h[1] = "delete" /\ h[2] = x /\ entry'[x] = None
      \/ entry'[x] = entry[x]
  BY <1>1, EntryAt
<1>3. \A q \in Proc : \A i \in DOMAIN work'[q] :
         \/ q = p /\ i \in DOMAIN st /\ work'[q][i] = st[i] /\ LeftBy(h, st, i)
         \/ \E k \in DOMAIN work[q] :
              (q = p => k > 1) /\ i = Place(p, st, q, k) /\ work'[q][i] = work[q][k]
  BY <1>1, Sources
<1> HIDE DEF h
<1>4. x \notin fresh /\ NoPut(x) /\ (entry[x] # None => entry[x].uses = 0)
  BY DEF Final
<1>5. entry'[x] = None \/ entry'[x] = entry[x]
  BY <1>1, <1>2, <1>4 DEF NoPut
<1>6. ASSUME NEW q \in Proc, NEW i \in DOMAIN work'[q] PROVE ~IsPut(work'[q][i], x)
  <2>1. CASE q = p /\ i \in DOMAIN st /\ work'[q][i] = st[i] /\ LeftBy(h, st, i)
    <3>1. st[i][1] = "putId" => entry[st[i][2]] # None /\ entry[st[i][2]].uses > 1
      BY <2>1 DEF LeftBy
    <3>2. QED BY <2>1, <3>1, <1>4 DEF IsPut
  <2>2. CASE \E k \in DOMAIN work[q] : work'[q][i] = work[q][k]
    BY <2>2, <1>4 DEF NoPut
  <2>3. QED BY <1>3, <2>1, <2>2
<1>7. NoPut(x)'
  BY <1>6 DEF NoPut
<1>8. QED BY <1>1, <1>4, <1>5, <1>7 DEF Final

LEMMA FinalFewer ==
  ASSUME Fewer, NEW x, Final(x)
  PROVE  Final(x)'
<1>1. \A q \in Proc : \A i \in DOMAIN work'[q] : work'[q] = work[q] /\ i \in DOMAIN work[q]
  BY FewerSteps
<1>2. entry' = entry /\ fresh' = fresh
  BY DEF Fewer
<1>3. QED BY <1>1, <1>2 DEF Final, NoPut

LEMMA FinalAdds ==
  ASSUME NEW p, NEW st, Adds(p, st), NEW x, Final(x), \A i \in DOMAIN st : ~IsPut(st[i], x)
  PROVE  Final(x)'
<1>1. \A q \in Proc : \A i \in DOMAIN work'[q] :
        \/ q = p /\ work'[q] = st /\ i \in DOMAIN st
        \/ q # p /\ work'[q] = work[q] /\ i \in DOMAIN work[q]
  BY AddsSteps
<1>2. entry' = entry /\ fresh' \subseteq fresh
  BY DEF Adds
<1>3. QED BY <1>1, <1>2 DEF Final, NoPut

(* A task on the way to delete an entry stays so, or has deleted it. *)
LEMMA EndingTaken ==
  ASSUME NEW S, Typed(S), NEW p \in Proc, NEW st, Takes(p, st),
         NEW q \in Proc, NEW k \in DOMAIN work[q], q = p => k > 1,
         NEW x \in Tok, Ending(work[q], k, x)
  PROVE  Ending(work'[q], Place(p, st, q, k), x) \/ entry'[x] = None
<1> DEFINE h == Head(work[p]) n == Place(p, st, q, k)
<1>1. After(p, st) /\ EntriesMove(h) /\ Completes(h, st)
  BY TakesDoes
<1>2. \/ IsPut(h, x) /\ entry'[x] = h[3]
      \/ h[1] = "delete" /\ h[2] = x /\ entry'[x] = None
      \/ ~IsPut(h, x) /\ ~(h[1] = "delete" /\ h[2] = x) /\ entry'[x] = entry[x]
  BY <1>1, EntryAt
<1>3. /\ q = p => \A i \in DOMAIN st : i \in DOMAIN work'[q] /\ i < n /\ work'[q][i] = st[i]
      /\ \A j \in DOMAIN work[q] : j < k =>
           \/ q = p /\ j = 1 /\ work[q][j] = h
           \/ /\ Place(p, st, q, j) \in DOMAIN work'[q] /\ Place(p, st, q, j) < n
              /\ work'[q][Place(p, st, q, j)] = work[q][j]
  BY <1>1, Before
<1>4. PICK j \in DOMAIN work[q] : j < k /\ Ends(work[q][j], x)
  BY DEF Ending
<1> HIDE DEF h, n
<1>5. CASE q = p /\ j = 1 /\ work[q][j] = h
  <2>1. Ends(h, x)
    BY <1>4, <1>5
  <2>2. CASE h[1] = "delete" /\ h[2] = x
    BY <1>2, <2>2 DEF IsPut
  <2>3. CASE h[1] \in {"revoke_tree", "revoke"} /\ h[2] = x
    <3>1. \E i \in DOMAIN st : Ends(st[i], x)
      BY <1>1, <2>3 DEF Completes
    <3>2. QED BY <3>1, <1>3, <1>5 DEF Ending, n
  <2>4. QED BY <2>1, <2>2, <2>3 DEF Ends
<1>6. CASE /\ Place(p, st, q, j) \in DOMAIN work'[q] /\ Place(p, st, q, j) < n
           /\ work'[q][Place(p, st, q, j)] = work[q][j]
  BY <1>4, <1>6 DEF Ending, n
<1>7. QED BY <1>3, <1>4, <1>5, <1>6

LEMMA DisjointIds == Tok \cap Sec = {} /\ Tok \subseteq Lease /\ Sec \subseteq Lease
BY RootAssumption DEF Lease

(* After its registration a token's entry is not written again. *)
LEMMA AuthFinal ==
  ASSUME NEW S, Typed(S), Leased, NEW p \in Proc, NEW st, Takes(p, st),
         NEW h, h = Head(work[p]), h[1] \in {"register_auth", "renewed"}
  PROVE  /\ h[2] \in Tok /\ Final(h[2])
         /\ lease'[h[2]] = [token |-> h[2], expire |-> now + Ttl]
<1>1. StepOK(h) /\ LeasesMove(h) /\ 1 \in DOMAIN work[p] /\ work[p][1] = h
  BY TakesDoes
<1>2. h[2] \in Tok /\ h[2] \notin fresh
  BY <1>1 DEF StepOK, OfTok, UsedTok
<1>3. h[2] \in Lease
  BY <1>2, DisjointIds
<1>4. lease'[h[2]] = [token |-> h[2], expire |-> now + Ttl]
  BY <1>1, <1>3 DEF LeasesMove, Typed, Stores, TypeOK
<1>5. CASE h[1] = "renewed"
  <2>1. RenewedOK(p, 1, h[2])
    BY <1>1, <1>2 DEF Leased
  <2>2. QED BY <1>1, <1>2, <1>4, <1>5, <2>1 DEF RenewedOK, Is
<1>6. CASE h[1] = "register_auth"
  <2>1. AuthOK(p, 1, h[2])
    BY <1>1, <1>2 DEF Leased
  <2>2. /\ entry[h[2]] # None => entry[h[2]].uses = 0
        /\ \A q \in Proc : \A j \in DOMAIN work[q] : IsPut(work[q][j], h[2]) => q = p /\ j < 1
    BY <1>1, <1>6, <2>1 DEF AuthOK, Is
  <2>3. \A j \in DOMAIN work[p] : ~(j < 1)
    <3>1. Moved(p, st)
      BY TakesDoes
    <3>2. QED BY <3>1 DEF Moved
  <2>4. NoPut(h[2])
    BY <2>2, <2>3 DEF NoPut
  <2>5. QED BY <1>2, <1>4, <2>2, <2>4 DEF Final
<1>7. QED BY <1>5, <1>6

LEMMA HasLeaseTaken ==
  ASSUME NEW S, Typed(S), Leased, NEW p \in Proc, NEW st, Takes(p, st),
         NEW x \in Tok, Final(x), HasLease(x)
  PROVE  Final(x)' /\ HasLease(x)'
<1> DEFINE h == Head(work[p])
<1>1. Final(x)' /\ (entry'[x] = None \/ entry'[x] = entry[x])
  BY FinalTaken
<1>2. LeasesMove(h) /\ 1 \in DOMAIN work[p] /\ work[p][1] = h /\ Moved(p, st)
  BY TakesDoes
<1>3. x \in Lease
  BY DisjointIds
<1>4. \/ Registering(h, x) /\ lease'[x] = [token |-> h[2], expire |-> now + Ttl]
      \/ h[1] = "delete_lease_entry" /\ h[2] = x /\ lease'[x] = None
      \/ lease'[x] = lease[x]
  BY <1>2, <1>3, LeaseAt
<1>5. CASE Registering(h, x) /\ lease'[x] = [token |-> h[2], expire |-> now + Ttl]
  <2>1. lease'[x] # None
    <3>1. StepOK(h) /\ now \in Nat
      BY TakesDoes, BoundAssumption DEF Typed, Stores, TypeOK
    <3>2. h[2] \in Tok
      BY <3>1, <1>5 DEF Registering, StepOK, OfTok, OfSec, UsedTok
    <3>3. lease'[x] \in [token : Tok, expire : Nat]
      BY <3>1, <3>2, <1>5, TtlAssumption
    <3>4. QED BY <3>3, NoneAssumption
  <2>2. QED BY <1>1, <2>1 DEF HasLease
<1>6. CASE h[1] = "delete_lease_entry" /\ h[2] = x
  <2>1. LeaseEndOK(p, 1, x)
    BY <1>2 DEF Leased
  <2>2. entry[x] = None \/ Ending(work[p], 1, x)
    BY <2>1, <1>2, <1>6 DEF LeaseEndOK, Is
  <2>3. ~Ending(work[p], 1, x)
    BY <1>2 DEF Ending, Moved
  <2>4. QED BY <1>1, <2>2, <2>3 DEF HasLease
<1>7. CASE lease'[x] = lease[x]
  BY <1>1, <1>7 DEF HasLease
<1>8. QED BY <1>1, <1>4, <1>5, <1>6, <1>7

LEMMA LeasedTaken ==
  ASSUME NEW S, Typed(S), Leased, NEW p \in Proc, NEW st, Takes(p, st)
  PROVE  Leased'
<1> DEFINE h == Head(work[p])
<1>1. After(p, st) /\ StepOK(h) /\ 1 \in DOMAIN work[p] /\ work[p][1] = h /\ Moved(p, st)
      /\ EntriesMove(h) /\ LeasesMove(h) /\ HistoryMoves(h)
  BY TakesDoes
<1>2. \A q \in Proc : \A i \in DOMAIN work'[q] :
         \/ q = p /\ i \in DOMAIN st /\ work'[q][i] = st[i] /\ LeftBy(h, st, i)
         \/ \E k \in DOMAIN work[q] :
              (q = p => k > 1) /\ i = Place(p, st, q, k) /\ work'[q][i] = work[q][k]
  BY <1>1, Sources
<1>3. \A q \in Proc : \A k \in DOMAIN work[q] : \A t \in Tok :
        AuthOK(q, k, t) /\ GiveOK(q, k, t) /\ LeaseEndOK(q, k, t) /\ RenewedOK(q, k, t)
  BY DEF Leased
<1>4. \A q \in Proc : \A k \in DOMAIN work[q] : StepOK(work[q][k])
  BY AllOK
<1>5. \A t \in Tok : lease[t] # None => Final(t)
  BY DEF Leased
<1>6. \A x \in Tok : Final(x) => Final(x)'
  BY FinalTaken
<1>7. \A x \in Tok : Final(x) /\ HasLease(x) => Final(x)' /\ HasLease(x)'
  BY HasLeaseTaken
<1>a. h[1] \in {"register_auth", "renewed"} =>
        /\ h[2] \in Tok /\ Final(h[2])
        /\ lease'[h[2]] = [token |-> h[2], expire |-> now + Ttl]
  BY AuthFinal
<1>b. \A n, q, k : Place(p, st, q, k) = n => n = Place(p, st, q, k)
  OBVIOUS
<1>c. \A q \in Proc : \A k \in DOMAIN work[q] : (q = p => k > 1) =>
        /\ q = p => \A i \in DOMAIN st :
             i \in DOMAIN work'[q] /\ i < Place(p, st, q, k) /\ work'[q][i] = st[i]
        /\ \A j \in DOMAIN work[q] : j < k =>
              \/ q = p /\ j = 1 /\ work[q][j] = h
              \/ /\ Place(p, st, q, j) \in DOMAIN work'[q]
                 /\ Place(p, st, q, j) < Place(p, st, q, k)
                 /\ work'[q][Place(p, st, q, j)] = work[q][j]
  BY <1>1, Before
<1> HIDE DEF h
<1>8. ASSUME NEW t \in Tok, lease'[t] # None PROVE Final(t)'
  <2>1. \/ Registering(h, t)
        \/ lease'[t] = lease[t]
    BY <1>1, <1>8, DisjointIds, LeaseAt
  <2>2. CASE Registering(h, t)
    <3>1. h[1] \in {"register_auth", "renewed"} /\ h[2] = t
      BY <1>1, <2>2, DisjointIds DEF Registering, StepOK, OfSec, UsedSec
    <3>2. QED BY <3>1, <1>6, <1>a
  <2>3. QED BY <1>5, <1>6, <1>8, <2>1, <2>2
<1>9. ASSUME NEW t \in given' PROVE Final(t)' /\ HasLease(t)'
  <2>1. CASE t \in given
    <3>1. t \in Tok
      BY <2>1 DEF Typed, Stores, TypeOK, held
    <3>2. Final(t) /\ HasLease(t)
      BY <2>1 DEF Leased
    <3>3. QED BY <3>1, <3>2, <1>7
  <2>2. CASE h[1] = "give" /\ t = h[2]
    <3>1. t \in Tok
      BY <1>1, <2>2 DEF StepOK, OfTok, UsedTok
    <3>2. GiveOK(p, 1, t)
      BY <1>1, <1>3, <3>1
    <3>3. \A j \in DOMAIN work[p] : ~(j < 1)
      BY <1>1 DEF Moved
    <3>4. Final(t) /\ HasLease(t)
      BY <1>1, <2>2, <3>2, <3>3 DEF GiveOK, Is
    <3>5. QED BY <3>1, <3>4, <1>7
  <2>3. QED BY <1>1, <1>9, <2>1, <2>2 DEF HistoryMoves
<1>10. ASSUME NEW q \in Proc, NEW i \in DOMAIN work'[q], NEW t \in Tok
       PROVE  RenewedOK(q, i, t)'
  <2> SUFFICES ASSUME Is(work'[q][i], "renewed", t) PROVE Final(t)'
    BY DEF RenewedOK
  <2>1. CASE q = p /\ i \in DOMAIN st /\ work'[q][i] = st[i] /\ LeftBy(h, st, i)
    <3>1. h[2] = t /\ lease[t] # None
      BY <2>1 DEF LeftBy, Is
    <3>2. QED BY <1>5, <1>6, <3>1
  <2>2. CASE \E k \in DOMAIN work[q] : work'[q][i] = work[q][k]
    <3>1. Final(t)
      BY <1>3, <2>2 DEF RenewedOK
    <3>2. QED BY <3>1, <1>6
  <2>3. QED BY <1>2, <2>1, <2>2
<1>11. ASSUME NEW q \in Proc, NEW i \in DOMAIN work'[q], NEW m \in Tok
       PROVE  AuthOK(q, i, m)'
  <2> SUFFICES ASSUME Is(work'[q][i], "register_auth", m)
               PROVE  /\ entry'[m] # None => entry'[m].uses = 0
                      /\ lease'[m] = None
                      /\ \A r \in Proc : \A j \in DOMAIN work'[r] :
                           /\ IsPut(work'[r][j], m) => r = q /\ j < i /\ work'[r][j][3].uses = 0
                           /\ Is(work'[r][j], "register_auth", m) => r = q /\ j = i
                           /\ ~Is(work'[r][j], "renewed", m) /\ ~Is(work'[r][j], "push", m)
    BY DEF AuthOK
  <2>1. PICK k \in DOMAIN work[q] :
          (q = p => k > 1) /\ i = Place(p, st, q, k) /\ work'[q][i] = work[q][k]
    BY <1>2 DEF LeftBy, Is
  <2>2. m \in Lease /\ m \notin Sec
    BY DisjointIds
  <2>3. /\ entry[m] # None => entry[m].uses = 0
        /\ lease[m] = None
        /\ \A r \in Proc : \A j \in DOMAIN work[r] :
             /\ IsPut(work[r][j], m) => r = q /\ j < k /\ work[r][j][3].uses = 0
             /\ Is(work[r][j], "register_auth", m) => r = q /\ j = k
             /\ ~Is(work[r][j], "renewed", m) /\ ~Is(work[r][j], "push", m)
    BY <1>3, <2>1 DEF AuthOK
  <2>4. ~(q = p /\ k = 1)
    BY <2>1
  <2>a. ~Is(h, "register_auth", m) /\ ~Is(h, "renewed", m)
    BY <1>1, <2>3, <2>4
  <2>5. entry'[m] # None => entry'[m].uses = 0
    <3>1. \/ IsPut(h, m) /\ entry'[m] = h[3]
          \/ entry'[m] = None
          \/ entry'[m] = entry[m]
      BY <1>1, EntryAt
    <3>2. IsPut(h, m) => h[3].uses = 0
      BY <1>1, <2>3
    <3>3. QED BY <2>3, <3>1, <3>2
  <2>6. lease'[m] = None
    <3>1. \/ Registering(h, m) \/ lease'[m] = None \/ lease'[m] = lease[m]
      BY <1>1, <2>2, LeaseAt
    <3>2. ~(h[1] = "register_secret" /\ h[3] = m)
      BY <1>1, <2>2 DEF StepOK, OfSec, UsedSec
    <3>3. ~Registering(h, m)
      BY <2>a, <3>2 DEF Registering, Is
    <3>4. QED BY <2>3, <3>1, <3>3
  <2>7. ASSUME NEW r \in Proc, NEW j \in DOMAIN work'[r]
        PROVE  /\ IsPut(work'[r][j], m) => r = q /\ j < i /\ work'[r][j][3].uses = 0
               /\ Is(work'[r][j], "register_auth", m) => r = q /\ j = i
               /\ ~Is(work'[r][j], "renewed", m) /\ ~Is(work'[r][j], "push", m)
    <3>1. CASE r = p /\ j \in DOMAIN st /\ work'[r][j] = st[j] /\ LeftBy(h, st, j)
      <4>1. ~IsPut(st[j], m)
        <5>1. st[j][1] = "putId" => entry[st[j][2]] # None /\ entry[st[j][2]].uses > 1
          BY <3>1 DEF LeftBy
        <5>2. QED BY <5>1, <2>3 DEF IsPut
      <4>2. ~Is(st[j], "register_auth", m)
        BY <3>1 DEF LeftBy, Is
      <4>3. ~Is(st[j], "renewed", m)
        BY <2>3, <3>1 DEF LeftBy, Is
      <4>4. ~Is(st[j], "push", m)
        <5> SUFFICES ASSUME st[j][1] = "push" PROVE st[j][2] # m
          BY DEF Is
        <5>1. \/ h[1] \in {"register_auth", "renewed"} /\ st[j][2] = h[2]
              \/ h[1] = "register_secret" /\ st[j][2] = h[3]
              \/ h[1] = "revoke_lease_id" /\ st[j][2] = h[2] /\ lease[h[2]] # None
          BY <3>1 DEF LeftBy
        <5>2. ~(h[1] = "register_secret" /\ h[3] = m)
          BY <1>1, <2>2 DEF StepOK, OfSec, UsedSec
        <5>3. QED BY <5>1, <5>2, <2>a, <2>3 DEF Is
      <4>5. QED BY <3>1, <4>1, <4>2, <4>3, <4>4
    <3>2. CASE \E n \in DOMAIN work[r] :
                 (r = p => n > 1) /\ j = Place(p, st, r, n) /\ work'[r][j] = work[r][n]
      <4>1. PICK n \in DOMAIN work[r] :
                 (r = p => n > 1) /\ j = Place(p, st, r, n) /\ work'[r][j] = work[r][n]
        BY <3>2
      <4>2. ASSUME r = q, n < k PROVE j < i
        <5>1. ~(q = p /\ n = 1)
          BY <4>1, <4>2
        <5>2. Place(p, st, q, n) < Place(p, st, q, k)
          BY <1>c, <2>1, <4>1, <4>2, <5>1
        <5>3. QED BY <2>1, <4>1, <4>2, <5>2
      <4>3. QED BY <2>1, <2>3, <4>1, <4>2
    <3>3. QED BY <1>2, <3>1, <3>2
  <2>8. QED BY <2>5, <2>6, <2>7
<1>12. ASSUME NEW q \in Proc, NEW i \in DOMAIN work'[q], NEW m \in Tok
       PROVE  GiveOK(q, i, m)'
  <2> SUFFICES ASSUME Is(work'[q][i], "give", m)
               PROVE  \/ \E j \in DOMAIN work'[q] : j < i /\ Is(work'[q][j], "register_auth", m)
                      \/ Final(m)' /\ HasLease(m)'
    BY DEF GiveOK
  <2>1. PICK k \in DOMAIN work[q] :
          (q = p => k > 1) /\ i = Place(p, st, q, k) /\ work'[q][i] = work[q][k]
    BY <1>2 DEF LeftBy, Is
  <2>3. \/ \E j \in DOMAIN work[q] : j < k /\ Is(work[q][j], "register_auth", m)
        \/ Final(m) /\ HasLease(m)
    BY <1>3, <2>1 DEF GiveOK
  <2>4. CASE Final(m) /\ HasLease(m)
    BY <1>7, <2>4
  <2>5. CASE \E j \in DOMAIN work[q] : j < k /\ Is(work[q][j], "register_auth", m)
    <3>1. PICK j \in DOMAIN work[q] : j < k /\ Is(work[q][j], "register_auth", m)
      BY <2>5
    <3>2. \/ q = p /\ j = 1 /\ work[q][j] = h
          \/ /\ Place(p, st, q, j) \in DOMAIN work'[q]
             /\ Place(p, st, q, j) < i
             /\ work'[q][Place(p, st, q, j)] = work[q][j]
      BY <1>c, <2>1, <3>1
    <3>3. CASE q = p /\ j = 1 /\ work[q][j] = h
      <4>1. Final(m) /\ lease'[m] = [token |-> m, expire |-> now + Ttl]
        BY <1>a, <3>1, <3>3 DEF Is
      <4>2. now \in Nat
        BY BoundAssumption DEF Typed, Stores, TypeOK
      <4>3. lease'[m] \in [token : Tok, expire : Nat]
        BY <4>1, <4>2, TtlAssumption
      <4>4. Final(m)' /\ HasLease(m)'
        BY <1>6, <4>1, <4>3, NoneAssumption DEF HasLease
      <4>5. QED BY <4>4
    <3>4. CASE /\ Place(p, st, q, j) \in DOMAIN work'[q]
               /\ Place(p, st, q, j) < i
               /\ work'[q][Place(p, st, q, j)] = work[q][j]
      BY <3>1, <3>4
    <3>5. QED BY <3>2, <3>3, <3>4
  <2>6. QED BY <2>3, <2>4, <2>5
<1>13. ASSUME NEW q \in Proc, NEW i \in DOMAIN work'[q], NEW t \in Tok
       PROVE  LeaseEndOK(q, i, t)'
  <2> SUFFICES ASSUME Is(work'[q][i], "delete_lease_entry", t)
               PROVE  Final(t)' /\ (entry'[t] = None \/ Ending(work'[q], i, t))
    BY DEF LeaseEndOK
  <2>1. CASE q = p /\ i \in DOMAIN st /\ work'[q][i] = st[i] /\ LeftBy(h, st, i)
    <3>1. /\ t = h[2] /\ lease[h[2]] # None
          /\ \E j \in DOMAIN st : j < i /\ Ends(st[j], h[2])
      BY <2>1 DEF LeftBy, Is
    <3>2. Final(t)'
      BY <1>5, <1>6, <3>1
    <3>3. Ending(work'[q], i, t)
      BY <1>1, <2>1, <3>1 DEF Ending, Moved
    <3>4. QED BY <3>2, <3>3
  <2>2. CASE \E k \in DOMAIN work[q] :
              (q = p => k > 1) /\ i = Place(p, st, q, k) /\ work'[q][i] = work[q][k]
    <3>1. PICK k \in DOMAIN work[q] :
              (q = p => k > 1) /\ i = Place(p, st, q, k) /\ work'[q][i] = work[q][k]
      BY <2>2
    <3>2. Final(t) /\ (entry[t] = None \/ Ending(work[q], k, t))
      BY <1>3, <3>1 DEF LeaseEndOK
    <3>3. Final(t)' /\ (entry'[t] = None \/ entry'[t] = entry[t])
      BY <3>2, FinalTaken
    <3>4. Ending(work[q], k, t) => Ending(work'[q], i, t) \/ entry'[t] = None
      BY <3>1, EndingTaken
    <3>5. QED BY <3>2, <3>3, <3>4
  <2>3. QED BY <1>2, <2>1, <2>2
<1>17. QED BY <1>8, <1>9, <1>10, <1>11, <1>12, <1>13 DEF Leased

LEMMA LeasedFewer ==
  ASSUME Leased, Fewer
  PROVE  Leased'
<1>1. \A q \in Proc : \A i \in DOMAIN work'[q] : work'[q] = work[q] /\ i \in DOMAIN work[q]
  BY FewerSteps
<1>2. entry' = entry /\ lease' = lease /\ given' = given
  BY DEF Fewer
<1>3. \A x : Final(x) => Final(x)'
  BY FinalFewer
<1>4. ASSUME NEW q \in Proc, NEW i \in DOMAIN work'[q], NEW t \in Tok
      PROVE  AuthOK(q, i, t)' /\ GiveOK(q, i, t)' /\ LeaseEndOK(q, i, t)' /\ RenewedOK(q, i, t)'
  <2>1. /\ AuthOK(q, i, t) /\ GiveOK(q, i, t) /\ LeaseEndOK(q, i, t) /\ RenewedOK(q, i, t)
        /\ work'[q] = work[q]
    BY <1>1 DEF Leased
  <2>2. AuthOK(q, i, t)'
    BY <1>1, <1>2, <2>1 DEF AuthOK
  <2>3. GiveOK(q, i, t)'
    BY <1>2, <1>3, <2>1 DEF GiveOK, HasLease
  <2>4. LeaseEndOK(q, i, t)' /\ RenewedOK(q, i, t)'
    BY <1>2, <1>3, <2>1 DEF LeaseEndOK, RenewedOK
  <2>5. QED BY <2>2, <2>3, <2>4
<1>5. \A t \in Tok : lease'[t] # None => Final(t)'
  BY <1>2, <1>3 DEF Leased
<1>6. \A t \in given' : Final(t)' /\ HasLease(t)'
  BY <1>2, <1>3 DEF Leased, HasLease
<1>7. QED BY <1>4, <1>5, <1>6 DEF Leased

LEMMA LeasedPeeks ==
  ASSUME NEW S, Typed(S), Leased, NEW l, NEW st, Peeks(l, st)
  PROVE  Leased'
<1>1. Adds(Checker, st) /\ \A i \in DOMAIN st : PeekOK(st, i, l)
  BY PeeksAdd
<1>2. entry' = entry /\ lease' = lease /\ given' = given
  BY <1>1 DEF Adds
<1>3. \A i \in DOMAIN st : st[i][1] \in {"pop", "revoke_lease_id"}
  BY <1>1 DEF PeekOK
<1>4. \A x : Final(x) => Final(x)'
  BY <1>1, <1>3, FinalAdds DEF IsPut
<1>5. \A q \in Proc : \A i \in DOMAIN work'[q] :
        \/ q = Checker /\ work'[q] = st /\ i \in DOMAIN st
        \/ q # Checker /\ work'[q] = work[q] /\ i \in DOMAIN work[q]
  BY <1>1, AddsSteps
<1>6. ASSUME NEW q \in Proc, NEW i \in DOMAIN work'[q], NEW t \in Tok
      PROVE  AuthOK(q, i, t)' /\ GiveOK(q, i, t)' /\ LeaseEndOK(q, i, t)' /\ RenewedOK(q, i, t)'
  <2>1. CASE q = Checker /\ work'[q] = st /\ i \in DOMAIN st
    BY <1>3, <2>1 DEF AuthOK, GiveOK, LeaseEndOK, RenewedOK, Is
  <2>2. CASE q # Checker /\ work'[q] = work[q] /\ i \in DOMAIN work[q]
    <3>1. AuthOK(q, i, t) /\ GiveOK(q, i, t) /\ LeaseEndOK(q, i, t) /\ RenewedOK(q, i, t)
      BY <2>2 DEF Leased
    <3>2. AuthOK(q, i, t)'
      BY <1>2, <1>3, <1>5, <2>2, <3>1 DEF AuthOK, IsPut, Is
    <3>3. GiveOK(q, i, t)'
      BY <1>2, <1>4, <2>2, <3>1 DEF GiveOK, HasLease
    <3>4. LeaseEndOK(q, i, t)' /\ RenewedOK(q, i, t)'
      BY <1>2, <1>4, <2>2, <3>1 DEF LeaseEndOK, RenewedOK
    <3>5. QED BY <3>2, <3>3, <3>4
  <2>3. QED BY <1>5, <2>1, <2>2
<1>7. \A t \in Tok : lease'[t] # None => Final(t)'
  BY <1>2, <1>4 DEF Leased
<1>8. \A t \in given' : Final(t)' /\ HasLease(t)'
  BY <1>2, <1>4 DEF Leased, HasLease
<1>9. QED BY <1>6, <1>7, <1>8 DEF Leased

LEMMA LeasedAsks ==
  ASSUME NEW S, Typed(S), Leased, NEW p, NEW st, NEW ids, Asks(p, st, ids)
  PROVE  Leased'
<1>1. Adds(p, st) /\ ids \subseteq fresh /\ \A i \in DOMAIN st : AskOK(st, i, ids)
  BY AsksAdd
<1>2. entry' = entry /\ lease' = lease /\ given' = given
  BY <1>1 DEF Adds
<1>3. \A i \in DOMAIN st :
        /\ st[i][1] \notin {"delete_lease_entry", "renewed", "push"}
        /\ st[i][1] \in {"putId", "register_auth"} => st[i][2] \in ids \cap Tok
  BY <1>1 DEF AskOK
<1>4. \A x : Final(x) => Final(x)'
  <2> TAKE x
  <2>1. Final(x) => \A i \in DOMAIN st : ~IsPut(st[i], x)
    BY <1>1, <1>3 DEF Final, IsPut
  <2>2. QED BY <1>1, <2>1, FinalAdds
<1>5. \A q \in Proc : \A i \in DOMAIN work'[q] :
        \/ q = p /\ work'[q] = st /\ i \in DOMAIN st
        \/ q # p /\ work'[q] = work[q] /\ i \in DOMAIN work[q]
  BY <1>1, AddsSteps
<1>6. \A q \in Proc : \A i \in DOMAIN work[q] :
        work[q][i][1] \in {"putId", "register_auth", "renewed", "push"} => work[q][i][2] \notin fresh
  BY AllOK DEF StepOK, OfTok, OfLease, UsedTok, Used
<1>7. \A x \in ids \cap Tok : entry[x] = None /\ lease[x] = None
  BY <1>1, DisjointIds DEF Typed, Stores, TypeOK, UsedTok
<1>8. ASSUME NEW q \in Proc, NEW i \in DOMAIN work'[q], NEW t \in Tok
      PROVE  AuthOK(q, i, t)' /\ GiveOK(q, i, t)' /\ LeaseEndOK(q, i, t)' /\ RenewedOK(q, i, t)'
  <2>1. CASE q = p /\ work'[q] = st /\ i \in DOMAIN st
    <3>1. LeaseEndOK(q, i, t)' /\ RenewedOK(q, i, t)'
      BY <1>3, <2>1 DEF LeaseEndOK, RenewedOK, Is
    <3>2. GiveOK(q, i, t)'
      <4>1. st[i][1] = "give" =>
              \E j \in DOMAIN st : j < i /\ st[j][1] = "register_auth" /\ st[j][2] = st[i][2]
        BY <1>1, <2>1 DEF AskOK
      <4>2. QED BY <2>1, <4>1 DEF GiveOK, Is
    <3>3. ASSUME Is(st[i], "register_auth", t) PROVE AuthOK(q, i, t)'
      <4>1. /\ t \in ids
            /\ \A j \in DOMAIN st :
                 /\ IsPut(st[j], t) => j < i /\ st[j][3].uses = 0
                 /\ Is(st[j], "register_auth", t) => j = i
        BY <1>1, <3>3, <2>1 DEF AskOK, Is
      <4>2. entry'[t] = None /\ lease'[t] = None
        BY <1>2, <1>7, <4>1
      <4>3. ASSUME NEW r \in Proc, NEW j \in DOMAIN work'[r]
            PROVE  /\ IsPut(work'[r][j], t) => r = p /\ j < i /\ work'[r][j][3].uses = 0
                   /\ Is(work'[r][j], "register_auth", t) => r = p /\ j = i
                   /\ ~Is(work'[r][j], "renewed", t) /\ ~Is(work'[r][j], "push", t)
        <5>1. CASE r = p /\ work'[r] = st /\ j \in DOMAIN st
          BY <1>3, <4>1, <5>1 DEF Is
        <5>2. CASE r # p /\ work'[r] = work[r] /\ j \in DOMAIN work[r]
          BY <1>1, <1>6, <4>1, <5>2 DEF IsPut, Is
        <5>3. QED BY <1>5, <5>1, <5>2
      <4>4. QED BY <2>1, <4>2, <4>3 DEF AuthOK
    <3>4. ~Is(st[i], "register_auth", t) => AuthOK(q, i, t)'
      BY <2>1 DEF AuthOK
    <3>5. QED BY <3>1, <3>2, <3>3, <3>4
  <2>2. CASE q # p /\ work'[q] = work[q] /\ i \in DOMAIN work[q]
    <3>1. AuthOK(q, i, t) /\ GiveOK(q, i, t) /\ LeaseEndOK(q, i, t) /\ RenewedOK(q, i, t)
      BY <2>2 DEF Leased
    <3>2. ASSUME Is(work[q][i], "register_auth", t) PROVE AuthOK(q, i, t)'
      <4>1. t \notin fresh
        BY <1>6, <2>2, <3>2 DEF Is
      <4>2. \A j \in DOMAIN st :
              /\ st[j][1] \in {"putId", "register_auth"} => st[j][2] # t
              /\ st[j][1] \notin {"renewed", "push"}
        BY <1>1, <1>3, <4>1
      <4>3. QED BY <1>2, <1>5, <2>2, <3>1, <3>2, <4>2 DEF AuthOK, IsPut, Is
    <3>3. ~Is(work[q][i], "register_auth", t) => AuthOK(q, i, t)'
      BY <2>2 DEF AuthOK
    <3>4. GiveOK(q, i, t)'
      BY <1>2, <1>4, <2>2, <3>1 DEF GiveOK, HasLease
    <3>5. LeaseEndOK(q, i, t)' /\ RenewedOK(q, i, t)'
      BY <1>2, <1>4, <2>2, <3>1 DEF LeaseEndOK, RenewedOK
    <3>6. QED BY <3>2, <3>3, <3>4, <3>5
  <2>3. QED BY <1>5, <2>1, <2>2
<1>9. \A t \in Tok : lease'[t] # None => Final(t)'
  BY <1>2, <1>4 DEF Leased
<1>10. \A t \in given' : Final(t)' /\ HasLease(t)'
  BY <1>2, <1>4 DEF Leased, HasLease
<1>11. QED BY <1>8, <1>9, <1>10 DEF Leased

-----------------------------------------------------------------------------
(* Children.                                                                *)

(* What the use of a token leaves to write has a use limit. *)
LEMMA UseLeft ==
  ASSUME NEW S, Typed(S), NEW h, StepOK(h), NEW st, NEW i, LeftBy(h, st, i), st[i][1] = "putId"
  PROVE  /\ h[2] \in Tok /\ st[i][2] = h[2] /\ entry[h[2]] # None /\ entry[h[2]].uses > 1
         /\ st[i][3].uses # 0
<1>1. /\ h[1] = "check_token" /\ st[i][2] = h[2] /\ entry[h[2]] # None /\ entry[h[2]].uses > 1
      /\ st[i][3] = [entry[h[2]] EXCEPT !.uses = @ - 1]
  BY DEF LeftBy
<1>2. h[2] \in Tok
  BY <1>1 DEF StepOK, OfTok, UsedTok
<1>3. entry[h[2]] \in Entry
  BY <1>1, <1>2 DEF Typed, Stores, EntryOK
<1>4. st[i][3].uses = entry[h[2]].uses - 1
  BY <1>1, <1>3 DEF Entry
<1>5. entry[h[2]].uses \in Nat
  BY <1>3, BoundAssumption DEF Entry
<1>6. QED BY <1>1, <1>2, <1>4, <1>5

LEMMA OnlyLimitedTaken ==
  ASSUME NEW S, Typed(S), NEW p \in Proc, NEW st, Takes(p, st), NEW c \in Tok, OnlyLimited(c)
  PROVE  OnlyLimited(c)' /\ (Unlimited(c)' => Unlimited(c) /\ entry'[c] = entry[c])
<1> DEFINE h == Head(work[p])
<1>1. /\ After(p, st) /\ StepOK(h) /\ EntriesMove(h) /\ 1 \in DOMAIN work[p] /\ work[p][1] = h
      /\ fresh' = fresh
  BY TakesDoes DEF HistoryMoves
<1>2. \/ IsPut(h, c) /\ entry'[c] = h[3]
      \/ h[1] = "delete" /\ h[2] = c /\ entry'[c] = None
      \/ entry'[c] = entry[c]
  BY <1>1, EntryAt
<1>3. \A q \in Proc : \A i \in DOMAIN work'[q] :
         \/ q = p /\ i \in DOMAIN st /\ work'[q][i] = st[i] /\ LeftBy(h, st, i)
         \/ \E k \in DOMAIN work[q] :
              (q = p => k > 1) /\ i = Place(p, st, q, k) /\ work'[q][i] = work[q][k]
  BY <1>1, Sources
<1>4. \A i : LeftBy(h, st, i) /\ st[i][1] = "putId" => st[i][3].uses # 0
  BY <1>1, UseLeft
<1> HIDE DEF h
<1>5. IsPut(h, c) => h[3].uses # 0
  BY <1>1 DEF OnlyLimited
<1>6. Unlimited(c)' => Unlimited(c) /\ entry'[c] = entry[c]
  BY <1>2, <1>5 DEF Unlimited
<1>7. ASSUME NEW q \in Proc, NEW i \in DOMAIN work'[q], IsPut(work'[q][i], c)
      PROVE  work'[q][i][3].uses # 0
  <2>1. CASE q = p /\ i \in DOMAIN st /\ work'[q][i] = st[i] /\ LeftBy(h, st, i)
    BY <1>4, <1>7, <2>1 DEF IsPut
  <2>2. CASE \E k \in DOMAIN work[q] : work'[q][i] = work[q][k]
    BY <1>7, <2>2 DEF OnlyLimited
  <2>3. QED BY <1>3, <2>1, <2>2
<1>8. OnlyLimited(c)'
  BY <1>1, <1>7 DEF OnlyLimited
<1>9. QED BY <1>6, <1>8

LEMMA LinkedTaken ==
  ASSUME NEW S, Typed(S), Puts, Linked, NEW p \in Proc, NEW st, Takes(p, st)
  PROVE  Linked'
<1> DEFINE h == Head(work[p])
<1>1. After(p, st) /\ StepOK(h) /\ 1 \in DOMAIN work[p] /\ work[p][1] = h /\ Moved(p, st)
      /\ EntriesMove(h) /\ ChildrenMove(h)
  BY TakesDoes
<1>2. \A q \in Proc : \A i \in DOMAIN work'[q] :
         \/ q = p /\ i \in DOMAIN st /\ work'[q][i] = st[i] /\ LeftBy(h, st, i)
         \/ \E k \in DOMAIN work[q] :
              (q = p => k > 1) /\ i = Place(p, st, q, k) /\ work'[q][i] = work[q][k]
  BY <1>1, Sources
<1>3. \A q \in Proc : \A k \in DOMAIN work[q] : \A c \in Tok : PutLinked(q, k, c) /\ UnlinkOK(q, k, c)
  BY DEF Linked
<1>4. \A c \in Tok : Unlimited(c) /\ entry[c].parent # None => <<entry[c].parent, c>> \in children
  BY DEF Linked
<1>5. \A c \in Tok : OnlyLimited(c) =>
        OnlyLimited(c)' /\ (Unlimited(c)' => Unlimited(c) /\ entry'[c] = entry[c])
  BY OnlyLimitedTaken
<1>6. \A i : LeftBy(h, st, i) /\ st[i][1] = "putId" => st[i][3].uses # 0
  BY <1>1, UseLeft
<1>7. \A j \in DOMAIN work[p] : ~(j < 1)
  BY <1>1 DEF Moved
<1>8. \A q \in Proc : \A k \in DOMAIN work[q] : (q = p => k > 1) =>
        /\ q = p => \A i \in DOMAIN st :
             i \in DOMAIN work'[q] /\ i < Place(p, st, q, k) /\ work'[q][i] = st[i]
        /\ \A j \in DOMAIN work[q] : j < k =>
              \/ q = p /\ j = 1 /\ work[q][j] = h
              \/ /\ Place(p, st, q, j) \in DOMAIN work'[q]
                 /\ Place(p, st, q, j) < Place(p, st, q, k)
                 /\ work'[q][Place(p, st, q, j)] = work[q][j]
  BY <1>1, Before
<1>9. \A c \in Tok :
         \/ IsPut(h, c) /\ entry'[c] = h[3]
         \/ h[1] = "delete" /\ h[2] = c /\ entry'[c] = None
         \/ ~IsPut(h, c) /\ ~(h[1] = "delete" /\ h[2] = c) /\ entry'[c] = entry[c]
  BY <1>1, EntryAt
<1> HIDE DEF h
(* A pair that is removed is that of a token nobody writes without limit. *)
<1>10. ASSUME NEW x, NEW c \in Tok, <<x, c>> \in children, <<x, c>> \notin children'
       PROVE  OnlyLimited(c) /\ ~Unlimited(c)
  <2>1. h[1] = "deleteParent" /\ h[3] = c
    BY <1>1, <1>10 DEF ChildrenMove
  <2>2. UnlinkOK(p, 1, c)
    BY <1>1, <1>3
  <2>3. OnlyLimited(c) /\ (Unlimited(c) => Ending(work[p], 1, c))
    BY <1>1, <2>1, <2>2 DEF UnlinkOK
  <2>4. QED BY <1>7, <2>3 DEF Ending
<1>11. ASSUME NEW c \in Tok, Unlimited(c)', entry'[c].parent # None
       PROVE  <<entry'[c].parent, c>> \in children'
  <2>1. CASE IsPut(h, c) /\ entry'[c] = h[3]
    <3>1. PutLinked(p, 1, c)
      BY <1>1, <1>3
    <3>2. <<h[3].parent, c>> \in children
      BY <1>1, <1>7, <1>11, <2>1, <3>1 DEF PutLinked, Unlimited
    <3>3. children' = children
      BY <1>1, <2>1 DEF ChildrenMove, IsPut
    <3>4. QED BY <2>1, <3>2, <3>3
  <2>2. CASE entry'[c] = entry[c]
    <3>1. Unlimited(c)
      BY <1>11, <2>2 DEF Unlimited
    <3>2. <<entry[c].parent, c>> \in children
      BY <1>4, <1>11, <2>2, <3>1
    <3>3. QED BY <1>10, <2>2, <3>1, <3>2
  <2>3. QED BY <1>9, <1>11, <2>1, <2>2 DEF Unlimited
<1>12. ASSUME NEW q \in Proc, NEW i \in DOMAIN work'[q], NEW c \in Tok
       PROVE  PutLinked(q, i, c)'
  <2> DEFINE e == work'[q][i][3]
  <2> SUFFICES ASSUME IsPut(work'[q][i], c), e.uses = 0, e.parent # None
               PROVE  \/ <<e.parent, c>> \in children'
                      \/ \E j \in DOMAIN work'[q] :
                           j < i /\ Is(work'[q][j], "putParent", e.parent) /\ work'[q][j][3] = c
    BY DEF PutLinked
  <2>1. PICK k \in DOMAIN work[q] :
          (q = p => k > 1) /\ i = Place(p, st, q, k) /\ work'[q][i] = work[q][k]
    BY <1>2, <1>6 DEF IsPut
  <2>2. \/ <<e.parent, c>> \in children
        \/ \E j \in DOMAIN work[q] :
             j < k /\ Is(work[q][j], "putParent", e.parent) /\ work[q][j][3] = c
    BY <1>3, <2>1 DEF PutLinked
  <2>3. IsPut(work[q][k], c) /\ work[q][k][3].uses = 0
    BY <2>1
  <2> HIDE DEF e
  <2>4. CASE <<e.parent, c>> \in children
    <3>1. ~OnlyLimited(c)
      BY <2>3 DEF OnlyLimited
    <3>2. QED BY <1>10, <2>4, <3>1
  <2>5. CASE \E j \in DOMAIN work[q] :
               j < k /\ Is(work[q][j], "putParent", e.parent) /\ work[q][j][3] = c
    <3>1. PICK j \in DOMAIN work[q] :
               j < k /\ Is(work[q][j], "putParent", e.parent) /\ work[q][j][3] = c
      BY <2>5
    <3>2. \/ q = p /\ j = 1 /\ work[q][j] = h
          \/ /\ Place(p, st, q, j) \in DOMAIN work'[q]
             /\ Place(p, st, q, j) < i
             /\ work'[q][Place(p, st, q, j)] = work[q][j]
      BY <1>8, <2>1, <3>1
    <3>3. CASE work[q][j] = h
      BY <1>1, <3>1, <3>3 DEF ChildrenMove, Is
    <3>4. CASE /\ Place(p, st, q, j) \in DOMAIN work'[q]
               /\ Place(p, st, q, j) < i
               /\ work'[q][Place(p, st, q, j)] = work[q][j]
      BY <3>1, <3>4
    <3>5. QED BY <3>2, <3>3, <3>4
  <2>6. QED BY <2>2, <2>4, <2>5
<1>13. ASSUME NEW q \in Proc, NEW i \in DOMAIN work'[q], NEW c \in Tok
       PROVE  UnlinkOK(q, i, c)'
  <2> SUFFICES ASSUME work'[q][i][1] = "deleteParent", work'[q][i][3] = c
               PROVE  OnlyLimited(c)' /\ (Unlimited(c)' => Ending(work'[q], i, c))
    BY DEF UnlinkOK
  <2>1. CASE q = p /\ i \in DOMAIN st /\ work'[q][i] = st[i] /\ LeftBy(h, st, i)
    <3>1. /\ h[1] = "revoke" /\ h[2] = c /\ entry[c] # None
          /\ \E j \in DOMAIN st : j < i /\ Ends(st[j], c)
      BY <2>1 DEF LeftBy
    <3>2. c \notin fresh
      BY <1>1, <3>1 DEF StepOK, OfTok, UsedTok
    <3>3. ASSUME NEW r \in Proc, NEW j \in DOMAIN work[r], IsPut(work[r][j], c)
          PROVE  work[r][j][3].uses # 0
      <4>1. PutOK(r, j)
        BY DEF Puts
      <4>2. QED BY <3>1, <3>3, <4>1 DEF PutOK, IsPut
    <3>4. OnlyLimited(c)
      BY <3>2, <3>3 DEF OnlyLimited
    <3>5. Ending(work'[q], i, c)
      BY <1>1, <2>1, <3>1 DEF Ending, Moved
    <3>6. QED BY <1>5, <3>4, <3>5
  <2>2. CASE \E k \in DOMAIN work[q] :
              (q = p => k > 1) /\ i = Place(p, st, q, k) /\ work'[q][i] = work[q][k]
    <3>1. PICK k \in DOMAIN work[q] :
              (q = p => k > 1) /\ i = Place(p, st, q, k) /\ work'[q][i] = work[q][k]
      BY <2>2
    <3>2. OnlyLimited(c) /\ (Unlimited(c) => Ending(work[q], k, c))
      BY <1>3, <3>1 DEF UnlinkOK
    <3>3. Ending(work[q], k, c) => Ending(work'[q], i, c) \/ entry'[c] = None
      BY <3>1, EndingTaken
    <3>4. Unlimited(c)' => entry'[c] # None
      BY DEF Unlimited
    <3>5. QED BY <1>5, <3>2, <3>3, <3>4
  <2>3. QED BY <1>2, <2>1, <2>2
<1>14. QED BY <1>11, <1>12, <1>13 DEF Linked

LEMMA LinkedFewer ==
  ASSUME Linked, Fewer
  PROVE  Linked'
<1>1. \A q \in Proc : \A i \in DOMAIN work'[q] : work'[q] = work[q] /\ i \in DOMAIN work[q]
  BY FewerSteps
<1>2. entry' = entry /\ children' = children /\ fresh' = fresh
  BY DEF Fewer
<1>3. \A c : OnlyLimited(c) => OnlyLimited(c)'
  BY <1>1, <1>2 DEF OnlyLimited
<1>4. \A c : Unlimited(c)' <=> Unlimited(c)
  BY <1>2 DEF Unlimited
<1>5. ASSUME NEW q \in Proc, NEW i \in DOMAIN work'[q], NEW c \in Tok
      PROVE  PutLinked(q, i, c)' /\ UnlinkOK(q, i, c)'
  <2>1. PutLinked(q, i, c) /\ UnlinkOK(q, i, c) /\ work'[q] = work[q]
    BY <1>1 DEF Linked
  <2>2. PutLinked(q, i, c)'
    BY <1>2, <2>1 DEF PutLinked
  <2>3. UnlinkOK(q, i, c)'
    BY <1>3, <1>4, <2>1 DEF UnlinkOK
  <2>4. QED BY <2>2, <2>3
<1>6. \A c \in Tok : Unlimited(c)' /\ entry'[c].parent # None => <<entry'[c].parent, c>> \in children'
  BY <1>2, <1>4 DEF Linked
<1>7. QED BY <1>5, <1>6 DEF Linked

LEMMA LinkedAdds ==
  ASSUME Linked, NEW p, NEW st, Adds(p, st),
         \A i \in DOMAIN st :
           /\ st[i][1] # "deleteParent"
           /\ st[i][1] = "putId" => st[i][2] \in fresh
           /\ st[i][1] = "putId" /\ st[i][3].parent # None =>
                \E j \in DOMAIN st :
                  j < i /\ st[j][1] = "putParent" /\ st[j][2] = st[i][3].parent /\ st[j][3] = st[i][2]
  PROVE  Linked'
<1>1. \A q \in Proc : \A i \in DOMAIN work'[q] :
        \/ q = p /\ work'[q] = st /\ i \in DOMAIN st
        \/ q # p /\ work'[q] = work[q] /\ i \in DOMAIN work[q]
  BY AddsSteps
<1>2. entry' = entry /\ children' = children /\ fresh' \subseteq fresh
  BY DEF Adds
<1>3. \A c : OnlyLimited(c) => OnlyLimited(c)'
  <2> SUFFICES ASSUME NEW c, OnlyLimited(c) PROVE OnlyLimited(c)'
    OBVIOUS
  <2>1. \A i \in DOMAIN st : ~IsPut(st[i], c)
    BY DEF OnlyLimited, IsPut
  <2>2. QED BY <1>1, <1>2, <2>1 DEF OnlyLimited
<1>4. \A c : Unlimited(c)' <=> Unlimited(c)
  BY <1>2 DEF Unlimited
<1>5. ASSUME NEW q \in Proc, NEW i \in DOMAIN work'[q], NEW c \in Tok
      PROVE  PutLinked(q, i, c)' /\ UnlinkOK(q, i, c)'
  <2>1. CASE q = p /\ work'[q] = st /\ i \in DOMAIN st
    <3>1. UnlinkOK(q, i, c)'
      BY <2>1 DEF UnlinkOK
    <3>2. PutLinked(q, i, c)'
      BY <2>1 DEF PutLinked, IsPut, Is
    <3>3. QED BY <3>1, <3>2
  <2>2. CASE q # p /\ work'[q] = work[q] /\ i \in DOMAIN work[q]
    <3>1. PutLinked(q, i, c) /\ UnlinkOK(q, i, c)
      BY <2>2 DEF Linked
    <3>2. PutLinked(q, i, c)'
      BY <1>2, <2>2, <3>1 DEF PutLinked
    <3>3. UnlinkOK(q, i, c)'
      BY <1>3, <1>4, <2>2, <3>1 DEF UnlinkOK
    <3>4. QED BY <3>2, <3>3
  <2>3. QED BY <1>1, <2>1, <2>2
<1>6. \A c \in Tok : Unlimited(c)' /\ entry'[c].parent # None => <<entry'[c].parent, c>> \in children'
  BY <1>2, <1>4 DEF Linked
<1>7. QED BY <1>5, <1>6 DEF Linked

LEMMA LinkedPeeks ==
  ASSUME NEW S, Typed(S), Linked, NEW l, NEW st, Peeks(l, st)
  PROVE  Linked'
<1>1. Adds(Checker, st) /\ \A i \in DOMAIN st : PeekOK(st, i, l)
  BY PeeksAdd
<1>2. \A i \in DOMAIN st : st[i][1] \notin {"deleteParent", "putId"}
  BY <1>1 DEF PeekOK
<1>3. QED BY <1>1, <1>2, LinkedAdds

LEMMA LinkedAsks ==
  ASSUME NEW S, Typed(S), Linked, NEW p, NEW st, NEW ids, Asks(p, st, ids)
  PROVE  Linked'
<1>1. Adds(p, st) /\ ids \subseteq fresh /\ \A i \in DOMAIN st : AskOK(st, i, ids)
  BY AsksAdd
<1>2. ASSUME NEW i \in DOMAIN st
      PROVE  /\ st[i][1] # "deleteParent"
             /\ st[i][1] = "putId" => st[i][2] \in fresh
             /\ st[i][1] = "putId" /\ st[i][3].parent # None =>
                  \E j \in DOMAIN st :
                    j < i /\ st[j][1] = "putParent" /\ st[j][2] = st[i][3].parent /\ st[j][3] = st[i][2]
  <2>1. AskOK(st, i, ids)
    BY <1>1
  <2>2. QED BY <1>1, <2>1 DEF AskOK
<1>3. QED BY <1>1, <1>2, LinkedAdds

-----------------------------------------------------------------------------
(* Secrets.                                                                 *)

LEMMA StepsAre ==
  ASSUME NEW p \in Proc
  PROVE  /\ \A s : s \in Steps(p) <=> \E i \in DOMAIN work[p] : work[p][i] = s
         /\ \A s : s \in Steps(p)' <=> \E i \in DOMAIN work'[p] : work'[p][i] = s
BY DEF Steps, ToSet

LEMMA RegisteredTaken ==
  ASSUME NEW S, Typed(S), NEW p \in Proc, NEW st, Takes(p, st), NEW l \in Sec, Registered(l)
  PROVE  Registered(l)' /\ lease'[l] \in {None, lease[l]}
<1> DEFINE h == Head(work[p])
<1>1. /\ After(p, st) /\ StepOK(h) /\ LeasesMove(h) /\ 1 \in DOMAIN work[p] /\ work[p][1] = h
      /\ fresh' = fresh
  BY TakesDoes DEF HistoryMoves
<1>2. \A q \in Proc : \A i \in DOMAIN work'[q] :
         \/ q = p /\ i \in DOMAIN st /\ work'[q][i] = st[i] /\ LeftBy(h, st, i)
         \/ \E k \in DOMAIN work[q] :
              (q = p => k > 1) /\ i = Place(p, st, q, k) /\ work'[q][i] = work[q][k]
  BY <1>1, Sources
<1>3. Registering(h, l) \/ lease'[l] \in {None, lease[l]}
  BY <1>1, LeaseAt, DisjointIds
<1> HIDE DEF h
<1>4. ~Registering(h, l)
  <2>1. ~Registers(h, l)
    BY <1>1 DEF Registered
  <2>2. ~(h[1] \in {"register_auth", "renewed"} /\ h[2] = l)
    BY <1>1, DisjointIds DEF StepOK, OfTok, UsedTok
  <2>3. QED BY <2>1, <2>2 DEF Registering, Registers
<1>5. ASSUME NEW q \in Proc, NEW i \in DOMAIN work'[q] PROVE ~Registers(work'[q][i], l)
  <2>1. CASE q = p /\ i \in DOMAIN st /\ work'[q][i] = st[i] /\ LeftBy(h, st, i)
    BY <2>1 DEF LeftBy, Registers
  <2>2. CASE \E k \in DOMAIN work[q] : work'[q][i] = work[q][k]
    BY <2>2 DEF Registered
  <2>3. QED BY <1>2, <2>1, <2>2
<1>6. Registered(l)'
  BY <1>1, <1>5 DEF Registered
<1>7. QED BY <1>3, <1>4, <1>6

(* A secret is registered once. *)
LEMMA NowRegistered ==
  ASSUME NEW S, Typed(S), Secrets, NEW p \in Proc, NEW st, Takes(p, st),
         NEW h, h = Head(work[p]), NEW l \in Sec, Registers(h, l)
  PROVE  Registered(l)'
<1>1. After(p, st) /\ StepOK(h) /\ 1 \in DOMAIN work[p] /\ work[p][1] = h /\ fresh' = fresh
  BY TakesDoes DEF HistoryMoves
<1>2. \A q \in Proc : \A i \in DOMAIN work'[q] :
         \/ q = p /\ i \in DOMAIN st /\ work'[q][i] = st[i] /\ LeftBy(h, st, i)
         \/ \E k \in DOMAIN work[q] :
              (q = p => k > 1) /\ i = Place(p, st, q, k) /\ work'[q][i] = work[q][k]
  BY <1>1, Sources
<1>3. RegisterOK(p, 1, l)
  BY <1>1 DEF Secrets
<1>4. \A q \in Proc : \A j \in DOMAIN work[q] : Registers(work[q][j], l) => q = p /\ j = 1
  BY <1>1, <1>3 DEF RegisterOK
<1>5. ASSUME NEW q \in Proc, NEW i \in DOMAIN work'[q] PROVE ~Registers(work'[q][i], l)
  <2>1. CASE q = p /\ i \in DOMAIN st /\ work'[q][i] = st[i] /\ LeftBy(h, st, i)
    BY <2>1 DEF LeftBy, Registers
  <2>2. CASE \E k \in DOMAIN work[q] : (q = p => k > 1) /\ work'[q][i] = work[q][k]
    BY <1>4, <2>2
  <2>3. QED BY <1>2, <2>1, <2>2
<1>6. l \notin fresh
  BY <1>1 DEF StepOK, OfSec, UsedSec, Registers
<1>7. QED BY <1>1, <1>5, <1>6 DEF Registered

LEMMA EndingLeaseTaken ==
  ASSUME NEW S, Typed(S), NEW p \in Proc, NEW st, Takes(p, st),
         NEW q \in Proc, NEW k \in DOMAIN work[q], q = p => k > 1,
         NEW l \in Lease, EndingLease(work[q], k, l)
  PROVE  EndingLease(work'[q], Place(p, st, q, k), l) \/ lease'[l] = None
<1> DEFINE h == Head(work[p]) n == Place(p, st, q, k)
<1>1. After(p, st) /\ LeasesMove(h)
  BY TakesDoes
<1>2. h[1] = "delete_lease_entry" /\ h[2] = l => lease'[l] = None
  <2>1. ~(h[1] = "delete_lease_entry" /\ Registering(h, l))
    BY DEF Registering
  <2>2. QED BY <1>1, <2>1, LeaseAt
<1>3. \A j \in DOMAIN work[q] : j < k =>
        \/ q = p /\ j = 1 /\ work[q][j] = h
        \/ /\ Place(p, st, q, j) \in DOMAIN work'[q] /\ Place(p, st, q, j) < n
           /\ work'[q][Place(p, st, q, j)] = work[q][j]
  BY <1>1, Before
<1>4. PICK j \in DOMAIN work[q] : j < k /\ work[q][j][1] = "delete_lease_entry" /\ work[q][j][2] = l
  BY DEF EndingLease
<1> HIDE DEF h, n
<1>5. CASE work[q][j] = h
  BY <1>2, <1>4, <1>5
<1>6. CASE /\ Place(p, st, q, j) \in DOMAIN work'[q] /\ Place(p, st, q, j) < n
           /\ work'[q][Place(p, st, q, j)] = work[q][j]
  BY <1>4, <1>6 DEF EndingLease, n
<1>7. QED BY <1>3, <1>4, <1>5, <1>6

LEMMA IndexedTaken ==
  ASSUME NEW S, Typed(S), Secrets, NEW p \in Proc, NEW st, Takes(p, st)
  PROVE  LeaseIndexed'
<1> DEFINE h == Head(work[p])
<1>1. /\ After(p, st) /\ StepOK(h) /\ LeasesMove(h) /\ IndexMoves(h) /\ Completes(h, st)
      /\ 1 \in DOMAIN work[p] /\ work[p][1] = h /\ faults' = faults /\ Moved(p, st)
  BY TakesDoes DEF HistoryMoves
<1>2. \A q \in Proc : \A k \in DOMAIN work[q] : (q = p => k > 1) =>
        Place(p, st, q, k) \in DOMAIN work'[q] /\ work'[q][Place(p, st, q, k)] = work[q][k]
  BY <1>1, Before
<1>3. h[1] = "register_secret" => p \in Callers
  <2>1. \A i \in DOMAIN work[Checker] : work[Checker][i][1] \in CheckerOps
    BY DEF Typed, Threads
  <2>2. QED BY <1>1, <2>1 DEF CheckerOps, Proc
<1>a. /\ DOMAIN work[p] \subseteq Nat \ {0}
      /\ \A i \in DOMAIN st : i \in DOMAIN work'[p] /\ work'[p][i] = st[i]
  BY <1>1 DEF Moved
<1> HIDE DEF h
<1>4. SUFFICES ASSUME NEW s \in Sec, lease'[s] # None
               PROVE  \/ <<lease'[s].token, s>> \in index' \/ faults' > 0
                      \/ \E q \in Callers : <<"create_index", lease'[s].token, s>> \in Steps(q)'
  BY DEF LeaseIndexed
<1>5. \/ h[1] = "register_secret" /\ h[3] = s /\ lease'[s] = [token |-> h[2], expire |-> now + Ttl]
      \/ lease'[s] = lease[s]
  <2>1. ~(h[1] \in {"register_auth", "renewed"} /\ h[2] = s)
    BY <1>1, DisjointIds DEF StepOK, OfTok, UsedTok
  <2>2. QED BY <1>1, <1>4, <2>1, LeaseAt, DisjointIds DEF Registering
<1>6. CASE h[1] = "register_secret" /\ h[3] = s /\ lease'[s] = [token |-> h[2], expire |-> now + Ttl]
  <2>1. PICK i \in DOMAIN st : st[i] = <<"create_index", h[2], s>>
    BY <1>1, <1>6 DEF Completes
  <2>2. <<"create_index", h[2], s>> \in Steps(p)'
    BY <1>a, <2>1, StepsAre
  <2>3. QED BY <1>3, <1>6, <2>2
<1>7. CASE lease'[s] = lease[s]
  <2>1. \/ <<lease[s].token, s>> \in index \/ faults > 0
        \/ \E q \in Callers : <<"create_index", lease[s].token, s>> \in Steps(q)
    BY <1>4, <1>7 DEF Secrets, LeaseIndexed
  <2>2. CASE <<lease[s].token, s>> \in index
    <3>1. CASE h[1] = "remove_index" /\ h[3] = s
      <4>1. SecretOK(p, 1, s)
        BY <1>1 DEF Secrets
      <4>2. EndingLease(work[p], 1, s)
        BY <1>1, <1>4, <1>7, <3>1, <4>1 DEF SecretOK
      <4>3. QED BY <1>a, <4>2 DEF EndingLease
    <3>2. CASE ~(h[1] = "remove_index" /\ h[3] = s)
      BY <1>1, <1>7, <2>2, <3>2 DEF IndexMoves
    <3>3. QED BY <3>1, <3>2
  <2>3. CASE \E q \in Callers : <<"create_index", lease[s].token, s>> \in Steps(q)
    <3>1. PICK q \in Callers : <<"create_index", lease[s].token, s>> \in Steps(q)
      BY <2>3
    <3>2. q \in Proc
      BY DEF Proc
    <3>3. PICK k \in DOMAIN work[q] : work[q][k] = <<"create_index", lease[s].token, s>>
      BY <3>1, <3>2, StepsAre
    <3>4. CASE q = p /\ k = 1
      BY <1>1, <1>7, <3>3, <3>4 DEF IndexMoves
    <3>5. CASE q = p => k > 1
      <4>1. \E i \in DOMAIN work'[q] : work'[q][i] = <<"create_index", lease[s].token, s>>
        BY <1>2, <3>2, <3>3, <3>5
      <4>2. <<"create_index", lease[s].token, s>> \in Steps(q)'
        BY <3>2, <4>1, StepsAre
      <4>3. QED BY <1>7, <4>2
    <3>6. q = p => k = 1 \/ k > 1
      BY <1>a
    <3>7. QED BY <3>4, <3>5, <3>6
  <2>4. QED BY <1>1, <2>1, <2>2, <2>3
<1>8. QED BY <1>5, <1>6, <1>7

LEMMA SecretsTaken ==
  ASSUME NEW S, Typed(S), Secrets, NEW p \in Proc, NEW st, Takes(p, st)
  PROVE  Secrets'
<1> DEFINE h == Head(work[p])
<1>1. /\ After(p, st) /\ StepOK(h) /\ LeasesMove(h) /\ IndexMoves(h) /\ QueueMoves(h)
      /\ 1 \in DOMAIN work[p] /\ work[p][1] = h /\ Moved(p, st)
  BY TakesDoes
<1>2. \A q \in Proc : \A i \in DOMAIN work'[q] :
         \/ q = p /\ i \in DOMAIN st /\ work'[q][i] = st[i] /\ LeftBy(h, st, i)
         \/ \E k \in DOMAIN work[q] :
              (q = p => k > 1) /\ i = Place(p, st, q, k) /\ work'[q][i] = work[q][k]
  BY <1>1, Sources
<1>3. \A q \in Proc : \A k \in DOMAIN work[q] :
        AgainOK(q, k) /\ \A l \in Sec : RegisterOK(q, k, l) /\ SecretOK(q, k, l)
  BY DEF Secrets
<1>4. \A s \in Sec : lease[s] # None => Registered(s)
  BY DEF Secrets
<1>5. \A l \in Sec : Registered(l) => Registered(l)' /\ lease'[l] \in {None, lease[l]}
  BY RegisteredTaken
<1>6. \A l \in Sec : Registers(h, l) => Registered(l)'
  BY NowRegistered
<1>7. \A j \in DOMAIN work[p] : ~(j < 1)
  BY <1>1 DEF Moved
<1>8. now + Ttl \in Nat /\ now + Ttl # 0
  BY TtlAssumption, BoundAssumption DEF Typed, Stores, TypeOK
<1>9. \A i \in DOMAIN st : i \in DOMAIN work'[p] /\ work'[p][i] = st[i]
  BY <1>1 DEF Moved
<1> HIDE DEF h
<1>10. ASSUME NEW q \in Proc, NEW i \in DOMAIN work'[q]
       PROVE  AgainOK(q, i)'
  <2>1. CASE q = p /\ i \in DOMAIN st /\ work'[q][i] = st[i] /\ LeftBy(h, st, i)
    <3>1. ASSUME st[i][1] = "push", st[i][3] = 0 PROVE st[i][2] \in Sec
      <4>1. h[1] = "revoke_lease_id" /\ st[i][2] = h[2] /\ h[3]
        BY <1>8, <2>1, <3>1 DEF LeftBy
      <4>2. AgainOK(p, 1)
        BY <1>1, <1>3
      <4>3. QED BY <1>1, <4>1, <4>2 DEF AgainOK
    <3>2. ASSUME st[i][1] = "revoke_lease_id" PROVE st[i][2] \in Sec /\ st[i][3]
      BY <2>1, <3>2 DEF LeftBy
    <3>3. QED BY <2>1, <3>1, <3>2 DEF AgainOK
  <2>2. CASE \E k \in DOMAIN work[q] : work'[q][i] = work[q][k]
    BY <1>3, <2>2 DEF AgainOK
  <2>3. QED BY <1>2, <2>1, <2>2
<1>11. ASSUME NEW q \in Proc, NEW i \in DOMAIN work'[q], NEW l \in Sec
       PROVE  RegisterOK(q, i, l)'
  <2> SUFFICES ASSUME Registers(work'[q][i], l), NEW r \in Proc, NEW j \in DOMAIN work'[r],
                      Registers(work'[r][j], l)
               PROVE  r = q /\ j = i
    BY DEF RegisterOK
  <2>1. \A m : ~(LeftBy(h, st, m) /\ Registers(st[m], l))
    BY DEF LeftBy, Registers
  <2>2. PICK k \in DOMAIN work[q] : i = Place(p, st, q, k) /\ work'[q][i] = work[q][k]
    BY <1>2, <2>1
  <2>3. PICK n \in DOMAIN work[r] : j = Place(p, st, r, n) /\ work'[r][j] = work[r][n]
    BY <1>2, <2>1
  <2>4. RegisterOK(q, k, l)
    BY <1>3
  <2>5. r = q /\ n = k
    BY <2>2, <2>3, <2>4 DEF RegisterOK
  <2>6. QED BY <2>2, <2>3, <2>5
<1>12. ASSUME NEW q \in Proc, NEW i \in DOMAIN work'[q], NEW l \in Sec
       PROVE  SecretOK(q, i, l)'
  <2> DEFINE s == work'[q][i]
  <2>1. CASE q = p /\ i \in DOMAIN st /\ work'[q][i] = st[i] /\ LeftBy(h, st, i)
    <3>1. ASSUME s[1] = "create_index", s[3] = l PROVE Registered(l)'
      <4>1. Registers(h, l)
        BY <2>1, <3>1 DEF LeftBy, Registers
      <4>2. QED BY <1>6, <4>1
    <3>2. ASSUME (s[1] = "remove_index" /\ s[3] = l) \/ (Is(s, "push", l) /\ s[3] = 0)
          PROVE  Registered(l)' /\ EndingLease(work'[q], i, l)
      <4>1. /\ h[2] = l /\ lease[h[2]] # None
            /\ \E j \in DOMAIN st : j < i /\ st[j][1] = "delete_lease_entry" /\ st[j][2] = h[2]
        BY <1>8, <2>1, <3>2 DEF LeftBy, Is
      <4>2. Registered(l)'
        BY <1>4, <1>5, <4>1
      <4>3. EndingLease(work'[q], i, l)
        BY <1>9, <2>1, <4>1 DEF EndingLease
      <4>4. QED BY <4>2, <4>3
    <3>3. QED BY <3>1, <3>2 DEF SecretOK
  <2>2. CASE \E k \in DOMAIN work[q] :
              (q = p => k > 1) /\ i = Place(p, st, q, k) /\ work'[q][i] = work[q][k]
    <3>1. PICK k \in DOMAIN work[q] :
              (q = p => k > 1) /\ i = Place(p, st, q, k) /\ work'[q][i] = work[q][k]
      BY <2>2
    <3>2. SecretOK(q, k, l)
      BY <1>3
    <3>3. ASSUME s[1] = "create_index", s[3] = l PROVE Registered(l)'
      BY <1>5, <3>1, <3>2, <3>3 DEF SecretOK
    <3>4. ASSUME (s[1] = "remove_index" /\ s[3] = l) \/ (Is(s, "push", l) /\ s[3] = 0)
          PROVE  Registered(l)' /\ (lease'[l] = None \/ EndingLease(work'[q], i, l))
      <4>1. Registered(l) /\ (lease[l] = None \/ EndingLease(work[q], k, l))
        BY <3>1, <3>2, <3>4 DEF SecretOK
      <4>2. EndingLease(work[q], k, l) => EndingLease(work'[q], i, l) \/ lease'[l] = None
        BY <3>1, EndingLeaseTaken, DisjointIds
      <4>3. QED BY <1>5, <4>1, <4>2
    <3>5. QED BY <3>3, <3>4 DEF SecretOK
  <2>3. QED BY <1>2, <2>1, <2>2
<1>13. ASSUME NEW s \in Sec, lease'[s] # None PROVE Registered(s)'
  <2>1. Registering(h, s) \/ lease'[s] = lease[s]
    BY <1>1, <1>13, LeaseAt, DisjointIds
  <2>2. CASE Registering(h, s)
    <3>1. ~(h[1] \in {"register_auth", "renewed"} /\ h[2] = s)
      BY <1>1, DisjointIds DEF StepOK, OfTok, UsedTok
    <3>2. QED BY <1>6, <2>2, <3>1 DEF Registering, Registers
  <2>3. QED BY <1>4, <1>5, <1>13, <2>1, <2>2
<1>14. ASSUME NEW s \in Sec, NEW r \in index', r[2] = s PROVE Registered(s)'
  <2>1. CASE r \in index
    BY <1>5, <1>14, <2>1 DEF Secrets
  <2>2. CASE h[1] = "create_index" /\ r = <<h[2], h[3]>>
    <3>1. SecretOK(p, 1, s)
      BY <1>1, <1>3
    <3>2. Registered(s)
      BY <1>1, <1>14, <2>2, <3>1 DEF SecretOK
    <3>3. QED BY <1>5, <3>2
  <2>3. QED BY <1>1, <1>14, <2>1, <2>2 DEF IndexMoves
<1>15. ASSUME NEW l \in Lease, queue'[l] = 0 PROVE l \in Sec /\ Registered(l)' /\ lease'[l] = None
  <2>1. queue \in [Lease -> Nat \cup {None}]
    BY DEF Typed, Stores, TypeOK
  <2>2. \/ h[1] = "push" /\ h[2] = l /\ h[3] = 0
        \/ queue[l] = 0
    BY <1>1, <1>15, <2>1, NoneAssumption DEF QueueMoves
  <2>3. CASE h[1] = "push" /\ h[2] = l /\ h[3] = 0
    <3>1. AgainOK(p, 1) /\ l \in Sec
      BY <1>1, <1>3, <2>3 DEF AgainOK
    <3>2. SecretOK(p, 1, l)
      BY <1>1, <1>3, <3>1
    <3>3. Registered(l) /\ (lease[l] = None \/ EndingLease(work[p], 1, l))
      BY <1>1, <2>3, <3>2 DEF SecretOK, Is
    <3>4. lease[l] = None
      BY <1>7, <3>3 DEF EndingLease
    <3>5. QED BY <1>5, <3>1, <3>3, <3>4
  <2>4. CASE queue[l] = 0
    <3>1. l \in Sec /\ Registered(l) /\ lease[l] = None
      BY <2>4 DEF Secrets
    <3>2. QED BY <1>5, <3>1
  <2>5. QED BY <2>2, <2>3, <2>4
<1>16. LeaseIndexed'
  BY IndexedTaken
<1>17. QED BY <1>10, <1>11, <1>12, <1>13, <1>14, <1>15, <1>16 DEF Secrets

LEMMA SecretsFewer ==
  ASSUME Secrets, Fewer, LeaseIndexed', \A l \in Lease : queue'[l] = 0 => queue[l] = 0
  PROVE  Secrets'
<1>1. \A q \in Proc : \A i \in DOMAIN work'[q] : work'[q] = work[q] /\ i \in DOMAIN work[q]
  BY FewerSteps
<1>2. lease' = lease /\ index' = index /\ fresh' = fresh
  BY DEF Fewer
<1>3. \A l : Registered(l) => Registered(l)'
  BY <1>1, <1>2 DEF Registered
<1>4. ASSUME NEW q \in Proc, NEW i \in DOMAIN work'[q]
      PROVE  AgainOK(q, i)' /\ \A l \in Sec : RegisterOK(q, i, l)' /\ SecretOK(q, i, l)'
  <2>1. /\ AgainOK(q, i) /\ \A l \in Sec : RegisterOK(q, i, l) /\ SecretOK(q, i, l)
        /\ work'[q] = work[q]
    BY <1>1 DEF Secrets
  <2>2. AgainOK(q, i)'
    BY <2>1 DEF AgainOK
  <2>3. ASSUME NEW l \in Sec PROVE RegisterOK(q, i, l)'
    BY <1>1, <2>1 DEF RegisterOK
  <2>4. ASSUME NEW l \in Sec PROVE SecretOK(q, i, l)'
    BY <1>2, <1>3, <2>1 DEF SecretOK
  <2>5. QED BY <2>2, <2>3, <2>4
<1>5. \A s \in Sec : lease'[s] # None => Registered(s)'
  BY <1>2, <1>3 DEF Secrets
<1>6. \A s \in Sec : (\E r \in index' : r[2] = s) => Registered(s)'
  BY <1>2, <1>3 DEF Secrets
<1>7. \A l \in Lease : queue'[l] = 0 => l \in Sec /\ Registered(l)' /\ lease'[l] = None
  BY <1>2, <1>3 DEF Secrets
<1>8. QED BY <1>4, <1>5, <1>6, <1>7 DEF Secrets

(* A task that stops had nothing to index, or a storage operation failed. *)
LEMMA SecretsDropped ==
  ASSUME NEW S, Typed(S), Secrets, NEW p \in Proc, Dropped(p)
  PROVE  Secrets'
<1>1. Fewer
  BY IsFewer
<1>2. queue' = queue /\ lease' = lease /\ index' = index
  BY DEF Dropped, storage
<1>3. work \in [Proc -> Seq(S)] /\ Threads /\ faults \in Nat /\ LeaseIndexed
  BY DEF Typed, Stores, Secrets
<1>4. work'[p] = <<>> /\ \A q \in Proc : q # p => work'[q] = work[q]
  BY <1>3 DEF Dropped, Refuse
<1>5. CASE faults' = faults + 1
  <2>1. faults' > 0
    BY <1>3, <1>5
  <2>2. QED BY <1>1, <1>2, <2>1, SecretsFewer DEF LeaseIndexed
<1>6. CASE Head(work[p])[1] \in Refusing /\ faults' = faults
  <2>1. 1 \in DOMAIN work[p] /\ work[p][1] = Head(work[p]) /\ DOMAIN work[p] \subseteq Nat \ {0}
    <3>1. work[p] # <<>>
      BY DEF Dropped
    <3>2. work[p] \in Seq(S)
      BY <1>3
    <3>3. QED BY <3>1, <3>2, HeadOK, LenProperties
  <2>2. ASSUME NEW q \in Callers, NEW s, s[1] = "create_index", s \in Steps(q)
        PROVE  s \in Steps(q)'
    <3>1. q \in Proc
      BY DEF Proc
    <3>2. CASE q # p
      BY <1>4, <2>2, <3>1, <3>2, StepsAre
    <3>3. CASE q = p
      <4>1. PICK i \in DOMAIN work[p] : work[p][i] = s
        BY <2>2, <3>1, <3>3, StepsAre
      <4>2. i # 1
        BY <1>6, <2>1, <2>2, <4>1 DEF Refusing
      <4>3. i > 1
        BY <2>1, <4>2
      <4>4. Ordered(work[p])
        BY <1>3, <3>3 DEF Threads
      <4>5. QED BY <1>6, <2>1, <2>2, <4>1, <4>3, <4>4 DEF Ordered
    <3>4. QED BY <3>2, <3>3
  <2>3. ASSUME NEW s \in Sec, lease'[s] # None
        PROVE  \/ <<lease'[s].token, s>> \in index' \/ faults' > 0
               \/ \E q \in Callers : <<"create_index", lease'[s].token, s>> \in Steps(q)'
    <3>1. \/ <<lease[s].token, s>> \in index \/ faults > 0
          \/ \E q \in Callers : <<"create_index", lease[s].token, s>> \in Steps(q)
      BY <1>2, <1>3, <2>3 DEF LeaseIndexed
    <3>2. CASE \E q \in Callers : <<"create_index", lease[s].token, s>> \in Steps(q)
      <4>1. PICK q \in Callers : <<"create_index", lease[s].token, s>> \in Steps(q)
        BY <3>2
      <4>2. <<"create_index", lease[s].token, s>> \in Steps(q)'
        BY <2>2, <4>1
      <4>3. QED BY <1>2, <4>2
    <3>3. QED BY <1>2, <1>6, <3>1, <3>2
  <2>4. LeaseIndexed'
    BY <2>3 DEF LeaseIndexed
  <2>5. QED BY <1>1, <1>2, <2>4, SecretsFewer
<1>7. QED BY <1>5, <1>6 DEF Dropped

LEMMA SecretsStill ==
  ASSUME NEW S, Typed(S), Secrets, Locks \/ Tick
  PROVE  Secrets'
<1>1. Fewer
  BY IsFewer
<1>2. queue' = queue /\ lease' = lease /\ index' = index /\ work' = work /\ faults' = faults
  BY DEF Locks, Tick, storage, ghosts
<1>3. LeaseIndexed'
  BY <1>2 DEF Secrets, LeaseIndexed, Steps
<1>4. QED BY <1>1, <1>2, <1>3, SecretsFewer

LEMMA SecretsCrash ==
  ASSUME NEW S, Typed(S), Secrets, Crash
  PROVE  Secrets'
<1>1. Fewer
  BY IsFewer
<1>2. faults' > 0 /\ queue' = restore
  BY DEF Crash, Typed, Stores
<1>3. LeaseIndexed'
  BY <1>2 DEF LeaseIndexed
<1>4. ASSUME NEW l \in Lease PROVE queue'[l] # 0
  <2>1. restore[l] = IF lease[l] = None THEN None ELSE lease[l].expire
    BY DEF restore
  <2>2. lease[l] # None => lease[l].expire > 0
    BY DEF Typed, Stores
  <2>3. QED BY <1>2, <2>1, <2>2, NoneAssumption
<1>5. QED BY <1>1, <1>3, <1>4, SecretsFewer

LEMMA SecretsAdds ==
  ASSUME NEW S, Typed(S), Secrets, NEW p, NEW st, Adds(p, st),
         \A i \in DOMAIN st :
           /\ st[i][1] \notin {"create_index", "remove_index", "push"}
           /\ st[i][1] = "register_secret" =>
                st[i][3] \in fresh /\ \A j \in DOMAIN st : Registers(st[j], st[i][3]) => j = i
           /\ st[i][1] = "revoke_lease_id" => st[i][3] = FALSE /\ p = Checker
  PROVE  Secrets'
<1>1. \A q \in Proc : \A i \in DOMAIN work'[q] :
        \/ q = p /\ work'[q] = st /\ i \in DOMAIN st
        \/ q # p /\ work'[q] = work[q] /\ i \in DOMAIN work[q]
  BY AddsSteps
<1>2. lease' = lease /\ index' = index /\ queue' = queue /\ faults' = faults /\ fresh' \subseteq fresh
  BY DEF Adds
<1>3. \A l : Registered(l) => Registered(l)'
  <2> SUFFICES ASSUME NEW l, Registered(l) PROVE Registered(l)'
    OBVIOUS
  <2>1. \A i \in DOMAIN st : ~Registers(st[i], l)
    BY DEF Registered, Registers
  <2>2. QED BY <1>1, <1>2, <2>1 DEF Registered
<1>4. \A q \in Proc : \A i \in DOMAIN work[q] : work[q][i][1] = "register_secret" => work[q][i][3] \notin fresh
  BY AllOK DEF StepOK, OfSec, UsedSec
<1>5. ASSUME NEW q \in Proc, NEW i \in DOMAIN work'[q] PROVE AgainOK(q, i)'
  <2>1. CASE q = p /\ work'[q] = st /\ i \in DOMAIN st
    BY <2>1 DEF AgainOK
  <2>2. CASE q # p /\ work'[q] = work[q] /\ i \in DOMAIN work[q]
    <3>1. AgainOK(q, i)
      BY <2>2 DEF Secrets
    <3>2. QED BY <2>2, <3>1 DEF AgainOK
  <2>3. QED BY <1>1, <2>1, <2>2
<1>6. ASSUME NEW q \in Proc, NEW i \in DOMAIN work'[q], NEW l \in Sec PROVE RegisterOK(q, i, l)'
  <2> SUFFICES ASSUME Registers(work'[q][i], l), NEW r \in Proc, NEW j \in DOMAIN work'[r],
                      Registers(work'[r][j], l)
               PROVE  r = q /\ j = i
    BY DEF RegisterOK
  <2>1. CASE q = p /\ work'[q] = st /\ i \in DOMAIN st
    BY <1>1, <1>4, <2>1 DEF Registers
  <2>2. CASE q # p /\ work'[q] = work[q] /\ i \in DOMAIN work[q]
    <3>1. RegisterOK(q, i, l)
      BY <2>2 DEF Secrets
    <3>2. QED BY <1>1, <1>4, <2>2, <3>1 DEF RegisterOK, Registers
  <2>3. QED BY <1>1, <2>1, <2>2
<1>7. ASSUME NEW q \in Proc, NEW i \in DOMAIN work'[q], NEW l \in Sec PROVE SecretOK(q, i, l)'
  <2>1. CASE q = p /\ work'[q] = st /\ i \in DOMAIN st
    BY <2>1 DEF SecretOK, Is
  <2>2. CASE q # p /\ work'[q] = work[q] /\ i \in DOMAIN work[q]
    <3>1. SecretOK(q, i, l)
      BY <2>2 DEF Secrets
    <3>2. QED BY <1>2, <1>3, <2>2, <3>1 DEF SecretOK
  <2>3. QED BY <1>1, <2>1, <2>2
<1>8. \A s \in Sec : lease'[s] # None => Registered(s)'
  BY <1>2, <1>3 DEF Secrets
<1>9. \A s \in Sec : (\E r \in index' : r[2] = s) => Registered(s)'
  BY <1>2, <1>3 DEF Secrets
<1>10. \A l \in Lease : queue'[l] = 0 => l \in Sec /\ Registered(l)' /\ lease'[l] = None
  BY <1>2, <1>3 DEF Secrets
<1>11. ASSUME NEW q \in Callers, NEW s, s \in Steps(q) PROVE s \in Steps(q)'
  <2>1. q \in Proc
    BY DEF Proc
  <2>2. PICK i \in DOMAIN work[q] : work[q][i] = s
    BY <1>11, <2>1, StepsAre
  <2>3. work[p] = <<>> /\ \A r \in Proc : r # p => work'[r] = work[r]
    BY DEF Adds
  <2>4. q # p
    BY <2>2, <2>3
  <2>5. QED BY <1>11, <2>1, <2>3, <2>4, StepsAre
<1>12. LeaseIndexed'
  BY <1>2, <1>11 DEF Secrets, LeaseIndexed
<1>13. QED BY <1>5, <1>6, <1>7, <1>8, <1>9, <1>10, <1>12 DEF Secrets

LEMMA SecretsPeeks ==
  ASSUME NEW S, Typed(S), Secrets, NEW l, NEW st, Peeks(l, st)
  PROVE  Secrets'
<1>1. Adds(Checker, st) /\ \A i \in DOMAIN st : PeekOK(st, i, l)
  BY PeeksAdd
<1>2. \A i \in DOMAIN st :
        /\ st[i][1] \in {"pop", "revoke_lease_id"}
        /\ st[i][1] = "revoke_lease_id" => st[i][3] = FALSE
  BY <1>1 DEF PeekOK
<1>3. QED BY <1>1, <1>2, SecretsAdds

LEMMA SecretsAsks ==
  ASSUME NEW S, Typed(S), Secrets, NEW p, NEW st, NEW ids, Asks(p, st, ids)
  PROVE  Secrets'
<1>1. Adds(p, st) /\ ids \subseteq fresh /\ \A i \in DOMAIN st : AskOK(st, i, ids)
  BY AsksAdd
<1>2. ASSUME NEW i \in DOMAIN st
      PROVE  /\ st[i][1] \notin {"create_index", "remove_index", "push", "revoke_lease_id"}
             /\ st[i][1] = "register_secret" =>
                  st[i][3] \in fresh /\ \A j \in DOMAIN st : Registers(st[j], st[i][3]) => j = i
  <2>1. AskOK(st, i, ids)
    BY <1>1
  <2>2. QED BY <1>1, <2>1 DEF AskOK
<1>3. QED BY <1>1, <1>2, SecretsAdds

-----------------------------------------------------------------------------
(* What revocations promise.                                                *)

LEMMA ToEndLeaseTaken ==
  ASSUME NEW S, Typed(S), Secrets, NEW p \in Proc, NEW st, Takes(p, st),
         NEW q \in Proc, NEW k \in DOMAIN work[q], q = p => k > 1,
         NEW x \in Sec, Registered(x), ToEndLease(work[q], k, x),
         NEW i, i = Place(p, st, q, k)
  PROVE  ToEndLease(work[q], i, x)' \/ lease'[x] = None
<1> DEFINE h == Head(work[p])
<1>1. After(p, st) /\ LeasesMove(h) /\ IndexMoves(h) /\ Completes(h, st)
      /\ 1 \in DOMAIN work[p] /\ work[p][1] = h /\ Moved(p, st)
  BY TakesDoes
<1>2. lease'[x] \in {None, lease[x]}
  BY RegisteredTaken
<1>3. h[1] = "delete_lease_entry" /\ h[2] = x => lease'[x] = None
  <2>1. ~(h[1] = "delete_lease_entry" /\ Registering(h, x))
    BY DEF Registering
  <2>2. QED BY <1>1, <2>1, LeaseAt, DisjointIds
<1>4. /\ q = p => \A n \in DOMAIN st : n \in DOMAIN work'[q] /\ n < i /\ work'[q][n] = st[n]
      /\ \A j \in DOMAIN work[q] : j < k =>
           \/ q = p /\ j = 1 /\ work[q][j] = h
           \/ /\ Place(p, st, q, j) \in DOMAIN work'[q] /\ Place(p, st, q, j) < i
              /\ work'[q][Place(p, st, q, j)] = work[q][j]
  BY <1>1, Before
<1>5. PICK j \in DOMAIN work[q] : j < k /\ EndsLease(work[q][j], x)
  BY DEF ToEndLease
<1>6. ASSUME NEW a, NEW b, <<a, b>> \in index, <<a, b>> \notin index', b = x
      PROVE  lease[x] = None
  <2>1. h[1] = "remove_index" /\ h[3] = x
    BY <1>1, <1>6 DEF IndexMoves
  <2>2. SecretOK(p, 1, x)
    BY <1>1 DEF Secrets
  <2>3. ~EndingLease(work[p], 1, x)
    BY <1>1 DEF EndingLease, Moved
  <2>4. QED BY <1>1, <2>1, <2>2, <2>3 DEF SecretOK
<1> HIDE DEF h
<1>7. ASSUME NEW n \in DOMAIN work'[q], n < i, EndsLease(work'[q][n], x)
      PROVE  ToEndLease(work[q], i, x)' \/ lease'[x] = None
  <2>1. CASE work'[q][n][1] \in {"revoke_lease_id", "delete_lease_entry"} /\ work'[q][n][2] = x
    BY <1>7, <2>1 DEF ToEndLease, EndsLease
  <2>2. CASE work'[q][n][1] = "revoke_by_token" /\ <<work'[q][n][2], x>> \in index
    <3>1. CASE <<work'[q][n][2], x>> \in index'
      BY <1>7, <2>2, <3>1 DEF ToEndLease, EndsLease
    <3>2. CASE <<work'[q][n][2], x>> \notin index'
      BY <1>2, <1>6, <2>2, <3>2
    <3>3. QED BY <3>1, <3>2
  <2>3. QED BY <1>7, <2>1, <2>2 DEF EndsLease
<1>8. CASE q = p /\ j = 1 /\ work[q][j] = h
  <2>1. CASE h[1] = "revoke_lease_id" /\ h[2] = x
    <3>1. CASE lease[x] = None
      BY <1>2, <3>1
    <3>2. CASE lease[x] # None
      <4>1. PICK n \in DOMAIN st : st[n][1] = "delete_lease_entry" /\ st[n][2] = x
        BY <1>1, <2>1, <3>2 DEF Completes
      <4>2. n \in DOMAIN work'[q] /\ n < i /\ EndsLease(work'[q][n], x)
        BY <1>4, <1>8, <4>1 DEF EndsLease
      <4>3. QED BY <1>7, <4>2
    <3>3. QED BY <3>1, <3>2
  <2>2. CASE h[1] = "delete_lease_entry" /\ h[2] = x
    BY <1>3, <2>2
  <2>3. CASE h[1] = "revoke_by_token" /\ <<h[2], x>> \in index
    <3>1. PICK n \in DOMAIN st : st[n][1] = "revoke_lease_id" /\ st[n][2] = x
      BY <1>1, <2>3 DEF Completes
    <3>2. n \in DOMAIN work'[q] /\ n < i /\ EndsLease(work'[q][n], x)
      BY <1>4, <1>8, <3>1 DEF EndsLease
    <3>3. QED BY <1>7, <3>2
  <2>4. QED BY <1>5, <1>8, <2>1, <2>2, <2>3 DEF EndsLease
<1>9. CASE /\ Place(p, st, q, j) \in DOMAIN work'[q] /\ Place(p, st, q, j) < i
           /\ work'[q][Place(p, st, q, j)] = work[q][j]
  BY <1>5, <1>7, <1>9
<1>10. QED BY <1>4, <1>5, <1>8, <1>9

(* A stored token without use limit has no write ahead of it. *)
LEMMA StoredFinal ==
  ASSUME NEW S, Typed(S), Puts, NEW x \in Tok, Unlimited(x)
  PROVE  Final(x)
<1>1. x \notin fresh
  BY DEF Typed, Stores, UsedTok, Unlimited
<1>2. ASSUME NEW q \in Proc, NEW i \in DOMAIN work[q] PROVE ~IsPut(work[q][i], x)
  <2>1. PutOK(q, i)
    BY DEF Puts
  <2>2. QED BY <2>1 DEF PutOK, IsPut, Unlimited
<1>3. QED BY <1>1, <1>2 DEF Final, NoPut, Unlimited

LEMMA PromisesTaken ==
  ASSUME NEW S, Typed(S), Puts, Linked, Secrets, Promises, NEW p \in Proc, NEW st, Takes(p, st)
  PROVE  Promises'
<1> DEFINE h == Head(work[p])
<1>1. /\ After(p, st) /\ StepOK(h) /\ IndexMoves(h)
      /\ 1 \in DOMAIN work[p] /\ work[p][1] = h /\ Moved(p, st)
  BY TakesDoes
<1>2. \A q \in Proc : \A i \in DOMAIN work'[q] :
         \/ q = p /\ i \in DOMAIN st /\ work'[q][i] = st[i] /\ LeftBy(h, st, i)
         \/ \E k \in DOMAIN work[q] :
              (q = p => k > 1) /\ i = Place(p, st, q, k) /\ work'[q][i] = work[q][k]
  BY <1>1, Sources
<1>3. \A x \in Tok : Final(x) => Final(x)' /\ (entry'[x] = None \/ entry'[x] = entry[x])
  BY FinalTaken
<1>4. \A x \in Sec : Registered(x) => Registered(x)' /\ lease'[x] \in {None, lease[x]}
  BY RegisteredTaken
<1>5. \A x \in Tok : Unlimited(x) => Final(x)
  BY StoredFinal
<1>6. \A i \in DOMAIN st : i \in DOMAIN work'[p] /\ work'[p][i] = st[i]
  BY <1>1 DEF Moved
<1> HIDE DEF h
<1>7. ASSUME NEW q \in Proc, NEW i \in DOMAIN work'[q], work'[q][i][1] = "done",
             NEW x \in Tok, x \in work'[q][i][2]
      PROVE  Final(x)' /\ (entry'[x] = None \/ Ending(work'[q], i, x))
  <2>1. CASE q = p /\ i \in DOMAIN st /\ work'[q][i] = st[i] /\ LeftBy(h, st, i)
    <3>1. /\ h[1] = "revoke_tree" /\ st[i][2] = Covered(h[2])
          /\ \A c \in Tok : c = h[2] \/ <<h[2], c>> \in children =>
               \E j \in DOMAIN st : j < i /\ Ends(st[j], c)
      BY <1>7, <2>1, DisjointIds DEF LeftBy
    <3>2. Unlimited(x) /\ (x = h[2] \/ entry[x].parent = h[2])
      BY <1>7, <2>1, <3>1 DEF Covered, Unlimited
    <3>3. h[2] \in Tok /\ h[2] # None
      <4>1. h[2] \in Tok
        BY <1>1, <3>1 DEF StepOK, OfTok, UsedTok
      <4>2. QED BY <4>1, RootAssumption, NoneAssumption
    <3>4. x = h[2] \/ <<h[2], x>> \in children
      BY <3>2, <3>3 DEF Linked
    <3>5. Ending(work'[q], i, x)
      BY <1>6, <2>1, <3>1, <3>4 DEF Ending
    <3>6. QED BY <1>3, <1>5, <3>2, <3>5
  <2>2. CASE \E k \in DOMAIN work[q] :
              (q = p => k > 1) /\ i = Place(p, st, q, k) /\ work'[q][i] = work[q][k]
    <3>1. PICK k \in DOMAIN work[q] :
              (q = p => k > 1) /\ i = Place(p, st, q, k) /\ work'[q][i] = work[q][k]
      BY <2>2
    <3>2. DoneOK(q, k)
      BY DEF Promises
    <3>3. Final(x) /\ (entry[x] = None \/ Ending(work[q], k, x))
      BY <1>7, <3>1, <3>2 DEF DoneOK
    <3>4. Ending(work[q], k, x) => Ending(work'[q], i, x) \/ entry'[x] = None
      BY <3>1, EndingTaken
    <3>5. QED BY <1>3, <3>3, <3>4
  <2>3. QED BY <1>2, <2>1, <2>2
<1>8. ASSUME NEW q \in Proc, NEW i \in DOMAIN work'[q], work'[q][i][1] = "done",
             NEW x \in Sec, x \in work'[q][i][2]
      PROVE  Registered(x)' /\ (lease'[x] = None \/ ToEndLease(work[q], i, x)')
  <2>1. CASE q = p /\ i \in DOMAIN st /\ work'[q][i] = st[i] /\ LeftBy(h, st, i)
    <3>1. /\ h[1] = "revoke" /\ <<h[2], x>> \in index
          /\ \E j \in DOMAIN st : j < i /\ st[j][1] = "revoke_by_token" /\ st[j][2] = h[2]
      <4>1. x \notin Covered(h[2])
        BY DisjointIds DEF Covered
      <4>2. \/ /\ h[1] = "revoke_tree" /\ st[i][2] = Covered(h[2])
            \/ /\ h[1] = "revoke" /\ st[i][2] = {y \in Sec : <<h[2], y>> \in index}
               /\ \E j \in DOMAIN st : j < i /\ st[j][1] = "revoke_by_token" /\ st[j][2] = h[2]
        BY <1>8, <2>1 DEF LeftBy
      <4>3. QED BY <1>8, <2>1, <4>1, <4>2
    <3>2. Registered(x)
      <4>1. <<h[2], x>>[2] = x
        OBVIOUS
      <4>2. QED BY <3>1, <4>1 DEF Secrets
    <3>3. index' = index
      BY <1>1, <3>1 DEF IndexMoves
    <3>4. PICK j \in DOMAIN st : j < i /\ st[j][1] = "revoke_by_token" /\ st[j][2] = h[2]
      BY <3>1
    <3>5. EndsLease(work[q][j], x)'
      BY <1>6, <2>1, <3>1, <3>3, <3>4 DEF EndsLease
    <3>6. ToEndLease(work[q], i, x)'
      BY <1>6, <2>1, <3>4, <3>5 DEF ToEndLease
    <3>7. QED BY <1>4, <3>2, <3>6
  <2>2. CASE \E k \in DOMAIN work[q] :
              (q = p => k > 1) /\ i = Place(p, st, q, k) /\ work'[q][i] = work[q][k]
    <3>1. PICK k \in DOMAIN work[q] :
              (q = p => k > 1) /\ i = Place(p, st, q, k) /\ work'[q][i] = work[q][k]
      BY <2>2
    <3>2. DoneOK(q, k)
      BY DEF Promises
    <3>3. Registered(x) /\ (lease[x] = None \/ ToEndLease(work[q], k, x))
      BY <1>8, <3>1, <3>2 DEF DoneOK
    <3>4. ToEndLease(work[q], k, x) => ToEndLease(work[q], i, x)' \/ lease'[x] = None
      BY <3>1, <3>3, ToEndLeaseTaken
    <3>5. QED BY <1>4, <3>3, <3>4
  <2>3. QED BY <1>2, <2>1, <2>2
<1>9. ASSUME NEW q \in Proc, NEW i \in DOMAIN work'[q] PROVE DoneOK(q, i)'
  BY <1>7, <1>8 DEF DoneOK
<1>10. QED BY <1>9 DEF Promises

LEMMA PromisesFewer ==
  ASSUME Promises, Fewer
  PROVE  Promises'
<1>1. \A q \in Proc : \A i \in DOMAIN work'[q] : work'[q] = work[q] /\ i \in DOMAIN work[q]
  BY FewerSteps
<1>2. entry' = entry /\ lease' = lease /\ index' = index /\ fresh' = fresh
  BY DEF Fewer
<1>3. \A x : Registered(x) => Registered(x)'
  BY <1>1, <1>2 DEF Registered
<1>4. \A x : Final(x) => Final(x)'
  BY FinalFewer
<1>5. ASSUME NEW q \in Proc, NEW i \in DOMAIN work'[q] PROVE DoneOK(q, i)'
  <2>1. DoneOK(q, i) /\ work'[q] = work[q]
    BY <1>1 DEF Promises
  <2>2. \A x : ToEndLease(work[q], i, x) => ToEndLease(work[q], i, x)'
    BY <1>2, <2>1 DEF ToEndLease, EndsLease
  <2>3. QED BY <1>2, <1>3, <1>4, <2>1, <2>2 DEF DoneOK
<1>6. QED BY <1>5 DEF Promises

LEMMA PromisesAdds ==
  ASSUME Promises, NEW p, NEW st, Adds(p, st),
         \A i \in DOMAIN st :
           /\ st[i][1] # "done"
           /\ st[i][1] = "putId" => st[i][2] \in fresh
           /\ st[i][1] = "register_secret" => st[i][3] \in fresh
  PROVE  Promises'
<1>1. \A q \in Proc : \A i \in DOMAIN work'[q] :
        \/ q = p /\ work'[q] = st /\ i \in DOMAIN st
        \/ q # p /\ work'[q] = work[q] /\ i \in DOMAIN work[q]
  BY AddsSteps
<1>2. entry' = entry /\ lease' = lease /\ index' = index /\ fresh' \subseteq fresh
  BY DEF Adds
<1>3. \A x : Registered(x) => Registered(x)'
  <2> SUFFICES ASSUME NEW x, Registered(x) PROVE Registered(x)'
    OBVIOUS
  <2>1. \A i \in DOMAIN st : ~Registers(st[i], x)
    BY DEF Registered, Registers
  <2>2. QED BY <1>1, <1>2, <2>1 DEF Registered
<1>4. \A x : Final(x) => Final(x)'
  <2> SUFFICES ASSUME NEW x, Final(x) PROVE Final(x)'
    OBVIOUS
  <2>1. \A i \in DOMAIN st : ~IsPut(st[i], x)
    BY DEF Final, IsPut
  <2>2. QED BY <2>1, FinalAdds
<1>5. ASSUME NEW q \in Proc, NEW i \in DOMAIN work'[q] PROVE DoneOK(q, i)'
  <2>1. CASE q = p /\ work'[q] = st /\ i \in DOMAIN st
    BY <2>1 DEF DoneOK
  <2>2. CASE q # p /\ work'[q] = work[q] /\ i \in DOMAIN work[q]
    <3>1. DoneOK(q, i)
      BY <2>2 DEF Promises
    <3>2. \A x : ToEndLease(work[q], i, x) => ToEndLease(work[q], i, x)'
      BY <1>2, <2>2 DEF ToEndLease, EndsLease
    <3>3. QED BY <1>2, <1>3, <1>4, <2>2, <3>1, <3>2 DEF DoneOK
  <2>3. QED BY <1>1, <2>1, <2>2
<1>6. QED BY <1>5 DEF Promises

LEMMA PromisesPeeks ==
  ASSUME NEW S, Typed(S), Promises, NEW l, NEW st, Peeks(l, st)
  PROVE  Promises'
<1>1. Adds(Checker, st) /\ \A i \in DOMAIN st : PeekOK(st, i, l)
  BY PeeksAdd
<1>2. \A i \in DOMAIN st : st[i][1] \in {"pop", "revoke_lease_id"}
  BY <1>1 DEF PeekOK
<1>3. QED BY <1>1, <1>2, PromisesAdds

LEMMA PromisesAsks ==
  ASSUME NEW S, Typed(S), Promises, NEW p, NEW st, NEW ids, Asks(p, st, ids)
  PROVE  Promises'
<1>1. Adds(p, st) /\ ids \subseteq fresh /\ \A i \in DOMAIN st : AskOK(st, i, ids)
  BY AsksAdd
<1>2. ASSUME NEW i \in DOMAIN st
      PROVE  /\ st[i][1] # "done"
             /\ st[i][1] = "putId" => st[i][2] \in fresh
             /\ st[i][1] = "register_secret" => st[i][3] \in fresh
  <2>1. AskOK(st, i, ids)
    BY <1>1
  <2>2. QED BY <1>1, <2>1 DEF AskOK
<1>3. QED BY <1>1, <1>2, PromisesAdds

-----------------------------------------------------------------------------
(* The queue.                                                               *)

LEMMA PendingIs ==
  ASSUME NEW l
  PROVE  /\ Pending(l) <=> \E q \in Callers : \E i \in DOMAIN work[q] : Is(work[q][i], "push", l)
         /\ Pending(l)' <=> \E q \in Callers : \E i \in DOMAIN work'[q] : Is(work'[q][i], "push", l)
<1>1. Callers \subseteq Proc
  BY DEF Proc
<1>2. \A q \in Callers :
        /\ \A s : s \in Steps(q) <=> \E i \in DOMAIN work[q] : work[q][i] = s
        /\ \A s : s \in Steps(q)' <=> \E i \in DOMAIN work'[q] : work'[q][i] = s
  BY <1>1, StepsAre
<1>3. Pending(l) <=> \E q \in Callers : \E s \in Steps(q) : s[1] = "push" /\ s[2] = l
  BY DEF Pending
<1>4. Pending(l)' <=> \E q \in Callers : \E s \in Steps(q)' : s[1] = "push" /\ s[2] = l
  BY DEF Pending
<1>5. QED BY <1>2, <1>3, <1>4 DEF Is

(* The checker queues no lease while it works, and nobody else does.        *)
LEMMA PendingTaken ==
  ASSUME NEW S, Typed(S), NEW p \in Proc, NEW st, Takes(p, st),
         NEW h, h = Head(work[p]), NEW l
  PROVE  /\ Pending(l) => Pending(l)' \/ (p \in Callers /\ Is(h, "push", l) /\ ~locked)
         /\ Registering(h, l) => Pending(l)'
<1>1. /\ After(p, st) /\ Completes(h, st) /\ QueueMoves(h) /\ 1 \in DOMAIN work[p] /\ work[p][1] = h
      /\ Moved(p, st)
  BY TakesDoes
<1>2. \A q \in Proc : \A k \in DOMAIN work[q] : (q = p => k > 1) =>
        Place(p, st, q, k) \in DOMAIN work'[q] /\ work'[q][Place(p, st, q, k)] = work[q][k]
  BY <1>1, Before
<1>3. ASSUME Pending(l), ~(p \in Callers /\ Is(h, "push", l) /\ ~locked)
      PROVE  Pending(l)'
  <2>1. PICK q \in Callers : \E k \in DOMAIN work[q] : Is(work[q][k], "push", l)
    BY <1>3, PendingIs
  <2>2. PICK k \in DOMAIN work[q] : Is(work[q][k], "push", l)
    BY <2>1
  <2>3. q \in Proc
    BY DEF Proc
  <2>4. ~(q = p /\ k = 1)
    BY <1>1, <1>3, <2>2 DEF QueueMoves, Is
  <2>5. q = p => k > 1
    BY <1>1, <2>4 DEF Moved
  <2>6. \E i \in DOMAIN work'[q] : Is(work'[q][i], "push", l)
    BY <1>2, <2>2, <2>3, <2>5
  <2>7. QED BY <2>6, PendingIs
<1>4. ASSUME Registering(h, l) PROVE Pending(l)'
  <2>1. \A i \in DOMAIN work[Checker] : work[Checker][i][1] \in CheckerOps
    BY DEF Typed, Threads
  <2>2. p \in Callers
    BY <1>1, <1>4, <2>1 DEF CheckerOps, Proc, Registering
  <2>3. PICK i \in DOMAIN st : Is(st[i], "push", l)
    BY <1>1, <1>4 DEF Completes, Registering, Is
  <2>4. i \in DOMAIN work'[p] /\ work'[p][i] = st[i]
    BY <1>1 DEF Moved
  <2>5. QED BY <2>2, <2>3, <2>4, PendingIs
<1>5. QED BY <1>3, <1>4

LEMMA WatchedTaken ==
  ASSUME NEW S, Typed(S), Watched, NEW p \in Proc, NEW st, Takes(p, st),
         Head(work[p])[1] = "pop" => p = Checker
  PROVE  Watched'
<1> DEFINE h == Head(work[p])
<1>1. /\ After(p, st) /\ StepOK(h) /\ LeasesMove(h) /\ QueueMoves(h) /\ Completes(h, st)
      /\ 1 \in DOMAIN work[p] /\ work[p][1] = h /\ broken' = broken /\ Moved(p, st)
  BY TakesDoes DEF HistoryMoves
<1>2. \A q \in Proc : \A i \in DOMAIN work'[q] :
         \/ q = p /\ i \in DOMAIN st /\ work'[q][i] = st[i] /\ LeftBy(h, st, i)
         \/ \E k \in DOMAIN work[q] :
              (q = p => k > 1) /\ i = Place(p, st, q, k) /\ work'[q][i] = work[q][k]
  BY <1>1, Sources
<1>3. \A q \in Proc : \A k \in DOMAIN work[q] : (q = p => k > 1) =>
        /\ q = p => \A i \in DOMAIN st :
             i \in DOMAIN work'[q] /\ i < Place(p, st, q, k) /\ work'[q][i] = st[i]
        /\ \A j \in DOMAIN work[q] : j < k =>
              \/ q = p /\ j = 1 /\ work[q][j] = h
              \/ /\ Place(p, st, q, j) \in DOMAIN work'[q]
                 /\ Place(p, st, q, j) < Place(p, st, q, k)
                 /\ work'[q][Place(p, st, q, j)] = work[q][j]
  BY <1>1, Before
<1>4. \A l : /\ Pending(l) => Pending(l)' \/ (p \in Callers /\ Is(h, "push", l) /\ ~locked)
             /\ Registering(h, l) => Pending(l)'
  BY PendingTaken
<1>5. \A l \in Lease :
        \/ Registering(h, l)
        \/ h[1] = "delete_lease_entry" /\ h[2] = l /\ lease'[l] = None
        \/ lease'[l] = lease[l] /\ ~(h[1] = "delete_lease_entry" /\ h[2] = l)
  BY <1>1, LeaseAt
<1>6. queue \in [Lease -> Nat \cup {None}]
  BY DEF Typed, Stores, TypeOK
<1>7. Checker \in Proc
  BY DEF Proc
<1>8. LeaseWatched /\ \A i \in DOMAIN work[Checker] : \A l \in Lease : PopOK(i, l)
  BY DEF Watched
<1>9. \A i \in DOMAIN work[Checker] : locked
  BY DEF Typed, Threads
<1>10. \A j \in DOMAIN work[p] : ~(j < 1)
  BY <1>1 DEF Moved
<1> HIDE DEF h
<1>11. ASSUME NEW l \in Lease, lease'[l] # None
       PROVE  queue'[l] # None \/ Pending(l)' \/ broken'
  <2>1. CASE Registering(h, l)
    BY <1>4, <2>1
  <2>2. CASE lease'[l] = lease[l]
    <3>1. queue[l] # None \/ Pending(l) \/ broken
      BY <1>8, <1>11, <2>2 DEF LeaseWatched
    <3>2. CASE queue[l] # None
      <4>1. CASE h[1] = "pop" /\ h[2] = l
        <5>1. p = Checker /\ PopOK(1, l)
          BY <1>1, <1>8, <4>1 DEF h
        <5>2. Pending(l) \/ broken
          BY <1>1, <1>10, <1>11, <2>2, <4>1, <5>1 DEF PopOK, Is
        <5>3. Pending(l) => Pending(l)'
          BY <1>4, <4>1 DEF Is
        <5>4. QED BY <1>1, <5>2, <5>3
      <4>2. CASE ~(h[1] = "pop" /\ h[2] = l)
        <5>1. h[1] = "push" => h[3] \in Nat
          BY <1>1 DEF StepOK
        <5>2. queue'[l] # None
          BY <1>1, <1>6, <3>2, <4>2, <5>1, NoneAssumption DEF QueueMoves
        <5>3. QED BY <5>2
      <4>3. QED BY <4>1, <4>2
    <3>3. CASE Pending(l)
      <4>1. CASE Is(h, "push", l)
        <5>1. h[3] \in Nat
          BY <1>1, <4>1 DEF StepOK, Is
        <5>2. queue'[l] # None
          BY <1>1, <1>6, <4>1, <5>1, NoneAssumption DEF QueueMoves, Is
        <5>3. QED BY <5>2
      <4>2. CASE ~Is(h, "push", l)
        BY <1>4, <3>3, <4>2
      <4>3. QED BY <4>1, <4>2
    <3>4. QED BY <1>1, <3>1, <3>2, <3>3
  <2>3. QED BY <1>5, <1>11, <2>1, <2>2
<1>12. ASSUME NEW i \in DOMAIN work'[Checker], NEW l \in Lease, Is(work'[Checker][i], "pop", l)
       PROVE  \/ lease'[l] = None \/ Pending(l)' \/ broken'
              \/ \E j \in DOMAIN work'[Checker] : j < i /\ Drops(work'[Checker][j], l)
  <2>1. PICK k \in DOMAIN work[Checker] :
          /\ Checker = p => k > 1
          /\ i = Place(p, st, Checker, k) /\ work'[Checker][i] = work[Checker][k]
    BY <1>2, <1>7, <1>12 DEF LeftBy, Is
  <2>2. locked
    BY <1>9, <2>1
  <2>3. Pending(l) => Pending(l)'
    BY <1>4, <2>2
  <2>4. \/ lease[l] = None \/ Pending(l) \/ broken
        \/ \E j \in DOMAIN work[Checker] : j < k /\ Drops(work[Checker][j], l)
    BY <1>8, <1>12, <2>1 DEF PopOK
  <2>5. CASE lease[l] = None
    BY <1>4, <1>5, <2>5
  <2>6. CASE \E j \in DOMAIN work[Checker] : j < k /\ Drops(work[Checker][j], l)
    <3>1. PICK j \in DOMAIN work[Checker] : j < k /\ Drops(work[Checker][j], l)
      BY <2>6
    <3>2. \/ Checker = p /\ j = 1 /\ work[Checker][j] = h
          \/ /\ Place(p, st, Checker, j) \in DOMAIN work'[Checker]
             /\ Place(p, st, Checker, j) < i
             /\ work'[Checker][Place(p, st, Checker, j)] = work[Checker][j]
      BY <1>3, <1>7, <2>1, <3>1
    <3>3. CASE Checker = p /\ j = 1 /\ work[Checker][j] = h
      <4>1. CASE h[1] = "delete_lease_entry" /\ h[2] = l
        BY <1>4, <1>5, <4>1
      <4>2. CASE h[1] = "revoke_lease_id" /\ h[2] = l
        <5>1. lease[l] # None => \E n \in DOMAIN st : st[n][1] = "delete_lease_entry" /\ st[n][2] = l
          BY <1>1, <4>2 DEF Completes
        <5>2. \A n \in DOMAIN st :
                n \in DOMAIN work'[Checker] /\ n < i /\ work'[Checker][n] = st[n]
          BY <1>3, <1>7, <2>1, <3>3
        <5>3. CASE lease[l] = None
          BY <2>5, <5>3
        <5>4. CASE lease[l] # None
          BY <5>1, <5>2, <5>4 DEF Drops
        <5>5. QED BY <5>3, <5>4
      <4>3. QED BY <3>1, <3>3, <4>1, <4>2 DEF Drops
    <3>4. CASE /\ Place(p, st, Checker, j) \in DOMAIN work'[Checker]
               /\ Place(p, st, Checker, j) < i
               /\ work'[Checker][Place(p, st, Checker, j)] = work[Checker][j]
      BY <3>1, <3>4
    <3>5. QED BY <3>2, <3>3, <3>4
  <2>7. QED BY <1>1, <2>3, <2>4, <2>5, <2>6
<1>13. LeaseWatched'
  BY <1>11 DEF LeaseWatched
<1>14. \A i \in DOMAIN work'[Checker] : \A l \in Lease : PopOK(i, l)'
  BY <1>12 DEF PopOK
<1>15. QED BY <1>13, <1>14 DEF Watched

(* A task that stops with an error of its own had nothing to queue. *)
LEMMA PendingDropped ==
  ASSUME NEW S, Typed(S), NEW p \in Proc, Dropped(p), NEW l, Pending(l),
         Head(work[p])[1] \in Refusing
  PROVE  Pending(l)'
<1>1. work \in [Proc -> Seq(S)] /\ Threads /\ work[p] # <<>>
  BY DEF Typed, Dropped
<1>2. work'[p] = <<>> /\ \A q \in Proc : q # p => work'[q] = work[q]
  BY <1>1 DEF Dropped, Refuse
<1>3. 1 \in DOMAIN work[p] /\ work[p][1] = Head(work[p]) /\ DOMAIN work[p] \subseteq Nat \ {0}
  <2>1. work[p] \in Seq(S)
    BY <1>1
  <2>2. QED BY <1>1, <2>1, HeadOK, LenProperties
<1>4. PICK q \in Callers : \E i \in DOMAIN work[q] : Is(work[q][i], "push", l)
  BY PendingIs
<1>5. PICK i \in DOMAIN work[q] : Is(work[q][i], "push", l)
  BY <1>4
<1>6. CASE q = p
  <2>1. i # 1
    BY <1>3, <1>5, <1>6 DEF Refusing, Is
  <2>2. i > 1
    BY <1>3, <1>6, <2>1
  <2>3. Ordered(work[p])
    BY <1>1, <1>6 DEF Threads
  <2>4. QED BY <1>3, <1>5, <1>6, <2>2, <2>3 DEF Ordered, Is
<1>7. CASE q # p
  <2>1. q \in Proc
    BY DEF Proc
  <2>2. work'[q] = work[q]
    BY <1>2, <1>7, <2>1
  <2>3. QED BY <1>5, <2>2, PendingIs
<1>8. QED BY <1>6, <1>7

LEMMA WatchedDropped ==
  ASSUME NEW S, Typed(S), Watched, NEW p \in Proc, Dropped(p)
  PROVE  Watched'
<1>1. Fewer /\ queue' = queue /\ lease' = lease
  BY IsFewer DEF Dropped, storage
<1>2. CASE broken' = TRUE
  BY <1>2 DEF Watched, LeaseWatched, PopOK
<1>3. CASE Head(work[p])[1] \in Refusing /\ broken' = broken
  <2>1. \A l : Pending(l) => Pending(l)'
    BY <1>3, PendingDropped
  <2>2. LeaseWatched'
    BY <1>1, <1>3, <2>1 DEF Watched, LeaseWatched
  <2>3. ASSUME NEW i \in DOMAIN work'[Checker], NEW l \in Lease PROVE PopOK(i, l)'
    <3>1. work'[Checker] = work[Checker] /\ i \in DOMAIN work[Checker]
      BY <1>1, FewerSteps DEF Proc
    <3>2. PopOK(i, l)
      BY <3>1 DEF Watched
    <3>3. QED BY <1>1, <1>3, <2>1, <3>1, <3>2 DEF PopOK
  <2>4. QED BY <2>2, <2>3 DEF Watched
<1>4. QED BY <1>2, <1>3 DEF Dropped

LEMMA WatchedStill ==
  ASSUME Watched, Locks \/ Tick
  PROVE  Watched'
<1>1. queue' = queue /\ lease' = lease /\ work' = work /\ broken' = broken
  BY DEF Locks, Tick, storage, ghosts
<1>2. \A l : Pending(l) <=> Pending(l)'
  BY <1>1 DEF Pending, Steps
<1>3. QED BY <1>1, <1>2 DEF Watched, LeaseWatched, PopOK

(* The restored queue. *)
LEMMA Restored ==
  ASSUME NEW S, Typed(S), NEW l \in Lease
  PROVE  IF lease[l] = None THEN restore[l] = None
         ELSE restore[l] = lease[l].expire /\ restore[l] \in Nat /\ restore[l] # None
<1>1. restore[l] = IF lease[l] = None THEN None ELSE lease[l].expire
  BY DEF restore
<1>2. lease[l] # None => lease[l] \in LeaseEntry
  BY DEF Typed, Stores, TypeOK
<1>3. QED BY <1>1, <1>2, NoneAssumption DEF LeaseEntry

LEMMA WatchedCrash ==
  ASSUME NEW S, Typed(S), Crash
  PROVE  Watched'
<1>1. queue' = restore /\ lease' = lease /\ work' = [p \in Proc |-> <<>>]
  BY DEF Crash, storage
<1>2. LeaseWatched'
  BY <1>1, Restored DEF LeaseWatched
<1>3. DOMAIN work'[Checker] = {}
  <2>1. work'[Checker] = <<>>
    BY <1>1 DEF Proc
  <2>2. QED BY <2>1
<1>4. QED BY <1>2, <1>3 DEF Watched

LEMMA PendingAdds ==
  ASSUME NEW p, NEW st, Adds(p, st), NEW l, Pending(l)
  PROVE  Pending(l)'
<1>1. work[p] = <<>> /\ \A q \in Proc : q # p => work'[q] = work[q]
  BY DEF Adds
<1>2. PICK q \in Callers : \E i \in DOMAIN work[q] : Is(work[q][i], "push", l)
  BY PendingIs
<1>3. q # p /\ q \in Proc
  BY <1>1, <1>2 DEF Proc
<1>4. work'[q] = work[q]
  BY <1>1, <1>3
<1>5. QED BY <1>2, <1>4, PendingIs

LEMMA WatchedPeeks ==
  ASSUME NEW S, Typed(S), Secrets, Watched, NEW l \in Lease, NEW st, Peeks(l, st)
  PROVE  Watched'
<1>1. Adds(Checker, st)
  BY PeeksAdd
<1>2. queue' = queue /\ lease' = lease /\ broken' = broken /\ work'[Checker] = st
  BY <1>1 DEF Adds
<1>3. \A k : Pending(k) => Pending(k)'
  BY <1>1, PendingAdds
<1>4. LeaseWatched'
  BY <1>2, <1>3 DEF Watched, LeaseWatched
<1>5. ASSUME NEW i \in DOMAIN st, NEW k \in Lease, Is(st[i], "pop", k)
      PROVE  lease[k] = None \/ \E j \in DOMAIN st : j < i /\ Drops(st[j], k)
  <2>1. CASE queue[l] = 0
    <3>1. st[i] = <<"pop", l>>
      BY <2>1 DEF Peeks
    <3>2. k = l
      BY <1>5, <3>1 DEF Is
    <3>3. QED BY <2>1, <3>2 DEF Secrets
  <2>2. CASE queue[l] # 0
    <3>1. /\ DOMAIN st = {1, 2} /\ st[2] = <<"pop", l>>
          /\ st[1][1] = "revoke_lease_id" /\ st[1][2] = l
      BY <2>2 DEF Peeks
    <3>2. i = 2 /\ k = l
      BY <1>5, <3>1 DEF Is
    <3>3. QED BY <3>1, <3>2 DEF Drops
  <2>3. QED BY <2>1, <2>2
<1>6. \A i \in DOMAIN work'[Checker] : \A k \in Lease : PopOK(i, k)'
  BY <1>2, <1>5 DEF PopOK
<1>7. QED BY <1>4, <1>6 DEF Watched

LEMMA WatchedAsks ==
  ASSUME NEW S, Typed(S), Watched, NEW p, NEW st, NEW ids, Asks(p, st, ids)
  PROVE  Watched'
<1>1. Adds(p, st) /\ p \in Callers
  BY AsksAdd
<1>2. queue' = queue /\ lease' = lease /\ broken' = broken
  BY <1>1 DEF Adds
<1>3. \A k : Pending(k) => Pending(k)'
  BY <1>1, PendingAdds
<1>4. work'[Checker] = work[Checker]
  <2>1. Checker # p /\ Checker \in Proc
    BY <1>1, ProcAssumption DEF Proc
  <2>2. QED BY <1>1, <2>1 DEF Adds
<1>5. LeaseWatched'
  BY <1>2, <1>3 DEF Watched, LeaseWatched
<1>6. ASSUME NEW i \in DOMAIN work'[Checker], NEW l \in Lease PROVE PopOK(i, l)'
  <2>1. PopOK(i, l)
    BY <1>4 DEF Watched
  <2>2. QED BY <1>2, <1>3, <1>4, <2>1 DEF PopOK
<1>7. QED BY <1>5, <1>6 DEF Watched

-----------------------------------------------------------------------------
(* Times.                                                                   *)

LEMMA OverdueTaken ==
  ASSUME NEW S, Typed(S), NEW p \in Proc, NEW st, Takes(p, st), NEW t \in Tok, Overdue(t), locked
  PROVE  Overdue(t)'
<1> DEFINE h == Head(work[p])
<1>1. LeasesMove(h) /\ raced \subseteq raced' /\ now' = now
  BY TakesDoes DEF HistoryMoves
<1>2. /\ Pending(t) => Pending(t)'
      /\ Registering(h, t) => Pending(t)'
  BY PendingTaken
<1>3. Registering(h, t) \/ lease'[t] = None \/ lease'[t] = lease[t]
  BY <1>1, LeaseAt, DisjointIds
<1> HIDE DEF h
<1>4. QED BY <1>1, <1>2, <1>3 DEF Overdue

LEMMA TimelyTaken ==
  ASSUME NEW S, Typed(S), Leased, Secrets, Timely, NEW p \in Proc, NEW st, Takes(p, st)
  PROVE  Timely'
<1> DEFINE h == Head(work[p])
<1>1. /\ After(p, st) /\ StepOK(h) /\ LeasesMove(h) /\ QueueMoves(h)
      /\ 1 \in DOMAIN work[p] /\ work[p][1] = h /\ HistoryMoves(h)
  BY TakesDoes
<1>2. \A q \in Proc : \A i \in DOMAIN work'[q] :
         \/ q = p /\ i \in DOMAIN st /\ work'[q][i] = st[i] /\ LeftBy(h, st, i)
         \/ \E k \in DOMAIN work[q] :
              (q = p => k > 1) /\ i = Place(p, st, q, k) /\ work'[q][i] = work[q][k]
  BY <1>1, Sources
<1>3. \A q \in Proc : \A k \in DOMAIN work[q] : \A t \in Tok : TimeOK(q, k, t)
  BY DEF Timely
<1>4. \A t \in Tok : lease[t] # None =>
        queue[t] \in {None, lease[t].expire} \/ Pending(t) \/ t \in raced
  BY DEF Timely
<1>5. \A t \in Tok : /\ Pending(t) => Pending(t)' \/ (p \in Callers /\ Is(h, "push", t) /\ ~locked)
                     /\ Registering(h, t) => Pending(t)'
  BY PendingTaken
<1>6. \A t \in Tok :
        \/ Registering(h, t) /\ lease'[t] = [token |-> h[2], expire |-> now + Ttl]
        \/ lease'[t] = None
        \/ ~Registering(h, t) /\ lease'[t] = lease[t]
  BY <1>1, LeaseAt, DisjointIds
<1>7. \A t \in Tok : Overdue(t) /\ locked => Overdue(t)'
  BY OverdueTaken
<1>8. raced \subseteq raced' /\ (h[1] = "renewed" /\ Pending(h[2]) => h[2] \in raced')
  BY <1>1 DEF HistoryMoves
<1>9. \A i \in DOMAIN work[Checker] : locked /\ work[Checker][i][1] \in CheckerOps
  BY DEF Typed, Threads
<1>10. \A t \in Tok : Registering(h, t) => h[1] \in {"register_auth", "renewed"} /\ h[2] = t
  BY <1>1, DisjointIds DEF Registering, StepOK, OfSec, UsedSec
<1>11. Callers \subseteq Proc /\ Checker \notin Callers
  BY ProcAssumption DEF Proc
<1> HIDE DEF h
<1>12. ASSUME NEW q \in Proc, NEW i \in DOMAIN work'[q], NEW t \in Tok, Is(work'[q][i], "push", t)
       PROVE  /\ q \in Callers /\ i = 1
              /\ lease'[t] # None /\ t \notin raced' => work'[q][i][3] = lease'[t].expire
  <2>1. CASE q = p /\ i \in DOMAIN st /\ work'[q][i] = st[i] /\ LeftBy(h, st, i)
    <3>1. ~(h[1] = "revoke_lease_id" /\ h[2] = t /\ h[3])
      <4>1. AgainOK(p, 1)
        BY <1>1 DEF Secrets
      <4>2. QED BY <1>1, <4>1, DisjointIds DEF AgainOK
    <3>2. ~(h[1] = "register_secret" /\ h[3] = t)
      BY <1>1, DisjointIds DEF StepOK, OfSec, UsedSec
    <3>3. h[1] \in {"register_auth", "renewed"} /\ h[2] = t /\ st[i][3] = now + Ttl /\ i = 1
      BY <1>12, <2>1, <3>1, <3>2 DEF LeftBy, Is
    <3>4. q \in Callers
      BY <1>1, <1>9, <2>1, <3>3 DEF CheckerOps, Proc
    <3>5. lease'[t] # None => lease'[t].expire = now + Ttl
      BY <1>6, <3>3 DEF Registering
    <3>6. QED BY <2>1, <3>3, <3>4, <3>5
  <2>2. CASE \E k \in DOMAIN work[q] :
              (q = p => k > 1) /\ i = Place(p, st, q, k) /\ work'[q][i] = work[q][k]
    <3>1. PICK k \in DOMAIN work[q] :
              (q = p => k > 1) /\ i = Place(p, st, q, k) /\ work'[q][i] = work[q][k]
      BY <2>2
    <3>2. TimeOK(q, k, t)
      BY <1>3
    <3>3. q \in Callers /\ k = 1 /\ (lease[t] # None /\ t \notin raced => work[q][k][3] = lease[t].expire)
      BY <1>12, <3>1, <3>2 DEF TimeOK
    <3>4. q # p /\ i = 1
      BY <3>1, <3>3 DEF Place
    <3>5. CASE Registering(h, t)
      <4>1. Pending(t)
        BY <1>12, <3>1, <3>3, PendingIs
      <4>2. ~Is(h, "register_auth", t)
        <5>1. AuthOK(p, 1, t)
          BY <1>1 DEF Leased
        <5>2. QED BY <1>1, <1>12, <3>1, <5>1 DEF AuthOK
      <4>3. t \in raced'
        BY <1>8, <1>10, <3>5, <4>1, <4>2 DEF Is
      <4>4. QED BY <3>3, <3>4, <4>3
    <3>6. CASE ~Registering(h, t)
      BY <1>6, <1>8, <3>1, <3>3, <3>4, <3>6
    <3>7. QED BY <3>5, <3>6
  <2>3. QED BY <1>2, <2>1, <2>2
<1>13. ASSUME NEW q \in Proc, NEW i \in DOMAIN work'[q], NEW t \in Tok, Drops(work'[q][i], t)
       PROVE  q = Checker /\ Overdue(t)'
  <2>1. q = Checker /\ Overdue(t) /\ locked
    <3>1. CASE q = p /\ i \in DOMAIN st /\ work'[q][i] = st[i] /\ LeftBy(h, st, i)
      <4>1. h[1] = "revoke_lease_id" /\ h[2] = t
        BY <1>13, <3>1, DisjointIds DEF LeftBy, Drops
      <4>2. TimeOK(p, 1, t)
        BY <1>1, <1>3
      <4>3. p = Checker /\ Overdue(t)
        BY <1>1, <4>1, <4>2 DEF TimeOK, Drops
      <4>4. QED BY <1>1, <1>9, <3>1, <4>3
    <3>2. CASE \E k \in DOMAIN work[q] : work'[q][i] = work[q][k]
      <4>1. PICK k \in DOMAIN work[q] : work'[q][i] = work[q][k]
        BY <3>2
      <4>2. TimeOK(q, k, t)
        BY <1>3
      <4>3. q = Checker /\ Overdue(t)
        BY <1>13, <4>1, <4>2 DEF TimeOK
      <4>4. QED BY <1>9, <4>1, <4>3
    <3>3. QED BY <1>2, <3>1, <3>2
  <2>2. QED BY <1>7, <2>1
<1>14. ASSUME NEW t \in Tok, lease'[t] # None
       PROVE  queue'[t] \in {None, lease'[t].expire} \/ Pending(t)' \/ t \in raced'
  <2>1. CASE Registering(h, t)
    BY <1>5, <2>1
  <2>2. CASE lease'[t] = lease[t]
    <3>1. queue \in [Lease -> Nat \cup {None}] /\ t \in Lease
      BY DisjointIds DEF Typed, Stores, TypeOK
    <3>2. queue[t] \in {None, lease[t].expire} \/ Pending(t) \/ t \in raced
      BY <1>4, <1>14, <2>2
    <3>3. CASE Is(h, "push", t)
      <4>1. TimeOK(p, 1, t)
        BY <1>1, <1>3
      <4>2. t \in raced \/ h[3] = lease[t].expire
        BY <1>1, <1>14, <2>2, <3>3, <4>1 DEF TimeOK
      <4>3. queue'[t] = h[3]
        BY <1>1, <3>1, <3>3 DEF QueueMoves, Is
      <4>4. QED BY <1>8, <2>2, <4>2, <4>3
    <3>4. CASE ~Is(h, "push", t)
      <4>1. queue'[t] \in {None, queue[t]}
        BY <1>1, <3>1, <3>4 DEF QueueMoves, Is
      <4>2. Pending(t) => Pending(t)'
        BY <1>5, <3>4
      <4>3. QED BY <1>8, <2>2, <3>2, <4>1, <4>2
    <3>5. QED BY <3>3, <3>4
  <2>3. QED BY <1>6, <1>14, <2>1, <2>2
<1>15. ASSUME NEW q \in Proc, NEW i \in DOMAIN work'[q], NEW t \in Tok PROVE TimeOK(q, i, t)'
  <2>1. Is(work'[q][i], "push", t) =>
          /\ q \in Callers /\ i = 1
          /\ lease'[t] # None /\ t \notin raced' => work'[q][i][3] = lease'[t].expire
    BY <1>12
  <2>2. Drops(work'[q][i], t) => q = Checker /\ Overdue(t)'
    BY <1>13
  <2>3. QED BY <2>1, <2>2 DEF TimeOK
<1>16. QED BY <1>14, <1>15 DEF Timely

(* Nothing else writes a lease, and no task that stops had a token's lease  *)
(* to queue: it would have been its next step.                              *)
LEMMA PendingKept ==
  ASSUME NEW S, Typed(S), Timely, NEW p \in Proc, Dropped(p), NEW t \in Tok, Pending(t)
  PROVE  Pending(t)'
<1>1. work \in [Proc -> Seq(S)] /\ work[p] # <<>>
  BY DEF Typed, Dropped
<1>2. \A q \in Proc : q # p => work'[q] = work[q]
  BY <1>1 DEF Dropped, Refuse
<1>3. work[p][1] = Head(work[p])
  BY <1>1, HeadOK
<1>4. PICK q \in Callers : \E i \in DOMAIN work[q] : Is(work[q][i], "push", t)
  BY PendingIs
<1>5. PICK i \in DOMAIN work[q] : Is(work[q][i], "push", t)
  BY <1>4
<1>6. q \in Proc
  BY DEF Proc
<1>7. TimeOK(q, i, t)
  BY <1>6 DEF Timely
<1>8. i = 1
  BY <1>5, <1>7 DEF TimeOK
<1>9. Head(work[p])[1] # "push"
  BY DEF Dropped, Refusing, Writes
<1>10. q # p
  BY <1>3, <1>5, <1>8, <1>9 DEF Is
<1>11. work'[q] = work[q]
  BY <1>2, <1>6, <1>10
<1>12. QED BY <1>5, <1>11, PendingIs

LEMMA TimelyFewer ==
  ASSUME NEW S, Typed(S), Timely, Fewer, queue' = queue, raced' = raced, now' >= now, now' \in Nat,
         \A t \in Tok : Pending(t) => Pending(t)'
  PROVE  Timely'
<1>1. \A q \in Proc : \A i \in DOMAIN work'[q] : work'[q] = work[q] /\ i \in DOMAIN work[q]
  BY FewerSteps
<1>2. lease' = lease
  BY DEF Fewer
<1>3. ASSUME NEW t \in Tok, Overdue(t) PROVE Overdue(t)'
  <2>1. lease[t] # None => lease[t].expire \in Nat
    <3>1. lease[t] # None => lease[t] \in LeaseEntry
      BY DisjointIds DEF Typed, Stores, TypeOK
    <3>2. QED BY <3>1 DEF LeaseEntry
  <2>2. now \in Nat
    BY BoundAssumption DEF Typed, Stores, TypeOK
  <2>3. lease[t] # None /\ lease[t].expire <= now => lease[t].expire <= now'
    BY <2>1, <2>2
  <2>4. QED BY <1>2, <1>3, <2>3 DEF Overdue
<1>4. ASSUME NEW q \in Proc, NEW i \in DOMAIN work'[q], NEW t \in Tok PROVE TimeOK(q, i, t)'
  <2>1. TimeOK(q, i, t) /\ work'[q] = work[q]
    BY <1>1 DEF Timely
  <2>2. QED BY <1>2, <1>3, <2>1 DEF TimeOK
<1>5. \A t \in Tok : lease'[t] # None =>
        queue'[t] \in {None, lease'[t].expire} \/ Pending(t)' \/ t \in raced'
  BY <1>2 DEF Timely
<1>6. QED BY <1>4, <1>5 DEF Timely

LEMMA TimelyDropped ==
  ASSUME NEW S, Typed(S), Timely, NEW p \in Proc, Dropped(p)
  PROVE  Timely'
<1>1. Fewer
  BY IsFewer
<1>2. queue' = queue /\ raced' = raced /\ now' = now
  BY DEF Dropped
<1>3. now \in Nat
  BY BoundAssumption DEF Typed, Stores, TypeOK
<1>4. \A t \in Tok : Pending(t) => Pending(t)'
  BY PendingKept
<1>5. now' >= now /\ now' \in Nat
  BY <1>2, <1>3
<1>6. QED BY <1>1, <1>2, <1>4, <1>5, TimelyFewer

LEMMA TimelyStill ==
  ASSUME NEW S, Typed(S), Timely, Locks \/ Tick
  PROVE  Timely'
<1>1. Fewer
  BY IsFewer
<1>2. queue' = queue /\ raced' = raced /\ work' = work /\ now' \in {now, now + 1}
  BY DEF Locks, Tick, storage, ghosts
<1>3. now \in Nat /\ now' \in Nat /\ now' >= now
  <2>1. now \in Nat
    BY BoundAssumption DEF Typed, Stores, TypeOK
  <2>2. QED BY <1>2, <2>1
<1>4. \A t : Pending(t) => Pending(t)'
  BY <1>2 DEF Pending, Steps
<1>5. QED BY <1>1, <1>2, <1>3, <1>4, TimelyFewer

LEMMA TimelyCrash ==
  ASSUME NEW S, Typed(S), Crash
  PROVE  Timely'
<1>1. queue' = restore /\ lease' = lease /\ work' = [p \in Proc |-> <<>>]
  BY DEF Crash, storage
<1>2. \A t \in Tok : lease'[t] # None => queue'[t] = lease'[t].expire
  BY <1>1, Restored, DisjointIds
<1>3. \A q \in Proc : DOMAIN work'[q] = {}
  <2>1. \A q \in Proc : work'[q] = <<>>
    BY <1>1
  <2>2. QED BY <2>1
<1>4. QED BY <1>2, <1>3 DEF Timely

LEMMA TimelyAdds ==
  ASSUME Timely, NEW p, NEW st, Adds(p, st),
         \A i \in DOMAIN st :
           /\ st[i][1] # "push"
           /\ \A t \in Tok : Drops(st[i], t) => p = Checker /\ Overdue(t)
  PROVE  Timely'
<1>1. \A q \in Proc : \A i \in DOMAIN work'[q] :
        \/ q = p /\ work'[q] = st /\ i \in DOMAIN st
        \/ q # p /\ work'[q] = work[q] /\ i \in DOMAIN work[q]
  BY AddsSteps
<1>2. lease' = lease /\ queue' = queue /\ raced' = raced /\ now' = now
  BY DEF Adds
<1>3. \A t : Pending(t) => Pending(t)'
  BY PendingAdds
<1>4. \A t : Overdue(t) => Overdue(t)'
  BY <1>2, <1>3 DEF Overdue
<1>5. ASSUME NEW q \in Proc, NEW i \in DOMAIN work'[q], NEW t \in Tok PROVE TimeOK(q, i, t)'
  <2>1. CASE q = p /\ work'[q] = st /\ i \in DOMAIN st
    BY <1>4, <2>1 DEF TimeOK, Is
  <2>2. CASE q # p /\ work'[q] = work[q] /\ i \in DOMAIN work[q]
    <3>1. TimeOK(q, i, t)
      BY <2>2 DEF Timely
    <3>2. QED BY <1>2, <1>4, <2>2, <3>1 DEF TimeOK
  <2>3. QED BY <1>1, <2>1, <2>2
<1>6. \A t \in Tok : lease'[t] # None =>
        queue'[t] \in {None, lease'[t].expire} \/ Pending(t)' \/ t \in raced'
  BY <1>2, <1>3 DEF Timely
<1>7. QED BY <1>5, <1>6 DEF Timely

LEMMA TimelyPeeks ==
  ASSUME NEW S, Typed(S), Timely, NEW l \in Lease, NEW st, Peeks(l, st)
  PROVE  Timely'
<1>1. Adds(Checker, st) /\ \A i \in DOMAIN st : PeekOK(st, i, l)
  BY PeeksAdd
<1>2. ASSUME NEW i \in DOMAIN st, NEW t \in Tok, Drops(st[i], t) PROVE Overdue(t)
  <2>1. t = l /\ queue[t] # None /\ queue[t] <= now
    BY <1>1, <1>2 DEF PeekOK, Drops, Peeks, Soonest, Queued
  <2>2. lease[t] # None => queue[t] \in {None, lease[t].expire} \/ Pending(t) \/ t \in raced
    BY DEF Timely
  <2>3. QED BY <2>1, <2>2 DEF Overdue
<1>3. \A i \in DOMAIN st : st[i][1] # "push"
  BY <1>1 DEF PeekOK
<1>4. QED BY <1>1, <1>2, <1>3, TimelyAdds

LEMMA TimelyAsks ==
  ASSUME NEW S, Typed(S), Timely, NEW p, NEW st, NEW ids, Asks(p, st, ids)
  PROVE  Timely'
<1>1. Adds(p, st) /\ \A i \in DOMAIN st : AskOK(st, i, ids)
  BY AsksAdd
<1>2. ASSUME NEW i \in DOMAIN st
      PROVE  st[i][1] \notin {"push", "revoke_lease_id", "delete_lease_entry"}
  <2>1. AskOK(st, i, ids)
    BY <1>1
  <2>2. QED BY <2>1 DEF AskOK
<1>3. QED BY <1>1, <1>2, TimelyAdds DEF Drops

-----------------------------------------------------------------------------
(* The invariant.                                                           *)

LEMMA StartsTyped ==
  ASSUME Init
  PROVE  Typed({})
<1>1. /\ entry = [t \in Tok |-> IF t \in {Root} \cup Stored
                                THEN [parent |-> None, uses |-> 0] ELSE None]
      /\ children = {} /\ index = {}
      /\ lease = [l \in Lease |-> IF l \in Stored THEN [token |-> l, expire |-> 1] ELSE None]
      /\ now = 1 /\ queue = restore /\ locked = FALSE /\ work = [p \in Proc |-> <<>>]
      /\ fresh = Lease \ ({Root} \cup Stored)
      /\ chosen = {} /\ given = Stored /\ created = {}
      /\ ops = 0 /\ faults = 0 /\ raced = {}
  BY DEF Init
<1>2. Root \in Tok /\ Stored \subseteq Tok /\ Tok \subseteq Lease
  BY RootAssumption, StoredAssumption, DisjointIds
<1>3. [parent |-> None, uses |-> 0] \in Entry
  BY BoundAssumption DEF Entry
<1>4. None \notin fresh
  <2>1. Lease \subseteq Nat
    BY RootAssumption DEF Lease
  <2>2. QED BY <1>1, <2>1, NoneAssumption
<1>5. \A t \in Tok : entry[t] # None => t \in {Root} \cup Stored /\ entry[t] = [parent |-> None, uses |-> 0]
  BY <1>1
<1>6. \A l \in Lease : lease[l] # None => l \in Stored /\ lease[l] = [token |-> l, expire |-> 1]
  BY <1>1
<1>7. entry \in [Tok -> Entry \cup {None}]
  BY <1>1, <1>3
<1>8. lease \in [Lease -> LeaseEntry \cup {None}]
  <2>1. \A l \in Stored : [token |-> l, expire |-> 1] \in LeaseEntry
    BY <1>2 DEF LeaseEntry
  <2>2. QED BY <1>1, <2>1
<1>9. queue = [l \in Lease |-> IF lease[l] = None THEN None ELSE lease[l].expire]
  BY <1>1 DEF restore
<1>10. queue \in [Lease -> Nat \cup {None}]
  <2>1. \A l \in Lease : lease[l] # None => lease[l].expire \in Nat
    BY <1>8 DEF LeaseEntry
  <2>2. QED BY <1>9, <2>1
<1>11. held \subseteq Tok \ fresh
  BY <1>1, <1>2 DEF held
<1>12. \A l \in Lease : lease[l] # None => {l, lease[l].token} \cap fresh = {}
  BY <1>1, <1>6
<1>13. TypeOK
  <2>1. now \in 1..MaxTime
    BY <1>1, BoundAssumption
  <2>2. locked \in BOOLEAN /\ children \subseteq Tok \X Tok /\ index \subseteq Tok \X Sec
    BY <1>1
  <2>3. QED BY <1>7, <1>8, <1>10, <1>11, <1>12, <2>1, <2>2 DEF TypeOK
<1>14. \A t \in Tok : entry[t] # None => t \in UsedTok /\ EntryOK(entry[t])
  BY <1>1, <1>3, <1>4, <1>5 DEF UsedTok, EntryOK
<1>15. \A l \in Lease : queue[l] # None => l \in Used
  BY <1>1, <1>6, <1>9 DEF Used
<1>16. \A l \in Lease : lease[l] # None => lease[l].expire > 0
  <2>1. TAKE l \in Lease
  <2>2. HAVE lease[l] # None
  <2>3. lease[l] = [token |-> l, expire |-> 1]
    BY <1>6, <2>2
  <2>4. lease[l].expire = 1
    BY <2>3
  <2>5. QED BY <2>4
<1>17. Stores
  BY <1>1, <1>13, <1>14, <1>15, <1>16 DEF Stores
<1>18. \A p \in Proc : work[p] = <<>> /\ DOMAIN work[p] = {}
  <2>1. \A p \in Proc : work[p] = <<>>
    BY <1>1
  <2>2. QED BY <2>1
<1>19. work \in [Proc -> Seq({})]
  BY <1>1
<1>20. Threads
  BY <1>18 DEF Threads, Ordered, Proc
<1>21. QED BY <1>17, <1>19, <1>20 DEF Typed

LEMMA Starts ==
  ASSUME Init
  PROVE  IInv
<1>1. Typed({})
  BY StartsTyped
<1>2. \A p \in Proc : DOMAIN work[p] = {}
  <2>1. \A p \in Proc : work[p] = <<>>
    BY DEF Init
  <2>2. QED BY <2>1
<1>3. Checker \in Proc
  BY DEF Proc
<1>4. /\ \A t \in Tok : entry[t] = IF t \in {Root} \cup Stored
                                   THEN [parent |-> None, uses |-> 0] ELSE None
      /\ \A l \in Lease : lease[l] = IF l \in Stored THEN [token |-> l, expire |-> 1] ELSE None
      /\ index = {} /\ queue = restore /\ given = Stored
      /\ fresh = Lease \ ({Root} \cup Stored)
  BY DEF Init
<1>5. Stored \subseteq Tok /\ Tok \subseteq Lease /\ Sec \subseteq Lease /\ Tok \cap Sec = {}
  BY StoredAssumption, DisjointIds
<1>6. \A l \in Stored : lease[l] # None
  <2>1. \A l \in Stored : [token |-> l, expire |-> 1] \in [token : Tok, expire : Nat]
    BY <1>5
  <2>2. QED BY <1>4, <1>5, <2>1, NoneAssumption
<1>7. \A x \in Stored : Final(x)
  BY <1>2, <1>4, <1>5 DEF Final, NoPut
<1>8. Puts
  BY <1>2 DEF Puts
<1>9. Leased
  <2>1. \A t \in Tok : lease[t] # None => Final(t)
    BY <1>4, <1>5, <1>7
  <2>2. \A t \in given : Final(t) /\ HasLease(t)
    BY <1>4, <1>6, <1>7 DEF HasLease
  <2>3. QED BY <1>2, <2>1, <2>2 DEF Leased
<1>10. Linked
  <2>1. \A c \in Tok : Unlimited(c) => entry[c].parent = None
    BY <1>4 DEF Unlimited
  <2>2. QED BY <1>2, <2>1 DEF Linked
<1>11. Secrets
  <2>1. \A s \in Sec : lease[s] = None
    BY <1>4, <1>5
  <2>2. \A l \in Lease : queue[l] # 0
    <3>1. \A l \in Lease : lease[l] # None => lease[l].expire > 0
      BY <1>1 DEF Typed, Stores
    <3>2. QED BY <1>1, <1>4, <3>1, Restored, NoneAssumption
  <2>3. LeaseIndexed
    BY <2>1 DEF LeaseIndexed
  <2>4. QED BY <1>2, <1>4, <2>1, <2>2, <2>3 DEF Secrets
<1>12. Promises
  BY <1>2 DEF Promises
<1>13. Watched
  <2>1. LeaseWatched
    BY <1>1, <1>4, Restored DEF LeaseWatched
  <2>2. QED BY <1>2, <1>3, <2>1 DEF Watched
<1>14. Timely
  <2>1. \A t \in Tok : lease[t] # None => queue[t] = lease[t].expire
    BY <1>1, <1>4, <1>5, Restored
  <2>2. QED BY <1>2, <2>1 DEF Timely
<1>15. QED BY <1>1, <1>8, <1>9, <1>10, <1>11, <1>12, <1>13, <1>14 DEF IInv

(* Every step of the system is one of these. *)
LEMMA NextCases ==
  ASSUME NEW S, Typed(S), Next
  PROVE  \/ \E p \in Proc : Dropped(p)
         \/ \E p \in Proc : \E st : Takes(p, st) /\ (Head(work[p])[1] = "pop" => p = Checker)
         \/ \E l \in Lease : \E st : Peeks(l, st)
         \/ \E p, st, ids : Asks(p, st, ids)
         \/ Locks \/ Tick \/ Crash
<1>1. Callers \subseteq Proc /\ Checker \in Proc
  BY DEF Proc
<1>2. ASSUME NEW p \in Proc, TokenStep(p) \/ RevokeStep(p)
      PROVE  Dropped(p) \/ \E st : Takes(p, st) /\ (Head(work[p])[1] = "pop" => p = Checker)
  <2>1. Head(work[p])[1] # "pop"
    BY <1>2 DEF TokenStep, RevokeStep, At, CheckToken, LookupParent, PutParent, PutId, RegisterAuth,
                RegisterSecret, CreateIndex, Give, RenewToken, Renewed, RevokeTreeStep, Revoke, Delete,
                DeleteParent, RevokeByToken, RevokeLeaseId, DeleteLeaseEntry, RemoveIndex, Done, Push
  <2>2. Stops(p) \/ \E st : Takes(p, st)
    BY <1>2, ActionTakes
  <2>3. QED BY <2>1, <2>2, Drop
<1>3. ASSUME NEW p \in Callers, \/ Create(p) \/ Login(p) \/ ReadLeased(p) \/ Renew(p)
                                \/ RevokeTree(p) \/ RevokeOrphan(p)
      PROVE  \E st, ids : Asks(p, st, ids)
  BY <1>3, ActionAsks
<1>4. CASE CheckerStep
  <2>1. CASE CheckerTick
    BY <2>1, TickLocks
  <2>2. CASE CheckerPeek
    BY <2>2, PeekCases
  <2>3. CASE CheckerPop
    <3>1. Stops(Checker) \/ \E st : Takes(Checker, st)
      BY <1>1, <2>3, ActionTakes
    <3>2. QED BY <1>1, <3>1, Drop
  <2>4. CASE RevokeStep(Checker)
    BY <1>1, <1>2, <2>4
  <2>5. QED BY <1>4, <2>1, <2>2, <2>3, <2>4 DEF CheckerStep
<1>5. CASE \E p \in Proc : Fail(p)
  BY <1>5, Drop
<1>6. CASE \E p \in Callers : \/ Create(p) \/ Login(p) \/ ReadLeased(p) \/ Renew(p)
                              \/ RevokeTree(p) \/ RevokeOrphan(p)
                              \/ TokenStep(p) \/ RevokeStep(p)
  BY <1>1, <1>2, <1>3, <1>6
<1>7. QED BY <1>4, <1>5, <1>6 DEF Next

LEMMA Kept ==
  ASSUME IInv, [Next]_vars
  PROVE  IInv'
<1>1. PICK S : Typed(S)
  BY DEF IInv
<1>2. Puts /\ Leased /\ Linked /\ Secrets /\ Promises /\ Watched /\ Timely
  BY DEF IInv
<1>3. CASE UNCHANGED vars
  <2>1. UNCHANGED <<entry, children, lease, index, queue, locked, now, work, fresh,
                    chosen, given, created, ops, faults, broken, raced>>
    BY <1>3 DEF vars
  <2>2. Typed(S)'
    BY <1>1, <2>1 DEF Typed, Stores, TypeOK, held, Threads, StepOK, EntryOK, Used, UsedTok, UsedSec
  <2>3. Locks \/ (locked' = FALSE /\ work[Checker] # <<>>)
    <3>1. locked \in BOOLEAN
      BY <1>1 DEF Typed, Stores, TypeOK
    <3>2. QED BY <2>1, <3>1 DEF Locks, storage, ghosts
  <2>4. Locks
    <3>1. work[Checker] # <<>> => locked
      BY <1>1 DEF Typed, Threads
    <3>2. QED BY <2>1, <2>3, <3>1
  <2>5. Fewer
    BY <1>1, <2>4, IsFewer
  <2>6. Puts' /\ Leased' /\ Linked' /\ Promises'
    BY <1>2, <2>5, PutsFewer, LeasedFewer, LinkedFewer, PromisesFewer
  <2>7. Secrets' /\ Watched' /\ Timely'
    BY <1>1, <1>2, <2>4, SecretsStill, WatchedStill, TimelyStill
  <2>8. QED BY <2>2, <2>6, <2>7 DEF IInv
<1>4. CASE \E p \in Proc : Dropped(p)
  <2>1. PICK p \in Proc : Dropped(p)
    BY <1>4
  <2>2. Typed(S)'
    BY <1>1, <2>1, TypedDropped
  <2>3. Fewer
    BY <1>1, <1>4, IsFewer
  <2>4. Puts' /\ Leased' /\ Linked' /\ Promises'
    BY <1>2, <2>3, PutsFewer, LeasedFewer, LinkedFewer, PromisesFewer
  <2>5. Secrets' /\ Watched' /\ Timely'
    BY <1>1, <1>2, <2>1, SecretsDropped, WatchedDropped, TimelyDropped
  <2>6. QED BY <2>2, <2>4, <2>5 DEF IInv
<1>5. CASE \E p \in Proc : \E st : Takes(p, st) /\ (Head(work[p])[1] = "pop" => p = Checker)
  <2>1. PICK p \in Proc : \E st : Takes(p, st) /\ (Head(work[p])[1] = "pop" => p = Checker)
    BY <1>5
  <2>2. PICK st : Takes(p, st) /\ (Head(work[p])[1] = "pop" => p = Checker)
    BY <2>1
  <2>3. \E S2 : Typed(S2)'
    BY <1>1, <2>2, TypedTaken
  <2>4. Puts' /\ Leased' /\ Linked'
    BY <1>1, <1>2, <2>2, PutsTaken, LeasedTaken, LinkedTaken
  <2>5. Secrets' /\ Promises'
    BY <1>1, <1>2, <2>2, SecretsTaken, PromisesTaken
  <2>6. Watched' /\ Timely'
    BY <1>1, <1>2, <2>2, WatchedTaken, TimelyTaken
  <2>7. QED BY <2>3, <2>4, <2>5, <2>6 DEF IInv
<1>6. CASE \E l \in Lease : \E st : Peeks(l, st)
  <2>1. PICK l \in Lease : \E st : Peeks(l, st)
    BY <1>6
  <2>2. PICK st : Peeks(l, st)
    BY <2>1
  <2>3. \E S2 : Typed(S2)'
    BY <1>1, <2>2, TypedPeeks
  <2>4. Puts' /\ Leased' /\ Linked'
    BY <1>1, <1>2, <2>2, PutsPeeks, LeasedPeeks, LinkedPeeks
  <2>5. Secrets' /\ Promises'
    BY <1>1, <1>2, <2>2, SecretsPeeks, PromisesPeeks
  <2>6. Watched' /\ Timely'
    BY <1>1, <1>2, <2>2, WatchedPeeks, TimelyPeeks
  <2>7. QED BY <2>3, <2>4, <2>5, <2>6 DEF IInv
<1>7. CASE \E p, st, ids : Asks(p, st, ids)
  <2>1. PICK p, st, ids : Asks(p, st, ids)
    BY <1>7
  <2>3. \E S2 : Typed(S2)'
    BY <1>1, <2>1, TypedAsks
  <2>4. Puts' /\ Leased' /\ Linked'
    BY <1>1, <1>2, <2>1, PutsAsks, LeasedAsks, LinkedAsks
  <2>5. Secrets' /\ Promises'
    BY <1>1, <1>2, <2>1, SecretsAsks, PromisesAsks
  <2>6. Watched' /\ Timely'
    BY <1>1, <1>2, <2>1, WatchedAsks, TimelyAsks
  <2>7. QED BY <2>3, <2>4, <2>5, <2>6 DEF IInv
<1>8. CASE Locks \/ Tick
  <2>1. Typed(S)'
    BY <1>1, <1>8, TypedLocks, TypedTick
  <2>2. Fewer
    BY <1>1, <1>8, IsFewer
  <2>3. Puts' /\ Leased' /\ Linked' /\ Promises'
    BY <1>2, <2>2, PutsFewer, LeasedFewer, LinkedFewer, PromisesFewer
  <2>4. Secrets' /\ Watched' /\ Timely'
    BY <1>1, <1>2, <1>8, SecretsStill, WatchedStill, TimelyStill
  <2>5. QED BY <2>1, <2>3, <2>4 DEF IInv
<1>9. CASE Crash
  <2>1. Typed(S)'
    BY <1>1, <1>9, TypedCrash
  <2>2. Fewer
    BY <1>1, <1>9, IsFewer
  <2>3. Puts' /\ Leased' /\ Linked' /\ Promises'
    BY <1>2, <2>2, PutsFewer, LeasedFewer, LinkedFewer, PromisesFewer
  <2>4. Secrets' /\ Watched' /\ Timely'
    BY <1>1, <1>2, <1>9, SecretsCrash, WatchedCrash, TimelyCrash
  <2>5. QED BY <2>1, <2>3, <2>4 DEF IInv
<1>10. QED BY <1>1, <1>3, <1>4, <1>5, <1>6, <1>7, <1>8, <1>9, NextCases

-----------------------------------------------------------------------------
(* The results.                                                             *)

LEMMA Always == Spec => []IInv
<1>1. Init => IInv
  BY Starts
<1>2. IInv /\ [Next]_vars => IInv'
  BY Kept
<1>3. QED BY <1>1, <1>2, PTL DEF Spec

(* Every stored piece is well typed, the checker will come to every stored  *)
(* lease and a stored secret's lease is found under its token, for any      *)
(* tokens, secrets, requests, errors, crashes and clock (expiration.rs,     *)
(* register_secret, register_auth, restore, the checker's pop).             *)
THEOREM LeasesOKHolds == Spec => []LeasesOK
<1>1. IInv => LeasesOK
  BY DEF IInv, Typed, Stores, Secrets, Watched, LeasesOK
<1>2. QED BY <1>1, Always, PTL

(* What revoke_tree and revoke_salted have finished stays revoked, whatever *)
(* other requests, errors and crashes come between (token_store.rs,         *)
(* revoke_tree_salted, revoke_salted).                                      *)
THEOREM RevokedStayRevokedHolds == Spec => []RevokedStayRevoked
<1>1. ASSUME IInv PROVE RevokedStayRevoked
  <2>1. PICK S : Typed(S)
    BY <1>1 DEF IInv
  <2>2. SUFFICES ASSUME NEW p \in Proc, At(p, "done"), NEW i \in Arg(p, 2)
                 PROVE  (i \in Tok => entry[i] = None) /\ (i \in Sec => lease[i] = None)
    BY DEF RevokedStayRevoked
  <2>3. work[p] \in Seq(S) /\ work[p] # <<>>
    BY <2>1, <2>2 DEF Typed, At
  <2>4. 1 \in DOMAIN work[p] /\ work[p][1] = Head(work[p]) /\ \A j \in DOMAIN work[p] : ~(j < 1)
    BY <2>1, <2>3, HeadOK, LenProperties
  <2>5. DoneOK(p, 1)
    BY <1>1, <2>4 DEF IInv, Promises
  <2>6. i \in work[p][1][2] /\ work[p][1][1] = "done"
    BY <2>2, <2>4 DEF At, Arg
  <2>7. QED BY <2>4, <2>5, <2>6 DEF DoneOK, Ending, ToEndLease
<1>2. QED BY <1>1, Always, PTL

(* A token that post_route gave to a client is stored only while its lease  *)
(* is, for every history (token_store.rs, post_route; expiration.rs,        *)
(* revoke_lease_id).                                                        *)
THEOREM HeldTokenHasLeaseHolds == Spec => []HeldTokenHasLease
<1>1. IInv => HeldTokenHasLease
  BY DEF IInv, Leased, HasLease, HeldTokenHasLease
<1>2. QED BY <1>1, Always, PTL

(* The checker deletes the lease of a token only when it is due, or when a  *)
(* renewal of it waits for the queue or has overlapped with another         *)
(* (renew_token, register_lease_entry).                                     *)
THEOREM NoEarlyExpiryHolds == Spec => NoEarlyExpiry
<1> DEFINE Kind == \A t \in Tok :
       (lease[t] # None /\ lease'[t] = None) =>
         lease[t].expire <= now \/ Pending(t) \/ t \in raced
<1>1. ASSUME IInv, Next PROVE Kind
  <2>1. PICK S : Typed(S)
    BY <1>1 DEF IInv
  <2>2. CASE lease' = lease
    BY <2>2
  <2>3. CASE \E p \in Proc : \E st : Takes(p, st)
    <3>1. PICK p \in Proc : \E st : Takes(p, st)
      BY <2>3
    <3>2. PICK st : Takes(p, st)
      BY <3>1
    <3> DEFINE h == Head(work[p])
    <3>3. LeasesMove(h) /\ StepOK(h) /\ 1 \in DOMAIN work[p] /\ work[p][1] = h
      BY <2>1, <3>2, TakesDoes
    <3> HIDE DEF h
    <3>4. SUFFICES ASSUME NEW t \in Tok, lease[t] # None, lease'[t] = None
                   PROVE  lease[t].expire <= now \/ Pending(t) \/ t \in raced
      OBVIOUS
    <3>5. ~Registering(h, t) \/ lease'[t] # None
      <4>1. Registering(h, t) => h[2] \in Tok
        BY <3>3 DEF Registering, StepOK, OfTok, UsedTok
      <4>2. now \in Nat
        BY <2>1, BoundAssumption DEF Typed, Stores, TypeOK
      <4>3. Registering(h, t) => [token |-> h[2], expire |-> now + Ttl] \in [token : Tok, expire : Nat]
        BY <4>1, <4>2, TtlAssumption
      <4>4. Registering(h, t) => lease'[t] = [token |-> h[2], expire |-> now + Ttl]
        <5>1. ~(Registering(h, t) /\ h[1] = "delete_lease_entry")
          BY DEF Registering
        <5>2. QED BY <2>1, <3>3, <5>1, LeaseAt, DisjointIds
      <4>5. QED BY <4>3, <4>4, NoneAssumption
    <3>6. h[1] = "delete_lease_entry" /\ h[2] = t
      BY <2>1, <3>3, <3>4, <3>5, LeaseAt, DisjointIds
    <3>7. TimeOK(p, 1, t)
      BY <1>1, <3>3 DEF IInv, Timely
    <3>8. QED BY <3>3, <3>4, <3>6, <3>7 DEF TimeOK, Drops, Overdue
  <2>4. (\E p \in Proc : \E st : Takes(p, st)) \/ lease' = lease
    <3>1. \A p : Dropped(p) => lease' = lease
      BY DEF Dropped, storage
    <3>2. \A l, st : Peeks(l, st) => lease' = lease
      BY DEF Peeks, storage
    <3>3. \A p, st, ids : Asks(p, st, ids) => lease' = lease
      BY DEF Asks, storage
    <3>4. Locks \/ Tick \/ Crash => lease' = lease
      BY DEF Locks, Tick, Crash, storage
    <3>5. QED BY <1>1, <2>1, <3>1, <3>2, <3>3, <3>4, NextCases
  <2>5. QED BY <2>2, <2>3, <2>4
<1>2. IInv /\ [Next]_vars => [Kind]_vars
  BY <1>1
<1>3. QED BY <1>2, Always, PTL DEF Spec, NoEarlyExpiry
=============================================================================
