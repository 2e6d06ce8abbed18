-------------------------- MODULE AppRole_proofs ---------------------------
(* Proofs about AppRole: the layers of AppRoleInvariant, one after another. *)
(* XMoves says what action X does to the task that takes it (XEffect);      *)
(* XShapes, XSecrets, XIndexed, XKept and XTidied that X keeps a layer;     *)
(* NextXKept that every step does; the theorems follow from the layers.     *)
EXTENDS AppRoleInvariant, FiniteSetTheorems, SequenceTheorems, TLAPS

(* What most steps leave alone. *)
secrets == <<secret, accessor, acc, accepts, limit, made, gone>>
still == <<storage, now, inc, acc, history, faults>>
USE DEF secrets, still

-----------------------------------------------------------------------------
(* Short sequences.                                                         *)

LEMMA ConcatIs ==
  ASSUME NEW S, NEW s \in Seq(S), NEW t \in Seq(S), NEW u \in Seq(S),
         Len(u) = Len(s) + Len(t), \A i \in 1..Len(s) : u[i] = s[i],
         \A i \in 1..Len(t) : u[Len(s) + i] = t[i]
  PROVE  s \o t = u
<1>1. s \o t \in Seq(S) /\ Len(s \o t) = Len(s) + Len(t)
      /\ \A i \in 1..Len(s) + Len(t) : (s \o t)[i] = IF i <= Len(s) THEN s[i] ELSE t[i - Len(s)]
  BY ConcatProperties
<1>2. \A i \in 1..Len(s) + Len(t) : (s \o t)[i] = u[i]
  <2>1. ASSUME NEW i \in 1..Len(s) + Len(t), i > Len(s) PROVE u[i] = t[i - Len(s)]
    <3>1. i - Len(s) \in 1..Len(t) /\ Len(s) + (i - Len(s)) = i
      BY <2>1
    <3>2. QED BY <3>1
  <2>2. QED BY <1>1, <2>1
<1>3. QED BY <1>1, <1>2, SeqEqual

LEMMA Cat11 ==
  ASSUME NEW x1, NEW x2
  PROVE  <<x1>> \o <<x2>> = <<x1, x2>>
<1> DEFINE S == {x1, x2} s == <<x1>> t == <<x2>> u == <<x1, x2>>
<1>1. s \in Seq(S) /\ t \in Seq(S) /\ u \in Seq(S) /\ Len(u) = Len(s) + Len(t)
  OBVIOUS
<1>2. \A i \in 1..Len(s) : u[i] = s[i]
  OBVIOUS
<1>3. \A i \in 1..Len(t) : u[Len(s) + i] = t[i]
  OBVIOUS
<1> HIDE DEF S, s, t, u
<1>4. s \o t = u
  BY <1>1, <1>2, <1>3, ConcatIs, Zenon
<1>5. QED BY <1>4 DEF s, t, u

LEMMA Cat21 ==
  ASSUME NEW x1, NEW x2, NEW x3
  PROVE  <<x1, x2>> \o <<x3>> = <<x1, x2, x3>>
<1> DEFINE S == {x1, x2, x3} s == <<x1, x2>> t == <<x3>> u == <<x1, x2, x3>>
<1>1. s \in Seq(S) /\ t \in Seq(S) /\ u \in Seq(S) /\ Len(u) = Len(s) + Len(t)
  OBVIOUS
<1>2. \A i \in 1..Len(s) : u[i] = s[i]
  OBVIOUS
<1>3. \A i \in 1..Len(t) : u[Len(s) + i] = t[i]
  OBVIOUS
<1> HIDE DEF S, s, t, u
<1>4. s \o t = u
  BY <1>1, <1>2, <1>3, ConcatIs, Zenon
<1>5. QED BY <1>4 DEF s, t, u

LEMMA Cat31 ==
  ASSUME NEW x1, NEW x2, NEW x3, NEW x4
  PROVE  <<x1, x2, x3>> \o <<x4>> = <<x1, x2, x3, x4>>
<1> DEFINE S == {x1, x2, x3, x4} s == <<x1, x2, x3>> t == <<x4>> u == <<x1, x2, x3, x4>>
<1>1. s \in Seq(S) /\ t \in Seq(S) /\ u \in Seq(S) /\ Len(u) = Len(s) + Len(t)
  OBVIOUS
<1>2. \A i \in 1..Len(s) : u[i] = s[i]
  OBVIOUS
<1>3. \A i \in 1..Len(t) : u[Len(s) + i] = t[i]
  OBVIOUS
<1> HIDE DEF S, s, t, u
<1>4. s \o t = u
  BY <1>1, <1>2, <1>3, ConcatIs, Zenon
<1>5. QED BY <1>4 DEF s, t, u

LEMMA Cat41 ==
  ASSUME NEW x1, NEW x2, NEW x3, NEW x4, NEW x5
  PROVE  <<x1, x2, x3, x4>> \o <<x5>> = <<x1, x2, x3, x4, x5>>
<1> DEFINE S == {x1, x2, x3, x4, x5} s == <<x1, x2, x3, x4>> t == <<x5>> u == <<x1, x2, x3, x4, x5>>
<1>1. s \in Seq(S) /\ t \in Seq(S) /\ u \in Seq(S) /\ Len(u) = Len(s) + Len(t)
  OBVIOUS
<1>2. \A i \in 1..Len(s) : u[i] = s[i]
  OBVIOUS
<1>3. \A i \in 1..Len(t) : u[Len(s) + i] = t[i]
  OBVIOUS
<1> HIDE DEF S, s, t, u
<1>4. s \o t = u
  BY <1>1, <1>2, <1>3, ConcatIs, Zenon
<1>5. QED BY <1>4 DEF s, t, u

LEMMA Cat14 ==
  ASSUME NEW x1, NEW x2, NEW x3, NEW x4, NEW x5
  PROVE  <<x1>> \o <<x2, x3, x4, x5>> = <<x1, x2, x3, x4, x5>>
<1> DEFINE S == {x1, x2, x3, x4, x5} s == <<x1>> t == <<x2, x3, x4, x5>> u == <<x1, x2, x3, x4, x5>>
<1>1. s \in Seq(S) /\ t \in Seq(S) /\ u \in Seq(S) /\ Len(u) = Len(s) + Len(t)
  OBVIOUS
<1>2. \A i \in 1..Len(s) : u[i] = s[i]
  OBVIOUS
<1>3. \A i \in 1..Len(t) : u[Len(s) + i] = t[i]
  OBVIOUS
<1> HIDE DEF S, s, t, u
<1>4. s \o t = u
  BY <1>1, <1>2, <1>3, ConcatIs, Zenon
<1>5. QED BY <1>4 DEF s, t, u

LEMMA Cat24 ==
  ASSUME NEW x1, NEW x2, NEW x3, NEW x4, NEW x5, NEW x6
  PROVE  <<x1, x2>> \o <<x3, x4, x5, x6>> = <<x1, x2, x3, x4, x5, x6>>
<1> DEFINE S == {x1, x2, x3, x4, x5, x6} s == <<x1, x2>> t == <<x3, x4, x5, x6>> u == <<x1, x2, x3, x4, x5, x6>>
<1>1. s \in Seq(S) /\ t \in Seq(S) /\ u \in Seq(S) /\ Len(u) = Len(s) + Len(t)
  OBVIOUS
<1>2. \A i \in 1..Len(s) : u[i] = s[i]
  OBVIOUS
<1>3. \A i \in 1..Len(t) : u[Len(s) + i] = t[i]
  OBVIOUS
<1> HIDE DEF S, s, t, u
<1>4. s \o t = u
  BY <1>1, <1>2, <1>3, ConcatIs, Zenon
<1>5. QED BY <1>4 DEF s, t, u

LEMMA Cat42 ==
  ASSUME NEW x1, NEW x2, NEW x3, NEW x4, NEW x5, NEW x6
  PROVE  <<x1, x2, x3, x4>> \o <<x5, x6>> = <<x1, x2, x3, x4, x5, x6>>
<1> DEFINE S == {x1, x2, x3, x4, x5, x6} s == <<x1, x2, x3, x4>> t == <<x5, x6>> u == <<x1, x2, x3, x4, x5, x6>>
<1>1. s \in Seq(S) /\ t \in Seq(S) /\ u \in Seq(S) /\ Len(u) = Len(s) + Len(t)
  OBVIOUS
<1>2. \A i \in 1..Len(s) : u[i] = s[i]
  OBVIOUS
<1>3. \A i \in 1..Len(t) : u[Len(s) + i] = t[i]
  OBVIOUS
<1> HIDE DEF S, s, t, u
<1>4. s \o t = u
  BY <1>1, <1>2, <1>3, ConcatIs, Zenon
<1>5. QED BY <1>4 DEF s, t, u

LEMMA Cat01 ==
  ASSUME NEW s, s = <<>>, NEW x1 PROVE s \o <<x1>> = <<x1>>
  OBVIOUS

LEMMA Cat10 ==
  ASSUME NEW s, s = <<>>, NEW x1
  PROVE  <<x1>> \o s = <<x1>>
  OBVIOUS

LEMMA Cat20 ==
  ASSUME NEW s, s = <<>>, NEW x1, NEW x2
  PROVE  <<x1, x2>> \o s = <<x1, x2>>
  OBVIOUS

LEMMA Cat30 ==
  ASSUME NEW s, s = <<>>, NEW x1, NEW x2, NEW x3
  PROVE  <<x1, x2, x3>> \o s = <<x1, x2, x3>>
  OBVIOUS

LEMMA Cat40 ==
  ASSUME NEW s, s = <<>>, NEW x1, NEW x2, NEW x3, NEW x4
  PROVE  <<x1, x2, x3, x4>> \o s = <<x1, x2, x3, x4>>
  OBVIOUS

LEMMA Tail1 ==
  ASSUME NEW x1 PROVE Tail(<<x1>>) = <<>>
  OBVIOUS

LEMMA Tail2 ==
  ASSUME NEW x1, NEW x2
  PROVE  Tail(<<x1, x2>>) = <<x2>>
  OBVIOUS

LEMMA Tail3 ==
  ASSUME NEW x1, NEW x2, NEW x3
  PROVE  Tail(<<x1, x2, x3>>) = <<x2, x3>>
  OBVIOUS

LEMMA Tail4 ==
  ASSUME NEW x1, NEW x2, NEW x3, NEW x4
  PROVE  Tail(<<x1, x2, x3, x4>>) = <<x2, x3, x4>>
  OBVIOUS

LEMMA Tail5 ==
  ASSUME NEW x1, NEW x2, NEW x3, NEW x4, NEW x5
  PROVE  Tail(<<x1, x2, x3, x4, x5>>) = <<x2, x3, x4, x5>>
  OBVIOUS

LEMMA Tail6 ==
  ASSUME NEW x1, NEW x2, NEW x3, NEW x4, NEW x5, NEW x6
  PROVE  Tail(<<x1, x2, x3, x4, x5, x6>>) = <<x2, x3, x4, x5, x6>>
  OBVIOUS

-----------------------------------------------------------------------------
(* What the actions do to the task.                                         *)

LEMMA RefuseMoves ==
  ASSUME Shapes, NEW p \in Proc, Rest(p, <<>>)
  PROVE  Moved(p, <<>>, {})
  BY DEF Shapes, TasksTyped, Rest, Moved

LEMMA RestMoves ==
  ASSUME Shapes, NEW p \in Proc, NEW w, w # <<>>, Rest(p, w)
  PROVE  Moved(p, w, held[p])
  BY DEF Shapes, TasksTyped, Rest, Moved

LEMMA RequestMoves ==
  ASSUME Shapes, NEW p \in Proc, NEW w, Request(p, w)
  PROVE  work[p] = <<>> /\ held[p] = {} /\ Moved(p, w, {})
<1>1. work[p] = <<>> /\ held[p] = {}
  BY DEF Request, Shapes, TasksTyped, Fits
<1>2. QED
  BY <1>1 DEF Request, Shapes, TasksTyped, Moved

LEMMA AtCaller ==
  ASSUME Shapes, NEW p \in Callers, NEW op, At(p, op), op \notin {"lock", "unlock"}
  PROVE  p \in Proc /\ CallerBody(held[p], work[p])
<1>1. p \in Proc /\ p # Tidy
  BY ProcAssumption DEF Proc
<1>2. QED
  BY <1>1 DEF Shapes, TasksTyped, Fits, At, Body

LEMMA AtTidy ==
  ASSUME Shapes, NEW op, At(Tidy, op), op \notin {"lock", "unlock"}
  PROVE  Tidy \in Proc /\ TidyBody(held[Tidy], work[Tidy])
<1>1. Tidy \in Proc
  BY DEF Proc
<1>2. QED
  BY <1>1 DEF Shapes, TasksTyped, Fits, At, Body

(* A last step that adds others. *)
LEMMA ThenLast0 ==
  ASSUME NEW p, NEW x, work[p] = <<x>>, NEW s, s = <<>>, Then(p, s)
  PROVE  Rest(p, <<>>)
  BY DEF Then

LEMMA ThenLast1 ==
  ASSUME NEW p, NEW x, work[p] = <<x>>, NEW s, NEW y1,
         s = <<y1>>, Then(p, s)
  PROVE  Rest(p, <<y1>>)
<1>1. s \o Tail(work[p]) = <<y1>>
  OBVIOUS
<1>2. QED
  BY <1>1 DEF Then

LEMMA ThenLast2 ==
  ASSUME NEW p, NEW x, work[p] = <<x>>, NEW s, NEW y1, NEW y2,
         s = <<y1, y2>>, Then(p, s)
  PROVE  Rest(p, <<y1, y2>>)
<1>1. s \o Tail(work[p]) = <<y1, y2>>
  OBVIOUS
<1>2. QED
  BY <1>1 DEF Then

LEMMA ThenLast3 ==
  ASSUME NEW p, NEW x, work[p] = <<x>>, NEW s, NEW y1, NEW y2, NEW y3,
         s = <<y1, y2, y3>>, Then(p, s)
  PROVE  Rest(p, <<y1, y2, y3>>)
<1>1. s \o Tail(work[p]) = <<y1, y2, y3>>
  OBVIOUS
<1>2. QED
  BY <1>1 DEF Then

(* One that others follow. *)
LEMMA ThenRest2 ==
  ASSUME NEW p, NEW x1, NEW x2, work[p] = <<x1, x2>>, Then(p, <<>>)
  PROVE  Rest(p, <<x2>>)
<1>1. <<>> \o Tail(work[p]) = <<x2>>
  BY Tail2
<1>2. QED
  BY <1>1 DEF Then

LEMMA ThenRest3 ==
  ASSUME NEW p, NEW x1, NEW x2, NEW x3, work[p] = <<x1, x2, x3>>, Then(p, <<>>)
  PROVE  Rest(p, <<x2, x3>>)
<1>1. <<>> \o Tail(work[p]) = <<x2, x3>>
  BY Tail3
<1>2. QED
  BY <1>1 DEF Then

LEMMA ThenRest4 ==
  ASSUME NEW p, NEW x1, NEW x2, NEW x3, NEW x4, work[p] = <<x1, x2, x3, x4>>, Then(p, <<>>)
  PROVE  Rest(p, <<x2, x3, x4>>)
<1>1. <<>> \o Tail(work[p]) = <<x2, x3, x4>>
  BY Tail4
<1>2. QED
  BY <1>1 DEF Then

LEMMA ThenRest5 ==
  ASSUME NEW p, NEW x1, NEW x2, NEW x3, NEW x4, NEW x5, work[p] = <<x1, x2, x3, x4, x5>>, Then(p, <<>>)
  PROVE  Rest(p, <<x2, x3, x4, x5>>)
<1>1. <<>> \o Tail(work[p]) = <<x2, x3, x4, x5>>
  BY Tail5
<1>2. QED
  BY <1>1 DEF Then

LEMMA ThenRest6 ==
  ASSUME NEW p, NEW x1, NEW x2, NEW x3, NEW x4, NEW x5, NEW x6, work[p] = <<x1, x2, x3, x4, x5, x6>>, Then(p, <<>>)
  PROVE  Rest(p, <<x2, x3, x4, x5, x6>>)
<1>1. <<>> \o Tail(work[p]) = <<x2, x3, x4, x5, x6>>
  BY Tail6
<1>2. QED
  BY <1>1 DEF Then

LEMMA ThenMore42 ==
  ASSUME NEW p, NEW x, NEW x1, NEW x2, work[p] = <<x, x1, x2>>,
         NEW s, NEW y1, NEW y2, NEW y3, NEW y4, s = <<y1, y2, y3, y4>>, Then(p, s)
  PROVE  Rest(p, <<y1, y2, y3, y4, x1, x2>>)
<1>1. s \o Tail(work[p]) = <<y1, y2, y3, y4, x1, x2>>
  BY Tail3, Cat42
<1>2. QED
  BY <1>1 DEF Then

LEMMA ThenMore41 ==
  ASSUME NEW p, NEW x, NEW x1, work[p] = <<x, x1>>,
         NEW s, NEW y1, NEW y2, NEW y3, NEW y4, s = <<y1, y2, y3, y4>>, Then(p, s)
  PROVE  Rest(p, <<y1, y2, y3, y4, x1>>)
<1>1. s \o Tail(work[p]) = <<y1, y2, y3, y4, x1>>
  BY Tail2, Cat41
<1>2. QED
  BY <1>1 DEF Then

LEMMA ThenMore14 ==
  ASSUME NEW p, NEW x, NEW x1, NEW x2, NEW x3, NEW x4, work[p] = <<x, x1, x2, x3, x4>>,
         NEW s, NEW y1, s = <<y1>>, Then(p, s)
  PROVE  Rest(p, <<y1, x1, x2, x3, x4>>)
<1>1. s \o Tail(work[p]) = <<y1, x1, x2, x3, x4>>
  BY Tail5, Cat14
<1>2. QED
  BY <1>1 DEF Then

LEMMA ThenMore24 ==
  ASSUME NEW p, NEW x, NEW x1, NEW x2, NEW x3, NEW x4, work[p] = <<x, x1, x2, x3, x4>>,
         NEW s, NEW y1, NEW y2, s = <<y1, y2>>, Then(p, s)
  PROVE  Rest(p, <<y1, y2, x1, x2, x3, x4>>)
<1>1. s \o Tail(work[p]) = <<y1, y2, x1, x2, x3, x4>>
  BY Tail5, Cat24
<1>2. QED
  BY <1>1 DEF Then

LEMMA ThenMore11 ==
  ASSUME NEW p, NEW x, NEW x1, work[p] = <<x, x1>>,
         NEW s, NEW y1, s = <<y1>>, Then(p, s)
  PROVE  Rest(p, <<y1, x1>>)
<1>1. s \o Tail(work[p]) = <<y1, x1>>
  BY Tail2, Cat11
<1>2. QED
  BY <1>1 DEF Then

LEMMA SetRoleMoves ==
  ASSUME Shapes, NEW p \in Callers, SetRole(p)
  PROVE  \E r \in Name, y \in Rid \cup {None} : SetRoleEffect(p, r, y)
<1> USE DEF SetRoleEffect
<1>1. At(p, "set_role")
  BY DEF SetRole
<1>2. p \in Proc
  BY <1>1, AtCaller
<1>3. PICK r \in Name, y \in Rid \cup {None} :
        work[p] = <<<<"set_role", r, y>>>> /\ ForRole(held[p], r)
  BY <1>1, AtCaller DEF CallerBody, RoleBody, At
<1>4. Arg(p, 2) = r /\ Arg(p, 3) = y
  BY <1>3 DEF Arg
<1> DEFINE x == NewRid(p) old == role[Lower[r]]
<1>5. old \in RoleEntry \cup {None} /\ inc \in 1..MaxInc
  BY LowerAssumption DEF Shapes, EntriesTyped
<1>6. CASE SetRefused(p)
  <2>1. Rest(p, <<>>) /\ UNCHANGED <<inc, outdated>>
    BY <1>4, <1>6 DEF SetRole, Refuse
  <2>2. QED
    BY <1>2, <1>3, <2>1, RefuseMoves
<1>7. CASE ~SetRefused(p)
  <2> DEFINE e == [rid |-> x, inc |-> IF old = None THEN inc + 1 ELSE old.inc]
             indexed == old = None \/ y # x \/ old.rid # x
             del == IF old # None /\ old.rid # x THEN <<<<"delete_role_id", old.rid, r>>>> ELSE <<>>
             set == IF indexed THEN <<<<"set_role_id", x, r>>>> ELSE <<>>
             steps == del \o <<<<"put_role", r, e>>>> \o set
  <2>1. x \in Rid
    BY <1>3, <1>4, <1>5, <1>7 DEF NewRid, RoleEntry, SetRefused
  <2>9. index[x] \in {None, r} /\ ~(old = None /\ inc = MaxInc)
    BY <1>4, <1>7 DEF SetRefused
  <2>2. e \in RoleEntry /\ e.rid = x
    BY <1>5, <2>9, <2>1, BoundAssumption DEF RoleEntry
  <2>3. /\ inc' = IF old = None THEN inc + 1 ELSE inc
        /\ outdated' = IF indexed /\ Contested(p, x, Lower[r]) THEN outdated \cup {x} ELSE outdated
        /\ Then(p, steps)
    BY <1>4, <1>7 DEF SetRole
  <2>4. inc' \in 1..MaxInc
    BY <1>5, <2>9, <2>3, BoundAssumption
  <2>10. x = NewRid(p)
    OBVIOUS
  <2>11. Then(p, steps)
    BY <2>3
  <2> HIDE DEF e, x
  <2>5. CASE old # None /\ old.rid # x
    <3>1. steps = <<<<"delete_role_id", old.rid, r>>, <<"put_role", r, e>>, <<"set_role_id", x, r>>>>
      <4>1. del = <<<<"delete_role_id", old.rid, r>>>> /\ set = <<<<"set_role_id", x, r>>>>
        BY <2>5
      <4> HIDE DEF del, set
      <4>2. del \o <<<<"put_role", r, e>>>>
            = <<<<"delete_role_id", old.rid, r>>, <<"put_role", r, e>>>>
        BY <4>1, Cat11
      <4>3. QED BY <4>1, <4>2, Cat21
    <3> HIDE DEF steps
    <3>2. Rest(p, <<<<"delete_role_id", old.rid, r>>, <<"put_role", r, e>>, <<"set_role_id", x, r>>>>)
      BY <1>3, <2>11, <3>1, ThenLast3
    <3>3. Moved(p, <<<<"delete_role_id", old.rid, r>>, <<"put_role", r, e>>, <<"set_role_id", x, r>>>>, held[p])
      BY <1>2, <3>2, RestMoves
    <3>4. outdated' = IF Contested(p, x, Lower[r]) THEN outdated \cup {x} ELSE outdated
      BY <2>3, <2>5
    <3>5. QED BY <1>3, <2>1, <2>2, <2>4, <2>5, <2>9, <2>10, <3>3, <3>4
  <2>6. CASE ~(old # None /\ old.rid # x) /\ indexed
    <3>1. steps = <<<<"put_role", r, e>>, <<"set_role_id", x, r>>>>
      BY <2>6, Cat01, Cat11
    <3> HIDE DEF steps
    <3>2. Rest(p, <<<<"put_role", r, e>>, <<"set_role_id", x, r>>>>)
      BY <1>3, <2>11, <3>1, ThenLast2
    <3>3. Moved(p, <<<<"put_role", r, e>>, <<"set_role_id", x, r>>>>, held[p])
      BY <1>2, <3>2, RestMoves
    <3>4. outdated' = IF Contested(p, x, Lower[r]) THEN outdated \cup {x} ELSE outdated
      BY <2>3, <2>6
    <3>5. QED BY <1>3, <2>1, <2>2, <2>4, <2>6, <2>9, <2>10, <3>3, <3>4
  <2>7. CASE ~indexed
    <3>1. steps = <<<<"put_role", r, e>>>>
      BY <2>7, Cat01, Cat10
    <3> HIDE DEF steps
    <3>2. Rest(p, <<<<"put_role", r, e>>>>)
      BY <1>3, <2>11, <3>1, ThenLast1
    <3>3. Moved(p, <<<<"put_role", r, e>>>>, held[p])
      BY <1>2, <3>2, RestMoves
    <3>4. outdated' = outdated
      BY <2>3, <2>7
    <3>5. QED BY <1>3, <2>1, <2>2, <2>4, <2>7, <2>9, <2>10, <3>3, <3>4
  <2>8. QED BY <2>5, <2>6, <2>7
<1>8. QED BY <1>6, <1>7

LEMMA PutRoleMoves ==
  ASSUME Shapes, NEW p \in Callers, PutRole(p)
  PROVE  \E r \in Name : PutRoleEffect(p, r)
<1> USE DEF PutRoleEffect
<1>1. At(p, "put_role") /\ Then(p, <<>>) /\ role' = [role EXCEPT ![Lower[Arg(p, 2)]] = Arg(p, 3)]
  BY DEF PutRole
<1>2. p \in Proc
  BY <1>1, AtCaller
<1>3. PICK r \in Name :
        /\ ForRole(held[p], r)
        /\ \/ work[p] = <<<<"put_role", r, None>>>>
           \/ \E e \in RoleEntry :
                \/ work[p] = <<<<"put_role", r, e>>>>
                \/ work[p] = <<<<"put_role", r, e>>, <<"set_role_id", e.rid, r>>>>
  BY <1>1, AtCaller DEF CallerBody, RoleBody, At
<1>4. CASE work[p] = <<<<"put_role", r, None>>>>
  <2>1. Moved(p, <<>>, {})
    BY <1>1, <1>2, <1>4, ThenLast0, RefuseMoves
  <2>2. role' = [role EXCEPT ![Lower[r]] = None]
    BY <1>1, <1>4 DEF Arg
  <2>3. QED BY <1>3, <1>4, <2>1, <2>2
<1>5. ASSUME NEW e \in RoleEntry, work[p] = <<<<"put_role", r, e>>>>
      PROVE  role' = [role EXCEPT ![Lower[r]] = e] /\ Moved(p, <<>>, {})
  BY <1>1, <1>2, <1>5, ThenLast0, RefuseMoves DEF Arg
<1>6. ASSUME NEW e \in RoleEntry,
             work[p] = <<<<"put_role", r, e>>, <<"set_role_id", e.rid, r>>>>
      PROVE  role' = [role EXCEPT ![Lower[r]] = e] /\ Moved(p, <<<<"set_role_id", e.rid, r>>>>, held[p])
  <2>1. Rest(p, <<<<"set_role_id", e.rid, r>>>>)
    BY <1>1, <1>6, ThenRest2
  <2>2. QED BY <1>1, <1>2, <1>6, <2>1, RestMoves DEF Arg
<1>7. QED BY <1>3, <1>4, <1>5, <1>6

LEMMA SetRoleIdMoves ==
  ASSUME Shapes, NEW p \in Callers, SetRoleId(p)
  PROVE  \E x \in Rid, r \in Name :
           /\ work[p] = <<<<"set_role_id", x, r>>>> /\ ForRole(held[p], r)
           /\ Moved(p, <<>>, {}) /\ index' = [index EXCEPT ![x] = r]
<1>1. At(p, "set_role_id") /\ Then(p, <<>>) /\ index' = [index EXCEPT ![Arg(p, 2)] = Arg(p, 3)]
  BY DEF SetRoleId
<1>2. p \in Proc
  BY <1>1, AtCaller
<1>3. PICK x \in Rid, r \in Name :
        work[p] = <<<<"set_role_id", x, r>>>> /\ ForRole(held[p], r)
  BY <1>1, AtCaller DEF CallerBody, RoleBody, At
<1>4. Moved(p, <<>>, {})
  BY <1>1, <1>2, <1>3, ThenLast0, RefuseMoves
<1>5. index' = [index EXCEPT ![x] = r]
  BY <1>1, <1>3 DEF Arg
<1>6. QED BY <1>3, <1>4, <1>5

LEMMA DeleteRoleIdMoves ==
  ASSUME Shapes, NEW p \in Callers, DeleteRoleId(p)
  PROVE  \E x \in Rid, r \in Name : DeleteRoleIdEffect(p, x, r)
<1> USE DEF DeleteRoleIdEffect
<1>1. At(p, "delete_role_id") /\ Then(p, <<>>) /\ index' = [index EXCEPT ![Arg(p, 2)] = None]
  BY DEF DeleteRoleId
<1>2. p \in Proc
  BY <1>1, AtCaller
<1>3. PICK x \in Rid, r \in Name :
        /\ ForRole(held[p], r)
        /\ \/ work[p] = <<<<"delete_role_id", x, r>>, <<"put_role", r, None>>>>
           \/ \E e \in RoleEntry : e.rid # x /\
                work[p] = <<<<"delete_role_id", x, r>>, <<"put_role", r, e>>,
                            <<"set_role_id", e.rid, r>>>>
  BY <1>1, AtCaller DEF CallerBody, RoleBody, At
<1>4. CASE work[p] = <<<<"delete_role_id", x, r>>, <<"put_role", r, None>>>>
  <2>1. Rest(p, <<<<"put_role", r, None>>>>)
    BY <1>1, <1>4, ThenRest2
  <2>2. Moved(p, <<<<"put_role", r, None>>>>, held[p])
    BY <1>2, <2>1, RestMoves
  <2>3. index' = [index EXCEPT ![x] = None]
    BY <1>1, <1>4 DEF Arg
  <2>4. QED BY <1>3, <1>4, <2>2, <2>3
<1>5. ASSUME NEW e \in RoleEntry,
             work[p] = <<<<"delete_role_id", x, r>>, <<"put_role", r, e>>,
                         <<"set_role_id", e.rid, r>>>>
      PROVE  /\ index' = [index EXCEPT ![x] = None]
             /\ Moved(p, <<<<"put_role", r, e>>, <<"set_role_id", e.rid, r>>>>, held[p])
  <2>1. Rest(p, <<<<"put_role", r, e>>, <<"set_role_id", e.rid, r>>>>)
    BY <1>1, <1>5, ThenRest3
  <2>2. QED BY <1>1, <1>2, <1>5, <2>1, RestMoves DEF Arg
<1>6. QED BY <1>3, <1>4, <1>5

LEMMA DeleteRoleStepMoves ==
  ASSUME Shapes, NEW p \in Callers, DeleteRoleStep(p)
  PROVE  \E r \in Name : DeleteRoleStepEffect(p, r)
<1> USE DEF DeleteRoleStepEffect
<1>1. At(p, "delete_role")
  BY DEF DeleteRoleStep
<1>2. p \in Proc
  BY <1>1, AtCaller
<1>3. PICK r \in Name : work[p] = <<<<"delete_role", r>>>> /\ held[p] = {<<r, TRUE>>}
  BY <1>1, AtCaller DEF CallerBody, RoleBody, At
<1>4. Arg(p, 2) = r
  BY <1>3 DEF Arg
<1>5. CASE role[Lower[r]] = None
  <2>1. Rest(p, <<>>)
    BY <1>4, <1>5 DEF DeleteRoleStep, Refuse
  <2>2. QED BY <1>2, <1>3, <2>1, RefuseMoves
<1>6. CASE role[Lower[r]] # None
  <2> DEFINE K == {k \in Key : k[1] = role[Lower[r]].inc /\ secret[k] # None}
  <2>1. Then(p, <<<<"flush", K>>, <<"delete_role_id", role[Lower[r]].rid, r>>, <<"put_role", r, None>>>>)
    BY <1>4, <1>6 DEF DeleteRoleStep
  <2>2. K \in SUBSET Key /\ role[Lower[r]] \in RoleEntry
    BY <1>6, LowerAssumption DEF Shapes, EntriesTyped
  <2> HIDE DEF K
  <2>3. Rest(p, <<<<"flush", K>>, <<"delete_role_id", role[Lower[r]].rid, r>>, <<"put_role", r, None>>>>)
    BY <1>3, <2>1, ThenLast3
  <2>4. QED BY <1>2, <1>3, <2>2, <2>3, RestMoves
<1>7. QED BY <1>5, <1>6

LEMMA FlushMoves ==
  ASSUME Shapes, NEW p \in Callers, Flush(p)
  PROVE  \E K \in SUBSET Key, x \in Rid, r \in Name : FlushEffect(p, K, x, r)
<1> USE DEF FlushEffect
<1>1. At(p, "flush")
  BY DEF Flush, ForEach
<1>2. p \in Proc
  BY <1>1, AtCaller
<1>3. PICK K \in SUBSET Key, x \in Rid, r \in Name :
        /\ work[p] = <<<<"flush", K>>, <<"delete_role_id", x, r>>, <<"put_role", r, None>>>>
        /\ held[p] = {<<r, TRUE>>}
  BY <1>1, AtCaller DEF CallerBody, RoleBody, At
<1>4. Arg(p, 2) = K
  BY <1>3 DEF Arg
<1>5. CASE Then(p, <<>>)
  <2>1. Rest(p, <<<<"delete_role_id", x, r>>, <<"put_role", r, None>>>>)
    BY <1>3, <1>5, ThenRest3
  <2>2. QED BY <1>2, <1>3, <2>1, RestMoves
<1>6. ASSUME NEW k \in K, Then(p, Flushed(k) \o <<[work[p][1] EXCEPT ![2] = @ \ {k}]>>)
      PROVE  Moved(p, <<write(k), <<"delete_secret", k>>, <<"unlock", k>>,
                        <<"flush", K \ {k}>>, <<"delete_role_id", x, r>>,
                        <<"put_role", r, None>>>>, held[p])
  <2>1. [work[p][1] EXCEPT ![2] = @ \ {k}] = <<"flush", K \ {k}>>
    BY <1>3
  <2>2. Flushed(k) \o <<<<"flush", K \ {k}>>>>
        = <<write(k), <<"delete_secret", k>>, <<"unlock", k>>, <<"flush", K \ {k}>>>>
    BY Cat31 DEF Flushed
  <2>3. Rest(p, <<write(k), <<"delete_secret", k>>, <<"unlock", k>>, <<"flush", K \ {k}>>,
                  <<"delete_role_id", x, r>>, <<"put_role", r, None>>>>)
    BY <1>3, <1>6, <2>1, <2>2, ThenMore42
  <2>4. QED BY <1>2, <2>3, RestMoves
<1>7. QED BY <1>3, <1>4, <1>5, <1>6 DEF Flush, ForEach

LEMMA ReadRoleStepMoves ==
  ASSUME Shapes, NEW p \in Callers, ReadRoleStep(p)
  PROVE  \E r \in Name :
           /\ work[p] = <<<<"read_role", r>>>> /\ held[p] = {<<r, FALSE>>}
           /\ \/ Moved(p, <<>>, {})
              \/ \E x \in Rid :
                   Moved(p, <<<<"unlock", r>>, write(r), <<"repair", x, r>>>>, held[p])
<1>1. At(p, "read_role")
  BY DEF ReadRoleStep
<1>2. p \in Proc
  BY <1>1, AtCaller
<1>3. PICK r \in Name : work[p] = <<<<"read_role", r>>>> /\ held[p] = {<<r, FALSE>>}
  BY <1>1, AtCaller DEF CallerBody, RoleBody, At
<1>4. Arg(p, 2) = r
  BY <1>3 DEF Arg
<1>5. CASE Refuse(p)
  BY <1>2, <1>3, <1>5, RefuseMoves DEF Refuse
<1>6. CASE ~Refuse(p)
  <2>1. role[Lower[r]].rid \in Rid
    BY <1>4, <1>6, LowerAssumption DEF ReadRoleStep, Shapes, EntriesTyped, RoleEntry
  <2>2. Then(p, <<<<"unlock", r>>, write(r), <<"repair", role[Lower[r]].rid, r>>>>)
    BY <1>4, <1>6 DEF ReadRoleStep
  <2>3. Rest(p, <<<<"unlock", r>>, write(r), <<"repair", role[Lower[r]].rid, r>>>>)
    BY <1>3, <2>2, ThenLast3
  <2>4. QED BY <1>2, <1>3, <2>1, <2>3, RestMoves
<1>7. QED BY <1>5, <1>6

LEMMA RepairMoves ==
  ASSUME Shapes, NEW p \in Callers, Repair(p)
  PROVE  \E x \in Rid, r \in Name : RepairEffect(p, x, r)
<1> USE DEF RepairEffect
<1>1. At(p, "repair")
  BY DEF Repair
<1>2. p \in Proc
  BY <1>1, AtCaller
<1>3. PICK r \in Name, x \in Rid : work[p] = <<<<"repair", x, r>>>> /\ held[p] = {<<r, TRUE>>}
  BY <1>1, AtCaller DEF CallerBody, RoleBody, At
<1>4. Arg(p, 2) = x /\ Arg(p, 3) = r
  BY <1>3 DEF Arg
<1>5. CASE index[x] # None
  BY <1>2, <1>3, <1>4, <1>5, RefuseMoves DEF Refuse, Repair
<1>6. CASE index[x] = None
  <2>1. /\ Then(p, <<<<"set_role_id", x, Lower[r]>>>>)
        /\ outdated' = IF role[Lower[r]] # None /\ role[Lower[r]].rid = x /\ ~Contested(p, x, Lower[r])
                       THEN outdated ELSE outdated \cup {x}
    BY <1>4, <1>6 DEF Repair
  <2>2. Rest(p, <<<<"set_role_id", x, Lower[r]>>>>)
    BY <1>3, <2>1, ThenLast1
  <2>3. QED BY <1>2, <1>3, <1>6, <2>1, <2>2, RestMoves
<1>7. QED BY <1>5, <1>6

(* A task that looks at its role and asks for the lock of a secret id. *)
LEMMA OnSecretMoves ==
  ASSUME Shapes, NEW p \in Callers, NEW op, NEW next, NEW r \in Name, NEW s \in Sid,
         work[p] = <<<<op, r, s>>>>, OnSecret(p, op, next)
  PROVE  \/ Moved(p, <<>>, {})
         \/ \E k \in Key : Moved(p, <<write(k), <<next, k>>>>, held[p])
<1>1. p \in Proc
  BY DEF Proc
<1>2. Arg(p, 2) = r /\ Arg(p, 3) = s
  BY DEF Arg
<1>3. CASE role[Lower[r]] = None
  <2>1. Rest(p, <<>>)
    BY <1>2, <1>3 DEF OnSecret, Refuse
  <2>2. QED BY <1>1, <2>1, RefuseMoves
<1>4. CASE role[Lower[r]] # None
  <2> DEFINE k == <<role[Lower[r]].inc, s>>
  <2>1. k \in Key
    BY <1>4, LowerAssumption DEF Shapes, EntriesTyped, RoleEntry, Key
  <2>2. Then(p, <<write(k), <<next, k>>>>)
    BY <1>2, <1>4 DEF OnSecret
  <2> HIDE DEF k
  <2>3. Rest(p, <<write(k), <<next, k>>>>)
    BY <2>2, ThenLast2
  <2>4. QED BY <1>1, <2>1, <2>3, RestMoves
<1>5. QED BY <1>3, <1>4

LEMMA DestroyStepMoves ==
  ASSUME Shapes, NEW p \in Callers, DestroyStep(p)
  PROVE  \E r \in Name, s \in Sid :
           /\ work[p] = <<<<"destroy", r, s>>>> /\ held[p] = {<<r, FALSE>>}
           /\ \/ Moved(p, <<>>, {})
              \/ \E k \in Key : Moved(p, <<write(k), <<"destroy_entry", k>>>>, held[p])
<1>1. At(p, "destroy") /\ OnSecret(p, "destroy", "destroy_entry")
  BY DEF DestroyStep, OnSecret
<1>2. PICK r \in Name, s \in Sid : work[p] = <<<<"destroy", r, s>>>> /\ held[p] = {<<r, FALSE>>}
  BY <1>1, AtCaller DEF CallerBody, SecretBody, At
<1>3. QED BY <1>1, <1>2, OnSecretMoves

LEMMA LookupStepMoves ==
  ASSUME Shapes, NEW p \in Callers, LookupStep(p)
  PROVE  \E r \in Name, s \in Sid :
           /\ work[p] = <<<<"lookup", r, s>>>> /\ held[p] = {<<r, FALSE>>}
           /\ \/ Moved(p, <<>>, {})
              \/ \E k \in Key : Moved(p, <<write(k), <<"lookup_entry", k>>>>, held[p])
<1>1. At(p, "lookup") /\ OnSecret(p, "lookup", "lookup_entry")
  BY DEF LookupStep, OnSecret
<1>2. PICK r \in Name, s \in Sid : work[p] = <<<<"lookup", r, s>>>> /\ held[p] = {<<r, FALSE>>}
  BY <1>1, AtCaller DEF CallerBody, SecretBody, At
<1>3. QED BY <1>1, <1>2, OnSecretMoves

LEMMA RegisterStepMoves ==
  ASSUME Shapes, NEW p \in Callers, RegisterStep(p)
  PROVE  \E r \in Name, s \in Sid, u \in 0..MaxUses, ttl \in 0..1 :
           /\ work[p] = <<<<"register", r, s, u, ttl>>>> /\ held[p] = {<<r, FALSE>>}
           /\ \/ Moved(p, <<>>, {})
              \/ \E k \in Key : Moved(p, <<write(k), <<"register_entry", k, u, ttl>>>>, held[p])
<1>1. At(p, "register")
  BY DEF RegisterStep
<1>2. p \in Proc
  BY <1>1, AtCaller
<1>3. PICK r \in Name, s \in Sid, u \in 0..MaxUses, ttl \in 0..1 :
        work[p] = <<<<"register", r, s, u, ttl>>>> /\ held[p] = {<<r, FALSE>>}
  BY <1>1, AtCaller DEF CallerBody, SecretBody, At
<1>4. Arg(p, 2) = r /\ Arg(p, 3) = s /\ Arg(p, 4) = u /\ Arg(p, 5) = ttl
  BY <1>3 DEF Arg
<1>5. CASE role[Lower[r]] = None
  <2>1. Rest(p, <<>>)
    BY <1>4, <1>5 DEF RegisterStep, Refuse
  <2>2. Moved(p, <<>>, {})
    BY <1>2, <2>1, RefuseMoves
  <2>3. QED BY <1>3, <2>2
<1>6. CASE role[Lower[r]] # None
  <2> DEFINE k == <<role[Lower[r]].inc, s>>
  <2>1. k \in Key
    BY <1>6, LowerAssumption DEF Shapes, EntriesTyped, RoleEntry, Key
  <2>2. Then(p, <<write(k), <<"register_entry", k, u, ttl>>>>)
    BY <1>4, <1>6 DEF RegisterStep
  <2> HIDE DEF k
  <2>3. Rest(p, <<write(k), <<"register_entry", k, u, ttl>>>>)
    BY <1>3, <2>2, ThenLast2
  <2>4. Moved(p, <<write(k), <<"register_entry", k, u, ttl>>>>, held[p])
    BY <1>2, <2>3, RestMoves
  <2>5. QED BY <1>3, <2>1, <2>4
<1>7. QED BY <1>5, <1>6

LEMMA RegisterEntryMoves ==
  ASSUME Shapes, NEW p \in Callers, RegisterEntry(p)
  PROVE  \E r \in Name, k \in Key, u \in 0..MaxUses, ttl \in 0..1 :
           RegisterEntryEffect(p, r, k, u, ttl)
<1> USE DEF RegisterEntryEffect
<1>1. At(p, "register_entry")
  BY DEF RegisterEntry
<1>2. p \in Proc
  BY <1>1, AtCaller
<1>3. PICK r \in Name, k \in Key, u \in 0..MaxUses, ttl \in 0..1 :
        /\ work[p] = <<<<"register_entry", k, u, ttl>>>>
        /\ held[p] = {<<r, FALSE>>, <<k, TRUE>>}
  BY <1>1, AtCaller DEF CallerBody, SecretBody, At
<1>4. Arg(p, 2) = k /\ Arg(p, 3) = u /\ Arg(p, 4) = ttl
  BY <1>3 DEF Arg
<1>5. CASE secret[k] # None \/ acc = MaxAcc
  <2>1. Rest(p, <<>>) /\ UNCHANGED <<accessor, acc, limit, made, overlap>>
    BY <1>4, <1>5 DEF RegisterEntry, Refuse
  <2>2. Moved(p, <<>>, {})
    BY <1>2, <2>1, RefuseMoves
  <2>3. QED BY <1>3, <2>1, <2>2
<1>6. CASE ~(secret[k] # None \/ acc = MaxAcc)
  <2> DEFINE a == acc + 1 e == [acc |-> a, uses |-> u, exp |-> now + ttl]
  <2>1. a \in Acc /\ now + ttl \in Nat
    BY <1>6, BoundAssumption DEF Shapes, EntriesTyped, Acc
  <2>2. e \in SecretEntry /\ e.acc = a /\ e.uses = u
    BY <2>1, BoundAssumption DEF SecretEntry
  <2>3. /\ acc' = a
        /\ accessor' = [accessor EXCEPT ![a] = k]
        /\ limit' = [limit EXCEPT ![a] = u] /\ made' = [made EXCEPT ![a] = k]
        /\ overlap' = IF work[Tidy] = <<>> THEN overlap ELSE overlap \cup {a}
        /\ Then(p, <<<<"put_secret", k, e>>>>)
    BY <1>4, <1>6 DEF RegisterEntry
  <2>4. secret[k] = None /\ a = acc + 1
    BY <1>6
  <2> HIDE DEF e, a
  <2>5. Rest(p, <<<<"put_secret", k, e>>>>)
    BY <1>3, <2>3, ThenLast1
  <2>6. Moved(p, <<<<"put_secret", k, e>>>>, held[p])
    BY <1>2, <2>5, RestMoves
  <2>7. QED BY <1>3, <2>1, <2>2, <2>3, <2>4, <2>6
<1>7. QED BY <1>5, <1>6

LEMMA PutSecretMoves ==
  ASSUME Shapes, NEW p \in Callers, PutSecret(p)
  PROVE  \E k \in Key, e \in SecretEntry : PutSecretEffect(p, k, e)
<1> USE DEF PutSecretEffect
<1>1. At(p, "put_secret") /\ Then(p, <<>>)
  BY DEF PutSecret
<1>2. p \in Proc
  BY <1>1, AtCaller
<1>3. PICK k \in Key :
        \/ \E r \in Name : work[p] = <<<<"put_secret", k, work[p][1][3]>>>>
             /\ work[p][1][3] \in SecretEntry /\ held[p] = {<<r, FALSE>>, <<k, TRUE>>}
        \/ \E g \in SUBSET Acc :
             /\ work[p] = <<<<"put_secret", k, work[p][1][3]>>,
                            <<"accept", work[p][1][3].acc, g>>>>
             /\ work[p][1][3] \in SecretEntry /\ held[p] = {<<k, TRUE>>}
  BY <1>1, AtCaller DEF CallerBody, WriteBody, At
<1> DEFINE e == work[p][1][3]
<1>a. e \in SecretEntry
  BY <1>3
<1>b. work[p][1] = <<"put_secret", k, e>>
  <2>1. CASE \E r \in Name : work[p] = <<<<"put_secret", k, e>>>>
    BY <2>1
  <2>2. CASE \E g \in SUBSET Acc : work[p] = <<<<"put_secret", k, e>>, <<"accept", e.acc, g>>>>
    BY <2>2
  <2>3. QED BY <1>3, <2>1, <2>2
<1>4. e \in SecretEntry /\ Arg(p, 2) = k /\ Arg(p, 3) = e
  BY <1>a, <1>b DEF Arg
<1>5. /\ secret' = [secret EXCEPT ![k] = e]
      /\ overlap' = IF work[Tidy] = <<>> \/ secret[k] # None THEN overlap
                    ELSE overlap \cup {e.acc}
  BY <1>4 DEF PutSecret
<1> HIDE DEF e
<1>6. ASSUME NEW r \in Name, work[p] = <<<<"put_secret", k, e>>>>,
             held[p] = {<<r, FALSE>>, <<k, TRUE>>}
      PROVE  Moved(p, <<>>, {})
  <2>1. Rest(p, <<>>)
    BY <1>1, <1>6, ThenLast0
  <2>2. QED BY <1>2, <2>1, RefuseMoves
<1>7. ASSUME NEW g \in SUBSET Acc,
             work[p] = <<<<"put_secret", k, e>>, <<"accept", e.acc, g>>>>
      PROVE  Moved(p, <<<<"accept", e.acc, g>>>>, held[p])
  <2>1. Rest(p, <<<<"accept", e.acc, g>>>>)
    BY <1>1, <1>7, ThenRest2
  <2>2. QED BY <1>2, <2>1, RestMoves
<1>8. CASE \E r \in Name : work[p] = <<<<"put_secret", k, e>>>>
             /\ held[p] = {<<r, FALSE>>, <<k, TRUE>>}
  BY <1>4, <1>5, <1>6, <1>8
<1>9. CASE \E g \in SUBSET Acc :
             /\ work[p] = <<<<"put_secret", k, e>>, <<"accept", e.acc, g>>>>
             /\ held[p] = {<<k, TRUE>>}
  BY <1>4, <1>5, <1>7, <1>9
<1>10. QED BY <1>3, <1>8, <1>9 DEF e

LEMMA DestroyEntryMoves ==
  ASSUME Shapes, NEW p \in Callers, DestroyEntry(p)
  PROVE  \E r \in Name, k \in Key : DestroyEntryEffect(p, r, k)
<1> USE DEF DestroyEntryEffect
<1>1. At(p, "destroy_entry")
  BY DEF DestroyEntry
<1>2. p \in Proc
  BY <1>1, AtCaller
<1>3. PICK r \in Name, k \in Key :
        work[p] = <<<<"destroy_entry", k>>>> /\ held[p] = {<<r, FALSE>>, <<k, TRUE>>}
  BY <1>1, AtCaller DEF CallerBody, SecretBody, At
<1>4. Arg(p, 2) = k
  BY <1>3 DEF Arg
<1>5. CASE secret[k] = None
  <2>1. Then(p, <<>>)
    BY <1>4, <1>5 DEF DestroyEntry
  <2>2. Moved(p, <<>>, {})
    BY <1>2, <1>3, <2>1, ThenLast0, RefuseMoves
  <2>3. QED BY <1>3, <2>2
<1>6. CASE secret[k] # None
  <2>1. Then(p, <<<<"delete_accessor", secret[k].acc>>, <<"delete_secret", k>>>>)
    BY <1>4, <1>6 DEF DestroyEntry, Revoked
  <2>2. Rest(p, <<<<"delete_accessor", secret[k].acc>>, <<"delete_secret", k>>>>)
    BY <1>3, <2>1, ThenLast2
  <2>3. Moved(p, <<<<"delete_accessor", secret[k].acc>>, <<"delete_secret", k>>>>, held[p])
    BY <1>2, <2>2, RestMoves
  <2>4. secret[k] # None /\ secret[k] \in SecretEntry
    BY <1>6 DEF Shapes, EntriesTyped
  <2>5. QED BY <1>3, <2>3, <2>4
<1>7. QED BY <1>5, <1>6

LEMMA LookupEntryMoves ==
  ASSUME Shapes, NEW p \in Callers, LookupEntry(p)
  PROVE  \E r \in Name, k \in Key :
           /\ work[p] = <<<<"lookup_entry", k>>>> /\ held[p] = {<<r, FALSE>>, <<k, TRUE>>}
           /\ \/ Moved(p, <<>>, {})
              \/ Moved(p, <<<<"delete_secret", k>>>>, held[p])
<1>1. At(p, "lookup_entry")
  BY DEF LookupEntry
<1>2. p \in Proc
  BY <1>1, AtCaller
<1>3. PICK r \in Name, k \in Key :
        work[p] = <<<<"lookup_entry", k>>>> /\ held[p] = {<<r, FALSE>>, <<k, TRUE>>}
  BY <1>1, AtCaller DEF CallerBody, SecretBody, At
<1>4. Arg(p, 2) = k
  BY <1>3 DEF Arg
<1>5. CASE secret[k] = None \/ accessor[secret[k].acc] # None
  <2>1. Then(p, <<>>)
    BY <1>4, <1>5 DEF LookupEntry
  <2>2. Moved(p, <<>>, {})
    BY <1>2, <1>3, <2>1, ThenLast0, RefuseMoves
  <2>3. QED BY <1>3, <2>2
<1>6. CASE ~(secret[k] = None \/ accessor[secret[k].acc] # None)
  <2>1. Then(p, <<<<"delete_secret", k>>>>)
    BY <1>4, <1>6 DEF LookupEntry
  <2>2. Rest(p, <<<<"delete_secret", k>>>>)
    BY <1>3, <2>1, ThenLast1
  <2>3. Moved(p, <<<<"delete_secret", k>>>>, held[p])
    BY <1>2, <2>2, RestMoves
  <2>4. QED BY <1>3, <2>3
<1>7. QED BY <1>5, <1>6

LEMMA DestroyAccessorStepMoves ==
  ASSUME Shapes, NEW p \in Callers, DestroyAccessorStep(p)
  PROVE  \E r \in Name, a \in Acc :
           /\ work[p] = <<<<"destroy_accessor", r, a>>>> /\ held[p] = {<<r, TRUE>>}
           /\ \/ Moved(p, <<>>, {})
              \/ \E k \in Key :
                   /\ accessor[a] = k
                   /\ Moved(p, <<write(k), <<"destroy_found", k, a>>>>, held[p])
<1>1. At(p, "destroy_accessor")
  BY DEF DestroyAccessorStep
<1>2. p \in Proc
  BY <1>1, AtCaller
<1>3. PICK r \in Name, a \in Acc :
        work[p] = <<<<"destroy_accessor", r, a>>>> /\ held[p] = {<<r, TRUE>>}
  BY <1>1, AtCaller DEF CallerBody, SecretBody, At
<1>4. Arg(p, 2) = r /\ Arg(p, 3) = a
  BY <1>3 DEF Arg
<1>5. CASE Refuse(p)
  <2>1. Moved(p, <<>>, {})
    BY <1>2, <1>5, RefuseMoves DEF Refuse
  <2>2. QED BY <1>3, <2>1
<1>6. CASE ~Refuse(p)
  <2> DEFINE k == accessor[a]
  <2>1. k \in Key
    BY <1>4, <1>6 DEF DestroyAccessorStep, Shapes, EntriesTyped
  <2>2. Then(p, <<write(k), <<"destroy_found", k, a>>>>)
    BY <1>4, <1>6 DEF DestroyAccessorStep
  <2>3. Rest(p, <<write(k), <<"destroy_found", k, a>>>>)
    BY <1>3, <2>2, ThenLast2
  <2>4. Moved(p, <<write(k), <<"destroy_found", k, a>>>>, held[p])
    BY <1>2, <2>3, RestMoves
  <2>5. QED BY <1>3, <2>1, <2>4
<1>7. QED BY <1>5, <1>6

LEMMA DestroyFoundMoves ==
  ASSUME Shapes, NEW p \in Callers, DestroyFound(p)
  PROVE  \E r \in Name, k \in Key, a \in Acc : DestroyFoundEffect(p, r, k, a)
<1> USE DEF DestroyFoundEffect
<1>1. At(p, "destroy_found")
  BY DEF DestroyFound
<1>2. p \in Proc
  BY <1>1, AtCaller
<1>3. PICK r \in Name, k \in Key, a \in Acc :
        work[p] = <<<<"destroy_found", k, a>>>> /\ held[p] = {<<r, TRUE>>, <<k, TRUE>>}
  BY <1>1, AtCaller DEF CallerBody, SecretBody, At
<1>4. Arg(p, 2) = k /\ Arg(p, 3) = a
  BY <1>3 DEF Arg
<1>5. CASE secret[k] = None
  <2>1. Then(p, <<>>)
    BY <1>4, <1>5 DEF DestroyFound
  <2>2. Moved(p, <<>>, {})
    BY <1>2, <1>3, <2>1, ThenLast0, RefuseMoves
  <2>3. QED BY <1>3, <2>2
<1>6. CASE secret[k] # None
  <2>1. Then(p, <<<<"delete_accessor", a>>, <<"delete_secret", k>>>>)
    BY <1>4, <1>6 DEF DestroyFound
  <2>2. Rest(p, <<<<"delete_accessor", a>>, <<"delete_secret", k>>>>)
    BY <1>3, <2>1, ThenLast2
  <2>3. Moved(p, <<<<"delete_accessor", a>>, <<"delete_secret", k>>>>, held[p])
    BY <1>2, <2>2, RestMoves
  <2>4. QED BY <1>3, <2>3
<1>7. QED BY <1>5, <1>6

LEMMA LoginIndexMoves ==
  ASSUME Shapes, NEW p \in Callers, LoginIndex(p)
  PROVE  \E x \in Rid, s \in Sid, g \in SUBSET Acc :
           /\ work[p] = <<<<"login", x, s, g>>>> /\ held[p] = {}
           /\ \/ Moved(p, <<>>, {})
              \/ \E r \in Name : Moved(p, <<read(r), <<"login_role", r, s, g>>>>, held[p])
<1>1. At(p, "login")
  BY DEF LoginIndex
<1>2. p \in Proc
  BY <1>1, AtCaller
<1>3. PICK x \in Rid, s \in Sid, g \in SUBSET Acc :
        work[p] = <<<<"login", x, s, g>>>> /\ held[p] = {}
  BY <1>1, AtCaller DEF CallerBody, LoginBody, At
<1>4. Arg(p, 2) = x /\ Arg(p, 3) = s /\ Arg(p, 4) = g
  BY <1>3 DEF Arg
<1>5. CASE index[x] = None
  <2>1. Moved(p, <<>>, {})
    BY <1>2, <1>4, <1>5, RefuseMoves DEF Refuse, LoginIndex
  <2>2. QED BY <1>3, <2>1
<1>6. CASE index[x] # None
  <2> DEFINE r == index[x]
  <2>1. r \in Name
    BY <1>6 DEF Shapes, EntriesTyped
  <2>2. Then(p, <<read(r), <<"login_role", r, s, g>>>>)
    BY <1>4, <1>6 DEF LoginIndex
  <2>3. Rest(p, <<read(r), <<"login_role", r, s, g>>>>)
    BY <1>3, <2>2, ThenLast2
  <2>4. Moved(p, <<read(r), <<"login_role", r, s, g>>>>, held[p])
    BY <1>2, <2>3, RestMoves
  <2>5. QED BY <1>3, <2>1, <2>4
<1>7. QED BY <1>5, <1>6

LEMMA LoginRoleMoves ==
  ASSUME Shapes, NEW p \in Callers, LoginRole(p)
  PROVE  \E r \in Name, s \in Sid, g \in SUBSET Acc :
           /\ work[p] = <<<<"login_role", r, s, g>>>> /\ held[p] = {<<r, FALSE>>}
           /\ \/ Moved(p, <<>>, {})
              \/ \E k \in Key :
                   Moved(p, <<<<"unlock", r>>, read(k), <<"login_secret", k, g>>>>, held[p])
<1>1. At(p, "login_role")
  BY DEF LoginRole
<1>2. p \in Proc
  BY <1>1, AtCaller
<1>3. PICK r \in Name, s \in Sid, g \in SUBSET Acc :
        work[p] = <<<<"login_role", r, s, g>>>> /\ held[p] = {<<r, FALSE>>}
  BY <1>1, AtCaller DEF CallerBody, LoginBody, At
<1>4. Arg(p, 2) = r /\ Arg(p, 3) = s /\ Arg(p, 4) = g
  BY <1>3 DEF Arg
<1>5. CASE role[Lower[r]] = None
  <2>1. Moved(p, <<>>, {})
    BY <1>2, <1>4, <1>5, RefuseMoves DEF Refuse, LoginRole
  <2>2. QED BY <1>3, <2>1
<1>6. CASE role[Lower[r]] # None
  <2> DEFINE k == <<role[Lower[r]].inc, s>>
  <2>1. k \in Key
    BY <1>6, LowerAssumption DEF Shapes, EntriesTyped, RoleEntry, Key
  <2>2. Then(p, <<<<"unlock", r>>, read(k), <<"login_secret", k, g>>>>)
    BY <1>4, <1>6 DEF LoginRole
  <2> HIDE DEF k
  <2>3. Rest(p, <<<<"unlock", r>>, read(k), <<"login_secret", k, g>>>>)
    BY <1>3, <2>2, ThenLast3
  <2>4. Moved(p, <<<<"unlock", r>>, read(k), <<"login_secret", k, g>>>>, held[p])
    BY <1>2, <2>3, RestMoves
  <2>5. QED BY <1>3, <2>1, <2>4
<1>7. QED BY <1>5, <1>6

LEMMA LoginSecretMoves ==
  ASSUME Shapes, NEW p \in Callers, LoginSecret(p)
  PROVE  \E k \in Key, g \in SUBSET Acc : LoginSecretEffect(p, k, g)
<1> USE DEF LoginSecretEffect
<1>1. At(p, "login_secret")
  BY DEF LoginSecret
<1>2. p \in Proc
  BY <1>1, AtCaller
<1>3. PICK k \in Key, g \in SUBSET Acc :
        work[p] = <<<<"login_secret", k, g>>>> /\ held[p] = {<<k, FALSE>>}
  BY <1>1, AtCaller DEF CallerBody, LoginBody, At
<1>4. Arg(p, 2) = k /\ Arg(p, 3) = g
  BY <1>3 DEF Arg
<1> DEFINE e == secret[k]
<1>5. CASE e = None
  <2>1. Moved(p, <<>>, {})
    BY <1>2, <1>4, <1>5, RefuseMoves DEF Refuse, LoginSecret
  <2>2. QED BY <1>3, <2>1
<1>6. CASE e # None /\ accessor[e.acc] = None
  <2>1. Then(p, <<<<"delete_secret", k>>>>)
    BY <1>4, <1>6 DEF LoginSecret
  <2>2. Rest(p, <<<<"delete_secret", k>>>>)
    BY <1>3, <2>1, ThenLast1
  <2>3. Moved(p, <<<<"delete_secret", k>>>>, held[p])
    BY <1>2, <2>2, RestMoves
  <2>4. QED BY <1>3, <2>3
<1>7. CASE e # None /\ accessor[e.acc] # None
  <2>1. e \in SecretEntry
    BY <1>7 DEF Shapes, EntriesTyped
  <2>2. CASE e.uses = 0
    <3>1. Then(p, <<<<"accept", e.acc, g>>>>)
      BY <1>4, <1>7, <2>2 DEF LoginSecret
    <3>2. Rest(p, <<<<"accept", e.acc, g>>>>)
      BY <1>3, <3>1, ThenLast1
    <3>3. Moved(p, <<<<"accept", e.acc, g>>>>, held[p])
      BY <1>2, <3>2, RestMoves
    <3>4. QED BY <1>3, <1>7, <2>1, <2>2, <3>3
  <2>3. CASE e.uses # 0
    <3>1. Then(p, <<<<"unlock", k>>, write(k), <<"login_use", k, g>>>>)
      BY <1>4, <1>7, <2>3 DEF LoginSecret
    <3>2. Rest(p, <<<<"unlock", k>>, write(k), <<"login_use", k, g>>>>)
      BY <1>3, <3>1, ThenLast3
    <3>3. Moved(p, <<<<"unlock", k>>, write(k), <<"login_use", k, g>>>>, held[p])
      BY <1>2, <3>2, RestMoves
    <3>4. QED BY <1>3, <1>7, <2>1, <3>3
  <2>4. QED BY <2>2, <2>3
<1>8. QED BY <1>5, <1>6, <1>7

LEMMA LoginUseMoves ==
  ASSUME Shapes, NEW p \in Callers, LoginUse(p)
  PROVE  \E k \in Key, g \in SUBSET Acc : LoginUseEffect(p, k, g)
<1> USE DEF LoginUseEffect
<1>1. At(p, "login_use")
  BY DEF LoginUse
<1>2. p \in Proc
  BY <1>1, AtCaller
<1>3. PICK k \in Key, g \in SUBSET Acc :
        work[p] = <<<<"login_use", k, g>>>> /\ held[p] = {<<k, TRUE>>}
  BY <1>1, AtCaller DEF CallerBody, LoginBody, At
<1>4. Arg(p, 2) = k /\ Arg(p, 3) = g
  BY <1>3 DEF Arg
<1> DEFINE e == secret[k]
<1>5. CASE e = None
  <2>1. Moved(p, <<>>, {})
    BY <1>2, <1>4, <1>5, RefuseMoves DEF Refuse, LoginUse
  <2>2. QED BY <1>3, <2>1
<1>6. CASE e # None /\ e.uses = 1
  <2>1. e \in SecretEntry
    BY <1>6 DEF Shapes, EntriesTyped
  <2>2. Then(p, <<<<"delete_accessor", e.acc>>, <<"delete_secret", k>>>>
                \o <<<<"accept", e.acc, g>>>>)
    <3> DEFINE s == IF e.uses = 1 THEN Revoked(k)
                    ELSE <<<<"put_secret", k, [e EXCEPT !.uses = @ - 1]>>>>
    <3>1. Then(p, s \o <<<<"accept", e.acc, g>>>>)
      BY <1>4, <1>6 DEF LoginUse
    <3>2. s = <<<<"delete_accessor", e.acc>>, <<"delete_secret", k>>>>
      BY <1>6 DEF Revoked
    <3> HIDE DEF s
    <3>3. QED BY <3>1, <3>2
  <2>3. Rest(p, <<<<"delete_accessor", e.acc>>, <<"delete_secret", k>>, <<"accept", e.acc, g>>>>)
    <3>1. <<<<"delete_accessor", e.acc>>, <<"delete_secret", k>>>> \o <<<<"accept", e.acc, g>>>>
          = <<<<"delete_accessor", e.acc>>, <<"delete_secret", k>>, <<"accept", e.acc, g>>>>
      BY Cat21
    <3>2. QED BY <1>3, <2>2, <3>1, ThenLast3
  <2>4. Moved(p, <<<<"delete_accessor", e.acc>>, <<"delete_secret", k>>,
                   <<"accept", e.acc, g>>>>, held[p])
    BY <1>2, <2>3, RestMoves
  <2>5. QED BY <1>3, <1>6, <2>1, <2>4
<1>7. CASE e # None /\ e.uses # 1
  <2> DEFINE f == [e EXCEPT !.uses = @ - 1]
  <2>1. e \in SecretEntry
    BY <1>7 DEF Shapes, EntriesTyped
  <2>2. f \in SecretEntry /\ f.acc = e.acc
    BY <2>1 DEF SecretEntry
  <2>3. Then(p, <<<<"put_secret", k, f>>>> \o <<<<"accept", e.acc, g>>>>)
    BY <1>4, <1>7 DEF LoginUse
  <2> HIDE DEF f
  <2>4. Rest(p, <<<<"put_secret", k, f>>, <<"accept", e.acc, g>>>>)
    BY <1>3, <2>3, Cat11, ThenLast2
  <2>5. Moved(p, <<<<"put_secret", k, f>>, <<"accept", f.acc, g>>>>, held[p])
    BY <1>2, <2>2, <2>4, RestMoves
  <2>6. QED BY <1>3, <1>7, <2>1, <2>2, <2>5 DEF f
<1>8. QED BY <1>5, <1>6, <1>7

LEMMA AcceptMoves ==
  ASSUME Shapes, NEW p \in Callers, Accept(p)
  PROVE  \E k \in Key, b \in BOOLEAN, a \in Acc, g \in SUBSET Acc :
           /\ work[p] = <<<<"accept", a, g>>>> /\ held[p] = {<<k, b>>}
           /\ Moved(p, <<>>, {}) /\ accepts' = [accepts EXCEPT ![a] = @ + 1]
<1>1. At(p, "accept") /\ Then(p, <<>>) /\ accepts' = [accepts EXCEPT ![Arg(p, 2)] = @ + 1]
  BY DEF Accept
<1>2. p \in Proc
  BY <1>1, AtCaller
<1>3. PICK k \in Key, b \in BOOLEAN, a \in Acc, g \in SUBSET Acc :
        work[p] = <<<<"accept", a, g>>>> /\ held[p] = {<<k, b>>}
  BY <1>1, AtCaller DEF CallerBody, LoginBody, At
<1>4. Moved(p, <<>>, {})
  BY <1>1, <1>2, <1>3, ThenLast0, RefuseMoves
<1>5. accepts' = [accepts EXCEPT ![a] = @ + 1]
  BY <1>1, <1>3 DEF Arg
<1>6. QED BY <1>3, <1>4, <1>5

(* Deletions, by requests and by tidying. *)
LEMMA DeleteAccessorCaller ==
  ASSUME Shapes, NEW p \in Callers, DeleteAccessor(p)
  PROVE  \E k \in Key, a \in Acc : DeleteAccessorEffect(p, k, a)
<1> USE DEF DeleteAccessorEffect
<1>1. /\ At(p, "delete_accessor") /\ Then(p, <<>>)
      /\ accessor' = [accessor EXCEPT ![Arg(p, 2)] = None] /\ gone' = gone \cup {Arg(p, 2)}
  BY DEF DeleteAccessor
<1>2. p \in Proc
  BY <1>1, AtCaller
<1>3. PICK k \in Key, a \in Acc :
        \/ \E r \in Name, b \in BOOLEAN :
             /\ work[p] = <<<<"delete_accessor", a>>, <<"delete_secret", k>>>>
             /\ held[p] = {<<r, b>>, <<k, TRUE>>}
        \/ \E g \in SUBSET Acc :
             /\ work[p] = <<<<"delete_accessor", a>>, <<"delete_secret", k>>, <<"accept", a, g>>>>
             /\ held[p] = {<<k, TRUE>>}
  BY <1>1, AtCaller DEF CallerBody, WriteBody, At
<1>4. ASSUME work[p] = <<<<"delete_accessor", a>>, <<"delete_secret", k>>>>
      PROVE  /\ Moved(p, <<<<"delete_secret", k>>>>, held[p])
             /\ accessor' = [accessor EXCEPT ![a] = None] /\ gone' = gone \cup {a}
  <2>1. Rest(p, <<<<"delete_secret", k>>>>)
    BY <1>1, <1>4, ThenRest2
  <2>2. Moved(p, <<<<"delete_secret", k>>>>, held[p])
    BY <1>2, <2>1, RestMoves
  <2>3. accessor' = [accessor EXCEPT ![a] = None] /\ gone' = gone \cup {a}
    BY <1>1, <1>4 DEF Arg
  <2>4. QED BY <2>2, <2>3
<1>5. ASSUME NEW g \in SUBSET Acc,
             work[p] = <<<<"delete_accessor", a>>, <<"delete_secret", k>>, <<"accept", a, g>>>>
      PROVE  /\ Moved(p, <<<<"delete_secret", k>>, <<"accept", a, g>>>>, held[p])
             /\ accessor' = [accessor EXCEPT ![a] = None] /\ gone' = gone \cup {a}
  <2>1. Rest(p, <<<<"delete_secret", k>>, <<"accept", a, g>>>>)
    BY <1>1, <1>5, ThenRest3
  <2>2. Moved(p, <<<<"delete_secret", k>>, <<"accept", a, g>>>>, held[p])
    BY <1>2, <2>1, RestMoves
  <2>3. accessor' = [accessor EXCEPT ![a] = None] /\ gone' = gone \cup {a}
    BY <1>1, <1>5 DEF Arg
  <2>4. QED BY <2>2, <2>3
<1>6. CASE \E r \in Name, b \in BOOLEAN :
             /\ work[p] = <<<<"delete_accessor", a>>, <<"delete_secret", k>>>>
             /\ held[p] = {<<r, b>>, <<k, TRUE>>}
  BY <1>4, <1>6
<1>7. CASE \E g \in SUBSET Acc :
             /\ work[p] = <<<<"delete_accessor", a>>, <<"delete_secret", k>>, <<"accept", a, g>>>>
             /\ held[p] = {<<k, TRUE>>}
  BY <1>5, <1>7
<1>8. QED BY <1>3, <1>6, <1>7

LEMMA DeleteAccessorTidy ==
  ASSUME Shapes, DeleteAccessor(Tidy)
  PROVE  \E k \in Key, a \in Acc : TidyDeleteAccessorEffect(k, a)
<1> USE DEF TidyDeleteAccessorEffect
<1>1. /\ At(Tidy, "delete_accessor") /\ Then(Tidy, <<>>)
      /\ accessor' = [accessor EXCEPT ![Arg(Tidy, 2)] = None]
      /\ gone' = gone \cup {Arg(Tidy, 2)}
  BY DEF DeleteAccessor
<1>2. Tidy \in Proc
  BY DEF Proc
<1> DEFINE w == work[Tidy]
<1>3. PICK k \in Key, a \in Acc :
        /\ held[Tidy] = {<<k, TRUE>>}
        /\ \/ /\ w = <<<<"delete_accessor", a>>, <<"unlock", k>>, w[3], w[4]>>
              /\ DanglingRests(w[3], w[4])
           \/ /\ w = <<<<"delete_accessor", a>>, <<"delete_secret", k>>, <<"unlock", k>>,
                      w[4], w[5], w[6]>>
              /\ CleanupRests(w[4], w[5], w[6])
  BY <1>1, AtTidy DEF TidyBody, At
<1>4. ASSUME NEW w1, NEW w2, w = <<<<"delete_accessor", a>>, <<"unlock", k>>, w1, w2>>
      PROVE  /\ Moved(Tidy, <<<<"unlock", k>>, w1, w2>>, held[Tidy])
             /\ accessor' = [accessor EXCEPT ![a] = None] /\ gone' = gone \cup {a}
  <2>1. Rest(Tidy, <<<<"unlock", k>>, w1, w2>>)
    BY <1>1, <1>4, ThenRest4
  <2>2. Moved(Tidy, <<<<"unlock", k>>, w1, w2>>, held[Tidy])
    BY <1>2, <2>1, RestMoves
  <2>3. accessor' = [accessor EXCEPT ![a] = None] /\ gone' = gone \cup {a}
    BY <1>1, <1>4 DEF Arg
  <2>4. QED BY <2>2, <2>3
<1>5. ASSUME NEW w1, NEW w2, NEW w3,
             w = <<<<"delete_accessor", a>>, <<"delete_secret", k>>, <<"unlock", k>>, w1, w2, w3>>
      PROVE  /\ Moved(Tidy, <<<<"delete_secret", k>>, <<"unlock", k>>, w1, w2, w3>>, held[Tidy])
             /\ accessor' = [accessor EXCEPT ![a] = None] /\ gone' = gone \cup {a}
  <2>1. Rest(Tidy, <<<<"delete_secret", k>>, <<"unlock", k>>, w1, w2, w3>>)
    BY <1>1, <1>5, ThenRest6
  <2>2. Moved(Tidy, <<<<"delete_secret", k>>, <<"unlock", k>>, w1, w2, w3>>, held[Tidy])
    BY <1>2, <2>1, RestMoves
  <2>3. accessor' = [accessor EXCEPT ![a] = None] /\ gone' = gone \cup {a}
    BY <1>1, <1>5 DEF Arg
  <2>4. QED BY <2>2, <2>3
<1> HIDE DEF w
<1>6. CASE /\ w = <<<<"delete_accessor", a>>, <<"unlock", k>>, w[3], w[4]>>
           /\ DanglingRests(w[3], w[4])
  BY <1>3, <1>4, <1>6 DEF w
<1>7. CASE /\ w = <<<<"delete_accessor", a>>, <<"delete_secret", k>>, <<"unlock", k>>,
                    w[4], w[5], w[6]>>
           /\ CleanupRests(w[4], w[5], w[6])
  <2> DEFINE w1 == w[4] w2 == w[5] w3 == w[6]
  <2>1. /\ CleanupRests(w1, w2, w3)
        /\ w = <<<<"delete_accessor", a>>, <<"delete_secret", k>>, <<"unlock", k>>, w1, w2, w3>>
    BY <1>7
  <2> HIDE DEF w1, w2, w3
  <2>2. /\ Moved(Tidy, <<<<"delete_secret", k>>, <<"unlock", k>>, w1, w2, w3>>, held[Tidy])
        /\ accessor' = [accessor EXCEPT ![a] = None] /\ gone' = gone \cup {a}
    BY <1>5, <2>1
  <2>3. QED BY <1>3, <2>1, <2>2 DEF w
<1>8. QED BY <1>3, <1>6, <1>7

LEMMA DeleteSecretCaller ==
  ASSUME Shapes, NEW p \in Callers, DeleteSecret(p)
  PROVE  \E k \in Key : DeleteSecretEffect(p, k)
<1> USE DEF DeleteSecretEffect
<1>1. At(p, "delete_secret") /\ Then(p, <<>>)
  BY DEF DeleteSecret
<1>2. p \in Proc
  BY <1>1, AtCaller
<1>3. PICK k \in Key :
        \/ \E r \in Name, b \in BOOLEAN :
             /\ work[p] = <<<<"delete_secret", k>>>> /\ held[p] = {<<r, b>>, <<k, TRUE>>}
        \/ work[p] = <<<<"delete_secret", k>>>> /\ held[p] = {<<k, FALSE>>}
        \/ \E a \in Acc, g \in SUBSET Acc :
             /\ work[p] = <<<<"delete_secret", k>>, <<"accept", a, g>>>>
             /\ held[p] = {<<k, TRUE>>}
        \/ \E K \in SUBSET Key, o \in Rid, r \in Name :
             /\ work[p] = <<<<"delete_secret", k>>, <<"unlock", k>>, <<"flush", K>>,
                            <<"delete_role_id", o, r>>, <<"put_role", r, None>>>>
             /\ held[p] = {<<r, TRUE>>, <<k, TRUE>>}
  BY <1>1, AtCaller DEF CallerBody, WriteBody, At
<1>4. work[p][1] = <<"delete_secret", k>>
  <2>1. CASE work[p] = <<<<"delete_secret", k>>>>
    BY <2>1
  <2>2. CASE \E a, g : work[p] = <<<<"delete_secret", k>>, <<"accept", a, g>>>>
    BY <2>2
  <2>3. CASE \E K, o, r : work[p] = <<<<"delete_secret", k>>, <<"unlock", k>>, <<"flush", K>>,
                            <<"delete_role_id", o, r>>, <<"put_role", r, None>>>>
    BY <2>3
  <2>4. QED BY <1>3, <2>1, <2>2, <2>3
<1>5. /\ secret' = [secret EXCEPT ![k] = None]
      /\ gone' = IF secret[k] = None THEN gone ELSE gone \cup {secret[k].acc}
  BY <1>4 DEF DeleteSecret, Arg
<1>6. ASSUME work[p] = <<<<"delete_secret", k>>>>
      PROVE  Moved(p, <<>>, {})
  <2>1. Rest(p, <<>>)
    BY <1>1, <1>6, ThenLast0
  <2>2. QED BY <1>2, <2>1, RefuseMoves
<1>7. ASSUME NEW a \in Acc, NEW g \in SUBSET Acc,
             work[p] = <<<<"delete_secret", k>>, <<"accept", a, g>>>>, held[p] = {<<k, TRUE>>}
      PROVE  Moved(p, <<<<"accept", a, g>>>>, held[p])
  <2>1. Rest(p, <<<<"accept", a, g>>>>)
    BY <1>1, <1>7, ThenRest2
  <2>2. QED BY <1>2, <2>1, RestMoves
<1>8. ASSUME NEW K \in SUBSET Key, NEW o \in Rid, NEW r \in Name,
             work[p] = <<<<"delete_secret", k>>, <<"unlock", k>>, <<"flush", K>>,
                         <<"delete_role_id", o, r>>, <<"put_role", r, None>>>>
      PROVE  Moved(p, <<<<"unlock", k>>, <<"flush", K>>, <<"delete_role_id", o, r>>,
                        <<"put_role", r, None>>>>, held[p])
  <2>1. Rest(p, <<<<"unlock", k>>, <<"flush", K>>, <<"delete_role_id", o, r>>,
                  <<"put_role", r, None>>>>)
    BY <1>1, <1>8, ThenRest5
  <2>2. QED BY <1>2, <2>1, RestMoves
<1>9. CASE \E a \in Acc, g \in SUBSET Acc :
             /\ work[p] = <<<<"delete_secret", k>>, <<"accept", a, g>>>>
             /\ held[p] = {<<k, TRUE>>}
  BY <1>5, <1>7, <1>9
<1>10. CASE \E K \in SUBSET Key, o \in Rid, r \in Name :
             /\ work[p] = <<<<"delete_secret", k>>, <<"unlock", k>>, <<"flush", K>>,
                            <<"delete_role_id", o, r>>, <<"put_role", r, None>>>>
             /\ held[p] = {<<r, TRUE>>, <<k, TRUE>>}
  BY <1>5, <1>8, <1>10
<1>11. CASE \E r \in Name, b \in BOOLEAN :
             /\ work[p] = <<<<"delete_secret", k>>>> /\ held[p] = {<<r, b>>, <<k, TRUE>>}
  BY <1>5, <1>6, <1>11
<1>12. CASE work[p] = <<<<"delete_secret", k>>>> /\ held[p] = {<<k, FALSE>>}
  BY <1>5, <1>6, <1>12
<1>13. QED BY <1>3, <1>9, <1>10, <1>11, <1>12

LEMMA DeleteSecretTidy ==
  ASSUME Shapes, DeleteSecret(Tidy)
  PROVE  \E k, w1, w2, w3 : TidyDeleteSecretEffect(k, w1, w2, w3)
<1> USE DEF TidyDeleteSecretEffect
<1>1. At(Tidy, "delete_secret") /\ Then(Tidy, <<>>)
  BY DEF DeleteSecret
<1>2. Tidy \in Proc
  BY DEF Proc
<1> DEFINE w == work[Tidy] w1 == w[3] w2 == w[4] w3 == w[5]
<1>3. PICK k \in Key :
        /\ w = <<<<"delete_secret", k>>, <<"unlock", k>>, w[3], w[4], w[5]>>
        /\ CleanupRests(w[3], w[4], w[5]) /\ held[Tidy] = {<<k, TRUE>>}
  BY <1>1, AtTidy DEF TidyBody, At
<1>4. w[1] = <<"delete_secret", k>>
  BY <1>3
<1>5. /\ secret' = [secret EXCEPT ![k] = None]
      /\ gone' = IF secret[k] = None THEN gone ELSE gone \cup {secret[k].acc}
  BY <1>4 DEF DeleteSecret, Arg
<1>6. /\ work[Tidy] = <<<<"delete_secret", k>>, <<"unlock", k>>, w1, w2, w3>>
      /\ CleanupRests(w1, w2, w3)
  BY <1>3
<1> HIDE DEF w, w1, w2, w3
<1>7. Rest(Tidy, <<<<"unlock", k>>, w1, w2, w3>>)
  BY <1>1, <1>6, ThenRest5
<1>8. Moved(Tidy, <<<<"unlock", k>>, w1, w2, w3>>, held[Tidy])
  BY <1>2, <1>7, RestMoves
<1>9. QED BY <1>3, <1>5, <1>6, <1>8

(* Tidying. *)
LEMMA TidyListMoves ==
  ASSUME Shapes, TidyList
  PROVE  \E E \in SUBSET Key, O \in SUBSET Acc, f \in Found, R \in SUBSET (1..MaxInc) :
           TidyListEffect(E, O, f, R)
<1> USE DEF TidyListEffect
<1>1. At(Tidy, "tidy")
  BY DEF TidyList
<1>2. PICK E \in SUBSET Key, O \in SUBSET Acc :
        work[Tidy] = <<<<"tidy", E, O>>>> /\ held[Tidy] = {}
  BY <1>1, AtTidy DEF TidyBody, At
<1> DEFINE f == [a \in {b \in Acc : accessor[b] # None} |-> accessor[a]]
           R == {k[1] : k \in Stored}
<1>3. Arg(Tidy, 2) = E /\ Arg(Tidy, 3) = O
  BY <1>2 DEF Arg
<1>4. Then(Tidy, <<<<"cleanup", Stored>>, <<"tidy_rest", f, {}, R>>, <<"tidied", E, O>>>>)
  BY <1>3 DEF TidyList
<1>5. f \in Found
  <2>1. {b \in Acc : accessor[b] # None} \in SUBSET Acc
    OBVIOUS
  <2>2. f \in [{b \in Acc : accessor[b] # None} -> Key]
    BY DEF Shapes, EntriesTyped
  <2>3. QED BY <2>1, <2>2 DEF Found
<1>6. R \in SUBSET (1..MaxInc)
  BY DEF Stored, Key
<1> HIDE DEF f, R
<1>7. Rest(Tidy, <<<<"cleanup", Stored>>, <<"tidy_rest", f, {}, R>>, <<"tidied", E, O>>>>)
  BY <1>2, <1>4, ThenLast3
<1>8. Moved(Tidy, <<<<"cleanup", Stored>>, <<"tidy_rest", f, {}, R>>, <<"tidied", E, O>>>>, {})
  BY <1>1, <1>2, <1>7, AtTidy, RestMoves
<1>9. QED BY <1>2, <1>5, <1>6, <1>8 DEF f, R

LEMMA TidyEachMoves ==
  ASSUME Shapes, TidyEach
  PROVE  \E E \in SUBSET Key, O \in SUBSET Acc, f \in Found, K \in SUBSET Key, s \in SUBSET Acc, R \in SUBSET (1..MaxInc) :
           TidyEachEffect(E, O, f, K, s, R)
<1> USE DEF TidyEachEffect
<1>1. At(Tidy, "cleanup")
  BY DEF TidyEach, ForEach
<1>2. Tidy \in Proc
  BY <1>1, AtTidy
<1>3. PICK E \in SUBSET Key, O \in SUBSET Acc, f \in Found,
           K \in SUBSET Key, s \in SUBSET Acc, R \in SUBSET (1..MaxInc) :
        /\ work[Tidy] = <<<<"cleanup", K>>, <<"tidy_rest", f, s, R>>, <<"tidied", E, O>>>>
        /\ held[Tidy] = {}
  <2> DEFINE w == work[Tidy]
  <2>1. w = <<w[1], w[2], w[3]>> /\ CleanupRests(w[1], w[2], w[3]) /\ held[Tidy] = {}
    BY <1>1, AtTidy DEF TidyBody, At
  <2> DEFINE w1 == w[1] w2 == w[2] w3 == w[3]
  <2>2. w = <<w1, w2, w3>> /\ CleanupRests(w1, w2, w3)
    BY <2>1
  <2> HIDE DEF w1, w2, w3
  <2>3. QED BY <2>1, <2>2 DEF CleanupRests
<1> DEFINE x1 == <<"tidy_rest", f, s, R>> x2 == <<"tidied", E, O>>
<1>4. Arg(Tidy, 2) = K /\ work[Tidy] = <<<<"cleanup", K>>, x1, x2>>
  BY <1>3 DEF Arg
<1>5. ASSUME Then(Tidy, <<>>)
      PROVE  Moved(Tidy, <<x1, x2>>, {})
  <2> HIDE DEF x1, x2
  <2>1. Rest(Tidy, <<x1, x2>>)
    BY <1>4, <1>5, ThenRest3
  <2>2. QED BY <1>2, <1>3, <2>1, RestMoves
<1>6. ASSUME NEW k \in K, Then(Tidy, Cleanup(k) \o <<[work[Tidy][1] EXCEPT ![2] = @ \ {k}]>>)
      PROVE  Moved(Tidy, <<write(k), <<"tidy_secret", k>>, <<"unlock", k>>,
                           <<"cleanup", K \ {k}>>, x1, x2>>, {})
  <2>1. [work[Tidy][1] EXCEPT ![2] = @ \ {k}] = <<"cleanup", K \ {k}>>
    BY <1>3
  <2> HIDE DEF x1, x2
  <2>2. Cleanup(k) \o <<<<"cleanup", K \ {k}>>>>
        = <<write(k), <<"tidy_secret", k>>, <<"unlock", k>>, <<"cleanup", K \ {k}>>>>
    BY Cat31 DEF Cleanup
  <2>3. Rest(Tidy, <<write(k), <<"tidy_secret", k>>, <<"unlock", k>>, <<"cleanup", K \ {k}>>,
                     x1, x2>>)
    BY <1>4, <1>6, <2>1, <2>2, ThenMore42
  <2>4. QED BY <1>2, <1>3, <2>3, RestMoves
<1>7. QED BY <1>3, <1>4, <1>5, <1>6 DEF TidyEach, ForEach

LEMMA TidySecretMoves ==
  ASSUME Shapes, TidySecret
  PROVE  \E E \in SUBSET Key, O \in SUBSET Acc, f \in Found, K \in SUBSET Key, s \in SUBSET Acc, R \in SUBSET (1..MaxInc), k \in Key :
           TidySecretEffect(E, O, f, K, s, R, k)
<1> USE DEF TidySecretEffect
<1>1. At(Tidy, "tidy_secret")
  BY DEF TidySecret
<1>2. Tidy \in Proc
  BY <1>1, AtTidy
<1>3. PICK k \in Key, E \in SUBSET Key, O \in SUBSET Acc, f \in Found,
           K \in SUBSET Key, s \in SUBSET Acc, R \in SUBSET (1..MaxInc) :
        /\ work[Tidy] = <<<<"tidy_secret", k>>, <<"unlock", k>>, <<"cleanup", K>>,
                          <<"tidy_rest", f, s, R>>, <<"tidied", E, O>>>>
        /\ held[Tidy] = {<<k, TRUE>>}
  <2> DEFINE w == work[Tidy]
  <2>1. PICK k \in Key : /\ w = <<<<"tidy_secret", k>>, <<"unlock", k>>, w[3], w[4], w[5]>>
                         /\ CleanupRests(w[3], w[4], w[5]) /\ held[Tidy] = {<<k, TRUE>>}
    BY <1>1, AtTidy DEF TidyBody, At
  <2> DEFINE w1 == w[3] w2 == w[4] w3 == w[5]
  <2>2. w = <<<<"tidy_secret", k>>, <<"unlock", k>>, w1, w2, w3>> /\ CleanupRests(w1, w2, w3)
    BY <2>1
  <2> HIDE DEF w1, w2, w3
  <2>3. PICK E \in SUBSET Key, O \in SUBSET Acc, f \in Found,
             K \in SUBSET Key, s \in SUBSET Acc, R \in SUBSET (1..MaxInc) :
          w1 = <<"cleanup", K>> /\ w2 = <<"tidy_rest", f, s, R>> /\ w3 = <<"tidied", E, O>>
    BY <2>2 DEF CleanupRests
  <2>4. w = <<<<"tidy_secret", k>>, <<"unlock", k>>, <<"cleanup", K>>,
              <<"tidy_rest", f, s, R>>, <<"tidied", E, O>>>>
    BY <2>2, <2>3
  <2>5. QED BY <2>1, <2>4
<1> DEFINE e == secret[k] x == <<"cleanup", K>> y == <<"tidied", E, O>> z == <<"tidy_rest", f, s, R>>
           u == <<"unlock", k>> z2 == <<"tidy_rest", f, s \cup {secret[k].acc}, R>>
<1>4. Arg(Tidy, 2) = k /\ work[Tidy] = <<<<"tidy_secret", k>>, u, x, z, y>>
  BY <1>3 DEF Arg
<1>5. CASE e = None
  <2>1. Rest(Tidy, <<>>)
    BY <1>4, <1>5 DEF TidySecret, Refuse
  <2>2. Moved(Tidy, <<>>, {})
    BY <1>2, <2>1, RefuseMoves
  <2>3. QED BY <1>3, <2>2
<1>6. CASE e # None /\ accessor[e.acc] = None
  <2>1. Then(Tidy, <<<<"delete_secret", k>>>>)
    BY <1>4, <1>6 DEF TidySecret
  <2>2. Moved(Tidy, <<<<"delete_secret", k>>, u, x, z, y>>, held[Tidy])
    <3> HIDE DEF u, x, y, z
    <3>1. Rest(Tidy, <<<<"delete_secret", k>>, u, x, z, y>>)
      BY <1>4, <2>1, ThenMore14
    <3>2. QED BY <1>2, <3>1, RestMoves
  <2>3. QED BY <1>3, <1>6, <2>2
<1>7. CASE e # None /\ accessor[e.acc] # None /\ Expired(k)
  <2>1. Then(Tidy, <<<<"delete_accessor", secret[k].acc>>, <<"delete_secret", k>>>>)
    BY <1>4, <1>7 DEF TidySecret, Revoked
  <2>2. Moved(Tidy, <<<<"delete_accessor", secret[k].acc>>, <<"delete_secret", k>>, u, x, z, y>>,
              held[Tidy])
    <3> HIDE DEF u, x, y, z
    <3>1. Rest(Tidy, <<<<"delete_accessor", secret[k].acc>>, <<"delete_secret", k>>, u, x, z, y>>)
      BY <1>4, <2>1, ThenMore24
    <3>2. QED BY <1>2, <3>1, RestMoves
  <2>3. QED BY <1>3, <1>7, <2>2
<1>8. CASE e # None /\ accessor[e.acc] # None /\ ~Expired(k)
  <2>1. Rest(Tidy, Skip(secret[k].acc))
    BY <1>4, <1>8 DEF TidySecret
  <2>2. Tail(work[Tidy]) = <<u, x, z, y>>
    <3> HIDE DEF u, x, y, z
    <3>1. QED BY <1>4, Tail5
  <2>3. z[3] = s /\ [z EXCEPT ![3] = z[3] \cup {secret[k].acc}] = z2
    OBVIOUS
  <2>4. Skip(secret[k].acc) = <<u, x, z2, y>>
    <3>1. Skip(secret[k].acc) = [<<u, x, z, y>> EXCEPT ![3][3] = @ \cup {secret[k].acc}]
      BY <2>2 DEF Skip
    <3> HIDE DEF u, x, y, z, z2
    <3>2. QED BY <2>3, <3>1
  <2>5. Moved(Tidy, <<u, x, z2, y>>, held[Tidy])
    <3> HIDE DEF u, x, y, z, z2
    <3>1. QED BY <1>2, <2>1, <2>4, RestMoves
  <2>6. QED BY <1>3, <1>8, <2>5
<1>9. QED BY <1>5, <1>6, <1>7, <1>8

LEMMA TidyRestMoves ==
  ASSUME Shapes, TidyRest
  PROVE  \E E \in SUBSET Key, O \in SUBSET Acc, f \in Found, s \in SUBSET Acc, R \in SUBSET (1..MaxInc) :
           TidyRestEffect(E, O, f, s, R)
<1> USE DEF TidyRestEffect
<1>1. At(Tidy, "tidy_rest")
  BY DEF TidyRest
<1>2. Tidy \in Proc
  BY <1>1, AtTidy
<1>3. PICK E \in SUBSET Key, O \in SUBSET Acc, f \in Found, s \in SUBSET Acc,
           R \in SUBSET (1..MaxInc) :
        work[Tidy] = <<<<"tidy_rest", f, s, R>>, <<"tidied", E, O>>>> /\ held[Tidy] = {}
  BY <1>1, AtTidy DEF TidyBody, At
<1>4. Arg(Tidy, 2) = f /\ Arg(Tidy, 3) = s /\ Arg(Tidy, 4) = R
  BY <1>3 DEF Arg
<1>5. CASE Cardinality(DOMAIN f) <= Cardinality(s)
  <2>1. Then(Tidy, <<>>)
    BY <1>4, <1>5 DEF TidyRest
  <2>2. Rest(Tidy, <<<<"tidied", E, O>>>>)
    BY <1>3, <2>1, ThenRest2
  <2>3. Moved(Tidy, <<<<"tidied", E, O>>>>, {})
    BY <1>2, <1>3, <2>2, RestMoves
  <2>4. QED BY <1>3, <1>5, <2>3
<1>6. CASE ~(Cardinality(DOMAIN f) <= Cardinality(s))
  <2> DEFINE K == Dangling(f, s, R)
  <2>1. Then(Tidy, <<<<"dangling", K, f>>>>)
    BY <1>4, <1>6 DEF TidyRest
  <2>2. K \in SUBSET (DOMAIN f)
    BY DEF Dangling
  <2> HIDE DEF K
  <2>3. Rest(Tidy, <<<<"dangling", K, f>>, <<"tidied", E, O>>>>)
    BY <1>3, <2>1, ThenMore11
  <2>4. Moved(Tidy, <<<<"dangling", K, f>>, <<"tidied", E, O>>>>, {})
    BY <1>2, <1>3, <2>3, RestMoves
  <2>5. QED BY <1>3, <2>2, <2>4 DEF K
<1>7. QED BY <1>5, <1>6

LEMMA TidyDanglingMoves ==
  ASSUME Shapes, TidyDangling
  PROVE  \E E \in SUBSET Key, O \in SUBSET Acc, f \in Found, K \in SUBSET Acc :
           TidyDanglingEffect(E, O, f, K)
<1> USE DEF TidyDanglingEffect
<1>1. At(Tidy, "dangling")
  BY DEF TidyDangling, ForEach
<1>2. Tidy \in Proc
  BY <1>1, AtTidy
<1>3. PICK E \in SUBSET Key, O \in SUBSET Acc, f \in Found : \E K \in SUBSET (DOMAIN f) :
        work[Tidy] = <<<<"dangling", K, f>>, <<"tidied", E, O>>>> /\ held[Tidy] = {}
  <2> DEFINE w == work[Tidy]
  <2>1. w = <<w[1], w[2]>> /\ DanglingRests(w[1], w[2]) /\ held[Tidy] = {}
    BY <1>1, AtTidy DEF TidyBody, At
  <2> DEFINE w1 == w[1] w2 == w[2]
  <2>2. w = <<w1, w2>> /\ DanglingRests(w1, w2)
    BY <2>1
  <2> HIDE DEF w1, w2
  <2>3. QED BY <2>1, <2>2 DEF DanglingRests
<1>4. PICK K \in SUBSET (DOMAIN f) :
        work[Tidy] = <<<<"dangling", K, f>>, <<"tidied", E, O>>>> /\ held[Tidy] = {}
  BY <1>3
<1>5. Arg(Tidy, 2) = K /\ Arg(Tidy, 3) = f
  BY <1>4 DEF Arg
<1>6. ASSUME Then(Tidy, <<>>)
      PROVE  Moved(Tidy, <<<<"tidied", E, O>>>>, {})
  <2>1. Rest(Tidy, <<<<"tidied", E, O>>>>)
    BY <1>4, <1>6, ThenRest2
  <2>2. QED BY <1>2, <1>4, <2>1, RestMoves
<1>7. ASSUME NEW a \in K, Then(Tidy, Removed(a) \o <<[work[Tidy][1] EXCEPT ![2] = @ \ {a}]>>)
      PROVE  /\ a \in Acc /\ f[a] \in Key
             /\ Moved(Tidy, <<write(f[a]), <<"delete_accessor", a>>, <<"unlock", f[a]>>,
                              <<"dangling", K \ {a}, f>>, <<"tidied", E, O>>>>, {})
  <2>1. [work[Tidy][1] EXCEPT ![2] = @ \ {a}] = <<"dangling", K \ {a}, f>>
    BY <1>4
  <2>2. Removed(a) = <<write(f[a]), <<"delete_accessor", a>>, <<"unlock", f[a]>>>>
    BY <1>5 DEF Removed
  <2>3. Removed(a) \o <<<<"dangling", K \ {a}, f>>>>
        = <<write(f[a]), <<"delete_accessor", a>>, <<"unlock", f[a]>>, <<"dangling", K \ {a}, f>>>>
    BY <2>2, Cat31
  <2>4. Rest(Tidy, <<write(f[a]), <<"delete_accessor", a>>, <<"unlock", f[a]>>,
                     <<"dangling", K \ {a}, f>>, <<"tidied", E, O>>>>)
    BY <1>4, <1>7, <2>1, <2>3, ThenMore41
  <2>5. a \in Acc /\ f[a] \in Key
    BY DEF Found
  <2>6. QED BY <1>2, <1>4, <2>4, <2>5, RestMoves
<1>8. K \in SUBSET Acc
  BY DEF Found
<1>9. QED BY <1>8, <1>4, <1>5, <1>6, <1>7 DEF TidyDangling, ForEach

LEMMA TidyEndMoves ==
  ASSUME Shapes, TidyEnd
  PROVE  \E E \in SUBSET Key, O \in SUBSET Acc :
           work[Tidy] = <<<<"tidied", E, O>>>> /\ held[Tidy] = {} /\ Moved(Tidy, <<>>, {})
<1>1. At(Tidy, "tidied") /\ Then(Tidy, <<>>)
  BY DEF TidyEnd
<1>2. Tidy \in Proc
  BY <1>1, AtTidy
<1>3. PICK E \in SUBSET Key, O \in SUBSET Acc :
        work[Tidy] = <<<<"tidied", E, O>>>> /\ held[Tidy] = {}
  BY <1>1, AtTidy DEF TidyBody, At
<1>4. Rest(Tidy, <<>>)
  BY <1>1, <1>3, ThenLast0
<1>5. QED BY <1>2, <1>3, <1>4, RefuseMoves

-----------------------------------------------------------------------------
(* The first layer is kept.                                                 *)

LEMMA Chain2 ==
  ASSUME NEW x1, NEW x2
  PROVE  Chain(<<x1, x2>>)
<1>1. StepsOf(<<x1, x2>>) = {x1, x2} /\ StepsOf(<<x2>>) = {x2}
  BY DEF StepsOf
<1>2. QED BY <1>1, Tail2 DEF Chain

LEMMA Chain3 ==
  ASSUME NEW x1, NEW x2, NEW x3
  PROVE  Chain(<<x1, x2, x3>>)
<1>1. StepsOf(<<x1, x2, x3>>) = {x1, x2, x3} /\ StepsOf(<<x2, x3>>) = {x2, x3}
  BY DEF StepsOf
<1>2. QED BY <1>1, Tail3 DEF Chain

LEMMA Chain4 ==
  ASSUME NEW x1, NEW x2, NEW x3, NEW x4
  PROVE  Chain(<<x1, x2, x3, x4>>)
<1>1. StepsOf(<<x1, x2, x3, x4>>) = {x1, x2, x3, x4} /\ StepsOf(<<x2, x3, x4>>) = {x2, x3, x4}
  BY DEF StepsOf
<1>2. QED BY <1>1, Tail4 DEF Chain

LEMMA Chain5 ==
  ASSUME NEW x1, NEW x2, NEW x3, NEW x4, NEW x5
  PROVE  Chain(<<x1, x2, x3, x4, x5>>)
<1>1. /\ StepsOf(<<x1, x2, x3, x4, x5>>) = {x1, x2, x3, x4, x5}
      /\ StepsOf(<<x2, x3, x4, x5>>) = {x2, x3, x4, x5}
  BY DEF StepsOf
<1>2. QED BY <1>1, Tail5 DEF Chain

LEMMA Chain6 ==
  ASSUME NEW x1, NEW x2, NEW x3, NEW x4, NEW x5, NEW x6
  PROVE  Chain(<<x1, x2, x3, x4, x5, x6>>)
<1>1. /\ StepsOf(<<x1, x2, x3, x4, x5, x6>>) = {x1, x2, x3, x4, x5, x6}
      /\ StepsOf(<<x2, x3, x4, x5, x6>>) = {x2, x3, x4, x5, x6}
  BY DEF StepsOf
<1>2. QED BY <1>1, Tail6 DEF Chain

LEMMA BodyFits ==
  ASSUME NEW p, NEW H, NEW w, Body(p, H, w)
  PROVE  w # <<>> /\ w[1][1] \notin {"lock", "unlock"} /\ Fits(p, H, w)
<1>1. w # <<>> /\ w[1][1] \in CallerOps \cup TidyOps
  BY DEF Body, CallerBody, TidyBody
<1>2. w[1][1] \notin {"lock", "unlock"}
  BY <1>1 DEF CallerOps, TidyOps
<1>3. QED BY <1>1, <1>2 DEF Fits

LEMMA CallerFits ==
  ASSUME NEW p \in Callers, NEW H, NEW w, CallerBody(H, w)
  PROVE  Body(p, H, w) /\ Fits(p, H, w)
  BY BodyFits, ProcAssumption DEF Body

LEMMA TidyFits ==
  ASSUME NEW H, NEW w, TidyBody(H, w)
  PROVE  Body(Tidy, H, w) /\ Fits(Tidy, H, w)
  BY BodyFits DEF Body

LEMMA LockingFits ==
  ASSUME NEW p, NEW H, NEW w, Locking(p, H, w)
  PROVE  w # <<>> /\ w[1][1] = "lock" /\ Fits(p, H, w)
<1>1. PICK k \in Name \cup Key, b \in BOOLEAN : w[1] = <<"lock", k, b>> /\ Chain(w)
  BY DEF Locking
<1>2. w # <<>>
  <2>1. w[1] \in StepsOf(w)
    BY <1>1 DEF Chain
  <2>2. DOMAIN w # {}
    BY <2>1 DEF StepsOf
  <2>3. QED BY <2>2
<1>3. w[1][1] = "lock"
  BY <1>1
<1>4. QED BY <1>2, <1>3 DEF Fits

LEMMA UnlockingFits ==
  ASSUME NEW p, NEW H, NEW w, Unlocking(p, H, w)
  PROVE  w # <<>> /\ w[1][1] = "unlock" /\ Fits(p, H, w)
<1>1. PICK k \in Name \cup Key : w[1] = <<"unlock", k>> /\ Chain(w)
  BY DEF Unlocking
<1>2. w # <<>>
  <2>1. w[1] \in StepsOf(w)
    BY <1>1 DEF Chain
  <2>2. DOMAIN w # {}
    BY <2>1 DEF StepsOf
  <2>3. QED BY <2>2
<1>3. w[1][1] = "unlock"
  BY <1>1
<1>4. QED BY <1>2, <1>3 DEF Fits

(* Locks that are dropped. *)
LEMMA WithoutAll ==
  ASSUME NEW k, NEW b PROVE Without({<<k, b>>}, k) = {}
<1>1. \A h : h \notin Without({<<k, b>>}, k)
  BY DEF Without
<1>2. QED BY <1>1

LEMMA WithoutSecond ==
  ASSUME NEW k, NEW r, r # k, NEW H, H = {<<r, TRUE>>, <<k, TRUE>>}
  PROVE  Without(H, k) = {<<r, TRUE>>}
<1> DEFINE x == <<r, TRUE>> y == <<k, TRUE>>
<1>1. x[1] = r /\ y[1] = k /\ H = {x, y}
  OBVIOUS
<1> HIDE DEF x, y
<1>2. \A h : h \in Without(H, k) <=> h = x
  BY <1>1 DEF Without
<1>3. Without(H, k) = {x}
  BY <1>2
<1>4. QED BY <1>3 DEF x

LEMMA EmptyFits ==
  ASSUME NEW p PROVE Fits(p, {}, <<>>)
  BY DEF Fits

(* A task moves on and gets no lock. *)
LEMMA ShapesMove ==
  ASSUME Shapes, NEW p \in Proc, NEW w, NEW H, Moved(p, w, H),
         H \subseteq held[p], Fits(p, H, w), EntriesTyped', HistoryTyped'
  PROVE  Shapes'
<1>1. held' \in [Proc -> SUBSET Lock1]
  <2>1. \A q \in Proc : held'[q] \in SUBSET Lock1
    BY DEF Shapes, TasksTyped, Moved
  <2>2. QED BY <2>1 DEF Moved
<1>2. \A q \in Proc : Fits(q, held[q], work[q])'
  BY DEF Shapes, TasksTyped, Moved
<1>3. Exclusive'
  BY DEF Shapes, Exclusive, Moved
<1>4. QED
  BY <1>1, <1>2, <1>3 DEF Shapes, TasksTyped, Moved

LEMMA StillTyped ==
  ASSUME Shapes, UNCHANGED still
  PROVE  EntriesTyped' /\ HistoryTyped'
  BY DEF Shapes, EntriesTyped, HistoryTyped, storage, history

LEMMA ShapesStay ==
  ASSUME Shapes, NEW p \in Proc, NEW w, NEW H, Moved(p, w, H),
         H \subseteq held[p], Fits(p, H, w), UNCHANGED still
  PROVE  Shapes'
  BY StillTyped, ShapesMove

LEMMA ShapesStop ==
  ASSUME Shapes, NEW p \in Proc, Moved(p, <<>>, {}), EntriesTyped', HistoryTyped'
  PROVE  Shapes'
  BY EmptyFits, ShapesMove

LEMMA CallerIsProc ==
  ASSUME NEW p \in Callers PROVE p \in Proc
  BY DEF Proc

LEMMA BodyMove ==
  ASSUME Shapes, NEW p \in Callers, NEW w, Moved(p, w, held[p]), CallerBody(held[p], w),
         EntriesTyped', HistoryTyped'
  PROVE  Shapes'
<1>1. Fits(p, held[p], w)
  BY CallerFits
<1>2. QED BY <1>1, CallerIsProc, ShapesMove

LEMMA BodyStay ==
  ASSUME Shapes, NEW p \in Callers, NEW w, Moved(p, w, held[p]), CallerBody(held[p], w),
         UNCHANGED still
  PROVE  Shapes'
  BY StillTyped, BodyMove

LEMMA CallerStops ==
  ASSUME Shapes, NEW p \in Callers, Moved(p, <<>>, {}),
         UNCHANGED still
  PROVE  Shapes'
  BY StillTyped, CallerIsProc, ShapesStop

(* Requests. *)
LEMMA AsksLock ==
  ASSUME NEW p \in Callers, NEW H, NEW k \in Name \cup Key, NEW b \in BOOLEAN, NEW x,
         CallerBody(H \cup {<<k, b>>}, <<x>>), Locked(<<x>>),
         k \in Name => H = {}, \A h \in H : h[1] \notin Key
  PROVE  Fits(p, H, <<<<"lock", k, b>>, x>>)
<1> DEFINE w == <<<<"lock", k, b>>, x>>
<1>1. w[1] = <<"lock", k, b>> /\ Tail(w) = <<x>> /\ Chain(w)
  BY Tail2, Chain2
<1>2. Body(p, H \cup {<<k, b>>}, <<x>>)
  BY CallerFits
<1> HIDE DEF w
<1>3. Locking(p, H, w)
  BY <1>1, <1>2 DEF Locking
<1>4. QED BY <1>3, LockingFits DEF w

LEMMA RequestShapes ==
  ASSUME Shapes, NEW p \in Callers, NEW r \in Name, NEW b \in BOOLEAN, NEW x,
         CallerBody({<<r, b>>}, <<x>>), Locked(<<x>>), Request(p, <<<<"lock", r, b>>, x>>)
  PROVE  Shapes'
<1>1. p \in Proc
  BY CallerIsProc
<1>2. Fits(p, {}, <<<<"lock", r, b>>, x>>)
  <2>1. {} \cup {<<r, b>>} = {<<r, b>>}
    OBVIOUS
  <2>2. CallerBody({} \cup {<<r, b>>}, <<x>>)
    BY <2>1
  <2>3. QED BY <2>2, AsksLock
<1>3. Moved(p, <<<<"lock", r, b>>, x>>, {})
  BY <1>1, RequestMoves
<1>4. UNCHANGED still
  BY DEF Request
<1>5. QED BY <1>1, <1>2, <1>3, <1>4, ShapesStay

(* A role may be written under a name in small letters while the lock is    *)
(* that of another spelling.                                                *)
LEMMA SetRoleRequested ==
  ASSUME Shapes, NEW p \in Callers, NEW r \in Name, NEW n \in {r, Lower[r]},
         NEW x \in Rid \cup {None}, Request(p, <<<<"lock", r, TRUE>>, <<"set_role", n, x>>>>)
  PROVE  Shapes'
<1>1. n \in Name /\ Lower[n] = Lower[r]
  BY LowerAssumption
<1>2. ForRole({<<r, TRUE>>}, n)
  BY <1>1 DEF ForRole
<1>3. CallerBody({<<r, TRUE>>}, <<<<"set_role", n, x>>>>) /\ Locked(<<<<"set_role", n, x>>>>)
  BY <1>1, <1>2 DEF CallerBody, CallerOps, RoleBody, SecretBody, LoginBody, WriteBody, Locked
<1>4. QED BY <1>3, RequestShapes

LEMMA RoleRequestShapes ==
  ASSUME Shapes, NEW p \in Callers, WriteRole(p) \/ SetField(p) \/ DeleteRole(p) \/ ReadRole(p)
  PROVE  Shapes'
<1> USE DEF CallerBody, CallerOps, RoleBody, SecretBody, LoginBody, WriteBody, Locked
<1>1. CASE WriteRole(p)
  <2>1. PICK r \in Name, x \in Rid :
          Request(p, <<<<"lock", r, TRUE>>, <<"set_role", Lower[r], x>>>>)
    BY <1>1 DEF WriteRole, write
  <2>2. QED BY <2>1, SetRoleRequested
<1>2. CASE SetField(p)
  <2>1. PICK r \in Name, x \in Rid \cup {None} :
          Request(p, <<<<"lock", r, TRUE>>, <<"set_role", r, x>>>>)
    BY <1>2 DEF SetField, write
  <2>2. QED BY <2>1, SetRoleRequested
<1>3. CASE DeleteRole(p)
  <2>1. PICK r \in Name : Request(p, <<<<"lock", r, TRUE>>, <<"delete_role", r>>>>)
    BY <1>3 DEF DeleteRole, write
  <2>2. CallerBody({<<r, TRUE>>}, <<<<"delete_role", r>>>>) /\ Locked(<<<<"delete_role", r>>>>)
    OBVIOUS
  <2>3. QED BY <2>1, <2>2, RequestShapes
<1>4. CASE ReadRole(p)
  <2>1. PICK r \in Name : Request(p, <<<<"lock", r, FALSE>>, <<"read_role", r>>>>)
    BY <1>4 DEF ReadRole, read
  <2>2. CallerBody({<<r, FALSE>>}, <<<<"read_role", r>>>>) /\ Locked(<<<<"read_role", r>>>>)
    OBVIOUS
  <2>3. QED BY <2>1, <2>2, RequestShapes
<1>5. QED BY <1>1, <1>2, <1>3, <1>4

LEMMA SecretRequestShapes ==
  ASSUME Shapes, NEW p \in Callers,
         Register(p) \/ Destroy(p) \/ Lookup(p) \/ DestroyByAccessor(p) \/ Login(p)
  PROVE  Shapes'
<1> USE DEF CallerBody, CallerOps, RoleBody, SecretBody, LoginBody, WriteBody, Locked
<1>1. CASE Register(p)
  <2>1. PICK r \in Name, s \in Sid, u \in 0..MaxUses, ttl \in 0..1 :
          Request(p, <<<<"lock", r, FALSE>>, <<"register", r, s, u, ttl>>>>)
    BY <1>1 DEF Register, read
  <2>2. /\ CallerBody({<<r, FALSE>>}, <<<<"register", r, s, u, ttl>>>>)
        /\ Locked(<<<<"register", r, s, u, ttl>>>>)
    OBVIOUS
  <2>3. QED BY <2>1, <2>2, RequestShapes
<1>2. CASE Destroy(p)
  <2>1. PICK r \in Name, s \in Sid : Request(p, <<<<"lock", r, FALSE>>, <<"destroy", r, s>>>>)
    BY <1>2 DEF Destroy, read
  <2>2. CallerBody({<<r, FALSE>>}, <<<<"destroy", r, s>>>>) /\ Locked(<<<<"destroy", r, s>>>>)
    OBVIOUS
  <2>3. QED BY <2>1, <2>2, RequestShapes
<1>3. CASE Lookup(p)
  <2>1. PICK r \in Name, s \in Sid : Request(p, <<<<"lock", r, FALSE>>, <<"lookup", r, s>>>>)
    BY <1>3 DEF Lookup, read
  <2>2. CallerBody({<<r, FALSE>>}, <<<<"lookup", r, s>>>>) /\ Locked(<<<<"lookup", r, s>>>>)
    OBVIOUS
  <2>3. QED BY <2>1, <2>2, RequestShapes
<1>4. CASE DestroyByAccessor(p)
  <2>1. PICK r \in Name, a \in Acc :
          Request(p, <<<<"lock", r, TRUE>>, <<"destroy_accessor", r, a>>>>)
    BY <1>4 DEF DestroyByAccessor, write
  <2>2. /\ CallerBody({<<r, TRUE>>}, <<<<"destroy_accessor", r, a>>>>)
        /\ Locked(<<<<"destroy_accessor", r, a>>>>)
    OBVIOUS
  <2>3. QED BY <2>1, <2>2, RequestShapes
<1>5. CASE Login(p)
  <2>1. PICK x \in Rid, s \in Sid : Request(p, <<<<"login", x, s, gone>>>>)
    BY <1>5 DEF Login
  <2>2. gone \in SUBSET Acc
    BY DEF Shapes, HistoryTyped
  <2>3. CallerBody({}, <<<<"login", x, s, gone>>>>)
    BY <2>2
  <2>4. Fits(p, {}, <<<<"login", x, s, gone>>>>)
    BY <2>3, CallerFits
  <2>5. p \in Proc /\ Moved(p, <<<<"login", x, s, gone>>>>, {})
    BY <2>1, CallerIsProc, RequestMoves
  <2>6. UNCHANGED still
    BY <2>1 DEF Request
  <2>7. QED BY <2>4, <2>5, <2>6, ShapesStay
<1>6. QED BY <1>1, <1>2, <1>3, <1>4, <1>5

(* Steps of the roles. *)
LEMMA SetRoleShapes ==
  ASSUME Shapes, NEW p \in Callers, SetRole(p)
  PROVE  Shapes'
<1> USE DEF CallerBody, CallerOps, RoleBody, SecretBody, LoginBody, WriteBody
<1>1. p \in Proc
  BY CallerIsProc
<1>2. PICK r \in Name, y \in Rid \cup {None} : SetRoleEffect(p, r, y)
  BY SetRoleMoves
<1> USE DEF SetRoleEffect
<1>3. UNCHANGED <<storage, now, acc, accepts, limit, made, gone, overlap, faults>>
  BY DEF SetRole
<1>4. CASE Moved(p, <<>>, {}) /\ UNCHANGED <<inc, outdated>>
  <2>1. EntriesTyped' /\ HistoryTyped'
    BY <1>3, <1>4, StillTyped DEF history
  <2>2. QED BY <1>1, <1>4, <2>1, ShapesStop
<1>5. ASSUME NEW x \in Rid, NEW e \in RoleEntry, NEW w, e.rid = x, inc' \in 1..MaxInc,
             outdated' \in {outdated, outdated \cup {x}}, Moved(p, w, held[p]),
             CallerBody(held[p], w)
      PROVE  Shapes'
  <2>1. EntriesTyped' /\ HistoryTyped'
    BY <1>3, <1>5 DEF storage, Shapes, EntriesTyped, HistoryTyped
  <2>2. QED BY <1>1, <1>5, <2>1, CallerFits, ShapesMove
<1>6. ASSUME NEW x \in Rid, NEW e \in RoleEntry, e.rid = x, inc' \in 1..MaxInc,
             role[Lower[r]] # None /\ role[Lower[r]].rid # x,
             Moved(p, <<<<"delete_role_id", role[Lower[r]].rid, r>>,
                        <<"put_role", r, e>>, <<"set_role_id", x, r>>>>, held[p]),
             outdated' = IF Contested(p, x, Lower[r]) THEN outdated \cup {x} ELSE outdated
      PROVE  Shapes'
  <2> DEFINE o == role[Lower[r]].rid
  <2>1. o \in Rid /\ o # x
    BY <1>6, LowerAssumption DEF Shapes, EntriesTyped, RoleEntry
  <2> HIDE DEF o
  <2>2. CallerBody(held[p], <<<<"delete_role_id", o, r>>, <<"put_role", r, e>>,
                              <<"set_role_id", x, r>>>>)
    BY <1>2, <1>6, <2>1
  <2>3. QED BY <1>5, <1>6, <2>2 DEF o
<1>7. ASSUME NEW x \in Rid, NEW e \in RoleEntry, e.rid = x, inc' \in 1..MaxInc,
             Moved(p, <<<<"put_role", r, e>>, <<"set_role_id", x, r>>>>, held[p]),
             outdated' = IF Contested(p, x, Lower[r]) THEN outdated \cup {x} ELSE outdated
      PROVE  Shapes'
  <2>1. CallerBody(held[p], <<<<"put_role", r, e>>, <<"set_role_id", x, r>>>>)
    BY <1>2, <1>7
  <2>2. QED BY <1>5, <1>7, <2>1
<1>8. ASSUME NEW x \in Rid, NEW e \in RoleEntry, e.rid = x, inc' \in 1..MaxInc,
             Moved(p, <<<<"put_role", r, e>>>>, held[p]), outdated' = outdated
      PROVE  Shapes'
  <2>1. CallerBody(held[p], <<<<"put_role", r, e>>>>)
    BY <1>2, <1>8
  <2>2. QED BY <1>5, <1>8, <2>1
<1>9. QED BY <1>2, <1>4, <1>6, <1>7, <1>8

LEMMA PutRoleShapes ==
  ASSUME Shapes, NEW p \in Callers, PutRole(p)
  PROVE  Shapes'
<1>1. p \in Proc
  BY CallerIsProc
<1>2. PICK r \in Name : PutRoleEffect(p, r)
  BY PutRoleMoves
<1> USE DEF PutRoleEffect
<1>3. EntriesTyped' /\ HistoryTyped'
  <2>1. \E e \in RoleEntry \cup {None} : role' = [role EXCEPT ![Lower[r]] = e]
    BY <1>2
  <2>2. UNCHANGED <<index, secret, accessor, now, inc, acc, history, faults>>
    BY DEF PutRole
  <2>3. QED BY <2>1, <2>2 DEF history, Shapes, EntriesTyped, HistoryTyped
<1>4. ASSUME NEW e \in RoleEntry, Moved(p, <<<<"set_role_id", e.rid, r>>>>, held[p])
      PROVE  Shapes'
  <2> DEFINE x == e.rid
  <2>1. x \in Rid
    BY DEF RoleEntry
  <2> HIDE DEF x
  <2>2. CallerBody(held[p], <<<<"set_role_id", x, r>>>>)
    BY <1>2, <2>1 DEF CallerBody, CallerOps, RoleBody, SecretBody, LoginBody, WriteBody
  <2>3. QED BY <1>1, <1>3, <1>4, <2>2, CallerFits, ShapesMove DEF x
<1>5. QED BY <1>1, <1>2, <1>3, <1>4, ShapesStop

LEMMA SetRoleIdShapes ==
  ASSUME Shapes, NEW p \in Callers, SetRoleId(p)
  PROVE  Shapes'
<1>1. PICK x \in Rid, r \in Name : Moved(p, <<>>, {}) /\ index' = [index EXCEPT ![x] = r]
  BY SetRoleIdMoves
<1>2. UNCHANGED <<role, secret, accessor, now, inc, acc, history, faults>>
  BY DEF SetRoleId
<1>3. EntriesTyped' /\ HistoryTyped'
  BY <1>1, <1>2 DEF history, Shapes, EntriesTyped, HistoryTyped
<1>4. QED BY <1>1, <1>3, CallerIsProc, ShapesStop

LEMMA DeleteRoleIdShapes ==
  ASSUME Shapes, NEW p \in Callers, DeleteRoleId(p)
  PROVE  Shapes'
<1>1. p \in Proc
  BY CallerIsProc
<1>2. PICK x \in Rid, r \in Name : DeleteRoleIdEffect(p, x, r)
  BY DeleteRoleIdMoves
<1> USE DEF DeleteRoleIdEffect
<1>3. UNCHANGED <<role, secret, accessor, now, inc, acc, history, faults>>
  BY DEF DeleteRoleId
<1>4. EntriesTyped' /\ HistoryTyped'
  BY <1>2, <1>3 DEF history, Shapes, EntriesTyped, HistoryTyped
<1>5. CallerBody(held[p], <<<<"put_role", r, None>>>>)
  BY <1>2 DEF CallerBody, CallerOps, RoleBody, SecretBody, LoginBody, WriteBody
<1>6. ASSUME NEW e \in RoleEntry
      PROVE  CallerBody(held[p], <<<<"put_role", r, e>>, <<"set_role_id", e.rid, r>>>>)
  <2> DEFINE y == e.rid
  <2>1. y \in Rid
    BY DEF RoleEntry
  <2>2. CallerBody(held[p], <<<<"put_role", r, e>>, <<"set_role_id", y, r>>>>)
    BY <1>2, <2>1 DEF CallerBody, CallerOps, RoleBody, SecretBody, LoginBody, WriteBody
  <2>3. QED BY <2>2
<1>7. CASE Moved(p, <<<<"put_role", r, None>>>>, held[p])
  BY <1>1, <1>4, <1>5, <1>7, CallerFits, ShapesMove
<1>8. CASE \E e \in RoleEntry :
             Moved(p, <<<<"put_role", r, e>>, <<"set_role_id", e.rid, r>>>>, held[p])
  BY <1>1, <1>4, <1>6, <1>8, CallerFits, ShapesMove
<1>9. QED BY <1>2, <1>7, <1>8

LEMMA DeleteRoleStepShapes ==
  ASSUME Shapes, NEW p \in Callers, DeleteRoleStep(p)
  PROVE  Shapes'
<1>1. p \in Proc
  BY CallerIsProc
<1>2. PICK r \in Name :
        /\ held[p] = {<<r, TRUE>>}
        /\ \/ Moved(p, <<>>, {})
           \/ \E K \in SUBSET Key :
                /\ role[Lower[r]] \in RoleEntry
                /\ Moved(p, <<<<"flush", K>>, <<"delete_role_id", role[Lower[r]].rid, r>>,
                              <<"put_role", r, None>>>>, held[p])
  BY DeleteRoleStepMoves DEF DeleteRoleStepEffect
<1>3. UNCHANGED still
  BY DEF DeleteRoleStep
<1>4. ASSUME NEW K \in SUBSET Key, role[Lower[r]] \in RoleEntry
      PROVE  Fits(p, held[p], <<<<"flush", K>>, <<"delete_role_id", role[Lower[r]].rid, r>>,
                                <<"put_role", r, None>>>>)
  <2> DEFINE x == role[Lower[r]].rid
  <2>1. x \in Rid
    BY <1>4 DEF RoleEntry
  <2> HIDE DEF x
  <2>2. CallerBody(held[p], <<<<"flush", K>>, <<"delete_role_id", x, r>>, <<"put_role", r, None>>>>)
    BY <1>2, <2>1 DEF CallerBody, CallerOps, RoleBody, SecretBody, LoginBody, WriteBody
  <2>3. QED BY <2>2, CallerFits DEF x
<1>5. CASE Moved(p, <<>>, {})
  BY <1>1, <1>3, <1>5, StillTyped, ShapesStop
<1>6. ASSUME NEW K \in SUBSET Key, role[Lower[r]] \in RoleEntry,
             Moved(p, <<<<"flush", K>>, <<"delete_role_id", role[Lower[r]].rid, r>>,
                        <<"put_role", r, None>>>>, held[p])
      PROVE  Shapes'
  BY <1>1, <1>3, <1>4, <1>6, ShapesStay
<1>7. QED BY <1>2, <1>5, <1>6

LEMMA FlushShapes ==
  ASSUME Shapes, NEW p \in Callers, Flush(p)
  PROVE  Shapes'
<1>1. p \in Proc
  BY CallerIsProc
<1>2. PICK K \in SUBSET Key, x \in Rid, r \in Name :
        /\ held[p] = {<<r, TRUE>>}
        /\ \/ Moved(p, <<<<"delete_role_id", x, r>>, <<"put_role", r, None>>>>, held[p])
           \/ \E k \in K :
                Moved(p, <<write(k), <<"delete_secret", k>>, <<"unlock", k>>,
                           <<"flush", K \ {k}>>, <<"delete_role_id", x, r>>,
                           <<"put_role", r, None>>>>, held[p])
  BY FlushMoves DEF FlushEffect
<1>3. UNCHANGED still
  BY DEF Flush, ForEach
<1>4. CallerBody(held[p], <<<<"delete_role_id", x, r>>, <<"put_role", r, None>>>>)
  BY <1>2 DEF CallerBody, CallerOps, RoleBody, SecretBody, LoginBody, WriteBody, ForRole
<1>5. CASE Moved(p, <<<<"delete_role_id", x, r>>, <<"put_role", r, None>>>>, held[p])
  BY <1>1, <1>3, <1>4, <1>5, CallerFits, ShapesStay
<1>6. ASSUME NEW k \in K
      PROVE  Fits(p, held[p], <<write(k), <<"delete_secret", k>>, <<"unlock", k>>,
                                <<"flush", K \ {k}>>, <<"delete_role_id", x, r>>,
                                <<"put_role", r, None>>>>)
  <2> DEFINE L == K \ {k}
             t == <<<<"delete_secret", k>>, <<"unlock", k>>, <<"flush", L>>,
                    <<"delete_role_id", x, r>>, <<"put_role", r, None>>>>
             w == <<<<"lock", k, TRUE>>, <<"delete_secret", k>>, <<"unlock", k>>, <<"flush", L>>,
                    <<"delete_role_id", x, r>>, <<"put_role", r, None>>>>
  <2>1. k \in Key /\ L \in SUBSET Key /\ r \notin Key
    BY NameAssumption
  <2> HIDE DEF L
  <2>2. held[p] \cup {<<k, TRUE>>} = {<<r, TRUE>>, <<k, TRUE>>}
    BY <1>2
  <2>3. CallerBody({<<r, TRUE>>, <<k, TRUE>>}, t)
    BY <2>1 DEF CallerBody, CallerOps, RoleBody, SecretBody, LoginBody, WriteBody
  <2>4. Body(p, held[p] \cup {<<k, TRUE>>}, t)
    BY <2>2, <2>3, CallerFits
  <2>5. w[1] = <<"lock", k, TRUE>> /\ Tail(w) = t /\ Chain(w)
    <3>1. w[1] = <<"lock", k, TRUE>>
      OBVIOUS
    <3>2. Tail(w) = t
      BY Tail6
    <3>3. Chain(w)
      BY Chain6
    <3>4. QED BY <3>1, <3>2, <3>3
  <2>6. Locked(t)
    <3>1. Len(t) = 5 /\ t[1] = <<"delete_secret", k>> /\ t[2] = <<"unlock", k>>
      OBVIOUS
    <3>2. t[1][1] = "delete_secret" /\ t[2][1] = "unlock"
      BY <3>1
    <3> HIDE DEF t
    <3>3. QED BY <3>1, <3>2 DEF Locked
  <2>7. \A h \in held[p] : h[1] \notin Key
    BY <1>2, <2>1
  <2>8. k \notin Name
    BY <2>1, NameAssumption
  <2> HIDE DEF t, w
  <2>9. Locking(p, held[p], w)
    BY <2>1, <2>4, <2>5, <2>6, <2>7, <2>8 DEF Locking
  <2>10. QED BY <2>9, LockingFits DEF w, L, write
<1>7. ASSUME NEW k \in K, Moved(p, <<write(k), <<"delete_secret", k>>, <<"unlock", k>>,
                           <<"flush", K \ {k}>>, <<"delete_role_id", x, r>>,
                           <<"put_role", r, None>>>>, held[p])
      PROVE  Shapes'
  BY <1>1, <1>3, <1>6, <1>7, ShapesStay
<1>8. QED BY <1>2, <1>5, <1>7

LEMMA ReadRoleStepShapes ==
  ASSUME Shapes, NEW p \in Callers, ReadRoleStep(p)
  PROVE  Shapes'
<1>1. p \in Proc
  BY CallerIsProc
<1>2. PICK r \in Name :
        /\ held[p] = {<<r, FALSE>>}
        /\ \/ Moved(p, <<>>, {})
           \/ \E x \in Rid :
                Moved(p, <<<<"unlock", r>>, write(r), <<"repair", x, r>>>>, held[p])
  BY ReadRoleStepMoves
<1>3. UNCHANGED still
  BY DEF ReadRoleStep
<1>4. CASE Moved(p, <<>>, {})
  BY <1>1, <1>3, <1>4, StillTyped, ShapesStop
<1>5. ASSUME NEW x \in Rid
      PROVE  Fits(p, held[p], <<<<"unlock", r>>, write(r), <<"repair", x, r>>>>)
  <2> DEFINE t == <<<<"lock", r, TRUE>>, <<"repair", x, r>>>>
             w == <<<<"unlock", r>>, <<"lock", r, TRUE>>, <<"repair", x, r>>>>
  <2>1. Without(held[p], r) = {}
    BY <1>2, WithoutAll
  <2>2. {} \cup {<<r, TRUE>>} = {<<r, TRUE>>}
    OBVIOUS
  <2>3. CallerBody({<<r, TRUE>>}, <<<<"repair", x, r>>>>) /\ Locked(<<<<"repair", x, r>>>>)
    BY DEF CallerBody, CallerOps, RoleBody, SecretBody, LoginBody, WriteBody, Locked
  <2>4. Body(p, {} \cup {<<r, TRUE>>}, <<<<"repair", x, r>>>>)
    BY <2>2, <2>3, CallerFits
  <2>5. t[1] = <<"lock", r, TRUE>> /\ Tail(t) = <<<<"repair", x, r>>>> /\ Chain(t)
    BY Tail2, Chain2
  <2>6. w[1] = <<"unlock", r>> /\ Tail(w) = t /\ Chain(w)
    BY Tail3, Chain3
  <2> HIDE DEF t, w
  <2>7. Locking(p, {}, t)
    BY <2>3, <2>4, <2>5 DEF Locking
  <2>8. Unlocking(p, held[p], w)
    BY <2>1, <2>6, <2>7 DEF Unlocking
  <2>9. QED BY <2>8, UnlockingFits DEF w, write
<1>6. ASSUME NEW x \in Rid, Moved(p, <<<<"unlock", r>>, write(r), <<"repair", x, r>>>>, held[p])
      PROVE  Shapes'
  BY <1>1, <1>3, <1>5, <1>6, ShapesStay
<1>7. QED BY <1>2, <1>4, <1>6

LEMMA RepairShapes ==
  ASSUME Shapes, NEW p \in Callers, Repair(p)
  PROVE  Shapes'
<1>1. p \in Proc
  BY CallerIsProc
<1>2. PICK x \in Rid, r \in Name : RepairEffect(p, x, r)
  BY RepairMoves
<1>3. EntriesTyped' /\ HistoryTyped'
  <2>1. outdated' \in {outdated, outdated \cup {x}}
    BY <1>2 DEF RepairEffect
  <2>2. UNCHANGED <<storage, now, inc, acc, accepts, limit, made, gone, overlap, faults>>
    BY DEF Repair
  <2>3. QED BY <2>1, <2>2 DEF storage, Shapes, EntriesTyped, HistoryTyped
<1> DEFINE n == Lower[r] w == <<<<"set_role_id", x, n>>>>
<1>4. CallerBody(held[p], w)
  <2>1. n \in Name /\ Lower[n] = n
    BY LowerAssumption
  <2>2. ForRole(held[p], n)
    BY <1>2, <2>1 DEF ForRole, RepairEffect
  <2> HIDE DEF n
  <2>3. QED BY <2>1, <2>2 DEF CallerBody, CallerOps, RoleBody, SecretBody, LoginBody, WriteBody
<1>5. Moved(p, <<>>, {}) \/ Moved(p, w, held[p])
  BY <1>2 DEF RepairEffect
<1> HIDE DEF w
<1>6. QED BY <1>1, <1>3, <1>4, <1>5, CallerFits, ShapesMove, ShapesStop

(* Steps of the secret ids.  A task that has its role asks for the lock of  *)
(* a secret id.                                                             *)
LEMMA NextShapes ==
  ASSUME Shapes, NEW p \in Callers, NEW r \in Name, NEW b \in BOOLEAN, NEW k \in Key, NEW x,
         held[p] = {<<r, b>>}, CallerBody({<<r, b>>, <<k, TRUE>>}, <<x>>), Locked(<<x>>),
         Moved(p, <<write(k), x>>, held[p]), UNCHANGED still
  PROVE  Shapes'
<1>1. {<<r, b>>} \cup {<<k, TRUE>>} = {<<r, b>>, <<k, TRUE>>}
  OBVIOUS
<1>2. CallerBody(held[p] \cup {<<k, TRUE>>}, <<x>>)
  BY <1>1
<1>3. k \notin Name /\ r \notin Key
  BY NameAssumption
<1>4. \A h \in held[p] : h[1] \notin Key
  BY <1>3
<1>5. Fits(p, held[p], <<<<"lock", k, TRUE>>, x>>)
  BY <1>2, <1>3, <1>4, AsksLock
<1>6. QED BY <1>5, CallerIsProc, ShapesStay DEF write

LEMMA OnSecretShapes ==
  ASSUME Shapes, NEW p \in Callers, DestroyStep(p) \/ LookupStep(p)
  PROVE  Shapes'
<1>1. UNCHANGED still
  BY DEF DestroyStep, LookupStep, OnSecret
<1>2. PICK r \in Name, op \in {"destroy_entry", "lookup_entry"} :
        /\ held[p] = {<<r, FALSE>>}
        /\ \/ Moved(p, <<>>, {})
           \/ \E k \in Key : Moved(p, <<write(k), <<op, k>>>>, held[p])
  BY DestroyStepMoves, LookupStepMoves
<1>3. ASSUME NEW k \in Key
      PROVE  CallerBody({<<r, FALSE>>, <<k, TRUE>>}, <<<<op, k>>>>) /\ Locked(<<<<op, k>>>>)
  BY DEF CallerBody, CallerOps, RoleBody, SecretBody, LoginBody, WriteBody, Locked
<1>4. CASE Moved(p, <<>>, {})
  BY <1>1, <1>4, CallerIsProc, StillTyped, ShapesStop
<1>5. CASE \E k \in Key : Moved(p, <<write(k), <<op, k>>>>, held[p])
  BY <1>1, <1>2, <1>3, <1>5, NextShapes
<1>6. QED BY <1>2, <1>4, <1>5

LEMMA RegisterStepShapes ==
  ASSUME Shapes, NEW p \in Callers, RegisterStep(p)
  PROVE  Shapes'
<1>1. UNCHANGED still
  BY DEF RegisterStep
<1>2. PICK r \in Name, u \in 0..MaxUses, ttl \in 0..1 :
        /\ held[p] = {<<r, FALSE>>}
        /\ \/ Moved(p, <<>>, {})
           \/ \E k \in Key : Moved(p, <<write(k), <<"register_entry", k, u, ttl>>>>, held[p])
  BY RegisterStepMoves
<1>3. ASSUME NEW k \in Key
      PROVE  /\ CallerBody({<<r, FALSE>>, <<k, TRUE>>}, <<<<"register_entry", k, u, ttl>>>>)
             /\ Locked(<<<<"register_entry", k, u, ttl>>>>)
  BY DEF CallerBody, CallerOps, RoleBody, SecretBody, LoginBody, WriteBody, Locked
<1>4. CASE Moved(p, <<>>, {})
  BY <1>1, <1>4, CallerIsProc, StillTyped, ShapesStop
<1>5. CASE \E k \in Key : Moved(p, <<write(k), <<"register_entry", k, u, ttl>>>>, held[p])
  BY <1>1, <1>2, <1>3, <1>5, NextShapes
<1>6. QED BY <1>2, <1>4, <1>5

LEMMA RegisterEntryShapes ==
  ASSUME Shapes, NEW p \in Callers, RegisterEntry(p)
  PROVE  Shapes'
<1>1. UNCHANGED <<role, index, secret, now, inc, accepts, gone, outdated, faults>>
  BY DEF RegisterEntry
<1>2. PICK r \in Name, k \in Key, u \in 0..MaxUses, ttl \in 0..1 :
        RegisterEntryEffect(p, r, k, u, ttl)
  BY RegisterEntryMoves
<1> USE DEF RegisterEntryEffect
<1>3. CASE Moved(p, <<>>, {}) /\ UNCHANGED <<accessor, acc, limit, made, overlap>>
  BY <1>1, <1>3, CallerIsProc, StillTyped, ShapesStop DEF storage, history
<1>4. ASSUME NEW a \in Acc, NEW e \in SecretEntry, acc' = a,
             accessor' = [accessor EXCEPT ![a] = k],
             limit' = [limit EXCEPT ![a] = u], made' = [made EXCEPT ![a] = k],
             overlap' = IF work[Tidy] = <<>> THEN overlap ELSE overlap \cup {a},
             Moved(p, <<<<"put_secret", k, e>>>>, held[p])
      PROVE  Shapes'
  <2>1. EntriesTyped'
    BY <1>1, <1>4 DEF Shapes, EntriesTyped
  <2>2. HistoryTyped'
    BY <1>1, <1>4 DEF Shapes, HistoryTyped
  <2>3. CallerBody(held[p], <<<<"put_secret", k, e>>>>)
    BY <1>2 DEF CallerBody, CallerOps, RoleBody, SecretBody, LoginBody, WriteBody
  <2>4. QED BY <1>4, <2>1, <2>2, <2>3, BodyMove
<1>5. QED BY <1>2, <1>3, <1>4

LEMMA PutSecretShapes ==
  ASSUME Shapes, NEW p \in Callers, PutSecret(p)
  PROVE  Shapes'
<1>1. UNCHANGED <<role, index, accessor, now, inc, acc, accepts, limit, made, gone, outdated,
                  faults>>
  BY DEF PutSecret
<1>2. PICK k \in Key, e \in SecretEntry :
        /\ secret' = [secret EXCEPT ![k] = e]
        /\ overlap' = IF work[Tidy] = <<>> \/ secret[k] # None THEN overlap
                      ELSE overlap \cup {e.acc}
        /\ \/ Moved(p, <<>>, {})
           \/ \E g \in SUBSET Acc :
                held[p] = {<<k, TRUE>>} /\ Moved(p, <<<<"accept", e.acc, g>>>>, held[p])
  BY PutSecretMoves DEF PutSecretEffect
<1>3. e.acc \in Acc
  BY DEF SecretEntry
<1>4. EntriesTyped' /\ HistoryTyped'
  BY <1>1, <1>2, <1>3 DEF Shapes, EntriesTyped, HistoryTyped
<1>5. CASE Moved(p, <<>>, {})
  BY <1>4, <1>5, CallerIsProc, ShapesStop
<1>6. ASSUME NEW g \in SUBSET Acc, held[p] = {<<k, TRUE>>},
             Moved(p, <<<<"accept", e.acc, g>>>>, held[p])
      PROVE  Shapes'
  <2> DEFINE a == e.acc
  <2>1. CallerBody(held[p], <<<<"accept", a, g>>>>)
    <3> HIDE DEF a
    <3>1. a \in Acc
      BY <1>3 DEF a
    <3>2. QED BY <1>6, <3>1 DEF CallerBody, CallerOps, RoleBody, SecretBody, LoginBody, WriteBody
  <2> HIDE DEF a
  <2>2. Moved(p, <<<<"accept", a, g>>>>, held[p])
    BY <1>6 DEF a
  <2>3. QED BY <1>4, <2>1, <2>2, BodyMove
<1>7. QED BY <1>2, <1>5, <1>6

LEMMA DestroyEntryShapes ==
  ASSUME Shapes, NEW p \in Callers, DestroyEntry(p)
  PROVE  Shapes'
<1>1. UNCHANGED still
  BY DEF DestroyEntry
<1>2. PICK r \in Name, k \in Key :
        /\ held[p] = {<<r, FALSE>>, <<k, TRUE>>}
        /\ \/ Moved(p, <<>>, {})
           \/ /\ secret[k] \in SecretEntry
              /\ Moved(p, <<<<"delete_accessor", secret[k].acc>>, <<"delete_secret", k>>>>, held[p])
  BY DestroyEntryMoves DEF DestroyEntryEffect
<1>3. ASSUME NEW a \in Acc
      PROVE  CallerBody(held[p], <<<<"delete_accessor", a>>, <<"delete_secret", k>>>>)
  BY <1>2 DEF CallerBody, CallerOps, RoleBody, SecretBody, LoginBody, WriteBody
<1>4. CASE Moved(p, <<>>, {})
  BY <1>1, <1>4, CallerIsProc, StillTyped, ShapesStop
<1>5. CASE /\ secret[k] \in SecretEntry
           /\ Moved(p, <<<<"delete_accessor", secret[k].acc>>, <<"delete_secret", k>>>>, held[p])
  <2>1. secret[k].acc \in Acc
    BY <1>5 DEF SecretEntry
  <2>2. Fits(p, held[p], <<<<"delete_accessor", secret[k].acc>>, <<"delete_secret", k>>>>)
    BY <1>3, <2>1, CallerFits
  <2>3. QED BY <1>1, <1>5, <2>2, CallerIsProc, ShapesStay
<1>6. QED BY <1>2, <1>4, <1>5

LEMMA LookupEntryShapes ==
  ASSUME Shapes, NEW p \in Callers, LookupEntry(p)
  PROVE  Shapes'
<1>1. UNCHANGED still
  BY DEF LookupEntry
<1>2. PICK r \in Name, k \in Key :
        /\ held[p] = {<<r, FALSE>>, <<k, TRUE>>}
        /\ Moved(p, <<>>, {}) \/ Moved(p, <<<<"delete_secret", k>>>>, held[p])
  BY LookupEntryMoves
<1>3. CallerBody(held[p], <<<<"delete_secret", k>>>>)
  BY <1>2 DEF CallerBody, CallerOps, RoleBody, SecretBody, LoginBody, WriteBody
<1>4. QED BY <1>1, <1>2, <1>3, CallerIsProc, CallerFits, StillTyped, ShapesStop, ShapesStay

LEMMA DestroyAccessorStepShapes ==
  ASSUME Shapes, NEW p \in Callers, DestroyAccessorStep(p)
  PROVE  Shapes'
<1>1. UNCHANGED still
  BY DEF DestroyAccessorStep
<1>2. PICK r \in Name, a \in Acc :
        /\ held[p] = {<<r, TRUE>>}
        /\ \/ Moved(p, <<>>, {})
           \/ \E k \in Key : Moved(p, <<write(k), <<"destroy_found", k, a>>>>, held[p])
  BY DestroyAccessorStepMoves
<1>3. ASSUME NEW k \in Key
      PROVE  /\ CallerBody({<<r, TRUE>>, <<k, TRUE>>}, <<<<"destroy_found", k, a>>>>)
             /\ Locked(<<<<"destroy_found", k, a>>>>)
  BY DEF CallerBody, CallerOps, RoleBody, SecretBody, LoginBody, WriteBody, Locked
<1>4. CASE Moved(p, <<>>, {})
  BY <1>1, <1>4, CallerIsProc, StillTyped, ShapesStop
<1>5. CASE \E k \in Key : Moved(p, <<write(k), <<"destroy_found", k, a>>>>, held[p])
  BY <1>1, <1>2, <1>3, <1>5, NextShapes
<1>6. QED BY <1>2, <1>4, <1>5

LEMMA DestroyFoundShapes ==
  ASSUME Shapes, NEW p \in Callers, DestroyFound(p)
  PROVE  Shapes'
<1>1. UNCHANGED still
  BY DEF DestroyFound
<1>2. PICK r \in Name, k \in Key, a \in Acc :
        /\ held[p] = {<<r, TRUE>>, <<k, TRUE>>}
        /\ \/ Moved(p, <<>>, {})
           \/ Moved(p, <<<<"delete_accessor", a>>, <<"delete_secret", k>>>>, held[p])
  BY DestroyFoundMoves DEF DestroyFoundEffect
<1>3. CallerBody(held[p], <<<<"delete_accessor", a>>, <<"delete_secret", k>>>>)
  BY <1>2 DEF CallerBody, CallerOps, RoleBody, SecretBody, LoginBody, WriteBody
<1>4. CASE Moved(p, <<>>, {})
  BY <1>1, <1>4, CallerStops
<1>5. CASE Moved(p, <<<<"delete_accessor", a>>, <<"delete_secret", k>>>>, held[p])
  BY <1>1, <1>3, <1>5, BodyStay
<1>6. QED BY <1>2, <1>4, <1>5

(* Steps of a login. *)
LEMMA LoginIndexShapes ==
  ASSUME Shapes, NEW p \in Callers, LoginIndex(p)
  PROVE  Shapes'
<1>1. UNCHANGED still
  BY DEF LoginIndex
<1>2. PICK s \in Sid, g \in SUBSET Acc :
        /\ held[p] = {}
        /\ \/ Moved(p, <<>>, {})
           \/ \E r \in Name : Moved(p, <<read(r), <<"login_role", r, s, g>>>>, held[p])
  BY LoginIndexMoves
<1>3. ASSUME NEW r \in Name
      PROVE  Fits(p, held[p], <<<<"lock", r, FALSE>>, <<"login_role", r, s, g>>>>)
  <2>1. {} \cup {<<r, FALSE>>} = {<<r, FALSE>>}
    OBVIOUS
  <2>2. /\ CallerBody({<<r, FALSE>>}, <<<<"login_role", r, s, g>>>>)
        /\ Locked(<<<<"login_role", r, s, g>>>>)
    BY DEF CallerBody, CallerOps, RoleBody, SecretBody, LoginBody, WriteBody, Locked
  <2>3. CallerBody({} \cup {<<r, FALSE>>}, <<<<"login_role", r, s, g>>>>)
    BY <2>1, <2>2
  <2>4. QED BY <1>2, <2>2, <2>3, AsksLock
<1>4. CASE Moved(p, <<>>, {})
  BY <1>1, <1>4, CallerIsProc, StillTyped, ShapesStop
<1>5. CASE \E r \in Name : Moved(p, <<read(r), <<"login_role", r, s, g>>>>, held[p])
  BY <1>1, <1>3, <1>5, CallerIsProc, ShapesStay DEF read
<1>6. QED BY <1>2, <1>4, <1>5

(* A lock is given up for another. *)
LEMMA SwitchFits ==
  ASSUME NEW p \in Callers, NEW l \in Name \cup Key, NEW c \in BOOLEAN,
         NEW k \in Name \cup Key, NEW b \in BOOLEAN, NEW x,
         CallerBody({<<k, b>>}, <<x>>), Locked(<<x>>)
  PROVE  Fits(p, {<<l, c>>}, <<<<"unlock", l>>, <<"lock", k, b>>, x>>)
<1> DEFINE t == <<<<"lock", k, b>>, x>>
           w == <<<<"unlock", l>>, <<"lock", k, b>>, x>>
<1>1. Without({<<l, c>>}, l) = {}
  BY WithoutAll
<1>2. {} \cup {<<k, b>>} = {<<k, b>>}
  OBVIOUS
<1>3. Body(p, {} \cup {<<k, b>>}, <<x>>)
  BY <1>2, CallerFits
<1>4. t[1] = <<"lock", k, b>> /\ Tail(t) = <<x>> /\ Chain(t)
  BY Tail2, Chain2
<1>5. w[1] = <<"unlock", l>> /\ Tail(w) = t /\ Chain(w)
  BY Tail3, Chain3
<1> HIDE DEF t, w
<1>6. Locking(p, {}, t)
  BY <1>3, <1>4 DEF Locking
<1>7. Unlocking(p, {<<l, c>>}, w)
  BY <1>1, <1>5, <1>6 DEF Unlocking
<1>8. QED BY <1>7, UnlockingFits DEF w

LEMMA LoginRoleShapes ==
  ASSUME Shapes, NEW p \in Callers, LoginRole(p)
  PROVE  Shapes'
<1>1. UNCHANGED still
  BY DEF LoginRole
<1>2. PICK r \in Name, s \in Sid, g \in SUBSET Acc :
        /\ held[p] = {<<r, FALSE>>}
        /\ \/ Moved(p, <<>>, {})
           \/ \E k \in Key :
                Moved(p, <<<<"unlock", r>>, read(k), <<"login_secret", k, g>>>>, held[p])
  BY LoginRoleMoves
<1>3. ASSUME NEW k \in Key
      PROVE  Fits(p, held[p], <<<<"unlock", r>>, <<"lock", k, FALSE>>, <<"login_secret", k, g>>>>)
  <2>1. CallerBody({<<k, FALSE>>}, <<<<"login_secret", k, g>>>>) /\ Locked(<<<<"login_secret", k, g>>>>)
    BY DEF CallerBody, CallerOps, RoleBody, SecretBody, LoginBody, WriteBody, Locked
  <2>2. QED BY <1>2, <2>1, SwitchFits
<1>4. CASE Moved(p, <<>>, {})
  BY <1>1, <1>4, CallerIsProc, StillTyped, ShapesStop
<1>5. CASE \E k \in Key : Moved(p, <<<<"unlock", r>>, read(k), <<"login_secret", k, g>>>>, held[p])
  BY <1>1, <1>3, <1>5, CallerIsProc, ShapesStay DEF read
<1>6. QED BY <1>2, <1>4, <1>5

LEMMA LoginSecretShapes ==
  ASSUME Shapes, NEW p \in Callers, LoginSecret(p)
  PROVE  Shapes'
<1>1. UNCHANGED still
  BY DEF LoginSecret
<1>2. PICK k \in Key, g \in SUBSET Acc :
        /\ held[p] = {<<k, FALSE>>}
        /\ \/ Moved(p, <<>>, {})
           \/ Moved(p, <<<<"delete_secret", k>>>>, held[p])
           \/ \E e \in SecretEntry :
                \/ Moved(p, <<<<"accept", e.acc, g>>>>, held[p])
                \/ Moved(p, <<<<"unlock", k>>, write(k), <<"login_use", k, g>>>>, held[p])
  BY LoginSecretMoves DEF LoginSecretEffect
<1>3. Fits(p, held[p], <<<<"unlock", k>>, write(k), <<"login_use", k, g>>>>)
  <2>1. CallerBody({<<k, TRUE>>}, <<<<"login_use", k, g>>>>) /\ Locked(<<<<"login_use", k, g>>>>)
    BY DEF CallerBody, CallerOps, RoleBody, SecretBody, LoginBody, WriteBody, Locked
  <2>2. QED BY <1>2, <2>1, SwitchFits DEF write
<1>4. Fits(p, held[p], <<<<"delete_secret", k>>>>)
  <2>1. CallerBody(held[p], <<<<"delete_secret", k>>>>)
    BY <1>2 DEF CallerBody, CallerOps, RoleBody, SecretBody, LoginBody, WriteBody
  <2>2. QED BY <2>1, CallerFits
<1>5. ASSUME NEW a \in Acc PROVE Fits(p, held[p], <<<<"accept", a, g>>>>)
  <2>1. CallerBody(held[p], <<<<"accept", a, g>>>>)
    BY <1>2 DEF CallerBody, CallerOps, RoleBody, SecretBody, LoginBody, WriteBody
  <2>2. QED BY <2>1, CallerFits
<1>6. CASE Moved(p, <<>>, {})
  BY <1>1, <1>6, CallerIsProc, StillTyped, ShapesStop
<1>7. CASE Moved(p, <<<<"delete_secret", k>>>>, held[p])
  BY <1>1, <1>4, <1>7, CallerIsProc, ShapesStay
<1>8. ASSUME NEW e \in SecretEntry, Moved(p, <<<<"accept", e.acc, g>>>>, held[p])
      PROVE  Shapes'
  <2>1. e.acc \in Acc
    BY DEF SecretEntry
  <2>2. QED BY <1>1, <1>5, <1>8, <2>1, CallerIsProc, ShapesStay
<1>9. CASE Moved(p, <<<<"unlock", k>>, write(k), <<"login_use", k, g>>>>, held[p])
  BY <1>1, <1>3, <1>9, CallerIsProc, ShapesStay
<1>10. QED BY <1>2, <1>6, <1>7, <1>8, <1>9

LEMMA LoginUseShapes ==
  ASSUME Shapes, NEW p \in Callers, LoginUse(p)
  PROVE  Shapes'
<1>1. UNCHANGED still
  BY DEF LoginUse
<1>2. PICK k \in Key, g \in SUBSET Acc :
        /\ held[p] = {<<k, TRUE>>}
        /\ \/ Moved(p, <<>>, {})
           \/ \E e \in SecretEntry :
                \/ Moved(p, <<<<"delete_accessor", e.acc>>, <<"delete_secret", k>>,
                              <<"accept", e.acc, g>>>>, held[p])
                \/ \E f \in SecretEntry :
                     Moved(p, <<<<"put_secret", k, f>>, <<"accept", f.acc, g>>>>, held[p])
  BY LoginUseMoves DEF LoginUseEffect
<1>3. ASSUME NEW a \in Acc
      PROVE  CallerBody(held[p], <<<<"delete_accessor", a>>, <<"delete_secret", k>>,
                                   <<"accept", a, g>>>>)
  BY <1>2 DEF CallerBody, CallerOps, RoleBody, SecretBody, LoginBody, WriteBody
<1>4. ASSUME NEW f \in SecretEntry
      PROVE  CallerBody(held[p], <<<<"put_secret", k, f>>, <<"accept", f.acc, g>>>>)
  <2> DEFINE w == <<<<"put_secret", k, f>>, <<"accept", f.acc, g>>>>
  <2>1. w[1][3] = f /\ w[1][1] = "put_secret" /\ w # <<>>
    OBVIOUS
  <2>2. w = <<<<"put_secret", k, w[1][3]>>, <<"accept", w[1][3].acc, g>>>>
    BY <2>1
  <2> HIDE DEF w
  <2>3. WriteBody(held[p], w)
    BY <1>2, <2>1, <2>2 DEF WriteBody
  <2>4. RoleBody(held[p], w) /\ SecretBody(held[p], w) /\ LoginBody(held[p], w)
    BY <2>1 DEF RoleBody, SecretBody, LoginBody
  <2>5. QED BY <2>1, <2>3, <2>4 DEF CallerBody, CallerOps, w
<1>5. CASE Moved(p, <<>>, {})
  BY <1>1, <1>5, CallerIsProc, StillTyped, ShapesStop
<1>6. ASSUME NEW e \in SecretEntry,
             Moved(p, <<<<"delete_accessor", e.acc>>, <<"delete_secret", k>>,
                        <<"accept", e.acc, g>>>>, held[p])
      PROVE  Shapes'
  <2>1. e.acc \in Acc
    BY DEF SecretEntry
  <2>2. Fits(p, held[p], <<<<"delete_accessor", e.acc>>, <<"delete_secret", k>>,
                           <<"accept", e.acc, g>>>>)
    BY <1>3, <2>1, CallerFits
  <2>3. QED BY <1>1, <1>6, <2>2, CallerIsProc, ShapesStay
<1>7. ASSUME NEW f \in SecretEntry,
             Moved(p, <<<<"put_secret", k, f>>, <<"accept", f.acc, g>>>>, held[p])
      PROVE  Shapes'
  <2>1. Fits(p, held[p], <<<<"put_secret", k, f>>, <<"accept", f.acc, g>>>>)
    BY <1>4, CallerFits
  <2>2. QED BY <1>1, <1>7, <2>1, CallerIsProc, ShapesStay
<1>8. QED BY <1>2, <1>5, <1>6, <1>7

LEMMA AcceptShapes ==
  ASSUME Shapes, NEW p \in Callers, Accept(p)
  PROVE  Shapes'
<1>1. PICK a \in Acc : Moved(p, <<>>, {}) /\ accepts' = [accepts EXCEPT ![a] = @ + 1]
  BY AcceptMoves
<1>2. UNCHANGED <<storage, now, inc, acc, limit, made, gone, overlap, outdated, faults>>
  BY DEF Accept
<1>3. EntriesTyped' /\ HistoryTyped'
  BY <1>1, <1>2 DEF storage, Shapes, EntriesTyped, HistoryTyped
<1>4. QED BY <1>1, <1>3, CallerIsProc, ShapesStop

LEMMA DeleteAccessorCallerShapes ==
  ASSUME Shapes, NEW p \in Callers, DeleteAccessor(p)
  PROVE  Shapes'
<1> USE DEF CallerBody, CallerOps, RoleBody, SecretBody, LoginBody, WriteBody
<1>1. UNCHANGED <<role, index, secret, now, inc, acc, accepts, limit, made, overlap, outdated,
                  faults>>
  BY DEF DeleteAccessor
<1>2. PICK k \in Key, a \in Acc :
        /\ accessor' = [accessor EXCEPT ![a] = None] /\ gone' = gone \cup {a}
        /\ \/ \E r \in Name, b \in BOOLEAN :
                /\ held[p] = {<<r, b>>, <<k, TRUE>>}
                /\ Moved(p, <<<<"delete_secret", k>>>>, held[p])
           \/ \E g \in SUBSET Acc :
                /\ held[p] = {<<k, TRUE>>}
                /\ Moved(p, <<<<"delete_secret", k>>, <<"accept", a, g>>>>, held[p])
  BY DeleteAccessorCaller DEF DeleteAccessorEffect
<1>3. EntriesTyped' /\ HistoryTyped'
  BY <1>1, <1>2 DEF Shapes, EntriesTyped, HistoryTyped
<1>4. ASSUME NEW r \in Name, NEW b \in BOOLEAN, held[p] = {<<r, b>>, <<k, TRUE>>},
             Moved(p, <<<<"delete_secret", k>>>>, held[p])
      PROVE  Shapes'
  <2>1. CallerBody(held[p], <<<<"delete_secret", k>>>>)
    BY <1>4
  <2>2. QED BY <1>3, <1>4, <2>1, BodyMove
<1>5. ASSUME NEW g \in SUBSET Acc, held[p] = {<<k, TRUE>>},
             Moved(p, <<<<"delete_secret", k>>, <<"accept", a, g>>>>, held[p])
      PROVE  Shapes'
  <2>1. CallerBody(held[p], <<<<"delete_secret", k>>, <<"accept", a, g>>>>)
    BY <1>5
  <2>2. QED BY <1>3, <1>5, <2>1, BodyMove
<1>6. QED BY <1>2, <1>4, <1>5

LEMMA DeleteSecretTyped ==
  ASSUME Shapes, NEW p, DeleteSecret(p), NEW k \in Key, secret' = [secret EXCEPT ![k] = None],
         gone' = IF secret[k] = None THEN gone ELSE gone \cup {secret[k].acc}
  PROVE  EntriesTyped' /\ HistoryTyped'
<1>1. UNCHANGED <<role, index, accessor, now, inc, acc, accepts, limit, made, overlap, outdated,
                  faults>>
  BY DEF DeleteSecret
<1>2. secret[k] # None => secret[k].acc \in Acc
  BY DEF Shapes, EntriesTyped, SecretEntry
<1>3. gone' \subseteq Acc
  BY <1>2 DEF Shapes, HistoryTyped
<1>4. QED BY <1>1, <1>3 DEF Shapes, EntriesTyped, HistoryTyped

LEMMA DeleteSecretCallerShapes ==
  ASSUME Shapes, NEW p \in Callers, DeleteSecret(p)
  PROVE  Shapes'
<1>1. p \in Proc
  BY CallerIsProc
<1>2. PICK k \in Key :
        /\ secret' = [secret EXCEPT ![k] = None]
        /\ gone' = IF secret[k] = None THEN gone ELSE gone \cup {secret[k].acc}
        /\ \/ Moved(p, <<>>, {})
           \/ \E a \in Acc, g \in SUBSET Acc :
                held[p] = {<<k, TRUE>>} /\ Moved(p, <<<<"accept", a, g>>>>, held[p])
           \/ \E K \in SUBSET Key, o \in Rid, r \in Name :
                /\ held[p] = {<<r, TRUE>>, <<k, TRUE>>}
                /\ Moved(p, <<<<"unlock", k>>, <<"flush", K>>, <<"delete_role_id", o, r>>,
                              <<"put_role", r, None>>>>, held[p])
  BY DeleteSecretCaller DEF DeleteSecretEffect
<1>3. EntriesTyped' /\ HistoryTyped'
  BY <1>2, DeleteSecretTyped
<1>4. CASE Moved(p, <<>>, {})
  BY <1>1, <1>3, <1>4, ShapesStop
<1>5. ASSUME NEW a \in Acc, NEW g \in SUBSET Acc, held[p] = {<<k, TRUE>>},
             Moved(p, <<<<"accept", a, g>>>>, held[p])
      PROVE  Shapes'
  <2>1. CallerBody(held[p], <<<<"accept", a, g>>>>)
    BY <1>5 DEF CallerBody, CallerOps, RoleBody, SecretBody, LoginBody, WriteBody
  <2>2. QED BY <1>3, <1>5, <2>1, BodyMove
<1>6. ASSUME NEW K \in SUBSET Key, NEW o \in Rid, NEW r \in Name,
             held[p] = {<<r, TRUE>>, <<k, TRUE>>},
             Moved(p, <<<<"unlock", k>>, <<"flush", K>>, <<"delete_role_id", o, r>>,
                        <<"put_role", r, None>>>>, held[p])
      PROVE  Shapes'
  <2> DEFINE t == <<<<"flush", K>>, <<"delete_role_id", o, r>>, <<"put_role", r, None>>>>
             w == <<<<"unlock", k>>, <<"flush", K>>, <<"delete_role_id", o, r>>,
                    <<"put_role", r, None>>>>
  <2>1. r # k
    BY NameAssumption
  <2>2. Without(held[p], k) = {<<r, TRUE>>}
    BY <1>6, <2>1, WithoutSecond
  <2>3. CallerBody({<<r, TRUE>>}, t)
    BY DEF CallerBody, CallerOps, RoleBody, SecretBody, LoginBody, WriteBody
  <2>4. t[1][1] = "flush"
    OBVIOUS
  <2>5. w[1] = <<"unlock", k>>
    OBVIOUS
  <2>6. Tail(w) = t
    BY Tail4
  <2>7. Chain(w)
    BY Chain4
  <2> HIDE DEF t, w
  <2>8. Body(p, Without(held[p], k), t)
    BY <2>2, <2>3, CallerFits
  <2>9. Unlocking(p, held[p], w)
    BY <2>4, <2>5, <2>6, <2>7, <2>8 DEF Unlocking
  <2>10. Fits(p, held[p], w)
    BY <2>9, UnlockingFits
  <2>11. QED BY <1>1, <1>3, <1>6, <2>10, ShapesMove DEF w
<1>7. QED BY <1>2, <1>4, <1>5, <1>6

(* Steps of tidying. *)
LEMMA TidyIsProc ==
  Tidy \in Proc
  BY DEF Proc

LEMMA TidyMove ==
  ASSUME Shapes, NEW w, Moved(Tidy, w, held[Tidy]), Fits(Tidy, held[Tidy], w),
         UNCHANGED still
  PROVE  Shapes'
  BY TidyIsProc, ShapesStay

LEMMA TidyStartShapes ==
  ASSUME Shapes, TidyStart
  PROVE  Shapes'
<1> DEFINE E == {k \in Stored : Expired(k)} O == {a \in Acc : Orphan(a)}
<1>1. Request(Tidy, <<<<"tidy", E, O>>>>)
  BY DEF TidyStart
<1>2. E \in SUBSET Key /\ O \in SUBSET Acc
  BY DEF Stored
<1> HIDE DEF E, O
<1>3. TidyBody({}, <<<<"tidy", E, O>>>>)
  BY <1>2 DEF TidyBody, TidyOps
<1>4. held[Tidy] = {} /\ Moved(Tidy, <<<<"tidy", E, O>>>>, {})
  BY <1>1, TidyIsProc, RequestMoves
<1>5. UNCHANGED still
  BY <1>1 DEF Request
<1>6. QED BY <1>3, <1>4, <1>5, TidyFits, TidyMove

LEMMA TidyListShapes ==
  ASSUME Shapes, TidyList
  PROVE  Shapes'
<1>1. UNCHANGED still
  BY DEF TidyList
<1>2. PICK E \in SUBSET Key, O \in SUBSET Acc, f \in Found, R \in SUBSET (1..MaxInc) :
        /\ held[Tidy] = {}
        /\ Moved(Tidy, <<<<"cleanup", Stored>>, <<"tidy_rest", f, {}, R>>, <<"tidied", E, O>>>>, {})
  BY TidyListMoves DEF TidyListEffect
<1> DEFINE x == <<"cleanup", Stored>> y == <<"tidy_rest", f, {}, R>> z == <<"tidied", E, O>>
           w == <<x, y, z>>
<1>3. CleanupRests(x, y, z)
  <2>1. Stored \in SUBSET Key /\ {} \in SUBSET Acc
    BY DEF Stored
  <2>2. QED BY <2>1 DEF CleanupRests
<1>4. x[1] = "cleanup"
  OBVIOUS
<1> HIDE DEF x, y, z
<1>5. Len(w) = 3 /\ w # <<>> /\ w[1] = x /\ w[2] = y /\ w[3] = z
  OBVIOUS
<1>6. w = <<w[1], w[2], w[3]>>
  BY <1>5
<1> HIDE DEF w
<1>7. TidyBody({}, w)
  BY <1>3, <1>4, <1>5, <1>6 DEF TidyBody, TidyOps
<1>8. QED BY <1>1, <1>2, <1>7, TidyFits, TidyMove DEF w, x, y, z

(* The first loop goes on. *)
LEMMA CleanupFits ==
  ASSUME NEW x, NEW y, NEW z, CleanupRests(x, y, z)
  PROVE  Body(Tidy, {}, <<x, y, z>>) /\ <<x, y, z>>[1][1] = "cleanup"
<1> DEFINE w == <<x, y, z>>
<1>1. x[1] = "cleanup"
  BY DEF CleanupRests
<1>2. Len(w) = 3 /\ w # <<>> /\ w[1] = x /\ w[2] = y /\ w[3] = z
  OBVIOUS
<1>3. w = <<w[1], w[2], w[3]>>
  BY <1>2
<1> HIDE DEF w
<1>4. TidyBody({}, w)
  BY <1>1, <1>2, <1>3 DEF TidyBody, TidyOps
<1>5. QED BY <1>1, <1>2, <1>4, TidyFits DEF w

LEMMA UnlockCleanupFits ==
  ASSUME NEW k \in Key, NEW x, NEW y, NEW z, CleanupRests(x, y, z)
  PROVE  Fits(Tidy, {<<k, TRUE>>}, <<<<"unlock", k>>, x, y, z>>)
<1> DEFINE t == <<x, y, z>> w == <<<<"unlock", k>>, x, y, z>>
<1>1. w[1] = <<"unlock", k>>
  OBVIOUS
<1>2. Tail(w) = t
  BY Tail4
<1>3. Chain(w)
  BY Chain4
<1>4. Body(Tidy, {}, t) /\ t[1][1] = "cleanup"
  BY CleanupFits
<1>5. Without({<<k, TRUE>>}, k) = {}
  BY WithoutAll
<1> HIDE DEF t, w
<1>6. Unlocking(Tidy, {<<k, TRUE>>}, w)
  BY <1>1, <1>2, <1>3, <1>4, <1>5 DEF Unlocking
<1>7. QED BY <1>6, UnlockingFits DEF w

(* What is done to one secret id, before its lock is given up. *)
LEMMA CleanupStepFits ==
  ASSUME NEW k \in Key, NEW x, NEW y, NEW z, CleanupRests(x, y, z),
         NEW op \in {"tidy_secret", "delete_secret"}
  PROVE  TidyBody({<<k, TRUE>>}, <<<<op, k>>, <<"unlock", k>>, x, y, z>>)
<1> DEFINE w == <<<<op, k>>, <<"unlock", k>>, x, y, z>>
<1>1. Len(w) = 5 /\ w # <<>> /\ w[1] = <<op, k>>
  OBVIOUS
<1>2. w[3] = x /\ w[4] = y /\ w[5] = z
  OBVIOUS
<1>3. w = <<<<op, k>>, <<"unlock", k>>, w[3], w[4], w[5]>>
  BY <1>2
<1>4. w[1][1] = op
  BY <1>1
<1> HIDE DEF w
<1>5. TidyBody({<<k, TRUE>>}, w)
  BY <1>1, <1>2, <1>3, <1>4 DEF TidyBody, TidyOps
<1>6. QED BY <1>5 DEF w

LEMMA CleanupRevokeFits ==
  ASSUME NEW k \in Key, NEW a \in Acc, NEW x, NEW y, NEW z, CleanupRests(x, y, z)
  PROVE  TidyBody({<<k, TRUE>>}, <<<<"delete_accessor", a>>, <<"delete_secret", k>>,
                                   <<"unlock", k>>, x, y, z>>)
<1> DEFINE w == <<<<"delete_accessor", a>>, <<"delete_secret", k>>, <<"unlock", k>>, x, y, z>>
<1>1. Len(w) = 6 /\ w # <<>> /\ w[1] = <<"delete_accessor", a>>
  OBVIOUS
<1>2. w[4] = x /\ w[5] = y /\ w[6] = z
  OBVIOUS
<1>3. w = <<<<"delete_accessor", a>>, <<"delete_secret", k>>, <<"unlock", k>>, w[4], w[5], w[6]>>
  BY <1>2
<1>4. w[1][1] = "delete_accessor"
  BY <1>1
<1> HIDE DEF w
<1>5. TidyBody({<<k, TRUE>>}, w)
  BY <1>1, <1>2, <1>3, <1>4 DEF TidyBody, TidyOps
<1>6. QED BY <1>5 DEF w

LEMMA TidyEachShapes ==
  ASSUME Shapes, TidyEach
  PROVE  Shapes'
<1>1. UNCHANGED still
  BY DEF TidyEach, ForEach
<1>2. PICK E \in SUBSET Key, O \in SUBSET Acc, f \in Found :
         \E K \in SUBSET Key, s \in SUBSET Acc, R \in SUBSET (1..MaxInc) :
        /\ work[Tidy] = <<<<"cleanup", K>>, <<"tidy_rest", f, s, R>>, <<"tidied", E, O>>>>
        /\ held[Tidy] = {}
        /\ \/ K = {} /\ Moved(Tidy, <<<<"tidy_rest", f, s, R>>, <<"tidied", E, O>>>>, {})
           \/ \E k \in K :
                Moved(Tidy, <<write(k), <<"tidy_secret", k>>, <<"unlock", k>>,
                              <<"cleanup", K \ {k}>>, <<"tidy_rest", f, s, R>>,
                              <<"tidied", E, O>>>>, {})
  BY TidyEachMoves DEF TidyEachEffect
<1>3. ASSUME NEW s \in SUBSET Acc, NEW R \in SUBSET (1..MaxInc), held[Tidy] = {},
             Moved(Tidy, <<<<"tidy_rest", f, s, R>>, <<"tidied", E, O>>>>, {})
      PROVE  Shapes'
  <2>1. TidyBody({}, <<<<"tidy_rest", f, s, R>>, <<"tidied", E, O>>>>)
    BY DEF TidyBody, TidyOps
  <2>2. QED BY <1>1, <1>3, <2>1, TidyFits, TidyMove
<1>4. ASSUME NEW K \in SUBSET Key, NEW s \in SUBSET Acc, NEW R \in SUBSET (1..MaxInc),
             held[Tidy] = {}, NEW k \in K,
             Moved(Tidy, <<write(k), <<"tidy_secret", k>>, <<"unlock", k>>,
                           <<"cleanup", K \ {k}>>, <<"tidy_rest", f, s, R>>,
                           <<"tidied", E, O>>>>, {})
      PROVE  Shapes'
  <2> DEFINE x == <<"cleanup", K \ {k}>> y == <<"tidy_rest", f, s, R>> z == <<"tidied", E, O>>
             t == <<<<"tidy_secret", k>>, <<"unlock", k>>, x, y, z>>
             w == <<<<"lock", k, TRUE>>, <<"tidy_secret", k>>, <<"unlock", k>>, x, y, z>>
  <2>1. k \in Key /\ K \ {k} \in SUBSET Key
    OBVIOUS
  <2>2. CleanupRests(x, y, z)
    BY <2>1 DEF CleanupRests
  <2> HIDE DEF x, y, z
  <2>3. TidyBody({<<k, TRUE>>}, t)
    BY <2>1, <2>2, CleanupStepFits
  <2>4. {} \cup {<<k, TRUE>>} = {<<k, TRUE>>}
    OBVIOUS
  <2>5. t[1][1] = "tidy_secret" /\ w[1] = <<"lock", k, TRUE>>
    OBVIOUS
  <2>6. Tail(w) = t
    BY Tail6
  <2>7. Chain(w)
    BY Chain6
  <2> HIDE DEF t, w
  <2>8. Body(Tidy, {} \cup {<<k, TRUE>>}, t) /\ Locked(t)
    BY <2>3, <2>4, <2>5, TidyFits DEF Locked
  <2>9. Locking(Tidy, {}, w)
    BY <2>1, <2>5, <2>6, <2>7, <2>8 DEF Locking
  <2>10. Fits(Tidy, {}, w)
    BY <2>9, LockingFits
  <2>11. Moved(Tidy, w, {})
    BY <1>4 DEF w, x, y, z, write
  <2>12. QED BY <1>1, <1>4, <2>10, <2>11, TidyMove
<1>5. QED BY <1>2, <1>3, <1>4

LEMMA TidySecretShapes ==
  ASSUME Shapes, TidySecret
  PROVE  Shapes'
<1>1. UNCHANGED still
  BY DEF TidySecret
<1>3. PICK E \in SUBSET Key, O \in SUBSET Acc, f \in Found, K \in SUBSET Key, s \in SUBSET Acc, R \in SUBSET (1..MaxInc), k \in Key :
        TidySecretEffect(E, O, f, K, s, R, k)
  BY TidySecretMoves
<1> USE DEF TidySecretEffect
<1> DEFINE a == secret[k].acc x == <<"cleanup", K>> z == <<"tidied", E, O>>
           y == <<"tidy_rest", f, s, R>> y2 == <<"tidy_rest", f, s \cup {secret[k].acc}, R>>
           u == <<"unlock", k>>
<1>4. secret[k] # None => a \in Acc
  BY DEF Shapes, EntriesTyped, SecretEntry
<1>5. CleanupRests(x, y, z)
  BY DEF CleanupRests
<1>6. secret[k] # None => CleanupRests(x, y2, z)
  <2>1. secret[k] # None => s \cup {secret[k].acc} \in SUBSET Acc
    BY <1>4
  <2>2. QED BY <2>1 DEF CleanupRests
<1>7. CASE Moved(Tidy, <<>>, {})
  BY <1>1, <1>7, StillTyped, TidyIsProc, ShapesStop
<1>8. CASE /\ secret[k] # None
           /\ Moved(Tidy, <<<<"delete_secret", k>>, u, x, y, z>>, held[Tidy])
  <2> HIDE DEF x, y, z
  <2>1. Fits(Tidy, held[Tidy], <<<<"delete_secret", k>>, u, x, y, z>>)
    BY <1>3, <1>5, CleanupStepFits, TidyFits
  <2>2. QED BY <1>1, <1>8, <2>1, TidyMove
<1>9. CASE /\ secret[k] # None
           /\ Moved(Tidy, <<<<"delete_accessor", a>>, <<"delete_secret", k>>, u, x, y, z>>,
                    held[Tidy])
  <2> HIDE DEF a, x, y, z
  <2>1. Fits(Tidy, held[Tidy], <<<<"delete_accessor", a>>, <<"delete_secret", k>>, u, x, y, z>>)
    BY <1>3, <1>4, <1>5, <1>9, CleanupRevokeFits, TidyFits
  <2>2. QED BY <1>1, <1>9, <2>1, TidyMove
<1>10. CASE /\ secret[k] # None
           /\ Moved(Tidy, <<u, x, y2, z>>, held[Tidy])
  <2> HIDE DEF x, y2, z
  <2>1. CleanupRests(x, y2, z)
    BY <1>6, <1>10
  <2>2. Fits(Tidy, {<<k, TRUE>>}, <<u, x, y2, z>>)
    BY <2>1, UnlockCleanupFits
  <2> HIDE DEF u
  <2>3. Fits(Tidy, held[Tidy], <<u, x, y2, z>>)
    BY <1>3, <2>2
  <2>4. QED BY <1>1, <1>10, <2>3, TidyMove
<1>11. QED BY <1>3, <1>7, <1>8, <1>9, <1>10

LEMMA TidyRestShapes ==
  ASSUME Shapes, TidyRest
  PROVE  Shapes'
<1>1. UNCHANGED still
  BY DEF TidyRest
<1>2. PICK E \in SUBSET Key, O \in SUBSET Acc, f \in Found :
        /\ held[Tidy] = {}
        /\ \/ Moved(Tidy, <<<<"tidied", E, O>>>>, {})
           \/ \E K \in SUBSET (DOMAIN f) :
                Moved(Tidy, <<<<"dangling", K, f>>, <<"tidied", E, O>>>>, {})
  BY TidyRestMoves DEF TidyRestEffect
<1>3. CASE Moved(Tidy, <<<<"tidied", E, O>>>>, {})
  <2>1. TidyBody({}, <<<<"tidied", E, O>>>>)
    BY DEF TidyBody, TidyOps
  <2>2. QED BY <1>1, <1>2, <1>3, <2>1, TidyFits, TidyMove
<1>4. ASSUME NEW K \in SUBSET (DOMAIN f),
             Moved(Tidy, <<<<"dangling", K, f>>, <<"tidied", E, O>>>>, {})
      PROVE  Shapes'
  <2> DEFINE x == <<"dangling", K, f>> z == <<"tidied", E, O>> w == <<x, z>>
  <2>1. DanglingRests(x, z) /\ x[1] = "dangling"
    BY DEF DanglingRests
  <2> HIDE DEF x, z
  <2>2. Len(w) = 2 /\ w # <<>> /\ w[1] = x /\ w[2] = z /\ w = <<w[1], w[2]>>
    OBVIOUS
  <2> HIDE DEF w
  <2>3. TidyBody({}, w)
    BY <2>1, <2>2 DEF TidyBody, TidyOps
  <2>4. QED BY <1>1, <1>2, <1>4, <2>3, TidyFits, TidyMove DEF w, x, z
<1>5. QED BY <1>2, <1>3, <1>4

(* The second loop goes on. *)
LEMMA UnlockDanglingFits ==
  ASSUME NEW k \in Key, NEW x, NEW z, DanglingRests(x, z)
  PROVE  Fits(Tidy, {<<k, TRUE>>}, <<<<"unlock", k>>, x, z>>)
<1> DEFINE t == <<x, z>> w == <<<<"unlock", k>>, x, z>>
<1>1. x[1] = "dangling"
  BY DEF DanglingRests
<1>2. Len(t) = 2 /\ t # <<>> /\ t[1] = x /\ t[2] = z /\ t = <<t[1], t[2]>>
  OBVIOUS
<1>3. w[1] = <<"unlock", k>>
  OBVIOUS
<1>4. Tail(w) = t
  BY Tail3
<1>5. Chain(w)
  BY Chain3
<1> HIDE DEF t, w
<1>6. TidyBody({}, t)
  BY <1>1, <1>2 DEF TidyBody, TidyOps
<1>7. Without({<<k, TRUE>>}, k) = {}
  BY WithoutAll
<1>8. Body(Tidy, {}, t) /\ t[1][1] = "dangling"
  BY <1>1, <1>2, <1>6, TidyFits
<1>9. Unlocking(Tidy, {<<k, TRUE>>}, w)
  BY <1>3, <1>4, <1>5, <1>7, <1>8 DEF Unlocking
<1>10. QED BY <1>9, UnlockingFits DEF w

LEMMA TidyDanglingShapes ==
  ASSUME Shapes, TidyDangling
  PROVE  Shapes'
<1>1. UNCHANGED still
  BY DEF TidyDangling, ForEach
<1>2. PICK E \in SUBSET Key, O \in SUBSET Acc, f \in Found : \E K \in SUBSET (DOMAIN f) :
        /\ held[Tidy] = {}
        /\ \/ Moved(Tidy, <<<<"tidied", E, O>>>>, {})
           \/ \E a \in K :
                /\ a \in Acc /\ f[a] \in Key
                /\ Moved(Tidy, <<write(f[a]), <<"delete_accessor", a>>, <<"unlock", f[a]>>,
                                 <<"dangling", K \ {a}, f>>, <<"tidied", E, O>>>>, {})
  BY TidyDanglingMoves DEF TidyDanglingEffect
<1>3. CASE Moved(Tidy, <<<<"tidied", E, O>>>>, {})
  <2>1. TidyBody({}, <<<<"tidied", E, O>>>>)
    BY DEF TidyBody, TidyOps
  <2>2. QED BY <1>1, <1>2, <1>3, <2>1, TidyFits, TidyMove
<1>4. ASSUME NEW K \in SUBSET (DOMAIN f), NEW a \in K, a \in Acc, f[a] \in Key,
             Moved(Tidy, <<write(f[a]), <<"delete_accessor", a>>, <<"unlock", f[a]>>,
                           <<"dangling", K \ {a}, f>>, <<"tidied", E, O>>>>, {})
      PROVE  Shapes'
  <2> DEFINE k == f[a] x == <<"dangling", K \ {a}, f>> z == <<"tidied", E, O>>
             t == <<<<"delete_accessor", a>>, <<"unlock", k>>, x, z>>
             w == <<<<"lock", k, TRUE>>, <<"delete_accessor", a>>, <<"unlock", k>>, x, z>>
  <2>1. K \ {a} \in SUBSET (DOMAIN f)
    OBVIOUS
  <2>2. DanglingRests(x, z)
    BY <2>1 DEF DanglingRests
  <2>3. k \in Key
    BY <1>4
  <2>4. Moved(Tidy, w, {})
    BY <1>4 DEF write
  <2> HIDE DEF k, x, z
  <2>5. Len(t) = 4 /\ t # <<>> /\ t[1] = <<"delete_accessor", a>> /\ t[2] = <<"unlock", k>>
    OBVIOUS
  <2>6. t[3] = x /\ t[4] = z
    OBVIOUS
  <2>7. t = <<<<"delete_accessor", a>>, <<"unlock", k>>, t[3], t[4]>>
    BY <2>6
  <2>8. t[1][1] = "delete_accessor" /\ t[2][1] = "unlock"
    BY <2>5
  <2>9. w[1] = <<"lock", k, TRUE>>
    OBVIOUS
  <2>10. Tail(w) = t
    BY Tail5
  <2>11. Chain(w)
    BY Chain5
  <2>12. {} \cup {<<k, TRUE>>} = {<<k, TRUE>>}
    OBVIOUS
  <2> HIDE DEF t, w
  <2>13. TidyBody({<<k, TRUE>>}, t)
    BY <1>4, <2>2, <2>3, <2>5, <2>6, <2>7, <2>8 DEF TidyBody, TidyOps
  <2>14. Body(Tidy, {} \cup {<<k, TRUE>>}, t) /\ Locked(t)
    BY <2>5, <2>8, <2>12, <2>13, TidyFits DEF Locked
  <2>15. Locking(Tidy, {}, w)
    BY <2>3, <2>9, <2>10, <2>11, <2>14, NameAssumption DEF Locking
  <2>16. Fits(Tidy, {}, w)
    BY <2>15, LockingFits
  <2>17. QED BY <1>1, <1>2, <2>4, <2>16, TidyMove
<1>5. QED BY <1>2, <1>3, <1>4

LEMMA TidyEndShapes ==
  ASSUME Shapes, TidyEnd
  PROVE  Shapes'
<1>1. UNCHANGED still
  BY DEF TidyEnd
<1>2. Moved(Tidy, <<>>, {})
  BY TidyEndMoves
<1>3. QED BY <1>1, <1>2, StillTyped, TidyIsProc, ShapesStop

LEMMA DeleteAccessorTidyShapes ==
  ASSUME Shapes, DeleteAccessor(Tidy)
  PROVE  Shapes'
<1>1. UNCHANGED <<role, index, secret, now, inc, acc, accepts, limit, made, overlap, outdated,
                  faults>>
  BY DEF DeleteAccessor
<1>2. PICK k \in Key, a \in Acc :
        /\ accessor' = [accessor EXCEPT ![a] = None] /\ gone' = gone \cup {a}
        /\ held[Tidy] = {<<k, TRUE>>}
        /\ \/ \E w1, w2 : DanglingRests(w1, w2)
                          /\ Moved(Tidy, <<<<"unlock", k>>, w1, w2>>, held[Tidy])
           \/ \E w1, w2, w3 :
                /\ CleanupRests(w1, w2, w3)
                /\ Moved(Tidy, <<<<"delete_secret", k>>, <<"unlock", k>>, w1, w2, w3>>, held[Tidy])
  BY DeleteAccessorTidy DEF TidyDeleteAccessorEffect
<1>3. EntriesTyped' /\ HistoryTyped'
  BY <1>1, <1>2 DEF Shapes, EntriesTyped, HistoryTyped
<1>4. ASSUME NEW w1, NEW w2, DanglingRests(w1, w2),
             Moved(Tidy, <<<<"unlock", k>>, w1, w2>>, held[Tidy])
      PROVE  Shapes'
  <2>1. Fits(Tidy, held[Tidy], <<<<"unlock", k>>, w1, w2>>)
    BY <1>2, <1>4, UnlockDanglingFits
  <2>2. QED BY <1>3, <1>4, <2>1, TidyIsProc, ShapesMove
<1>5. ASSUME NEW w1, NEW w2, NEW w3, CleanupRests(w1, w2, w3),
             Moved(Tidy, <<<<"delete_secret", k>>, <<"unlock", k>>, w1, w2, w3>>, held[Tidy])
      PROVE  Shapes'
  <2>1. Fits(Tidy, held[Tidy], <<<<"delete_secret", k>>, <<"unlock", k>>, w1, w2, w3>>)
    BY <1>2, <1>5, CleanupStepFits, TidyFits
  <2>2. QED BY <1>3, <1>5, <2>1, TidyIsProc, ShapesMove
<1>6. QED BY <1>2, <1>4, <1>5

LEMMA DeleteSecretTidyShapes ==
  ASSUME Shapes, DeleteSecret(Tidy)
  PROVE  Shapes'
<1>1. PICK k, w1, w2, w3 :
        /\ k \in Key
        /\ secret' = [secret EXCEPT ![k] = None]
        /\ gone' = IF secret[k] = None THEN gone ELSE gone \cup {secret[k].acc}
        /\ CleanupRests(w1, w2, w3)
        /\ held[Tidy] = {<<k, TRUE>>}
        /\ Moved(Tidy, <<<<"unlock", k>>, w1, w2, w3>>, held[Tidy])
  BY DeleteSecretTidy DEF TidyDeleteSecretEffect
<1>2. EntriesTyped' /\ HistoryTyped'
  BY <1>1, DeleteSecretTyped
<1>3. Fits(Tidy, held[Tidy], <<<<"unlock", k>>, w1, w2, w3>>)
  BY <1>1, UnlockCleanupFits
<1>4. QED BY <1>1, <1>2, <1>3, TidyIsProc, ShapesMove

(* Locks are taken and given up. *)
LEMMA LockMoves ==
  ASSUME Shapes, NEW p \in Proc, Lock(p)
  PROVE  \E k \in Name \cup Key, b \in BOOLEAN : LockEffect(p, k, b)
<1> USE DEF LockEffect
<1>1. At(p, "lock") /\ Free(Arg(p, 2), Arg(p, 3))
      /\ work' = [work EXCEPT ![p] = Tail(@)]
      /\ held' = [held EXCEPT ![p] = @ \cup {<<Arg(p, 2), Arg(p, 3)>>}]
  BY DEF Lock
<1>2. Locking(p, held[p], work[p])
  BY <1>1 DEF At, Shapes, TasksTyped, Fits
<1>3. PICK k \in Name \cup Key, b \in BOOLEAN :
        /\ work[p][1] = <<"lock", k, b>> /\ Chain(work[p])
        /\ Body(p, held[p] \cup {<<k, b>>}, Tail(work[p])) /\ Locked(Tail(work[p]))
        /\ (k \in Name => held[p] = {}) /\ (\A h \in held[p] : h[1] \notin Key)
  BY <1>2 DEF Locking
<1>4. Arg(p, 2) = k /\ Arg(p, 3) = b
  BY <1>3 DEF Arg
<1>5. Moved(p, Tail(work[p]), held[p] \cup {<<k, b>>})
  BY <1>1, <1>4 DEF Shapes, TasksTyped, Moved
<1>6. Free(k, b) /\ work[p] # <<>>
  BY <1>1, <1>4 DEF At
<1>7. QED BY <1>3, <1>5, <1>6

LEMMA UnlockMoves ==
  ASSUME Shapes, NEW p \in Proc, Unlock(p)
  PROVE  \E k \in Name \cup Key : UnlockEffect(p, k)
<1> USE DEF UnlockEffect
<1>1. At(p, "unlock") /\ work' = [work EXCEPT ![p] = Tail(@)]
      /\ held' = [held EXCEPT ![p] = {h \in @ : h[1] # Arg(p, 2)}]
  BY DEF Unlock
<1>2. Unlocking(p, held[p], work[p])
  BY <1>1 DEF At, Shapes, TasksTyped, Fits
<1>3. PICK k \in Name \cup Key :
        /\ work[p][1] = <<"unlock", k>> /\ Chain(work[p])
        /\ \/ /\ Body(p, Without(held[p], k), Tail(work[p]))
              /\ Tail(work[p])[1][1] \in {"flush", "cleanup", "dangling"}
           \/ Locking(p, Without(held[p], k), Tail(work[p]))
  BY <1>2 DEF Unlocking
<1>4. Arg(p, 2) = k
  BY <1>3 DEF Arg
<1>5. Moved(p, Tail(work[p]), Without(held[p], k))
  BY <1>1, <1>4 DEF Shapes, TasksTyped, Moved, Without
<1>6. work[p] # <<>>
  BY <1>1 DEF At
<1>7. QED BY <1>3, <1>5, <1>6

LEMMA LockShapes ==
  ASSUME Shapes, NEW p \in Proc, Lock(p)
  PROVE  Shapes'
<1>1. PICK k \in Name \cup Key, b \in BOOLEAN :
        /\ Free(k, b)
        /\ Body(p, held[p] \cup {<<k, b>>}, Tail(work[p]))
        /\ Moved(p, Tail(work[p]), held[p] \cup {<<k, b>>})
  BY LockMoves DEF LockEffect
<1>2. UNCHANGED <<storage, now, inc, acc, accepts, limit, made, gone, overlap, faults>>
      /\ outdated' \in {outdated, Rid}
  BY DEF Lock
<1>3. EntriesTyped' /\ HistoryTyped'
  BY <1>2 DEF storage, Shapes, EntriesTyped, HistoryTyped
<1>4. held' \in [Proc -> SUBSET Lock1]
  <2>1. <<k, b>> \in Lock1
    BY DEF Lock1
  <2>2. \A q \in Proc : held'[q] \in SUBSET Lock1
    BY <1>1, <2>1 DEF Shapes, TasksTyped, Moved
  <2>3. QED BY <1>1, <2>2 DEF Moved
<1>5. \A q \in Proc : Fits(q, held'[q], work'[q])
  <2>1. Fits(p, held'[p], work'[p])
    <3>1. Fits(p, held[p] \cup {<<k, b>>}, Tail(work[p]))
      BY <1>1, BodyFits
    <3>2. QED BY <1>1, <3>1 DEF Moved
  <2>2. QED BY <1>1, <2>1 DEF Shapes, TasksTyped, Moved
<1>6. \A q, s \in Proc : \A h \in held'[q], g \in held'[s] : h[1] = g[1] /\ h[2] => q = s /\ h = g
  <2> TAKE q \in Proc, s \in Proc
  <2> TAKE h \in held'[q], g \in held'[s]
  <2> HAVE h[1] = g[1] /\ h[2]
  <2> DEFINE n == <<k, b>>
  <2>1. \A t \in Proc : \A l \in held'[t] : l \in held[t] \/ (t = p /\ l = n)
    BY <1>1 DEF Moved
  <2>2. n[1] = k /\ n[2] = b
    OBVIOUS
  <2>3. \A t \in Proc : \A l \in held[t] : l[1] = n[1] => ~n[2] /\ ~l[2]
    BY <1>1, <2>2 DEF Free
  <2> HIDE DEF n
  <2>4. CASE h \in held[q] /\ g \in held[s]
    BY <2>4 DEF Shapes, Exclusive
  <2>5. CASE h = n /\ q = p /\ g \in held[s]
    BY <2>3, <2>5
  <2>6. CASE h \in held[q] /\ g = n /\ s = p
    BY <2>3, <2>6
  <2>7. CASE h = n /\ q = p /\ g = n /\ s = p
    BY <2>7
  <2>8. QED BY <2>1, <2>4, <2>5, <2>6, <2>7
<1>7. Shapes'
  BY <1>1, <1>3, <1>4, <1>5, <1>6 DEF Shapes, TasksTyped, Exclusive, Moved
<1>8. QED BY <1>7

LEMMA UnlockShapes ==
  ASSUME Shapes, NEW p \in Proc, Unlock(p)
  PROVE  Shapes'
<1>1. PICK k \in Name \cup Key :
        /\ Moved(p, Tail(work[p]), Without(held[p], k))
        /\ \/ /\ Body(p, Without(held[p], k), Tail(work[p]))
              /\ Tail(work[p])[1][1] \in {"flush", "cleanup", "dangling"}
           \/ Locking(p, Without(held[p], k), Tail(work[p]))
  BY UnlockMoves DEF UnlockEffect
<1>2. UNCHANGED still
  BY DEF Unlock
<1>3. Fits(p, Without(held[p], k), Tail(work[p]))
  BY <1>1, BodyFits, LockingFits
<1>4. Without(held[p], k) \subseteq held[p]
  BY DEF Without
<1>5. QED BY <1>1, <1>2, <1>3, <1>4, ShapesStay

LEMMA FailMoves ==
  ASSUME Shapes, NEW p \in Proc, Fail(p)
  PROVE  /\ Moved(p, <<>>, {}) /\ faults' = faults + 1
         /\ UNCHANGED <<storage, now, inc, acc, history, ops>>
<1>1. Rest(p, <<>>)
  BY DEF Fail, Refuse
<1>2. QED BY <1>1, RefuseMoves DEF Fail

LEMMA FailShapes ==
  ASSUME Shapes, NEW p \in Proc, Fail(p)
  PROVE  Shapes'
<1>1. /\ Moved(p, <<>>, {}) /\ faults' = faults + 1
      /\ UNCHANGED <<storage, now, inc, acc, history, ops>>
  BY FailMoves
<1>2. EntriesTyped' /\ HistoryTyped'
  BY <1>1 DEF storage, history, Shapes, EntriesTyped, HistoryTyped
<1>3. QED BY <1>1, <1>2, ShapesStop

LEMMA CrashShapes ==
  ASSUME Shapes, Crash
  PROVE  Shapes'
<1>1. /\ faults' = faults + 1 /\ UNCHANGED <<storage, now, inc, acc, history>>
      /\ work' = [p \in Proc |-> <<>>] /\ held' = [p \in Proc |-> {}]
  BY DEF Crash
<1>2. EntriesTyped' /\ HistoryTyped'
  BY <1>1 DEF storage, history, Shapes, EntriesTyped, HistoryTyped
<1>3. TasksTyped'
  <2>1. \A p \in Proc : Fits(p, held'[p], work'[p])
    BY <1>1, EmptyFits
  <2>2. DOMAIN work' = Proc /\ held' \in [Proc -> SUBSET Lock1]
    BY <1>1
  <2>3. QED BY <2>1, <2>2 DEF TasksTyped
<1>4. Exclusive'
  BY <1>1 DEF Exclusive
<1>5. QED BY <1>2, <1>3, <1>4 DEF Shapes

LEMMA TickShapes ==
  ASSUME Shapes, Tick
  PROVE  Shapes'
<1>1. UNCHANGED <<storage, held, work, inc, acc, history, faults>> /\ now < MaxTime /\ now' = now + 1
  BY DEF Tick
<1>2. EntriesTyped' /\ HistoryTyped'
  BY <1>1, BoundAssumption DEF storage, history, Shapes, EntriesTyped, HistoryTyped
<1>3. TasksTyped' /\ Exclusive'
  BY <1>1 DEF Shapes, TasksTyped, Exclusive
<1>4. QED BY <1>2, <1>3 DEF Shapes

LEMMA InitShapes ==
  ASSUME Init
  PROVE  Shapes
<1>1. PICK x \in Rid, s \in Sid :
        /\ role = [r \in Role |-> IF r = First THEN [rid |-> x, inc |-> 1] ELSE None]
        /\ index = [y \in Rid |-> IF y = x THEN First ELSE None]
        /\ secret = [k \in Key |-> IF k = <<1, s>> THEN [acc |-> 1, uses |-> FirstUses, exp |-> 1]
                                   ELSE None]
        /\ accessor = [a \in Acc |-> IF a = 1 THEN <<1, s>> ELSE None]
        /\ held = [p \in Proc |-> {}] /\ work = [p \in Proc |-> <<>>]
        /\ now = 1 /\ inc = 1 /\ acc = 1
        /\ accepts = [a \in Acc |-> 0]
        /\ limit = [a \in Acc |-> IF a = 1 THEN FirstUses ELSE 0]
        /\ made = accessor
        /\ gone = {} /\ overlap = {} /\ outdated = {}
        /\ ops = 0 /\ faults = 0
  BY DEF Init
<1>2. 1 \in Acc /\ 1 \in 1..MaxInc /\ 1 \in 1..MaxTime /\ <<1, s>> \in Key
  BY BoundAssumption DEF Acc, Key
<1>3. EntriesTyped
  <2>1. [rid |-> x, inc |-> 1] \in RoleEntry
    BY <1>2 DEF RoleEntry
  <2>2. [acc |-> 1, uses |-> FirstUses, exp |-> 1] \in SecretEntry
    BY <1>2, BoundAssumption DEF SecretEntry
  <2>3. role \in [Role -> RoleEntry \cup {None}]
    BY <1>1, <2>1
  <2>4. index \in [Rid -> Name \cup {None}]
    BY <1>1, ProcAssumption, LowerAssumption
  <2>5. secret \in [Key -> SecretEntry \cup {None}]
    BY <1>1, <2>2
  <2>6. accessor \in [Acc -> Key \cup {None}]
    BY <1>1, <1>2
  <2>7. QED BY <1>1, <1>2, <2>3, <2>4, <2>5, <2>6 DEF EntriesTyped
<1>4. HistoryTyped
  <2>1. {0, FirstUses} \subseteq 0..MaxUses /\ 0 \in Nat
    BY BoundAssumption
  <2>2. limit \in [Acc -> 0..MaxUses] /\ accepts \in [Acc -> Nat]
    BY <1>1, <2>1
  <2>3. made \in [Acc -> Key \cup {None}]
    BY <1>1, <1>3 DEF EntriesTyped
  <2>4. QED BY <1>1, <2>1, <2>2, <2>3 DEF HistoryTyped
<1>5. TasksTyped
  <2>1. \A p \in Proc : Fits(p, held[p], work[p])
    BY <1>1, EmptyFits
  <2>2. DOMAIN work = Proc /\ held \in [Proc -> SUBSET Lock1]
    BY <1>1
  <2>3. QED BY <2>1, <2>2 DEF TasksTyped
<1>6. Exclusive
  BY <1>1 DEF Exclusive
<1>7. QED BY <1>3, <1>4, <1>5, <1>6 DEF Shapes

LEMMA RoleStepShapes ==
  ASSUME Shapes, NEW p \in Callers, RoleStep(p)
  PROVE  Shapes'
  BY SetRoleShapes, PutRoleShapes, SetRoleIdShapes, DeleteRoleIdShapes, DeleteRoleStepShapes,
     FlushShapes, ReadRoleStepShapes, RepairShapes DEF RoleStep

LEMMA SecretStepShapes ==
  ASSUME Shapes, NEW p \in Callers, SecretStep(p)
  PROVE  Shapes'
<1>1. CASE RegisterStep(p) \/ RegisterEntry(p) \/ PutSecret(p) \/ DestroyStep(p)
           \/ DestroyEntry(p) \/ LookupStep(p) \/ LookupEntry(p)
  BY <1>1, RegisterStepShapes, RegisterEntryShapes, PutSecretShapes, OnSecretShapes,
     DestroyEntryShapes, LookupEntryShapes
<1>2. CASE DestroyAccessorStep(p) \/ DestroyFound(p) \/ LoginIndex(p) \/ LoginRole(p)
           \/ LoginSecret(p) \/ LoginUse(p) \/ Accept(p)
  BY <1>2, DestroyAccessorStepShapes, DestroyFoundShapes, LoginIndexShapes, LoginRoleShapes,
     LoginSecretShapes, LoginUseShapes, AcceptShapes
<1>3. QED BY <1>1, <1>2 DEF SecretStep

LEMMA StepShapes ==
  ASSUME Shapes, NEW p \in Proc, Step(p)
  PROVE  Shapes'
<1>1. CASE Lock(p) \/ Unlock(p) \/ Fail(p)
  BY <1>1, LockShapes, UnlockShapes, FailShapes
<1>2. CASE (DeleteAccessor(p) \/ DeleteSecret(p)) /\ p \in Callers
  BY <1>2, DeleteAccessorCallerShapes, DeleteSecretCallerShapes
<1>3. CASE (DeleteAccessor(p) \/ DeleteSecret(p)) /\ p = Tidy
  BY <1>3, DeleteAccessorTidyShapes, DeleteSecretTidyShapes
<1>4. QED BY <1>1, <1>2, <1>3 DEF Step, Proc

LEMMA NextShapesKept ==
  ASSUME Shapes, [Next]_vars
  PROVE  Shapes'
<1>1. CASE \E p \in Callers : Requests(p)
  BY <1>1, RoleRequestShapes, SecretRequestShapes DEF Requests
<1>2. CASE \E p \in Callers : RoleStep(p) \/ SecretStep(p)
  BY <1>2, RoleStepShapes, SecretStepShapes
<1>3. CASE TidyStart \/ TidyList \/ TidyEach \/ TidySecret \/ TidyRest \/ TidyDangling \/ TidyEnd
  BY <1>3, TidyStartShapes, TidyListShapes, TidyEachShapes, TidySecretShapes, TidyRestShapes,
     TidyDanglingShapes, TidyEndShapes
<1>4. CASE \E p \in Proc : Step(p)
  BY <1>4, StepShapes
<1>5. CASE Tick \/ Crash
  BY <1>5, TickShapes, CrashShapes
<1>6. CASE UNCHANGED vars
  BY <1>6 DEF vars, storage, history, Shapes, EntriesTyped, HistoryTyped, TasksTyped, Exclusive
<1>7. QED BY <1>1, <1>2, <1>3, <1>4, <1>5, <1>6 DEF Next, Requests

LEMMA ShapesHold == Spec => []Shapes
<1>1. Init => Shapes
  BY InitShapes
<1>2. Shapes /\ [Next]_vars => Shapes'
  BY NextShapesKept
<1>3. QED BY <1>1, <1>2, PTL DEF Spec

-----------------------------------------------------------------------------
(* The locks.                                                               *)

LEMMA ShapesTypeOK ==
  ASSUME Shapes
  PROVE  TypeOK
  BY DEF Shapes, EntriesTyped, TasksTyped, TypeOK, RoleEntry, Lock1

LEMMA WaitingLocks ==
  ASSUME Shapes, NEW p \in Proc, At(p, "lock")
  PROVE  /\ Arg(p, 2) \in Name => held[p] = {}
         /\ Arg(p, 2) \in Name \cup Key
         /\ \A h \in held[p] : h[1] \in Name
<1>1. Locking(p, held[p], work[p])
  BY DEF At, Shapes, TasksTyped, Fits
<1>2. PICK k \in Name \cup Key, b \in BOOLEAN :
        /\ work[p][1] = <<"lock", k, b>>
        /\ (k \in Name => held[p] = {}) /\ (\A h \in held[p] : h[1] \notin Key)
  BY <1>1 DEF Locking
<1>3. Arg(p, 2) = k
  BY <1>2 DEF Arg
<1>4. held[p] \subseteq (Name \cup Key) \X BOOLEAN
  BY DEF Shapes, TasksTyped, Lock1
<1>5. \A h \in held[p] : h[1] \in Name
  BY <1>2, <1>4
<1>6. QED BY <1>2, <1>3, <1>5

(* A task that waits for the lock of a role has no lock, so nobody waits    *)
(* for it; one that waits for the lock of a secret id has at most that of a *)
(* role, and whoever has the lock of a secret id waits for none.            *)
LEMMA ShapesNoCycle ==
  ASSUME Shapes
  PROVE  NoLockCycle
<1> SUFFICES ASSUME NEW S \in (SUBSET {p \in Proc : At(p, "lock")}) \ {{}}
             PROVE  \E p \in S : \A q \in S : ~Waits(p, q)
  BY DEF NoLockCycle
<1>1. \A p \in S : p \in Proc /\ At(p, "lock")
  OBVIOUS
<1>2. PICK p : p \in S
  <2>1. S # {}
    OBVIOUS
  <2>2. QED BY <2>1
<1>3. CASE \A q \in S : ~Waits(p, q)
  BY <1>2, <1>3
<1>4. CASE \E q \in S : Waits(p, q)
  <2>1. PICK q \in S : Waits(p, q)
    BY <1>4
  <2>2. PICK h \in held[q] : h[1] = Arg(p, 2)
    BY <2>1 DEF Waits
  <2>3. h[1] \in Name /\ Arg(q, 2) \in Key
    BY <1>1, <2>2, WaitingLocks
  <2>4. \A s \in S : ~Waits(q, s)
    <3> TAKE s \in S
    <3>1. \A g \in held[s] : g[1] \in Name
      BY <1>1, WaitingLocks
    <3>2. QED BY <2>3, <3>1, NameAssumption DEF Waits
  <2>5. QED BY <2>4
<1>5. QED BY <1>3, <1>4

(* No task waits for a lock it holds, and none wait in a circle: roles are  *)
(* locked before secret ids, one of each (path_role.rs, path_login.rs,      *)
(* path_tidy_secret_id.rs).                                                 *)
THEOREM NoLockCycleHolds == Spec => []NoLockCycle
<1>1. Shapes => NoLockCycle
  BY ShapesNoCycle
<1>2. QED BY <1>1, ShapesHold, PTL

-----------------------------------------------------------------------------
(* The second layer is kept: what a step does to others.                    *)

entries == <<secret, accessor, acc, accepts, limit, made>>

LEMMA OthersSteps ==
  ASSUME NEW p \in Proc, NEW w, NEW H, Moved(p, w, H), NEW q \in Proc, q # p
  PROVE  /\ work'[q] = work[q] /\ Steps(q)' = Steps(q)
         /\ \A op : At(q, op)' <=> At(q, op)
         /\ \A i : Arg(q, i)' = Arg(q, i)
  BY DEF Moved, Steps, At, Arg

LEMMA OwnSteps ==
  ASSUME NEW p \in Proc, NEW w, NEW H, Moved(p, w, H)
  PROVE  /\ work'[p] = w /\ Steps(p)' = StepsOf(w)
         /\ \A op : At(p, op)' <=> w # <<>> /\ w[1][1] = op
         /\ \A i : Arg(p, i)' = w[1][i]
  BY DEF Moved, Steps, At, Arg

(* Whoever writes the entry of a secret id has its lock. *)
LEMMA PutHolds ==
  ASSUME Shapes, NEW q \in Proc, At(q, "put_secret")
  PROVE  /\ q \in Callers /\ <<Arg(q, 2), TRUE>> \in held[q] /\ Arg(q, 2) \in Key
         /\ Arg(q, 3) \in SecretEntry /\ work[q][1] \in Steps(q)
         /\ Len(work[q]) = 1 \/ Len(work[q]) = 2
<1>1. Body(q, held[q], work[q])
  BY DEF Shapes, TasksTyped, Fits, At
<1>2. q # Tidy
  BY <1>1 DEF Body, TidyBody, TidyOps, At
<1>3. CallerBody(held[q], work[q])
  BY <1>1, <1>2 DEF Body
<1> DEFINE w == work[q] e == w[1][3]
<1>4. PICK k \in Key :
        \/ \E r \in Name : /\ w = <<<<"put_secret", k, e>>>>
                           /\ e \in SecretEntry /\ held[q] = {<<r, FALSE>>, <<k, TRUE>>}
        \/ \E g \in SUBSET Acc : /\ w = <<<<"put_secret", k, e>>, <<"accept", e.acc, g>>>>
                                 /\ e \in SecretEntry /\ held[q] = {<<k, TRUE>>}
  BY <1>3 DEF CallerBody, WriteBody, At
<1>5. e \in SecretEntry /\ <<k, TRUE>> \in held[q]
  BY <1>4
<1> HIDE DEF e
<1>6. CASE w = <<<<"put_secret", k, e>>>>
  <2>1. w[1] = <<"put_secret", k, e>> /\ Len(w) = 1
    BY <1>6
  <2>2. w[1] \in StepsOf(w)
    BY <1>6 DEF StepsOf
  <2>3. QED BY <1>2, <1>5, <2>1, <2>2 DEF Arg, Steps, Proc
<1>7. CASE \E g \in SUBSET Acc : w = <<<<"put_secret", k, e>>, <<"accept", e.acc, g>>>>
  <2>1. w[1] = <<"put_secret", k, e>> /\ Len(w) = 2
    BY <1>7
  <2>2. w[1] \in StepsOf(w)
    BY <1>7 DEF StepsOf
  <2>3. QED BY <1>2, <1>5, <2>1, <2>2 DEF Arg, Steps, Proc
<1>8. QED BY <1>4, <1>6, <1>7

(* The last use of a secret id deletes both its entries under its lock. *)
LEMMA LastUseHolds ==
  ASSUME Shapes, NEW q \in Proc
  PROVE  /\ At(q, "delete_accessor") /\ Len(work[q]) = 3 =>
              work[q][2][2] \in Key /\ <<work[q][2][2], TRUE>> \in held[q]
         /\ At(q, "delete_secret") /\ Len(work[q]) = 2 =>
              Arg(q, 2) \in Key /\ <<Arg(q, 2), TRUE>> \in held[q]
<1> DEFINE w == work[q]
<1>1. ASSUME At(q, "delete_accessor"), Len(w) = 3
      PROVE  w[2][2] \in Key /\ <<w[2][2], TRUE>> \in held[q]
  <2>1. Body(q, held[q], w)
    BY <1>1 DEF Shapes, TasksTyped, Fits, At
  <2>2. CASE q = Tidy
    BY <1>1, <2>1, <2>2 DEF Body, TidyBody, At
  <2>3. CASE q # Tidy
    <3>1. CallerBody(held[q], w)
      BY <2>1, <2>3 DEF Body
    <3>2. PICK k \in Key, a \in Acc :
            \/ \E r \in Name, b \in BOOLEAN :
                 w = <<<<"delete_accessor", a>>, <<"delete_secret", k>>>>
                 /\ held[q] = {<<r, b>>, <<k, TRUE>>}
            \/ \E g \in SUBSET Acc :
                 w = <<<<"delete_accessor", a>>, <<"delete_secret", k>>, <<"accept", a, g>>>>
                 /\ held[q] = {<<k, TRUE>>}
      BY <1>1, <3>1 DEF CallerBody, WriteBody, At
    <3>3. ASSUME NEW r \in Name, NEW b \in BOOLEAN,
                 w = <<<<"delete_accessor", a>>, <<"delete_secret", k>>>>
          PROVE  FALSE
      BY <1>1, <3>3
    <3>4. ASSUME NEW g \in SUBSET Acc,
                 w = <<<<"delete_accessor", a>>, <<"delete_secret", k>>, <<"accept", a, g>>>>,
                 held[q] = {<<k, TRUE>>}
          PROVE  w[2][2] \in Key /\ <<w[2][2], TRUE>> \in held[q]
      <4>1. w[2][2] = k
        BY <3>4
      <4> HIDE DEF w
      <4>2. QED BY <3>4, <4>1
    <3> HIDE DEF w
    <3>5. QED BY <3>2, <3>3, <3>4
  <2>4. QED BY <2>2, <2>3
<1>2. ASSUME At(q, "delete_secret"), Len(w) = 2
      PROVE  Arg(q, 2) \in Key /\ <<Arg(q, 2), TRUE>> \in held[q]
  <2>1. Body(q, held[q], w)
    BY <1>2 DEF Shapes, TasksTyped, Fits, At
  <2>2. CASE q = Tidy
    BY <1>2, <2>1, <2>2 DEF Body, TidyBody, At
  <2>3. CASE q # Tidy
    <3>1. CallerBody(held[q], w)
      BY <2>1, <2>3 DEF Body
    <3>2. PICK k \in Key :
           \/ \E r \in Name, b \in BOOLEAN : w = <<<<"delete_secret", k>>>>
                /\ held[q] = {<<r, b>>, <<k, TRUE>>}
           \/ w = <<<<"delete_secret", k>>>> /\ held[q] = {<<k, FALSE>>}
           \/ \E a \in Acc, g \in SUBSET Acc :
                w = <<<<"delete_secret", k>>, <<"accept", a, g>>>> /\ held[q] = {<<k, TRUE>>}
           \/ \E K \in SUBSET Key, o \in Rid, r \in Name :
                w = <<<<"delete_secret", k>>, <<"unlock", k>>, <<"flush", K>>,
                      <<"delete_role_id", o, r>>, <<"put_role", r, None>>>>
                /\ held[q] = {<<r, TRUE>>, <<k, TRUE>>}
      BY <1>2, <3>1 DEF CallerBody, WriteBody, At
    <3>3. w # <<<<"delete_secret", k>>>>
      BY <1>2
    <3>4. ASSUME NEW K \in SUBSET Key, NEW o \in Rid, NEW r \in Name,
                 w = <<<<"delete_secret", k>>, <<"unlock", k>>, <<"flush", K>>,
                       <<"delete_role_id", o, r>>, <<"put_role", r, None>>>>
          PROVE  FALSE
      BY <1>2, <3>4
    <3>5. ASSUME NEW a \in Acc, NEW g \in SUBSET Acc,
                 w = <<<<"delete_secret", k>>, <<"accept", a, g>>>>, held[q] = {<<k, TRUE>>}
          PROVE  Arg(q, 2) \in Key /\ <<Arg(q, 2), TRUE>> \in held[q]
      <4>1. Arg(q, 2) = k
        BY <3>5 DEF Arg
      <4>2. QED BY <3>5, <4>1
    <3> HIDE DEF w
    <3>6. QED BY <3>2, <3>3, <3>4, <3>5
  <2>4. QED BY <2>2, <2>3
<1>3. QED BY <1>1, <1>2

(* Whoever is about to accept has nothing else to do. *)
LEMMA AcceptHolds ==
  ASSUME Shapes, NEW q \in Proc, At(q, "accept")
  PROVE  q \in Callers /\ work[q][1] \in Steps(q)
<1>1. Body(q, held[q], work[q])
  BY DEF Shapes, TasksTyped, Fits, At
<1>2. q # Tidy
  BY <1>1 DEF Body, TidyBody, TidyOps, At
<1>3. CallerBody(held[q], work[q])
  BY <1>1, <1>2 DEF Body
<1>4. PICK k \in Key, b \in BOOLEAN, a \in Acc, g \in SUBSET Acc :
        work[q] = <<<<"accept", a, g>>>> /\ held[q] = {<<k, b>>}
  BY <1>3 DEF CallerBody, LoginBody, At
<1>5. work[q][1] \in Steps(q)
  BY <1>4 DEF Steps, StepsOf
<1>6. QED BY <1>2, <1>5 DEF Proc

(* The secret id whose lock p has is not another's. *)
LEMMA OtherKeys ==
  ASSUME Shapes, NEW p \in Proc, NEW q \in Proc, q # p, NEW h \in held[p], NEW k, h[1] = k
  PROVE  /\ At(q, "put_secret") => Arg(q, 2) # k
         /\ At(q, "delete_accessor") /\ Len(work[q]) = 3 => work[q][2][2] # k
         /\ At(q, "delete_secret") /\ Len(work[q]) = 2 => Arg(q, 2) # k
<1>1. \A j : <<j, TRUE>> \in held[q] => j # k
  <2> TAKE j
  <2> DEFINE g == <<j, TRUE>>
  <2>1. g[1] = j /\ g[2] = TRUE
    OBVIOUS
  <2> HIDE DEF g
  <2>2. g \in held[q] => g[1] # h[1]
    BY <2>1 DEF Shapes, Exclusive
  <2>3. QED BY <2>1, <2>2 DEF g
<1>2. QED BY <1>1, PutHolds, LastUseHolds

(* Who is about to accept. *)
LEMMA AcceptingFinite ==
  ASSUME NEW a
  PROVE  IsFiniteSet(Accepting(a)) /\ Cardinality(Accepting(a)) \in Nat
<1>1. Accepting(a) \subseteq Callers
  BY DEF Accepting
<1>2. IsFiniteSet(Accepting(a))
  BY <1>1, FiniteAssumption, FS_Subset
<1>3. QED BY <1>2, FS_CardinalityType

LEMMA AcceptingSame ==
  ASSUME NEW p \in Proc, NEW w, NEW H, Moved(p, w, H), NEW a,
         w # <<>> /\ w[1][1] = "accept" => w[1][2] # a
  PROVE  Cardinality(Accepting(a)') <= Cardinality(Accepting(a))
<1>1. Accepting(a)' \subseteq Accepting(a)
  <2> SUFFICES ASSUME NEW q \in Accepting(a)' PROVE q \in Accepting(a)
    OBVIOUS
  <2>1. q \in Callers /\ At(q, "accept")' /\ Arg(q, 2)' = a
    BY DEF Accepting
  <2>2. q # p
    BY <2>1, OwnSteps
  <2>3. At(q, "accept") /\ Arg(q, 2) = a
    BY <2>1, <2>2, OthersSteps DEF Proc
  <2>4. QED BY <2>1, <2>3 DEF Accepting
<1>2. QED BY <1>1, AcceptingFinite, FS_Subset

LEMMA AcceptingMore ==
  ASSUME NEW p \in Proc, NEW w, NEW H, Moved(p, w, H), NEW a
  PROVE  Cardinality(Accepting(a)') <= Cardinality(Accepting(a)) + 1
<1>1. Accepting(a)' \subseteq Accepting(a) \cup {p}
  <2> SUFFICES ASSUME NEW q \in Accepting(a)' PROVE q \in Accepting(a) \cup {p}
    OBVIOUS
  <2>1. q \in Callers /\ At(q, "accept")' /\ Arg(q, 2)' = a
    BY DEF Accepting
  <2>2. CASE q # p
    <3>1. At(q, "accept") /\ Arg(q, 2) = a
      BY <2>1, <2>2, OthersSteps DEF Proc
    <3>2. QED BY <2>1, <3>1 DEF Accepting
  <2>3. QED BY <2>2
<1>2. /\ IsFiniteSet(Accepting(a) \cup {p})
      /\ Cardinality(Accepting(a) \cup {p}) <= Cardinality(Accepting(a)) + 1
  <2>1. /\ IsFiniteSet(Accepting(a) \cup {p})
        /\ Cardinality(Accepting(a) \cup {p})
           = IF p \in Accepting(a) THEN Cardinality(Accepting(a)) ELSE Cardinality(Accepting(a)) + 1
    BY AcceptingFinite, FS_AddElement
  <2>2. QED BY <2>1, AcceptingFinite
<1>3. /\ Cardinality(Accepting(a)') <= Cardinality(Accepting(a) \cup {p})
      /\ Cardinality(Accepting(a)') \in Nat
  BY <1>1, <1>2, FS_Subset, FS_CardinalityType
<1>4. Cardinality(Accepting(a) \cup {p}) \in Nat /\ Cardinality(Accepting(a)) \in Nat
  BY <1>2, AcceptingFinite, FS_CardinalityType
<1>5. QED BY <1>2, <1>3, <1>4

LEMMA AcceptingLess ==
  ASSUME NEW p \in Callers, At(p, "accept"), Moved(p, <<>>, {}), NEW a, Arg(p, 2) = a
  PROVE  Cardinality(Accepting(a)') <= Cardinality(Accepting(a)) - 1
<1>1. Accepting(a)' \subseteq Accepting(a) \ {p}
  <2> SUFFICES ASSUME NEW q \in Accepting(a)' PROVE q \in Accepting(a) \ {p}
    OBVIOUS
  <2>1. q \in Callers /\ At(q, "accept")' /\ Arg(q, 2)' = a
    BY DEF Accepting
  <2>2. q # p
    BY <2>1, OwnSteps, CallerIsProc
  <2>3. At(q, "accept") /\ Arg(q, 2) = a
    BY <2>1, <2>2, OthersSteps, CallerIsProc
  <2>4. QED BY <2>1, <2>2, <2>3 DEF Accepting
<1>2. p \in Accepting(a)
  BY DEF Accepting
<1>3. IsFiniteSet(Accepting(a) \ {p})
      /\ Cardinality(Accepting(a) \ {p}) = Cardinality(Accepting(a)) - 1
  BY <1>2, AcceptingFinite, FS_RemoveElement
<1>4. QED BY <1>1, <1>3, FS_Subset

(* The uses are kept by a step that neither counts one nor brings a task to *)
(* its acceptance.                                                          *)
LEMMA LeftSame ==
  ASSUME Shapes, NEW a \in Acc, NEW n \in Int, Left(a, n),
         Cardinality(Accepting(a)') <= Cardinality(Accepting(a)),
         Cardinality(Accepting(a)') \in Nat, limit'[a] = limit[a], accepts'[a] = accepts[a]
  PROVE  Left(a, n)'
<1>1. limit[a] \in Nat /\ accepts[a] \in Nat
  BY BoundAssumption DEF Shapes, HistoryTyped
<1>2. Cardinality(Accepting(a)) \in Nat
  BY AcceptingFinite
<1>3. QED BY <1>1, <1>2 DEF Left

LEMMA UsesSame ==
  ASSUME Shapes, UsesOK, NEW p \in Proc, NEW w, NEW H, Moved(p, w, H),
         UNCHANGED <<secret, limit, accepts>>,
         w # <<>> /\ w[1][1] = "accept" => limit[w[1][2]] = 0
  PROVE  UsesOK'
<1>1. \A a \in Acc : \A n \in Int : Left(a, n) => Left(a, n)'
  <2> TAKE a \in Acc
  <2> TAKE n \in Int
  <2> HAVE Left(a, n)
  <2>1. CASE limit[a] > 0
    <3>1. w # <<>> /\ w[1][1] = "accept" => w[1][2] # a
      BY <2>1
    <3>2. Cardinality(Accepting(a)') <= Cardinality(Accepting(a))
      BY <3>1, AcceptingSame
    <3>3. Cardinality(Accepting(a)') \in Nat
      <4>1. Accepting(a)' \subseteq Callers
        BY DEF Accepting
      <4>2. QED BY <4>1, FiniteAssumption, FS_Subset, FS_CardinalityType
    <3>4. QED BY <3>2, <3>3, LeftSame
  <2>2. CASE ~(limit[a] > 0)
    BY <2>2 DEF Left
  <2>3. QED BY <2>1, <2>2
<1>2. \A k \in Key : secret[k] # None => secret[k].acc \in Acc /\ secret[k].uses \in Int
  BY DEF Shapes, EntriesTyped, SecretEntry
<1>3. \A a \in Acc : Left(a, 0)'
  BY <1>1 DEF UsesOK
<1>4. \A k \in Key : secret[k] # None => Left(secret[k].acc, secret[k].uses)'
  <2> TAKE k \in Key
  <2> HAVE secret[k] # None
  <2>1. Left(secret[k].acc, secret[k].uses) /\ secret[k].acc \in Acc /\ secret[k].uses \in Int
    BY <1>2 DEF UsesOK
  <2> DEFINE a == secret[k].acc n == secret[k].uses
  <2>2. a' = a /\ n' = n
    OBVIOUS
  <2>3. Left(a, n) => Left(a, n)'
    BY <1>1, <2>1, <2>2
  <2>4. QED BY <2>1, <2>3
<1>5. QED BY <1>3, <1>4 DEF UsesOK


(* The accessor of a new secret id is not that of a stored one. *)
LEMMA FreshNotStored ==
  ASSUME Shapes, Secrets, NEW q \in Proc, At(q, "put_secret"), Len(work[q]) = 1,
         NEW k \in Key, secret[k] # None
  PROVE  secret[k].acc # Arg(q, 3).acc
<1>1. work[q][1] \in Steps(q) /\ Arg(q, 2) \in Key
  BY PutHolds
<1>2. StepOK(work[q][1])
  BY <1>1 DEF Secrets
<1>3. made[Arg(q, 3).acc] = Arg(q, 2)
  BY <1>2 DEF StepOK, At, Arg
<1>4. secret[Arg(q, 2)] = None
  BY DEF Secrets, Fresh
<1>5. made[secret[k].acc] = k
  BY DEF Secrets, MadeOK
<1>6. QED BY <1>3, <1>4, <1>5

LEMMA LocalMove ==
  ASSUME Shapes, Secrets, NEW p \in Proc, NEW w, NEW H, Moved(p, w, H),
         UNCHANGED secrets,
         \A t \in StepsOf(w) : StepOK(t),
         \A t \in StepsOf(w) : t[1] = "accept" =>
           t \in Steps(p) \/ \E k \in Key : secret[k] # None /\ t[2] = secret[k].acc,
         HeadOK(w), DoingOK(w)
  PROVE  Secrets'
<1>1. MadeOK'
  BY DEF Secrets, MadeOK
<1>2. UsesOK'
  BY UsesSame DEF Secrets, HeadOK
<1>3. GoneOK'
  <2> SUFFICES ASSUME NEW a \in gone, accessor[a] # None
               PROVE  /\ secret[made[a]] = None \/ secret[made[a]].acc # a
                      /\ \A q \in Proc : At(q, "put_secret")' => Arg(q, 3)'.acc # a
    BY DEF GoneOK
  <2>1. /\ secret[made[a]] = None \/ secret[made[a]].acc # a
        /\ \A q \in Proc : At(q, "put_secret") => Arg(q, 3).acc # a
    BY DEF Secrets, GoneOK
  <2>2. ASSUME w # <<>>, w[1][1] = "put_secret"
        PROVE  w[1][3].acc # a
    <3> DEFINE k == w[1][2] e == secret[k]
    <3>1. k \in Key /\ e # None /\ w[1][3] = [e EXCEPT !.uses = @ - 1]
      BY <2>2 DEF HeadOK
    <3>2. e \in SecretEntry /\ made[e.acc] = k
      BY <3>1 DEF Secrets, MadeOK, Shapes, EntriesTyped
    <3>3. w[1][3].acc = e.acc
      BY <3>1, <3>2 DEF SecretEntry
    <3>4. QED BY <2>1, <3>1, <3>2, <3>3
  <2>3. \A q \in Proc : At(q, "put_secret")' => Arg(q, 3)'.acc # a
    <3> TAKE q \in Proc
    <3>1. CASE q = p
      BY <2>2, <3>1, OwnSteps
    <3>2. CASE q # p
      BY <2>1, <3>2, OthersSteps
    <3>3. QED BY <3>1, <3>2
  <2>4. QED BY <2>1, <2>3
<1>4. \A q \in Proc : \A t \in Steps(q)' : StepOK(t)'
  <2> TAKE q \in Proc
  <2> TAKE t \in Steps(q)'
  <2>1. StepOK(t)
    <3>1. CASE q = p
      BY <3>1, OwnSteps
    <3>2. CASE q # p
      BY <3>2, OthersSteps DEF Secrets
    <3>3. QED BY <3>1, <3>2
  <2>2. QED BY <2>1 DEF StepOK
<1>5. \A q \in Proc : Fresh(q)'
  <2> TAKE q \in Proc
  <2>1. CASE q = p
    BY <2>1, OwnSteps DEF Fresh, HeadOK, Moved
  <2>2. CASE q # p
    <3> SUFFICES ASSUME At(q, "put_secret"), Len(work[q]) = 1
                 PROVE  Fresh(q)'
      BY <2>2, OthersSteps DEF Fresh, Moved
    <3> DEFINE a == Arg(q, 3).acc
    <3>1. \A s \in Proc : \A t \in Steps(s) : t[1] = "accept" => t[2] # a
      BY DEF Secrets, Fresh
    <3>2. \A k \in Key : secret[k] # None => secret[k].acc # a
      BY FreshNotStored
    <3> HIDE DEF a
    <3>3. \A s \in Proc : \A t \in Steps(s)' : t[1] = "accept" => t[2] # a
      <4> TAKE s \in Proc
      <4> TAKE t \in Steps(s)'
      <4>1. CASE s = p
        BY <3>1, <3>2, <4>1, OwnSteps
      <4>2. CASE s # p
        BY <3>1, <4>2, OthersSteps
      <4>3. QED BY <4>1, <4>2
    <3>4. Arg(q, 2)' = Arg(q, 2) /\ Arg(q, 3)' = Arg(q, 3)
      BY <2>2, OthersSteps
    <3>5. /\ secret[Arg(q, 2)] = None /\ accessor[a] = Arg(q, 2)
          /\ limit[a] = Arg(q, 3).uses /\ accepts[a] = 0
      BY DEF Secrets, Fresh, a
    <3>6. QED BY <3>3, <3>4, <3>5 DEF Fresh, a
  <2>3. QED BY <2>1, <2>2
<1>6. \A q \in Proc : Used(q)'
  <2> TAKE q \in Proc
  <2>1. CASE q = p
    BY <2>1, OwnSteps DEF Used, HeadOK
  <2>2. CASE q # p
    <3>1. Used(q)
      BY DEF Secrets
    <3>2. QED BY <2>2, <3>1, OthersSteps DEF Used
  <2>3. QED BY <2>1, <2>2
<1>7. \A q \in Proc : Doing(q)'
  <2> TAKE q \in Proc
  <2>1. CASE q = p
    BY <2>1, OwnSteps DEF Doing, DoingOK
  <2>2. CASE q # p
    <3>1. Doing(q)
      BY DEF Secrets
    <3>2. QED BY <2>2, <3>1, OthersSteps DEF Doing
  <2>3. QED BY <2>1, <2>2
<1>8. QED BY <1>1, <1>2, <1>3, <1>4, <1>5, <1>6, <1>7 DEF Secrets

LEMMA PlainMove ==
  ASSUME Shapes, Secrets, NEW p \in Proc, NEW w, NEW H, Moved(p, w, H),
         UNCHANGED secrets,
         \A t \in StepsOf(w) : (Plain(t) \/ t \in Steps(p)) /\ t[1] # "delete_accessor",
         HeadOK(w)
  PROVE  Secrets'
<1>1. \A t \in StepsOf(w) : StepOK(t)
  <2> TAKE t \in StepsOf(w)
  <2>1. CASE Plain(t)
    BY <2>1 DEF Plain, StepOK
  <2>2. CASE t \in Steps(p)
    BY <2>2 DEF Secrets
  <2>3. QED BY <2>1, <2>2
<1>2. \A t \in StepsOf(w) : t[1] = "accept" => t \in Steps(p)
  BY DEF Plain
<1>3. DoingOK(w)
  BY DEF DoingOK
<1>4. QED BY <1>1, <1>2, <1>3, LocalMove

LEMMA SubMove ==
  ASSUME Shapes, Secrets, NEW p \in Proc, NEW w, NEW H, Moved(p, w, H),
         UNCHANGED secrets,
         StepsOf(w) \subseteq Steps(p), HeadOK(w)
  PROVE  Secrets'
<1>1. \A t \in StepsOf(w) : StepOK(t)
  BY DEF Secrets
<1>2. DoingOK(w)
  <2>1. Doing(p)
    BY DEF Secrets
  <2>2. QED BY <2>1 DEF Doing, DoingOK
<1>3. QED BY <1>1, <1>2, LocalMove

LEMMA StopMove ==
  ASSUME Shapes, Secrets, NEW p \in Proc, NEW H, Moved(p, <<>>, H),
         UNCHANGED secrets
  PROVE  Secrets'
<1>1. StepsOf(<<>>) = {} /\ HeadOK(<<>>)
  BY DEF StepsOf, HeadOK
<1>2. QED BY <1>1, SubMove

(* The steps there are to a task. *)

LEMMA Steps1 ==
  ASSUME NEW x1
  PROVE  StepsOf(<<x1>>) = {x1} /\ <<x1>> # <<>>
         /\ <<x1>>[1] = x1 /\ Len(<<x1>>) = 1
  BY DEF StepsOf

LEMMA Steps2 ==
  ASSUME NEW x1, NEW x2
  PROVE  StepsOf(<<x1, x2>>) = {x1, x2} /\ <<x1, x2>> # <<>>
         /\ <<x1, x2>>[1] = x1 /\ Len(<<x1, x2>>) = 2
  BY DEF StepsOf

LEMMA Steps3 ==
  ASSUME NEW x1, NEW x2, NEW x3
  PROVE  StepsOf(<<x1, x2, x3>>) = {x1, x2, x3} /\ <<x1, x2, x3>> # <<>>
         /\ <<x1, x2, x3>>[1] = x1 /\ Len(<<x1, x2, x3>>) = 3
  BY DEF StepsOf

LEMMA Steps4 ==
  ASSUME NEW x1, NEW x2, NEW x3, NEW x4
  PROVE  StepsOf(<<x1, x2, x3, x4>>) = {x1, x2, x3, x4} /\ <<x1, x2, x3, x4>> # <<>>
         /\ <<x1, x2, x3, x4>>[1] = x1 /\ Len(<<x1, x2, x3, x4>>) = 4
  BY DEF StepsOf

LEMMA Steps5 ==
  ASSUME NEW x1, NEW x2, NEW x3, NEW x4, NEW x5
  PROVE  StepsOf(<<x1, x2, x3, x4, x5>>) = {x1, x2, x3, x4, x5} /\ <<x1, x2, x3, x4, x5>> # <<>>
         /\ <<x1, x2, x3, x4, x5>>[1] = x1 /\ Len(<<x1, x2, x3, x4, x5>>) = 5
  BY DEF StepsOf

LEMMA Steps6 ==
  ASSUME NEW x1, NEW x2, NEW x3, NEW x4, NEW x5, NEW x6
  PROVE  StepsOf(<<x1, x2, x3, x4, x5, x6>>) = {x1, x2, x3, x4, x5, x6} /\ <<x1, x2, x3, x4, x5, x6>> # <<>>
         /\ <<x1, x2, x3, x4, x5, x6>>[1] = x1 /\ Len(<<x1, x2, x3, x4, x5, x6>>) = 6
  BY DEF StepsOf

LEMMA MildMove ==
  ASSUME Shapes, Secrets, NEW p \in Proc, NEW H, NEW w, Moved(p, w, H), w # <<>>,
         UNCHANGED secrets,
         \A t \in StepsOf(w) : Mild(p, t), w[1][1] \notin {"put_secret", "delete_accessor", "accept"},
         w[1][1] = "delete_secret" => Len(w) # 2
  PROVE  Secrets'
<1>1. HeadOK(w)
  BY DEF HeadOK
<1>2. \A t \in StepsOf(w) : (Plain(t) \/ t \in Steps(p)) /\ t[1] # "delete_accessor"
  BY DEF Mild
<1>3. QED BY <1>1, <1>2, PlainMove

LEMMA Mild1 ==
  ASSUME Shapes, Secrets, NEW p \in Proc, NEW H, NEW x1,
         Moved(p, <<x1>>, H),
         UNCHANGED secrets,
         Mild(p, x1), x1[1] \notin {"put_secret", "accept"}
  PROVE  Secrets'
<1> DEFINE w == <<x1>>
<1>1. StepsOf(w) = {x1} /\ w # <<>> /\ w[1] = x1 /\ Len(w) = 1 /\ Moved(p, w, H)
  BY Steps1
<1> HIDE DEF w
<1>2. x1[1] # "delete_accessor"
  BY DEF Mild
<1>3. QED BY <1>1, <1>2, MildMove

LEMMA Mild2 ==
  ASSUME Shapes, Secrets, NEW p \in Proc, NEW H, NEW x1, NEW x2,
         Moved(p, <<x1, x2>>, H),
         UNCHANGED secrets,
         Mild(p, x1), Mild(p, x2), x1[1] \notin {"put_secret", "accept", "delete_secret"}
  PROVE  Secrets'
<1> DEFINE w == <<x1, x2>>
<1>1. StepsOf(w) = {x1, x2} /\ w # <<>> /\ w[1] = x1 /\ Len(w) = 2 /\ Moved(p, w, H)
  BY Steps2
<1> HIDE DEF w
<1>2. x1[1] # "delete_accessor"
  BY DEF Mild
<1>3. QED BY <1>1, <1>2, MildMove

LEMMA Mild3 ==
  ASSUME Shapes, Secrets, NEW p \in Proc, NEW H, NEW x1, NEW x2, NEW x3,
         Moved(p, <<x1, x2, x3>>, H),
         UNCHANGED secrets,
         Mild(p, x1), Mild(p, x2), Mild(p, x3), x1[1] \notin {"put_secret", "accept"}
  PROVE  Secrets'
<1> DEFINE w == <<x1, x2, x3>>
<1>1. StepsOf(w) = {x1, x2, x3} /\ w # <<>> /\ w[1] = x1 /\ Len(w) = 3 /\ Moved(p, w, H)
  BY Steps3
<1> HIDE DEF w
<1>2. x1[1] # "delete_accessor"
  BY DEF Mild
<1>3. QED BY <1>1, <1>2, MildMove

LEMMA Mild4 ==
  ASSUME Shapes, Secrets, NEW p \in Proc, NEW H, NEW x1, NEW x2, NEW x3, NEW x4,
         Moved(p, <<x1, x2, x3, x4>>, H),
         UNCHANGED secrets,
         Mild(p, x1), Mild(p, x2), Mild(p, x3), Mild(p, x4), x1[1] \notin {"put_secret", "accept"}
  PROVE  Secrets'
<1> DEFINE w == <<x1, x2, x3, x4>>
<1>1. StepsOf(w) = {x1, x2, x3, x4} /\ w # <<>> /\ w[1] = x1 /\ Len(w) = 4 /\ Moved(p, w, H)
  BY Steps4
<1> HIDE DEF w
<1>2. x1[1] # "delete_accessor"
  BY DEF Mild
<1>3. QED BY <1>1, <1>2, MildMove

LEMMA Mild5 ==
  ASSUME Shapes, Secrets, NEW p \in Proc, NEW H, NEW x1, NEW x2, NEW x3, NEW x4, NEW x5,
         Moved(p, <<x1, x2, x3, x4, x5>>, H),
         UNCHANGED secrets,
         Mild(p, x1), Mild(p, x2), Mild(p, x3), Mild(p, x4), Mild(p, x5), x1[1] \notin {"put_secret", "accept"}
  PROVE  Secrets'
<1> DEFINE w == <<x1, x2, x3, x4, x5>>
<1>1. StepsOf(w) = {x1, x2, x3, x4, x5} /\ w # <<>> /\ w[1] = x1 /\ Len(w) = 5 /\ Moved(p, w, H)
  BY Steps5
<1> HIDE DEF w
<1>2. x1[1] # "delete_accessor"
  BY DEF Mild
<1>3. QED BY <1>1, <1>2, MildMove

LEMMA Mild6 ==
  ASSUME Shapes, Secrets, NEW p \in Proc, NEW H, NEW x1, NEW x2, NEW x3, NEW x4, NEW x5, NEW x6,
         Moved(p, <<x1, x2, x3, x4, x5, x6>>, H),
         UNCHANGED secrets,
         Mild(p, x1), Mild(p, x2), Mild(p, x3), Mild(p, x4), Mild(p, x5), Mild(p, x6), x1[1] \notin {"put_secret", "accept"}
  PROVE  Secrets'
<1> DEFINE w == <<x1, x2, x3, x4, x5, x6>>
<1>1. StepsOf(w) = {x1, x2, x3, x4, x5, x6} /\ w # <<>> /\ w[1] = x1 /\ Len(w) = 6 /\ Moved(p, w, H)
  BY Steps6
<1> HIDE DEF w
<1>2. x1[1] # "delete_accessor"
  BY DEF Mild
<1>3. QED BY <1>1, <1>2, MildMove

(* Requests, and the steps about roles. *)
LEMMA RequestSecrets ==
  ASSUME Shapes, Secrets, NEW p \in Callers, NEW r \in Name, NEW b \in BOOLEAN, NEW x, Plain(x),
         Request(p, <<<<"lock", r, b>>, x>>)
  PROVE  Secrets'
<1> DEFINE l == <<"lock", r, b>>
<1>1. p \in Proc
  BY CallerIsProc
<1>2. UNCHANGED secrets
  BY DEF Request, storage, history
<1>3. Moved(p, <<l, x>>, {})
  BY <1>1, RequestMoves
<1>4. Mild(p, l) /\ Mild(p, x) /\ l[1] = "lock"
  BY DEF Mild, Plain
<1> HIDE DEF l
<1>5. QED BY <1>1, <1>2, <1>3, <1>4, Mild2

LEMMA RequestsSecrets ==
  ASSUME Shapes, Secrets, NEW p \in Callers, Requests(p)
  PROVE  Secrets'
<1>1. ASSUME NEW r \in Name, NEW n, NEW x, Request(p, <<write(r), <<"set_role", n, x>>>>)
      PROVE  Secrets'
  <2>1. Plain(<<"set_role", n, x>>)
    BY DEF Plain
  <2>2. QED BY <1>1, <2>1, RequestSecrets DEF write
<1>2. CASE WriteRole(p) \/ SetField(p)
  BY <1>1, <1>2 DEF WriteRole, SetField
<1>3. CASE DeleteRole(p)
  <2>1. PICK r \in Name : Request(p, <<write(r), <<"delete_role", r>>>>)
    BY <1>3 DEF DeleteRole
  <2>2. Plain(<<"delete_role", r>>)
    BY DEF Plain
  <2>3. QED BY <2>1, <2>2, RequestSecrets DEF write
<1>4. CASE ReadRole(p)
  <2>1. PICK r \in Name : Request(p, <<read(r), <<"read_role", r>>>>)
    BY <1>4 DEF ReadRole
  <2>2. Plain(<<"read_role", r>>)
    BY DEF Plain
  <2>3. QED BY <2>1, <2>2, RequestSecrets DEF read
<1>5. CASE Register(p)
  <2>1. PICK r \in Name, s \in Sid, u \in 0..MaxUses, ttl \in 0..1 :
          Request(p, <<read(r), <<"register", r, s, u, ttl>>>>)
    BY <1>5 DEF Register
  <2>2. Plain(<<"register", r, s, u, ttl>>)
    BY DEF Plain
  <2>3. QED BY <2>1, <2>2, RequestSecrets DEF read
<1>6. CASE Destroy(p)
  <2>1. PICK r \in Name, s \in Sid : Request(p, <<read(r), <<"destroy", r, s>>>>)
    BY <1>6 DEF Destroy
  <2>2. Plain(<<"destroy", r, s>>)
    BY DEF Plain
  <2>3. QED BY <2>1, <2>2, RequestSecrets DEF read
<1>7. CASE Lookup(p)
  <2>1. PICK r \in Name, s \in Sid : Request(p, <<read(r), <<"lookup", r, s>>>>)
    BY <1>7 DEF Lookup
  <2>2. Plain(<<"lookup", r, s>>)
    BY DEF Plain
  <2>3. QED BY <2>1, <2>2, RequestSecrets DEF read
<1>8. CASE DestroyByAccessor(p)
  <2>1. PICK r \in Name, a \in Acc : Request(p, <<write(r), <<"destroy_accessor", r, a>>>>)
    BY <1>8 DEF DestroyByAccessor
  <2>2. Plain(<<"destroy_accessor", r, a>>)
    BY DEF Plain
  <2>3. QED BY <2>1, <2>2, RequestSecrets DEF write
<1>9. CASE Login(p)
  <2>1. PICK x \in Rid, s \in Sid : Request(p, <<<<"login", x, s, gone>>>>)
    BY <1>9 DEF Login
  <2> DEFINE t == <<"login", x, s, gone>> w == <<t>>
  <2>2. StepOK(t) /\ t[1] = "login"
    BY DEF StepOK
  <2>3. p \in Proc /\ Moved(p, w, {})
    BY <2>1, CallerIsProc, RequestMoves
  <2>4. UNCHANGED secrets
    BY <2>1 DEF Request, storage, history
  <2> HIDE DEF t
  <2>5. StepsOf(w) = {t} /\ w[1] = t
    BY Steps1
  <2> HIDE DEF w
  <2>6. HeadOK(w) /\ DoingOK(w)
    BY <2>2, <2>5 DEF HeadOK, DoingOK
  <2>7. QED BY <2>2, <2>3, <2>4, <2>5, <2>6, LocalMove
<1>10. QED BY <1>2, <1>3, <1>4, <1>5, <1>6, <1>7, <1>8, <1>9 DEF Requests

LEMMA RoleStepSecrets ==
  ASSUME Shapes, Secrets, NEW p \in Callers, RoleStep(p)
  PROVE  Secrets'
<1>1. p \in Proc
  BY CallerIsProc
<1>2. UNCHANGED secrets
  <2>1. CASE SetRole(p) \/ PutRole(p) \/ SetRoleId(p) \/ DeleteRoleId(p)
    BY <2>1 DEF SetRole, PutRole, SetRoleId, DeleteRoleId, storage, history
  <2>2. CASE DeleteRoleStep(p) \/ Flush(p) \/ ReadRoleStep(p) \/ Repair(p)
    BY <2>2 DEF DeleteRoleStep, Flush, ForEach, ReadRoleStep, Repair, storage, history
  <2>3. QED BY <2>1, <2>2 DEF RoleStep
<1>3. ASSUME Moved(p, <<>>, {}) PROVE Secrets'
  BY <1>1, <1>2, <1>3, StopMove
<1>a. ASSUME NEW x, NEW r, Moved(p, <<<<"set_role_id", x, r>>>>, held[p]) PROVE Secrets'
  <2> DEFINE t == <<"set_role_id", x, r>>
  <2>1. Mild(p, t) /\ t[1] = "set_role_id"
    BY DEF Mild, Plain
  <2> HIDE DEF t
  <2>2. QED BY <1>1, <1>2, <1>a, <2>1, Mild1 DEF t
<1>b. ASSUME NEW e, NEW r, Moved(p, <<<<"put_role", r, e>>>>, held[p]) PROVE Secrets'
  <2> DEFINE t == <<"put_role", r, e>>
  <2>1. Mild(p, t) /\ t[1] = "put_role"
    BY DEF Mild, Plain
  <2> HIDE DEF t
  <2>2. QED BY <1>1, <1>2, <1>b, <2>1, Mild1 DEF t
<1>c. ASSUME NEW e, NEW r, NEW x, Moved(p, <<<<"put_role", r, e>>, <<"set_role_id", x, r>>>>, held[p])
      PROVE  Secrets'
  <2> DEFINE t == <<"put_role", r, e>> u == <<"set_role_id", x, r>>
  <2>1. Mild(p, t) /\ t[1] = "put_role" /\ Mild(p, u)
    BY DEF Mild, Plain
  <2> HIDE DEF t, u
  <2>2. QED BY <1>1, <1>2, <1>c, <2>1, Mild2 DEF t, u
<1>d. ASSUME NEW o, NEW r, Moved(p, <<<<"delete_role_id", o, r>>, <<"put_role", r, None>>>>, held[p])
      PROVE  Secrets'
  <2> DEFINE t == <<"delete_role_id", o, r>> u == <<"put_role", r, None>>
  <2>1. Mild(p, t) /\ t[1] = "delete_role_id" /\ Mild(p, u)
    BY DEF Mild, Plain
  <2> HIDE DEF t, u
  <2>2. QED BY <1>1, <1>2, <1>d, <2>1, Mild2 DEF t, u
<1>4. CASE SetRole(p)
  <2>1. ASSUME NEW r, NEW o, NEW e, NEW x,
               Moved(p, <<<<"delete_role_id", o, r>>, <<"put_role", r, e>>,
                          <<"set_role_id", x, r>>>>, held[p])
        PROVE  Secrets'
    <3> DEFINE t == <<"delete_role_id", o, r>> u == <<"put_role", r, e>> v == <<"set_role_id", x, r>>
    <3>1. Mild(p, t) /\ t[1] = "delete_role_id" /\ Mild(p, u) /\ Mild(p, v)
      BY DEF Mild, Plain
    <3> HIDE DEF t, u, v
    <3>2. QED BY <1>1, <1>2, <2>1, <3>1, Mild3 DEF t, u, v
  <2>2. PICK r \in Name, y \in Rid \cup {None} : SetRoleEffect(p, r, y)
    BY <1>4, SetRoleMoves
  <2> USE DEF SetRoleEffect
  <2>3. QED BY <1>3, <1>b, <1>c, <2>1, <2>2
<1>5. CASE PutRole(p)
  <2>1. PICK r \in Name : PutRoleEffect(p, r)
    BY <1>5, PutRoleMoves
  <2> USE DEF PutRoleEffect
  <2>2. QED BY <1>3, <1>a, <2>1
<1>6. CASE SetRoleId(p)
  BY <1>3, <1>6, SetRoleIdMoves
<1>7. CASE DeleteRoleId(p)
  <2>1. PICK x \in Rid, r \in Name : DeleteRoleIdEffect(p, x, r)
    BY <1>7, DeleteRoleIdMoves
  <2> USE DEF DeleteRoleIdEffect
  <2>2. QED BY <1>b, <1>c, <2>1
<1>8. CASE DeleteRoleStep(p)
  <2>1. ASSUME NEW K, NEW o, NEW r,
               Moved(p, <<<<"flush", K>>, <<"delete_role_id", o, r>>,
                          <<"put_role", r, None>>>>, held[p])
        PROVE  Secrets'
    <3> DEFINE t == <<"flush", K>> u == <<"delete_role_id", o, r>> v == <<"put_role", r, None>>
    <3>1. Mild(p, t) /\ t[1] = "flush" /\ Mild(p, u) /\ Mild(p, v)
      BY DEF Mild, Plain
    <3> HIDE DEF t, u, v
    <3>2. QED BY <1>1, <1>2, <2>1, <3>1, Mild3 DEF t, u, v
  <2>2. PICK r \in Name : DeleteRoleStepEffect(p, r)
    BY <1>8, DeleteRoleStepMoves
  <2> USE DEF DeleteRoleStepEffect
  <2>3. QED BY <1>3, <2>1, <2>2
<1>9. CASE Flush(p)
  <2>1. ASSUME NEW k, NEW K, NEW x, NEW r,
               Moved(p, <<write(k), <<"delete_secret", k>>, <<"unlock", k>>,
                          <<"flush", K>>, <<"delete_role_id", x, r>>,
                          <<"put_role", r, None>>>>, held[p])
        PROVE  Secrets'
    <3> DEFINE a == write(k) b == <<"delete_secret", k>> c == <<"unlock", k>>
               t == <<"flush", K>> u == <<"delete_role_id", x, r>> v == <<"put_role", r, None>>
    <3>1. Mild(p, a) /\ a[1] = "lock"
      BY DEF Mild, Plain, write
    <3>2. Mild(p, b) /\ Mild(p, c) /\ Mild(p, t) /\ Mild(p, u) /\ Mild(p, v)
      BY DEF Mild, Plain
    <3>3. Moved(p, <<a, b, c, t, u, v>>, held[p])
      BY <2>1
    <3> HIDE DEF a, b, c, t, u, v
    <3>4. QED BY <1>1, <1>2, <3>1, <3>2, <3>3, Mild6
  <2>2. PICK K \in SUBSET Key, x \in Rid, r \in Name : FlushEffect(p, K, x, r)
    BY <1>9, FlushMoves
  <2> USE DEF FlushEffect
  <2>3. QED BY <1>d, <2>1, <2>2
<1>10. CASE ReadRoleStep(p)
  <2>1. ASSUME NEW r, NEW x, Moved(p, <<<<"unlock", r>>, write(r), <<"repair", x, r>>>>, held[p])
        PROVE  Secrets'
    <3> DEFINE t == <<"unlock", r>> u == write(r) v == <<"repair", x, r>>
    <3>1. Mild(p, t) /\ t[1] = "unlock" /\ Mild(p, u) /\ Mild(p, v)
      BY DEF Mild, Plain, write
    <3>2. Moved(p, <<t, u, v>>, held[p])
      BY <2>1
    <3> HIDE DEF t, u, v
    <3>3. QED BY <1>1, <1>2, <3>1, <3>2, Mild3
  <2>2. QED BY <1>3, <1>10, <2>1, ReadRoleStepMoves
<1>11. CASE Repair(p)
  <2>1. PICK x \in Rid, r \in Name :
          Moved(p, <<>>, {}) \/ Moved(p, <<<<"set_role_id", x, Lower[r]>>>>, held[p])
    BY <1>11, RepairMoves DEF RepairEffect
  <2>2. QED BY <1>3, <1>a, <2>1
<1>12. QED BY <1>4, <1>5, <1>6, <1>7, <1>8, <1>9, <1>10, <1>11 DEF RoleStep

(* Steps about secret ids that write nothing. *)
LEMMA LookingSecrets ==
  ASSUME Shapes, Secrets, NEW p \in Callers,
         RegisterStep(p) \/ DestroyStep(p) \/ LookupStep(p) \/ LookupEntry(p)
  PROVE  Secrets'
<1>1. p \in Proc
  BY CallerIsProc
<1>2. UNCHANGED secrets
  BY DEF RegisterStep, DestroyStep, LookupStep, OnSecret, LookupEntry, storage, history
<1>3. ASSUME Moved(p, <<>>, {}) PROVE Secrets'
  BY <1>1, <1>2, <1>3, StopMove
<1>4. ASSUME NEW k, NEW t, Plain(t), t[1] # "delete_accessor", Moved(p, <<write(k), t>>, held[p])
      PROVE  Secrets'
  <2> DEFINE l == write(k)
  <2>1. Mild(p, l) /\ l[1] = "lock" /\ Mild(p, t)
    BY <1>4 DEF Mild, Plain, write
  <2>2. Moved(p, <<l, t>>, held[p])
    BY <1>4
  <2> HIDE DEF l
  <2>3. QED BY <1>1, <1>2, <2>1, <2>2, Mild2
<1>5. CASE RegisterStep(p)
  <2>1. PICK r \in Name, s \in Sid, u \in 0..MaxUses, ttl \in 0..1 :
           \/ Moved(p, <<>>, {})
           \/ \E k \in Key : Moved(p, <<write(k), <<"register_entry", k, u, ttl>>>>, held[p])
    BY <1>5, RegisterStepMoves
  <2>2. \A k : Plain(<<"register_entry", k, u, ttl>>)
    BY DEF Plain
  <2>3. QED BY <1>3, <1>4, <2>1, <2>2
<1>6. CASE DestroyStep(p)
  <2>1. PICK r \in Name, s \in Sid :
           \/ Moved(p, <<>>, {})
           \/ \E k \in Key : Moved(p, <<write(k), <<"destroy_entry", k>>>>, held[p])
    BY <1>6, DestroyStepMoves
  <2>2. \A k : Plain(<<"destroy_entry", k>>)
    BY DEF Plain
  <2>3. QED BY <1>3, <1>4, <2>1, <2>2
<1>7. CASE LookupStep(p)
  <2>1. PICK r \in Name, s \in Sid :
           \/ Moved(p, <<>>, {})
           \/ \E k \in Key : Moved(p, <<write(k), <<"lookup_entry", k>>>>, held[p])
    BY <1>7, LookupStepMoves
  <2>2. \A k : Plain(<<"lookup_entry", k>>)
    BY DEF Plain
  <2>3. QED BY <1>3, <1>4, <2>1, <2>2
<1>8. CASE LookupEntry(p)
  <2>1. PICK k \in Key : Moved(p, <<>>, {}) \/ Moved(p, <<<<"delete_secret", k>>>>, held[p])
    BY <1>8, LookupEntryMoves
  <2> DEFINE t == <<"delete_secret", k>>
  <2>2. Mild(p, t) /\ t[1] = "delete_secret"
    BY DEF Mild, Plain
  <2>3. Moved(p, <<>>, {}) \/ Moved(p, <<t>>, held[p])
    BY <2>1
  <2> HIDE DEF t
  <2>4. QED BY <1>1, <1>2, <1>3, <2>2, <2>3, Mild1
<1>9. QED BY <1>5, <1>6, <1>7, <1>8

(* A secret id that was found is to be deleted, and its accessor. *)
LEMMA RevokeMove ==
  ASSUME Shapes, Secrets, NEW p \in Proc, NEW k \in Key, NEW a \in Acc, made[a] = k,
         Moved(p, <<<<"delete_accessor", a>>, <<"delete_secret", k>>>>, held[p]),
         UNCHANGED secrets
  PROVE  Secrets'
<1> DEFINE t == <<"delete_accessor", a>> u == <<"delete_secret", k>> w == <<t, u>>
<1>1. StepOK(t) /\ StepOK(u)
  BY NameAssumption DEF StepOK
<1>2. t[1] = "delete_accessor" /\ t[2] = a /\ u[1] = "delete_secret" /\ u[2] = k
  OBVIOUS
<1> HIDE DEF t, u
<1>3. StepsOf(w) = {t, u} /\ w[1] = t /\ Len(w) = 2
  BY Steps2
<1>4. Moved(p, w, held[p])
  BY DEF t, u
<1> HIDE DEF w
<1>5. HeadOK(w) /\ DoingOK(w)
  BY <1>2, <1>3 DEF HeadOK, DoingOK
<1>6. QED BY <1>1, <1>2, <1>3, <1>4, <1>5, LocalMove

LEMMA DestroySecrets ==
  ASSUME Shapes, Secrets, NEW p \in Callers,
         DestroyEntry(p) \/ DestroyAccessorStep(p) \/ DestroyFound(p)
  PROVE  Secrets'
<1>1. p \in Proc
  BY CallerIsProc
<1>2. UNCHANGED secrets
  BY DEF DestroyEntry, DestroyAccessorStep, DestroyFound, storage, history
<1>3. ASSUME Moved(p, <<>>, {}) PROVE Secrets'
  BY <1>1, <1>2, <1>3, StopMove
<1>4. CASE DestroyEntry(p)
  <2>1. PICK k \in Key :
          \/ Moved(p, <<>>, {})
          \/ /\ secret[k] # None /\ secret[k] \in SecretEntry
             /\ Moved(p, <<<<"delete_accessor", secret[k].acc>>, <<"delete_secret", k>>>>, held[p])
    BY <1>4, DestroyEntryMoves DEF DestroyEntryEffect
  <2>2. CASE secret[k] # None /\ secret[k] \in SecretEntry
             /\ Moved(p, <<<<"delete_accessor", secret[k].acc>>, <<"delete_secret", k>>>>, held[p])
    <3>1. secret[k].acc \in Acc
      BY <2>2 DEF SecretEntry
    <3>2. made[secret[k].acc] = k
      BY <2>2 DEF Secrets, MadeOK
    <3>3. QED BY <1>1, <1>2, <2>2, <3>1, <3>2, RevokeMove
  <2>3. QED BY <1>3, <2>1, <2>2
<1>5. CASE DestroyAccessorStep(p)
  <2>1. PICK a \in Acc :
          \/ Moved(p, <<>>, {})
          \/ \E k \in Key : accessor[a] = k /\
               Moved(p, <<write(k), <<"destroy_found", k, a>>>>, held[p])
    BY <1>5, DestroyAccessorStepMoves
  <2>2. ASSUME NEW k \in Key, accessor[a] = k,
               Moved(p, <<write(k), <<"destroy_found", k, a>>>>, held[p])
        PROVE  Secrets'
    <3> DEFINE t == write(k) u == <<"destroy_found", k, a>> w == <<t, u>>
    <3>1. made[a] = k
      BY <2>2, NameAssumption DEF Secrets, MadeOK
    <3>2. StepOK(t) /\ StepOK(u) /\ t[1] = "lock" /\ u[1] = "destroy_found"
      BY <3>1 DEF StepOK, write
    <3>3. Moved(p, w, held[p])
      BY <2>2
    <3> HIDE DEF t, u
    <3>4. StepsOf(w) = {t, u} /\ w[1] = t
      BY Steps2
    <3> HIDE DEF w
    <3>5. HeadOK(w) /\ DoingOK(w)
      BY <3>2, <3>4 DEF HeadOK, DoingOK
    <3>6. QED BY <1>1, <1>2, <3>2, <3>3, <3>4, <3>5, LocalMove
  <2>3. QED BY <1>3, <2>1, <2>2
<1>6. CASE DestroyFound(p)
  <2>1. PICK r \in Name, k \in Key, a \in Acc : DestroyFoundEffect(p, r, k, a)
    BY <1>6, DestroyFoundMoves
  <2> USE DEF DestroyFoundEffect
  <2>2. made[a] = k
    <3> DEFINE t == <<"destroy_found", k, a>>
    <3>1. t \in Steps(p)
      BY <2>1, Steps1 DEF Steps
    <3>2. StepOK(t)
      BY <3>1, <1>1 DEF Secrets
    <3>3. QED BY <3>2 DEF StepOK
  <2>3. QED BY <1>1, <1>2, <1>3, <2>1, <2>2, RevokeMove
<1>7. QED BY <1>4, <1>5, <1>6

(* Login up to the acceptance. *)
LEMMA LoginIndexSecrets ==
  ASSUME Shapes, Secrets, NEW p \in Callers, LoginIndex(p)
  PROVE  Secrets'
<1>1. p \in Proc /\ UNCHANGED secrets
  BY CallerIsProc DEF LoginIndex, storage, history
<1>2. PICK x \in Rid, s \in Sid, g \in SUBSET Acc :
           /\ work[p] = <<<<"login", x, s, g>>>> /\ held[p] = {}
           /\ \/ Moved(p, <<>>, {})
              \/ \E r \in Name : Moved(p, <<read(r), <<"login_role", r, s, g>>>>, held[p])
  BY LoginIndexMoves
<1>3. CASE Moved(p, <<>>, {})
  BY <1>1, <1>3, StopMove
<1>4. ASSUME NEW r \in Name, Moved(p, <<read(r), <<"login_role", r, s, g>>>>, held[p])
      PROVE  Secrets'
  <2> DEFINE t == read(r) u == <<"login_role", r, s, g>> w == <<t, u>> v == <<"login", x, s, g>>
  <2>1. v \in Steps(p)
    BY <1>2, Steps1 DEF Steps
  <2>2. StepOK(v)
    BY <1>1, <2>1 DEF Secrets
  <2>3. g \subseteq gone
    BY <2>2 DEF StepOK
  <2>4. StepOK(t) /\ StepOK(u) /\ t[1] = "lock" /\ u[1] = "login_role"
    BY <2>3 DEF StepOK, read
  <2>5. Moved(p, w, held[p])
    BY <1>4
  <2> HIDE DEF t, u, v
  <2>6. StepsOf(w) = {t, u} /\ w[1] = t
    BY Steps2
  <2> HIDE DEF w
  <2>7. HeadOK(w) /\ DoingOK(w)
    BY <2>4, <2>6 DEF HeadOK, DoingOK
  <2>8. QED BY <1>1, <2>4, <2>5, <2>6, <2>7, LocalMove
<1>5. QED BY <1>2, <1>3, <1>4

LEMMA LoginRoleSecrets ==
  ASSUME Shapes, Secrets, NEW p \in Callers, LoginRole(p)
  PROVE  Secrets'
<1>1. p \in Proc /\ UNCHANGED secrets
  BY CallerIsProc DEF LoginRole, storage, history
<1>2. PICK r \in Name, s \in Sid, g \in SUBSET Acc :
           /\ work[p] = <<<<"login_role", r, s, g>>>> /\ held[p] = {<<r, FALSE>>}
           /\ \/ Moved(p, <<>>, {})
              \/ \E k \in Key :
                   Moved(p, <<<<"unlock", r>>, read(k), <<"login_secret", k, g>>>>, held[p])
  BY LoginRoleMoves
<1>3. CASE Moved(p, <<>>, {})
  BY <1>1, <1>3, StopMove
<1>4. ASSUME NEW k \in Key,
             Moved(p, <<<<"unlock", r>>, read(k), <<"login_secret", k, g>>>>, held[p])
      PROVE  Secrets'
  <2> DEFINE t0 == <<"unlock", r>> t == read(k) u == <<"login_secret", k, g>> w == <<t0, t, u>>
             v == <<"login_role", r, s, g>>
  <2>1. v \in Steps(p)
    BY <1>2, Steps1 DEF Steps
  <2>2. StepOK(v)
    BY <1>1, <2>1 DEF Secrets
  <2>3. g \subseteq gone
    BY <2>2 DEF StepOK
  <2>4. /\ StepOK(t) /\ StepOK(u) /\ StepOK(t0)
        /\ t[1] = "lock" /\ u[1] = "login_secret" /\ t0[1] = "unlock"
    BY <2>3 DEF StepOK, read
  <2>5. Moved(p, w, held[p])
    BY <1>4
  <2> HIDE DEF t, t0, u, v
  <2>6. StepsOf(w) = {t0, t, u} /\ w[1] = t0
    BY Steps3
  <2> HIDE DEF w
  <2>7. HeadOK(w) /\ DoingOK(w)
    BY <2>4, <2>6 DEF HeadOK, DoingOK
  <2>8. QED BY <1>1, <2>4, <2>5, <2>6, <2>7, LocalMove
<1>5. QED BY <1>2, <1>3, <1>4

(* An accessor that is there has not gone with its secret id. *)
LEMMA StoredNotGone ==
  ASSUME Shapes, Secrets, NEW k \in Key, secret[k] # None, accessor[secret[k].acc] # None
  PROVE  secret[k].acc \notin gone
<1>1. made[secret[k].acc] = k
  BY DEF Secrets, MadeOK
<1>2. QED BY <1>1 DEF Secrets, GoneOK

(* Without a limit the entry says nought, unless it was counted below. *)
LEMMA NoUsesNoLimit ==
  ASSUME Shapes, Secrets, NEW k \in Key, secret[k] # None, secret[k].uses = 0
  PROVE  limit[secret[k].acc] = 0
<1>1. limit[secret[k].acc] > 0 => secret[k].uses > 0
  BY DEF Secrets, UsesOK
<1>2. secret[k].acc \in Acc
  BY DEF Shapes, EntriesTyped, SecretEntry
<1>3. limit[secret[k].acc] \in Nat
  BY <1>2, BoundAssumption DEF Shapes, HistoryTyped
<1>4. QED BY <1>1, <1>3

LEMMA LoginSecretSecrets ==
  ASSUME Shapes, Secrets, NEW p \in Callers, LoginSecret(p)
  PROVE  Secrets'
<1>1. p \in Proc /\ UNCHANGED secrets
  BY CallerIsProc DEF LoginSecret, storage, history
<1>2. PICK k \in Key, g \in SUBSET Acc : LoginSecretEffect(p, k, g)
  BY LoginSecretMoves
<1> USE DEF LoginSecretEffect
<1> DEFINE v == <<"login_secret", k, g>> e == secret[k]
<1>3. g \subseteq gone
  <2>1. v \in Steps(p)
    BY <1>2, Steps1 DEF Steps
  <2>2. StepOK(v)
    BY <1>1, <2>1 DEF Secrets
  <2>3. QED BY <2>2 DEF StepOK
<1>4. CASE Moved(p, <<>>, {})
  BY <1>1, <1>4, StopMove
<1>5. CASE Moved(p, <<<<"delete_secret", k>>>>, held[p])
  <2> DEFINE t == <<"delete_secret", k>>
  <2>1. Mild(p, t) /\ t[1] = "delete_secret"
    BY DEF Mild, Plain
  <2>2. Moved(p, <<t>>, held[p])
    BY <1>5
  <2> HIDE DEF t
  <2>3. QED BY <1>1, <2>1, <2>2, Mild1
<1>6. ASSUME e # None, accessor[e.acc] # None, e.uses = 0, Moved(p, <<<<"accept", e.acc, g>>>>, held[p])
      PROVE  Secrets'
  <2> DEFINE t == <<"accept", e.acc, g>> w == <<t>>
  <2>1. e.acc \notin g /\ e.acc \in Acc /\ made[e.acc] = k /\ limit[e.acc] = 0
    BY <1>3, <1>6, StoredNotGone, NoUsesNoLimit
       DEF Secrets, MadeOK, Shapes, EntriesTyped, SecretEntry
  <2>2. t[1] = "accept" /\ t[2] = e.acc
    OBVIOUS
  <2>3. StepOK(t)
    BY <2>1, NameAssumption DEF StepOK
  <2>4. Moved(p, w, held[p])
    BY <1>6
  <2> HIDE DEF t
  <2>5. StepsOf(w) = {t} /\ w[1] = t
    BY Steps1
  <2> HIDE DEF w
  <2>6. HeadOK(w) /\ DoingOK(w)
    BY <2>1, <2>2, <2>5 DEF HeadOK, DoingOK
  <2>7. QED BY <1>1, <1>6, <2>2, <2>3, <2>4, <2>5, <2>6, LocalMove
<1>7. ASSUME e # None, accessor[e.acc] # None,
             Moved(p, <<<<"unlock", k>>, write(k), <<"login_use", k, g>>>>, held[p])
      PROVE  Secrets'
  <2> DEFINE t0 == <<"unlock", k>> t == write(k) u == <<"login_use", k, g>> w == <<t0, t, u>>
  <2>1. e.acc \notin g
    BY <1>3, <1>7, StoredNotGone
  <2>2. /\ StepOK(t) /\ StepOK(u) /\ StepOK(t0)
        /\ t[1] = "lock" /\ u[1] = "login_use" /\ t0[1] = "unlock"
    BY <1>3, <2>1 DEF StepOK, write
  <2>3. Moved(p, w, held[p])
    BY <1>7
  <2> HIDE DEF t, t0, u
  <2>4. StepsOf(w) = {t0, t, u} /\ w[1] = t0
    BY Steps3
  <2> HIDE DEF w
  <2>5. HeadOK(w) /\ DoingOK(w)
    BY <2>2, <2>4 DEF HeadOK, DoingOK
  <2>6. QED BY <1>1, <2>2, <2>3, <2>4, <2>5, LocalMove
<1>8. QED BY <1>2, <1>4, <1>5, <1>6, <1>7

LEMMA LoginUseSecrets ==
  ASSUME Shapes, Secrets, NEW p \in Callers, LoginUse(p)
  PROVE  Secrets'
<1>1. p \in Proc /\ UNCHANGED secrets
  BY CallerIsProc DEF LoginUse, storage, history
<1>2. PICK k \in Key, g \in SUBSET Acc : LoginUseEffect(p, k, g)
  BY LoginUseMoves
<1> USE DEF LoginUseEffect
<1> DEFINE v == <<"login_use", k, g>> e == secret[k]
<1>3. e # None => e.acc \notin g
  <2>1. v \in Steps(p)
    BY <1>2, Steps1 DEF Steps
  <2>2. StepOK(v)
    BY <1>1, <2>1 DEF Secrets
  <2>3. QED BY <2>2 DEF StepOK
<1>4. CASE Moved(p, <<>>, {})
  BY <1>1, <1>4, StopMove
<1>5. ASSUME e # None, e \in SecretEntry, e.uses = 1,
             Moved(p, <<<<"delete_accessor", e.acc>>, <<"delete_secret", k>>,
                        <<"accept", e.acc, g>>>>, held[p])
      PROVE  Secrets'
  <2> DEFINE a == e.acc
             t == <<"delete_accessor", a>> u == <<"delete_secret", k>> x == <<"accept", a, g>>
             w == <<t, u, x>>
  <2>1. a \notin g /\ a \in Acc /\ made[a] = k
    BY <1>3, <1>5 DEF Secrets, MadeOK, SecretEntry
  <2>2. /\ t[1] = "delete_accessor" /\ t[2] = a /\ u[1] = "delete_secret" /\ u[2] = k
        /\ x[1] = "accept" /\ x[2] = a
    OBVIOUS
  <2>3. StepOK(t) /\ StepOK(u) /\ StepOK(x)
    BY <2>1, NameAssumption DEF StepOK
  <2>4. Moved(p, w, held[p])
    BY <1>5
  <2> HIDE DEF t, u, x
  <2>5. StepsOf(w) = {t, u, x} /\ w[1] = t /\ w[2] = u
    BY Steps3
  <2> HIDE DEF w
  <2>6. HeadOK(w) /\ DoingOK(w)
    BY <1>5, <2>1, <2>2, <2>5 DEF HeadOK, DoingOK
  <2>7. QED BY <1>1, <1>5, <2>2, <2>3, <2>4, <2>5, <2>6, LocalMove
<1>6. ASSUME e # None, e \in SecretEntry, NEW f \in SecretEntry, e.uses # 1,
             f = [e EXCEPT !.uses = @ - 1], f.acc = e.acc,
             Moved(p, <<<<"put_secret", k, f>>, <<"accept", f.acc, g>>>>, held[p])
      PROVE  Secrets'
  <2> DEFINE a == f.acc t == <<"put_secret", k, f>> x == <<"accept", a, g>> w == <<t, x>>
  <2>1. a \notin g /\ a \in Acc /\ made[a] = k
    BY <1>3, <1>6 DEF Secrets, MadeOK, SecretEntry
  <2>2. t[1] = "put_secret" /\ t[2] = k /\ t[3] = f /\ x[1] = "accept" /\ x[2] = a
    OBVIOUS
  <2>3. StepOK(t) /\ StepOK(x)
    BY <2>1, NameAssumption DEF StepOK
  <2>4. Moved(p, w, held[p])
    BY <1>6
  <2> HIDE DEF t, x
  <2>5. StepsOf(w) = {t, x} /\ w[1] = t /\ Len(w) = 2
    BY Steps2
  <2> HIDE DEF w
  <2>6. HeadOK(w) /\ DoingOK(w)
    BY <1>6, <2>1, <2>2, <2>5 DEF HeadOK, DoingOK
  <2>7. QED BY <1>1, <1>6, <2>2, <2>3, <2>4, <2>5, <2>6, LocalMove
<1>7. QED BY <1>2, <1>4, <1>5, <1>6

(* What comes after a lock is neither an acceptance nor the use of a secret. *)
LEMMA LockedHead ==
  ASSUME NEW p \in Proc, NEW H, NEW w, Body(p, H, w), Locked(w)
  PROVE  HeadOK(w)
<1>1. ASSUME w[1][1] = "delete_accessor", Len(w) = 3, w[2][1] = "unlock"
      PROVE  FALSE
  <2>1. CASE p = Tidy
    BY <1>1, <2>1 DEF Body, TidyBody
  <2>2. CASE p # Tidy
    <3>1. CallerBody(H, w)
      BY <2>2 DEF Body
    <3>2. PICK k \in Key, a \in Acc :
            \/ \E r \in Name, b \in BOOLEAN :
                 w = <<<<"delete_accessor", a>>, <<"delete_secret", k>>>>
                 /\ H = {<<r, b>>, <<k, TRUE>>}
            \/ \E g \in SUBSET Acc :
                 w = <<<<"delete_accessor", a>>, <<"delete_secret", k>>, <<"accept", a, g>>>>
                 /\ H = {<<k, TRUE>>}
      BY <1>1, <3>1 DEF CallerBody, WriteBody
    <3>3. w # <<<<"delete_accessor", a>>, <<"delete_secret", k>>>>
      BY <1>1
    <3>4. ASSUME NEW g,
                 w = <<<<"delete_accessor", a>>, <<"delete_secret", k>>, <<"accept", a, g>>>>
          PROVE  FALSE
      BY <1>1, <3>4
    <3>5. QED BY <3>2, <3>3, <3>4
  <2>3. QED BY <2>1, <2>2
<1>2. ASSUME w[1][1] = "delete_secret", Len(w) = 2, w[2][1] = "unlock"
      PROVE  FALSE
  <2>1. CASE p = Tidy
    BY <1>2, <2>1 DEF Body, TidyBody
  <2>2. CASE p # Tidy
    <3>1. CallerBody(H, w)
      BY <2>2 DEF Body
    <3>2. PICK k \in Key :
           \/ \E r \in Name, b \in BOOLEAN : w = <<<<"delete_secret", k>>>>
                /\ H = {<<r, b>>, <<k, TRUE>>}
           \/ w = <<<<"delete_secret", k>>>> /\ H = {<<k, FALSE>>}
           \/ \E a \in Acc, g \in SUBSET Acc :
                w = <<<<"delete_secret", k>>, <<"accept", a, g>>>> /\ H = {<<k, TRUE>>}
           \/ \E K \in SUBSET Key, o \in Rid, r \in Name :
                w = <<<<"delete_secret", k>>, <<"unlock", k>>, <<"flush", K>>,
                      <<"delete_role_id", o, r>>, <<"put_role", r, None>>>>
                /\ H = {<<r, TRUE>>, <<k, TRUE>>}
      BY <1>2, <3>1 DEF CallerBody, WriteBody
    <3>3. w # <<<<"delete_secret", k>>>>
      BY <1>2
    <3>4. ASSUME NEW K, NEW o, NEW r,
                 w = <<<<"delete_secret", k>>, <<"unlock", k>>, <<"flush", K>>,
                       <<"delete_role_id", o, r>>, <<"put_role", r, None>>>>
          PROVE  FALSE
      BY <1>2, <3>4
    <3>5. ASSUME NEW a, NEW g, w = <<<<"delete_secret", k>>, <<"accept", a, g>>>>
          PROVE  FALSE
      BY <1>2, <3>5
    <3>6. QED BY <3>2, <3>3, <3>4, <3>5
  <2>3. QED BY <2>1, <2>2
<1>3. w[1][1] # "put_secret" /\ w[1][1] # "accept"
  BY DEF Locked
<1>4. w[1][1] \in {"delete_secret", "delete_accessor"} => w[2][1] = "unlock"
  BY DEF Locked
<1>5. QED BY <1>1, <1>2, <1>3, <1>4 DEF HeadOK

LEMMA LockSecrets ==
  ASSUME Shapes, Secrets, NEW p \in Proc, Lock(p)
  PROVE  Secrets'
<1>1. UNCHANGED secrets
  BY DEF Lock, storage, history
<1>2. PICK k \in Name \cup Key, b \in BOOLEAN : LockEffect(p, k, b)
  BY LockMoves
<1> USE DEF LockEffect
<1>3. StepsOf(Tail(work[p])) \subseteq Steps(p)
  BY <1>2 DEF Chain, Steps
<1>4. HeadOK(Tail(work[p]))
  BY <1>2, LockedHead
<1>5. QED BY <1>1, <1>2, <1>3, <1>4, SubMove

LEMMA UnlockSecrets ==
  ASSUME Shapes, Secrets, NEW p \in Proc, Unlock(p)
  PROVE  Secrets'
<1>1. UNCHANGED secrets
  BY DEF Unlock, storage, history
<1>2. PICK k \in Name \cup Key : UnlockEffect(p, k)
  BY UnlockMoves
<1> USE DEF UnlockEffect
<1>3. StepsOf(Tail(work[p])) \subseteq Steps(p)
  BY <1>2 DEF Chain, Steps
<1>4. HeadOK(Tail(work[p]))
  <2>1. Tail(work[p])[1][1] \in {"flush", "cleanup", "dangling", "lock"}
    BY <1>2, LockingFits
  <2>2. QED BY <2>1 DEF HeadOK
<1>5. QED BY <1>1, <1>2, <1>3, <1>4, SubMove

LEMMA FailSecrets ==
  ASSUME Shapes, Secrets, NEW p \in Proc, Fail(p)
  PROVE  Secrets'
<1>1. Moved(p, <<>>, {}) /\ UNCHANGED secrets
  BY FailMoves DEF storage, history
<1>2. QED BY <1>1, StopMove

(* Tidying: its steps that write nothing. *)
LEMMA TidyStartSecrets ==
  ASSUME Shapes, Secrets, TidyStart
  PROVE  Secrets'
<1> DEFINE E == {k \in Stored : Expired(k)} O == {a \in Acc : Orphan(a)} t == <<"tidy", E, O>>
<1>1. Request(Tidy, <<t>>)
  BY DEF TidyStart
<1>2. Mild(Tidy, t) /\ t[1] = "tidy"
  BY DEF Mild, Plain
<1> HIDE DEF t
<1>3. Moved(Tidy, <<t>>, {})
  BY <1>1, TidyIsProc, RequestMoves
<1>4. UNCHANGED secrets
  BY <1>1 DEF Request, storage, history
<1>5. QED BY <1>2, <1>3, <1>4, TidyIsProc, Mild1

LEMMA TidyListSecrets ==
  ASSUME Shapes, Secrets, TidyList
  PROVE  Secrets'
<1>1. UNCHANGED secrets
  BY DEF TidyList, storage, history
<1>2. PICK E \in SUBSET Key, O \in SUBSET Acc, f \in Found, R \in SUBSET (1..MaxInc) :
        TidyListEffect(E, O, f, R)
  BY TidyListMoves
<1> USE DEF TidyListEffect
<1>3. \A a \in DOMAIN f : f[a] = made[a]
  BY <1>2 DEF Secrets, MadeOK
<1> DEFINE t == <<"cleanup", Stored>> u == <<"tidy_rest", f, {}, R>> v == <<"tidied", E, O>>
           w == <<t, u, v>>
<1>4. Moved(Tidy, w, {})
  BY <1>2
<1>5. t[1] = "cleanup" /\ u[1] = "tidy_rest" /\ u[2] = f /\ v[1] = "tidied"
  OBVIOUS
<1>6. StepOK(t) /\ StepOK(u) /\ StepOK(v)
  BY <1>3 DEF StepOK
<1> HIDE DEF t, u, v
<1>7. StepsOf(w) = {t, u, v} /\ w[1] = t
  BY Steps3
<1> HIDE DEF w
<1>8. HeadOK(w) /\ DoingOK(w)
  BY <1>5, <1>7 DEF HeadOK, DoingOK
<1>9. QED BY <1>1, <1>4, <1>5, <1>6, <1>7, <1>8, TidyIsProc, LocalMove

LEMMA TidyEachSecrets ==
  ASSUME Shapes, Secrets, TidyEach
  PROVE  Secrets'
<1>1. UNCHANGED secrets
  BY DEF TidyEach, ForEach, storage, history
<1>3. PICK E \in SUBSET Key, O \in SUBSET Acc, f \in Found, K \in SUBSET Key, s \in SUBSET Acc, R \in SUBSET (1..MaxInc) :
        TidyEachEffect(E, O, f, K, s, R)
  BY TidyEachMoves
<1> USE DEF TidyEachEffect
<1> DEFINE u == <<"tidy_rest", f, s, R>> v == <<"tidied", E, O>> z == <<"cleanup", K>>
<1>4. u \in Steps(Tidy)
  <2>1. work[Tidy] = <<z, u, v>>
    BY <1>3
  <2> HIDE DEF u, v, z
  <2>2. QED BY <2>1, Steps3 DEF Steps
<1>5. Mild(Tidy, u) /\ Mild(Tidy, v) /\ u[1] = "tidy_rest" /\ v[1] = "tidied"
  BY <1>4 DEF Mild, Plain
<1>6. CASE Moved(Tidy, <<u, v>>, {})
  <2> HIDE DEF u, v
  <2>1. QED BY <1>1, <1>5, <1>6, TidyIsProc, Mild2
<1>7. ASSUME NEW k \in K,
             Moved(Tidy, <<write(k), <<"tidy_secret", k>>, <<"unlock", k>>, <<"cleanup", K \ {k}>>,
                           u, v>>, {})
      PROVE  Secrets'
  <2> DEFINE a == write(k) b == <<"tidy_secret", k>> c == <<"unlock", k>> d == <<"cleanup", K \ {k}>>
  <2>1. Mild(Tidy, a) /\ a[1] = "lock"
    BY DEF Mild, Plain, write
  <2>2. Mild(Tidy, b) /\ Mild(Tidy, c) /\ Mild(Tidy, d)
    BY DEF Mild, Plain
  <2>3. Moved(Tidy, <<a, b, c, d, u, v>>, {})
    BY <1>7
  <2> HIDE DEF a, b, c, d, u, v
  <2>4. QED BY <1>1, <1>5, <2>1, <2>2, <2>3, TidyIsProc, Mild6
<1>8. QED BY <1>3, <1>6, <1>7

LEMMA TidySecretSecrets ==
  ASSUME Shapes, Secrets, TidySecret
  PROVE  Secrets'
<1>1. UNCHANGED secrets
  BY DEF TidySecret, storage, history
<1>3. PICK E \in SUBSET Key, O \in SUBSET Acc, f \in Found, K \in SUBSET Key, s \in SUBSET Acc, R \in SUBSET (1..MaxInc), k \in Key :
        TidySecretEffect(E, O, f, K, s, R, k)
  BY TidySecretMoves
<1> USE DEF TidySecretEffect
<1> DEFINE a == secret[k].acc
           t == <<"tidy_secret", k>> n == <<"unlock", k>> c == <<"cleanup", K>>
           y == <<"tidy_rest", f, s, R>> z == <<"tidied", E, O>>
           d == <<"delete_secret", k>> b == <<"delete_accessor", a>>
           x == <<"tidy_rest", f, s \cup {a}, R>>
<1>4. y \in Steps(Tidy)
  <2>1. work[Tidy] = <<t, n, c, y, z>>
    BY <1>3
  <2> HIDE DEF t, n, c, y, z
  <2>2. QED BY <2>1, Steps5 DEF Steps
<1>5. StepOK(y)
  BY <1>4, TidyIsProc DEF Secrets
<1>6. /\ Mild(Tidy, y) /\ Mild(Tidy, z) /\ Mild(Tidy, n) /\ Mild(Tidy, c) /\ Mild(Tidy, d)
      /\ d[1] = "delete_secret"
  BY <1>4 DEF Mild, Plain
<1>7. CASE Moved(Tidy, <<>>, {})
  BY <1>1, <1>7, TidyIsProc, StopMove
<1>8. CASE Moved(Tidy, <<d, n, c, y, z>>, held[Tidy])
  <2> HIDE DEF t, n, c, y, z, d, a, b, x
  <2>1. QED BY <1>1, <1>6, <1>8, TidyIsProc, Mild5
<1>9. ASSUME secret[k] # None, Moved(Tidy, <<b, d, n, c, y, z>>, held[Tidy])
      PROVE  Secrets'
  <2> DEFINE w == <<b, d, n, c, y, z>>
  <2>1. a \in Acc /\ made[a] = k
    BY <1>9 DEF Secrets, MadeOK, Shapes, EntriesTyped, SecretEntry
  <2>2. /\ b[1] = "delete_accessor" /\ b[2] = a /\ d[1] = "delete_secret" /\ d[2] = k
        /\ n[1] = "unlock" /\ n[2] = k /\ c[1] = "cleanup" /\ y[1] = "tidy_rest"
        /\ z[1] = "tidied"
    OBVIOUS
  <2>3. StepOK(b)
    BY <2>1, NameAssumption DEF StepOK
  <2>4. StepOK(d) /\ StepOK(n) /\ StepOK(c) /\ StepOK(z)
    BY DEF StepOK
  <2>5. Moved(Tidy, w, held[Tidy])
    BY <1>9
  <2> HIDE DEF t, n, c, y, z, d, a, b, x
  <2>6. StepsOf(w) = {b, d, n, c, y, z} /\ w[1] = b /\ Len(w) = 6
    BY Steps6
  <2> HIDE DEF w
  <2>7. HeadOK(w) /\ DoingOK(w)
    BY <2>1, <2>2, <2>6 DEF HeadOK, DoingOK
  <2>8. QED BY <1>1, <1>5, <2>2, <2>3, <2>4, <2>5, <2>6, <2>7, TidyIsProc, LocalMove
<1>10. ASSUME Moved(Tidy, <<n, c, x, z>>, held[Tidy])
       PROVE  Secrets'
  <2> DEFINE w == <<n, c, x, z>>
  <2>1. n[1] = "unlock" /\ c[1] = "cleanup" /\ x[1] = "tidy_rest" /\ z[1] = "tidied"
    OBVIOUS
  <2>2. StepOK(x)
    BY <1>5 DEF StepOK
  <2>3. StepOK(n) /\ StepOK(c) /\ StepOK(z)
    BY DEF StepOK
  <2>4. Moved(Tidy, w, held[Tidy])
    BY <1>10
  <2> HIDE DEF t, n, c, y, z, d, a, b, x
  <2>5. StepsOf(w) = {n, c, x, z} /\ w[1] = n
    BY Steps4
  <2> HIDE DEF w
  <2>6. HeadOK(w) /\ DoingOK(w)
    BY <2>1, <2>5 DEF HeadOK, DoingOK
  <2>7. QED BY <1>1, <2>1, <2>2, <2>3, <2>4, <2>5, <2>6, TidyIsProc, LocalMove
<1>11. QED BY <1>3, <1>7, <1>8, <1>9, <1>10

LEMMA TidyRestSecrets ==
  ASSUME Shapes, Secrets, TidyRest
  PROVE  Secrets'
<1>1. UNCHANGED secrets
  BY DEF TidyRest, storage, history
<1>2. PICK E \in SUBSET Key, O \in SUBSET Acc, f \in Found, s \in SUBSET Acc, R \in SUBSET (1..MaxInc) :
        TidyRestEffect(E, O, f, s, R)
  BY TidyRestMoves
<1> USE DEF TidyRestEffect
<1> DEFINE y == <<"tidy_rest", f, s, R>> z == <<"tidied", E, O>>
<1>3. y \in Steps(Tidy)
  <2>1. work[Tidy] = <<y, z>>
    BY <1>2
  <2> HIDE DEF y, z
  <2>2. QED BY <2>1, Steps2 DEF Steps
<1>4. StepOK(y)
  BY <1>3, TidyIsProc DEF Secrets
<1>5. Mild(Tidy, z) /\ z[1] = "tidied" /\ StepOK(z)
  BY DEF Mild, Plain, StepOK
<1>6. CASE Moved(Tidy, <<z>>, {})
  <2> HIDE DEF y, z
  <2>1. QED BY <1>1, <1>5, <1>6, TidyIsProc, Mild1
<1>7. ASSUME NEW K, Moved(Tidy, <<<<"dangling", K, f>>, z>>, {})
      PROVE  Secrets'
  <2> DEFINE x == <<"dangling", K, f>> w == <<x, z>>
  <2>1. x[1] = "dangling" /\ StepOK(x)
    BY <1>4 DEF StepOK
  <2>2. Moved(Tidy, w, {})
    BY <1>7
  <2> HIDE DEF x, y, z
  <2>3. StepsOf(w) = {x, z} /\ w[1] = x
    BY Steps2
  <2> HIDE DEF w
  <2>4. HeadOK(w) /\ DoingOK(w)
    BY <1>5, <2>1, <2>3 DEF HeadOK, DoingOK
  <2>5. QED BY <1>1, <1>5, <2>1, <2>2, <2>3, <2>4, TidyIsProc, LocalMove
<1>8. QED BY <1>2, <1>6, <1>7

LEMMA TidyDanglingSecrets ==
  ASSUME Shapes, Secrets, TidyDangling
  PROVE  Secrets'
<1>1. UNCHANGED secrets
  BY DEF TidyDangling, ForEach, storage, history
<1>3. PICK E \in SUBSET Key, O \in SUBSET Acc, f \in Found, K \in SUBSET Acc :
        TidyDanglingEffect(E, O, f, K)
  BY TidyDanglingMoves
<1> USE DEF TidyDanglingEffect
<1> DEFINE y == <<"dangling", K, f>> z == <<"tidied", E, O>>
<1>4. y \in Steps(Tidy)
  <2>1. work[Tidy] = <<y, z>>
    BY <1>3
  <2> HIDE DEF y, z
  <2>2. QED BY <2>1, Steps2 DEF Steps
<1>5. StepOK(y)
  BY <1>4, TidyIsProc DEF Secrets
<1>6. K \subseteq DOMAIN f /\ \A a \in DOMAIN f : f[a] = made[a]
  BY <1>3, <1>5 DEF StepOK
<1>7. Mild(Tidy, z) /\ z[1] = "tidied" /\ StepOK(z)
  BY DEF Mild, Plain, StepOK
<1>8. CASE Moved(Tidy, <<z>>, {})
  <2> HIDE DEF y, z
  <2>1. QED BY <1>1, <1>7, <1>8, TidyIsProc, Mild1
<1>9. ASSUME NEW a \in K, a \in Acc, f[a] \in Key,
             Moved(Tidy, <<write(f[a]), <<"delete_accessor", a>>, <<"unlock", f[a]>>,
                           <<"dangling", K \ {a}, f>>, z>>, {})
      PROVE  Secrets'
  <2> DEFINE k == f[a] l == write(k) b == <<"delete_accessor", a>> n == <<"unlock", k>>
             x == <<"dangling", K \ {a}, f>> w == <<l, b, n, x, z>>
  <2>1. made[a] = k /\ k \in Key
    BY <1>6, <1>9
  <2>2. l[1] = "lock" /\ b[1] = "delete_accessor" /\ b[2] = a /\ n[1] = "unlock" /\ n[2] = k
        /\ x[1] = "dangling"
    BY DEF write
  <2>3. StepOK(b)
    BY <1>9, <2>1, NameAssumption DEF StepOK
  <2>4. StepOK(x)
    BY <1>5 DEF StepOK
  <2>5. StepOK(l) /\ StepOK(n)
    BY DEF StepOK, write
  <2>6. Moved(Tidy, w, {})
    BY <1>9
  <2> HIDE DEF k, l, b, n, x, y, z
  <2>7. StepsOf(w) = {l, b, n, x, z} /\ w[1] = l
    BY Steps5
  <2> HIDE DEF w
  <2>8. HeadOK(w) /\ DoingOK(w)
    BY <1>7, <2>1, <2>2, <2>7 DEF HeadOK, DoingOK
  <2>9. QED BY <1>1, <1>7, <2>2, <2>3, <2>4, <2>5, <2>6, <2>7, <2>8, TidyIsProc, LocalMove
<1>10. QED BY <1>3, <1>8, <1>9

LEMMA TidySecrets ==
  ASSUME Shapes, Secrets,
         TidyStart \/ TidyList \/ TidyEach \/ TidySecret \/ TidyRest \/ TidyDangling \/ TidyEnd
  PROVE  Secrets'
<1>1. CASE TidyEnd
  <2>1. UNCHANGED secrets
    BY <1>1 DEF TidyEnd, storage, history
  <2>2. Moved(Tidy, <<>>, {})
    BY <1>1, TidyEndMoves
  <2>3. QED BY <2>1, <2>2, TidyIsProc, StopMove
<1>2. QED BY <1>1, TidyStartSecrets, TidyListSecrets, TidyEachSecrets, TidySecretSecrets,
            TidyRestSecrets, TidyDanglingSecrets

(* Steps that write the entry of k, under its lock: what others do. *)
LEMMA OthersUsed ==
  ASSUME Shapes, Secrets, NEW p \in Proc, NEW w, NEW H, Moved(p, w, H),
         NEW k \in Key, NEW h \in held[p], h[1] = k,
         \A j \in Key : j # k => secret'[j] = secret[j],
         NEW q \in Proc, q # p
  PROVE  Used(q)'
<1>1. /\ At(q, "put_secret") => Arg(q, 2) # k /\ Arg(q, 2) \in Key
      /\ At(q, "delete_accessor") /\ Len(work[q]) = 3 => work[q][2][2] # k /\ work[q][2][2] \in Key
      /\ At(q, "delete_secret") /\ Len(work[q]) = 2 => Arg(q, 2) # k /\ Arg(q, 2) \in Key
  BY OtherKeys, PutHolds, LastUseHolds
<1>2. Used(q)
  BY DEF Secrets
<1>3. work'[q] = work[q]
  BY DEF Moved
<1>4. ASSUME At(q, "put_secret"), Len(work[q]) = 2
      PROVE  secret'[Arg(q, 2)] = secret[Arg(q, 2)]
  BY <1>1, <1>4
<1>5. ASSUME At(q, "delete_accessor"), Len(work[q]) = 3
      PROVE  secret'[work[q][2][2]] = secret[work[q][2][2]]
  BY <1>1, <1>5
<1>6. ASSUME At(q, "delete_secret"), Len(work[q]) = 2
      PROVE  secret'[Arg(q, 2)] = secret[Arg(q, 2)]
  BY <1>1, <1>6
<1>7. QED BY <1>2, <1>3, <1>4, <1>5, <1>6 DEF Used, At, Arg

LEMMA OthersFresh ==
  ASSUME Shapes, Secrets, NEW p \in Proc, NEW w, NEW H, Moved(p, w, H), NEW q \in Proc, q # p,
         \A t \in StepsOf(w) : t[1] = "accept" => t \in Steps(p),
         At(q, "put_secret") /\ Len(work[q]) = 1 =>
           LET k == Arg(q, 2) a == Arg(q, 3).acc IN
           /\ secret'[k] = secret[k] /\ accessor'[a] = accessor[a]
           /\ limit'[a] = limit[a] /\ accepts'[a] = accepts[a]
  PROVE  Fresh(q)'
<1>1. work'[q] = work[q]
  BY DEF Moved
<1>2. SUFFICES ASSUME At(q, "put_secret"), Len(work[q]) = 1
               PROVE  Fresh(q)'
  BY <1>1 DEF Fresh, At
<1> DEFINE k == Arg(q, 2) a == Arg(q, 3).acc
<1>3. /\ secret[k] = None /\ accessor[a] = k /\ limit[a] = Arg(q, 3).uses /\ accepts[a] = 0
      /\ \A s \in Proc : \A t \in Steps(s) : t[1] = "accept" => t[2] # a
  BY <1>2 DEF Secrets, Fresh
<1>4. \A s \in Proc : \A t \in Steps(s)' : t[1] = "accept" => t[2] # a
  <2> TAKE s \in Proc
  <2> TAKE t \in Steps(s)'
  <2> HIDE DEF a
  <2>1. CASE s = p
    BY <1>3, <2>1, OwnSteps
  <2>2. CASE s # p
    BY <1>3, <2>2, OthersSteps
  <2>3. QED BY <2>1, <2>2
<1>5. Arg(q, 2)' = Arg(q, 2) /\ Arg(q, 3)' = Arg(q, 3)
  BY <1>1 DEF Arg
<1>6. /\ secret'[k] = None /\ accessor'[a] = k /\ limit'[a] = Arg(q, 3).uses /\ accepts'[a] = 0
  BY <1>2, <1>3
<1> HIDE DEF a, k
<1>7. QED BY <1>4, <1>5, <1>6 DEF Fresh, a, k

LEMMA OthersDoing ==
  ASSUME Secrets, NEW p \in Proc, NEW w, NEW H, Moved(p, w, H), NEW q \in Proc,
         StepsOf(w) \subseteq Steps(p), made' = made
  PROVE  Doing(q)'
<1>1. Doing(q)
  BY DEF Secrets
<1>2. Steps(q)' \subseteq Steps(q)
  BY OwnSteps, OthersSteps
<1>3. QED BY <1>1, <1>2 DEF Doing

(* The uses of other secret ids. *)
LEMMA OtherUses ==
  ASSUME Shapes, UsesOK, NEW p \in Proc, NEW w, NEW H, Moved(p, w, H),
         UNCHANGED limit, NEW a \in Acc, accepts'[a] = accepts[a],
         w # <<>> /\ w[1][1] = "accept" => w[1][2] # a
  PROVE  \A n \in Int : Left(a, n) => Left(a, n)'
<1>1. Cardinality(Accepting(a)') <= Cardinality(Accepting(a))
  BY AcceptingSame
<1>2. Cardinality(Accepting(a)') \in Nat
  <2>1. Accepting(a)' \subseteq Callers
    BY DEF Accepting
  <2>2. QED BY <2>1, FiniteAssumption, FS_Subset, FS_CardinalityType
<1>3. QED BY <1>1, <1>2, LeftSame

(* The entry of a new secret id is written. *)
LEMMA PutFresh ==
  ASSUME Shapes, Secrets, NEW p \in Callers, NEW k \in Key, NEW e \in SecretEntry,
         work[p] = <<<<"put_secret", k, e>>>>, <<k, TRUE>> \in held[p], Moved(p, <<>>, {}),
         secret' = [secret EXCEPT ![k] = e],
         UNCHANGED <<accessor, acc, accepts, limit, made, gone>>
  PROVE  Secrets'
<1> DEFINE a == e.acc t0 == <<"put_secret", k, e>>
<1>1. p \in Proc /\ At(p, "put_secret") /\ Len(work[p]) = 1 /\ Arg(p, 2) = k /\ Arg(p, 3) = e
  BY CallerIsProc DEF At, Arg
<1>2. t0 \in Steps(p) /\ t0[1] = "put_secret" /\ t0[2] = k /\ t0[3] = e
  BY Steps1 DEF Steps
<1> HIDE DEF t0
<1>3. made[a] = k /\ a \in Acc /\ e.uses \in Int
  BY <1>1, <1>2 DEF Secrets, StepOK, SecretEntry
<1>4. /\ secret[k] = None /\ accessor[a] = k /\ limit[a] = e.uses /\ accepts[a] = 0
      /\ \A q \in Proc : \A t \in Steps(q) : t[1] = "accept" => t[2] # a
  BY <1>1 DEF Secrets, Fresh
<1>5. DOMAIN secret = Key /\ \A j \in Key : secret'[j] = IF j = k THEN e ELSE secret[j]
  BY DEF Shapes, EntriesTyped
<1>6. \A j \in Key : j # k => secret'[j] = secret[j]
  BY <1>5
<1>7. StepsOf(<<>>) = {}
  BY DEF StepsOf
<1>8. a \notin gone
  <2>1. accessor[a] # None
    BY <1>4, NameAssumption
  <2>2. \A b \in gone : accessor[b] # None => b # a
    BY <1>1 DEF Secrets, GoneOK
  <2>3. QED BY <2>1, <2>2
<1> HIDE DEF a
<1>9. MadeOK'
  BY <1>3, <1>5 DEF Secrets, MadeOK, a
<1>10. UsesOK'
  <2>1. \A b \in Acc : \A n \in Int : Left(b, n) => Left(b, n)'
    BY <1>1, OtherUses DEF Secrets
  <2>2. Left(a, e.uses)
    <3>1. Accepting(a) = {}
      <4> SUFFICES ASSUME NEW q \in Accepting(a) PROVE FALSE
        OBVIOUS
      <4>1. q \in Callers /\ At(q, "accept") /\ Arg(q, 2) = a
        BY DEF Accepting
      <4>2. work[q][1] \in Steps(q) /\ q \in Proc
        BY <4>1, CallerIsProc, AcceptHolds
      <4>3. QED BY <1>4, <4>1, <4>2 DEF At, Arg
    <3>2. Cardinality(Accepting(a)) = 0
      BY <3>1, FS_EmptySet
    <3>3. QED BY <1>3, <1>4, <3>2 DEF Left
  <2>3. \A b \in Acc : Left(b, 0)'
    BY <2>1 DEF Secrets, UsesOK
  <2>4. \A j \in Key : secret'[j] # None =>
          Left(secret[j].acc, secret[j].uses)' /\ (limit[secret[j].acc] > 0 => secret[j].uses > 0)'
    <3> TAKE j \in Key
    <3> HAVE secret'[j] # None
    <3> DEFINE b == secret[j].acc n == secret[j].uses
    <3>1. CASE j = k
      <4>1. b' = a /\ n' = e.uses
        BY <1>5, <3>1 DEF a
      <4>2. Left(a, e.uses)'
        BY <1>3, <2>1, <2>2
      <4>3. Left(b, n)'
        BY <4>1, <4>2 DEF Left, Accepting
      <4>4. QED BY <1>4, <4>1, <4>3
    <3>2. CASE j # k
      <4>1. secret[j] # None /\ b' = b /\ n' = n
        BY <1>6, <3>2
      <4>2. b \in Acc /\ n \in Int /\ Left(b, n) /\ (limit[b] > 0 => n > 0)
        BY <4>1 DEF Secrets, UsesOK, Shapes, EntriesTyped, SecretEntry
      <4>3. Left(b, n) => Left(b, n)'
        BY <2>1, <4>1, <4>2 DEF Left, Accepting
      <4>4. QED BY <4>1, <4>2, <4>3
    <3>3. QED BY <3>1, <3>2
  <2>5. QED BY <2>3, <2>4 DEF UsesOK
<1>11. GoneOK'
  <2> SUFFICES ASSUME NEW b \in gone, accessor[b] # None
               PROVE  /\ secret'[made[b]] = None \/ secret'[made[b]].acc # b
                      /\ \A q \in Proc : At(q, "put_secret")' => Arg(q, 3)'.acc # b
    BY DEF GoneOK
  <2>1. /\ secret[made[b]] = None \/ secret[made[b]].acc # b
        /\ \A q \in Proc : At(q, "put_secret") => Arg(q, 3).acc # b
    BY DEF Secrets, GoneOK
  <2>2. b \in Acc /\ made[b] # None /\ made[b] \in Key
    BY DEF Secrets, MadeOK, Shapes, HistoryTyped
  <2>3. secret'[made[b]] = None \/ secret'[made[b]].acc # b
    BY <1>5, <1>8, <2>1, <2>2 DEF a
  <2>4. \A q \in Proc : At(q, "put_secret")' => Arg(q, 3)'.acc # b
    <3> TAKE q \in Proc
    <3>1. CASE q = p
      BY <1>1, <3>1, OwnSteps
    <3>2. CASE q # p
      BY <1>1, <2>1, <3>2, OthersSteps
    <3>3. QED BY <3>1, <3>2
  <2>5. QED BY <2>3, <2>4
<1>12. \A q \in Proc : \A t \in Steps(q)' : StepOK(t)'
  <2> TAKE q \in Proc
  <2> TAKE t \in Steps(q)'
  <2>1. t \in Steps(q)
    BY <1>1, <1>7, OwnSteps, OthersSteps
  <2>2. StepOK(t)
    BY <2>1 DEF Secrets
  <2>3. t[1] = "login_use" /\ secret'[t[2]] # None => secret'[t[2]].acc \notin t[3]
    BY <1>5, <1>8, <2>2 DEF StepOK, a
  <2>4. QED BY <2>2, <2>3 DEF StepOK
<1>13. \A q \in Proc : Fresh(q)'
  <2> TAKE q \in Proc
  <2>1. CASE q = p
    BY <1>1, <2>1, OwnSteps DEF Fresh
  <2>2. CASE q # p
    <3>1. At(q, "put_secret") => Arg(q, 2) # k /\ Arg(q, 2) \in Key
      BY <1>1, <2>2, OtherKeys, PutHolds
    <3>2. At(q, "put_secret") => secret'[Arg(q, 2)] = secret[Arg(q, 2)]
      BY <1>6, <3>1
    <3>3. QED BY <1>1, <1>7, <2>2, <3>2, OthersFresh
  <2>3. QED BY <2>1, <2>2
<1>14. \A q \in Proc : Used(q)'
  <2> TAKE q \in Proc
  <2>1. CASE q = p
    BY <1>1, <2>1, OwnSteps DEF Used
  <2>2. CASE q # p
    BY <1>1, <1>6, <2>2, OthersUsed
  <2>3. QED BY <2>1, <2>2
<1>15. \A q \in Proc : Doing(q)'
  BY <1>1, <1>7, OthersDoing
<1>16. QED BY <1>9, <1>10, <1>11, <1>12, <1>13, <1>14, <1>15 DEF Secrets

(* A use is counted, and the task is about to accept. *)
LEMMA PutUsed ==
  ASSUME Shapes, Secrets, NEW p \in Callers, NEW k \in Key, NEW e \in SecretEntry, NEW g,
         work[p] = <<<<"put_secret", k, e>>, <<"accept", e.acc, g>>>>,
         <<k, TRUE>> \in held[p], Moved(p, <<<<"accept", e.acc, g>>>>, held[p]),
         secret' = [secret EXCEPT ![k] = e],
         UNCHANGED <<accessor, acc, accepts, limit, made, gone>>
  PROVE  Secrets'
<1> DEFINE a == e.acc t0 == <<"put_secret", k, e>> x == <<"accept", e.acc, g>> w == <<x>>
           old == secret[k]
<1>1. p \in Proc /\ At(p, "put_secret") /\ Len(work[p]) = 2 /\ Arg(p, 2) = k /\ Arg(p, 3) = e
  BY CallerIsProc DEF At, Arg
<1>2. x[1] = "accept" /\ x[2] = a /\ a \in Acc /\ e.uses \in Int
  BY DEF SecretEntry
<1>3. Moved(p, w, held[p]) /\ work[p] = <<t0, x>>
  OBVIOUS
<1>4. old # None /\ old.uses # 1 /\ e = [old EXCEPT !.uses = @ - 1]
  BY <1>1 DEF Secrets, Used
<1>5. old \in SecretEntry /\ made[old.acc] = k
  BY <1>4 DEF Secrets, MadeOK, Shapes, EntriesTyped
<1>6. e.acc = old.acc /\ e.uses = old.uses - 1
  BY <1>4, <1>5 DEF SecretEntry
<1> HIDE DEF x, t0
<1>7. StepsOf(w) = {x} /\ w # <<>> /\ w[1] = x /\ Len(w) = 1 /\ x \in Steps(p)
  BY <1>3, Steps1, Steps2 DEF Steps
<1> HIDE DEF w
<1>8. DOMAIN secret = Key /\ \A j \in Key : secret'[j] = IF j = k THEN e ELSE secret[j]
  BY DEF Shapes, EntriesTyped
<1>9. \A j \in Key : j # k => secret'[j] = secret[j]
  BY <1>8
<1>10. MadeOK'
  BY <1>5, <1>6, <1>8 DEF Secrets, MadeOK
<1>11. UsesOK'
  <2>1. \A b \in Acc : b # a => \A n \in Int : Left(b, n) => Left(b, n)'
    BY <1>1, <1>2, <1>3, <1>7, OtherUses DEF Secrets
  <2>2. Left(a, old.uses) /\ (limit[a] > 0 => old.uses > 0)
    BY <1>4, <1>6 DEF Secrets, UsesOK
  <2>3. Left(a, e.uses)' /\ (limit[a] > 0 => e.uses > 0)
    <3>1. Cardinality(Accepting(a)') <= Cardinality(Accepting(a)) + 1
      BY <1>1, <1>3, AcceptingMore
    <3>2. Cardinality(Accepting(a)) \in Nat /\ Cardinality(Accepting(a)') \in Nat
      <4>1. Accepting(a)' \subseteq Callers
        BY DEF Accepting
      <4>2. QED BY <4>1, AcceptingFinite, FiniteAssumption, FS_Subset, FS_CardinalityType
    <3>3. accepts[a] \in Nat /\ limit[a] \in Nat /\ old.uses \in Int
      BY <1>2, <1>5, BoundAssumption DEF Shapes, HistoryTyped, SecretEntry
    <3>4. limit[a] > 0 => accepts[a] + Cardinality(Accepting(a)') + e.uses <= limit[a]
      BY <1>6, <2>2, <3>1, <3>2, <3>3 DEF Left
    <3>5. limit[a] > 0 => e.uses > 0
      BY <1>4, <1>6, <2>2, <3>3
    <3>6. QED BY <3>4, <3>5 DEF Left
  <2>4. Left(a, 0)'
    <3>1. accepts[a] \in Nat /\ limit[a] \in Nat
      BY <1>2, BoundAssumption DEF Shapes, HistoryTyped
    <3>2. Cardinality(Accepting(a)') \in Nat
      <4>1. Accepting(a)' \subseteq Callers
        BY DEF Accepting
      <4>2. QED BY <4>1, FiniteAssumption, FS_Subset, FS_CardinalityType
    <3>3. QED BY <1>2, <2>3, <3>1, <3>2 DEF Left
  <2>5. \A b \in Acc : Left(b, 0)'
    <3> TAKE b \in Acc
    <3>1. CASE b = a
      BY <2>4, <3>1 DEF Left, Accepting
    <3>2. CASE b # a
      BY <2>1, <3>2 DEF Secrets, UsesOK
    <3>3. QED BY <3>1, <3>2
  <2>6. \A j \in Key : secret'[j] # None =>
          Left(secret[j].acc, secret[j].uses)' /\ (limit[secret[j].acc] > 0 => secret[j].uses > 0)'
    <3> TAKE j \in Key
    <3> HAVE secret'[j] # None
    <3> DEFINE b == secret[j].acc n == secret[j].uses
    <3>1. CASE j = k
      <4>1. b' = a /\ n' = e.uses
        BY <1>8, <3>1
      <4>2. Left(b, n)'
        BY <2>3, <4>1 DEF Left, Accepting
      <4>3. QED BY <2>3, <4>1, <4>2
    <3>2. CASE j # k
      <4>1. secret[j] # None /\ b' = b /\ n' = n
        BY <1>9, <3>2
      <4>2. /\ b \in Acc /\ n \in Int /\ Left(b, n) /\ (limit[b] > 0 => n > 0)
            /\ made[b] = j
        BY <4>1 DEF Secrets, UsesOK, MadeOK, Shapes, EntriesTyped, SecretEntry
      <4>3. b # a
        BY <1>5, <1>6, <3>2, <4>2
      <4>4. Left(b, n)'
        BY <2>1, <4>1, <4>2, <4>3 DEF Left, Accepting
      <4>5. QED BY <4>1, <4>2, <4>4
    <3>3. QED BY <3>1, <3>2
  <2>7. QED BY <2>5, <2>6 DEF UsesOK
<1>12. GoneOK'
  <2> SUFFICES ASSUME NEW b \in gone, accessor[b] # None
               PROVE  /\ secret'[made[b]] = None \/ secret'[made[b]].acc # b
                      /\ \A q \in Proc : At(q, "put_secret")' => Arg(q, 3)'.acc # b
    BY DEF GoneOK
  <2>1. /\ secret[made[b]] = None \/ secret[made[b]].acc # b
        /\ \A q \in Proc : At(q, "put_secret") => Arg(q, 3).acc # b
    BY DEF Secrets, GoneOK
  <2>2. b \in Acc /\ made[b] # None /\ made[b] \in Key
    BY DEF Secrets, MadeOK, Shapes, HistoryTyped
  <2>3. secret'[made[b]] = None \/ secret'[made[b]].acc # b
    BY <1>4, <1>6, <1>8, <2>1, <2>2
  <2>4. \A q \in Proc : At(q, "put_secret")' => Arg(q, 3)'.acc # b
    <3> TAKE q \in Proc
    <3>1. CASE q = p
      BY <1>1, <1>2, <1>3, <1>7, <3>1, OwnSteps
    <3>2. CASE q # p
      BY <1>1, <1>3, <2>1, <3>2, OthersSteps
    <3>3. QED BY <3>1, <3>2
  <2>5. QED BY <2>3, <2>4
<1>13. \A q \in Proc : \A t \in Steps(q)' : StepOK(t)'
  <2> TAKE q \in Proc
  <2> TAKE t \in Steps(q)'
  <2>1. t \in Steps(q)
    BY <1>1, <1>3, <1>7, OwnSteps, OthersSteps
  <2>2. StepOK(t)
    BY <2>1 DEF Secrets
  <2>3. t[1] = "login_use" /\ secret'[t[2]] # None => secret'[t[2]].acc \notin t[3]
    BY <1>4, <1>6, <1>8, <2>2 DEF StepOK
  <2>4. QED BY <2>2, <2>3 DEF StepOK
<1>14. \A q \in Proc : Fresh(q)'
  <2> TAKE q \in Proc
  <2>1. CASE q = p
    BY <1>1, <1>2, <1>3, <1>7, <2>1, OwnSteps DEF Fresh
  <2>2. CASE q # p
    <3>1. At(q, "put_secret") => Arg(q, 2) # k /\ Arg(q, 2) \in Key
      BY <1>1, <2>2, OtherKeys, PutHolds
    <3>2. At(q, "put_secret") => secret'[Arg(q, 2)] = secret[Arg(q, 2)]
      BY <1>9, <3>1
    <3>3. QED BY <1>1, <1>3, <1>7, <2>2, <3>2, OthersFresh
  <2>3. QED BY <2>1, <2>2
<1>15. \A q \in Proc : Used(q)'
  <2> TAKE q \in Proc
  <2>1. CASE q = p
    BY <1>1, <1>2, <1>3, <1>7, <2>1, OwnSteps DEF Used
  <2>2. CASE q # p
    BY <1>1, <1>3, <1>9, <2>2, OthersUsed
  <2>3. QED BY <2>1, <2>2
<1>16. \A q \in Proc : Doing(q)'
  BY <1>1, <1>3, <1>7, OthersDoing
<1>17. QED BY <1>10, <1>11, <1>12, <1>13, <1>14, <1>15, <1>16 DEF Secrets

LEMMA PutSecretSecrets ==
  ASSUME Shapes, Secrets, NEW p \in Callers, PutSecret(p)
  PROVE  Secrets'
<1>1. PICK k \in Key, e \in SecretEntry : PutSecretEffect(p, k, e)
  BY PutSecretMoves
<1> USE DEF PutSecretEffect
<1>2. UNCHANGED <<accessor, acc, accepts, limit, made, gone>>
  BY DEF PutSecret
<1>3. ASSUME NEW r \in Name, work[p] = <<<<"put_secret", k, e>>>>,
             held[p] = {<<r, FALSE>>, <<k, TRUE>>}, Moved(p, <<>>, {})
      PROVE  Secrets'
  <2>1. <<k, TRUE>> \in held[p]
    BY <1>3
  <2>2. QED BY <1>1, <1>2, <1>3, <2>1, PutFresh
<1>4. ASSUME NEW g \in SUBSET Acc, work[p] = <<<<"put_secret", k, e>>, <<"accept", e.acc, g>>>>,
             held[p] = {<<k, TRUE>>}, Moved(p, <<<<"accept", e.acc, g>>>>, held[p])
      PROVE  Secrets'
  <2>1. <<k, TRUE>> \in held[p]
    BY <1>4
  <2>2. QED BY <1>1, <1>2, <1>4, <2>1, PutUsed
<1>5. QED BY <1>1, <1>3, <1>4

(* An accessor is deleted, under the lock of its secret id. *)
LEMMA DeletesAccessor ==
  ASSUME Shapes, Secrets, NEW p \in Proc, NEW a \in Acc, NEW w, Moved(p, w, held[p]),
         accessor' = [accessor EXCEPT ![a] = None], gone' = gone \cup {a},
         UNCHANGED <<secret, acc, accepts, limit, made>>,
         made[a] # None, <<made[a], TRUE>> \in held[p], At(p, "delete_accessor"),
         StepsOf(w) \subseteq Steps(p), HeadOK(w),
         w # <<>>, w[1][1] # "accept", w[1][1] # "put_secret"
  PROVE  Secrets'
<1>1. DOMAIN accessor = Acc /\ \A b \in Acc : accessor'[b] = IF b = a THEN None ELSE accessor[b]
  BY DEF Shapes, EntriesTyped
<1>2. gone \subseteq Acc
  BY DEF Shapes, HistoryTyped
<1>3. MadeOK'
  BY <1>1, <1>2 DEF Secrets, MadeOK
<1>4. UsesOK'
  BY UsesSame DEF Secrets
<1>5. GoneOK'
  <2> SUFFICES ASSUME NEW b \in gone', accessor'[b] # None
               PROVE  /\ secret[made[b]] = None \/ secret[made[b]].acc # b
                      /\ \A q \in Proc : At(q, "put_secret")' => Arg(q, 3)'.acc # b
    BY DEF GoneOK
  <2>1. b \in gone /\ accessor[b] # None
    BY <1>1, <1>2
  <2>2. /\ secret[made[b]] = None \/ secret[made[b]].acc # b
        /\ \A q \in Proc : At(q, "put_secret") => Arg(q, 3).acc # b
    BY <2>1 DEF Secrets, GoneOK
  <2>3. \A q \in Proc : At(q, "put_secret")' => Arg(q, 3)'.acc # b
    <3> TAKE q \in Proc
    <3>1. CASE q = p
      BY <3>1, OwnSteps
    <3>2. CASE q # p
      BY <2>2, <3>2, OthersSteps
    <3>3. QED BY <3>1, <3>2
  <2>4. QED BY <2>2, <2>3
<1>6. \A q \in Proc : \A t \in Steps(q)' : StepOK(t)'
  <2> TAKE q \in Proc
  <2> TAKE t \in Steps(q)'
  <2>1. t \in Steps(q)
    BY OwnSteps, OthersSteps
  <2>2. StepOK(t)
    BY <2>1 DEF Secrets
  <2>3. QED BY <2>2 DEF StepOK
<1>7. \A q \in Proc : Fresh(q)'
  <2> TAKE q \in Proc
  <2>1. CASE q = p
    BY <2>1, OwnSteps DEF Fresh
  <2>2. CASE q # p
    <3>1. ASSUME At(q, "put_secret"), Len(work[q]) = 1
          PROVE  accessor'[Arg(q, 3).acc] = accessor[Arg(q, 3).acc]
      <4>1. work[q][1] \in Steps(q) /\ Arg(q, 3) \in SecretEntry
        BY <3>1, PutHolds
      <4>2. StepOK(work[q][1])
        BY <4>1 DEF Secrets
      <4>3. made[Arg(q, 3).acc] = Arg(q, 2) /\ Arg(q, 3).acc \in Acc
        BY <3>1, <4>1, <4>2 DEF StepOK, At, Arg, SecretEntry
      <4>4. Arg(q, 2) # made[a]
        <5> DEFINE h == <<made[a], TRUE>>
        <5>1. h \in held[p] /\ h[1] = made[a]
          OBVIOUS
        <5> HIDE DEF h
        <5>2. QED BY <2>2, <3>1, <5>1, OtherKeys
      <4>5. QED BY <1>1, <4>3, <4>4
    <3>2. QED BY <2>2, <3>1, OthersFresh
  <2>3. QED BY <2>1, <2>2
<1>8. \A q \in Proc : Used(q)'
  <2> TAKE q \in Proc
  <2>1. CASE q = p
    BY <2>1, OwnSteps DEF Used, HeadOK
  <2>2. CASE q # p
    <3>1. Used(q)
      BY DEF Secrets
    <3>2. QED BY <2>2, <3>1, OthersSteps DEF Used
  <2>3. QED BY <2>1, <2>2
<1>9. \A q \in Proc : Doing(q)'
  BY OthersDoing
<1>10. QED BY <1>3, <1>4, <1>5, <1>6, <1>7, <1>8, <1>9 DEF Secrets

LEMMA DeleteAccessorSecrets ==
  ASSUME Shapes, Secrets, NEW p \in Proc, DeleteAccessor(p)
  PROVE  Secrets'
<1>1. UNCHANGED <<secret, acc, accepts, limit, made>> /\ At(p, "delete_accessor")
  BY DEF DeleteAccessor
<1>2. ASSUME NEW a \in Acc, NEW k \in Key, NEW w, Moved(p, w, held[p]),
             accessor' = [accessor EXCEPT ![a] = None], gone' = gone \cup {a},
             NEW t \in Steps(p), t[1] = "delete_accessor", t[2] = a,
             NEW u \in Steps(p), u[1] \in {"delete_secret", "unlock"}, u[2] = k,
             StepsOf(w) \subseteq Steps(p), HeadOK(w), w # <<>>, w[1] = u,
             <<k, TRUE>> \in held[p]
      PROVE  Secrets'
  <2>1. made[a] = k
    BY <1>2 DEF Secrets, Doing
  <2>2. QED BY <1>1, <1>2, <2>1, NameAssumption, DeletesAccessor
<1>3. CASE p \in Callers
  <2>1. PICK k \in Key, a \in Acc : DeleteAccessorEffect(p, k, a)
    BY <1>3, DeleteAccessorCaller
  <2> USE DEF DeleteAccessorEffect
  <2> DEFINE t == <<"delete_accessor", a>> u == <<"delete_secret", k>>
  <2>2. t[1] = "delete_accessor" /\ t[2] = a /\ u[1] = "delete_secret" /\ u[2] = k
    OBVIOUS
  <2>3. ASSUME NEW r \in Name, NEW b \in BOOLEAN, work[p] = <<t, u>>,
               held[p] = {<<r, b>>, <<k, TRUE>>}, Moved(p, <<u>>, held[p])
        PROVE  Secrets'
    <3> DEFINE w == <<u>>
    <3>1. <<k, TRUE>> \in held[p]
      BY <2>3
    <3>2. Moved(p, w, held[p])
      BY <2>3
    <3> HIDE DEF t, u
    <3>3. Steps(p) = {t, u} /\ StepsOf(w) = {u} /\ w # <<>> /\ w[1] = u /\ Len(w) = 1
      BY <2>3, Steps1, Steps2 DEF Steps
    <3> HIDE DEF w
    <3>4. HeadOK(w)
      BY <2>2, <3>3 DEF HeadOK
    <3>5. QED BY <1>2, <2>1, <2>2, <3>1, <3>2, <3>3, <3>4
  <2>4. ASSUME NEW g \in SUBSET Acc, work[p] = <<t, u, <<"accept", a, g>>>>,
               held[p] = {<<k, TRUE>>}, Moved(p, <<u, <<"accept", a, g>>>>, held[p])
        PROVE  Secrets'
    <3> DEFINE x == <<"accept", a, g>> w == <<u, x>>
    <3>1. <<k, TRUE>> \in held[p] /\ x[2] = a
      BY <2>4
    <3>2. Moved(p, w, held[p]) /\ work[p] = <<t, u, x>>
      BY <2>4
    <3> HIDE DEF t, u, x
    <3>3. /\ Steps(p) = {t, u, x} /\ StepsOf(w) = {u, x}
          /\ w # <<>> /\ w[1] = u /\ w[2] = x /\ Len(w) = 2
          /\ Len(work[p]) = 3 /\ work[p][1] = t /\ work[p][2] = u
      BY <3>2, Steps2, Steps3 DEF Steps
    <3> HIDE DEF w
    <3>4. HeadOK(w)
      <4>1. secret[k] # None /\ secret[k].uses = 1 /\ secret[k].acc = a
        BY <1>1, <2>2, <3>3 DEF Secrets, Used, Arg
      <4>2. QED BY <2>2, <3>1, <3>3, <4>1 DEF HeadOK
    <3>5. QED BY <1>2, <2>1, <2>2, <3>1, <3>2, <3>3, <3>4
  <2>5. QED BY <2>1, <2>3, <2>4
<1>4. CASE p = Tidy
  <2>1. PICK k \in Key, a \in Acc : TidyDeleteAccessorEffect(k, a)
    BY <1>4, DeleteAccessorTidy
  <2> USE DEF TidyDeleteAccessorEffect
  <2> DEFINE t == <<"delete_accessor", a>> u == <<"delete_secret", k>> n == <<"unlock", k>>
  <2>2. /\ t[1] = "delete_accessor" /\ t[2] = a /\ u[1] = "delete_secret" /\ u[2] = k
        /\ n[1] = "unlock" /\ n[2] = k /\ <<k, TRUE>> \in held[Tidy]
    BY <2>1
  <2>3. ASSUME NEW w1, NEW w2, work[Tidy] = <<t, n, w1, w2>>, Moved(Tidy, <<n, w1, w2>>, held[Tidy])
        PROVE  Secrets'
    <3> DEFINE w == <<n, w1, w2>>
    <3>1. Moved(Tidy, w, held[Tidy])
      BY <2>3
    <3> HIDE DEF t, u, n
    <3>2. Steps(Tidy) = {t, n, w1, w2} /\ StepsOf(w) = {n, w1, w2} /\ w # <<>> /\ w[1] = n
      BY <2>3, Steps3, Steps4 DEF Steps
    <3> HIDE DEF w
    <3>3. HeadOK(w)
      BY <2>2, <3>2 DEF HeadOK
    <3>4. QED BY <1>2, <1>4, <2>1, <2>2, <3>1, <3>2, <3>3
  <2>4. ASSUME NEW w1, NEW w2, NEW w3, work[Tidy] = <<t, u, n, w1, w2, w3>>,
               Moved(Tidy, <<u, n, w1, w2, w3>>, held[Tidy])
        PROVE  Secrets'
    <3> DEFINE w == <<u, n, w1, w2, w3>>
    <3>1. Moved(Tidy, w, held[Tidy])
      BY <2>4
    <3> HIDE DEF t, u, n
    <3>2. /\ Steps(Tidy) = {t, u, n, w1, w2, w3} /\ StepsOf(w) = {u, n, w1, w2, w3}
          /\ w # <<>> /\ w[1] = u /\ Len(w) = 5
      BY <2>4, Steps5, Steps6 DEF Steps
    <3> HIDE DEF w
    <3>3. HeadOK(w)
      BY <2>2, <3>2 DEF HeadOK
    <3>4. QED BY <1>2, <1>4, <2>1, <2>2, <3>1, <3>2, <3>3
  <2>5. QED BY <2>1, <2>3, <2>4
<1>5. QED BY <1>3, <1>4 DEF Proc

(* The entry of a secret id is deleted, under its lock. *)
LEMMA DeletesSecret ==
  ASSUME Shapes, Secrets, NEW p \in Proc, NEW k \in Key, NEW h \in held[p], h[1] = k,
         NEW w, NEW H, Moved(p, w, H), secret' = [secret EXCEPT ![k] = None],
         gone' = IF secret[k] = None THEN gone ELSE gone \cup {secret[k].acc},
         UNCHANGED <<accessor, acc, accepts, limit, made>>,
         StepsOf(w) \subseteq Steps(p), w # <<>> => w[1][1] \in {"unlock", "accept"},
         w # <<>> /\ w[1][1] = "accept" =>
           secret[k] # None /\ secret[k].uses = 1 /\ secret[k].acc = w[1][2]
  PROVE  Secrets'
<1> DEFINE a == secret[k].acc
<1>1. DOMAIN secret = Key /\ \A j \in Key : secret'[j] = IF j = k THEN None ELSE secret[j]
  BY DEF Shapes, EntriesTyped
<1>2. \A j \in Key : j # k => secret'[j] = secret[j]
  BY <1>1
<1>3. secret[k] # None => a \in Acc /\ made[a] = k
  BY DEF Secrets, MadeOK, Shapes, EntriesTyped, SecretEntry
<1>4. gone \subseteq gone' /\ \A b \in gone' : b \in gone \/ (secret[k] # None /\ b = a)
  OBVIOUS
<1>5. k # None
  BY NameAssumption
<1>6. w # <<>> => w[1][1] # "put_secret" /\ w[1][1] # "delete_accessor" /\ w[1][1] # "delete_secret"
  OBVIOUS
<1>7. MadeOK'
  <2>1. \A b \in gone' : made[b] # None
    BY <1>3, <1>4, <1>5 DEF Secrets, MadeOK
  <2>2. \A j \in Key : secret'[j] # None => made[secret'[j].acc] = j
    BY <1>1 DEF Secrets, MadeOK
  <2>3. QED BY <2>1, <2>2 DEF Secrets, MadeOK
<1>8. UsesOK'
  <2>1. \A b \in Acc : (secret[k] = None \/ b # a) => \A n \in Int : Left(b, n) => Left(b, n)'
    BY OtherUses DEF Secrets
  <2>2. \A b \in Acc : Left(b, 0)'
    <3> TAKE b \in Acc
    <3>1. Left(b, 0)
      BY DEF Secrets, UsesOK
    <3>2. CASE w # <<>> /\ w[1][1] = "accept" /\ w[1][2] = b
      <4>1. Cardinality(Accepting(b)') <= Cardinality(Accepting(b)) + 1
        BY AcceptingMore
      <4>2. Cardinality(Accepting(b)) \in Nat /\ Cardinality(Accepting(b)') \in Nat
        <5>1. Accepting(b)' \subseteq Callers
          BY DEF Accepting
        <5>2. QED BY <5>1, AcceptingFinite, FiniteAssumption, FS_Subset, FS_CardinalityType
      <4>3. accepts[b] \in Nat /\ limit[b] \in Nat
        BY BoundAssumption DEF Shapes, HistoryTyped
      <4>4. Left(b, 1)
        BY <3>2 DEF Secrets, UsesOK
      <4>5. limit[b] > 0 => accepts[b] + Cardinality(Accepting(b)') + 0 <= limit[b]
        BY <4>1, <4>2, <4>3, <4>4 DEF Left
      <4>6. QED BY <4>5 DEF Left
    <3>3. CASE ~(w # <<>> /\ w[1][1] = "accept" /\ w[1][2] = b)
      BY <3>1, <3>3, OtherUses DEF Secrets
    <3>4. QED BY <3>2, <3>3
  <2>3. \A j \in Key : secret'[j] # None =>
          Left(secret[j].acc, secret[j].uses)' /\ (limit[secret[j].acc] > 0 => secret[j].uses > 0)'
    <3> TAKE j \in Key
    <3> HAVE secret'[j] # None
    <3> DEFINE b == secret[j].acc n == secret[j].uses
    <3>1. j # k /\ secret[j] # None /\ b' = b /\ n' = n
      BY <1>1
    <3>2. b \in Acc /\ n \in Int /\ Left(b, n) /\ (limit[b] > 0 => n > 0) /\ made[b] = j
      BY <3>1 DEF Secrets, UsesOK, MadeOK, Shapes, EntriesTyped, SecretEntry
    <3>3. secret[k] = None \/ b # a
      BY <1>3, <3>1, <3>2
    <3>4. Left(b, n)'
      BY <2>1, <3>1, <3>2, <3>3 DEF Left, Accepting
    <3>5. QED BY <3>1, <3>2, <3>4
  <2>4. QED BY <2>2, <2>3 DEF UsesOK
<1>9. \A q \in Proc : At(q, "put_secret") => Arg(q, 3).acc \in Acc /\ made[Arg(q, 3).acc] = Arg(q, 2)
  <2> SUFFICES ASSUME NEW q \in Proc, At(q, "put_secret")
               PROVE  Arg(q, 3).acc \in Acc /\ made[Arg(q, 3).acc] = Arg(q, 2)
    OBVIOUS
  <2>1. work[q][1] \in Steps(q) /\ Arg(q, 3) \in SecretEntry
    BY PutHolds
  <2>2. StepOK(work[q][1])
    BY <2>1 DEF Secrets
  <2>3. QED BY <2>1, <2>2 DEF StepOK, At, Arg, SecretEntry
<1>10. \A q \in Proc : q # p /\ At(q, "put_secret") => Arg(q, 2) # k /\ Arg(q, 2) \in Key
  BY OtherKeys, PutHolds
<1>11. GoneOK'
  <2> SUFFICES ASSUME NEW b \in gone', accessor[b] # None
               PROVE  /\ secret'[made[b]] = None \/ secret'[made[b]].acc # b
                      /\ \A q \in Proc : At(q, "put_secret")' => Arg(q, 3)'.acc # b
    BY DEF GoneOK
  <2>1. CASE b \in gone
    <3>1. /\ secret[made[b]] = None \/ secret[made[b]].acc # b
          /\ \A q \in Proc : At(q, "put_secret") => Arg(q, 3).acc # b
      BY <2>1 DEF Secrets, GoneOK
    <3>2. made[b] \in Key
      BY <2>1 DEF Secrets, MadeOK, Shapes, HistoryTyped
    <3>3. secret'[made[b]] = None \/ secret'[made[b]].acc # b
      BY <1>1, <3>1, <3>2
    <3>4. \A q \in Proc : At(q, "put_secret")' => Arg(q, 3)'.acc # b
      <4> TAKE q \in Proc
      <4>1. CASE q = p
        BY <1>6, <4>1, OwnSteps
      <4>2. CASE q # p
        BY <3>1, <4>2, OthersSteps
      <4>3. QED BY <4>1, <4>2
    <3>5. QED BY <3>3, <3>4
  <2>2. CASE secret[k] # None /\ b = a
    <3>1. made[b] = k
      BY <1>3, <2>2
    <3>2. secret'[made[b]] = None
      BY <1>1, <3>1
    <3>3. \A q \in Proc : At(q, "put_secret")' => Arg(q, 3)'.acc # b
      <4> TAKE q \in Proc
      <4>1. CASE q = p
        BY <1>6, <4>1, OwnSteps
      <4>2. CASE q # p
        BY <1>9, <1>10, <3>1, <4>2, OthersSteps
      <4>3. QED BY <4>1, <4>2
    <3>4. QED BY <3>2, <3>3
  <2>3. QED BY <1>4, <2>1, <2>2
<1>12. \A q \in Proc : \A t \in Steps(q)' : StepOK(t)'
  <2> TAKE q \in Proc
  <2> TAKE t \in Steps(q)'
  <2>1. t \in Steps(q)
    BY OwnSteps, OthersSteps
  <2>2. StepOK(t)
    BY <2>1 DEF Secrets
  <2>3. t[1] = "login_use" /\ secret'[t[2]] # None => secret'[t[2]].acc \notin t[3]
    BY <1>1, <2>2 DEF StepOK
  <2>4. QED BY <1>4, <2>2, <2>3 DEF StepOK
<1>13. \A q \in Proc : Fresh(q)'
  <2> TAKE q \in Proc
  <2>1. CASE q = p
    BY <1>6, <2>1, OwnSteps DEF Fresh
  <2>2. CASE q # p
    <3>1. At(q, "put_secret") => secret'[Arg(q, 2)] = secret[Arg(q, 2)]
      BY <1>2, <1>10, <2>2
    <3>2. QED BY <2>2, <3>1, OthersFresh
  <2>3. QED BY <2>1, <2>2
<1>14. \A q \in Proc : Used(q)'
  <2> TAKE q \in Proc
  <2>1. CASE q = p
    BY <1>6, <2>1, OwnSteps DEF Used
  <2>2. CASE q # p
    BY <1>2, <2>2, OthersUsed
  <2>3. QED BY <2>1, <2>2
<1>15. \A q \in Proc : Doing(q)'
  BY OthersDoing
<1>16. QED BY <1>7, <1>8, <1>11, <1>12, <1>13, <1>14, <1>15 DEF Secrets

LEMMA DeleteSecretSecrets ==
  ASSUME Shapes, Secrets, NEW p \in Proc, DeleteSecret(p)
  PROVE  Secrets'
<1>1. UNCHANGED <<accessor, acc, accepts, limit, made>> /\ At(p, "delete_secret")
  BY DEF DeleteSecret
<1>2. ASSUME NEW k \in Key, secret' = [secret EXCEPT ![k] = None],
             gone' = IF secret[k] = None THEN gone ELSE gone \cup {secret[k].acc},
             NEW b \in BOOLEAN, <<k, b>> \in held[p], NEW w, NEW H, Moved(p, w, H),
             StepsOf(w) \subseteq Steps(p), w # <<>> => w[1][1] \in {"unlock", "accept"},
             w # <<>> /\ w[1][1] = "accept" =>
               secret[k] # None /\ secret[k].uses = 1 /\ secret[k].acc = w[1][2]
      PROVE  Secrets'
  <2> DEFINE h == <<k, b>>
  <2>1. h \in held[p] /\ h[1] = k
    BY <1>2
  <2> HIDE DEF h
  <2>2. QED BY <1>1, <1>2, <2>1, DeletesSecret
<1>3. StepsOf(<<>>) = {}
  BY DEF StepsOf
<1>4. CASE p \in Callers
  <2>1. PICK k \in Key : DeleteSecretEffect(p, k)
    BY <1>4, DeleteSecretCaller
  <2> USE DEF DeleteSecretEffect
  <2>2. ASSUME NEW b \in BOOLEAN, <<k, b>> \in held[p], Moved(p, <<>>, {})
        PROVE  Secrets'
    BY <1>2, <1>3, <2>1, <2>2
  <2>3. ASSUME NEW r \in Name, NEW b \in BOOLEAN, held[p] = {<<r, b>>, <<k, TRUE>>},
               Moved(p, <<>>, {})
        PROVE  Secrets'
    BY <2>2, <2>3
  <2>4. ASSUME held[p] = {<<k, FALSE>>}, Moved(p, <<>>, {})
        PROVE  Secrets'
    BY <2>2, <2>4
  <2> DEFINE t == <<"delete_secret", k>> n == <<"unlock", k>>
  <2>5. t[1] = "delete_secret" /\ t[2] = k /\ n[1] = "unlock"
    OBVIOUS
  <2>6. ASSUME NEW a \in Acc, NEW g \in SUBSET Acc, work[p] = <<t, <<"accept", a, g>>>>,
               held[p] = {<<k, TRUE>>}, Moved(p, <<<<"accept", a, g>>>>, held[p])
        PROVE  Secrets'
    <3> DEFINE x == <<"accept", a, g>> w == <<x>>
    <3>1. <<k, TRUE>> \in held[p] /\ x[1] = "accept" /\ x[2] = a
      BY <2>6
    <3>2. Moved(p, w, held[p]) /\ work[p] = <<t, x>>
      BY <2>6
    <3> HIDE DEF t, x
    <3>3. /\ Steps(p) = {t, x} /\ StepsOf(w) = {x} /\ w # <<>> /\ w[1] = x
          /\ Len(work[p]) = 2 /\ work[p][1] = t /\ work[p][2] = x
      BY <3>2, Steps1, Steps2 DEF Steps
    <3> HIDE DEF w
    <3>4. secret[k] # None /\ secret[k].uses = 1 /\ secret[k].acc = a
      BY <1>1, <2>5, <3>1, <3>3 DEF Secrets, Used, Arg
    <3>5. QED BY <1>2, <2>1, <3>1, <3>2, <3>3, <3>4
  <2>7. ASSUME NEW K \in SUBSET Key, NEW o \in Rid, NEW r \in Name,
               work[p] = <<t, n, <<"flush", K>>, <<"delete_role_id", o, r>>,
                           <<"put_role", r, None>>>>,
               held[p] = {<<r, TRUE>>, <<k, TRUE>>},
               Moved(p, <<n, <<"flush", K>>, <<"delete_role_id", o, r>>, <<"put_role", r, None>>>>,
                     held[p])
        PROVE  Secrets'
    <3> DEFINE x == <<"flush", K>> y == <<"delete_role_id", o, r>> z == <<"put_role", r, None>>
               w == <<n, x, y, z>>
    <3>1. <<k, TRUE>> \in held[p]
      BY <2>7
    <3>2. Moved(p, w, held[p]) /\ work[p] = <<t, n, x, y, z>>
      BY <2>7
    <3> HIDE DEF t, n, x, y, z
    <3>3. Steps(p) = {t, n, x, y, z} /\ StepsOf(w) = {n, x, y, z} /\ w # <<>> /\ w[1] = n
      BY <3>2, Steps4, Steps5 DEF Steps
    <3> HIDE DEF w
    <3>4. QED BY <1>2, <2>1, <2>5, <3>1, <3>2, <3>3
  <2>8. QED BY <2>1, <2>3, <2>4, <2>6, <2>7
<1>5. CASE p = Tidy
  <2>1. PICK k, w1, w2, w3 : TidyDeleteSecretEffect(k, w1, w2, w3)
    BY <1>5, DeleteSecretTidy
  <2> USE DEF TidyDeleteSecretEffect
  <2> DEFINE t == <<"delete_secret", k>> n == <<"unlock", k>> w == <<n, w1, w2, w3>>
  <2>2. n[1] = "unlock" /\ <<k, TRUE>> \in held[Tidy]
    BY <2>1
  <2>3. Moved(Tidy, w, held[Tidy]) /\ work[Tidy] = <<t, n, w1, w2, w3>>
    BY <2>1
  <2> HIDE DEF t, n
  <2>4. Steps(Tidy) = {t, n, w1, w2, w3} /\ StepsOf(w) = {n, w1, w2, w3} /\ w # <<>> /\ w[1] = n
    BY <2>3, Steps4, Steps5 DEF Steps
  <2> HIDE DEF w
  <2>5. QED BY <1>2, <1>5, <2>1, <2>2, <2>3, <2>4
<1>6. QED BY <1>4, <1>5 DEF Proc

(* A login is accepted. *)
LEMMA AcceptSecrets ==
  ASSUME Shapes, Secrets, NEW p \in Callers, Accept(p)
  PROVE  Secrets'
<1>1. PICK k \in Key, b \in BOOLEAN, a \in Acc, g \in SUBSET Acc :
           /\ work[p] = <<<<"accept", a, g>>>> /\ held[p] = {<<k, b>>}
           /\ Moved(p, <<>>, {}) /\ accepts' = [accepts EXCEPT ![a] = @ + 1]
  BY AcceptMoves
<1>2. UNCHANGED <<secret, accessor, acc, limit, made, gone>> /\ p \in Proc
  BY CallerIsProc DEF Accept, storage
<1> DEFINE x == <<"accept", a, g>>
<1>3. x[1] = "accept" /\ x[2] = a /\ work[p] = <<x>>
  BY <1>1
<1> HIDE DEF x
<1>4. x \in Steps(p) /\ At(p, "accept") /\ Arg(p, 2) = a /\ StepsOf(<<>>) = {}
  BY <1>3, Steps1 DEF Steps, At, Arg, StepsOf
<1>5. made[a] # None
  BY <1>2, <1>3, <1>4 DEF Secrets, StepOK
<1>6. /\ DOMAIN accepts = Acc /\ accepts[a] \in Nat
      /\ \A c \in Acc : accepts'[c] = IF c = a THEN accepts[a] + 1 ELSE accepts[c]
  BY <1>1 DEF Shapes, HistoryTyped
<1>7. MadeOK'
  BY <1>2, <1>5, <1>6 DEF Secrets, MadeOK
<1>8. UsesOK'
  <2>1. \A c \in Acc : c # a => \A n \in Int : Left(c, n) => Left(c, n)'
    BY <1>1, <1>2, <1>6, OtherUses DEF Secrets
  <2>2. \A n \in Int : Left(a, n) => Left(a, n)'
    <3> TAKE n \in Int
    <3> HAVE Left(a, n)
    <3>1. Cardinality(Accepting(a)') <= Cardinality(Accepting(a)) - 1
      BY <1>1, <1>4, AcceptingLess
    <3>2. Cardinality(Accepting(a)) \in Nat /\ Cardinality(Accepting(a)') \in Nat
      <4>1. Accepting(a)' \subseteq Callers
        BY DEF Accepting
      <4>2. QED BY <4>1, AcceptingFinite, FiniteAssumption, FS_Subset, FS_CardinalityType
    <3>3. limit[a] \in Nat /\ limit'[a] = limit[a]
      BY <1>2, BoundAssumption DEF Shapes, HistoryTyped
    <3>4. limit[a] > 0 => accepts[a] + 1 + Cardinality(Accepting(a)') + n <= limit[a]
      BY <1>6, <3>1, <3>2, <3>3 DEF Left
    <3>5. QED BY <1>6, <3>3, <3>4 DEF Left
  <2>3. \A c \in Acc : \A n \in Int : Left(c, n) => Left(c, n)'
    <3> TAKE c \in Acc
    <3> TAKE n \in Int
    <3>1. CASE c = a
      BY <2>2, <3>1 DEF Left, Accepting
    <3>2. CASE c # a
      BY <2>1, <3>2
    <3>3. QED BY <3>1, <3>2
  <2>4. \A c \in Acc : Left(c, 0)'
    BY <2>3 DEF Secrets, UsesOK
  <2>5. \A j \in Key : secret'[j] # None =>
          Left(secret[j].acc, secret[j].uses)' /\ (limit[secret[j].acc] > 0 => secret[j].uses > 0)'
    <3> TAKE j \in Key
    <3> HAVE secret'[j] # None
    <3> DEFINE c == secret[j].acc n == secret[j].uses
    <3>1. secret[j] # None /\ c' = c /\ n' = n
      BY <1>2
    <3>2. c \in Acc /\ n \in Int /\ Left(c, n) /\ (limit[c] > 0 => n > 0)
      BY <3>1 DEF Secrets, UsesOK, Shapes, EntriesTyped, SecretEntry
    <3>3. Left(c, n)'
      BY <2>3, <3>1, <3>2 DEF Left, Accepting
    <3>4. QED BY <1>2, <3>1, <3>2, <3>3
  <2>6. QED BY <2>4, <2>5 DEF UsesOK
<1>9. GoneOK'
  <2> SUFFICES ASSUME NEW c \in gone, accessor[c] # None
               PROVE  /\ secret[made[c]] = None \/ secret[made[c]].acc # c
                      /\ \A q \in Proc : At(q, "put_secret")' => Arg(q, 3)'.acc # c
    BY <1>2 DEF GoneOK
  <2>1. /\ secret[made[c]] = None \/ secret[made[c]].acc # c
        /\ \A q \in Proc : At(q, "put_secret") => Arg(q, 3).acc # c
    BY DEF Secrets, GoneOK
  <2>2. \A q \in Proc : At(q, "put_secret")' => Arg(q, 3)'.acc # c
    <3> TAKE q \in Proc
    <3>1. CASE q = p
      BY <1>1, <1>2, <3>1, OwnSteps
    <3>2. CASE q # p
      BY <1>1, <1>2, <2>1, <3>2, OthersSteps
    <3>3. QED BY <3>1, <3>2
  <2>3. QED BY <2>1, <2>2
<1>10. \A q \in Proc : \A t \in Steps(q)' : StepOK(t)'
  <2> TAKE q \in Proc
  <2> TAKE t \in Steps(q)'
  <2>1. t \in Steps(q)
    BY <1>1, <1>2, <1>4, OwnSteps, OthersSteps
  <2>2. StepOK(t)
    BY <2>1 DEF Secrets
  <2>3. QED BY <1>2, <2>2 DEF StepOK
<1>11. \A q \in Proc : Fresh(q)'
  <2> TAKE q \in Proc
  <2>1. CASE q = p
    BY <1>1, <1>2, <2>1, OwnSteps DEF Fresh
  <2>2. CASE q # p
    <3>1. ASSUME At(q, "put_secret"), Len(work[q]) = 1
          PROVE  accepts'[Arg(q, 3).acc] = accepts[Arg(q, 3).acc]
      <4>1. Arg(q, 3).acc # a
        BY <1>2, <1>3, <1>4, <3>1 DEF Secrets, Fresh
      <4>2. Arg(q, 3).acc \in Acc
        BY <3>1, PutHolds DEF SecretEntry
      <4>3. QED BY <1>6, <4>1, <4>2
    <3>2. QED BY <1>1, <1>2, <1>4, <2>2, <3>1, OthersFresh
  <2>3. QED BY <2>1, <2>2
<1>12. \A q \in Proc : Used(q)'
  <2> TAKE q \in Proc
  <2>1. CASE q = p
    BY <1>1, <1>2, <2>1, OwnSteps DEF Used
  <2>2. CASE q # p
    <3>1. Used(q)
      BY DEF Secrets
    <3>2. QED BY <1>1, <1>2, <2>2, <3>1, OthersSteps DEF Used, Moved
  <2>3. QED BY <2>1, <2>2
<1>13. \A q \in Proc : Doing(q)'
  BY <1>1, <1>2, <1>4, OthersDoing
<1>14. QED BY <1>7, <1>8, <1>9, <1>10, <1>11, <1>12, <1>13 DEF Secrets

(* An accessor is made. *)
LEMMA MakesAccessor ==
  ASSUME Shapes, Secrets, NEW p \in Callers, NEW k \in Key, NEW a \in Acc, NEW e \in SecretEntry,
         NEW w, w = <<<<"put_secret", k, e>>>>, Moved(p, w, held[p]),
         secret[k] = None, a = acc + 1, acc' = a, e.acc = a, e.uses \in 0..MaxUses,
         accessor' = [accessor EXCEPT ![a] = k], limit' = [limit EXCEPT ![a] = e.uses],
         made' = [made EXCEPT ![a] = k], UNCHANGED <<secret, accepts, gone>>
  PROVE  Secrets'
<1> DEFINE x == <<"put_secret", k, e>>
<1>1. p \in Proc /\ x[1] = "put_secret" /\ x[2] = k /\ x[3] = e /\ w = <<x>>
  BY CallerIsProc
<1> HIDE DEF x
<1>2. StepsOf(w) = {x} /\ w # <<>> /\ w[1] = x /\ Len(w) = 1
  BY <1>1, Steps1
<1>3. acc \in Nat /\ \A b \in Acc : b \in Nat
  BY DEF Shapes, EntriesTyped, Acc
<1>4. made[a] = None /\ limit[a] = 0 /\ accepts[a] = 0 /\ a \notin gone
  <2>1. a > acc
    BY <1>3
  <2>2. QED BY <2>1 DEF Secrets, MadeOK
<1>5. k # None
  BY NameAssumption
<1>6. /\ \A b \in Acc : made'[b] = IF b = a THEN k ELSE made[b]
      /\ \A b \in Acc : limit'[b] = IF b = a THEN e.uses ELSE limit[b]
      /\ \A b \in Acc : accessor'[b] = IF b = a THEN k ELSE accessor[b]
  BY DEF Shapes, HistoryTyped, EntriesTyped
<1>7. \A b \in Acc : made[b] # None => b # a /\ made'[b] = made[b]
  BY <1>4, <1>6
<1>8. \A q \in Proc : \A t \in Steps(q) : t[1] = "accept" => t[2] # a /\ t[2] \in Acc
  BY <1>4 DEF Secrets, StepOK
<1>9. \A j \in Key : secret[j] # None =>
        secret[j].acc \in Acc /\ made[secret[j].acc] = j /\ secret[j].acc # a
  <2> TAKE j \in Key
  <2> HAVE secret[j] # None
  <2>1. secret[j].acc \in Acc /\ made[secret[j].acc] = j
    BY DEF Secrets, MadeOK, Shapes, EntriesTyped, SecretEntry
  <2>2. QED BY <1>4, <2>1, NameAssumption
<1>10. MadeOK'
  <2>1. \A b \in Acc : made'[b] = None <=> b > acc'
    <3> TAKE b \in Acc
    <3>1. made[b] = None <=> b > acc
      BY DEF Secrets, MadeOK
    <3>2. made'[b] = IF b = a THEN k ELSE made[b]
      BY <1>6
    <3>3. b \in Int /\ acc \in Int /\ acc' = acc + 1 /\ a = acc + 1
      BY <1>3 DEF RegisterEntryEffect
    <3>4. QED BY <1>4, <1>5, <3>1, <3>2, <3>3
  <2>2. \A b \in Acc : accessor'[b] # None => accessor'[b] = made'[b]
    BY <1>6 DEF Secrets, MadeOK
  <2>3. \A j \in Key : secret'[j] # None => made'[secret'[j].acc] = j
    BY <1>6, <1>9
  <2>4. \A b \in Acc : made'[b] = None => limit'[b] = 0 /\ accepts'[b] = 0
    BY <1>5, <1>6 DEF Secrets, MadeOK
  <2>5. \A b \in gone' : made'[b] # None
    <3>1. gone \subseteq Acc /\ \A b \in gone : made[b] # None
      BY DEF Secrets, MadeOK, Shapes, HistoryTyped
    <3>2. QED BY <1>7, <3>1
  <2>6. QED BY <2>1, <2>2, <2>3, <2>4, <2>5 DEF MadeOK
<1>11. UsesOK'
  <2>1. \A b \in Acc : b # a => \A n \in Int : Left(b, n) => Left(b, n)'
    <3> TAKE b \in Acc
    <3> HAVE b # a
    <3>1. Cardinality(Accepting(b)') <= Cardinality(Accepting(b))
      BY <1>1, <1>2, AcceptingSame
    <3>2. Cardinality(Accepting(b)') \in Nat
      <4>1. Accepting(b)' \subseteq Callers
        BY DEF Accepting
      <4>2. QED BY <4>1, FiniteAssumption, FS_Subset, FS_CardinalityType
    <3>3. limit'[b] = limit[b] /\ accepts'[b] = accepts[b]
      BY <1>6
    <3>4. QED BY <3>1, <3>2, <3>3, LeftSame
  <2>2. Accepting(a)' = {}
    <3> SUFFICES ASSUME NEW q \in Accepting(a)' PROVE FALSE
      OBVIOUS
    <3>1. q \in Callers /\ At(q, "accept")' /\ Arg(q, 2)' = a
      BY DEF Accepting
    <3>2. q # p
      BY <1>1, <1>2, <3>1, OwnSteps
    <3>3. q \in Proc /\ At(q, "accept") /\ Arg(q, 2) = a
      BY <1>1, <3>1, <3>2, OthersSteps, CallerIsProc
    <3>4. work[q][1] \in Steps(q)
      BY <3>3, AcceptHolds
    <3>5. QED BY <1>8, <3>3, <3>4 DEF At, Arg
  <2>3. Cardinality(Accepting(a)') = 0
    BY <2>2, FS_EmptySet
  <2>4. \A b \in Acc : Left(b, 0)'
    <3> TAKE b \in Acc
    <3>1. CASE b = a
      <4>1. accepts'[b] = 0 /\ limit'[b] \in Nat
        BY <1>4, <1>6, <3>1, BoundAssumption
      <4>2. Cardinality(Accepting(b)') = 0
        BY <2>3, <3>1 DEF Accepting
      <4>3. QED BY <4>1, <4>2 DEF Left
    <3>2. CASE b # a
      BY <2>1, <3>2 DEF Secrets, UsesOK
    <3>3. QED BY <3>1, <3>2
  <2>5. \A j \in Key : secret'[j] # None =>
          Left(secret[j].acc, secret[j].uses)' /\ (limit[secret[j].acc] > 0 => secret[j].uses > 0)'
    <3> TAKE j \in Key
    <3> HAVE secret'[j] # None
    <3> DEFINE b == secret[j].acc n == secret[j].uses
    <3>1. secret[j] # None /\ b' = b /\ n' = n
      OBVIOUS
    <3>2. b \in Acc /\ n \in Int /\ Left(b, n) /\ (limit[b] > 0 => n > 0) /\ b # a
      BY <1>9, <3>1 DEF Secrets, UsesOK, Shapes, EntriesTyped, SecretEntry
    <3>3. Left(b, n)'
      BY <2>1, <3>1, <3>2 DEF Left, Accepting
    <3>4. QED BY <1>6, <3>1, <3>2, <3>3
  <2>6. QED BY <2>4, <2>5 DEF UsesOK
<1>12. GoneOK'
  <2> SUFFICES ASSUME NEW b \in gone, accessor'[b] # None
               PROVE  /\ secret[made'[b]] = None \/ secret[made'[b]].acc # b
                      /\ \A q \in Proc : At(q, "put_secret")' => Arg(q, 3)'.acc # b
    BY DEF GoneOK
  <2>1. b \in Acc /\ b # a /\ made'[b] = made[b] /\ accessor[b] # None
    BY <1>4, <1>6 DEF Shapes, HistoryTyped
  <2>2. /\ secret[made[b]] = None \/ secret[made[b]].acc # b
        /\ \A q \in Proc : At(q, "put_secret") => Arg(q, 3).acc # b
    BY <2>1 DEF Secrets, GoneOK
  <2>3. \A q \in Proc : At(q, "put_secret")' => Arg(q, 3)'.acc # b
    <3> TAKE q \in Proc
    <3>1. CASE q = p
      BY <1>1, <1>2, <2>1, <3>1, OwnSteps
    <3>2. CASE q # p
      BY <1>1, <2>2, <3>2, OthersSteps
    <3>3. QED BY <3>1, <3>2
  <2>4. QED BY <2>1, <2>2, <2>3
<1>13. \A q \in Proc : \A t \in Steps(q) : StepOK(t)'
  <2> TAKE q \in Proc
  <2> TAKE t \in Steps(q)
  <2>1. StepOK(t)
    BY DEF Secrets
  <2>2. t[1] = "put_secret" => made'[t[3].acc] = t[2]
    <3> HAVE t[1] = "put_secret"
    <3>1. t[2] \in Key /\ t[3].acc \in Acc /\ made[t[3].acc] = t[2]
      BY <2>1 DEF StepOK, SecretEntry
    <3>2. QED BY <1>7, <3>1, NameAssumption
  <2>3. t[1] = "destroy_found" => made'[t[3]] = t[2]
    BY <1>7, <2>1, NameAssumption DEF StepOK
  <2>4. t[1] \in {"delete_accessor", "accept"} => made'[t[2]] # None
    BY <1>7, <2>1 DEF StepOK
  <2>5. \A f \in Found : \A b \in DOMAIN f : f[b] = made[b] => f[b] = made'[b]
    <3> TAKE f \in Found
    <3> TAKE b \in DOMAIN f
    <3>1. b \in Acc /\ f[b] \in Key
      BY DEF Found
    <3>2. QED BY <1>7, <3>1, NameAssumption
  <2>6. QED BY <2>1, <2>2, <2>3, <2>4, <2>5 DEF StepOK
<1>14. StepOK(x)'
  BY <1>1, <1>6 DEF StepOK
<1>15. \A q \in Proc : \A t \in Steps(q)' : StepOK(t)'
  <2> TAKE q \in Proc
  <2> TAKE t \in Steps(q)'
  <2>1. t = x \/ t \in Steps(q)
    BY <1>1, <1>2, OwnSteps, OthersSteps
  <2>2. QED BY <1>13, <1>14, <2>1
<1>16. \A q \in Proc : \A t \in Steps(q)' : t[1] = "accept" => t[2] # a
  <2> TAKE q \in Proc
  <2> TAKE t \in Steps(q)'
  <2>1. t = x \/ t \in Steps(q)
    BY <1>1, <1>2, OwnSteps, OthersSteps
  <2>2. QED BY <1>1, <1>8, <2>1
<1>17. \A q \in Proc : Fresh(q)'
  <2> TAKE q \in Proc
  <2>1. CASE q = p
    <3>1. Arg(q, 2)' = k /\ Arg(q, 3)' = e
      BY <1>1, <1>2, <2>1, OwnSteps
    <3>2. secret'[k] = None /\ accessor'[a] = k /\ limit'[a] = e.uses /\ accepts'[a] = 0
      BY <1>4, <1>6
    <3>3. QED BY <1>16, <3>1, <3>2 DEF Fresh
  <2>2. CASE q # p
    <3>1. ASSUME At(q, "put_secret"), Len(work[q]) = 1
          PROVE  Arg(q, 3).acc \in Acc /\ Arg(q, 3).acc # a
      <4>1. work[q][1] \in Steps(q) /\ Arg(q, 3) \in SecretEntry /\ Arg(q, 2) \in Key
        BY <3>1, PutHolds
      <4>2. StepOK(work[q][1])
        BY <4>1 DEF Secrets
      <4>3. made[Arg(q, 3).acc] = Arg(q, 2) /\ Arg(q, 3).acc \in Acc
        BY <3>1, <4>1, <4>2 DEF StepOK, At, Arg, SecretEntry
      <4>4. QED BY <1>4, <4>1, <4>3, NameAssumption
    <3>2. At(q, "put_secret") /\ Len(work[q]) = 1 =>
            LET j == Arg(q, 2) b == Arg(q, 3).acc IN
            /\ secret'[j] = secret[j] /\ accessor'[b] = accessor[b]
            /\ limit'[b] = limit[b] /\ accepts'[b] = accepts[b]
      BY <1>6, <3>1
    <3>3. QED BY <1>1, <1>2, <2>2, <3>2, OthersFresh
  <2>3. QED BY <2>1, <2>2
<1>18. \A q \in Proc : Used(q)'
  <2> TAKE q \in Proc
  <2>1. CASE q = p
    <3>1. Len(work[p])' = 1 /\ work'[p][1][1] = "put_secret"
      BY <1>1, <1>2, OwnSteps
    <3>2. QED BY <2>1, <3>1 DEF Used, At
  <2>2. CASE q # p
    <3>1. Used(q) /\ work'[q] = work[q]
      BY <1>1, <2>2 DEF Secrets, Moved
    <3>2. QED BY <3>1 DEF Used, At, Arg
  <2>3. QED BY <2>1, <2>2
<1>19. \A q \in Proc : Doing(q)'
  <2> TAKE q \in Proc
  <2>1. CASE q = p
    BY <1>1, <1>2, <2>1, OwnSteps DEF Doing
  <2>2. CASE q # p
    <3>1. Doing(q) /\ Steps(q)' = Steps(q)
      BY <1>1, <2>2, OthersSteps DEF Secrets
    <3>2. \A t \in Steps(q) : t[1] = "delete_accessor" => made'[t[2]] = made[t[2]]
      BY <1>7 DEF Secrets, StepOK
    <3>3. QED BY <3>1, <3>2 DEF Doing
  <2>3. QED BY <2>1, <2>2
<1>20. QED BY <1>10, <1>11, <1>12, <1>15, <1>17, <1>18, <1>19 DEF Secrets

LEMMA RegisterEntrySecrets ==
  ASSUME Shapes, Secrets, NEW p \in Callers, RegisterEntry(p)
  PROVE  Secrets'
<1>1. PICK r \in Name, k \in Key, u \in 0..MaxUses, ttl \in 0..1 :
        RegisterEntryEffect(p, r, k, u, ttl)
  BY RegisterEntryMoves
<1> USE DEF RegisterEntryEffect
<1>2. UNCHANGED <<secret, accepts, gone>> /\ p \in Proc
  BY CallerIsProc DEF RegisterEntry
<1>3. ASSUME Moved(p, <<>>, {}), UNCHANGED <<accessor, acc, limit, made, overlap>>
      PROVE  Secrets'
  BY <1>2, <1>3, StopMove
<1>4. ASSUME NEW a \in Acc, NEW e \in SecretEntry,
             secret[k] = None, a = acc + 1, acc' = a, e.acc = a, e.uses = u,
             accessor' = [accessor EXCEPT ![a] = k],
             limit' = [limit EXCEPT ![a] = u], made' = [made EXCEPT ![a] = k],
             Moved(p, <<<<"put_secret", k, e>>>>, held[p])
      PROVE  Secrets'
  <2> DEFINE w == <<<<"put_secret", k, e>>>>
  <2>1. w = <<<<"put_secret", k, e>>>> /\ Moved(p, w, held[p])
    BY <1>4
  <2> HIDE DEF w
  <2>2. e.uses \in 0..MaxUses /\ limit' = [limit EXCEPT ![a] = e.uses]
    BY <1>4
  <2>3. QED BY <1>2, <1>4, <2>1, <2>2, MakesAccessor
<1>5. QED BY <1>1, <1>3, <1>4

LEMMA CrashSecrets ==
  ASSUME Shapes, Secrets, Crash
  PROVE  Secrets'
<1>1. UNCHANGED secrets
      /\ work' = [p \in Proc |-> <<>>]
  BY DEF Crash, storage, history
<1>2. \A p \in Proc : work'[p] = <<>> /\ Steps(p)' = {}
  BY <1>1 DEF Steps, StepsOf
<1>3. \A a : Accepting(a)' = {}
  <2> SUFFICES ASSUME NEW a, NEW q \in Accepting(a)' PROVE FALSE
    OBVIOUS
  <2>1. q \in Callers /\ At(q, "accept")'
    BY DEF Accepting
  <2>2. work'[q] = <<>>
    BY <1>2, <2>1, CallerIsProc
  <2>3. QED BY <2>1, <2>2 DEF At
<1>4. MadeOK'
  BY <1>1 DEF Secrets, MadeOK
<1>5. UsesOK'
  <2>1. \A a \in Acc : \A n \in Int : Left(a, n) => Left(a, n)'
    <3> TAKE a \in Acc
    <3> TAKE n \in Int
    <3>1. Cardinality(Accepting(a)') = 0 /\ Cardinality(Accepting(a)) \in Nat
      BY <1>3, FS_EmptySet, AcceptingFinite
    <3>2. QED BY <1>1, <3>1, LeftSame
  <2>2. \A a \in Acc : Left(a, 0)'
    BY <2>1 DEF Secrets, UsesOK
  <2>3. \A j \in Key : secret'[j] # None =>
          Left(secret[j].acc, secret[j].uses)' /\ (limit[secret[j].acc] > 0 => secret[j].uses > 0)'
    <3> TAKE j \in Key
    <3> HAVE secret'[j] # None
    <3> DEFINE b == secret[j].acc n == secret[j].uses
    <3>1. secret[j] # None /\ b' = b /\ n' = n
      BY <1>1
    <3>2. b \in Acc /\ n \in Int /\ Left(b, n) /\ (limit[b] > 0 => n > 0)
      BY <3>1 DEF Secrets, UsesOK, Shapes, EntriesTyped, SecretEntry
    <3>3. Left(b, n)'
      BY <2>1, <3>1, <3>2 DEF Left, Accepting
    <3>4. QED BY <1>1, <3>1, <3>2, <3>3
  <2>4. QED BY <2>2, <2>3 DEF UsesOK
<1>6. GoneOK'
  <2>1. \A p \in Proc : ~At(p, "put_secret")'
    BY <1>2 DEF At
  <2>2. QED BY <1>1, <2>1 DEF Secrets, GoneOK
<1>7. \A p \in Proc : (\A t \in Steps(p)' : StepOK(t)') /\ Doing(p)'
  BY <1>2 DEF Doing
<1>8. \A p \in Proc : Fresh(p)' /\ Used(p)'
  BY <1>2 DEF Fresh, Used, At
<1>9. QED BY <1>4, <1>5, <1>6, <1>7, <1>8 DEF Secrets

LEMMA StillSecrets ==
  ASSUME Secrets, UNCHANGED <<secret, accessor, acc, accepts, limit, made, gone, work>>
  PROVE  Secrets'
<1>1. MadeOK' /\ GoneOK'
  BY DEF Secrets, MadeOK, GoneOK, At, Arg
<1>2. \A a : Accepting(a)' = Accepting(a)
  BY DEF Accepting, At, Arg
<1>3. UsesOK'
  BY <1>2 DEF Secrets, UsesOK, Left
<1>4. \A p \in Proc : Steps(p)' = Steps(p)
  BY DEF Steps
<1>5. \A p \in Proc : (\A t \in Steps(p)' : StepOK(t)') /\ Doing(p)'
  BY <1>4 DEF Secrets, StepOK, Doing
<1>6. \A p \in Proc : Fresh(p)' /\ Used(p)'
  BY <1>4 DEF Secrets, Fresh, Used, At, Arg
<1>7. QED BY <1>1, <1>3, <1>5, <1>6 DEF Secrets

LEMMA InitSecrets ==
  ASSUME Init
  PROVE  Secrets
<1> DEFINE u == FirstUses
<1>1. PICK s \in Sid :
        /\ secret = [k \in Key |-> IF k = <<1, s>> THEN [acc |-> 1, uses |-> u, exp |-> 1]
                                   ELSE None]
        /\ accessor = [a \in Acc |-> IF a = 1 THEN <<1, s>> ELSE None]
        /\ work = [p \in Proc |-> <<>>] /\ acc = 1
        /\ accepts = [a \in Acc |-> 0]
        /\ limit = [a \in Acc |-> IF a = 1 THEN u ELSE 0]
        /\ made = accessor /\ gone = {}
  BY DEF Init
<1>2. 1 \in Acc /\ <<1, s>> \in Key /\ <<1, s>> # None /\ u \in Nat
  BY BoundAssumption, NameAssumption DEF Acc, Key
<1> DEFINE k0 == <<1, s>> e0 == [acc |-> 1, uses |-> u, exp |-> 1]
<1>3. e0.acc = 1 /\ e0.uses = u
  OBVIOUS
<1>4. \A k \in Key : secret[k] # None => k = k0 /\ secret[k] = e0
  BY <1>1
<1> HIDE DEF k0, e0
<1>5. \A p \in Proc : work[p] = <<>> /\ Steps(p) = {}
  BY <1>1 DEF Steps, StepsOf
<1>6. \A a : Accepting(a) = {}
  <2> SUFFICES ASSUME NEW a, NEW q \in Accepting(a) PROVE FALSE
    OBVIOUS
  <2>1. q \in Callers /\ At(q, "accept")
    BY DEF Accepting
  <2>2. work[q] = <<>>
    BY <1>5, <2>1, CallerIsProc
  <2>3. QED BY <2>1, <2>2 DEF At
<1>7. MadeOK
  <2>1. \A a \in Acc : made[a] = None <=> a > acc
    BY <1>1, <1>2 DEF Acc
  <2>2. \A k \in Key : secret[k] # None => made[secret[k].acc] = k
    BY <1>1, <1>2, <1>3, <1>4 DEF k0
  <2>3. \A a \in Acc : made[a] = None => limit[a] = 0 /\ accepts[a] = 0
    BY <1>1, <1>2
  <2>4. QED BY <1>1, <2>1, <2>2, <2>3 DEF MadeOK
<1>8. UsesOK
  <2>1. \A a \in Acc : Left(a, 0)
    <3> TAKE a \in Acc
    <3>1. Cardinality(Accepting(a)) = 0 /\ accepts[a] = 0 /\ limit[a] \in Nat
      BY <1>1, <1>2, <1>6, FS_EmptySet
    <3>2. QED BY <3>1 DEF Left
  <2>2. \A k \in Key : secret[k] # None =>
          Left(secret[k].acc, secret[k].uses) /\ (limit[secret[k].acc] > 0 => secret[k].uses > 0)
    <3> TAKE k \in Key
    <3> HAVE secret[k] # None
    <3>1. secret[k].acc = 1 /\ secret[k].uses = u
      BY <1>3, <1>4
    <3>2. limit[1] = u /\ accepts[1] = 0 /\ Cardinality(Accepting(1)) = 0
      BY <1>1, <1>2, <1>6, FS_EmptySet
    <3>3. QED BY <1>2, <3>1, <3>2 DEF Left
  <2>3. QED BY <2>1, <2>2 DEF UsesOK
<1>9. GoneOK
  BY <1>1 DEF GoneOK
<1>10. \A p \in Proc : (\A t \in Steps(p) : StepOK(t)) /\ Doing(p)
  BY <1>5 DEF Doing
<1>11. \A p \in Proc : Fresh(p) /\ Used(p)
  BY <1>5 DEF Fresh, Used, At
<1>12. QED BY <1>7, <1>8, <1>9, <1>10, <1>11 DEF Secrets

LEMMA SecretStepSecrets ==
  ASSUME Shapes, Secrets, NEW p \in Callers, SecretStep(p)
  PROVE  Secrets'
<1>1. CASE RegisterStep(p) \/ RegisterEntry(p) \/ PutSecret(p) \/ DestroyStep(p)
           \/ DestroyEntry(p) \/ LookupStep(p) \/ LookupEntry(p)
  BY <1>1, LookingSecrets, RegisterEntrySecrets, PutSecretSecrets, DestroySecrets
<1>2. CASE DestroyAccessorStep(p) \/ DestroyFound(p) \/ LoginIndex(p) \/ LoginRole(p)
           \/ LoginSecret(p) \/ LoginUse(p) \/ Accept(p)
  BY <1>2, DestroySecrets, LoginIndexSecrets, LoginRoleSecrets, LoginSecretSecrets,
     LoginUseSecrets, AcceptSecrets
<1>3. QED BY <1>1, <1>2 DEF SecretStep

LEMMA NextSecretsKept ==
  ASSUME Shapes, Secrets, [Next]_vars
  PROVE  Secrets'
<1>1. CASE \E p \in Callers : Requests(p)
  BY <1>1, RequestsSecrets
<1>2. CASE \E p \in Callers : RoleStep(p) \/ SecretStep(p)
  BY <1>2, RoleStepSecrets, SecretStepSecrets
<1>3. CASE TidyStart \/ TidyList \/ TidyEach \/ TidySecret \/ TidyRest \/ TidyDangling \/ TidyEnd
  BY <1>3, TidySecrets
<1>4. CASE \E p \in Proc : Step(p)
  BY <1>4, LockSecrets, UnlockSecrets, FailSecrets, DeleteAccessorSecrets, DeleteSecretSecrets
     DEF Step
<1>5. CASE Tick
  <2>1. UNCHANGED <<secret, accessor, acc, accepts, limit, made, gone, work>>
    BY <1>5 DEF Tick, storage, history
  <2>2. QED BY <2>1, StillSecrets
<1>6. CASE Crash
  BY <1>6, CrashSecrets
<1>7. CASE UNCHANGED vars
  <2>1. UNCHANGED <<secret, accessor, acc, accepts, limit, made, gone, work>>
    BY <1>7 DEF vars, storage, history
  <2>2. QED BY <2>1, StillSecrets
<1>8. QED BY <1>1, <1>2, <1>3, <1>4, <1>5, <1>6, <1>7 DEF Next, Requests

LEMMA SecretsHold == Spec => []Secrets
<1>1. Init => Secrets
  BY InitSecrets
<1>2. Shapes /\ Secrets /\ [Next]_vars => Secrets'
  BY NextSecretsKept
<1>3. QED BY <1>1, <1>2, ShapesHold, PTL DEF Spec

(* A secret id with num_uses is good for that many logins, however they     *)
(* overlap and whatever fails: what is stored, what is on its way to its    *)
(* acceptance and what was accepted never exceed it (path_login.rs, login). *)
THEOREM UsesBoundedHolds == Spec => []UsesBounded
<1>1. Shapes /\ Secrets => UsesBounded
  <2> SUFFICES ASSUME Shapes, Secrets, NEW a \in Acc, limit[a] > 0
               PROVE  accepts[a] <= limit[a]
    BY DEF UsesBounded
  <2>1. Left(a, 0) /\ Cardinality(Accepting(a)) \in Nat
    BY AcceptingFinite DEF Secrets, UsesOK
  <2>2. accepts[a] \in Nat /\ limit[a] \in Nat
    BY BoundAssumption DEF Shapes, HistoryTyped
  <2>3. QED BY <2>1, <2>2 DEF Left
<1>2. QED BY <1>1, ShapesHold, SecretsHold, PTL

(* No login is accepted with a secret id whose accessor or entry was        *)
(* deleted before it began, by whom and however far (path_login.rs, login). *)
THEOREM GoneRefusedHolds == Spec => []GoneRefused
<1>1. Shapes /\ Secrets => GoneRefused
  <2> SUFFICES ASSUME Shapes, Secrets, NEW p \in Callers, At(p, "accept")
               PROVE  Arg(p, 2) \notin Arg(p, 3)
    BY DEF GoneRefused
  <2>1. work[p][1] \in Steps(p) /\ p \in Proc
    BY AcceptHolds, CallerIsProc
  <2>2. StepOK(work[p][1])
    BY <2>1 DEF Secrets
  <2>3. QED BY <2>2 DEF StepOK, At, Arg
<1>2. QED BY <1>1, ShapesHold, SecretsHold, PTL

-----------------------------------------------------------------------------
(* The third layer is kept.  Whoever is to write a role or its index has    *)
(* the role's lock.                                                         *)

LEMMA SingleStep ==
  ASSUME NEW w, NEW x, w = <<x>>, NEW t \in StepsOf(w)
  PROVE  t = w[1]
  BY Steps1

LEMMA SimpleBodies ==
  ASSUME NEW H, NEW w, CallerBody(H, w),
         w[1][1] \notin {"flush", "delete_role_id", "put_role", "put_secret",
                         "delete_accessor", "delete_secret"}
  PROVE  \E x : w = <<x>>
<1>1. CASE w[1][1] \in {"set_role", "delete_role", "read_role", "repair", "set_role_id"}
  BY <1>1 DEF CallerBody, RoleBody
<1>2. CASE w[1][1] \in {"register", "register_entry", "destroy", "destroy_entry"}
  BY <1>2 DEF CallerBody, SecretBody
<1>3. CASE w[1][1] \in {"lookup", "lookup_entry", "destroy_accessor", "destroy_found"}
  BY <1>3 DEF CallerBody, SecretBody
<1>4. CASE w[1][1] \in {"login", "login_role", "login_secret", "login_use", "accept"}
  BY <1>4 DEF CallerBody, LoginBody
<1>5. QED BY <1>1, <1>2, <1>3, <1>4 DEF CallerBody, CallerOps

(* A role's two writes of the index, and the role between them. *)
LEMMA RoleBodySteps ==
  ASSUME NEW H, NEW w, CallerBody(H, w), NEW t \in StepsOf(w), t[1] \in RoleOps,
         w[1][1] \in {"flush", "delete_role_id", "put_role", "set_role_id"}
  PROVE  HasRole(H, w, t)
<1>1. ~Locked(w)
  BY DEF Locked
<1> USE DEF Holds, ForRole
<1>2. CASE w[1][1] = "flush"
  <2>1. PICK K \in SUBSET Key, o \in Rid, r \in Name :
          w = <<<<"flush", K>>, <<"delete_role_id", o, r>>, <<"put_role", r, None>>>>
          /\ H = {<<r, TRUE>>}
    BY <1>2 DEF CallerBody, RoleBody
  <2> DEFINE x == <<"flush", K>> y == <<"delete_role_id", o, r>> z == <<"put_role", r, None>>
  <2>2. /\ w = <<x, y, z>> /\ x[1] = "flush" /\ y[1] = "delete_role_id" /\ y[2] = o /\ y[3] = r
        /\ z[1] = "put_role" /\ z[2] = r /\ Holds(H, Lower[r])
    BY <2>1
  <2> HIDE DEF x, y, z
  <2>3. t \in {x, y, z}
    BY <2>2, Steps3
  <2>4. QED BY <1>1, <2>2, <2>3, LowerAssumption DEF HasRole, WithRole, RoleOf, RoleOps
<1>3. CASE w[1][1] = "set_role_id"
  <2>1. PICK x \in Rid, r \in Name : w = <<<<"set_role_id", x, r>>>> /\ ForRole(H, r)
    BY <1>3 DEF CallerBody, RoleBody
  <2>2. t = w[1]
    BY <2>1, SingleStep
  <2>3. t[1] = "set_role_id" /\ t[2] = x /\ t[3] = r /\ Holds(H, Lower[r])
    BY <2>1, <2>2
  <2>4. QED BY <1>1, <2>3, LowerAssumption DEF HasRole, WithRole, RoleOf
<1>4. ASSUME NEW r \in Name, ForRole(H, r), NEW x, NEW y, NEW z,
             x[1] = "delete_role_id", x[2] \in Rid, x[3] = r, y[1] = "put_role", y[2] = r,
             z[1] = "set_role_id", z[2] \in Rid, z[3] = r,
             w \in {<<y>>, <<y, z>>, <<x, y>>, <<x, y, z>>}
      PROVE  HasRole(H, w, t)
  <2>1. Holds(H, Lower[r])
    BY <1>4
  <2>2. t \in {x, y, z}
    BY <1>4, Steps1, Steps2, Steps3
  <2>3. RoleOf(t) = Lower[r] /\ (t[1] # "put_role" => t[2] \in Rid)
    BY <1>4, <2>2 DEF RoleOf
  <2>4. QED BY <1>1, <2>1, <2>3, LowerAssumption DEF HasRole, WithRole
<1>5. CASE w[1][1] = "delete_role_id"
  <2>1. PICK o \in Rid, r \in Name :
          /\ ForRole(H, r)
          /\ \/ w = <<<<"delete_role_id", o, r>>, <<"put_role", r, None>>>>
             \/ \E e \in RoleEntry : e.rid # o /\
                  w = <<<<"delete_role_id", o, r>>, <<"put_role", r, e>>,
                        <<"set_role_id", e.rid, r>>>>
    BY <1>5 DEF CallerBody, RoleBody
  <2>2. CASE w = <<<<"delete_role_id", o, r>>, <<"put_role", r, None>>>>
    <3> DEFINE x == <<"delete_role_id", o, r>> y == <<"put_role", r, None>>
               z == <<"set_role_id", o, r>>
    <3>1. /\ x[1] = "delete_role_id" /\ x[2] = o /\ x[3] = r /\ y[1] = "put_role" /\ y[2] = r
          /\ z[1] = "set_role_id" /\ z[2] = o /\ z[3] = r /\ w = <<x, y>>
      BY <2>2
    <3> HIDE DEF x, y, z
    <3>2. QED BY <1>4, <2>1, <3>1
  <2>3. ASSUME NEW e \in RoleEntry,
               w = <<<<"delete_role_id", o, r>>, <<"put_role", r, e>>, <<"set_role_id", e.rid, r>>>>
        PROVE  HasRole(H, w, t)
    <3> DEFINE x == <<"delete_role_id", o, r>> y == <<"put_role", r, e>>
               z == <<"set_role_id", e.rid, r>>
    <3>1. /\ x[1] = "delete_role_id" /\ x[2] = o /\ x[3] = r /\ y[1] = "put_role" /\ y[2] = r
          /\ z[1] = "set_role_id" /\ z[2] = e.rid /\ z[3] = r /\ w = <<x, y, z>>
      BY <2>3
    <3>2. e.rid \in Rid
      BY DEF RoleEntry
    <3> HIDE DEF x, y, z
    <3>3. QED BY <1>4, <2>1, <3>1, <3>2
  <2>4. QED BY <2>1, <2>2, <2>3
<1>6. CASE w[1][1] = "put_role"
  <2>1. PICK r \in Name :
          /\ ForRole(H, r)
          /\ \/ w = <<<<"put_role", r, None>>>>
             \/ \E e \in RoleEntry :
                  \/ w = <<<<"put_role", r, e>>>>
                  \/ w = <<<<"put_role", r, e>>, <<"set_role_id", e.rid, r>>>>
    BY <1>6 DEF CallerBody, RoleBody
  <2>2. ASSUME NEW e, w = <<<<"put_role", r, e>>>>
        PROVE  HasRole(H, w, t)
    <3>1. t = w[1]
      BY <2>2, SingleStep
    <3>2. t[1] = "put_role" /\ t[2] = r /\ Holds(H, Lower[r])
      BY <2>1, <2>2, <3>1
    <3>3. QED BY <1>1, <3>2, LowerAssumption DEF HasRole, WithRole, RoleOf
  <2>3. ASSUME NEW e \in RoleEntry, w = <<<<"put_role", r, e>>, <<"set_role_id", e.rid, r>>>>
        PROVE  HasRole(H, w, t)
    <3> DEFINE x == <<"delete_role_id", e.rid, r>> y == <<"put_role", r, e>>
               z == <<"set_role_id", e.rid, r>>
    <3>1. /\ x[1] = "delete_role_id" /\ x[2] = e.rid /\ x[3] = r /\ y[1] = "put_role" /\ y[2] = r
          /\ z[1] = "set_role_id" /\ z[2] = e.rid /\ z[3] = r /\ w = <<y, z>>
      BY <2>3
    <3>2. e.rid \in Rid
      BY DEF RoleEntry
    <3> HIDE DEF x, y, z
    <3>3. QED BY <1>4, <2>1, <3>1, <3>2
  <2>4. QED BY <2>1, <2>2, <2>3
<1>7. QED BY <1>2, <1>3, <1>5, <1>6

LEMMA CallerRoleSteps ==
  ASSUME NEW H, NEW w, CallerBody(H, w), NEW t \in StepsOf(w), t[1] \in RoleOps
  PROVE  HasRole(H, w, t)
<1>1. CASE w[1][1] \in {"flush", "delete_role_id", "put_role", "set_role_id"}
  BY <1>1, RoleBodySteps
<1>2. CASE w[1][1] = "put_secret"
  <2>1. PICK k \in Key :
          \/ \E r \in Name : w = <<<<"put_secret", k, w[1][3]>>>>
               /\ w[1][3] \in SecretEntry /\ H = {<<r, FALSE>>, <<k, TRUE>>}
          \/ \E g \in SUBSET Acc :
               /\ w = <<<<"put_secret", k, w[1][3]>>, <<"accept", w[1][3].acc, g>>>>
               /\ w[1][3] \in SecretEntry /\ H = {<<k, TRUE>>}
    BY <1>2 DEF CallerBody, WriteBody
  <2>2. ASSUME NEW x, w = <<x>> PROVE FALSE
    <3>1. t = w[1]
      BY <2>2, SingleStep
    <3>2. QED BY <1>2, <3>1 DEF RoleOps
  <2>3. ASSUME NEW x, NEW y, w = <<x, y>>, y[1] = "accept" PROVE FALSE
    <3>1. t \in {x, y} /\ x[1] = "put_secret"
      BY <1>2, <2>3, Steps2
    <3>2. QED BY <2>3, <3>1 DEF RoleOps
  <2>4. ASSUME NEW v, NEW a, NEW g, w = <<<<"put_secret", k, v>>, <<"accept", a, g>>>>
        PROVE  FALSE
    <3> DEFINE x == <<"put_secret", k, v>> y == <<"accept", a, g>>
    <3>1. w = <<x, y>> /\ y[1] = "accept"
      BY <2>4
    <3> HIDE DEF x, y
    <3>2. QED BY <2>3, <3>1
  <2>5. QED BY <2>1, <2>2, <2>4
<1>3. CASE w[1][1] = "delete_accessor"
  <2>1. PICK k \in Key, a \in Acc :
            \/ \E r \in Name, b \in BOOLEAN :
                 w = <<<<"delete_accessor", a>>, <<"delete_secret", k>>>>
                 /\ H = {<<r, b>>, <<k, TRUE>>}
            \/ \E g \in SUBSET Acc :
                 w = <<<<"delete_accessor", a>>, <<"delete_secret", k>>, <<"accept", a, g>>>>
                 /\ H = {<<k, TRUE>>}
    BY <1>3 DEF CallerBody, WriteBody
  <2> DEFINE x == <<"delete_accessor", a>> y == <<"delete_secret", k>> z(g) == <<"accept", a, g>>
  <2>2. x[1] = "delete_accessor" /\ y[1] = "delete_secret" /\ \A g : z(g)[1] = "accept"
    OBVIOUS
  <2>3. w = <<x, y>> \/ \E g : w = <<x, y, z(g)>>
    BY <2>1
  <2> HIDE DEF x, y, z
  <2>4. t \in {x, y} \/ \E g : t = z(g)
    BY <2>3, Steps2, Steps3
  <2>5. QED BY <2>2, <2>4 DEF RoleOps
<1>4. CASE w[1][1] = "delete_secret"
  <2>1. PICK k \in Key :
           \/ \E r \in Name, b \in BOOLEAN : w = <<<<"delete_secret", k>>>>
                /\ H = {<<r, b>>, <<k, TRUE>>}
           \/ w = <<<<"delete_secret", k>>>> /\ H = {<<k, FALSE>>}
           \/ \E a \in Acc, g \in SUBSET Acc :
                w = <<<<"delete_secret", k>>, <<"accept", a, g>>>> /\ H = {<<k, TRUE>>}
           \/ \E K \in SUBSET Key, o \in Rid, r \in Name :
                w = <<<<"delete_secret", k>>, <<"unlock", k>>, <<"flush", K>>,
                      <<"delete_role_id", o, r>>, <<"put_role", r, None>>>>
                /\ H = {<<r, TRUE>>, <<k, TRUE>>}
    BY <1>4 DEF CallerBody, WriteBody
  <2>2. ASSUME w = <<<<"delete_secret", k>>>> PROVE FALSE
    <3>1. t = w[1]
      BY <2>2, SingleStep
    <3>2. QED BY <1>4, <3>1 DEF RoleOps
  <2>3. ASSUME NEW a, NEW g, w = <<<<"delete_secret", k>>, <<"accept", a, g>>>> PROVE FALSE
    <3> DEFINE x == <<"delete_secret", k>> y == <<"accept", a, g>>
    <3>1. w = <<x, y>> /\ y[1] = "accept" /\ x[1] = "delete_secret"
      BY <2>3
    <3> HIDE DEF x, y
    <3>2. t \in {x, y}
      BY <3>1, Steps2
    <3>3. QED BY <3>1, <3>2 DEF RoleOps
  <2>4. ASSUME NEW K \in SUBSET Key, NEW o \in Rid, NEW r \in Name,
               w = <<<<"delete_secret", k>>, <<"unlock", k>>, <<"flush", K>>,
                     <<"delete_role_id", o, r>>, <<"put_role", r, None>>>>,
               H = {<<r, TRUE>>, <<k, TRUE>>}
        PROVE  HasRole(H, w, t)
    <3> DEFINE v == <<"delete_secret", k>> n == <<"unlock", k>> x == <<"flush", K>>
               y == <<"delete_role_id", o, r>> z == <<"put_role", r, None>>
    <3>1. /\ w = <<v, n, x, y, z>> /\ v[1] = "delete_secret" /\ n[1] = "unlock" /\ x[1] = "flush"
          /\ y[1] = "delete_role_id" /\ y[2] = o /\ y[3] = r
          /\ z[1] = "put_role" /\ z[2] = r /\ Holds(H, Lower[r]) /\ <<k, TRUE>> \in H
      BY <2>4 DEF Holds
    <3> HIDE DEF v, n, x, y, z
    <3>2. t \in {v, n, x, y, z}
      BY <3>1, Steps5
    <3>3. QED BY <3>1, <3>2, LowerAssumption DEF HasRole, WithRole, RoleOf, RoleOps
  <2>5. QED BY <2>1, <2>2, <2>3, <2>4
<1>5. CASE w[1][1] \notin {"flush", "delete_role_id", "put_role", "set_role_id", "put_secret",
                           "delete_accessor", "delete_secret"}
  <2>1. PICK x : w = <<x>>
    BY <1>5, SimpleBodies
  <2>2. t = w[1]
    BY <2>1, SingleStep
  <2>3. w[1][1] \notin RoleOps
    BY <1>5 DEF RoleOps
  <2>4. QED BY <2>2, <2>3
<1>6. QED BY <1>1, <1>2, <1>3, <1>4, <1>5

LEMMA RestNames ==
  ASSUME NEW w1, NEW w2, NEW w3
  PROVE  /\ CleanupRests(w1, w2, w3) =>
              w1[1] = "cleanup" /\ w2[1] = "tidy_rest" /\ w3[1] = "tidied"
         /\ DanglingRests(w1, w2) => w1[1] = "dangling" /\ w2[1] = "tidied"
  BY DEF CleanupRests, DanglingRests

(* Tidying writes no role. *)
LEMMA TidyBodySteps ==
  ASSUME NEW H, NEW w, TidyBody(H, w), NEW t \in StepsOf(w)
  PROVE  t[1] \in TidyStepOps
<1> DEFINE w1 == w[1] w2 == w[2] w3 == w[3] w4 == w[4] w5 == w[5] w6 == w[6]
<1>1. w1[1] \in TidyOps
  BY DEF TidyBody
<1>2. CASE w1[1] \in {"tidy", "tidied"}
  <2>1. \E x : w = <<x>>
    BY <1>2 DEF TidyBody
  <2>2. t = w1
    BY <2>1, SingleStep
  <2>3. QED BY <1>1, <2>2 DEF TidyStepOps
<1>3. CASE w1[1] = "cleanup"
  <2>1. w = <<w1, w2, w3>> /\ CleanupRests(w1, w2, w3)
    BY <1>3 DEF TidyBody
  <2> HIDE DEF w1, w2, w3
  <2>2. t \in {w1, w2, w3}
    BY <2>1, Steps3
  <2>3. QED BY <2>1, <2>2, RestNames DEF TidyStepOps, TidyOps
<1>4. CASE w1[1] = "dangling"
  <2>1. w = <<w1, w2>> /\ DanglingRests(w1, w2)
    BY <1>4 DEF TidyBody
  <2> HIDE DEF w1, w2
  <2>2. t \in {w1, w2}
    BY <2>1, Steps2
  <2>3. QED BY <2>1, <2>2, RestNames DEF TidyStepOps, TidyOps
<1>5. CASE w1[1] = "tidy_rest"
  <2>1. PICK E \in SUBSET Key, O \in SUBSET Acc, f \in Found, s \in SUBSET Acc :
          \E R \in SUBSET (1..MaxInc) : w = <<<<"tidy_rest", f, s, R>>, <<"tidied", E, O>>>>
    BY <1>5 DEF TidyBody
  <2>2. PICK R \in SUBSET (1..MaxInc) : w = <<<<"tidy_rest", f, s, R>>, <<"tidied", E, O>>>>
    BY <2>1
  <2> DEFINE x == <<"tidy_rest", f, s, R>> y == <<"tidied", E, O>>
  <2>3. w = <<x, y>> /\ x[1] = "tidy_rest" /\ y[1] = "tidied"
    BY <2>2
  <2> HIDE DEF x, y
  <2>4. t \in {x, y}
    BY <2>3, Steps2
  <2>5. QED BY <2>3, <2>4 DEF TidyStepOps, TidyOps
<1>6. CASE w1[1] \in {"tidy_secret", "delete_secret"}
  <2>1. \E k \in Key : w = <<<<w1[1], k>>, <<"unlock", k>>, w3, w4, w5>>
    BY <1>6 DEF TidyBody
  <2>2. CleanupRests(w3, w4, w5)
    BY <1>6 DEF TidyBody
  <2>3. PICK k \in Key : w = <<<<w1[1], k>>, <<"unlock", k>>, w3, w4, w5>>
    BY <2>1
  <2> DEFINE n == <<"unlock", k>> x == <<w1[1], k>>
  <2>4. w = <<x, n, w3, w4, w5>> /\ n[1] = "unlock" /\ x[1] = w1[1]
    BY <2>3
  <2> HIDE DEF w1, w3, w4, w5, n, x
  <2>5. t \in {x, n, w3, w4, w5}
    BY <2>4, Steps5
  <2>6. QED BY <1>1, <2>2, <2>4, <2>5, RestNames DEF TidyStepOps, TidyOps
<1>7. CASE w1[1] = "delete_accessor"
  <2>1. PICK k \in Key, a \in Acc :
       /\ H = {<<k, TRUE>>}
       /\ \/ /\ Len(w) = 4 /\ w = <<<<"delete_accessor", a>>, <<"unlock", k>>, w[3], w[4]>>
             /\ DanglingRests(w[3], w[4])
          \/ /\ Len(w) = 6
             /\ w = <<<<"delete_accessor", a>>, <<"delete_secret", k>>, <<"unlock", k>>,
                      w[4], w[5], w[6]>>
             /\ CleanupRests(w[4], w[5], w[6])
    BY <1>7 DEF TidyBody
  <2> DEFINE n == <<"unlock", k>> u == <<"delete_secret", k>> x == <<"delete_accessor", a>>
  <2>2. n[1] = "unlock" /\ u[1] = "delete_secret" /\ x[1] = "delete_accessor"
    OBVIOUS
  <2>3. CASE w = <<x, n, w3, w4>> /\ DanglingRests(w3, w4)
    <3> HIDE DEF w3, w4, n, x
    <3>1. t \in {x, n, w3, w4}
      BY <2>3, Steps4
    <3>2. QED BY <2>2, <2>3, <3>1, RestNames DEF TidyStepOps, TidyOps
  <2>4. CASE w = <<x, u, n, w4, w5, w6>> /\ CleanupRests(w4, w5, w6)
    <3> HIDE DEF w4, w5, w6, n, u, x
    <3>1. t \in {x, u, n, w4, w5, w6}
      BY <2>4, Steps6
    <3>2. QED BY <2>2, <2>4, <3>1, RestNames DEF TidyStepOps, TidyOps
  <2>5. QED BY <2>1, <2>3, <2>4
<1>8. QED BY <1>1, <1>2, <1>3, <1>4, <1>5, <1>6, <1>7 DEF TidyOps

LEMMA TidySteps ==
  ASSUME Shapes
  PROVE  \A t \in Steps(Tidy) : t[1] \in TidyStepOps
<1> SUFFICES ASSUME NEW t \in Steps(Tidy) PROVE t[1] \in TidyStepOps
  OBVIOUS
<1> DEFINE H == held[Tidy] w == work[Tidy]
<1>1. Fits(Tidy, H, w)
  BY DEF Shapes, TasksTyped, Proc
<1>2. \A G, v : Body(Tidy, G, v) => \A u \in StepsOf(v) : u[1] \in TidyStepOps
  BY TidyBodySteps DEF Body
<1>3. \A G, v : Locking(Tidy, G, v) => \A u \in StepsOf(v) : u[1] \in TidyStepOps
  <2> SUFFICES ASSUME NEW G, NEW v, Locking(Tidy, G, v), NEW u \in StepsOf(v)
               PROVE  u[1] \in TidyStepOps
    OBVIOUS
  <2>1. PICK k \in Name \cup Key, b \in BOOLEAN :
          /\ v[1] = <<"lock", k, b>> /\ Chain(v) /\ Body(Tidy, G \cup {<<k, b>>}, Tail(v))
    BY DEF Locking
  <2>2. u = v[1] \/ u \in StepsOf(Tail(v))
    BY <2>1 DEF Chain
  <2>3. v[1][1] = "lock"
    BY <2>1
  <2>4. QED BY <1>2, <2>1, <2>2, <2>3 DEF TidyStepOps
<1>4. CASE w = <<>>
  BY <1>4 DEF Steps, StepsOf
<1>5. CASE w # <<>> /\ w[1][1] = "lock"
  BY <1>1, <1>3, <1>5 DEF Fits, Steps
<1>6. CASE w # <<>> /\ w[1][1] = "unlock"
  <2>1. PICK k \in Name \cup Key :
          /\ w[1] = <<"unlock", k>> /\ Chain(w)
          /\ Body(Tidy, Without(H, k), Tail(w)) \/ Locking(Tidy, Without(H, k), Tail(w))
    BY <1>1, <1>6 DEF Fits, Unlocking
  <2>2. t = w[1] \/ t \in StepsOf(Tail(w))
    BY <2>1 DEF Chain, Steps
  <2>3. QED BY <1>2, <1>3, <1>6, <2>1, <2>2 DEF TidyStepOps
<1>7. CASE w # <<>> /\ w[1][1] \notin {"lock", "unlock"}
  BY <1>1, <1>2, <1>7 DEF Fits, Steps
<1>8. QED BY <1>4, <1>5, <1>6, <1>7

(* Who is to write a role or its index has the role's lock. *)
LEMMA RoleSteps ==
  ASSUME Shapes, NEW p \in Proc, NEW t \in Steps(p), t[1] \in RoleOps
  PROVE  WithRole(held[p], t)
<1> DEFINE H == held[p] w == work[p]
<1>1. Fits(p, H, w) /\ p # Tidy
  BY TidySteps DEF Shapes, TasksTyped, RoleOps, TidyStepOps, TidyOps
<1>2. \A G, v : Body(p, G, v) => CallerBody(G, v)
  BY <1>1 DEF Body
<1>3. ASSUME NEW G, NEW v, Locking(p, G, v), t \in StepsOf(v)
      PROVE  WithRole(G, t)
  <2>1. PICK k \in Name \cup Key, b \in BOOLEAN :
          /\ v[1] = <<"lock", k, b>> /\ Chain(v) /\ Body(p, G \cup {<<k, b>>}, Tail(v))
          /\ Locked(Tail(v)) /\ (k \in Name => G = {})
    BY <1>3 DEF Locking
  <2> DEFINE F == G \cup {<<k, b>>}
  <2>2. t \in StepsOf(Tail(v))
    <3>1. v[1][1] = "lock"
      BY <2>1
    <3>2. QED BY <1>3, <2>1, <3>1 DEF Chain, RoleOps
  <2>3. HasRole(F, Tail(v), t)
    BY <1>2, <2>1, <2>2, CallerRoleSteps
  <2>4. PICK j \in Key : <<j, TRUE>> \in F
    BY <2>1, <2>3 DEF HasRole, WithRole
  <2>5. k \notin Name
    <3> SUFFICES ASSUME k \in Name PROVE FALSE
      OBVIOUS
    <3>1. <<j, TRUE>> = <<k, b>>
      BY <2>1, <2>4
    <3>2. j = k
      BY <3>1
    <3>3. QED BY <3>2, NameAssumption
  <2>6. \A n \in Name : <<n, TRUE>> # <<k, b>>
    BY <2>5
  <2>7. QED BY <2>3, <2>6 DEF HasRole, WithRole, Holds
<1>4. CASE w = <<>>
  BY <1>4 DEF Steps, StepsOf
<1>5. CASE w # <<>> /\ w[1][1] = "lock"
  BY <1>1, <1>3, <1>5 DEF Fits, Steps
<1>6. CASE w # <<>> /\ w[1][1] = "unlock"
  <2>1. PICK k \in Name \cup Key :
          /\ w[1] = <<"unlock", k>> /\ Chain(w)
          /\ Body(p, Without(H, k), Tail(w)) \/ Locking(p, Without(H, k), Tail(w))
    BY <1>1, <1>6 DEF Fits, Unlocking
  <2>2. t \in StepsOf(Tail(w))
    BY <1>6, <2>1 DEF Chain, Steps, RoleOps
  <2>3. Without(H, k) \subseteq H
    BY DEF Without
  <2>4. CASE Body(p, Without(H, k), Tail(w))
    <3>1. HasRole(Without(H, k), Tail(w), t)
      BY <1>2, <2>2, <2>4, CallerRoleSteps
    <3>2. QED BY <2>3, <3>1 DEF HasRole, WithRole, Holds
  <2>5. CASE Locking(p, Without(H, k), Tail(w))
    BY <1>3, <2>2, <2>3, <2>5 DEF HasRole, WithRole, Holds
  <2>6. QED BY <2>1, <2>4, <2>5
<1>7. CASE w # <<>> /\ w[1][1] \notin {"lock", "unlock"}
  <2>1. HasRole(H, w, t)
    BY <1>1, <1>2, <1>7, CallerRoleSteps DEF Fits, Steps
  <2>2. QED BY <2>1 DEF HasRole, WithRole
<1>8. QED BY <1>4, <1>5, <1>6, <1>7

LEMMA RoleHead ==
  ASSUME Shapes, NEW p \in Proc
  PROVE  /\ At(p, "put_role") => /\ Arg(p, 2) \in Name /\ Holds(held[p], Lower[Arg(p, 2)])
                                 /\ Arg(p, 3) \in RoleEntry \cup {None}
         /\ At(p, "set_role_id") => /\ Arg(p, 3) \in Name /\ Holds(held[p], Lower[Arg(p, 3)])
                                    /\ work[p][1] \in Steps(p) /\ Arg(p, 2) \in Rid
<1>1. ASSUME NEW op \in {"put_role", "set_role_id"}, At(p, op)
      PROVE  CallerBody(held[p], work[p])
  <2>1. Body(p, held[p], work[p])
    BY <1>1 DEF Shapes, TasksTyped, Fits, At
  <2>2. p # Tidy
    BY <1>1, <2>1 DEF Body, TidyBody, TidyOps, At
  <2>3. QED BY <2>1, <2>2 DEF Body
<1>2. ASSUME At(p, "put_role")
      PROVE  /\ Arg(p, 2) \in Name /\ Holds(held[p], Lower[Arg(p, 2)])
             /\ Arg(p, 3) \in RoleEntry \cup {None}
  <2>1. PICK r \in Name :
          /\ ForRole(held[p], r)
          /\ \/ work[p] = <<<<"put_role", r, None>>>>
             \/ \E e \in RoleEntry :
                  \/ work[p] = <<<<"put_role", r, e>>>>
                  \/ work[p] = <<<<"put_role", r, e>>, <<"set_role_id", e.rid, r>>>>
    BY <1>1, <1>2 DEF CallerBody, RoleBody, At
  <2>2. Arg(p, 2) = r /\ Arg(p, 3) \in RoleEntry \cup {None}
    BY <2>1 DEF Arg
  <2>3. QED BY <2>1, <2>2 DEF ForRole, Holds
<1>3. ASSUME At(p, "set_role_id")
      PROVE  /\ Arg(p, 3) \in Name /\ Holds(held[p], Lower[Arg(p, 3)])
             /\ work[p][1] \in Steps(p) /\ Arg(p, 2) \in Rid
  <2>1. PICK x \in Rid, r \in Name : work[p] = <<<<"set_role_id", x, r>>>> /\ ForRole(held[p], r)
    BY <1>1, <1>3 DEF CallerBody, RoleBody, At
  <2>2. Arg(p, 3) = r /\ Arg(p, 2) = x /\ work[p][1] \in Steps(p)
    BY <2>1, Steps1 DEF Arg, Steps
  <2>3. QED BY <2>1, <2>2 DEF ForRole, Holds
<1>4. QED BY <1>2, <1>3

(* What others have to do of roles is about other roles than p's. *)
LEMMA OtherRoles ==
  ASSUME Shapes, Apiece, NEW p \in Proc, NEW q \in Proc, q # p, NEW r, Holds(held[p], r)
  PROVE  /\ \A t \in Steps(q) : t[1] \in RoleOps => RoleOf(t) # r
         /\ ~Moving(q, r)
         /\ At(q, "put_role") => Lower[Arg(q, 2)] # r
         /\ At(q, "set_role_id") => Lower[Arg(q, 3)] # r
<1>1. ~Holds(held[q], r)
  <2> SUFFICES ASSUME NEW m \in Name, NEW n \in Name, Lower[m] = r, Lower[n] = r,
                      <<m, TRUE>> \in held[p], <<n, TRUE>> \in held[q]
               PROVE  FALSE
    BY DEF Holds
  <2> DEFINE h == <<m, TRUE>> g == <<n, TRUE>>
  <2>1. h[1] = m /\ h[2] /\ g[1] = n /\ g[2] /\ h \in held[p] /\ g \in held[q]
    OBVIOUS
  <2> HIDE DEF h, g
  <2>2. QED BY <2>1 DEF Apiece
<1>2. \A t \in Steps(q) : t[1] \in RoleOps => RoleOf(t) # r
  BY <1>1, RoleSteps DEF WithRole
<1>3. (At(q, "put_role") => Lower[Arg(q, 2)] # r) /\ (At(q, "set_role_id") => Lower[Arg(q, 3)] # r)
  BY <1>1, RoleHead
<1>4. QED BY <1>2, <1>3 DEF Moving

(* Whoever moves a role writes it. *)
LEMMA MovingHolds ==
  ASSUME Shapes, NEW p \in Proc, NEW r, Moving(p, r)
  PROVE  Holds(held[p], r)
  BY RoleHead DEF Moving

(* The roles that role_ids lead to. *)
LEMMA LeadsSame == UNCHANGED index => UNCHANGED leads
  BY DEF leads

LEMMA LeadsTyped == Shapes => leads \in [Rid -> Role \cup {None}]
  BY LowerAssumption DEF leads, Shapes, EntriesTyped

LEMMA LeadsWritten ==
  ASSUME Shapes, NEW x \in Rid, NEW n, index' = [index EXCEPT ![x] = n]
  PROVE  leads' = [leads EXCEPT ![x] = IF n = None THEN None ELSE Lower[n]]
  BY DEF leads, Shapes, EntriesTyped

LEMMA ApartSame ==
  ASSUME NEW p \in Proc, Apart(p), NEW q \in Proc, q # p
  PROVE  /\ Steps(q)' = Steps(q)
         /\ \A op : At(q, op)' <=> At(q, op)
         /\ \A i : Arg(q, i)' = Arg(q, i)
         /\ Len(work[q])' = Len(work[q])
  BY DEF Apart, Steps, At, Arg

LEMMA QuietMove ==
  ASSUME Shapes, Agreeing, NEW p \in Proc, Apart(p), UNCHANGED <<role, index, outdated>>,
         faults \in Nat, faults' \in Nat, faults' >= faults,
         faults' > 0 \/ (~At(p, "put_role") /\ ~At(p, "set_role_id")),
         \A t \in Steps(p)' : t[1] \in {"delete_role_id", "set_role_id"} =>
           t \in Steps(p) \/ (t[1] = "delete_role_id" /\ role[Lower[t[3]]] # None /\ role[Lower[t[3]]].rid = t[2]),
         ~At(p, "put_role")', ~At(p, "set_role_id")'
  PROVE  Agreeing'
<1>0. leads' = leads
  BY LeadsSame
<1>1. \A q \in Proc : \A r : q # p => (Moving(q, r)' <=> Moving(q, r))
  BY ApartSame DEF Moving
<1>2. \A r \in Role : role[r] # None =>
       \/ leads[role[r].rid] = r \/ faults' > 0 \/ role[r].rid \in outdated
       \/ \E q \in Proc : Moving(q, r)'
  <2> TAKE r \in Role
  <2> HAVE role[r] # None
  <2>1. \/ leads[role[r].rid] = r \/ faults > 0 \/ role[r].rid \in outdated
        \/ \E q \in Proc : Moving(q, r)
    BY DEF Agreeing
  <2>2. ASSUME NEW q \in Proc, Moving(q, r)
        PROVE  faults' > 0 \/ Moving(q, r)'
    <3>1. CASE q = p
      BY <2>2, <3>1 DEF Moving
    <3>2. CASE q # p
      BY <1>1, <2>2, <3>2
    <3>3. QED BY <3>1, <3>2
  <2>3. faults > 0 => faults' > 0
    OBVIOUS
  <2>4. QED BY <2>1, <2>2, <2>3
<1>3. \A x \in Rid \ outdated : leads[x] # None => role[leads[x]] # None /\ role[leads[x]].rid = x
  BY DEF Agreeing
<1>4. \A q \in Proc : RoleStepOK(q)'
  <2> TAKE q \in Proc
  <2>1. RoleStepOK(q)
    BY DEF Agreeing
  <2>2. CASE q = p
    BY <1>0, <2>1, <2>2 DEF RoleStepOK
  <2>3. CASE q # p
    BY <1>0, <2>1, <2>3, ApartSame DEF RoleStepOK
  <2>4. QED BY <2>2, <2>3
<1>5. \A q \in Proc : \A t \in Steps(q)' : t[1] = "set_role_id" => t \in Steps(q)
  BY ApartSame
<1>6. \A q1, q2 \in Proc : \A s \in Steps(q1)', t \in Steps(q2)' :
       s[1] = "set_role_id" /\ t[1] = "set_role_id" /\ s[2] = t[2] /\ Lower[s[3]] # Lower[t[3]] =>
         s[2] \in outdated
  BY <1>5 DEF Agreeing
<1>7. QED BY <1>0, <1>2, <1>3, <1>4, <1>6 DEF Agreeing

LEMMA ShapesRoles == Shapes => RolesHeld /\ TidyApart /\ TidyHead
<1>1. Shapes => RolesHeld
  BY RoleSteps, RoleHead DEF RolesHeld, Holds
<1>2. Shapes => TidyApart
  BY TidySteps DEF TidyApart
<1>3. ASSUME Shapes PROVE TidyHead
  <2>1. Fits(Tidy, held[Tidy], work[Tidy])
    BY <1>3 DEF Shapes, TasksTyped, Proc
  <2>2. QED BY <2>1 DEF Fits, Body, TidyBody, TidyOps, TidyHead, At
<1>4. QED BY <1>1, <1>2, <1>3

LEMMA ShapesRolesNext == Shapes' => (RolesHeld /\ TidyApart /\ TidyHead)'
  BY ShapesRoles, PTL

(* A step of one that has no role for writing. *)
LEMMA ReaderMove ==
  ASSUME Shapes, Shapes', Agreeing, NEW p \in Proc, Apart(p), UNCHANGED <<role, index, outdated>>,
         faults' = faults, held'[p] \subseteq held[p],
         \A r \in Name : <<r, TRUE>> \notin held[p]
  PROVE  Agreeing'
<1>1. RolesHeld /\ RolesHeld'
  BY ShapesRoles, ShapesRolesNext
<1>2. \A t \in Steps(p)' : t[1] \notin RoleOps
  BY <1>1 DEF RolesHeld, WithRole, Holds
<1>3. ~At(p, "put_role")' /\ ~At(p, "set_role_id")' /\ ~At(p, "put_role") /\ ~At(p, "set_role_id")
  BY <1>1 DEF RolesHeld
<1>4. faults \in Nat
  BY DEF Shapes, HistoryTyped
<1>5. QED BY <1>2, <1>3, <1>4, QuietMove DEF RoleOps

(* Tidying. *)
LEMMA TidyMoveIndexed ==
  ASSUME Shapes, Shapes', Agreeing, Apart(Tidy), UNCHANGED <<role, index, outdated>>,
         faults' \in {faults, faults + 1}
  PROVE  Agreeing'
<1>1. TidyApart' /\ TidyHead /\ TidyHead'
  BY ShapesRoles, ShapesRolesNext
<1>2. \A t \in Steps(Tidy)' : t[1] \notin {"delete_role_id", "set_role_id"}
  BY <1>1 DEF TidyApart, TidyStepOps, TidyOps
<1>3. faults \in Nat /\ faults' \in Nat /\ faults' >= faults /\ Tidy \in Proc
  BY DEF Shapes, HistoryTyped, Proc
<1>4. QED BY <1>1, <1>2, <1>3, QuietMove DEF TidyHead

(* The steps that write a role, its index, or take a role_id. *)
LEMMA MovedApart ==
  ASSUME NEW p, NEW w, NEW H, Moved(p, w, H)
  PROVE  /\ Apart(p) /\ Steps(p)' = StepsOf(w) /\ work'[p] = w
         /\ \A op : At(p, op)' <=> w # <<>> /\ w[1][1] = op
         /\ \A i : Arg(p, i)' = w[1][i]
         /\ Len(work[p])' = Len(w)
  BY DEF Moved, Apart, Steps, At, Arg

LEMMA NoSteps == StepsOf(<<>>) = {}
  BY DEF StepsOf

LEMMA PutRoleIndexed ==
  ASSUME Shapes, Apiece, Agreeing, NEW p \in Callers, PutRole(p)
  PROVE  Agreeing'
<1>1. p \in Proc /\ UNCHANGED <<index, outdated, faults>> /\ At(p, "put_role")
  BY CallerIsProc DEF PutRole, history
<1>a. leads' = leads /\ leads \in [Rid -> Role \cup {None}]
  BY <1>1, LeadsSame, LeadsTyped
<1>2. ASSUME NEW n \in Name, NEW r \in Role, r = Lower[n], NEW e \in RoleEntry \cup {None},
             Holds(held[p], r), role' = [role EXCEPT ![r] = e], Arg(p, 2) = n, Arg(p, 3) = e,
             NEW w, NEW H, Moved(p, w, H),
             \A t \in StepsOf(w) : t \in Steps(p) /\ t[1] = "set_role_id",
             \/ w = <<>> /\ Len(work[p]) = 1
             \/ e # None /\ w # <<>> /\ w[1][1] = "set_role_id" /\ w[1][2] = e.rid /\ w[1][3] = n
      PROVE  Agreeing'
  <2>1. DOMAIN role = Role /\ \A s \in Role : role'[s] = IF s = r THEN e ELSE role[s]
    BY <1>2 DEF Shapes, EntriesTyped
  <2>2. Apart(p) /\ Steps(p)' = StepsOf(w)
    BY <1>2, MovedApart
  <2>3. \A q \in Proc : q # p =>
          /\ \A t \in Steps(q) : t[1] \in RoleOps => RoleOf(t) # r /\ RoleOf(t) \in Role
          /\ ~Moving(q, r)
          /\ At(q, "put_role") => Lower[Arg(q, 2)] # r /\ Lower[Arg(q, 2)] \in Role
          /\ At(q, "set_role_id") => Lower[Arg(q, 3)] # r /\ Lower[Arg(q, 3)] \in Role
    BY <1>1, <1>2, OtherRoles, RoleSteps, RoleHead, LowerAssumption DEF WithRole
  <2>4. \A q \in Proc, s \in Role : q # p /\ Moving(q, s) => Moving(q, s)'
    <3> TAKE q \in Proc, s \in Role
    <3> HAVE q # p /\ Moving(q, s)
    <3>1. s # r
      BY <2>3
    <3>2. role'[s] = role[s]
      BY <2>1, <3>1
    <3>3. QED BY <1>1, <2>2, <3>2, ApartSame DEF Moving
  <2>5. RoleStepOK(p)
    BY <1>1 DEF Agreeing
  <2>6. \A s \in Role : role'[s] # None =>
          \/ leads[role'[s].rid] = s \/ faults > 0 \/ role'[s].rid \in outdated
          \/ \E q \in Proc : Moving(q, s)'
    <3> TAKE s \in Role
    <3> HAVE role'[s] # None
    <3>1. CASE s # r
      <4>1. role'[s] = role[s]
        BY <2>1, <3>1
      <4>2. \/ leads[role[s].rid] = s \/ faults > 0 \/ role[s].rid \in outdated
            \/ \E q \in Proc : Moving(q, s)
        BY <4>1 DEF Agreeing
      <4>3. ~Moving(p, s)
        BY <1>1, <1>2, <3>1 DEF Moving, At
      <4>4. QED BY <2>4, <4>1, <4>2, <4>3
    <3>2. CASE s = r /\ w # <<>>
      <4>1. e # None /\ role'[r] = e /\ w[1][1] = "set_role_id" /\ w[1][2] = e.rid /\ w[1][3] = n
        BY <1>2, <2>1, <3>2
      <4>2. At(p, "set_role_id")' /\ Arg(p, 2)' = e.rid /\ Arg(p, 3)' = n
        BY <1>2, <3>2, <4>1, MovedApart
      <4>3. Moving(p, s)'
        BY <1>2, <3>2, <4>1, <4>2 DEF Moving
      <4>4. QED BY <1>1, <4>3
    <3>3. CASE s = r /\ w = <<>>
      <4>1. role'[s] = e /\ e # None /\ Len(work[p]) = 1
        BY <1>2, <2>1, <3>3
      <4>2. role[r] # None /\ role[r].rid = e.rid
        BY <1>1, <1>2, <2>5, <4>1 DEF RoleStepOK
      <4>3. \/ leads[role[r].rid] = r \/ faults > 0 \/ role[r].rid \in outdated
            \/ \E q \in Proc : Moving(q, r)
        BY <4>2 DEF Agreeing
      <4>4. ~Moving(p, r)
        BY <1>1, <1>2, <4>1, <4>2 DEF Moving, At
      <4>5. QED BY <2>3, <3>3, <4>1, <4>2, <4>3, <4>4
    <3>4. QED BY <3>1, <3>2, <3>3
  <2>7. \A x \in Rid \ outdated : leads[x] # None =>
          role'[leads[x]] # None /\ role'[leads[x]].rid = x
    <3> TAKE x \in Rid \ outdated
    <3> HAVE leads[x] # None
    <3>1. role[leads[x]] # None /\ role[leads[x]].rid = x /\ leads[x] \in Role
      BY <1>a DEF Agreeing
    <3>2. CASE leads[x] # r
      BY <2>1, <3>1, <3>2
    <3>3. CASE leads[x] = r
      <4>1. ~(e = None \/ e.rid # x)
        BY <1>1, <1>2, <2>5, <3>1, <3>3 DEF RoleStepOK
      <4>2. QED BY <2>1, <3>1, <3>3, <4>1
    <3>4. QED BY <3>2, <3>3
  <2>8. \A q \in Proc : RoleStepOK(q)'
    <3> TAKE q \in Proc
    <3>1. CASE q = p
      <4>1. ~At(p, "put_role")'
        BY <1>2, MovedApart
      <4>2. At(p, "set_role_id")' =>
              role'[Lower[Arg(p, 3)']] # None /\ role'[Lower[Arg(p, 3)']].rid = Arg(p, 2)'
        <5> HAVE At(p, "set_role_id")'
        <5>1. w # <<>>
          BY <1>2, MovedApart
        <5>2. Arg(p, 2)' = e.rid /\ Arg(p, 3)' = n /\ e # None
          BY <1>2, <5>1, MovedApart
        <5>3. QED BY <1>2, <2>1, <5>2
      <4>3. \A t \in Steps(p)' : t[1] = "set_role_id" /\ (t[2] \in outdated \/ leads[t[2]] \in {None, Lower[t[3]]})
        BY <1>2, <2>2, <2>5 DEF RoleStepOK
      <4>4. QED BY <1>1, <1>a, <3>1, <4>1, <4>2, <4>3 DEF RoleStepOK
    <3>2. CASE q # p
      <4>1. RoleStepOK(q)
        BY DEF Agreeing
      <4>2. At(q, "put_role") => role'[Lower[Arg(q, 2)]] = role[Lower[Arg(q, 2)]]
        BY <2>1, <2>3, <3>2
      <4>3. At(q, "set_role_id") => role'[Lower[Arg(q, 3)]] = role[Lower[Arg(q, 3)]]
        BY <2>1, <2>3, <3>2
      <4>4. \A t \in Steps(q) : t[1] = "delete_role_id" => role'[Lower[t[3]]] = role[Lower[t[3]]]
        BY <2>1, <2>3, <3>2 DEF RoleOf, RoleOps
      <4>5. QED BY <1>1, <1>a, <2>2, <3>2, <4>1, <4>2, <4>3, <4>4, ApartSame DEF RoleStepOK
    <3>3. QED BY <3>1, <3>2
  <2>9. \A q \in Proc : Steps(q)' \subseteq Steps(q)
    <3> TAKE q \in Proc
    <3>1. CASE q = p
      BY <1>2, <2>2, <3>1
    <3>2. CASE q # p
      BY <1>1, <2>2, <3>2, ApartSame
    <3>3. QED BY <3>1, <3>2
  <2>10. \A q1, q2 \in Proc : \A s \in Steps(q1)', t \in Steps(q2)' :
         s[1] = "set_role_id" /\ t[1] = "set_role_id" /\ s[2] = t[2] /\ Lower[s[3]] # Lower[t[3]] =>
           s[2] \in outdated
    BY <2>9 DEF Agreeing
  <2>11. QED BY <1>1, <1>a, <2>6, <2>7, <2>8, <2>10 DEF Agreeing
<1>3. PICK n \in Name : PutRoleEffect(p, n)
  BY PutRoleMoves
<1> USE DEF PutRoleEffect
<1>4. PICK r \in Role : r = Lower[n] /\ Holds(held[p], r)
  BY <1>3, LowerAssumption DEF ForRole, Holds
<1>5. ASSUME NEW e \in RoleEntry \cup {None}, role' = [role EXCEPT ![r] = e],
             work[p] = <<<<"put_role", n, e>>>>, Moved(p, <<>>, {})
      PROVE  Agreeing'
  <2>1. Arg(p, 2) = n /\ Arg(p, 3) = e /\ Len(work[p]) = 1
    BY <1>5 DEF Arg
  <2>2. QED BY <1>2, <1>4, <1>5, <2>1, NoSteps
<1>6. ASSUME NEW e \in RoleEntry, role' = [role EXCEPT ![r] = e],
             work[p] = <<<<"put_role", n, e>>, <<"set_role_id", e.rid, n>>>>,
             Moved(p, <<<<"set_role_id", e.rid, n>>>>, held[p])
      PROVE  Agreeing'
  <2> DEFINE x == <<"put_role", n, e>> y == <<"set_role_id", e.rid, n>> w == <<y>>
  <2>1. /\ Arg(p, 2) = n /\ Arg(p, 3) = e /\ y[1] = "set_role_id" /\ y[2] = e.rid /\ y[3] = n
        /\ work[p] = <<x, y>> /\ Moved(p, w, held[p])
    BY <1>6 DEF Arg
  <2> HIDE DEF x, y
  <2>2. Steps(p) = {x, y} /\ StepsOf(w) = {y} /\ w # <<>> /\ w[1] = y
    BY <2>1, Steps1, Steps2 DEF Steps
  <2> HIDE DEF w
  <2>3. e # None
    BY NameAssumption DEF RoleEntry
  <2>4. \A t \in StepsOf(w) : t \in Steps(p) /\ t[1] = "set_role_id"
    BY <2>1, <2>2
  <2>5. w # <<>> /\ w[1][1] = "set_role_id" /\ w[1][2] = e.rid /\ w[1][3] = n
    BY <2>1, <2>2
  <2>6. Arg(p, 2) = n /\ Arg(p, 3) = e /\ Moved(p, w, held[p])
    BY <2>1
  <2> HIDE <2>1, <2>2
  <2>7. QED BY <1>2, <1>4, <1>6, <2>3, <2>4, <2>5, <2>6
<1>7. QED BY <1>3, <1>4, <1>5, <1>6

(* What two tasks have to index under one role_id stays excepted. *)
LEMMA ClashKept ==
  ASSUME Agreeing, NEW p \in Proc, Apart(p), outdated \subseteq outdated',
         \A t \in Steps(p)' : t[1] = "set_role_id" => t \in Steps(p)
  PROVE  \A q1, q2 \in Proc : \A s \in Steps(q1)', t \in Steps(q2)' :
           s[1] = "set_role_id" /\ t[1] = "set_role_id" /\ s[2] = t[2] /\ Lower[s[3]] # Lower[t[3]] =>
             s[2] \in outdated'
<1>1. \A q \in Proc : \A t \in Steps(q)' : t[1] = "set_role_id" => t \in Steps(q)
  BY ApartSame
<1>2. QED BY <1>1 DEF Agreeing

(* The two writes of the index. *)
LEMMA IndexWritten ==
  ASSUME Shapes, Apiece, Agreeing, NEW p \in Proc, Apart(p), UNCHANGED <<role, outdated, faults>>,
         NEW r \in Role, Holds(held[p], r), NEW x \in Rid, NEW v \in {None, r},
         leads' = [leads EXCEPT ![x] = v],
         \A q \in Proc \ {p} : \A t \in Steps(q) :
           t[1] = "set_role_id" /\ t[2] = x /\ v # None => x \in outdated
  PROVE  /\ \A q \in Proc \ {p} : RoleStepOK(q)'
         /\ \A q \in Proc \ {p}, s \in Role : Moving(q, s) => Moving(q, s)' /\ s # r
         /\ DOMAIN leads = Rid
         /\ \A s \in Role : s # None
<1>1. DOMAIN leads = Rid /\ \A y \in Rid : leads'[y] = IF y = x THEN v ELSE leads[y]
  BY LeadsTyped
<1>2. \A s \in Role : s # None
  BY NoneAssumption, LowerAssumption
<1>3. \A q \in Proc \ {p} :
        /\ \A t \in Steps(q) : t[1] \in RoleOps =>
             RoleOf(t) # r /\ RoleOf(t) \in Role /\ (t[1] # "put_role" => t[2] \in Rid)
        /\ At(q, "put_role") => Lower[Arg(q, 2)] # r /\ Lower[Arg(q, 2)] \in Role
  BY OtherRoles, RoleSteps, RoleHead, LowerAssumption DEF WithRole
<1>4. \A q \in Proc \ {p}, s \in Role : Moving(q, s) => Moving(q, s)' /\ s # r
  <2> SUFFICES ASSUME NEW q \in Proc \ {p}, NEW s \in Role, Moving(q, s)
               PROVE  Moving(q, s)' /\ s # r
    OBVIOUS
  <2>1. s # r
    BY OtherRoles
  <2>2. /\ \A op : At(q, op)' <=> At(q, op)
        /\ \A i : Arg(q, i)' = Arg(q, i)
    BY ApartSame
  <2>3. QED BY <2>1, <2>2 DEF Moving
<1>5. ASSUME NEW q \in Proc \ {p} PROVE RoleStepOK(q)'
  <2>1. RoleStepOK(q) /\ q # p
    BY DEF Agreeing
  <2>2. /\ Steps(q)' = Steps(q)
        /\ \A op : At(q, op)' <=> At(q, op)
        /\ \A i : Arg(q, i)' = Arg(q, i)
        /\ Len(work[q])' = Len(work[q])
    BY <2>1, ApartSame
  <2> DEFINE n == Lower[Arg(q, 2)]
  <2>3. At(q, "put_role") /\ role[n] # None /\ leads[role[n].rid] # n => leads'[role[n].rid] # n
    <3> HAVE At(q, "put_role") /\ role[n] # None /\ leads[role[n].rid] # n
    <3>1. n \in Role /\ n # r
      BY <1>3
    <3>2. role[n].rid \in Rid
      BY <3>1 DEF Shapes, EntriesTyped, RoleEntry
    <3>3. QED BY <1>1, <1>2, <3>1, <3>2
  <2>4. \A t \in Steps(q) : t[1] = "set_role_id" =>
          t[2] \in outdated \/ leads'[t[2]] \in {None, Lower[t[3]]}
    <3> TAKE t \in Steps(q)
    <3> HAVE t[1] = "set_role_id"
    <3>1. t[2] \in outdated \/ leads[t[2]] \in {None, Lower[t[3]]}
      BY <2>1 DEF RoleStepOK
    <3>2. t[2] \in Rid
      BY <1>3 DEF RoleOps
    <3>3. CASE t[2] = x
      BY <1>1, <3>2, <3>3
    <3>4. CASE t[2] # x
      BY <1>1, <3>1, <3>2, <3>4
    <3>5. QED BY <3>3, <3>4
  <2>5. QED BY <2>1, <2>2, <2>3, <2>4 DEF RoleStepOK
<1>6. QED BY <1>1, <1>2, <1>4, <1>5

LEMMA SetRoleIdIndexed ==
  ASSUME Shapes, Apiece, Agreeing, NEW p \in Callers, SetRoleId(p)
  PROVE  Agreeing'
<1>1. p \in Proc /\ UNCHANGED <<role, outdated, faults>>
  BY CallerIsProc DEF SetRoleId, history
<1>2. PICK x \in Rid, n \in Name :
           /\ work[p] = <<<<"set_role_id", x, n>>>> /\ ForRole(held[p], n)
           /\ Moved(p, <<>>, {}) /\ index' = [index EXCEPT ![x] = n]
  BY SetRoleIdMoves
<1> DEFINE u == <<"set_role_id", x, n>> r == Lower[n]
<1>a. leads' = [leads EXCEPT ![x] = r] /\ r \in Role
  BY <1>2, LeadsWritten, NoneAssumption, LowerAssumption
<1>6. Holds(held[p], r)
  BY <1>2 DEF ForRole, Holds
<1>3. work[p] = <<u>> /\ u[1] = "set_role_id" /\ u[2] = x /\ u[3] = n
  BY <1>2
<1> HIDE DEF u
<1>4. /\ u \in Steps(p) /\ At(p, "set_role_id") /\ Arg(p, 2) = x /\ Arg(p, 3) = n
      /\ ~At(p, "put_role")
  BY <1>3, Steps1 DEF Steps, At, Arg
<1>5. Apart(p) /\ Steps(p)' = {} /\ \A op : ~At(p, op)'
  BY <1>2, MovedApart, NoSteps
<1>7. /\ x \in outdated \/ (role[r] # None /\ role[r].rid = x)
      /\ x \in outdated \/ leads[x] \in {None, r}
  BY <1>1, <1>3, <1>4 DEF Agreeing, RoleStepOK
<1> HIDE DEF r
<1>8. \A q \in Proc \ {p} : \A t \in Steps(q) :
           t[1] = "set_role_id" /\ t[2] = x => x \in outdated
  <2> TAKE q \in Proc \ {p}
  <2> TAKE t \in Steps(q)
  <2> HAVE t[1] = "set_role_id" /\ t[2] = x
  <2>1. RoleOf(t) # r /\ RoleOf(t) = Lower[t[3]]
    BY <1>1, <1>6, OtherRoles DEF RoleOps, RoleOf
  <2>2. QED BY <1>1, <1>3, <1>4, <2>1 DEF Agreeing, r
<1>9. /\ \A q \in Proc \ {p} : RoleStepOK(q)'
      /\ \A q \in Proc \ {p}, s \in Role : Moving(q, s) => Moving(q, s)' /\ s # r
      /\ DOMAIN leads = Rid
      /\ \A s \in Role : s # None
  BY <1>1, <1>2, <1>a, <1>5, <1>6, <1>8, IndexWritten
<1>10. \A y \in Rid : leads'[y] = IF y = x THEN r ELSE leads[y]
  BY <1>a, <1>9
<1>11. \A s \in Role : Moving(p, s) => s = r /\ role[s].rid = x
  BY <1>4 DEF Moving, r
<1>12. \A s \in Role : role[s] # None =>
          \/ leads'[role[s].rid] = s \/ faults > 0 \/ role[s].rid \in outdated
          \/ \E q \in Proc : Moving(q, s)'
  <2> TAKE s \in Role
  <2> HAVE role[s] # None
  <2>1. \/ leads[role[s].rid] = s \/ faults > 0 \/ role[s].rid \in outdated
        \/ \E q \in Proc : Moving(q, s)
    BY DEF Agreeing
  <2>2. role[s].rid \in Rid
    BY DEF Shapes, EntriesTyped, RoleEntry
  <2>3. CASE role[s].rid = x /\ s # r
    BY <1>7, <1>9, <1>11, <2>1, <2>2, <2>3
  <2>4. CASE role[s].rid = x /\ s = r
    BY <1>10, <2>2, <2>4
  <2>5. CASE role[s].rid # x
    BY <1>9, <1>10, <1>11, <2>1, <2>2, <2>5
  <2>6. QED BY <2>3, <2>4, <2>5
<1>13. \A y \in Rid \ outdated : leads'[y] # None =>
          role[leads'[y]] # None /\ role[leads'[y]].rid = y
  BY <1>7, <1>10 DEF Agreeing
<1>14. RoleStepOK(p)'
  BY <1>5 DEF RoleStepOK
<1>15. \A q1, q2 \in Proc : \A s \in Steps(q1)', t \in Steps(q2)' :
           s[1] = "set_role_id" /\ t[1] = "set_role_id" /\ s[2] = t[2] /\ Lower[s[3]] # Lower[t[3]] =>
             s[2] \in outdated'
  BY <1>1, <1>5, ClashKept
<1>16. QED BY <1>1, <1>9, <1>12, <1>13, <1>14, <1>15 DEF Agreeing

LEMMA DeleteRoleIdIndexed ==
  ASSUME Shapes, Apiece, Agreeing, NEW p \in Callers, DeleteRoleId(p)
  PROVE  Agreeing'
<1>1. p \in Proc /\ UNCHANGED <<role, outdated, faults>>
  BY CallerIsProc DEF DeleteRoleId, history
<1>2. PICK x \in Rid, n \in Name : DeleteRoleIdEffect(p, x, n)
  BY DeleteRoleIdMoves
<1> USE DEF DeleteRoleIdEffect
<1> DEFINE u == <<"delete_role_id", x, n>>
<1>a. PICK r \in Role :
        r = Lower[n] /\ leads' = [leads EXCEPT ![x] = None] /\ Holds(held[p], r)
  BY <1>2, LeadsWritten, LowerAssumption DEF ForRole, Holds
<1>3. u[1] = "delete_role_id" /\ u[2] = x /\ u[3] = n
  OBVIOUS
(* Either way: the rest, its first step and the change of the role. *)
<1>4. PICK w, e : /\ Moved(p, w, held[p]) /\ w # <<>> /\ w[1] = <<"put_role", n, e>>
                  /\ StepsOf(w) \subseteq Steps(p) /\ u \in Steps(p) /\ At(p, "delete_role_id")
                  /\ \/ e = None /\ Len(w) = 1
                     \/ e # None /\ e.rid # x /\ Len(w) = 2
  <2>1. CASE work[p] = <<<<"delete_role_id", x, n>>, <<"put_role", n, None>>>>
             /\ Moved(p, <<<<"put_role", n, None>>>>, held[p])
    <3> DEFINE y == <<"put_role", n, None>> w == <<y>>
    <3>1. work[p] = <<u, y>> /\ Moved(p, w, held[p]) /\ y = <<"put_role", n, None>>
      BY <2>1
    <3> HIDE DEF u, y
    <3>2. /\ StepsOf(w) = {y} /\ w # <<>> /\ w[1] = y /\ Len(w) = 1
          /\ Steps(p) = {u, y} /\ At(p, "delete_role_id")
      BY <1>3, <3>1, Steps1, Steps2 DEF Steps, At
    <3> HIDE DEF w
    <3>3. QED BY <3>1, <3>2
  <2>2. ASSUME NEW e \in RoleEntry, e.rid # x,
               work[p] = <<<<"delete_role_id", x, n>>, <<"put_role", n, e>>,
                           <<"set_role_id", e.rid, n>>>>,
               Moved(p, <<<<"put_role", n, e>>, <<"set_role_id", e.rid, n>>>>, held[p])
        PROVE  \E w, f : /\ Moved(p, w, held[p]) /\ w # <<>> /\ w[1] = <<"put_role", n, f>>
                         /\ StepsOf(w) \subseteq Steps(p) /\ u \in Steps(p)
                         /\ At(p, "delete_role_id")
                         /\ \/ f = None /\ Len(w) = 1
                            \/ f # None /\ f.rid # x /\ Len(w) = 2
    <3> DEFINE y == <<"put_role", n, e>> z == <<"set_role_id", e.rid, n>> w == <<y, z>>
    <3>1. work[p] = <<u, y, z>> /\ Moved(p, w, held[p]) /\ y = <<"put_role", n, e>>
      BY <2>2
    <3>2. e # None
      BY NameAssumption DEF RoleEntry
    <3> HIDE DEF u, y, z
    <3>3. /\ StepsOf(w) = {y, z} /\ w # <<>> /\ w[1] = y /\ Len(w) = 2
          /\ Steps(p) = {u, y, z} /\ At(p, "delete_role_id")
      BY <1>3, <3>1, Steps2, Steps3 DEF Steps, At
    <3> HIDE DEF w
    <3>4. QED BY <2>2, <3>1, <3>2, <3>3
  <2>3. QED BY <1>2, <2>1, <2>2
<1> HIDE DEF u
<1>5. /\ Apart(p) /\ Steps(p)' \subseteq Steps(p) /\ At(p, "put_role")' /\ ~At(p, "set_role_id")'
      /\ Arg(p, 2)' = n /\ Arg(p, 3)' = e /\ Len(work[p])' = Len(w)
  BY <1>4, MovedApart
<1>6. ~At(p, "put_role") /\ ~At(p, "set_role_id")
  BY <1>2, <1>4 DEF At
<1>7. role[r] # None /\ role[r].rid = x
  BY <1>1, <1>a, <1>3, <1>4 DEF Agreeing, RoleStepOK
<1>8. /\ \A q \in Proc \ {p} : RoleStepOK(q)'
      /\ \A q \in Proc \ {p}, s \in Role : Moving(q, s) => Moving(q, s)' /\ s # r
      /\ DOMAIN leads = Rid
      /\ \A s \in Role : s # None
  BY <1>1, <1>2, <1>a, <1>5, IndexWritten
<1>9. \A y \in Rid : leads'[y] = IF y = x THEN None ELSE leads[y]
  BY <1>a, <1>8
<1>10. Moving(p, r)'
  BY <1>1, <1>a, <1>4, <1>5, <1>7 DEF Moving
<1>11. \A s \in Role : ~Moving(p, s)
  BY <1>6 DEF Moving
<1>12. \A s \in Role : role[s] # None =>
          \/ leads'[role[s].rid] = s \/ faults > 0 \/ role[s].rid \in outdated
          \/ \E q \in Proc : Moving(q, s)'
  <2> TAKE s \in Role
  <2> HAVE role[s] # None
  <2>1. CASE s = r
    BY <1>1, <1>10, <2>1
  <2>2. CASE s # r
    <3>1. \/ leads[role[s].rid] = s \/ faults > 0 \/ role[s].rid \in outdated
          \/ \E q \in Proc : Moving(q, s)
      BY DEF Agreeing
    <3>2. role[s].rid \in Rid
      BY DEF Shapes, EntriesTyped, RoleEntry
    <3>3. CASE role[s].rid = x /\ leads[x] = s
      <4>1. \/ leads[x] = r \/ faults > 0 \/ x \in outdated
            \/ \E q \in Proc : Moving(q, r)
        BY <1>7 DEF Agreeing
      <4>2. QED BY <1>8, <1>11, <2>2, <3>3, <4>1
    <3>4. QED BY <1>8, <1>9, <1>11, <3>1, <3>2, <3>3
  <2>3. QED BY <2>1, <2>2
<1>13. \A y \in Rid \ outdated : leads'[y] # None =>
          role[leads'[y]] # None /\ role[leads'[y]].rid = y
  BY <1>9 DEF Agreeing
<1>14. RoleStepOK(p)'
  <2>1. Len(w) = 1 => e = None
    BY <1>4
  <2>2. leads'[role[r].rid] # r
    BY <1>7, <1>8, <1>9
  <2>3. \A t \in Steps(p)' :
          /\ t[1] = "delete_role_id" => role[Lower[t[3]]] # None /\ role[Lower[t[3]]].rid = t[2]
          /\ t[1] = "set_role_id" => t[2] \in outdated \/ leads'[t[2]] \in {None, Lower[t[3]]}
    <3> TAKE t \in Steps(p)'
    <3>1. t \in Steps(p) /\ RoleStepOK(p)
      BY <1>1, <1>5 DEF Agreeing
    <3>2. t[1] = "set_role_id" => t[2] \in Rid
      BY <1>1, <3>1, RoleSteps DEF WithRole, RoleOps
    <3>3. QED BY <1>9, <3>1, <3>2 DEF RoleStepOK
  <2>4. QED BY <1>1, <1>a, <1>5, <2>1, <2>2, <2>3 DEF RoleStepOK
<1>15. \A q1, q2 \in Proc : \A s \in Steps(q1)', t \in Steps(q2)' :
           s[1] = "set_role_id" /\ t[1] = "set_role_id" /\ s[2] = t[2] /\ Lower[s[3]] # Lower[t[3]] =>
             s[2] \in outdated'
  BY <1>1, <1>5, ClashKept
<1>16. QED BY <1>1, <1>8, <1>12, <1>13, <1>14, <1>15 DEF Agreeing

(* A task plans to write r, and perhaps to index x for it. *)
LEMMA PlanMove ==
  ASSUME Shapes, Agreeing, NEW p \in Proc, Apart(p), UNCHANGED <<role, index, faults>>,
         NEW r \in Role, NEW x \in Rid, leads[x] \in {None, r},
         outdated \subseteq outdated',
         ~At(p, "put_role"), ~At(p, "set_role_id"),
         \A t \in Steps(p)' :
           /\ t[1] = "set_role_id" =>
                t[2] = x /\ Lower[t[3]] = r /\ (Contested(p, x, r) => x \in outdated')
           /\ t[1] = "delete_role_id" => role[Lower[t[3]]] # None /\ role[Lower[t[3]]].rid = t[2],
         At(p, "put_role")' =>
           /\ Lower[Arg(p, 2)'] = r /\ Arg(p, 3)' # None /\ Arg(p, 3)'.rid = x
           /\ role[r] # None => role[r].rid = x
           /\ Len(work[p])' = 1 => role[r] # None,
         At(p, "set_role_id")' =>
           /\ Arg(p, 2)' = x /\ Lower[Arg(p, 3)'] = r
           /\ x \in outdated' \/ (role[r] # None /\ role[r].rid = x)
  PROVE  Agreeing'
<1>0. leads' = leads
  BY LeadsSame
<1>1. \A q \in Proc : q # p =>
        /\ Steps(q)' = Steps(q)
        /\ \A op : At(q, op)' <=> At(q, op)
        /\ \A i : Arg(q, i)' = Arg(q, i)
        /\ Len(work[q])' = Len(work[q])
  BY ApartSame
<1>2. \A s \in Role : role[s] # None =>
       \/ leads[role[s].rid] = s \/ faults > 0 \/ role[s].rid \in outdated'
       \/ \E q \in Proc : Moving(q, s)'
  <2> TAKE s \in Role
  <2> HAVE role[s] # None
  <2>1. \/ leads[role[s].rid] = s \/ faults > 0 \/ role[s].rid \in outdated
        \/ \E q \in Proc : Moving(q, s)
    BY DEF Agreeing
  <2>2. ASSUME NEW q \in Proc, Moving(q, s)
        PROVE  Moving(q, s)'
    <3>1. q # p
      BY <2>2 DEF Moving
    <3>2. QED BY <1>1, <2>2, <3>1 DEF Moving
  <2>3. QED BY <2>1, <2>2
<1>3. \A y \in Rid \ outdated' : leads[y] # None => role[leads[y]] # None /\ role[leads[y]].rid = y
  BY DEF Agreeing
<1>4. \A q \in Proc : RoleStepOK(q)'
  <2> TAKE q \in Proc
  <2>1. CASE q = p
    <3>1. At(p, "put_role")' /\ Len(work[p])' = 1 /\ Arg(p, 3)' # None =>
            role'[Lower[Arg(p, 2)']] # None /\ role'[Lower[Arg(p, 2)']].rid = Arg(p, 3)'.rid
      OBVIOUS
    <3>2. At(p, "put_role")' /\ role'[Lower[Arg(p, 2)']] # None =>
            ~(Arg(p, 3)' = None \/ Arg(p, 3)'.rid # role'[Lower[Arg(p, 2)']].rid)
      OBVIOUS
    <3>3. At(p, "set_role_id")' =>
            \/ Arg(p, 2)' \in outdated'
            \/ role'[Lower[Arg(p, 3)']] # None /\ role'[Lower[Arg(p, 3)']].rid = Arg(p, 2)'
      OBVIOUS
    <3>4. \A t \in Steps(p)' :
            /\ t[1] = "delete_role_id" => role'[Lower[t[3]]] # None /\ role'[Lower[t[3]]].rid = t[2]
            /\ t[1] = "set_role_id" => t[2] \in outdated' \/ leads'[t[2]] \in {None, Lower[t[3]]}
      BY <1>0
    <3>5. QED BY <2>1, <3>1, <3>2, <3>3, <3>4 DEF RoleStepOK
  <2>2. CASE q # p
    <3>1. RoleStepOK(q)
      BY DEF Agreeing
    <3>2. QED BY <1>0, <1>1, <2>2, <3>1 DEF RoleStepOK
  <2>3. QED BY <2>1, <2>2
<1>5. ASSUME NEW q1 \in Proc, NEW q2 \in Proc, NEW s \in Steps(q1)', NEW t \in Steps(q2)',
             s[1] = "set_role_id", t[1] = "set_role_id", s[2] = t[2], Lower[s[3]] # Lower[t[3]]
      PROVE  s[2] \in outdated'
  <2>1. \A q \in Proc \ {p} : \A u \in Steps(q) :
          u[1] = "set_role_id" /\ u[2] = x /\ Lower[u[3]] # r => Contested(p, x, r)
    BY DEF Contested, Steps, StepsOf
  <2>2. CASE q1 # p /\ q2 # p
    BY <1>1, <1>5, <2>2 DEF Agreeing
  <2>3. CASE q1 = p
    <3>1. q2 # p /\ t \in Steps(q2) /\ t[2] = x /\ Lower[t[3]] # r /\ s[2] = x
      BY <1>1, <1>5, <2>3
    <3>2. QED BY <1>5, <2>1, <2>3, <3>1
  <2>4. CASE q2 = p
    <3>1. q1 # p /\ s \in Steps(q1) /\ s[2] = x /\ Lower[s[3]] # r
      BY <1>1, <1>5, <2>4
    <3>2. QED BY <1>5, <2>1, <2>4, <3>1
  <2>5. QED BY <2>2, <2>3, <2>4
<1>6. QED BY <1>0, <1>2, <1>3, <1>4, <1>5 DEF Agreeing

LEMMA SetRoleIndexed ==
  ASSUME Shapes, Agreeing, NEW p \in Callers, SetRole(p)
  PROVE  Agreeing'
<1>1. p \in Proc /\ UNCHANGED <<role, index, faults>> /\ At(p, "set_role")
  BY CallerIsProc DEF SetRole, storage
<1>2. ~At(p, "put_role") /\ ~At(p, "set_role_id")
  BY <1>1 DEF At
<1>3. PICK n \in Name, y \in Rid \cup {None} : SetRoleEffect(p, n, y)
  BY SetRoleMoves
<1>a. PICK r \in Role : r = Lower[n]
  BY LowerAssumption
<1>b. \A x \in Rid : index[x] \in {None, n} => leads[x] \in {None, r}
  BY <1>a DEF leads
<1> USE DEF SetRoleEffect
<1>4. CASE Moved(p, <<>>, {}) /\ UNCHANGED <<inc, outdated>>
  <2>1. Apart(p) /\ Steps(p)' = {} /\ \A op : ~At(p, op)'
    BY <1>4, MovedApart, NoSteps
  <2>2. faults \in Nat
    BY DEF Shapes, HistoryTyped
  <2>3. QED BY <1>1, <1>2, <1>4, <2>1, <2>2, QuietMove
<1>5. ASSUME NEW x \in Rid, NEW e \in RoleEntry, leads[x] \in {None, r}, e.rid = x,
             role[r] # None, role[r].rid # x,
             Moved(p, <<<<"delete_role_id", role[r].rid, n>>,
                        <<"put_role", n, e>>, <<"set_role_id", x, n>>>>, held[p]),
             outdated' = IF Contested(p, x, r) THEN outdated \cup {x} ELSE outdated
      PROVE  Agreeing'
  <2> DEFINE a == <<"delete_role_id", role[r].rid, n>> b == <<"put_role", n, e>>
             c == <<"set_role_id", x, n>> w == <<a, b, c>>
  <2>1. /\ a[1] = "delete_role_id" /\ a[2] = role[r].rid /\ a[3] = n
        /\ b[1] = "put_role" /\ c[1] = "set_role_id" /\ c[2] = x /\ c[3] = n
        /\ Moved(p, w, held[p])
    BY <1>5
  <2> HIDE DEF a, b, c
  <2>2. StepsOf(w) = {a, b, c} /\ w # <<>> /\ w[1] = a
    BY Steps3
  <2> HIDE DEF w
  <2>3. /\ Apart(p) /\ Steps(p)' = {a, b, c}
        /\ ~At(p, "put_role")' /\ ~At(p, "set_role_id")'
    BY <2>1, <2>2, MovedApart
  <2>4. outdated \subseteq outdated' /\ (Contested(p, x, r) => x \in outdated')
    BY <1>5
  <2>5. \A t \in Steps(p)' :
           /\ t[1] = "set_role_id" =>
                t[2] = x /\ Lower[t[3]] = r /\ (Contested(p, x, r) => x \in outdated')
           /\ t[1] = "delete_role_id" => role[Lower[t[3]]] # None /\ role[Lower[t[3]]].rid = t[2]
    BY <1>a, <1>5, <2>1, <2>3, <2>4
  <2>6. QED BY <1>1, <1>2, <1>5, <2>3, <2>4, <2>5, PlanMove
<1>6. ASSUME NEW x \in Rid, NEW e \in RoleEntry, leads[x] \in {None, r}, e.rid = x,
             role[r] # None => role[r].rid = x,
             Moved(p, <<<<"put_role", n, e>>, <<"set_role_id", x, n>>>>, held[p]),
             outdated' = IF Contested(p, x, r) THEN outdated \cup {x} ELSE outdated
      PROVE  Agreeing'
  <2> DEFINE b == <<"put_role", n, e>> c == <<"set_role_id", x, n>> w == <<b, c>>
  <2>1. /\ b[1] = "put_role" /\ b[2] = n /\ b[3] = e
        /\ c[1] = "set_role_id" /\ c[2] = x /\ c[3] = n /\ Moved(p, w, held[p])
    BY <1>6
  <2>a. e # None
    BY NameAssumption DEF RoleEntry
  <2> HIDE DEF b, c
  <2>2. StepsOf(w) = {b, c} /\ w # <<>> /\ w[1] = b /\ Len(w) = 2
    BY Steps2
  <2> HIDE DEF w
  <2>3. /\ Apart(p) /\ Steps(p)' = {b, c} /\ Arg(p, 2)' = n /\ Arg(p, 3)' = e
        /\ ~At(p, "set_role_id")' /\ Len(work[p])' = 2
    BY <2>1, <2>2, MovedApart
  <2>4. outdated \subseteq outdated' /\ (Contested(p, x, r) => x \in outdated')
    BY <1>6
  <2>5. \A t \in Steps(p)' :
           /\ t[1] = "set_role_id" =>
                t[2] = x /\ Lower[t[3]] = r /\ (Contested(p, x, r) => x \in outdated')
           /\ t[1] = "delete_role_id" => role[Lower[t[3]]] # None /\ role[Lower[t[3]]].rid = t[2]
    BY <1>a, <1>6, <2>1, <2>3, <2>4
  <2>6. QED BY <1>1, <1>2, <1>a, <1>6, <2>a, <2>3, <2>4, <2>5, PlanMove
<1>7. ASSUME NEW x \in Rid, NEW e \in RoleEntry, leads[x] \in {None, r}, e.rid = x,
             role[r] # None, role[r].rid = x,
             Moved(p, <<<<"put_role", n, e>>>>, held[p]), outdated' = outdated
      PROVE  Agreeing'
  <2> DEFINE b == <<"put_role", n, e>> w == <<b>>
  <2>1. b[1] = "put_role" /\ b[2] = n /\ b[3] = e /\ Moved(p, w, held[p])
    BY <1>7
  <2>a. e # None
    BY NameAssumption DEF RoleEntry
  <2> HIDE DEF b
  <2>2. StepsOf(w) = {b} /\ w # <<>> /\ w[1] = b /\ Len(w) = 1
    BY Steps1
  <2> HIDE DEF w
  <2>3. /\ Apart(p) /\ Steps(p)' = {b} /\ Arg(p, 2)' = n /\ Arg(p, 3)' = e
        /\ ~At(p, "set_role_id")' /\ Len(work[p])' = 1
    BY <2>1, <2>2, MovedApart
  <2>4. \A t \in Steps(p)' : t[1] # "set_role_id" /\ t[1] # "delete_role_id"
    BY <2>1, <2>3
  <2>5. QED BY <1>1, <1>2, <1>a, <1>7, <2>a, <2>3, <2>4, PlanMove
<1>8. QED BY <1>3, <1>a, <1>b, <1>4, <1>5, <1>6, <1>7

LEMMA RepairIndexed ==
  ASSUME Shapes, Agreeing, NEW p \in Callers, Repair(p)
  PROVE  Agreeing'
<1>1. p \in Proc /\ UNCHANGED <<role, index, faults>> /\ At(p, "repair")
  BY CallerIsProc DEF Repair, storage
<1>2. ~At(p, "put_role") /\ ~At(p, "set_role_id")
  BY <1>1 DEF At
<1>3. PICK x \in Rid, n \in Name : RepairEffect(p, x, n)
  BY RepairMoves
<1>a. PICK r \in Role : r = Lower[n] /\ Lower[r] = r
  BY LowerAssumption
<1>b. index[x] = None => leads[x] = None
  BY DEF leads
<1> USE DEF RepairEffect
<1>4. CASE Moved(p, <<>>, {}) /\ UNCHANGED outdated
  <2>1. Apart(p) /\ Steps(p)' = {} /\ \A op : ~At(p, op)'
    BY <1>4, MovedApart, NoSteps
  <2>2. faults \in Nat
    BY DEF Shapes, HistoryTyped
  <2>3. QED BY <1>1, <1>2, <1>4, <2>1, <2>2, QuietMove
<1>5. ASSUME leads[x] = None, Moved(p, <<<<"set_role_id", x, r>>>>, held[p]),
             outdated' = IF role[r] # None /\ role[r].rid = x /\ ~Contested(p, x, r)
                         THEN outdated ELSE outdated \cup {x}
      PROVE  Agreeing'
  <2> DEFINE c == <<"set_role_id", x, r>> w == <<c>>
  <2>1. c[1] = "set_role_id" /\ c[2] = x /\ c[3] = r /\ Moved(p, w, held[p])
    BY <1>5
  <2> HIDE DEF c
  <2>2. StepsOf(w) = {c} /\ w # <<>> /\ w[1] = c
    BY Steps1
  <2> HIDE DEF w
  <2>3. /\ Apart(p) /\ Steps(p)' = {c} /\ Arg(p, 2)' = x /\ Arg(p, 3)' = r /\ ~At(p, "put_role")'
    BY <2>1, <2>2, MovedApart
  <2>4. /\ outdated \subseteq outdated' /\ (Contested(p, x, r) => x \in outdated')
        /\ x \in outdated' \/ (role[r] # None /\ role[r].rid = x)
    BY <1>5
  <2>5. \A t \in Steps(p)' :
           /\ t[1] = "set_role_id" =>
                t[2] = x /\ Lower[t[3]] = r /\ (Contested(p, x, r) => x \in outdated')
           /\ t[1] = "delete_role_id" => role[Lower[t[3]]] # None /\ role[Lower[t[3]]].rid = t[2]
    BY <1>a, <2>1, <2>3, <2>4
  <2>6. QED BY <1>1, <1>2, <1>a, <1>5, <2>3, <2>4, <2>5, PlanMove
<1>6. QED BY <1>3, <1>a, <1>b, <1>4, <1>5

(* Steps that write no role and no index. *)
LEMMA QuietRest ==
  ASSUME Shapes, Agreeing, NEW p \in Proc, NEW w, NEW H, Moved(p, w, H),
         UNCHANGED <<role, index, outdated, faults>>,
         ~At(p, "put_role"), ~At(p, "set_role_id"),
         w # <<>> => w[1][1] \notin {"put_role", "set_role_id"},
         \A t \in StepsOf(w) : t[1] \in {"delete_role_id", "set_role_id"} =>
           t \in Steps(p) \/ (t[1] = "delete_role_id" /\ role[Lower[t[3]]] # None /\ role[Lower[t[3]]].rid = t[2])
  PROVE  Agreeing'
<1>1. /\ Apart(p) /\ Steps(p)' = StepsOf(w)
      /\ ~At(p, "put_role")' /\ ~At(p, "set_role_id")'
  BY MovedApart
<1>2. faults \in Nat
  BY DEF Shapes, HistoryTyped
<1>3. QED BY <1>1, <1>2, QuietMove

LEMMA StopIndexed ==
  ASSUME Shapes, Agreeing, NEW p \in Proc, NEW H, Moved(p, <<>>, H),
         UNCHANGED <<role, index, outdated, faults>>,
         ~At(p, "put_role"), ~At(p, "set_role_id")
  PROVE  Agreeing'
  BY NoSteps, QuietRest

LEMMA DeleteRoleStepIndexed ==
  ASSUME Shapes, Agreeing, NEW p \in Callers, DeleteRoleStep(p)
  PROVE  Agreeing'
<1>1. p \in Proc /\ UNCHANGED <<role, index, outdated, faults>> /\ At(p, "delete_role")
  BY CallerIsProc DEF DeleteRoleStep, storage, history
<1>2. ~At(p, "put_role") /\ ~At(p, "set_role_id")
  BY <1>1 DEF At
<1>3. PICK n \in Name : DeleteRoleStepEffect(p, n)
  BY DeleteRoleStepMoves
<1>a. PICK r \in Role : r = Lower[n]
  BY LowerAssumption
<1> USE DEF DeleteRoleStepEffect
<1>4. CASE Moved(p, <<>>, {})
  BY <1>1, <1>2, <1>4, StopIndexed
<1>5. ASSUME NEW K \in SUBSET Key, role[r] \in RoleEntry,
             Moved(p, <<<<"flush", K>>, <<"delete_role_id", role[r].rid, n>>,
                        <<"put_role", n, None>>>>, held[p])
      PROVE  Agreeing'
  <2> DEFINE a == <<"flush", K>> b == <<"delete_role_id", role[r].rid, n>>
             c == <<"put_role", n, None>> w == <<a, b, c>>
  <2>1. /\ a[1] = "flush" /\ b[1] = "delete_role_id" /\ b[2] = role[r].rid /\ b[3] = n
        /\ c[1] = "put_role" /\ Moved(p, w, held[p])
    BY <1>5
  <2>2. role[r] # None
    BY <1>5, NameAssumption DEF RoleEntry
  <2> HIDE DEF a, b, c
  <2>3. StepsOf(w) = {a, b, c} /\ w[1] = a
    BY Steps3
  <2> HIDE DEF w
  <2>4. QED BY <1>1, <1>2, <1>a, <2>1, <2>2, <2>3, QuietRest
<1>6. QED BY <1>3, <1>a, <1>4, <1>5

LEMMA FlushIndexed ==
  ASSUME Shapes, Agreeing, NEW p \in Callers, Flush(p)
  PROVE  Agreeing'
<1>1. p \in Proc /\ UNCHANGED <<role, index, outdated, faults>> /\ At(p, "flush")
  BY CallerIsProc DEF Flush, ForEach, storage, history
<1>2. ~At(p, "put_role") /\ ~At(p, "set_role_id")
  BY <1>1 DEF At
<1>3. PICK K \in SUBSET Key, x \in Rid, r \in Name : FlushEffect(p, K, x, r)
  BY FlushMoves
<1> USE DEF FlushEffect
<1> DEFINE a == <<"flush", K>> b == <<"delete_role_id", x, r>> c == <<"put_role", r, None>>
<1>4. work[p] = <<a, b, c>> /\ b[1] = "delete_role_id" /\ c[1] = "put_role"
  BY <1>3
<1>5. CASE Moved(p, <<b, c>>, held[p])
  <2> DEFINE w == <<b, c>>
  <2> HIDE DEF a, b, c
  <2>1. Moved(p, w, held[p]) /\ StepsOf(w) = {b, c} /\ w[1] = b /\ b \in Steps(p)
    BY <1>4, <1>5, Steps2, Steps3 DEF Steps
  <2> HIDE DEF w
  <2>2. QED BY <1>1, <1>2, <1>4, <2>1, QuietRest
<1>6. ASSUME NEW k \in K,
             Moved(p, <<write(k), <<"delete_secret", k>>, <<"unlock", k>>,
                        <<"flush", K \ {k}>>, b, c>>, held[p])
      PROVE  Agreeing'
  <2> DEFINE d == write(k) e == <<"delete_secret", k>> f == <<"unlock", k>>
             g == <<"flush", K \ {k}>> w == <<d, e, f, g, b, c>>
  <2>1. /\ d[1] = "lock" /\ e[1] = "delete_secret" /\ f[1] = "unlock" /\ g[1] = "flush"
        /\ Moved(p, w, held[p])
    BY <1>6 DEF write
  <2> HIDE DEF a, b, c, d, e, f, g
  <2>2. StepsOf(w) = {d, e, f, g, b, c} /\ w[1] = d /\ b \in Steps(p)
    BY <1>4, Steps6, Steps3 DEF Steps
  <2> HIDE DEF w
  <2>3. QED BY <1>1, <1>2, <1>4, <2>1, <2>2, QuietRest
<1>7. QED BY <1>3, <1>5, <1>6

LEMMA ReadRoleStepIndexed ==
  ASSUME Shapes, Agreeing, NEW p \in Callers, ReadRoleStep(p)
  PROVE  Agreeing'
<1>1. p \in Proc /\ UNCHANGED <<role, index, outdated, faults>> /\ At(p, "read_role")
  BY CallerIsProc DEF ReadRoleStep, storage, history
<1>2. ~At(p, "put_role") /\ ~At(p, "set_role_id")
  BY <1>1 DEF At
<1>3. PICK r \in Name :
           /\ work[p] = <<<<"read_role", r>>>> /\ held[p] = {<<r, FALSE>>}
           /\ \/ Moved(p, <<>>, {})
              \/ \E x \in Rid :
                   Moved(p, <<<<"unlock", r>>, write(r), <<"repair", x, r>>>>, held[p])
  BY ReadRoleStepMoves
<1>4. CASE Moved(p, <<>>, {})
  BY <1>1, <1>2, <1>4, StopIndexed
<1>5. ASSUME NEW x \in Rid,
             Moved(p, <<<<"unlock", r>>, write(r), <<"repair", x, r>>>>, held[p])
      PROVE  Agreeing'
  <2> DEFINE a == <<"unlock", r>> b == write(r) c == <<"repair", x, r>> w == <<a, b, c>>
  <2>1. a[1] = "unlock" /\ b[1] = "lock" /\ c[1] = "repair" /\ Moved(p, w, held[p])
    BY <1>5 DEF write
  <2> HIDE DEF a, b, c
  <2>2. StepsOf(w) = {a, b, c} /\ w[1] = a
    BY Steps3
  <2> HIDE DEF w
  <2>3. QED BY <1>1, <1>2, <2>1, <2>2, QuietRest
<1>6. QED BY <1>3, <1>4, <1>5

LEMMA RoleStepIndexed ==
  ASSUME Shapes, Apiece, Agreeing, NEW p \in Callers, RoleStep(p)
  PROVE  Agreeing'
  BY SetRoleIndexed, PutRoleIndexed, SetRoleIdIndexed, DeleteRoleIdIndexed,
     DeleteRoleStepIndexed, FlushIndexed, ReadRoleStepIndexed, RepairIndexed DEF RoleStep

(* Callers and tidying change what they have to do, and drop locks. *)

LEMMA ThenRests ==
  ASSUME NEW p, Refuse(p) \/ \E s : Then(p, s)
  PROVE  RestOf(p)
  BY DEF Refuse, Then, RestOf

LEMMA RoleRests ==
  ASSUME NEW p, RoleStep(p)
  PROVE  RestOf(p) /\ Quiet(p) /\ outdated \subseteq outdated'
<1> USE DEF Quiet, storage, history, At
<1> SUFFICES Quiet(p) /\ outdated \subseteq outdated' /\ (Refuse(p) \/ \E s : Then(p, s))
  BY ThenRests
<1>1. CASE SetRole(p)
  BY <1>1 DEF SetRole
<1>2. CASE PutRole(p) \/ SetRoleId(p) \/ DeleteRoleId(p)
  BY <1>2 DEF PutRole, SetRoleId, DeleteRoleId
<1>3. CASE DeleteRoleStep(p) \/ ReadRoleStep(p)
  BY <1>3 DEF DeleteRoleStep, ReadRoleStep
<1>4. CASE Flush(p)
  BY <1>4 DEF Flush, ForEach
<1>5. CASE Repair(p)
  BY <1>5 DEF Repair
<1>6. QED BY <1>1, <1>2, <1>3, <1>4, <1>5 DEF RoleStep

LEMMA LookingRests ==
  ASSUME NEW p, Looking(p) \/ LoggingIn(p)
  PROVE  RestOf(p) /\ Quiet(p) /\ UNCHANGED <<role, index, outdated, faults>>
<1> USE DEF Quiet, storage, history, At
<1> SUFFICES /\ Quiet(p) /\ UNCHANGED <<role, index, outdated, faults>>
             /\ Refuse(p) \/ \E s : Then(p, s)
  BY ThenRests
<1>1. CASE RegisterStep(p) \/ DestroyAccessorStep(p) \/ DestroyFound(p)
  BY <1>1 DEF RegisterStep, DestroyAccessorStep, DestroyFound
<1>2. CASE DestroyStep(p) \/ LookupStep(p)
  BY <1>2 DEF DestroyStep, LookupStep, OnSecret
<1>3. CASE DestroyEntry(p) \/ LookupEntry(p)
  BY <1>3 DEF DestroyEntry, LookupEntry
<1>4. CASE LoginIndex(p) \/ LoginRole(p)
  BY <1>4 DEF LoginIndex, LoginRole
<1>5. CASE LoginSecret(p)
  BY <1>5 DEF LoginSecret
<1>6. CASE LoginUse(p) \/ Accept(p)
  BY <1>6 DEF LoginUse, Accept
<1>7. QED BY <1>1, <1>2, <1>3, <1>4, <1>5, <1>6 DEF Looking, LoggingIn

LEMMA SecretRests ==
  ASSUME NEW p, SecretStep(p)
  PROVE  RestOf(p) /\ UNCHANGED <<role, index, outdated, faults>>
<1>1. CASE RegisterEntry(p) \/ PutSecret(p)
  <2>1. Refuse(p) \/ \E s : Then(p, s)
    BY <1>1 DEF RegisterEntry, PutSecret
  <2>2. QED BY <1>1, <2>1, ThenRests DEF RegisterEntry, PutSecret
<1>2. QED BY <1>1, LookingRests DEF SecretStep, Looking, LoggingIn

LEMMA TidyRests ==
  ASSUME TidyList \/ TidyEach \/ TidySecret \/ TidyRest \/ TidyDangling \/ TidyEnd
  PROVE  RestOf(Tidy) /\ UNCHANGED <<role, index, outdated, faults>>
<1> USE DEF storage, history
<1>1. CASE TidyList \/ TidyRest \/ TidyEnd
  <2>1. \E s : Then(Tidy, s)
    BY <1>1 DEF TidyList, TidyRest, TidyEnd
  <2>2. QED BY <1>1, <2>1, ThenRests DEF TidyList, TidyRest, TidyEnd
<1>2. CASE TidyEach \/ TidyDangling
  <2>1. \E s : Then(Tidy, s)
    BY <1>2 DEF TidyEach, TidyDangling, ForEach
  <2>2. QED BY <1>2, <2>1, ThenRests DEF TidyEach, TidyDangling, ForEach
<1>3. CASE TidySecret
  <2>1. Refuse(Tidy) \/ (\E s : Then(Tidy, s)) \/ RestOf(Tidy)
    BY <1>3 DEF TidySecret, RestOf
  <2>2. QED BY <1>3, <2>1, ThenRests DEF TidySecret
<1>4. QED BY <1>1, <1>2, <1>3

LEMMA RequestsRequest ==
  ASSUME NEW p, Requests(p)
  PROVE  \E w : Request(p, w)
<1>1. CASE WriteRole(p) \/ SetField(p) \/ DeleteRole(p) \/ ReadRole(p)
  BY <1>1 DEF WriteRole, SetField, DeleteRole, ReadRole
<1>2. CASE Register(p) \/ Destroy(p) \/ Lookup(p)
  BY <1>2 DEF Register, Destroy, Lookup
<1>3. CASE DestroyByAccessor(p) \/ Login(p)
  BY <1>3 DEF DestroyByAccessor, Login
<1>4. QED BY <1>1, <1>2, <1>3 DEF Requests

LEMMA RestApart ==
  ASSUME Shapes, NEW p \in Proc, RestOf(p)
  PROVE  /\ Apart(p) /\ \A q \in Proc : held'[q] \subseteq held[q]
         /\ \E w, H : Moved(p, w, H)
<1>1. PICK w : Rest(p, w)
  BY DEF RestOf
<1>2. Moved(p, w, held'[p])
  BY <1>1 DEF Shapes, TasksTyped, Rest, Moved
<1>3. QED BY <1>1, <1>2 DEF Shapes, TasksTyped, Rest, Apart

(* Secret ids and logins: at most one's role is held, for reading. *)

LEMMA ReaderHolds ==
  ASSUME Shapes, NEW p \in Callers, NEW op \in ReaderOps, At(p, op), NEW r \in Name
  PROVE  <<r, TRUE>> \notin held[p]
<1>1. CallerBody(held[p], work[p]) /\ work[p][1][1] = op
  BY AtCaller DEF ReaderOps, At
<1>2. \A k \in Key : \A b : <<r, TRUE>> # <<k, b>>
  BY NameAssumption
<1>3. \A s : <<r, TRUE>> # <<s, FALSE>>
  OBVIOUS
<1>4. CASE op \in {"register", "destroy", "lookup"}
  <2>1. CASE op = "register"
    <3>1. \E s \in Name : held[p] = {<<s, FALSE>>}
      BY <1>1, <2>1 DEF CallerBody, SecretBody
    <3>2. QED BY <1>3, <3>1
  <2>2. CASE op = "destroy"
    BY <1>1, <1>3, <2>2 DEF CallerBody, SecretBody
  <2>3. CASE op = "lookup"
    BY <1>1, <1>3, <2>3 DEF CallerBody, SecretBody
  <2>4. QED BY <1>4, <2>1, <2>2, <2>3
<1>5. CASE op \in {"register_entry", "destroy_entry", "lookup_entry"}
  BY <1>1, <1>2, <1>3, <1>5 DEF CallerBody, SecretBody
<1>6. CASE op \in {"login", "login_role", "login_secret", "login_use", "accept"}
  BY <1>1, <1>2, <1>3, <1>6 DEF CallerBody, LoginBody
<1>7. CASE op = "put_secret"
  BY <1>1, <1>2, <1>3, <1>7 DEF CallerBody, WriteBody
<1>8. QED BY <1>4, <1>5, <1>6, <1>7 DEF ReaderOps

LEMMA Readers ==
  ASSUME NEW p, SecretStep(p), ~DestroyAccessorStep(p), ~DestroyFound(p)
  PROVE  \E op \in ReaderOps : At(p, op)
<1> USE DEF ReaderOps
<1>1. CASE RegisterStep(p) \/ RegisterEntry(p) \/ PutSecret(p)
  BY <1>1 DEF RegisterStep, RegisterEntry, PutSecret
<1>2. CASE DestroyStep(p) \/ LookupStep(p) \/ DestroyEntry(p) \/ LookupEntry(p)
  BY <1>2 DEF DestroyStep, LookupStep, OnSecret, DestroyEntry, LookupEntry
<1>3. CASE LoginIndex(p) \/ LoginRole(p) \/ LoginSecret(p) \/ LoginUse(p) \/ Accept(p)
  BY <1>3 DEF LoginIndex, LoginRole, LoginSecret, LoginUse, Accept
<1>4. QED BY <1>1, <1>2, <1>3 DEF SecretStep

(* Destroying by accessor holds the role for writing, and leaves it alone. *)
LEMMA DestroyByIndexed ==
  ASSUME Shapes, Agreeing, NEW p \in Callers, DestroyAccessorStep(p) \/ DestroyFound(p)
  PROVE  Agreeing'
<1>1. p \in Proc /\ UNCHANGED <<role, index, outdated, faults>>
  BY CallerIsProc DEF DestroyAccessorStep, DestroyFound, storage, history
<1>2. ~At(p, "put_role") /\ ~At(p, "set_role_id")
  BY DEF DestroyAccessorStep, DestroyFound, At
<1>3. ASSUME NEW x, NEW y, Moved(p, <<x, y>>, held[p]),
             x[1] \in {"lock", "delete_accessor"}, y[1] \in {"destroy_found", "delete_secret"}
      PROVE  Agreeing'
  <2> DEFINE w == <<x, y>>
  <2>1. StepsOf(w) = {x, y} /\ w[1] = x /\ Moved(p, w, held[p])
    BY <1>3, Steps2
  <2> HIDE DEF w
  <2>2. QED BY <1>1, <1>2, <1>3, <2>1, QuietRest
<1>4. CASE DestroyAccessorStep(p)
  <2>1. PICK r \in Name, a \in Acc :
           /\ work[p] = <<<<"destroy_accessor", r, a>>>> /\ held[p] = {<<r, TRUE>>}
           /\ \/ Moved(p, <<>>, {})
              \/ \E k \in Key :
                   /\ accessor[a] = k
                   /\ Moved(p, <<write(k), <<"destroy_found", k, a>>>>, held[p])
    BY <1>4, DestroyAccessorStepMoves
  <2>2. CASE Moved(p, <<>>, {})
    BY <1>1, <1>2, <2>2, StopIndexed
  <2>3. ASSUME NEW k \in Key, Moved(p, <<write(k), <<"destroy_found", k, a>>>>, held[p])
        PROVE  Agreeing'
    <3> DEFINE x == write(k) y == <<"destroy_found", k, a>>
    <3>1. x[1] = "lock" /\ y[1] = "destroy_found" /\ Moved(p, <<x, y>>, held[p])
      BY <2>3 DEF write
    <3> HIDE DEF x, y
    <3>2. QED BY <1>3, <3>1
  <2>4. QED BY <2>1, <2>2, <2>3
<1>5. CASE DestroyFound(p)
  <2>1. PICK r \in Name, k \in Key, a \in Acc : DestroyFoundEffect(p, r, k, a)
    BY <1>5, DestroyFoundMoves
  <2> USE DEF DestroyFoundEffect
  <2>2. CASE Moved(p, <<>>, {})
    BY <1>1, <1>2, <2>2, StopIndexed
  <2>3. CASE Moved(p, <<<<"delete_accessor", a>>, <<"delete_secret", k>>>>, held[p])
    <3> DEFINE x == <<"delete_accessor", a>> y == <<"delete_secret", k>>
    <3>1. x[1] = "delete_accessor" /\ y[1] = "delete_secret" /\ Moved(p, <<x, y>>, held[p])
      BY <2>3
    <3> HIDE DEF x, y
    <3>2. QED BY <1>3, <3>1
  <2>4. QED BY <2>1, <2>2, <2>3
<1>6. QED BY <1>4, <1>5

LEMMA SecretStepIndexed ==
  ASSUME Shapes, Shapes', Agreeing, NEW p \in Callers, SecretStep(p)
  PROVE  Agreeing'
<1>1. CASE DestroyAccessorStep(p) \/ DestroyFound(p)
  BY <1>1, DestroyByIndexed
<1>2. CASE ~DestroyAccessorStep(p) /\ ~DestroyFound(p)
  <2>1. p \in Proc /\ \A r \in Name : <<r, TRUE>> \notin held[p]
    BY <1>2, CallerIsProc, Readers, ReaderHolds
  <2>2. QED BY <2>1, SecretRests, RestApart, ReaderMove
<1>3. QED BY <1>1, <1>2

LEMMA RequestsIndexed ==
  ASSUME Shapes, Shapes', Agreeing, NEW p \in Callers, Requests(p)
  PROVE  Agreeing'
<1>1. PICK w : Request(p, w)
  BY RequestsRequest
<1>2. p \in Proc /\ UNCHANGED <<role, index, outdated, faults>> /\ held'[p] = held[p]
  BY <1>1, CallerIsProc DEF Request, storage, history
<1>3. held[p] = {} /\ Apart(p)
  BY <1>1, <1>2, RequestMoves, MovedApart
<1>4. QED BY <1>2, <1>3, ReaderMove

LEMMA TidyIndexed ==
  ASSUME Shapes, Shapes', Agreeing,
         TidyStart \/ TidyList \/ TidyEach \/ TidySecret \/ TidyRest \/ TidyDangling \/ TidyEnd
  PROVE  Agreeing'
<1>1. CASE TidyStart
  <2>1. PICK w : Request(Tidy, w)
    BY <1>1 DEF TidyStart
  <2>2. Apart(Tidy)
    BY <2>1, RequestMoves, MovedApart, TidyIsProc
  <2>3. QED BY <2>1, <2>2, TidyMoveIndexed DEF Request, storage, history
<1>2. QED BY <1>1, TidyRests, RestApart, TidyIsProc, TidyMoveIndexed

LEMMA DeleteAccessorIndexed ==
  ASSUME Shapes, Shapes', Agreeing, NEW p \in Proc, DeleteAccessor(p)
  PROVE  Agreeing'
<1>1. /\ UNCHANGED <<role, index, outdated, faults>> /\ Then(p, <<>>)
      /\ ~At(p, "put_role") /\ ~At(p, "set_role_id")
  BY DEF DeleteAccessor, At
<1>2. CASE p = Tidy
  BY <1>1, <1>2, ThenRests, RestApart, TidyMoveIndexed
<1>3. CASE p # Tidy
  <2>1. p \in Callers
    BY <1>3 DEF Proc
  <2>2. PICK k \in Key, a \in Acc : DeleteAccessorEffect(p, k, a)
    BY <2>1, DeleteAccessorCaller
  <2> USE DEF DeleteAccessorEffect
  <2>3. CASE Moved(p, <<<<"delete_secret", k>>>>, held[p])
    <3> DEFINE x == <<"delete_secret", k>> w == <<x>>
    <3>1. x[1] = "delete_secret" /\ Moved(p, w, held[p])
      BY <2>3
    <3> HIDE DEF x
    <3>2. StepsOf(w) = {x} /\ w[1] = x
      BY Steps1
    <3> HIDE DEF w
    <3>3. QED BY <1>1, <3>1, <3>2, QuietRest
  <2>4. ASSUME NEW g, Moved(p, <<<<"delete_secret", k>>, <<"accept", a, g>>>>, held[p])
        PROVE  Agreeing'
    <3> DEFINE x == <<"delete_secret", k>> y == <<"accept", a, g>> w == <<x, y>>
    <3>1. x[1] = "delete_secret" /\ y[1] = "accept" /\ Moved(p, w, held[p])
      BY <2>4
    <3> HIDE DEF x, y
    <3>2. StepsOf(w) = {x, y} /\ w[1] = x
      BY Steps2
    <3> HIDE DEF w
    <3>3. QED BY <1>1, <3>1, <3>2, QuietRest
  <2>5. QED BY <2>2, <2>3, <2>4
<1>4. QED BY <1>2, <1>3

LEMMA DeleteSecretIndexed ==
  ASSUME Shapes, Shapes', Agreeing, NEW p \in Proc, DeleteSecret(p)
  PROVE  Agreeing'
<1>1. /\ UNCHANGED <<role, index, outdated, faults>> /\ Then(p, <<>>)
      /\ ~At(p, "put_role") /\ ~At(p, "set_role_id")
  BY DEF DeleteSecret, At
<1>2. CASE p = Tidy
  BY <1>1, <1>2, ThenRests, RestApart, TidyMoveIndexed
<1>3. CASE p # Tidy
  <2>1. p \in Callers
    BY <1>3 DEF Proc
  <2>2. PICK k \in Key : DeleteSecretEffect(p, k)
    BY <2>1, DeleteSecretCaller
  <2> USE DEF DeleteSecretEffect
  <2>3. CASE Moved(p, <<>>, {})
    BY <1>1, <2>3, StopIndexed
  <2>4. ASSUME NEW a, NEW g, Moved(p, <<<<"accept", a, g>>>>, held[p])
        PROVE  Agreeing'
    <3> DEFINE x == <<"accept", a, g>> w == <<x>>
    <3>1. x[1] = "accept" /\ Moved(p, w, held[p])
      BY <2>4
    <3> HIDE DEF x
    <3>2. StepsOf(w) = {x} /\ w[1] = x
      BY Steps1
    <3> HIDE DEF w
    <3>3. QED BY <1>1, <3>1, <3>2, QuietRest
  <2>5. ASSUME NEW K, NEW o, NEW r,
               work[p] = <<<<"delete_secret", k>>, <<"unlock", k>>, <<"flush", K>>,
                           <<"delete_role_id", o, r>>, <<"put_role", r, None>>>>,
               Moved(p, <<<<"unlock", k>>, <<"flush", K>>, <<"delete_role_id", o, r>>,
                          <<"put_role", r, None>>>>, held[p])
        PROVE  Agreeing'
    <3> DEFINE v == <<"delete_secret", k>> x == <<"unlock", k>> y == <<"flush", K>>
               z == <<"delete_role_id", o, r>> u == <<"put_role", r, None>> w == <<x, y, z, u>>
    <3>1. /\ x[1] = "unlock" /\ y[1] = "flush" /\ z[1] = "delete_role_id" /\ u[1] = "put_role"
          /\ work[p] = <<v, x, y, z, u>> /\ Moved(p, w, held[p])
      BY <2>5
    <3> HIDE DEF v, x, y, z, u
    <3>2. StepsOf(w) = {x, y, z, u} /\ w[1] = x /\ z \in Steps(p)
      BY <3>1, Steps4, Steps5 DEF Steps
    <3> HIDE DEF w
    <3>3. QED BY <1>1, <3>1, <3>2, QuietRest
  <2>6. QED BY <2>2, <2>3, <2>4, <2>5
<1>4. QED BY <1>2, <1>3

LEMMA LockingHead ==
  ASSUME NEW p, NEW H, NEW w, Locking(p, H, w)
  PROVE  w[1][1] = "lock"
<1>1. PICK k \in Name \cup Key, b \in BOOLEAN : w[1] = <<"lock", k, b>>
  BY DEF Locking
<1>2. QED BY <1>1

LEMMA LockIndexed ==
  ASSUME Shapes, Agreeing, NEW p \in Proc, Lock(p) \/ Unlock(p),
         UNCHANGED outdated
  PROVE  Agreeing'
<1>1. /\ UNCHANGED <<role, index, outdated, faults>>
      /\ ~At(p, "put_role") /\ ~At(p, "set_role_id")
  BY DEF Lock, Unlock, At, storage, history
<1> DEFINE w == Tail(work[p])
<1>2. \E H : /\ Moved(p, w, H) /\ Chain(work[p])
             /\ w # <<>> => w[1][1] \notin {"put_role", "set_role_id"}
  <2>1. CASE Lock(p)
    BY <2>1, LockMoves DEF Locked, LockEffect
  <2>2. CASE Unlock(p)
    <3>1. PICK k \in Name \cup Key : UnlockEffect(p, k)
      BY <2>2, UnlockMoves
    <3> USE DEF UnlockEffect
    <3>2. Tail(work[p])[1][1] \in {"flush", "cleanup", "dangling", "lock"}
      <4>1. CASE Locking(p, Without(held[p], k), Tail(work[p]))
        BY <4>1, LockingHead
      <4>2. QED BY <3>1, <4>1
    <3>3. QED BY <3>1, <3>2
  <2>3. QED BY <2>1, <2>2
<1>3. StepsOf(w) \subseteq Steps(p)
  BY <1>2 DEF Chain, Steps
<1> HIDE DEF w
<1>4. QED BY <1>1, <1>2, <1>3, QuietRest

LEMMA FailIndexed ==
  ASSUME Shapes, Agreeing, NEW p \in Proc, Fail(p)
  PROVE  Agreeing'
<1>1. Moved(p, <<>>, {}) /\ faults' = faults + 1 /\ UNCHANGED <<role, index, outdated>>
  BY FailMoves DEF storage, history
<1>2. Apart(p) /\ Steps(p)' = {} /\ \A op : ~At(p, op)'
  BY <1>1, MovedApart, NoSteps
<1>3. faults \in Nat /\ faults' \in Nat /\ faults' >= faults /\ faults' > 0
  BY <1>1 DEF Shapes, HistoryTyped
<1>4. QED BY <1>1, <1>2, <1>3, QuietMove

LEMMA CrashIndexed ==
  ASSUME Shapes, Agreeing, Crash
  PROVE  Agreeing'
<1>1. UNCHANGED <<role, index, outdated>> /\ faults' = faults + 1
      /\ work' = [p \in Proc |-> <<>>]
  BY DEF Crash, storage, history
<1>2. faults' > 0
  BY <1>1 DEF Shapes, HistoryTyped
<1>3. \A p \in Proc : Steps(p)' = {} /\ ~At(p, "put_role")' /\ ~At(p, "set_role_id")'
  BY <1>1 DEF Steps, StepsOf, At
<1>4. \A p \in Proc : RoleStepOK(p)'
  BY <1>3 DEF RoleStepOK
<1>5. QED BY <1>1, <1>2, <1>3, <1>4, LeadsSame DEF Agreeing

LEMMA StillIndexed ==
  ASSUME Agreeing, UNCHANGED <<role, index, outdated, faults, work>>
  PROVE  Agreeing'
<1>1. \A p \in Proc : /\ Steps(p)' = Steps(p)
                      /\ \A op : At(p, op)' <=> At(p, op)
                      /\ \A i : Arg(p, i)' = Arg(p, i)
  BY DEF Steps, At, Arg
<1>0. leads' = leads
  BY LeadsSame
<1>2. \A p \in Proc : RoleStepOK(p)' /\ \A r : Moving(p, r) => Moving(p, r)'
  BY <1>0, <1>1 DEF Agreeing, RoleStepOK, Moving
<1>3. QED BY <1>0, <1>1, <1>2 DEF Agreeing

LEMMA InitIndexed ==
  ASSUME Init
  PROVE  Apiece /\ Agreeing
<1>1. PICK x \in Rid :
        /\ role = [r \in Role |-> IF r = First THEN [rid |-> x, inc |-> 1] ELSE None]
        /\ index = [y \in Rid |-> IF y = x THEN First ELSE None]
        /\ work = [p \in Proc |-> <<>>] /\ held = [p \in Proc |-> {}]
  BY DEF Init
<1> DEFINE e == [rid |-> x, inc |-> 1]
<1>2. e.rid = x /\ e # None /\ First \in Role /\ First # None /\ Lower[First] = First
  BY ProcAssumption, NameAssumption, BoundAssumption, NoneAssumption, LowerAssumption
<1>3. \A r \in Role : role[r] = IF r = First THEN e ELSE None
  BY <1>1
<1>a. \A y \in Rid : leads[y] = IF y = x THEN First ELSE None
  BY <1>1, <1>2 DEF leads
<1> HIDE DEF e
<1>4. \A p \in Proc : Steps(p) = {} /\ ~At(p, "put_role") /\ ~At(p, "set_role_id")
  BY <1>1 DEF Steps, StepsOf, At
<1>5. \A p \in Proc : RoleStepOK(p)
  BY <1>4 DEF RoleStepOK
<1>6. Agreeing
  BY <1>a, <1>2, <1>3, <1>4, <1>5 DEF Agreeing
<1>7. QED BY <1>1, <1>6 DEF Apiece

(* Only a lock makes another spelling's writer; then every role_id is outdated. *)

LEMMA ApieceStays ==
  ASSUME Apiece, \A q \in Proc : held'[q] \subseteq held[q]
  PROVE  Apiece'
  BY DEF Apiece

LEMMA LockApiece ==
  ASSUME Shapes, Apiece, NEW p \in Proc, Lock(p)
  PROVE  outdated' = Rid \/ (Apiece' /\ outdated' = outdated)
<1>1. PICK k \in Name \cup Key, b \in BOOLEAN : LockEffect(p, k, b)
  BY LockMoves
<1>2. Arg(p, 2) = k /\ Arg(p, 3) = b
  BY <1>1 DEF LockEffect, Arg
<1>3. CASE b /\ Respelt(k)
  BY <1>2, <1>3 DEF Lock
<1>4. CASE ~(b /\ Respelt(k))
  <2>1. outdated' = outdated
    BY <1>2, <1>4 DEF Lock
  <2> DEFINE n == <<k, b>>
  <2>2. n[1] = k /\ n[2] = b /\ held'[p] = held[p] \cup {n}
        /\ \A q \in Proc \ {p} : held'[q] = held[q]
    BY <1>1 DEF LockEffect, Moved
  <2> HIDE DEF n
  <2>3. ASSUME NEW q \in Proc, NEW h \in held[q], k \in Name, b, h[1] \in Name, h[2],
               Lower[h[1]] = Lower[k]
        PROVE  FALSE
    <3>1. h[1] # k
      BY <1>1, <2>3 DEF LockEffect, Free
    <3>2. QED BY <1>4, <2>3, <3>1 DEF Respelt
  <2>4. ASSUME NEW q1 \in Proc, NEW q2 \in Proc, NEW h \in held'[q1], NEW g \in held'[q2],
               h[1] \in Name, g[1] \in Name, Lower[h[1]] = Lower[g[1]], h[2], g[2]
        PROVE  q1 = q2
    <3>1. CASE h \in held[q1] /\ g \in held[q2]
      BY <2>4, <3>1 DEF Apiece
    <3>2. CASE h \notin held[q1]
      <4>1. q1 = p /\ h = n
        BY <2>2, <2>4, <3>2
      <4>2. q2 = p \/ g \in held[q2]
        BY <2>2, <2>4
      <4>3. QED BY <2>2, <2>3, <2>4, <4>1, <4>2
    <3>3. CASE g \notin held[q2]
      <4>1. q2 = p /\ g = n
        BY <2>2, <2>4, <3>3
      <4>2. q1 = p \/ h \in held[q1]
        BY <2>2, <2>4
      <4>3. QED BY <2>2, <2>3, <2>4, <4>1, <4>2
    <3>4. QED BY <3>1, <3>2, <3>3
  <2>5. QED BY <2>1, <2>4 DEF Apiece
<1>5. QED BY <1>3, <1>4

LEMMA NextShrinks ==
  ASSUME Shapes, [Next]_vars
  PROVE  /\ outdated \subseteq outdated'
         /\ (\E p \in Proc : Lock(p)) \/ \A q \in Proc : held'[q] \subseteq held[q]
<1>0. outdated \subseteq Rid
  BY DEF Shapes, HistoryTyped
<1>1. CASE \E p \in Callers : Requests(p)
  BY <1>1, RequestsRequest DEF Request, history
<1>2. CASE \E p \in Callers : RoleStep(p) \/ SecretStep(p)
  BY <1>2, RoleRests, SecretRests, RestApart, CallerIsProc
<1>3. CASE TidyStart
  BY <1>3 DEF TidyStart, Request, history
<1>4. CASE TidyList \/ TidyEach \/ TidySecret \/ TidyRest \/ TidyDangling \/ TidyEnd
  BY <1>4, TidyRests, RestApart, TidyIsProc
<1>5. CASE \E p \in Proc : Lock(p)
  BY <1>0, <1>5 DEF Lock
<1>6. CASE \E p \in Proc : Unlock(p)
  BY <1>6 DEF Unlock, history, Shapes, TasksTyped
<1>7. CASE \E p \in Proc : DeleteAccessor(p) \/ DeleteSecret(p) \/ Fail(p)
  BY <1>7, ThenRests, RestApart DEF DeleteAccessor, DeleteSecret, Fail, history
<1>8. CASE Crash \/ Tick \/ UNCHANGED vars
  BY <1>8 DEF Crash, Tick, vars, history
<1>9. QED BY <1>1, <1>2, <1>3, <1>4, <1>5, <1>6, <1>7, <1>8 DEF Next, Requests, Step

LEMMA NextIndexedKept ==
  ASSUME Shapes, Indexed, [Next]_vars
  PROVE  Indexed'
<1>1. Shapes'
  BY NextShapesKept
<1>2. outdated \subseteq outdated' /\ outdated' \subseteq Rid
  BY <1>1, NextShrinks DEF Shapes, HistoryTyped
<1>3. ASSUME Apiece, Agreeing, NEW p \in Proc, Lock(p)
      PROVE  Indexed'
  BY <1>3, LockApiece, LockIndexed DEF Indexed
<1>4. ASSUME Apiece, Agreeing, ~\E p \in Proc : Lock(p)
      PROVE  Agreeing'
  <2>1. CASE \E p \in Callers : Requests(p)
    BY <1>1, <1>4, <2>1, RequestsIndexed
  <2>2. CASE \E p \in Callers : RoleStep(p) \/ SecretStep(p)
    BY <1>1, <1>4, <2>2, RoleStepIndexed, SecretStepIndexed
  <2>3. CASE TidyStart \/ TidyList \/ TidyEach \/ TidySecret \/ TidyRest \/ TidyDangling \/ TidyEnd
    BY <1>1, <1>4, <2>3, TidyIndexed
  <2>4. CASE \E p \in Proc : Unlock(p)
    BY <1>4, <2>4, LockIndexed DEF Unlock, history
  <2>5. CASE \E p \in Proc : Fail(p) \/ DeleteAccessor(p) \/ DeleteSecret(p)
    BY <1>1, <1>4, <2>5, FailIndexed, DeleteAccessorIndexed, DeleteSecretIndexed
  <2>6. CASE Crash
    BY <1>4, <2>6, CrashIndexed
  <2>7. CASE Tick \/ UNCHANGED vars
    <3>1. UNCHANGED <<role, index, outdated, faults, work>>
      BY <2>7 DEF Tick, vars, storage, history
    <3>2. QED BY <1>4, <3>1, StillIndexed
  <2>8. QED BY <1>4, <2>1, <2>2, <2>3, <2>4, <2>5, <2>6, <2>7 DEF Next, Requests, Step
<1>5. CASE outdated = Rid
  BY <1>2, <1>5 DEF Indexed
<1>6. CASE Apiece /\ Agreeing /\ ~\E p \in Proc : Lock(p)
  BY <1>4, <1>6, NextShrinks, ApieceStays DEF Indexed
<1>7. QED BY <1>3, <1>5, <1>6 DEF Indexed

LEMMA IndexedHold == Spec => []Indexed
<1>1. Init => Indexed
  BY InitIndexed DEF Indexed
<1>2. Shapes /\ Indexed /\ [Next]_vars => Indexed'
  BY NextIndexedKept
<1>3. QED BY <1>1, <1>2, ShapesHold, PTL DEF Spec

(* A role is found by its role_id unless it is being written, and a role_id *)
(* leads to the role that has it (path_role.rs, set_role, delete_role).     *)
THEOREM IndexAgreesHolds == Spec => []IndexAgrees
<1>1. ASSUME Shapes, Indexed PROVE IndexAgrees
  <2>1. CASE outdated = Rid
    <3>1. \A r \in Role : role[r] # None => role[r].rid \in Rid
      BY <1>1 DEF Shapes, EntriesTyped, RoleEntry
    <3>2. QED BY <2>1, <3>1 DEF IndexAgrees
  <2>2. CASE Agreeing
    <3>1. \A r \in Role, p \in Proc : Moving(p, r) => Rewritten(r)
      BY <1>1, MovingHolds DEF Holds, Rewritten, Written
    <3>2. QED BY <2>2, <3>1 DEF Agreeing, IndexAgrees
  <2>3. QED BY <1>1, <2>1, <2>2 DEF Indexed
<1>2. QED BY <1>1, ShapesHold, IndexedHold, PTL

-----------------------------------------------------------------------------
(* The fourth layer is kept: secrets and their accessors.                   *)

LEMMA KeptMove ==
  ASSUME Kept, NEW p \in Proc, NEW w, NEW H, Moved(p, w, H),
         UNCHANGED <<secret, accessor, made>>, overlap \subseteq overlap',
         faults > 0 => faults' > 0,
         faults' > 0 \/ ~At(p, "delete_secret"),
         p = Tidy => \A t \in StepsOf(w) : KeptStep(t, StepsOf(w))
  PROVE  Kept'
<1>1. \A q \in Proc : q # p =>
        /\ Steps(q)' = Steps(q) /\ held'[q] = held[q]
        /\ \A op : At(q, op)' <=> At(q, op)
        /\ \A i : Arg(q, i)' = Arg(q, i)
  BY OthersSteps DEF Moved
<1>2. \A k : HalfDeleted(k) => HalfDeleted(k)' \/ faults' > 0
  <2> TAKE k
  <2> HAVE HalfDeleted(k)
  <2>1. PICK q \in Proc : At(q, "delete_secret") /\ Arg(q, 2) = k /\ <<k, TRUE>> \in held[q]
    BY DEF HalfDeleted
  <2>2. CASE q = p
    BY <2>1, <2>2
  <2>3. CASE q # p
    BY <1>1, <2>1, <2>3 DEF HalfDeleted
  <2>4. QED BY <2>2, <2>3
<1>3. \A k \in Key : secret'[k] # None /\ accessor'[secret'[k].acc] = None =>
        HalfDeleted(k)' \/ faults' > 0 \/ secret'[k].acc \in overlap'
  BY <1>2 DEF Kept
<1>4. \A a : NotNeeded(a) => NotNeeded(a)'
  BY DEF NotNeeded
<1>5. \A t, S : KeptStep(t, S) =>
        /\ t[1] = "tidy_rest" => \A k \in Key : secret'[k] # None =>
             k[1] \in t[4] \/ secret'[k].acc \in overlap'
        /\ t[1] = "dangling" => t[2] \subseteq DOMAIN t[3] /\ \A a \in t[2] : NotNeeded(a)'
        /\ t[1] = "delete_accessor" /\ (\E u \in S : u[1] = "dangling") => NotNeeded(t[2])'
  BY <1>4 DEF KeptStep
<1>6. \A t \in Steps(Tidy)' : KeptStep(t, Steps(Tidy)')
  <2>1. CASE p = Tidy
    BY <2>1, OwnSteps
  <2>2. CASE p # Tidy
    BY <1>1, <2>2, TidyIsProc DEF Kept
  <2>3. QED BY <2>1, <2>2
<1>7. \A t \in Steps(Tidy)' :
        /\ t[1] = "tidy_rest" => \A k \in Key : secret'[k] # None =>
             k[1] \in t[4] \/ secret'[k].acc \in overlap'
        /\ t[1] = "dangling" => t[2] \subseteq DOMAIN t[3] /\ \A a \in t[2] : NotNeeded(a)'
        /\ t[1] = "delete_accessor" /\ (\E u \in Steps(Tidy)' : u[1] = "dangling") =>
             NotNeeded(t[2])'
  BY <1>5, <1>6
<1>8. QED BY <1>3, <1>7 DEF Kept, KeptStep

(* What callers do but to write secret ids and accessors: none of them is   *)
(* changed, nor the clock.                                                  *)

LEMMA RequestsQuiet ==
  ASSUME Shapes, NEW p \in Callers, Requests(p)
  PROVE  Quiet(p) /\ \E w, H : Moved(p, w, H)
<1>1. PICK w : Request(p, w)
  BY RequestsRequest
<1>2. work[p] = <<>> /\ Moved(p, w, {})
  BY <1>1, CallerIsProc, RequestMoves
<1>3. QED BY <1>1, <1>2 DEF Quiet, Request, storage, history, At

LEMMA QuietKept ==
  ASSUME Shapes, Kept, NEW p \in Callers,
         Requests(p) \/ RoleStep(p) \/ Looking(p) \/ LoggingIn(p)
  PROVE  Kept'
<1>1. p \in Proc /\ p # Tidy
  BY CallerIsProc, ProcAssumption
<1>2. Quiet(p) /\ \E w, H : Moved(p, w, H)
  BY <1>1, RequestsQuiet, RoleRests, LookingRests, RestApart
<1>3. QED BY <1>1, <1>2, KeptMove DEF Quiet

(* Those that write secret ids and accessors. *)
LEMMA HalfDeletedKept ==
  ASSUME NEW p \in Proc, NEW w, NEW H, Moved(p, w, H), NEW k, HalfDeleted(k),
         At(p, "delete_secret") => Arg(p, 2) # k
  PROVE  HalfDeleted(k)'
<1>1. PICK q \in Proc : At(q, "delete_secret") /\ Arg(q, 2) = k /\ <<k, TRUE>> \in held[q]
  BY DEF HalfDeleted
<1>2. q # p
  BY <1>1
<1>3. At(q, "delete_secret")' /\ Arg(q, 2)' = k /\ <<k, TRUE>> \in held'[q]
  BY <1>1, <1>2, OthersSteps DEF Moved
<1>4. QED BY <1>3 DEF HalfDeleted

LEMMA TidyTyped ==
  ASSUME Shapes, Secrets, Kept, NEW t \in Steps(Tidy)
  PROVE  /\ t[1] = "dangling" => \A a \in t[2] : a \in Acc /\ made[a] \in Key
         /\ t[1] = "delete_accessor" => t[2] \in Acc /\ made[t[2]] \in Key
<1>1. StepOK(t) /\ KeptStep(t, Steps(Tidy))
  BY TidyIsProc DEF Secrets, Kept
<1>2. made \in [Acc -> Key \cup {None}]
  BY DEF Shapes, HistoryTyped
<1>3. ASSUME t[1] = "dangling", NEW a \in t[2]
      PROVE  a \in Acc /\ made[a] \in Key
  <2>1. a \in DOMAIN t[3] /\ t[3] \in Found /\ t[3][a] = made[a]
    BY <1>1, <1>3 DEF StepOK, KeptStep
  <2>2. PICK D \in SUBSET Acc : t[3] \in [D -> Key]
    BY <2>1 DEF Found
  <2>3. QED BY <2>1, <2>2
<1>4. QED BY <1>1, <1>2, <1>3 DEF StepOK

LEMMA RegisterEntryKept ==
  ASSUME Shapes, Secrets, Kept, NEW p \in Callers, RegisterEntry(p)
  PROVE  Kept'
<1>1. p \in Proc /\ p # Tidy /\ UNCHANGED <<secret, faults>> /\ ~At(p, "delete_secret")
  BY CallerIsProc, ProcAssumption DEF RegisterEntry, At
<1>2. PICK r \in Name, k \in Key, u \in 0..MaxUses, ttl \in 0..1 :
        RegisterEntryEffect(p, r, k, u, ttl)
  BY RegisterEntryMoves
<1> USE DEF RegisterEntryEffect
<1>3. CASE Moved(p, <<>>, {}) /\ UNCHANGED <<accessor, acc, limit, made, overlap>>
  BY <1>1, <1>3, KeptMove
<1>4. ASSUME NEW a \in Acc, secret[k] = None, a = acc + 1,
             accessor' = [accessor EXCEPT ![a] = k], made' = [made EXCEPT ![a] = k],
             overlap' = IF work[Tidy] = <<>> THEN overlap ELSE overlap \cup {a},
             NEW w, NEW H, Moved(p, w, H)
      PROVE  Kept'
  <2>1. Steps(Tidy)' = Steps(Tidy) /\ overlap \subseteq overlap'
    BY <1>1, <1>4, OthersSteps, TidyIsProc
  <2>2. made[a] = None
    BY <1>4 DEF Shapes, EntriesTyped, Secrets, MadeOK, Acc
  <2>3. /\ \A b \in Acc : accessor'[b] = IF b = a THEN k ELSE accessor[b]
        /\ \A b \in Acc : made'[b] = IF b = a THEN k ELSE made[b]
    BY <1>4 DEF Shapes, EntriesTyped, HistoryTyped
  <2>4. \A j \in Key : secret[j] # None => secret[j].acc \in Acc /\ secret[j].acc # a
    BY <2>2, NameAssumption DEF Secrets, MadeOK, Shapes, EntriesTyped, SecretEntry
  <2>5. \A j \in Key : HalfDeleted(j) => HalfDeleted(j)'
    BY <1>1, <1>4, HalfDeletedKept
  <2>6. \A j \in Key : secret[j] # None /\ accessor'[secret[j].acc] = None =>
          HalfDeleted(j)' \/ faults > 0 \/ secret[j].acc \in overlap'
    BY <2>1, <2>3, <2>4, <2>5 DEF Kept
  <2>7. \A b \in Acc : NotNeeded(b) => NotNeeded(b)'
    BY <1>1, <1>4, <2>1, <2>3 DEF NotNeeded
  <2>8. \A t \in Steps(Tidy) :
          /\ t[1] = "tidy_rest" => \A j \in Key : secret[j] # None =>
               j[1] \in t[4] \/ secret[j].acc \in overlap'
          /\ t[1] = "dangling" => t[2] \subseteq DOMAIN t[3] /\ \A b \in t[2] : NotNeeded(b)'
          /\ t[1] = "delete_accessor" /\ (\E s \in Steps(Tidy) : s[1] = "dangling") =>
               NotNeeded(t[2])'
    BY <2>1, <2>7, TidyTyped DEF Kept, KeptStep
  <2>9. QED BY <1>1, <2>1, <2>6, <2>8 DEF Kept, KeptStep
<1>5. QED BY <1>2, <1>3, <1>4

LEMMA PutSecretKept ==
  ASSUME Shapes, Secrets, Kept, NEW p \in Callers, PutSecret(p)
  PROVE  Kept'
<1>1. /\ p \in Proc /\ p # Tidy /\ UNCHANGED <<accessor, made, faults>>
      /\ At(p, "put_secret") /\ ~At(p, "delete_secret")
  BY CallerIsProc, ProcAssumption DEF PutSecret, At
<1>2. PICK k \in Key, e \in SecretEntry : PutSecretEffect(p, k, e)
  BY PutSecretMoves
<1> USE DEF PutSecretEffect
<1>3. \E w, H : Moved(p, w, H)
  BY <1>2
<1>4. \/ secret[k] # None /\ secret[k].acc = e.acc
      \/ /\ secret[k] = None /\ accessor[e.acc] # None
         /\ work[Tidy] = <<>> \/ e.acc \in overlap'
  <2>1. CASE work[p] = <<<<"put_secret", k, e>>>>
    <3>1. Len(work[p]) = 1 /\ Arg(p, 2) = k /\ Arg(p, 3) = e
      BY <2>1 DEF Arg
    <3>2. secret[k] = None /\ accessor[e.acc] = k
      BY <1>1, <3>1 DEF Secrets, Fresh
    <3>3. k # None
      BY NameAssumption
    <3>4. QED BY <1>2, <3>2, <3>3
  <2>2. ASSUME NEW g, work[p] = <<<<"put_secret", k, e>>, <<"accept", e.acc, g>>>>
        PROVE  secret[k] # None /\ secret[k].acc = e.acc
    <3>1. Len(work[p]) = 2 /\ Arg(p, 2) = k /\ Arg(p, 3) = e
      BY <2>2 DEF Arg
    <3>2. secret[k] # None /\ e = [secret[k] EXCEPT !.uses = @ - 1]
      BY <1>1, <3>1 DEF Secrets, Used
    <3>3. secret[k] \in SecretEntry
      BY <3>2 DEF Shapes, EntriesTyped
    <3>4. QED BY <3>2, <3>3 DEF SecretEntry
  <2>3. QED BY <1>2, <2>1, <2>2
<1>5. Steps(Tidy)' = Steps(Tidy) /\ overlap \subseteq overlap'
      /\ (work[Tidy] = <<>> => Steps(Tidy) = {})
  BY <1>1, <1>2, <1>3, OthersSteps, TidyIsProc, NoSteps DEF Steps
<1>6. \A j \in Key : secret'[j] = IF j = k THEN e ELSE secret[j]
  BY <1>2 DEF Shapes, EntriesTyped
<1>7. \A j \in Key : HalfDeleted(j) => HalfDeleted(j)'
  BY <1>1, <1>3, HalfDeletedKept
<1>8. \A j \in Key : secret'[j] # None /\ accessor[secret'[j].acc] = None =>
        HalfDeleted(j)' \/ faults > 0 \/ secret'[j].acc \in overlap'
  BY <1>4, <1>5, <1>6, <1>7 DEF Kept
<1>9. \A b \in Acc : made[b] \in Key /\ NotNeeded(b) =>
        NotNeeded(b)' \/ work[Tidy] = <<>>
  <2> TAKE b \in Acc
  <2> HAVE made[b] \in Key /\ NotNeeded(b)
  <2>1. CASE made[b] = k
    BY <1>1, <1>4, <1>5, <1>6, <2>1 DEF NotNeeded
  <2>2. CASE made[b] # k
    BY <1>1, <1>5, <1>6, <2>2 DEF NotNeeded
  <2>3. QED BY <2>1, <2>2
<1>10. ASSUME NEW t \in Steps(Tidy)
       PROVE
          /\ t[1] = "tidy_rest" => \A j \in Key : secret'[j] # None =>
               j[1] \in t[4] \/ secret'[j].acc \in overlap'
          /\ t[1] = "dangling" => t[2] \subseteq DOMAIN t[3] /\ \A b \in t[2] : NotNeeded(b)'
          /\ t[1] = "delete_accessor" /\ (\E s \in Steps(Tidy) : s[1] = "dangling") =>
               NotNeeded(t[2])'
  <2>1. KeptStep(t, Steps(Tidy)) /\ work[Tidy] # <<>>
    BY <1>5 DEF Kept
  <2>2. t[1] = "tidy_rest" => \A j \in Key : secret'[j] # None =>
               j[1] \in t[4] \/ secret'[j].acc \in overlap'
    BY <1>4, <1>5, <1>6, <2>1 DEF KeptStep
  <2>3. t[1] = "dangling" => t[2] \subseteq DOMAIN t[3] /\ \A b \in t[2] : NotNeeded(b)'
    BY <1>9, <2>1, TidyTyped DEF KeptStep
  <2>4. t[1] = "delete_accessor" /\ (\E s \in Steps(Tidy) : s[1] = "dangling") =>
               NotNeeded(t[2])'
    BY <1>9, <2>1, TidyTyped DEF KeptStep
  <2>5. QED BY <2>2, <2>3, <2>4
<1>11. QED BY <1>1, <1>5, <1>8, <1>10 DEF Kept, KeptStep

LEMMA DeletesAccessorKept ==
  ASSUME Shapes, Secrets, Kept, NEW p \in Proc, NEW k \in Key, NEW a \in Acc, NEW w,
         accessor' = [accessor EXCEPT ![a] = None], UNCHANGED <<secret, made, overlap, faults>>,
         At(p, "delete_accessor"), <<k, TRUE>> \in held[p], Moved(p, w, held[p]),
         StepsOf(w) \subseteq Steps(p),
         \/ w # <<>> /\ w[1] = <<"delete_secret", k>> /\ made[a] = k
         \/ NotNeeded(a)
  PROVE  Kept'
<1>1. ~At(p, "delete_secret")
  BY DEF At
<1>2. Steps(Tidy)' \subseteq Steps(Tidy)
  <2>1. CASE p = Tidy
    BY <2>1, OwnSteps
  <2>2. CASE p # Tidy
    BY <2>2, OthersSteps, TidyIsProc
  <2>3. QED BY <2>1, <2>2
<1>3. \A b \in Acc : accessor'[b] = IF b = a THEN None ELSE accessor[b]
  BY DEF Shapes, EntriesTyped
<1>4. \A j \in Key : HalfDeleted(j) => HalfDeleted(j)'
  BY <1>1, HalfDeletedKept
<1>5. ASSUME NEW j \in Key, secret[j] # None, accessor'[secret[j].acc] = None
      PROVE  HalfDeleted(j)' \/ faults > 0 \/ secret[j].acc \in overlap
  <2>1. secret[j].acc \in Acc /\ made[secret[j].acc] = j
    BY <1>5 DEF Shapes, EntriesTyped, SecretEntry, Secrets, MadeOK
  <2>2. CASE secret[j].acc # a
    BY <1>3, <1>4, <1>5, <2>1, <2>2 DEF Kept
  <2>3. CASE secret[j].acc = a /\ NotNeeded(a)
    BY <1>5, <2>1, <2>3 DEF NotNeeded
  <2>4. CASE secret[j].acc = a /\ w # <<>> /\ w[1] = <<"delete_secret", k>> /\ made[a] = k
    <3> DEFINE u == <<"delete_secret", k>>
    <3>1. u[1] = "delete_secret" /\ u[2] = k /\ w[1] = u
      BY <2>4
    <3> HIDE DEF u
    <3>2. At(p, "delete_secret")' /\ Arg(p, 2)' = k /\ <<k, TRUE>> \in held'[p]
      BY <2>4, <3>1, OwnSteps DEF Moved
    <3>3. QED BY <2>1, <2>4, <3>2 DEF HalfDeleted
  <2>5. QED BY <2>2, <2>3, <2>4
<1>6. \A b : NotNeeded(b) => NotNeeded(b)'
  BY DEF NotNeeded
<1>7. \A t \in Steps(Tidy)' :
          /\ t[1] = "tidy_rest" => \A j \in Key : secret[j] # None =>
               j[1] \in t[4] \/ secret[j].acc \in overlap
          /\ t[1] = "dangling" => t[2] \subseteq DOMAIN t[3] /\ \A b \in t[2] : NotNeeded(b)'
          /\ t[1] = "delete_accessor" /\ (\E s \in Steps(Tidy)' : s[1] = "dangling") =>
               NotNeeded(t[2])'
  BY <1>2, <1>6 DEF Kept, KeptStep
<1>8. QED BY <1>5, <1>7 DEF Kept, KeptStep

LEMMA DeleteAccessorKept ==
  ASSUME Shapes, Secrets, Kept, NEW p \in Proc, DeleteAccessor(p)
  PROVE  Kept'
<1>1. UNCHANGED <<secret, made, overlap, faults>> /\ At(p, "delete_accessor")
  BY DEF DeleteAccessor
<1> DEFINE d(a) == <<"delete_accessor", a>> s(k) == <<"delete_secret", k>>
           u(k) == <<"unlock", k>>
<1>2. \A a, k : /\ d(a)[1] = "delete_accessor" /\ d(a)[2] = a
                /\ s(k)[1] = "delete_secret" /\ s(k)[2] = k /\ u(k)[1] = "unlock"
                /\ s(k) = <<"delete_secret", k>>
  OBVIOUS
<1> HIDE DEF d, s, u
<1>3. ASSUME NEW a, NEW k, d(a) \in Steps(p), s(k) \in Steps(p)
      PROVE  made[a] = k
  <2>1. Doing(p)
    BY DEF Secrets
  <2>2. QED BY <1>2, <1>3, <2>1 DEF Doing
<1>4. CASE p # Tidy
  <2>1. p \in Callers
    BY <1>4 DEF Proc
  <2>2. PICK k \in Key, a \in Acc :
           /\ accessor' = [accessor EXCEPT ![a] = None] /\ gone' = gone \cup {a}
           /\ \/ \E r \in Name, b \in BOOLEAN :
                   /\ work[p] = <<d(a), s(k)>> /\ held[p] = {<<r, b>>, <<k, TRUE>>}
                   /\ Moved(p, <<s(k)>>, held[p])
              \/ \E g \in SUBSET Acc :
                   /\ work[p] = <<d(a), s(k), <<"accept", a, g>>>> /\ held[p] = {<<k, TRUE>>}
                   /\ Moved(p, <<s(k), <<"accept", a, g>>>>, held[p])
    BY <2>1, DeleteAccessorCaller DEF d, s, DeleteAccessorEffect
  <2>3. <<k, TRUE>> \in held[p]
    BY <2>2
  <2>4. CASE work[p] = <<d(a), s(k)>> /\ Moved(p, <<s(k)>>, held[p])
    <3> DEFINE w == <<s(k)>>
    <3>1. Steps(p) = {d(a), s(k)} /\ StepsOf(w) = {s(k)} /\ w # <<>> /\ w[1] = s(k)
      BY <2>4, Steps1, Steps2 DEF Steps
    <3>2. made[a] = k
      BY <1>3, <3>1
    <3>3. Moved(p, w, held[p])
      BY <2>4
    <3> HIDE DEF w
    <3>4. w[1] = <<"delete_secret", k>> /\ StepsOf(w) \subseteq Steps(p)
      BY <1>2, <3>1
    <3>5. QED BY <1>1, <2>2, <2>3, <3>1, <3>2, <3>3, <3>4, DeletesAccessorKept
  <2>5. ASSUME NEW g, work[p] = <<d(a), s(k), <<"accept", a, g>>>>,
               Moved(p, <<s(k), <<"accept", a, g>>>>, held[p])
        PROVE  Kept'
    <3> DEFINE x == <<"accept", a, g>>
    <3>1. work[p] = <<d(a), s(k), x>> /\ Moved(p, <<s(k), x>>, held[p])
      BY <2>5
    <3> HIDE DEF x
    <3> DEFINE w == <<s(k), x>>
    <3>2. /\ Steps(p) = {d(a), s(k), x} /\ StepsOf(w) = {s(k), x} /\ w # <<>> /\ w[1] = s(k)
          /\ Moved(p, w, held[p])
      BY <3>1, Steps2, Steps3 DEF Steps
    <3>3. made[a] = k
      BY <1>3, <3>2
    <3> HIDE DEF w
    <3>4. w[1] = <<"delete_secret", k>> /\ StepsOf(w) \subseteq Steps(p)
      BY <1>2, <3>2
    <3>5. QED BY <1>1, <2>2, <2>3, <3>2, <3>3, <3>4, DeletesAccessorKept
  <2>6. QED BY <2>2, <2>4, <2>5
<1>5. CASE p = Tidy
  <2>1. PICK k \in Key, a \in Acc :
           /\ accessor' = [accessor EXCEPT ![a] = None] /\ gone' = gone \cup {a}
           /\ held[Tidy] = {<<k, TRUE>>}
           /\ \/ \E w1, w2 :
                   /\ DanglingRests(w1, w2)
                   /\ work[Tidy] = <<d(a), u(k), w1, w2>>
                   /\ Moved(Tidy, <<u(k), w1, w2>>, held[Tidy])
              \/ \E w1, w2, w3 :
                   /\ CleanupRests(w1, w2, w3)
                   /\ work[Tidy] = <<d(a), s(k), u(k), w1, w2, w3>>
                   /\ Moved(Tidy, <<s(k), u(k), w1, w2, w3>>, held[Tidy])
    BY <1>5, DeleteAccessorTidy DEF d, s, u, TidyDeleteAccessorEffect
  <2>2. <<k, TRUE>> \in held[p]
    BY <1>5, <2>1
  <2>3. ASSUME NEW w1, NEW w2, DanglingRests(w1, w2), work[p] = <<d(a), u(k), w1, w2>>,
               Moved(p, <<u(k), w1, w2>>, held[p])
        PROVE  Kept'
    <3> DEFINE w == <<u(k), w1, w2>>
    <3>1. /\ Steps(p) = {d(a), u(k), w1, w2} /\ StepsOf(w) = {u(k), w1, w2}
          /\ Moved(p, w, held[p])
      BY <2>3, Steps3, Steps4 DEF Steps
    <3> HIDE DEF w
    <3>2. w1[1] = "dangling"
      BY <2>3, RestNames
    <3>3. KeptStep(d(a), Steps(p))
      BY <1>5, <3>1 DEF Kept
    <3>4. NotNeeded(a)
      BY <1>2, <3>1, <3>2, <3>3 DEF KeptStep
    <3>5. QED BY <1>1, <2>1, <2>2, <3>1, <3>4, DeletesAccessorKept
  <2>4. ASSUME NEW w1, NEW w2, NEW w3, work[p] = <<d(a), s(k), u(k), w1, w2, w3>>,
               Moved(p, <<s(k), u(k), w1, w2, w3>>, held[p])
        PROVE  Kept'
    <3> DEFINE w == <<s(k), u(k), w1, w2, w3>>
    <3>1. /\ Steps(p) = {d(a), s(k), u(k), w1, w2, w3} /\ StepsOf(w) = {s(k), u(k), w1, w2, w3}
          /\ w # <<>> /\ w[1] = s(k) /\ Moved(p, w, held[p])
      BY <2>4, Steps5, Steps6 DEF Steps
    <3>2. made[a] = k
      BY <1>3, <3>1
    <3> HIDE DEF w
    <3>3. w[1] = <<"delete_secret", k>> /\ StepsOf(w) \subseteq Steps(p)
      BY <1>2, <3>1
    <3>4. QED BY <1>1, <2>1, <2>2, <3>1, <3>2, <3>3, DeletesAccessorKept
  <2>5. QED BY <1>5, <2>1, <2>3, <2>4
<1>6. QED BY <1>4, <1>5

LEMMA DeletesSecretKept ==
  ASSUME Shapes, Secrets, Kept, NEW p \in Proc, NEW k \in Key, NEW w, NEW H,
         secret' = [secret EXCEPT ![k] = None], UNCHANGED <<accessor, made, overlap, faults>>,
         At(p, "delete_secret"), Arg(p, 2) = k, Moved(p, w, H), StepsOf(w) \subseteq Steps(p)
  PROVE  Kept'
<1>1. Steps(Tidy)' \subseteq Steps(Tidy)
  <2>1. CASE p = Tidy
    BY <2>1, OwnSteps
  <2>2. CASE p # Tidy
    BY <2>2, OthersSteps, TidyIsProc
  <2>3. QED BY <2>1, <2>2
<1>2. \A j \in Key : secret'[j] = IF j = k THEN None ELSE secret[j]
  BY DEF Shapes, EntriesTyped
<1>3. \A j \in Key : j # k /\ HalfDeleted(j) => HalfDeleted(j)'
  BY HalfDeletedKept
<1>4. \A j \in Key : secret'[j] # None /\ accessor[secret'[j].acc] = None =>
        HalfDeleted(j)' \/ faults > 0 \/ secret'[j].acc \in overlap
  BY <1>2, <1>3 DEF Kept
<1>5. \A b \in Acc : made[b] \in Key /\ NotNeeded(b) => NotNeeded(b)'
  BY <1>2 DEF NotNeeded
<1>6. ASSUME NEW t \in Steps(Tidy)'
      PROVE  /\ t[1] = "tidy_rest" => \A j \in Key : secret'[j] # None =>
                  j[1] \in t[4] \/ secret'[j].acc \in overlap
             /\ t[1] = "dangling" => t[2] \subseteq DOMAIN t[3] /\ \A b \in t[2] : NotNeeded(b)'
             /\ t[1] = "delete_accessor" /\ (\E s \in Steps(Tidy)' : s[1] = "dangling") =>
                  NotNeeded(t[2])'
  <2>1. t \in Steps(Tidy) /\ KeptStep(t, Steps(Tidy))
    BY <1>1 DEF Kept
  <2>2. t[1] = "tidy_rest" => \A j \in Key : secret'[j] # None =>
               j[1] \in t[4] \/ secret'[j].acc \in overlap
    BY <1>2, <2>1 DEF KeptStep
  <2>3. t[1] = "dangling" => t[2] \subseteq DOMAIN t[3] /\ \A b \in t[2] : NotNeeded(b)'
    BY <1>5, <2>1, TidyTyped DEF KeptStep
  <2>4. t[1] = "delete_accessor" /\ (\E s \in Steps(Tidy)' : s[1] = "dangling") =>
               NotNeeded(t[2])'
    BY <1>1, <1>5, <2>1, TidyTyped DEF KeptStep
  <2>5. QED BY <2>2, <2>3, <2>4
<1>7. QED BY <1>4, <1>6 DEF Kept, KeptStep

LEMMA DeleteSecretKept ==
  ASSUME Shapes, Secrets, Kept, NEW p \in Proc, DeleteSecret(p)
  PROVE  Kept'
<1>1. UNCHANGED <<accessor, made, overlap, faults>> /\ At(p, "delete_secret")
  BY DEF DeleteSecret
<1>2. PICK k, w : /\ k \in Key /\ secret' = [secret EXCEPT ![k] = None] /\ Arg(p, 2) = k
                          /\ Moved(p, w, IF w = <<>> THEN {} ELSE held[p])
                          /\ StepsOf(w) \subseteq Steps(p)
  <2>1. CASE p # Tidy
    <3>1. p \in Callers
      BY <2>1 DEF Proc
    <3>2. PICK k \in Key : DeleteSecretEffect(p, k)
      BY <3>1, DeleteSecretCaller
    <3> USE DEF DeleteSecretEffect
    <3> DEFINE h == <<"delete_secret", k>>
    <3>3. h[2] = k
      OBVIOUS
    <3>4. ASSUME work[p] = <<h>>, Moved(p, <<>>, {})
          PROVE  Arg(p, 2) = k /\ \E w : /\ Moved(p, w, IF w = <<>> THEN {} ELSE held[p])
                                         /\ StepsOf(w) \subseteq Steps(p)
      BY <3>4, NoSteps DEF Arg
    <3>5. ASSUME NEW a, NEW g, work[p] = <<h, <<"accept", a, g>>>>,
                 Moved(p, <<<<"accept", a, g>>>>, held[p])
          PROVE  Arg(p, 2) = k /\ \E w : /\ Moved(p, w, IF w = <<>> THEN {} ELSE held[p])
                                         /\ StepsOf(w) \subseteq Steps(p)
      <4> DEFINE x == <<"accept", a, g>> w == <<x>>
      <4>1. work[p] = <<h, x>> /\ Moved(p, w, held[p])
        BY <3>5
      <4> HIDE DEF h, x
      <4>2. StepsOf(w) = {x} /\ w # <<>> /\ Steps(p) = {h, x} /\ Arg(p, 2) = k
        BY <3>3, <4>1, Steps1, Steps2 DEF Steps, Arg
      <4> HIDE DEF w
      <4>3. QED BY <4>1, <4>2
    <3>6. ASSUME NEW K, NEW o, NEW r,
                 work[p] = <<h, <<"unlock", k>>, <<"flush", K>>,
                             <<"delete_role_id", o, r>>, <<"put_role", r, None>>>>,
                 Moved(p, <<<<"unlock", k>>, <<"flush", K>>, <<"delete_role_id", o, r>>,
                            <<"put_role", r, None>>>>, held[p])
          PROVE  Arg(p, 2) = k /\ \E w : /\ Moved(p, w, IF w = <<>> THEN {} ELSE held[p])
                                         /\ StepsOf(w) \subseteq Steps(p)
      <4> DEFINE x == <<"unlock", k>> y == <<"flush", K>> z == <<"delete_role_id", o, r>>
                 v == <<"put_role", r, None>> w == <<x, y, z, v>>
      <4>1. work[p] = <<h, x, y, z, v>> /\ Moved(p, w, held[p])
        BY <3>6
      <4> HIDE DEF h, x, y, z, v
      <4>2. /\ StepsOf(w) = {x, y, z, v} /\ w # <<>> /\ Steps(p) = {h, x, y, z, v}
            /\ Arg(p, 2) = k
        BY <3>3, <4>1, Steps4, Steps5 DEF Steps, Arg
      <4> HIDE DEF w
      <4>3. QED BY <4>1, <4>2
    <3>7. Arg(p, 2) = k /\ \E w : /\ Moved(p, w, IF w = <<>> THEN {} ELSE held[p])
                                  /\ StepsOf(w) \subseteq Steps(p)
      BY <3>2, <3>4, <3>5, <3>6
    <3> HIDE DEF h
    <3>8. QED BY <3>2, <3>7
  <2>2. CASE p = Tidy
    <3>1. PICK k, w1, w2, w3 : TidyDeleteSecretEffect(k, w1, w2, w3)
      BY <2>2, DeleteSecretTidy
    <3> USE DEF TidyDeleteSecretEffect
    <3> DEFINE h == <<"delete_secret", k>> x == <<"unlock", k>> w == <<x, w1, w2, w3>>
    <3>2. work[p] = <<h, x, w1, w2, w3>> /\ Moved(p, w, held[p]) /\ h[2] = k
      BY <2>2, <3>1
    <3> HIDE DEF h, x
    <3>3. /\ StepsOf(w) = {x, w1, w2, w3} /\ w # <<>> /\ Steps(p) = {h, x, w1, w2, w3}
          /\ Arg(p, 2) = k
      BY <3>2, Steps4, Steps5 DEF Steps, Arg
    <3> HIDE DEF w
    <3>4. QED BY <3>1, <3>2, <3>3
  <2>3. QED BY <2>1, <2>2
<1>3. QED BY <1>1, <1>2, DeletesSecretKept

(* Tidying. *)
LEMMA KeptPlain ==
  ASSUME NEW t, NEW S, t[1] \notin {"tidy_rest", "dangling", "delete_accessor"}
  PROVE  KeptStep(t, S)
  BY DEF KeptStep

LEMMA TidyKeptMove ==
  ASSUME Kept, NEW w, NEW H, Moved(Tidy, w, H),
         UNCHANGED <<secret, accessor, made, overlap, faults>>, ~At(Tidy, "delete_secret"),
         \A t \in StepsOf(w) : t \in Steps(Tidy) \/ KeptStep(t, StepsOf(w)),
         (\E t \in StepsOf(w) : t[1] = "dangling") =>
           \A t \in StepsOf(w) : t[1] = "delete_accessor" => KeptStep(t, StepsOf(w))
  PROVE  Kept'
<1>1. \A t \in Steps(Tidy) : KeptStep(t, Steps(Tidy))
  BY DEF Kept
<1>2. \A t \in StepsOf(w) : KeptStep(t, StepsOf(w))
  BY <1>1 DEF KeptStep
<1>3. QED BY <1>2, KeptMove, TidyIsProc

LEMMA TidyStartKept ==
  ASSUME Shapes, Kept, TidyStart
  PROVE  Kept'
<1>1. /\ UNCHANGED <<secret, accessor, made, overlap, faults>>
      /\ \E E, O : Request(Tidy, <<<<"tidy", E, O>>>>)
  BY DEF TidyStart, Request, storage, history
<1>2. PICK E, O : Request(Tidy, <<<<"tidy", E, O>>>>)
  BY <1>1
<1> DEFINE x == <<"tidy", E, O>> w == <<x>>
<1>3. x[1] = "tidy" /\ Request(Tidy, w)
  BY <1>2
<1> HIDE DEF x
<1>4. StepsOf(w) = {x}
  BY Steps1
<1> HIDE DEF w
<1>5. work[Tidy] = <<>> /\ Moved(Tidy, w, {})
  BY <1>3, RequestMoves, TidyIsProc
<1>6. ~At(Tidy, "delete_secret")
  BY <1>5 DEF At
<1>7. KeptStep(x, StepsOf(w))
  BY <1>3, KeptPlain
<1>8. QED BY <1>1, <1>3, <1>4, <1>5, <1>6, <1>7, TidyKeptMove

LEMMA TidyListKept ==
  ASSUME Shapes, Kept, TidyList
  PROVE  Kept'
<1>1. UNCHANGED <<secret, accessor, made, overlap, faults>> /\ ~At(Tidy, "delete_secret")
  BY DEF TidyList, storage, history, At
<1>2. PICK E \in SUBSET Key, O \in SUBSET Acc, f \in Found, R \in SUBSET (1..MaxInc) :
        TidyListEffect(E, O, f, R)
  BY TidyListMoves
<1> USE DEF TidyListEffect
<1> DEFINE x == <<"cleanup", Stored>> y == <<"tidy_rest", f, {}, R>> z == <<"tidied", E, O>>
           w == <<x, y, z>>
<1>3. /\ x[1] = "cleanup" /\ y[1] = "tidy_rest" /\ y[4] = R /\ z[1] = "tidied"
      /\ Moved(Tidy, w, {})
  BY <1>2
<1> HIDE DEF x, y, z
<1>4. StepsOf(w) = {x, y, z}
  BY Steps3
<1> HIDE DEF w
<1>5. \A k \in Key : secret[k] # None => k[1] \in R
  BY <1>2 DEF Stored
<1>6. KeptStep(y, StepsOf(w)) /\ KeptStep(x, StepsOf(w)) /\ KeptStep(z, StepsOf(w))
  BY <1>3, <1>5 DEF KeptStep
<1>7. QED BY <1>1, <1>3, <1>4, <1>6, TidyKeptMove

LEMMA TidyEachKept ==
  ASSUME Shapes, Kept, TidyEach
  PROVE  Kept'
<1>1. UNCHANGED <<secret, accessor, made, overlap, faults>> /\ ~At(Tidy, "delete_secret")
  BY DEF TidyEach, ForEach, storage, history, At
<1>3. PICK E \in SUBSET Key, O \in SUBSET Acc, f \in Found, K \in SUBSET Key, s \in SUBSET Acc, R \in SUBSET (1..MaxInc) :
        TidyEachEffect(E, O, f, K, s, R)
  BY TidyEachMoves
<1> USE DEF TidyEachEffect
<1> DEFINE x == <<"cleanup", K>> y == <<"tidy_rest", f, s, R>> z == <<"tidied", E, O>>
<1>4. work[Tidy] = <<x, y, z>> /\ y[1] = "tidy_rest" /\ z[1] = "tidied"
  BY <1>3
<1>5. CASE Moved(Tidy, <<y, z>>, {})
  <2> HIDE DEF x, y, z
  <2> DEFINE w == <<y, z>>
  <2>1. StepsOf(w) = {y, z} /\ Steps(Tidy) = {x, y, z} /\ Moved(Tidy, w, {})
    BY <1>4, <1>5, Steps2, Steps3 DEF Steps
  <2> HIDE DEF w
  <2>2. QED BY <1>1, <1>4, <2>1, TidyKeptMove
<1>6. ASSUME NEW k \in K,
             Moved(Tidy, <<write(k), <<"tidy_secret", k>>, <<"unlock", k>>,
                           <<"cleanup", K \ {k}>>, y, z>>, {})
      PROVE  Kept'
  <2> DEFINE a == write(k) b == <<"tidy_secret", k>> c == <<"unlock", k>>
             d == <<"cleanup", K \ {k}>>
  <2>1. /\ a[1] = "lock" /\ b[1] = "tidy_secret" /\ c[1] = "unlock" /\ d[1] = "cleanup"
        /\ Moved(Tidy, <<a, b, c, d, y, z>>, {})
    BY <1>6 DEF write
  <2> HIDE DEF x, y, z, a, b, c, d
  <2> DEFINE w == <<a, b, c, d, y, z>>
  <2>2. StepsOf(w) = {a, b, c, d, y, z} /\ Steps(Tidy) = {x, y, z} /\ Moved(Tidy, w, {})
    BY <1>4, <2>1, Steps3, Steps6 DEF Steps
  <2> HIDE DEF w
  <2>3. \A t \in {a, b, c, d} : KeptStep(t, StepsOf(w)) /\ t[1] # "dangling"
    BY <2>1, KeptPlain
  <2>4. QED BY <1>1, <1>4, <2>2, <2>3, TidyKeptMove
<1>7. QED BY <1>3, <1>5, <1>6

LEMMA TidySecretKept ==
  ASSUME Shapes, Kept, TidySecret
  PROVE  Kept'
<1>1. UNCHANGED <<secret, accessor, made, overlap, faults>> /\ ~At(Tidy, "delete_secret")
  BY DEF TidySecret, storage, history, At
<1>3. PICK E \in SUBSET Key, O \in SUBSET Acc, f \in Found, K \in SUBSET Key, s \in SUBSET Acc, R \in SUBSET (1..MaxInc), k \in Key :
        TidySecretEffect(E, O, f, K, s, R, k)
  BY TidySecretMoves
<1> USE DEF TidySecretEffect
<1> DEFINE g == <<"tidy_secret", k>> u == <<"unlock", k>> x == <<"cleanup", K>>
           y == <<"tidy_rest", f, s, R>> z == <<"tidied", E, O>>
           v == <<"tidy_rest", f, s \cup {secret[k].acc}, R>>
           d == <<"delete_secret", k>> e == <<"delete_accessor", secret[k].acc>>
<1>4. /\ work[Tidy] = <<g, u, x, y, z>>
      /\ g[1] = "tidy_secret" /\ u[1] = "unlock" /\ x[1] = "cleanup" /\ z[1] = "tidied"
      /\ y[1] = "tidy_rest" /\ y[4] = R /\ v[1] = "tidy_rest" /\ v[4] = R
      /\ d[1] = "delete_secret" /\ e[1] = "delete_accessor"
  BY <1>3
<1>5. \/ Moved(Tidy, <<>>, {})
      \/ Moved(Tidy, <<d, u, x, y, z>>, held[Tidy])
      \/ Moved(Tidy, <<e, d, u, x, y, z>>, held[Tidy])
      \/ Moved(Tidy, <<u, x, v, z>>, held[Tidy])
  BY <1>3
<1> HIDE DEF g, u, x, y, z, v, d, e
<1>6. Steps(Tidy) = {g, u, x, y, z}
  BY <1>4, Steps5 DEF Steps
<1>7. CASE Moved(Tidy, <<>>, {})
  BY <1>1, <1>7, NoSteps, TidyKeptMove
<1>8. CASE Moved(Tidy, <<d, u, x, y, z>>, held[Tidy])
  <2> DEFINE w == <<d, u, x, y, z>>
  <2>1. StepsOf(w) = {d, u, x, y, z} /\ Moved(Tidy, w, held[Tidy])
    BY <1>8, Steps5
  <2> HIDE DEF w
  <2>2. KeptStep(d, StepsOf(w))
    BY <1>4, KeptPlain
  <2>3. QED BY <1>1, <1>4, <1>6, <2>1, <2>2, TidyKeptMove
<1>9. CASE Moved(Tidy, <<e, d, u, x, y, z>>, held[Tidy])
  <2> DEFINE w == <<e, d, u, x, y, z>>
  <2>1. StepsOf(w) = {e, d, u, x, y, z} /\ Moved(Tidy, w, held[Tidy])
    BY <1>9, Steps6
  <2> HIDE DEF w
  <2>2. KeptStep(d, StepsOf(w)) /\ KeptStep(e, StepsOf(w))
    BY <1>4, <2>1 DEF KeptStep
  <2>3. QED BY <1>1, <1>4, <1>6, <2>1, <2>2, TidyKeptMove
<1>10. CASE Moved(Tidy, <<u, x, v, z>>, held[Tidy])
  <2> DEFINE w == <<u, x, v, z>>
  <2>1. StepsOf(w) = {u, x, v, z} /\ Moved(Tidy, w, held[Tidy])
    BY <1>10, Steps4
  <2> HIDE DEF w
  <2>2. KeptStep(y, Steps(Tidy))
    BY <1>6 DEF Kept
  <2>3. KeptStep(v, StepsOf(w))
    BY <1>4, <2>2 DEF KeptStep
  <2>4. QED BY <1>1, <1>4, <1>6, <2>1, <2>3, TidyKeptMove
<1>11. QED BY <1>5, <1>7, <1>8, <1>9, <1>10

LEMMA TidyRestKept ==
  ASSUME Shapes, Secrets, Kept, TidyRest
  PROVE  Kept'
<1>1. UNCHANGED <<secret, accessor, made, overlap, faults>> /\ ~At(Tidy, "delete_secret")
  BY DEF TidyRest, storage, history, At
<1>2. PICK E \in SUBSET Key, O \in SUBSET Acc, f \in Found, s \in SUBSET Acc, R \in SUBSET (1..MaxInc) :
        TidyRestEffect(E, O, f, s, R)
  BY TidyRestMoves
<1> USE DEF TidyRestEffect
<1> DEFINE y == <<"tidy_rest", f, s, R>> z == <<"tidied", E, O>>
<1>3. /\ work[Tidy] = <<y, z>> /\ z[1] = "tidied"
      /\ y[1] = "tidy_rest" /\ y[2] = f /\ y[4] = R
  BY <1>2
<1>4. CASE Moved(Tidy, <<z>>, {})
  <2> HIDE DEF y, z
  <2> DEFINE w == <<z>>
  <2>1. StepsOf(w) = {z} /\ Moved(Tidy, w, {}) /\ Steps(Tidy) = {y, z}
    BY <1>3, <1>4, Steps1, Steps2 DEF Steps
  <2> HIDE DEF w
  <2>2. QED BY <1>1, <1>3, <2>1, TidyKeptMove
<1>5. ASSUME NEW K \in SUBSET (DOMAIN f), K = Dangling(f, s, R),
             Moved(Tidy, <<<<"dangling", K, f>>, z>>, {})
      PROVE  Kept'
  <2> DEFINE x == <<"dangling", K, f>>
  <2>1. x[1] = "dangling" /\ x[2] = K /\ x[3] = f /\ Moved(Tidy, <<x, z>>, {})
    BY <1>5
  <2> HIDE DEF x, y, z
  <2> DEFINE w == <<x, z>>
  <2>2. StepsOf(w) = {x, z} /\ Moved(Tidy, w, {}) /\ Steps(Tidy) = {y, z}
    BY <1>3, <2>1, Steps2 DEF Steps
  <2> HIDE DEF w
  <2>3. KeptStep(y, Steps(Tidy)) /\ StepOK(y)
    BY <2>2, TidyIsProc DEF Kept, Secrets
  <2>4. /\ \A k \in Key : secret[k] # None => k[1] \in R \/ secret[k].acc \in overlap
        /\ \A a \in DOMAIN f : f[a] = made[a] /\ made[a] \in Key
    <3>1. f = y[2] /\ R = y[4]
      BY <1>3
    <3>2. PICK D \in SUBSET Acc : f \in [D -> Key]
      BY DEF Found
    <3>3. QED BY <1>3, <2>3, <3>1, <3>2 DEF KeptStep, StepOK
  <2>5. \A a \in K : NotNeeded(a)
    <3> TAKE a \in K
    <3>1. a \in DOMAIN f /\ f[a] \notin {k \in Stored : k[1] \in R}
      BY <1>5 DEF Dangling
    <3>2. secret[made[a]] # None /\ secret[made[a]].acc = a => a \in overlap
      BY <2>4, <3>1 DEF Stored
    <3>3. QED BY <3>2 DEF NotNeeded
  <2>6. KeptStep(x, StepsOf(w))
    BY <2>1, <2>5 DEF KeptStep
  <2>7. QED BY <1>1, <1>3, <2>1, <2>2, <2>6, TidyKeptMove
<1>6. QED BY <1>2, <1>4, <1>5

LEMMA TidyDanglingKept ==
  ASSUME Shapes, Kept, TidyDangling
  PROVE  Kept'
<1>1. UNCHANGED <<secret, accessor, made, overlap, faults>> /\ ~At(Tidy, "delete_secret")
  BY DEF TidyDangling, ForEach, storage, history, At
<1>3. PICK E \in SUBSET Key, O \in SUBSET Acc, f \in Found, K \in SUBSET Acc :
        TidyDanglingEffect(E, O, f, K)
  BY TidyDanglingMoves
<1> USE DEF TidyDanglingEffect
<1> DEFINE x == <<"dangling", K, f>> z == <<"tidied", E, O>>
<1>4. /\ work[Tidy] = <<x, z>> /\ z[1] = "tidied"
      /\ x[1] = "dangling" /\ x[2] = K /\ x[3] = f
  BY <1>3
<1>5. CASE Moved(Tidy, <<z>>, {})
  <2> HIDE DEF x, z
  <2> DEFINE w == <<z>>
  <2>1. StepsOf(w) = {z} /\ Moved(Tidy, w, {}) /\ Steps(Tidy) = {x, z}
    BY <1>4, <1>5, Steps1, Steps2 DEF Steps
  <2> HIDE DEF w
  <2>2. QED BY <1>1, <1>4, <2>1, TidyKeptMove
<1>6. ASSUME NEW a \in K,
             Moved(Tidy, <<write(f[a]), <<"delete_accessor", a>>, <<"unlock", f[a]>>,
                           <<"dangling", K \ {a}, f>>, z>>, {})
      PROVE  Kept'
  <2> DEFINE b == write(f[a]) d == <<"delete_accessor", a>> u == <<"unlock", f[a]>>
             y == <<"dangling", K \ {a}, f>>
  <2>1. /\ b[1] = "lock" /\ d[1] = "delete_accessor" /\ d[2] = a /\ u[1] = "unlock"
        /\ y[1] = "dangling" /\ y[2] = K \ {a} /\ y[3] = f
        /\ Moved(Tidy, <<b, d, u, y, z>>, {})
    BY <1>6 DEF write
  <2> HIDE DEF b, d, u, x, y, z
  <2> DEFINE w == <<b, d, u, y, z>>
  <2>2. StepsOf(w) = {b, d, u, y, z} /\ Moved(Tidy, w, {}) /\ Steps(Tidy) = {x, z}
    BY <1>4, <2>1, Steps2, Steps5 DEF Steps
  <2> HIDE DEF w
  <2>3. KeptStep(x, Steps(Tidy))
    BY <2>2 DEF Kept
  <2>4. K \subseteq DOMAIN f /\ \A c \in K : NotNeeded(c)
    BY <1>3, <1>4, <2>3 DEF KeptStep
  <2>5. KeptStep(d, StepsOf(w)) /\ KeptStep(y, StepsOf(w))
    BY <2>1, <2>4, <1>6 DEF KeptStep
  <2>6. KeptStep(b, StepsOf(w)) /\ KeptStep(u, StepsOf(w))
    BY <2>1, KeptPlain
  <2>7. QED BY <1>1, <1>4, <2>1, <2>2, <2>5, <2>6, TidyKeptMove
<1>7. QED BY <1>3, <1>5, <1>6

LEMMA TidyEndKept ==
  ASSUME Shapes, Kept, TidyEnd
  PROVE  Kept'
<1>1. UNCHANGED <<secret, accessor, made, overlap, faults>> /\ ~At(Tidy, "delete_secret")
  BY DEF TidyEnd, storage, history, At
<1>2. Moved(Tidy, <<>>, {})
  BY TidyEndMoves
<1>3. QED BY <1>1, <1>2, NoSteps, TidyKeptMove

(* The rest, and the whole layer. *)
LEMMA LockKept ==
  ASSUME Shapes, Kept, NEW p \in Proc, Lock(p) \/ Unlock(p)
  PROVE  Kept'
<1>1. UNCHANGED <<secret, accessor, made, overlap, faults>> /\ ~At(p, "delete_secret")
  BY DEF Lock, Unlock, At, storage, history
<1> DEFINE w == Tail(work[p])
<1>2. \E H : Moved(p, w, H) /\ Chain(work[p])
  BY LockMoves, UnlockMoves DEF UnlockEffect, LockEffect
<1>3. StepsOf(w) \subseteq Steps(p)
  BY <1>2 DEF Chain, Steps
<1> HIDE DEF w
<1>4. p = Tidy => \A t \in StepsOf(w) : KeptStep(t, StepsOf(w))
  BY <1>3 DEF Kept, KeptStep
<1>5. QED BY <1>1, <1>2, <1>4, KeptMove

LEMMA FailKept ==
  ASSUME Shapes, Kept, NEW p \in Proc, Fail(p)
  PROVE  Kept'
<1>1. /\ Moved(p, <<>>, {}) /\ faults' = faults + 1
      /\ UNCHANGED <<secret, accessor, made, overlap>>
  BY FailMoves DEF storage, history
<1>2. faults' > 0
  BY <1>1 DEF Shapes, HistoryTyped
<1>3. QED BY <1>1, <1>2, NoSteps, KeptMove

LEMMA CrashKept ==
  ASSUME Shapes, Kept, Crash
  PROVE  Kept'
<1>1. faults' = faults + 1 /\ work' = [p \in Proc |-> <<>>]
  BY DEF Crash
<1>2. faults' > 0
  BY <1>1 DEF Shapes, HistoryTyped
<1>3. Steps(Tidy)' = {}
  BY <1>1, TidyIsProc DEF Steps, StepsOf
<1>4. QED BY <1>2, <1>3 DEF Kept

LEMMA StillKept ==
  ASSUME Kept, UNCHANGED <<secret, accessor, made, overlap, faults, work, held>>
  PROVE  Kept'
<1>1. Steps(Tidy)' = Steps(Tidy)
  BY DEF Steps
<1>2. \A k : HalfDeleted(k) => HalfDeleted(k)'
  BY DEF HalfDeleted, At, Arg
<1>3. QED BY <1>1, <1>2 DEF Kept, KeptStep, NotNeeded

LEMMA InitKept ==
  ASSUME Init
  PROVE  Kept
<1>1. PICK s \in Sid :
        /\ secret = [k \in Key |-> IF k = <<1, s>> THEN [acc |-> 1, uses |-> FirstUses, exp |-> 1]
                                   ELSE None]
        /\ accessor = [a \in Acc |-> IF a = 1 THEN <<1, s>> ELSE None]
        /\ work = [p \in Proc |-> <<>>]
  BY DEF Init
<1>2. 1 \in Acc /\ <<1, s>> \in Key /\ <<1, s>> # None
  BY BoundAssumption, NameAssumption DEF Acc, Key
<1>3. accessor[1] # None
  BY <1>1, <1>2
<1> DEFINE e == [acc |-> 1, uses |-> FirstUses, exp |-> 1]
<1>4. e.acc = 1 /\ \A k \in Key : secret[k] # None => secret[k] = e
  BY <1>1
<1> HIDE DEF e
<1>5. Steps(Tidy) = {}
  BY <1>1, TidyIsProc DEF Steps, StepsOf
<1>6. QED BY <1>3, <1>4, <1>5 DEF Kept

LEMMA NextKeptKept ==
  ASSUME Shapes, Secrets, Kept, [Next]_vars
  PROVE  Kept'
<1>1. CASE \E p \in Callers : Requests(p)
  BY <1>1, QuietKept
<1>2. CASE \E p \in Callers : RoleStep(p)
  BY <1>2, QuietKept
<1>3. CASE \E p \in Callers : SecretStep(p)
  BY <1>3, QuietKept, RegisterEntryKept, PutSecretKept DEF SecretStep, Looking, LoggingIn
<1>4. CASE TidyStart \/ TidyList \/ TidyEach \/ TidySecret
  BY <1>4, TidyStartKept, TidyListKept, TidyEachKept, TidySecretKept
<1>5. CASE TidyRest \/ TidyDangling \/ TidyEnd
  BY <1>5, TidyRestKept, TidyDanglingKept, TidyEndKept
<1>6. CASE \E p \in Proc : Step(p)
  BY <1>6, LockKept, FailKept, DeleteAccessorKept, DeleteSecretKept DEF Step
<1>7. CASE Crash
  BY <1>7, CrashKept
<1>8. CASE Tick \/ UNCHANGED vars
  <2>1. UNCHANGED <<secret, accessor, made, overlap, faults, work, held>>
    BY <1>8 DEF Tick, vars, storage, history
  <2>2. QED BY <2>1, StillKept
<1>9. QED BY <1>1, <1>2, <1>3, <1>4, <1>5, <1>6, <1>7, <1>8 DEF Next, Requests

LEMMA KeptHold == Spec => []Kept
<1>1. Init => Kept
  BY InitKept
<1>2. Shapes /\ Secrets /\ Kept /\ [Next]_vars => Kept'
  BY NextKeptKept
<1>3. QED BY <1>1, <1>2, ShapesHold, SecretsHold, PTL DEF Spec

(* Only the holder of its lock sees a secret id without its accessor, but   *)
(* after an error, or when it was registered while tidy was running.        *)
THEOREM SecretHasAccessorHolds == Spec => []SecretHasAccessor
<1>1. Shapes /\ Secrets /\ Kept => SecretHasAccessor
  <2> SUFFICES ASSUME Shapes, Secrets, Kept, NEW k \in Key, secret[k] # None
               PROVE  accessor[secret[k].acc] = k \/ Written(k) \/ faults > 0
                      \/ secret[k].acc \in overlap
    BY DEF SecretHasAccessor
  <2>1. secret[k].acc \in Acc
    BY DEF Shapes, EntriesTyped, SecretEntry
  <2>2. accessor[secret[k].acc] # None => accessor[secret[k].acc] = k
    BY <2>1 DEF Secrets, MadeOK
  <2>3. HalfDeleted(k) => Written(k)
    BY DEF HalfDeleted, Written
  <2>4. QED BY <2>2, <2>3 DEF Kept
<1>2. QED BY <1>1, ShapesHold, SecretsHold, KeptHold, PTL

(* What is stored is well typed; a secret id has its accessor and a role    *)
(* its role_id outside the locks (path_role.rs, path_login.rs,              *)
(* path_tidy_secret_id.rs).                                                 *)
THEOREM EntriesOKHolds == Spec => []EntriesOK
<1>1. TypeOK /\ SecretHasAccessor /\ IndexAgrees => EntriesOK
  BY DEF EntriesOK
<1>2. Shapes => TypeOK
  BY ShapesTypeOK
<1>3. QED BY <1>1, <1>2, ShapesHold, SecretHasAccessorHolds, IndexAgreesHolds, PTL

-----------------------------------------------------------------------------
(* The fifth layer is kept: what tidy promised.                             *)

LEMMA StillShrinks ==
  ASSUME Shapes, UNCHANGED <<secret, accessor, made, now>>
  PROVE  Shrinks
  BY DEF Shrinks, Shapes, EntriesTyped

LEMMA ShrinksTidied ==
  ASSUME Shapes, Tidied, Steps(Tidy)' = Steps(Tidy), overlap \subseteq overlap',
         overlap' = {} /\ Steps(Tidy) # {} => Shrinks
  PROVE  Tidied'
<1> SUFFICES ASSUME overlap' = {}, NEW t \in Steps(Tidy)
             PROVE  TidiedStep(t, Steps(Tidy))'
  BY DEF Tidied
<1>1. overlap = {} /\ Shrinks /\ TidiedStep(t, Steps(Tidy))
  BY DEF Tidied
<1>2. ASSUME Promised(t, Steps(Tidy))
      PROVE  Promised(t, Steps(Tidy))'
  <2>1. ASSUME NEW k \in t[2], secret'[k] # None
        PROVE  now' > secret'[k].exp /\ ToDo(k, Steps(Tidy))
    <3>1. k \in Key /\ secret[k] # None /\ secret'[k].exp = secret[k].exp
      BY <1>1, <1>2, <2>1 DEF Shrinks, Promised
    <3>2. now > secret[k].exp /\ ToDo(k, Steps(Tidy)) /\ now' >= now
      BY <1>1, <1>2, <3>1 DEF Shrinks, Promised
    <3>3. now \in Int /\ now' \in Int /\ secret[k].exp \in Int
      BY <1>1, <3>1 DEF Shapes, EntriesTyped, SecretEntry, Shrinks
    <3>4. QED BY <3>1, <3>2, <3>3
  <2>2. ASSUME NEW a \in t[3]
        PROVE  /\ made'[a] # None /\ secret'[made'[a]] = None
               /\ accessor'[a] # None => ToFind(a, Steps(Tidy))
    <3>1. a \in Acc /\ made[a] # None /\ secret[made[a]] = None
          /\ (accessor[a] # None => ToFind(a, Steps(Tidy)))
      BY <1>2 DEF Promised
    <3>2. made[a] \in Key
      BY <3>1 DEF Shapes, HistoryTyped
    <3>3. QED BY <1>1, <3>1, <3>2 DEF Shrinks
  <2>3. QED BY <1>2, <2>1, <2>2 DEF Promised, ToDo, ToFind
<1>3. ASSUME Looked(t, Steps(Tidy))
      PROVE  Looked(t, Steps(Tidy))'
  BY <1>1, <1>3 DEF Looked, Shrinks
<1>4. QED BY <1>1, <1>2, <1>3 DEF TidiedStep

(* What callers do meanwhile. *)
LEMMA OtherTidied ==
  ASSUME Shapes, Tidied, NEW p \in Callers, NEW w, NEW H, Moved(p, w, H),
         overlap \subseteq overlap', overlap' = {} /\ Steps(Tidy) # {} => Shrinks
  PROVE  Tidied'
<1>1. p \in Proc /\ p # Tidy
  BY CallerIsProc, ProcAssumption
<1>2. Steps(Tidy)' = Steps(Tidy)
  BY <1>1, OthersSteps, TidyIsProc
<1>3. QED BY <1>2, ShrinksTidied

LEMMA QuietTidied ==
  ASSUME Shapes, Tidied, NEW p \in Callers,
         Requests(p) \/ RoleStep(p) \/ Looking(p) \/ LoggingIn(p)
  PROVE  Tidied'
<1>1. Quiet(p) /\ \E w, H : Moved(p, w, H)
  BY CallerIsProc, RequestsQuiet, RoleRests, LookingRests, RestApart
<1>2. QED BY <1>1, StillShrinks, OtherTidied DEF Quiet

LEMMA RegisterEntryTidied ==
  ASSUME Shapes, Tidied, NEW p \in Callers, RegisterEntry(p)
  PROVE  Tidied'
<1>1. UNCHANGED <<secret, now>>
  BY DEF RegisterEntry
<1>2. PICK r \in Name, k \in Key, u \in 0..MaxUses, ttl \in 0..1 :
        RegisterEntryEffect(p, r, k, u, ttl)
  BY RegisterEntryMoves
<1> USE DEF RegisterEntryEffect
<1>3. CASE Moved(p, <<>>, {}) /\ UNCHANGED <<accessor, acc, limit, made, overlap>>
  BY <1>1, <1>3, StillShrinks, OtherTidied
<1>4. ASSUME NEW a, overlap' = (IF work[Tidy] = <<>> THEN overlap ELSE overlap \cup {a}),
             NEW w, NEW H, Moved(p, w, H)
      PROVE  Tidied'
  <2>1. overlap' = {} => Steps(Tidy) = {}
    BY <1>4, NoSteps DEF Steps
  <2>2. QED BY <1>4, <2>1, OtherTidied
<1>5. QED BY <1>2, <1>3, <1>4

LEMMA PutSecretTidied ==
  ASSUME Shapes, Secrets, Tidied, NEW p \in Callers, PutSecret(p)
  PROVE  Tidied'
<1>1. p \in Proc /\ UNCHANGED <<accessor, made, now>> /\ At(p, "put_secret")
  BY CallerIsProc DEF PutSecret
<1>2. PICK k \in Key, e \in SecretEntry : PutSecretEffect(p, k, e)
  BY PutSecretMoves
<1> USE DEF PutSecretEffect
<1>3. \E w, H : Moved(p, w, H)
  BY <1>2
<1>4. secret[k] # None => secret[k].exp = e.exp
  <2>1. CASE work[p] = <<<<"put_secret", k, e>>>>
    <3>1. Len(work[p]) = 1 /\ Arg(p, 2) = k
      BY <2>1 DEF Arg
    <3>2. QED BY <1>1, <3>1 DEF Secrets, Fresh
  <2>2. ASSUME NEW g, work[p] = <<<<"put_secret", k, e>>, <<"accept", e.acc, g>>>>
        PROVE  secret[k].exp = e.exp
    <3>1. Len(work[p]) = 2 /\ Arg(p, 2) = k /\ Arg(p, 3) = e
      BY <2>2 DEF Arg
    <3>2. secret[k] # None /\ e = [secret[k] EXCEPT !.uses = @ - 1]
      BY <1>1, <3>1 DEF Secrets, Used
    <3>3. secret[k] \in SecretEntry
      BY <3>2 DEF Shapes, EntriesTyped
    <3>4. QED BY <3>2, <3>3 DEF SecretEntry
  <2>3. QED BY <1>2, <2>1, <2>2
<1>5. overlap \subseteq overlap'
  BY <1>2
<1>6. ASSUME overlap' = {}, Steps(Tidy) # {}
      PROVE  Shrinks
  <2>1. secret[k] # None
    BY <1>2, <1>6, NoSteps DEF Steps
  <2>2. \A j \in Key : secret'[j] = IF j = k THEN e ELSE secret[j]
    BY <1>2 DEF Shapes, EntriesTyped
  <2>3. QED BY <1>1, <1>4, <2>1, <2>2 DEF Shrinks, Shapes, EntriesTyped
<1>7. QED BY <1>3, <1>5, <1>6, OtherTidied

LEMMA AccessorShrinks ==
  ASSUME Shapes, NEW a, accessor' = [accessor EXCEPT ![a] = None],
         UNCHANGED <<secret, made, now>>
  PROVE  Shrinks
<1>1. \A b \in Acc : accessor'[b] # None => accessor[b] # None
  BY DEF Shapes, EntriesTyped
<1>2. QED BY <1>1 DEF Shrinks, Shapes, EntriesTyped

LEMMA SecretShrinks ==
  ASSUME Shapes, NEW k, secret' = [secret EXCEPT ![k] = None],
         UNCHANGED <<accessor, made, now>>
  PROVE  Shrinks
<1>1. \A j \in Key : secret'[j] # None => secret[j] # None /\ secret'[j] = secret[j]
  BY DEF Shapes, EntriesTyped
<1>2. QED BY <1>1 DEF Shrinks, Shapes, EntriesTyped

(* The deletions of callers; locks, errors and crashes of all. *)
LEMMA CallerDeletesTidied ==
  ASSUME Shapes, Tidied, NEW p \in Callers, DeleteAccessor(p) \/ DeleteSecret(p)
  PROVE  Tidied'
<1>1. Shrinks /\ Then(p, <<>>) /\ UNCHANGED overlap
  <2>1. CASE DeleteAccessor(p)
    BY <2>1, AccessorShrinks DEF DeleteAccessor
  <2>2. CASE DeleteSecret(p)
    BY <2>2, SecretShrinks DEF DeleteSecret
  <2>3. QED BY <2>1, <2>2
<1>2. PICK w, H : Moved(p, w, H)
  BY <1>1, CallerIsProc, ThenRests, RestApart
<1>3. QED BY <1>1, <1>2, OtherTidied

LEMMA OwnTidied ==
  ASSUME Shapes, Tidied, NEW w, NEW H, Moved(Tidy, w, H), UNCHANGED overlap, Shrinks,
         overlap = {} => \A t \in StepsOf(w) :
           /\ t[1] \in {"tidy", "tidied"} => \E u \in Steps(Tidy) :
                /\ u[1] \in {"tidy", "tidied"} /\ u[2] = t[2] /\ u[3] = t[3]
                /\ \A k \in Key : k \in u[2] /\ secret'[k] # None /\ ToDo(k, Steps(Tidy)) =>
                     ToDo(k, StepsOf(w))
                /\ \A a \in Acc : a \in u[3] /\ accessor'[a] # None
                                  /\ ToFind(a, Steps(Tidy)) => ToFind(a, StepsOf(w))
           /\ t[1] = "tidy_rest" => Looked(t, StepsOf(w))
  PROVE  Tidied'
<1> SUFFICES ASSUME overlap = {}, NEW S, S = StepsOf(w), NEW t \in S
             PROVE  TidiedStep(t, S)'
  <2>1. Steps(Tidy)' = StepsOf(w)
    BY OwnSteps, TidyIsProc
  <2>2. QED BY <2>1 DEF Tidied, TidiedStep, Promised, Looked
<1>1. ASSUME t[1] \in {"tidy", "tidied"}
      PROVE  Promised(t, S)'
  <2>1. PICK u \in Steps(Tidy) :
           /\ u[1] \in {"tidy", "tidied"} /\ u[2] = t[2] /\ u[3] = t[3]
           /\ \A k \in Key : k \in u[2] /\ secret'[k] # None /\ ToDo(k, Steps(Tidy)) => ToDo(k, S)
           /\ \A a \in Acc : a \in u[3] /\ accessor'[a] # None
                             /\ ToFind(a, Steps(Tidy)) => ToFind(a, S)
    BY <1>1
  <2>2. Promised(u, Steps(Tidy))
    BY <2>1 DEF Tidied, TidiedStep
  <2>3. ASSUME NEW k \in t[2], secret'[k] # None
        PROVE  now' > secret'[k].exp /\ ToDo(k, S)
    <3>1. k \in Key /\ secret[k] # None /\ secret'[k].exp = secret[k].exp
      BY <2>1, <2>2, <2>3 DEF Shrinks, Promised
    <3>2. now > secret[k].exp /\ ToDo(k, Steps(Tidy)) /\ now' >= now
      BY <2>1, <2>2, <3>1, <2>3 DEF Shrinks, Promised
    <3>3. now \in Int /\ now' \in Int /\ secret[k].exp \in Int
      BY <3>1 DEF Shapes, EntriesTyped, SecretEntry, Shrinks
    <3>4. QED BY <2>1, <2>3, <3>1, <3>2, <3>3
  <2>4. ASSUME NEW a \in t[3]
        PROVE  /\ made'[a] # None /\ secret'[made'[a]] = None
               /\ accessor'[a] # None => ToFind(a, S)
    <3>1. a \in Acc /\ made[a] # None /\ secret[made[a]] = None
          /\ (accessor[a] # None => ToFind(a, Steps(Tidy)))
      BY <2>1, <2>2 DEF Promised
    <3>2. made[a] \in Key
      BY <3>1 DEF Shapes, HistoryTyped
    <3>3. QED BY <2>1, <2>4, <3>1, <3>2 DEF Shrinks
  <2>5. t[2] \subseteq Key /\ t[3] \subseteq Acc
    BY <2>1, <2>2 DEF Promised
  <2>6. QED BY <2>3, <2>4, <2>5 DEF Promised
<1>2. ASSUME t[1] = "tidy_rest"
      PROVE  Looked(t, S)'
  BY <1>2 DEF Looked, Shrinks
<1>3. QED BY <1>1, <1>2 DEF TidiedStep

(* Neither the promise nor what was found change. *)
LEMMA KeepTidied ==
  ASSUME Shapes, Tidied, NEW w, NEW H, Moved(Tidy, w, H), UNCHANGED overlap, Shrinks,
         \A t \in StepsOf(w) : t[1] \in {"tidy", "tidied", "tidy_rest"} => t \in Steps(Tidy),
         \A k \in Key : secret'[k] # None /\ ToDo(k, Steps(Tidy)) => ToDo(k, StepsOf(w)),
         \A a \in Acc : accessor'[a] # None /\ ToFind(a, Steps(Tidy)) => ToFind(a, StepsOf(w))
  PROVE  Tidied'
<1>1. ASSUME overlap = {}, NEW t \in StepsOf(w), t[1] = "tidy_rest"
      PROVE  Looked(t, StepsOf(w))
  <2>1. Looked(t, Steps(Tidy))
    BY <1>1 DEF Tidied, TidiedStep
  <2>2. QED BY <2>1 DEF Looked
<1>2. QED BY <1>1, OwnTidied

LEMMA LockTidied ==
  ASSUME Shapes, Tidied, NEW p \in Proc, Lock(p) \/ Unlock(p)
  PROVE  Tidied'
<1>1. UNCHANGED <<secret, accessor, made, overlap, now>>
  BY DEF Lock, Unlock, storage, history
<1> DEFINE w == Tail(work[p])
<1>2. \E H : Moved(p, w, H) /\ Chain(work[p])
  BY LockMoves, UnlockMoves DEF UnlockEffect, LockEffect
<1> DEFINE x == work[p][1]
<1>3. Steps(p) = {x} \cup StepsOf(w) /\ x[1] \in {"lock", "unlock"}
  BY <1>2 DEF Chain, Steps, Lock, Unlock, At
<1> HIDE DEF w, x
<1>4. CASE p = Tidy
  <2>1. \A k \in Key : ToDo(k, Steps(Tidy)) => ToDo(k, StepsOf(w))
    BY <1>3, <1>4 DEF ToDo
  <2>2. \A a \in Acc : ToFind(a, Steps(Tidy)) => ToFind(a, StepsOf(w))
    BY <1>3, <1>4 DEF ToFind
  <2>3. QED BY <1>1, <1>2, <1>3, <1>4, <2>1, <2>2, StillShrinks, KeepTidied
<1>5. CASE p # Tidy
  <2>1. p \in Callers
    BY <1>5 DEF Proc
  <2>2. QED BY <1>1, <1>2, <2>1, StillShrinks, OtherTidied
<1>6. QED BY <1>4, <1>5

LEMMA FailTidied ==
  ASSUME Shapes, Tidied, NEW p \in Proc, Fail(p)
  PROVE  Tidied'
<1>1. Moved(p, <<>>, {}) /\ UNCHANGED <<secret, accessor, made, overlap, now>>
  BY FailMoves DEF storage, history
<1>2. CASE p = Tidy
  <2>1. Steps(Tidy)' = {}
    BY <1>1, <1>2, OwnSteps, NoSteps
  <2>2. QED BY <2>1 DEF Tidied
<1>3. CASE p # Tidy
  <2>1. p \in Callers
    BY <1>3 DEF Proc
  <2>2. QED BY <1>1, <2>1, StillShrinks, OtherTidied
<1>4. QED BY <1>2, <1>3

(* What tidy does itself. *)
LEMMA TidyStartTidied ==
  ASSUME Shapes, Secrets, TidyStart
  PROVE  Tidied'
<1> DEFINE E == {k \in Stored : Expired(k)} O == {a \in Acc : Orphan(a)}
           x == <<"tidy", E, O>> w == <<x>>
<1>1. Request(Tidy, w) /\ x[1] = "tidy" /\ x[2] = E /\ x[3] = O
  BY DEF TidyStart
<1> HIDE DEF x
<1>2. StepsOf(w) = {x}
  BY Steps1
<1> HIDE DEF w
<1>3. UNCHANGED <<secret, accessor, made, overlap, now>>
  BY <1>1 DEF Request, storage, history
<1>4. Steps(Tidy)' = {x}
  BY <1>1, <1>2, RequestMoves, OwnSteps, TidyIsProc
<1>5. PICK t : t = x
  OBVIOUS
<1>6. \A k : ToDo(k, {t}) /\ ToFind(k, {t})
  BY <1>1, <1>5 DEF ToDo, ToFind
<1>7. Promised(t, {t})
  <2>1. E \subseteq Key /\ \A k \in E : secret[k] # None => now > secret[k].exp
    BY DEF Stored, Expired
  <2>2. \A a \in O : a \in Acc /\ made[a] # None /\ secret[made[a]] = None
    BY DEF Orphan, Secrets, MadeOK
  <2>3. QED BY <1>1, <1>5, <1>6, <2>1, <2>2 DEF Promised
<1>8. TidiedStep(t, {t})'
  BY <1>1, <1>3, <1>5, <1>7 DEF TidiedStep, Promised
<1>9. QED BY <1>4, <1>5, <1>8 DEF Tidied

LEMMA TidyListTidied ==
  ASSUME Shapes, Tidied, TidyList
  PROVE  Tidied'
<1>1. UNCHANGED overlap /\ Shrinks
  BY StillShrinks DEF TidyList, storage, history
<1>2. PICK E \in SUBSET Key, O \in SUBSET Acc, f \in Found, R \in SUBSET (1..MaxInc) :
        TidyListEffect(E, O, f, R)
  BY TidyListMoves
<1> USE DEF TidyListEffect
<1> DEFINE x == <<"cleanup", Stored>> y == <<"tidy_rest", f, {}, R>> z == <<"tidied", E, O>>
           u == <<"tidy", E, O>> w == <<x, y, z>>
<1>3. /\ x[1] = "cleanup" /\ x[2] = Stored /\ y[1] = "tidy_rest" /\ y[2] = f /\ y[3] = {}
      /\ z[1] = "tidied" /\ z[2] = E /\ z[3] = O /\ u[1] = "tidy" /\ u[2] = E /\ u[3] = O
      /\ Moved(Tidy, w, {}) /\ work[Tidy] = <<u>>
  BY <1>2
<1> HIDE DEF x, y, z, u
<1>4. StepsOf(w) = {x, y, z} /\ Steps(Tidy) = {u}
  BY <1>3, Steps1, Steps3 DEF Steps
<1> HIDE DEF w
<1>5. \A k \in Key : secret'[k] # None => ToDo(k, StepsOf(w))
  BY <1>1, <1>3, <1>4 DEF ToDo, Stored, Shrinks
<1>6. \A a \in Acc : accessor'[a] # None => ToFind(a, StepsOf(w))
  BY <1>1, <1>2, <1>3, <1>4 DEF ToFind, Shrinks
<1>7. Looked(y, StepsOf(w))
  BY <1>2, <1>3 DEF Looked
<1>8. QED BY <1>1, <1>3, <1>4, <1>5, <1>6, <1>7, OwnTidied

LEMMA TidyEachTidied ==
  ASSUME Shapes, Tidied, TidyEach
  PROVE  Tidied'
<1>1. UNCHANGED overlap /\ Shrinks
  BY StillShrinks DEF TidyEach, ForEach, storage, history
<1>3. PICK E \in SUBSET Key, O \in SUBSET Acc, f \in Found, K \in SUBSET Key, s \in SUBSET Acc, R \in SUBSET (1..MaxInc) :
        TidyEachEffect(E, O, f, K, s, R)
  BY TidyEachMoves
<1> USE DEF TidyEachEffect
<1> DEFINE x == <<"cleanup", K>> y == <<"tidy_rest", f, s, R>> z == <<"tidied", E, O>>
<1>4. /\ work[Tidy] = <<x, y, z>> /\ x[1] = "cleanup" /\ x[2] = K
      /\ y[1] = "tidy_rest" /\ z[1] = "tidied"
  BY <1>3
<1>5. CASE K = {} /\ Moved(Tidy, <<y, z>>, {})
  <2> HIDE DEF x, y, z
  <2> DEFINE w == <<y, z>>
  <2>1. StepsOf(w) = {y, z} /\ Steps(Tidy) = {x, y, z} /\ Moved(Tidy, w, {})
    BY <1>4, <1>5, Steps2, Steps3 DEF Steps
  <2> HIDE DEF w
  <2>2. \A k \in Key : ToDo(k, Steps(Tidy)) => ToDo(k, StepsOf(w))
    BY <1>4, <1>5, <2>1 DEF ToDo
  <2>3. \A a \in Acc : ToFind(a, Steps(Tidy)) => ToFind(a, StepsOf(w))
    BY <1>4, <2>1 DEF ToFind
  <2>4. QED BY <1>1, <1>4, <2>1, <2>2, <2>3, KeepTidied
<1>6. ASSUME NEW k \in K,
             Moved(Tidy, <<write(k), <<"tidy_secret", k>>, <<"unlock", k>>,
                           <<"cleanup", K \ {k}>>, y, z>>, {})
      PROVE  Tidied'
  <2> DEFINE a == write(k) b == <<"tidy_secret", k>> c == <<"unlock", k>>
             d == <<"cleanup", K \ {k}>>
  <2>1. /\ a[1] = "lock" /\ b[1] = "tidy_secret" /\ b[2] = k /\ c[1] = "unlock"
        /\ d[1] = "cleanup" /\ d[2] = K \ {k}
        /\ Moved(Tidy, <<a, b, c, d, y, z>>, {})
    BY <1>6 DEF write
  <2> HIDE DEF x, y, z, a, b, c, d
  <2> DEFINE w == <<a, b, c, d, y, z>>
  <2>2. StepsOf(w) = {a, b, c, d, y, z} /\ Steps(Tidy) = {x, y, z} /\ Moved(Tidy, w, {})
    BY <1>4, <2>1, Steps3, Steps6 DEF Steps
  <2> HIDE DEF w
  <2>3. \A j \in Key : ToDo(j, Steps(Tidy)) => ToDo(j, StepsOf(w))
    BY <1>4, <2>1, <2>2 DEF ToDo
  <2>4. \A j \in Acc : ToFind(j, Steps(Tidy)) => ToFind(j, StepsOf(w))
    BY <1>4, <2>1, <2>2 DEF ToFind
  <2>5. QED BY <1>1, <1>4, <2>1, <2>2, <2>3, <2>4, KeepTidied
<1>7. QED BY <1>3, <1>5, <1>6

LEMMA TidySecretTidied ==
  ASSUME Shapes, Secrets, Tidied, TidySecret
  PROVE  Tidied'
<1>1. UNCHANGED overlap /\ Shrinks
  BY StillShrinks DEF TidySecret, storage, history
<1>3. PICK E \in SUBSET Key, O \in SUBSET Acc, f \in Found, K \in SUBSET Key, s \in SUBSET Acc, R \in SUBSET (1..MaxInc), k \in Key :
        TidySecretEffect(E, O, f, K, s, R, k)
  BY TidySecretMoves
<1> USE DEF TidySecretEffect
<1> DEFINE g == <<"tidy_secret", k>> u == <<"unlock", k>> x == <<"cleanup", K>>
           y == <<"tidy_rest", f, s, R>> z == <<"tidied", E, O>>
           v == <<"tidy_rest", f, s \cup {secret[k].acc}, R>>
           d == <<"delete_secret", k>> e == <<"delete_accessor", secret[k].acc>>
<1>4. /\ work[Tidy] = <<g, u, x, y, z>>
      /\ g[1] = "tidy_secret" /\ g[2] = k /\ u[1] = "unlock" /\ x[1] = "cleanup"
      /\ z[1] = "tidied" /\ z[2] = E /\ z[3] = O
      /\ y[1] = "tidy_rest" /\ y[2] = f /\ y[3] = s
      /\ v[1] = "tidy_rest" /\ v[2] = f /\ v[3] = s \cup {secret[k].acc}
      /\ d[1] = "delete_secret" /\ d[2] = k /\ e[1] = "delete_accessor"
  BY <1>3
<1>5. \/ Moved(Tidy, <<>>, {})
      \/ Moved(Tidy, <<d, u, x, y, z>>, held[Tidy])
      \/ Moved(Tidy, <<e, d, u, x, y, z>>, held[Tidy])
      \/ /\ secret[k] # None /\ accessor[secret[k].acc] # None /\ ~Expired(k)
         /\ Moved(Tidy, <<u, x, v, z>>, held[Tidy])
  BY <1>3
<1> HIDE DEF g, u, x, y, z, v, d, e
<1>6. Steps(Tidy) = {g, u, x, y, z}
  BY <1>4, Steps5 DEF Steps
<1>7. CASE Moved(Tidy, <<>>, {})
  <2>1. Steps(Tidy)' = {}
    BY <1>7, OwnSteps, NoSteps, TidyIsProc
  <2>2. QED BY <2>1 DEF Tidied
<1>8. CASE Moved(Tidy, <<d, u, x, y, z>>, held[Tidy])
  <2> DEFINE w == <<d, u, x, y, z>>
  <2>1. StepsOf(w) = {d, u, x, y, z} /\ Moved(Tidy, w, held[Tidy])
    BY <1>8, Steps5
  <2> HIDE DEF w
  <2>2. \A j \in Key : ToDo(j, Steps(Tidy)) => ToDo(j, StepsOf(w))
    BY <1>4, <1>6, <2>1 DEF ToDo
  <2>3. \A a \in Acc : ToFind(a, Steps(Tidy)) => ToFind(a, StepsOf(w))
    BY <1>4, <1>6, <2>1 DEF ToFind
  <2>4. QED BY <1>1, <1>4, <1>6, <2>1, <2>2, <2>3, KeepTidied
<1>9. CASE Moved(Tidy, <<e, d, u, x, y, z>>, held[Tidy])
  <2> DEFINE w == <<e, d, u, x, y, z>>
  <2>1. StepsOf(w) = {e, d, u, x, y, z} /\ Moved(Tidy, w, held[Tidy])
    BY <1>9, Steps6
  <2> HIDE DEF w
  <2>2. \A j \in Key : ToDo(j, Steps(Tidy)) => ToDo(j, StepsOf(w))
    BY <1>4, <1>6, <2>1 DEF ToDo
  <2>3. \A a \in Acc : ToFind(a, Steps(Tidy)) => ToFind(a, StepsOf(w))
    BY <1>4, <1>6, <2>1 DEF ToFind
  <2>4. QED BY <1>1, <1>4, <1>6, <2>1, <2>2, <2>3, KeepTidied
<1>10. CASE /\ secret[k] # None /\ accessor[secret[k].acc] # None /\ ~Expired(k)
            /\ Moved(Tidy, <<u, x, v, z>>, held[Tidy])
  <2> DEFINE w == <<u, x, v, z>>
  <2>1. StepsOf(w) = {u, x, v, z} /\ Moved(Tidy, w, held[Tidy])
    BY <1>10, Steps4
  <2> HIDE DEF w
  <2>2. secret[k].acc \in Acc /\ made[secret[k].acc] = k
    BY <1>10 DEF Shapes, EntriesTyped, SecretEntry, Secrets, MadeOK
  <2>3. \A a \in Acc : ToFind(a, Steps(Tidy)) => ToFind(a, StepsOf(w))
    BY <1>4, <1>6, <2>1 DEF ToFind
  <2>4. \A j \in Key : j # k /\ ToDo(j, Steps(Tidy)) => ToDo(j, StepsOf(w))
    BY <1>4, <1>6, <2>1 DEF ToDo
  <2>5. ASSUME overlap = {}
        PROVE  k \notin E /\ Looked(v, StepsOf(w))
    <3>1. Promised(z, Steps(Tidy)) /\ Looked(y, Steps(Tidy))
      BY <1>4, <1>6, <2>5 DEF Tidied, TidiedStep
    <3>2. k \notin E
      BY <1>4, <1>10, <3>1 DEF Promised, Expired
    <3>3. secret[k].acc \notin O
      BY <1>4, <1>10, <2>2, <3>1 DEF Promised
    <3>4. secret[k].acc \in DOMAIN f
      BY <1>4, <1>10, <2>2, <3>1 DEF Looked
    <3>5. s \cap O = {} /\ s \subseteq DOMAIN f
          /\ \A a \in Acc : accessor[a] # None => a \in DOMAIN f
      BY <1>4, <1>6, <3>1 DEF Looked
    <3>6. \A t \in StepsOf(w) : t[1] = "tidied" => t[3] = O
      BY <1>4, <2>1
    <3>7. Looked(v, StepsOf(w))
      BY <1>4, <3>3, <3>4, <3>5, <3>6 DEF Looked
    <3>8. QED BY <3>2, <3>7
  <2>6. overlap = {} => \A t \in StepsOf(w) :
          /\ t[1] \in {"tidy", "tidied"} => \E h \in Steps(Tidy) :
               /\ h[1] \in {"tidy", "tidied"} /\ h[2] = t[2] /\ h[3] = t[3]
               /\ \A j \in Key : j \in h[2] /\ secret'[j] # None /\ ToDo(j, Steps(Tidy)) =>
                    ToDo(j, StepsOf(w))
               /\ \A a \in Acc : a \in h[3] /\ accessor'[a] # None
                                 /\ ToFind(a, Steps(Tidy)) => ToFind(a, StepsOf(w))
          /\ t[1] = "tidy_rest" => Looked(t, StepsOf(w))
    <3> SUFFICES ASSUME overlap = {}, NEW t \in StepsOf(w)
                 PROVE
          /\ t[1] \in {"tidy", "tidied"} => \E h \in Steps(Tidy) :
               /\ h[1] \in {"tidy", "tidied"} /\ h[2] = t[2] /\ h[3] = t[3]
               /\ \A j \in Key : j \in h[2] /\ secret'[j] # None /\ ToDo(j, Steps(Tidy)) =>
                    ToDo(j, StepsOf(w))
               /\ \A a \in Acc : a \in h[3] /\ accessor'[a] # None
                                 /\ ToFind(a, Steps(Tidy)) => ToFind(a, StepsOf(w))
          /\ t[1] = "tidy_rest" => Looked(t, StepsOf(w))
      OBVIOUS
    <3>1. CASE t = z
      BY <1>4, <1>6, <2>3, <2>4, <2>5, <3>1
    <3>2. CASE t = v
      BY <1>4, <2>5, <3>2
    <3>3. CASE t \in {u, x}
      BY <1>4, <3>3
    <3>4. QED BY <2>1, <3>1, <3>2, <3>3
  <2>7. QED BY <1>1, <2>1, <2>6, OwnTidied
<1>11. QED BY <1>5, <1>7, <1>8, <1>9, <1>10

LEMMA TidyRestTidied ==
  ASSUME Shapes, Secrets, Tidied, TidyRest
  PROVE  Tidied'
<1>1. UNCHANGED overlap /\ Shrinks
  BY StillShrinks DEF TidyRest, storage, history
<1>2. PICK E \in SUBSET Key, O \in SUBSET Acc, f \in Found, s \in SUBSET Acc, R \in SUBSET (1..MaxInc) :
        TidyRestEffect(E, O, f, s, R)
  BY TidyRestMoves
<1> USE DEF TidyRestEffect
<1> DEFINE y == <<"tidy_rest", f, s, R>> z == <<"tidied", E, O>>
<1>3. /\ work[Tidy] = <<y, z>> /\ z[1] = "tidied" /\ z[3] = O
      /\ y[1] = "tidy_rest" /\ y[2] = f /\ y[3] = s
  BY <1>2
<1>4. Steps(Tidy) = {y, z}
  <2> HIDE DEF y, z
  <2>1. QED BY <1>3, Steps2 DEF Steps
<1>5. ASSUME overlap = {}
      PROVE  /\ Promised(z, Steps(Tidy)) /\ s \cap O = {} /\ s \subseteq DOMAIN f
             /\ \A a \in Acc : accessor[a] # None => a \in DOMAIN f
  <2> HIDE DEF y, z
  <2>1. Promised(z, Steps(Tidy)) /\ Looked(y, Steps(Tidy))
    BY <1>3, <1>4, <1>5 DEF Tidied, TidiedStep
  <2>2. QED BY <1>3, <1>4, <2>1 DEF Looked
<1>6. CASE /\ Cardinality(DOMAIN f) <= Cardinality(s)
           /\ Moved(Tidy, <<z>>, {})
  <2>1. overlap = {} => s = DOMAIN f
    <3> HAVE overlap = {}
    <3>1. PICK D \in SUBSET Acc : f \in [D -> Key]
      BY DEF Found
    <3>2. D = DOMAIN f /\ s \in SUBSET D
      BY <1>5, <3>1
    <3>3. IsFiniteSet(Acc)
      BY BoundAssumption, FS_Interval DEF Acc
    <3>4. IsFiniteSet(D)
      BY <3>3, FS_Subset
    <3>5. Cardinality(s) <= Cardinality(D) /\ (Cardinality(D) = Cardinality(s) => D = s)
          /\ IsFiniteSet(s)
      BY <3>2, <3>4, FS_Subset
    <3>6. Cardinality(s) \in Nat /\ Cardinality(D) \in Nat
      BY <3>4, <3>5, FS_CardinalityType
    <3>7. QED BY <1>6, <3>2, <3>5, <3>6
  <2> HIDE DEF y, z
  <2> DEFINE w == <<z>>
  <2>2. StepsOf(w) = {z} /\ Moved(Tidy, w, {})
    BY <1>6, Steps1
  <2> HIDE DEF w
  <2>3. \A k \in Key : ToDo(k, Steps(Tidy)) => ToDo(k, StepsOf(w))
    BY <1>3, <1>4, <2>2 DEF ToDo
  <2>4. overlap = {} => \A a \in Acc : a \in O => accessor'[a] = None
    BY <1>1, <1>5, <2>1 DEF Shrinks
  <2>5. QED BY <1>1, <1>3, <1>4, <2>2, <2>3, <2>4, OwnTidied
<1>7. ASSUME NEW K \in SUBSET (DOMAIN f), K = Dangling(f, s, R),
             Moved(Tidy, <<<<"dangling", K, f>>, z>>, {})
      PROVE  Tidied'
  <2> DEFINE x == <<"dangling", K, f>>
  <2>1. x[1] = "dangling" /\ x[2] = K /\ Moved(Tidy, <<x, z>>, {}) /\ StepOK(y)
    <3>1. y \in Steps(Tidy)
      BY <1>4
    <3>2. QED BY <1>7, <3>1, TidyIsProc DEF Secrets
  <2>2. \A a \in DOMAIN f : f[a] = made[a]
    BY <1>3, <2>1 DEF StepOK
  <2> HIDE DEF x, y, z
  <2> DEFINE w == <<x, z>>
  <2>3. StepsOf(w) = {x, z} /\ Moved(Tidy, w, {})
    BY <2>1, Steps2
  <2> HIDE DEF w
  <2>4. \A k \in Key : ToDo(k, Steps(Tidy)) => ToDo(k, StepsOf(w))
    BY <1>3, <1>4, <2>3 DEF ToDo
  <2>5. ASSUME overlap = {}, NEW a \in Acc, a \in O, accessor'[a] # None
        PROVE  ToFind(a, StepsOf(w))
    <3>1. accessor[a] # None /\ a \in DOMAIN f /\ a \notin s
      BY <1>1, <1>5, <2>5 DEF Shrinks
    <3>2. secret[made[a]] = None
      BY <1>3, <1>5, <2>5 DEF Promised
    <3>3. a \in K
      BY <1>7, <2>2, <3>1, <3>2 DEF Dangling, Stored
    <3>4. QED BY <2>1, <2>3, <3>3 DEF ToFind
  <2>6. QED BY <1>1, <1>3, <1>4, <2>1, <2>3, <2>4, <2>5, OwnTidied
<1>8. QED BY <1>2, <1>6, <1>7

LEMMA TidyDanglingTidied ==
  ASSUME Shapes, Tidied, TidyDangling
  PROVE  Tidied'
<1>1. UNCHANGED overlap /\ Shrinks
  BY StillShrinks DEF TidyDangling, ForEach, storage, history
<1>3. PICK E \in SUBSET Key, O \in SUBSET Acc, f \in Found, K \in SUBSET Acc :
        TidyDanglingEffect(E, O, f, K)
  BY TidyDanglingMoves
<1> USE DEF TidyDanglingEffect
<1> DEFINE x == <<"dangling", K, f>> z == <<"tidied", E, O>>
<1>4. work[Tidy] = <<x, z>> /\ z[1] = "tidied" /\ x[1] = "dangling" /\ x[2] = K
  BY <1>3
<1>5. CASE K = {} /\ Moved(Tidy, <<z>>, {})
  <2> HIDE DEF x, z
  <2> DEFINE w == <<z>>
  <2>1. StepsOf(w) = {z} /\ Moved(Tidy, w, {}) /\ Steps(Tidy) = {x, z}
    BY <1>4, <1>5, Steps1, Steps2 DEF Steps
  <2> HIDE DEF w
  <2>2. \A k \in Key : ToDo(k, Steps(Tidy)) => ToDo(k, StepsOf(w))
    BY <1>4, <2>1 DEF ToDo
  <2>3. \A a \in Acc : ToFind(a, Steps(Tidy)) => ToFind(a, StepsOf(w))
    BY <1>4, <1>5, <2>1 DEF ToFind
  <2>4. QED BY <1>1, <1>4, <2>1, <2>2, <2>3, KeepTidied
<1>6. ASSUME NEW a \in K,
             Moved(Tidy, <<write(f[a]), <<"delete_accessor", a>>, <<"unlock", f[a]>>,
                           <<"dangling", K \ {a}, f>>, z>>, {})
      PROVE  Tidied'
  <2> DEFINE b == write(f[a]) d == <<"delete_accessor", a>> u == <<"unlock", f[a]>>
             y == <<"dangling", K \ {a}, f>>
  <2>1. /\ b[1] = "lock" /\ d[1] = "delete_accessor" /\ d[2] = a /\ u[1] = "unlock"
        /\ y[1] = "dangling" /\ y[2] = K \ {a}
        /\ Moved(Tidy, <<b, d, u, y, z>>, {})
    BY <1>6 DEF write
  <2> HIDE DEF b, d, u, x, y, z
  <2> DEFINE w == <<b, d, u, y, z>>
  <2>2. StepsOf(w) = {b, d, u, y, z} /\ Moved(Tidy, w, {}) /\ Steps(Tidy) = {x, z}
    BY <1>4, <2>1, Steps2, Steps5 DEF Steps
  <2> HIDE DEF w
  <2>3. \A k \in Key : ToDo(k, Steps(Tidy)) => ToDo(k, StepsOf(w))
    BY <1>4, <2>2 DEF ToDo
  <2>4. \A j \in Acc : ToFind(j, Steps(Tidy)) => ToFind(j, StepsOf(w))
    BY <1>4, <2>1, <2>2 DEF ToFind
  <2>5. QED BY <1>1, <1>4, <2>1, <2>2, <2>3, <2>4, KeepTidied
<1>7. QED BY <1>3, <1>5, <1>6

LEMMA TidyEndTidied ==
  ASSUME Shapes, TidyEnd
  PROVE  Tidied'
<1>1. Moved(Tidy, <<>>, {})
  BY TidyEndMoves
<1>2. Steps(Tidy)' = {}
  BY <1>1, OwnSteps, NoSteps, TidyIsProc
<1>3. QED BY <1>2 DEF Tidied

LEMMA TidyDeletesAccessor ==
  ASSUME Shapes, Tidied, DeleteAccessor(Tidy)
  PROVE  Tidied'
<1>1. UNCHANGED <<secret, made, now, overlap>>
  BY DEF DeleteAccessor
<1>2. PICK k \in Key, a \in Acc : TidyDeleteAccessorEffect(k, a)
  BY DeleteAccessorTidy
<1> USE DEF TidyDeleteAccessorEffect
<1>3. Shrinks
  BY <1>1, <1>2, AccessorShrinks
<1>4. accessor'[a] = None
  BY <1>2 DEF Shapes, EntriesTyped
<1> DEFINE d == <<"delete_accessor", a>> s == <<"delete_secret", k>> u == <<"unlock", k>>
<1>5. d[1] = "delete_accessor" /\ d[2] = a
  OBVIOUS
<1>6. ASSUME NEW w, Moved(Tidy, w, held[Tidy]), Steps(Tidy) = {d} \cup StepsOf(w)
      PROVE  Tidied'
  <2> HIDE DEF d
  <2>1. \A j \in Key : ToDo(j, Steps(Tidy)) => ToDo(j, StepsOf(w))
    BY <1>5, <1>6 DEF ToDo
  <2>2. \A b \in Acc : accessor'[b] # None /\ ToFind(b, Steps(Tidy)) => ToFind(b, StepsOf(w))
    BY <1>4, <1>5, <1>6 DEF ToFind
  <2>3. \A t \in StepsOf(w) : t \in Steps(Tidy)
    BY <1>6
  <2>4. QED BY <1>1, <1>3, <1>6, <2>1, <2>2, <2>3, KeepTidied
<1>7. ASSUME NEW w1, NEW w2, work[Tidy] = <<d, u, w1, w2>>,
             Moved(Tidy, <<u, w1, w2>>, held[Tidy])
      PROVE  Tidied'
  <2> HIDE DEF d, u
  <2>1. Steps(Tidy) = {d} \cup StepsOf(<<u, w1, w2>>)
    BY <1>7, Steps3, Steps4 DEF Steps
  <2>2. QED BY <1>6, <1>7, <2>1
<1>8. ASSUME NEW w1, NEW w2, NEW w3, work[Tidy] = <<d, s, u, w1, w2, w3>>,
             Moved(Tidy, <<s, u, w1, w2, w3>>, held[Tidy])
      PROVE  Tidied'
  <2> HIDE DEF d, s, u
  <2>1. Steps(Tidy) = {d} \cup StepsOf(<<s, u, w1, w2, w3>>)
    BY <1>8, Steps5, Steps6 DEF Steps
  <2>2. QED BY <1>6, <1>8, <2>1
<1>9. QED BY <1>2, <1>7, <1>8

LEMMA TidyDeletesSecret ==
  ASSUME Shapes, Tidied, DeleteSecret(Tidy)
  PROVE  Tidied'
<1>1. UNCHANGED <<accessor, made, now, overlap>>
  BY DEF DeleteSecret
<1>2. PICK k, w1, w2, w3 : TidyDeleteSecretEffect(k, w1, w2, w3)
  BY DeleteSecretTidy
<1> USE DEF TidyDeleteSecretEffect
<1>3. Shrinks
  BY <1>1, <1>2, SecretShrinks
<1>4. secret'[k] = None
  BY <1>2 DEF Shapes, EntriesTyped
<1> DEFINE d == <<"delete_secret", k>> u == <<"unlock", k>> w == <<u, w1, w2, w3>>
<1>5. d[1] = "delete_secret" /\ d[2] = k /\ work[Tidy] = <<d, u, w1, w2, w3>>
      /\ Moved(Tidy, w, held[Tidy])
  BY <1>2
<1> HIDE DEF d, u
<1>6. Steps(Tidy) = {d} \cup StepsOf(w)
  BY <1>5, Steps4, Steps5 DEF Steps
<1> HIDE DEF w
<1>7. \A j \in Key : secret'[j] # None /\ ToDo(j, Steps(Tidy)) => ToDo(j, StepsOf(w))
  BY <1>4, <1>5, <1>6 DEF ToDo
<1>8. \A b \in Acc : ToFind(b, Steps(Tidy)) => ToFind(b, StepsOf(w))
  BY <1>5, <1>6 DEF ToFind
<1>9. \A t \in StepsOf(w) : t \in Steps(Tidy)
  BY <1>6
<1>10. QED BY <1>1, <1>3, <1>5, <1>7, <1>8, <1>9, KeepTidied

LEMMA StillTidied ==
  ASSUME Shapes, Tidied, Tick \/ UNCHANGED vars
  PROVE  Tidied'
<1>1. UNCHANGED <<secret, accessor, made, overlap, work>> /\ (now' = now + 1 \/ now' = now)
  BY DEF Tick, vars, storage, history
<1>2. Shrinks
  BY <1>1 DEF Shrinks, Shapes, EntriesTyped
<1>3. Steps(Tidy)' = Steps(Tidy)
  BY <1>1 DEF Steps
<1>4. QED BY <1>1, <1>2, <1>3, ShrinksTidied

LEMMA NextTidiedKept ==
  ASSUME Shapes, Secrets, Tidied, [Next]_vars
  PROVE  Tidied'
<1>1. CASE \E p \in Callers : Requests(p)
  BY <1>1, QuietTidied
<1>2. CASE \E p \in Callers : RoleStep(p)
  BY <1>2, QuietTidied
<1>3. CASE \E p \in Callers : SecretStep(p)
  BY <1>3, QuietTidied, RegisterEntryTidied, PutSecretTidied DEF SecretStep, Looking, LoggingIn
<1>4. CASE TidyStart \/ TidyList \/ TidyEach \/ TidySecret
  BY <1>4, TidyStartTidied, TidyListTidied, TidyEachTidied, TidySecretTidied
<1>5. CASE TidyRest \/ TidyDangling \/ TidyEnd
  BY <1>5, TidyRestTidied, TidyDanglingTidied, TidyEndTidied
<1>6. ASSUME NEW p \in Proc, Step(p)
      PROVE  Tidied'
  <2>1. CASE Lock(p) \/ Unlock(p) \/ Fail(p)
    BY <2>1, LockTidied, FailTidied
  <2>2. CASE DeleteAccessor(p) \/ DeleteSecret(p)
    <3>1. CASE p = Tidy
      BY <2>2, <3>1, TidyDeletesAccessor, TidyDeletesSecret
    <3>2. CASE p # Tidy
      <4>1. p \in Callers
        BY <3>2 DEF Proc
      <4>2. QED BY <2>2, <4>1, CallerDeletesTidied
    <3>3. QED BY <3>1, <3>2
  <2>3. QED BY <1>6, <2>1, <2>2 DEF Step
<1>7. CASE Crash
  <2>1. work' = [p \in Proc |-> <<>>]
    BY <1>7 DEF Crash
  <2>2. Steps(Tidy)' = {}
    BY <2>1, TidyIsProc DEF Steps, StepsOf
  <2>3. QED BY <2>2 DEF Tidied
<1>8. CASE Tick \/ UNCHANGED vars
  BY <1>8, StillTidied
<1>9. QED BY <1>1, <1>2, <1>3, <1>4, <1>5, <1>6, <1>7, <1>8 DEF Next, Requests

LEMMA TidiedHold == Spec => []Tidied
<1>1. Init => Tidied
  <2> SUFFICES ASSUME Init PROVE Tidied
    OBVIOUS
  <2>1. Steps(Tidy) = {}
    BY TidyIsProc DEF Init, Steps, StepsOf
  <2>2. QED BY <2>1 DEF Tidied
<1>2. Shapes /\ Secrets /\ Tidied /\ [Next]_vars => Tidied'
  BY NextTidiedKept
<1>3. QED BY <1>1, <1>2, ShapesHold, SecretsHold, PTL DEF Spec

(* A tidying that comes to its end has removed what was expired, and the    *)
(* accessors that stood for nothing, when it began, if nothing was          *)
(* registered meanwhile: what it skips it counts, and as it skips only what *)
(* it found, an equal count means that nothing is left to look for          *)
(* (path_tidy_secret_id.rs, tidy_secret_id_routine).                        *)
THEOREM TidyCollectsHolds == Spec => []TidyCollects
<1>1. Shapes /\ Tidied => TidyCollects
  <2> SUFFICES ASSUME Shapes, Tidied, At(Tidy, "tidied"), overlap = {}
               PROVE  /\ \A k \in Arg(Tidy, 2) : ~Expired(k)
                      /\ \A a \in Arg(Tidy, 3) : ~Orphan(a)
    BY DEF TidyCollects
  <2>1. PICK E \in SUBSET Key, O \in SUBSET Acc : work[Tidy] = <<<<"tidied", E, O>>>>
    BY AtTidy DEF TidyBody, At
  <2> DEFINE x == <<"tidied", E, O>>
  <2>2. x[1] = "tidied" /\ x[2] = E /\ x[3] = O /\ work[Tidy] = <<x>>
    BY <2>1
  <2> HIDE DEF x
  <2>3. Steps(Tidy) = {x} /\ Arg(Tidy, 2) = E /\ Arg(Tidy, 3) = O
    BY <2>2, Steps1 DEF Steps, Arg
  <2>4. Promised(x, {x})
    BY <2>2, <2>3 DEF Tidied, TidiedStep
  <2>5. \A k : ~ToDo(k, {x}) /\ ~ToFind(k, {x})
    BY <2>2 DEF ToDo, ToFind
  <2>6. QED BY <2>2, <2>3, <2>4, <2>5 DEF Promised, Expired, Orphan
<1>2. QED BY <1>1, ShapesHold, TidiedHold, PTL

=============================================================================
