--------------------------- MODULE RvSeal_proofs ---------------------------
(* Proofs about RvSeal: the layers of RvSealInvariant, one after another.   *)
(* XMoves says what action X does to the task that takes it; XKeys, XTracks *)
(* and XRecovers that X keeps a layer, NextKeys, NextTracks and             *)
(* NextRecovers that every step does; the theorems follow from the layers.  *)
(* do_unseal and seal take no lock, so the theorems are for one task that   *)
(* unseals and, for StateTracksBarrier, one that seals.                     *)
EXTENDS RvSealInvariant, FiniteSetTheorems, SequenceTheorems, TLAPS


-----------------------------------------------------------------------------
(* Sequences.                                                               *)

LEMMA IsSeqOf ==
  ASSUME NEW S, NEW w \in Seq(S)
  PROVE  IsSeq(w)
<1> DEFINE R == {w[i] : i \in DOMAIN w}
<1>1. Len(w) \in Nat /\ DOMAIN w = 1..Len(w) /\ w = [i \in 1..Len(w) |-> w[i]]
  BY LenProperties, Zenon
<1>2. \A i \in 1..Len(w) : w[i] \in R
  BY <1>1
<1> HIDE DEF R
<1>3. [i \in 1..Len(w) |-> w[i]] \in Seq(R)
  BY <1>1, <1>2, IsASeq
<1>4. QED
  BY <1>1, <1>3 DEF IsSeq, R

LEMMA SeqFacts ==
  ASSUME NEW w, IsSeq(w)
  PROVE  Len(w) \in Nat /\ DOMAIN w = 1..Len(w) /\ (w # <<>> <=> Len(w) > 0)
<1> DEFINE S == {w[i] : i \in DOMAIN w}
<1>1. w \in Seq(S)
  BY DEF IsSeq
<1> HIDE DEF S
<1>2. Len(w) \in Nat /\ DOMAIN w = 1..Len(w)
  BY <1>1, LenProperties
<1>3. Len(w) = 0 <=> w = <<>>
  BY <1>1, EmptySeq
<1>4. QED
  BY <1>2, <1>3

LEMMA TailFacts ==
  ASSUME NEW w, IsSeq(w), w # <<>>
  PROVE  /\ IsSeq(Tail(w)) /\ Len(Tail(w)) = Len(w) - 1
         /\ \A i \in 1..Len(Tail(w)) : Tail(w)[i] = w[i + 1]
         /\ Head(w) = w[1]
<1> DEFINE S == {w[i] : i \in DOMAIN w}
<1>1. w \in Seq(S)
  BY DEF IsSeq
<1> HIDE DEF S
<1>2. Tail(w) \in Seq(S)
  BY <1>1, HeadTailProperties
<1>3. IsSeq(Tail(w))
  BY <1>2, IsSeqOf
<1>4. Len(Tail(w)) = Len(w) - 1 /\ \A i \in 1..Len(Tail(w)) : Tail(w)[i] = w[i + 1]
  BY <1>1, HeadTailProperties
<1>5. Head(w) = w[1]
  BY <1>1
<1>6. QED
  BY <1>3, <1>4, <1>5

LEMMA CatFacts ==
  ASSUME NEW s, NEW t, IsSeq(s), IsSeq(t)
  PROVE  /\ IsSeq(s \o t) /\ Len(s \o t) = Len(s) + Len(t)
         /\ \A i \in 1..Len(s \o t) :
              (s \o t)[i] = IF i <= Len(s) THEN s[i] ELSE t[i - Len(s)]
<1> DEFINE S == {s[i] : i \in DOMAIN s} U == {t[i] : i \in DOMAIN t} R == S \cup U
<1>1. s \in Seq(S) /\ t \in Seq(U)
  BY DEF IsSeq
<1>2. S \subseteq R /\ U \subseteq R
  OBVIOUS
<1> HIDE DEF S, U, R
<1>3. s \in Seq(R) /\ t \in Seq(R)
  BY <1>1, <1>2, SeqMonotonic
<1>4. s \o t \in Seq(R) /\ Len(s \o t) = Len(s) + Len(t)
      /\ \A i \in 1..Len(s) + Len(t) : (s \o t)[i] = IF i <= Len(s) THEN s[i] ELSE t[i - Len(s)]
  BY <1>3, ConcatProperties
<1>5. IsSeq(s \o t)
  BY <1>4, IsSeqOf
<1>6. QED
  BY <1>4, <1>5

LEMMA SameSeq ==
  ASSUME NEW s, NEW t, IsSeq(s), IsSeq(t), Len(s) = Len(t),
         \A i \in 1..Len(s) : s[i] = t[i]
  PROVE  s = t
<1> DEFINE S == {s[i] : i \in DOMAIN s}
<1>1. s \in Seq(S)
  BY DEF IsSeq
<1>2. S = {t[i] : i \in DOMAIN t}
  BY SeqFacts
<1>3. t \in Seq(S)
  BY <1>2 DEF IsSeq
<1> HIDE DEF S
<1>4. QED
  BY <1>1, <1>3, SeqEqual

LEMMA CatEmpty ==
  ASSUME NEW t, IsSeq(t)
  PROVE  <<>> \o t = t
<1>1. IsSeq(<<>>)
  BY DEF IsSeq
<1>2. QED
  BY <1>1, CatFacts, SameSeq, SeqFacts

LEMMA Cat11 ==
  ASSUME NEW x, NEW y
  PROVE  <<x>> \o <<y>> = <<x, y>>
<1> DEFINE a == <<x>> b == <<y>> c == <<x, y>>
<1>1. IsSeq(a) /\ IsSeq(b) /\ IsSeq(c)
  BY IsSeqOf DEF IsSeq
<1>2. Len(a) = 1 /\ Len(b) = 1 /\ Len(c) = 2 /\ a[1] = x /\ b[1] = y /\ c[1] = x /\ c[2] = y
  OBVIOUS
<1> HIDE DEF a, b, c
<1>3. IsSeq(a \o b) /\ Len(a \o b) = 2
      /\ \A i \in 1..2 : (a \o b)[i] = IF i <= 1 THEN a[i] ELSE b[i - 1]
  BY <1>1, <1>2, CatFacts
<1>4. (a \o b)[1] = c[1] /\ (a \o b)[2] = c[2]
  BY <1>2, <1>3
<1> DEFINE d == a \o b
<1> HIDE DEF d
<1>5. d = c
  <2>1. \A i \in 1..2 : i = 1 \/ i = 2
    OBVIOUS
  <2>2. \A i \in 1..2 : d[i] = c[i]
    BY <1>4, <2>1 DEF d
  <2>3. IsSeq(d) /\ Len(d) = 2
    BY <1>3 DEF d
  <2>4. QED
    BY <1>1, <1>2, <2>2, <2>3, SameSeq
<1>6. QED
  BY <1>5 DEF a, b, c, d

-----------------------------------------------------------------------------
(* The steps of a task.                                                     *)

LEMMA PartTail ==
  ASSUME NEW v, NEW p, NEW w, Part(v, p, w), w # <<>>
  PROVE  Part(v, p, Tail(w))
<1>1. IsSeq(w)
  BY DEF Part
<1>2. Len(w) \in Nat /\ DOMAIN w = 1..Len(w) /\ Len(w) > 0
  BY <1>1, SeqFacts
<1>3. IsSeq(Tail(w)) /\ Len(Tail(w)) = Len(w) - 1
      /\ \A i \in 1..Len(Tail(w)) : Tail(w)[i] = w[i + 1]
  BY <1>1, TailFacts
<1>4. DOMAIN Tail(w) = 1..Len(w) - 1
  BY <1>3, SeqFacts
<1>5. \A i \in DOMAIN Tail(w) : i + 1 \in DOMAIN w /\ Tail(w)[i] = w[i + 1]
  BY <1>2, <1>3, <1>4
<1>6. Linked(Tail(w))
  <2> SUFFICES ASSUME NEW i \in DOMAIN Tail(w), NEW j \in DOMAIN Tail(w), j = i + 1
               PROVE  Follows(Tail(w)[i], Tail(w)[j])
    BY DEF Linked
  <2>1. Follows(w[i + 1], w[j + 1])
    BY <1>5, <1>2, <1>4 DEF Part, Linked
  <2>2. QED
    BY <2>1, <1>5
<1>7. QED
  BY <1>3, <1>5, <1>6 DEF Part

LEMMA PartCat ==
  ASSUME NEW v, NEW p, NEW s, NEW t, Part(v, p, s), Part(v, p, t),
         s # <<>> /\ t # <<>> => Follows(s[Len(s)], t[1])
  PROVE  Part(v, p, s \o t)
<1>1. IsSeq(s) /\ IsSeq(t)
  BY DEF Part
<1> DEFINE u == s \o t
<1>2. IsSeq(u) /\ Len(u) = Len(s) + Len(t)
      /\ \A i \in 1..Len(u) : u[i] = IF i <= Len(s) THEN s[i] ELSE t[i - Len(s)]
  BY <1>1, CatFacts
<1>3. /\ Len(s) \in Nat /\ DOMAIN s = 1..Len(s)
      /\ Len(t) \in Nat /\ DOMAIN t = 1..Len(t)
      /\ DOMAIN u = 1..Len(u)
      /\ (s # <<>> <=> Len(s) > 0) /\ (t # <<>> <=> Len(t) > 0)
  BY <1>1, <1>2, SeqFacts
<1> HIDE DEF u
<1>4. \A i \in DOMAIN u : \/ i \in DOMAIN s /\ u[i] = s[i]
                          \/ i - Len(s) \in DOMAIN t /\ u[i] = t[i - Len(s)]
  <2> SUFFICES ASSUME NEW i \in DOMAIN u
               PROVE  \/ i \in DOMAIN s /\ u[i] = s[i]
                      \/ i - Len(s) \in DOMAIN t /\ u[i] = t[i - Len(s)]
    OBVIOUS
  <2>1. i \in 1..Len(s) + Len(t)
    BY <1>2, <1>3
  <2>2. CASE i <= Len(s)
    BY <2>1, <2>2, <1>2, <1>3
  <2>3. CASE ~(i <= Len(s))
    <3>1. i - Len(s) \in 1..Len(t)
      BY <2>1, <2>3, <1>3
    <3>2. u[i] = t[i - Len(s)]
      BY <2>3, <1>2, <1>3
    <3>3. QED
      BY <3>1, <3>2, <1>3
  <2>4. QED
    BY <2>2, <2>3
<1>5. \A i \in DOMAIN u : u[i][1] \in Ops(p) /\ Proper(v, u[i])
  <2>1. \A i \in DOMAIN s : s[i][1] \in Ops(p) /\ Proper(v, s[i])
    BY DEF Part
  <2>2. \A i \in DOMAIN t : t[i][1] \in Ops(p) /\ Proper(v, t[i])
    BY DEF Part
  <2>3. QED
    BY <2>1, <2>2, <1>4
<1>6. Linked(u)
  <2> SUFFICES ASSUME NEW i \in DOMAIN u, NEW j \in DOMAIN u, j = i + 1
               PROVE  Follows(u[i], u[j])
    BY DEF Linked
  <2>1. CASE j <= Len(s)
    <3>1. i \in DOMAIN s /\ j \in DOMAIN s /\ u[i] = s[i] /\ u[j] = s[j]
      BY <2>1, <1>2, <1>3
    <3>2. QED
      BY <3>1 DEF Part, Linked
  <2>2. CASE i > Len(s)
    <3>1. i - Len(s) \in DOMAIN t /\ j - Len(s) \in DOMAIN t /\ j - Len(s) = (i - Len(s)) + 1
          /\ u[i] = t[i - Len(s)] /\ u[j] = t[j - Len(s)]
      BY <2>2, <1>2, <1>3
    <3>2. QED
      BY <3>1 DEF Part, Linked
  <2>3. CASE i = Len(s)
    <3>1. u[i] = s[Len(s)] /\ u[j] = t[1] /\ s # <<>> /\ t # <<>>
      BY <2>3, <1>2, <1>3
    <3>2. QED
      BY <3>1
  <2>4. QED
    BY <2>1, <2>2, <2>3, <1>3
<1>7. QED
  BY <1>2, <1>5, <1>6 DEF Part, u

LEMMA CatEnds ==
  ASSUME NEW s, NEW t, IsSeq(s), IsSeq(t)
  PROVE  /\ s # <<>> => (s \o t)[1] = s[1]
         /\ s # <<>> /\ t # <<>> => (s \o t)[Len(s \o t)] = t[Len(t)]
         /\ s # <<>> /\ t = <<>> => (s \o t)[Len(s \o t)] = s[Len(s)]
         /\ s = <<>> => s \o t = t
         /\ s # <<>> => s \o t # <<>>
<1> DEFINE u == s \o t
<1>1. IsSeq(u) /\ Len(u) = Len(s) + Len(t)
      /\ \A i \in 1..Len(u) : u[i] = IF i <= Len(s) THEN s[i] ELSE t[i - Len(s)]
  BY CatFacts
<1>2. /\ Len(s) \in Nat /\ Len(t) \in Nat
      /\ (s # <<>> <=> Len(s) > 0) /\ (t # <<>> <=> Len(t) > 0) /\ (u # <<>> <=> Len(u) > 0)
  BY <1>1, SeqFacts
<1>3. s = <<>> => u = t
  BY CatEmpty
<1> HIDE DEF u
<1>4. s # <<>> => u[1] = s[1] /\ u # <<>>
  BY <1>1, <1>2
<1>5. s # <<>> /\ t # <<>> => u[Len(u)] = t[Len(t)]
  <2> SUFFICES ASSUME s # <<>>, t # <<>> PROVE u[Len(u)] = t[Len(t)]
    OBVIOUS
  <2>1. Len(u) \in 1..Len(u) /\ ~(Len(u) <= Len(s)) /\ Len(u) - Len(s) = Len(t)
    BY <1>1, <1>2
  <2>2. QED
    BY <1>1, <2>1
<1>6. s # <<>> /\ t = <<>> => u[Len(u)] = s[Len(s)]
  <2> SUFFICES ASSUME s # <<>>, t = <<>> PROVE u[Len(u)] = s[Len(s)]
    OBVIOUS
  <2>1. Len(t) = 0
    OBVIOUS
  <2>2. Len(u) \in 1..Len(u) /\ Len(u) = Len(s)
    BY <1>1, <1>2, <2>1
  <2>3. QED
    BY <1>1, <2>2
<1>7. QED
  BY <1>3, <1>4, <1>5, <1>6 DEF u

LEMMA FitsEmpty ==
  ASSUME NEW v, NEW p
  PROVE  Fits(v, p, <<>>)
  BY DEF Fits, Part, IsSeq, Linked

LEMMA FitsTail ==
  ASSUME NEW v, NEW p, NEW w, Fits(v, p, w), w # <<>>
  PROVE  /\ Fits(v, p, Tail(w))
         /\ Tail(w) = <<>> => Ends(w[1])
         /\ Tail(w) # <<>> => Follows(w[1], Tail(w)[1])
<1>1. IsSeq(w) /\ Linked(w) /\ Ends(w[Len(w)])
  BY DEF Fits, Part
<1>2. Len(w) \in Nat /\ DOMAIN w = 1..Len(w) /\ Len(w) > 0
  BY <1>1, SeqFacts
<1> DEFINE t == Tail(w)
<1>3. IsSeq(t) /\ Len(t) = Len(w) - 1 /\ \A i \in 1..Len(t) : t[i] = w[i + 1]
  BY <1>1, TailFacts
<1>4. Part(v, p, t)
  BY PartTail DEF Fits
<1> HIDE DEF t
<1>5. Len(t) \in Nat /\ (t # <<>> <=> Len(t) > 0)
  BY <1>3, SeqFacts
<1>6. ASSUME t # <<>> PROVE t[Len(t)] = w[Len(w)] /\ t[1] = w[2] /\ 1 \in DOMAIN w /\ 2 \in DOMAIN w
  <2>1. Len(t) \in 1..Len(t) /\ 1 \in 1..Len(t) /\ Len(t) + 1 = Len(w) /\ 1 + 1 = 2
    BY <1>2, <1>3, <1>5, <1>6
  <2>2. t[Len(t)] = w[Len(w)] /\ t[1] = w[2]
    BY <2>1, <1>3
  <2>3. QED
    BY <2>1, <2>2, <1>2
<1>7. t = <<>> => Len(w) = 1
  BY <1>2, <1>3, <1>5
<1>8. t # <<>> => Follows(w[1], t[1])
  <2> SUFFICES ASSUME t # <<>> PROVE Follows(w[1], t[1])
    OBVIOUS
  <2>1. 1 \in DOMAIN w /\ 2 \in DOMAIN w /\ 2 = 1 + 1 /\ t[1] = w[2]
    BY <1>6
  <2>2. QED
    BY <2>1, <1>1 DEF Linked
<1>9. t # <<>> => Ends(t[Len(t)])
  BY <1>1, <1>6
<1>10. Fits(v, p, t)
  BY <1>4, <1>9 DEF Fits
<1>11. QED
  BY <1>1, <1>7, <1>8, <1>10 DEF t

LEMMA FitsMore ==
  ASSUME NEW v, NEW p, NEW s, NEW t, Part(v, p, s), s # <<>>, Fits(v, p, t),
         t # <<>> => Follows(s[Len(s)], t[1]), t = <<>> => Ends(s[Len(s)])
  PROVE  Fits(v, p, s \o t) /\ s \o t # <<>> /\ (s \o t)[1] = s[1]
<1>1. Part(v, p, s \o t)
  BY PartCat DEF Fits
<1>2. IsSeq(s) /\ IsSeq(t)
  BY DEF Fits, Part
<1>3. QED
  BY <1>1, <1>2, CatEnds DEF Fits

LEMMA Part1 ==
  ASSUME NEW v, NEW p, NEW x, x[1] \in Ops(p), Proper(v, x)
  PROVE  Part(v, p, <<x>>) /\ <<x>> # <<>> /\ Len(<<x>>) = 1 /\ <<x>>[1] = x
<1>1. IsSeq(<<x>>)
  BY DEF IsSeq
<1>2. Linked(<<x>>)
  BY DEF Linked
<1>3. QED
  BY <1>1, <1>2 DEF Part

LEMMA Part2 ==
  ASSUME NEW v, NEW p, NEW x, x[1] \in Ops(p), Proper(v, x),
         NEW y, y[1] \in Ops(p), Proper(v, y), Follows(x, y)
  PROVE  /\ Part(v, p, <<x, y>>) /\ <<x, y>> # <<>>
         /\ Len(<<x, y>>) = 2 /\ <<x, y>>[1] = x /\ <<x, y>>[2] = y
<1>1. IsSeq(<<x, y>>)
  BY IsSeqOf DEF IsSeq
<1>2. Linked(<<x, y>>)
  BY DEF Linked
<1>3. QED
  BY <1>1, <1>2 DEF Part

LEMMA FitsAlone ==
  ASSUME NEW v, NEW p, NEW x, x[1] \in Ops(p), Proper(v, x), Ends(x)
  PROVE  Fits(v, p, <<x>>) /\ <<x>> # <<>> /\ <<x>>[1] = x
  BY Part1 DEF Fits

(* What a task has to do stays right when the shares it knows of stay.      *)
Grows(v, w) ==
  /\ w.recordKey = v.recordKey /\ (v.recordKey = 0 => w.gen = v.gen)
  /\ v.handed \subseteq w.handed /\ w.deprecated = v.deprecated
  /\ v.blind => w.blind

LEMMA ProperGrows ==
  ASSUME NEW v, NEW w, Grows(v, w), NEW x, Proper(v, x)
  PROVE  Proper(w, x)
  BY DEF Proper, Grows, Copy, Fresh

LEMMA FitsGrows ==
  ASSUME NEW v, NEW w, Grows(v, w), NEW p, NEW t, Fits(v, p, t)
  PROVE  Fits(w, p, t)
  BY ProperGrows DEF Fits, Part

-----------------------------------------------------------------------------
(* What an action does to the task that takes it.                           *)

Turn(p, w) == work'[p] = w /\ \A q \in Proc : q # p => work'[q] = work[q]

LEMMA TurnTasks ==
  ASSUME Tasks, NEW p \in Proc, NEW w, work' = [work EXCEPT ![p] = w],
         NEW v, v = View', Grows(View, v), Fits(v, p, w)
  PROVE  Tasks' /\ Turn(p, w)
<1>1. work = [q \in Proc |-> work[q]]
  BY DEF Tasks
<1>2. Turn(p, w)
  BY <1>1 DEF Turn
<1>3. work' = [q \in Proc |-> work'[q]]
  BY <1>1
<1>4. \A q \in Proc : Fits(v, q, work'[q])
  <2> SUFFICES ASSUME NEW q \in Proc PROVE Fits(v, q, work'[q])
    OBVIOUS
  <2>1. CASE q = p
    BY <2>1, <1>2 DEF Turn
  <2>2. CASE q # p
    <3>1. Fits(View, q, work[q])
      BY DEF Tasks
    <3>2. QED
      BY <3>1, <2>2, <1>2, FitsGrows DEF Turn
  <2>3. QED
    BY <2>1, <2>2
<1>5. QED
  BY <1>2, <1>3, <1>4 DEF Tasks

(* p is at op.                                                              *)
LEMMA AtFacts ==
  ASSUME Tasks, NEW p \in Proc, NEW op, At(p, op)
  PROVE  /\ work[p] # <<>> /\ work[p][1][1] = op /\ Head(work[p]) = work[p][1]
         /\ op \in Ops(p) /\ Proper(View, work[p][1]) /\ Fits(View, p, work[p])
         /\ IsSeq(Tail(work[p]))
<1>1. Fits(View, p, work[p]) /\ work[p] # <<>>
  BY DEF Tasks, At
<1>2. IsSeq(work[p])
  BY <1>1 DEF Fits, Part
<1>3. Head(work[p]) = work[p][1] /\ 1 \in DOMAIN work[p] /\ IsSeq(Tail(work[p]))
  BY <1>1, <1>2, SeqFacts, TailFacts
<1>4. work[p][1][1] = op
  BY <1>3 DEF At
<1>5. QED
  BY <1>1, <1>3, <1>4 DEF Fits, Part

(* A task that has nothing to do any more,                                  *)
LEMMA Refuses ==
  ASSUME Tasks, NEW p \in Proc, Refuse(p), Grows(View, View')
  PROVE  Tasks' /\ Turn(p, <<>>)
<1>1. Fits(View', p, <<>>)
  BY FitsEmpty
<1>2. QED
  BY <1>1, TurnTasks DEF Refuse

(* one that goes on,                                                        *)
LEMMA GoesOn ==
  ASSUME Tasks, NEW p \in Proc, work[p] # <<>>, Then(p, <<>>), Grows(View, View')
  PROVE  /\ Tasks' /\ Turn(p, Tail(work[p]))
         /\ Tail(work[p]) = <<>> => Ends(work[p][1])
         /\ Tail(work[p]) # <<>> => Follows(work[p][1], Tail(work[p])[1])
<1>1. Fits(View, p, work[p])
  BY DEF Tasks
<1>2. /\ Fits(View, p, Tail(work[p]))
      /\ Tail(work[p]) = <<>> => Ends(work[p][1])
      /\ Tail(work[p]) # <<>> => Follows(work[p][1], Tail(work[p])[1])
  BY <1>1, FitsTail
<1>3. Fits(View', p, Tail(work[p]))
  BY <1>2, FitsGrows
<1>4. IsSeq(Tail(work[p]))
  BY <1>2 DEF Fits, Part
<1>5. <<>> \o Tail(work[p]) = Tail(work[p])
  BY <1>4, CatEmpty
<1>6. work' = [work EXCEPT ![p] = Tail(work[p])]
  BY <1>5 DEF Then
<1>7. Tasks' /\ Turn(p, Tail(work[p]))
  BY <1>3, <1>6, TurnTasks
<1>8. QED
  BY <1>2, <1>7

(* and one that has more to do.                                             *)
LEMMA DoesMore ==
  ASSUME Tasks, NEW p \in Proc, work[p] # <<>>, NEW s, Then(p, s), Grows(View, View'),
         Part(View', p, s), s # <<>>,
         Tail(work[p]) # <<>> => Follows(s[Len(s)], Tail(work[p])[1]),
         Tail(work[p]) = <<>> => Ends(s[Len(s)])
  PROVE  Tasks' /\ Turn(p, s \o Tail(work[p]))
         /\ s \o Tail(work[p]) # <<>> /\ (s \o Tail(work[p]))[1] = s[1]
<1>1. Fits(View, p, work[p])
  BY DEF Tasks
<1>2. Fits(View', p, Tail(work[p]))
  BY <1>1, FitsTail, FitsGrows
<1>3. /\ Fits(View', p, s \o Tail(work[p]))
      /\ s \o Tail(work[p]) # <<>> /\ (s \o Tail(work[p]))[1] = s[1]
  <2> DEFINE t == Tail(work[p]) v == View'
  <2>1. Fits(v, p, t) /\ Part(v, p, s) /\ (t # <<>> => Follows(s[Len(s)], t[1]))
        /\ (t = <<>> => Ends(s[Len(s)]))
    BY <1>2
  <2> HIDE DEF t, v
  <2>2. Fits(v, p, s \o t) /\ s \o t # <<>> /\ (s \o t)[1] = s[1]
    BY <2>1, FitsMore
  <2>3. QED
    BY <2>2 DEF t, v
<1>4. Tasks' /\ Turn(p, s \o Tail(work[p]))
  BY <1>3, TurnTasks DEF Then
<1>5. QED
  BY <1>3, <1>4

LEMMA Asks ==
  ASSUME Tasks, NEW p \in Proc, NEW w, Request(p, w), Fits(View, p, w)
  PROVE  work[p] = <<>> /\ Tasks' /\ Turn(p, w)
         /\ UNCHANGED <<storage, barrier, state, modules, gen, handed, ghosts>>
<1>1. View' = View
  BY DEF Request, View, storage, ghosts
<1>2. Grows(View, View') /\ Fits(View', p, w)
  BY <1>1 DEF Grows
<1>3. QED
  BY <1>2, TurnTasks DEF Request

LEMMA SameView ==
  ASSUME UNCHANGED <<recordKey, gen, handed, deprecated, blind>>
  PROVE  View' = View /\ Grows(View, View')
  BY DEF View, Grows

-----------------------------------------------------------------------------
(* The moves of each action.                                                *)

LEMMA AtUnsealer ==
  ASSUME Tasks, NEW p \in Proc, NEW op, At(p, op), op \in UnsealOps, op # "reset_cipher"
  PROVE  p \in Unsealers
<1>1. op \in Ops(p)
  BY AtFacts
<1>2. QED
  BY <1>1 DEF Ops, UnsealOps, SealOps, PostOps

LEMMA AtOther ==
  ASSUME Tasks, NEW p \in Proc, NEW op, At(p, op), op \in {"pre_seal", "close", "put"}
  PROVE  /\ p \notin Unsealers
         /\ op # "put" => p \in Sealers
         /\ op = "put" => p \notin Sealers
<1>1. op \in Ops(p)
  BY AtFacts
<1>2. QED
  BY <1>1 DEF Ops, UnsealOps, SealOps, PostOps

LEMMA SubmitMoves ==
  ASSUME KeyInv, NEW p \in Proc, Submit(p)
  PROVE  \E x \in handed, once \in BOOLEAN :
           /\ once => gen < MaxGen
           /\ p \in Unsealers /\ recordKey # 0 /\ work[p] = <<>> /\ Tasks'
           /\ Turn(p, <<<<"do_unseal", x, once>>>>)
           /\ UNCHANGED <<storage, barrier, state, modules, gen, handed, ghosts>>
<1>1. PICK x \in handed, once \in BOOLEAN :
        (once => gen < MaxGen) /\ p \in Unsealers /\ Request(p, <<<<"do_unseal", x, once>>>>)
  BY DEF Submit
<1> DEFINE y == <<"do_unseal", x, once>>
<1>2. recordKey # 0
  BY DEF KeyInv, Blank
<1>3. y[1] = "do_unseal" /\ y[2] = x /\ y[3] = once
  OBVIOUS
<1>4. Request(p, <<y>>)
  BY <1>1
<1> HIDE DEF y
<1>5. y[1] \in Ops(p) /\ Ends(y)
  BY <1>1, <1>3 DEF Ops, UnsealOps, Ends
<1>6. Proper(View, y)
  BY <1>2, <1>3 DEF Proper, View, PostOps
<1>7. Fits(View, p, <<y>>)
  BY <1>5, <1>6, FitsAlone
<1>8. work[p] = <<>> /\ Tasks' /\ Turn(p, <<y>>)
      /\ UNCHANGED <<storage, barrier, state, modules, gen, handed, ghosts>>
  BY <1>4, <1>7, Asks DEF KeyInv
<1>9. QED
  BY <1>1, <1>2, <1>8 DEF y

LEMMA InitialiseMoves ==
  ASSUME KeyInv, NEW p \in Proc, Initialise(p)
  PROVE  /\ p \in Unsealers /\ work[p] = <<>> /\ Tasks'
         /\ Turn(p, <<>>) \/ (recordKey = 0 /\ Turn(p, <<<<"put_config">>>>))
         /\ UNCHANGED <<storage, barrier, state, modules, gen, handed, ghosts>>
<1>1. p \in Unsealers
  BY DEF Initialise
<1>2. CASE recordKey # 0
  <2>1. Request(p, <<>>)
    BY <1>2 DEF Initialise
  <2>2. Fits(View, p, <<>>)
    BY FitsEmpty
  <2>3. QED
    BY <1>1, <2>1, <2>2, Asks DEF KeyInv
<1>3. CASE recordKey = 0
  <2> DEFINE y == <<"put_config">>
  <2>1. Request(p, <<y>>)
    BY <1>3 DEF Initialise
  <2>2. y[1] = "put_config"
    OBVIOUS
  <2> HIDE DEF y
  <2>3. y[1] \in Ops(p) /\ Ends(y)
    BY <1>1, <2>2 DEF Ops, UnsealOps, Ends
  <2>4. Proper(View, y)
    BY <1>3, <2>2 DEF Proper, View, PostOps
  <2>5. Fits(View, p, <<y>>)
    BY <2>3, <2>4, FitsAlone
  <2>6. work[p] = <<>> /\ Tasks' /\ Turn(p, <<y>>)
        /\ UNCHANGED <<storage, barrier, state, modules, gen, handed, ghosts>>
    BY <2>1, <2>5, Asks DEF KeyInv
  <2>7. QED
    BY <1>1, <1>3, <2>6 DEF y
<1>4. QED
  BY <1>2, <1>3

LEMMA SealMoves ==
  ASSUME KeyInv, NEW p \in Proc, Seal(p)
  PROVE  /\ p \in Sealers /\ p \notin Unsealers /\ work[p] = <<>> /\ Tasks'
         /\ \/ Turn(p, <<>>)
            \/ /\ recordKey # 0 /\ ~barrier.sealed
               /\ \E w : Turn(p, w) /\ w # <<>> /\ w[1][1] = "pre_seal"
         /\ UNCHANGED <<storage, barrier, state, modules, gen, handed, ghosts>>
<1>1. p \in Sealers /\ p \notin Unsealers
  BY ProcAssumption DEF Seal
<1>2. CASE recordKey = 0 \/ barrier.sealed
  <2>1. Request(p, <<>>)
    BY <1>2 DEF Seal
  <2>2. Fits(View, p, <<>>)
    BY FitsEmpty
  <2>3. QED
    BY <1>1, <2>1, <2>2, Asks DEF KeyInv
<1>3. CASE ~(recordKey = 0 \/ barrier.sealed)
  <2> DEFINE x == <<"pre_seal">> y == <<"reset_cipher">> z == <<"close">> w == <<x, y, z>>
  <2>1. Request(p, w)
    BY <1>3 DEF Seal
  <2>2. x[1] = "pre_seal" /\ y[1] = "reset_cipher" /\ z[1] = "close"
    OBVIOUS
  <2>3. Len(w) = 3 /\ DOMAIN w = 1..3 /\ w[1] = x /\ w[2] = y /\ w[3] = z /\ w # <<>>
        /\ w \in Seq({x, y, z})
    OBVIOUS
  <2> HIDE DEF x, y, z, w
  <2>4. x[1] \in Ops(p) /\ y[1] \in Ops(p) /\ z[1] \in Ops(p) /\ Ends(z)
    BY <1>1, <2>2 DEF Ops, SealOps, Ends
  <2>5. Proper(View, x) /\ Proper(View, y) /\ Proper(View, z)
    BY <1>3, <2>2 DEF Proper, View, PostOps
  <2>6. Follows(x, y) /\ Follows(y, z)
    BY <2>2 DEF Follows
  <2>7. IsSeq(w)
    BY <2>3, IsSeqOf
  <2>8. Linked(w)
    BY <2>3, <2>6 DEF Linked
  <2>9. \A i \in DOMAIN w : w[i] = x \/ w[i] = y \/ w[i] = z
    BY <2>3
  <2>10. Fits(View, p, w)
    BY <2>3, <2>4, <2>5, <2>7, <2>8, <2>9 DEF Fits, Part
  <2>11. work[p] = <<>> /\ Tasks' /\ Turn(p, w)
         /\ UNCHANGED <<storage, barrier, state, modules, gen, handed, ghosts>>
    BY <2>1, <2>10, Asks DEF KeyInv
  <2>12. QED
    BY <1>1, <1>3, <2>2, <2>3, <2>11
<1>4. QED
  BY <1>2, <1>3

LEMMA WriteMoves ==
  ASSUME KeyInv, NEW p \in Proc, Write(p)
  PROVE  /\ p \notin Unsealers /\ p \notin Sealers /\ work[p] = <<>> /\ Tasks'
         /\ \E w : Turn(p, w)
         /\ UNCHANGED <<storage, barrier, state, modules, gen, handed, ghosts>>
<1>1. p \notin Unsealers /\ p \notin Sealers
  BY ProcAssumption DEF Write
<1>2. CASE state.sealed \/ ~mounted
  <2>1. Request(p, <<>>)
    BY <1>2 DEF Write
  <2>2. Fits(View, p, <<>>)
    BY FitsEmpty
  <2>3. QED
    BY <1>1, <2>1, <2>2, Asks DEF KeyInv
<1>3. CASE ~(state.sealed \/ ~mounted)
  <2> DEFINE y == <<"put">>
  <2>1. Request(p, <<y>>)
    BY <1>3 DEF Write
  <2>2. y[1] = "put"
    OBVIOUS
  <2> HIDE DEF y
  <2>3. y[1] \in Ops(p) /\ Ends(y)
    BY <1>1, <2>2 DEF Ops, Ends
  <2>4. Proper(View, y)
    BY <2>2 DEF Proper, PostOps
  <2>5. Fits(View, p, <<y>>)
    BY <2>3, <2>4, FitsAlone
  <2>6. work[p] = <<>> /\ Tasks' /\ Turn(p, <<y>>)
        /\ UNCHANGED <<storage, barrier, state, modules, gen, handed, ghosts>>
    BY <2>1, <2>5, Asks DEF KeyInv
  <2>7. QED
    BY <1>1, <2>6
<1>4. QED
  BY <1>2, <1>3

LEMMA BarrierUnsealMoves ==
  ASSUME KeyInv, NEW p \in Proc, BarrierUnseal(p)
  PROVE  /\ p \in Unsealers /\ recordKey # 0 /\ barrier.sealed /\ Tasks'
         /\ OpIn(p, {"unseal"}) /\ Tail(work[p]) # <<>>
         /\ Turn(p, <<<<"init_cipher", Arg(p, 2)>>, <<"decrypt", Arg(p, 2), Arg(p, 3)>>>>
                    \o Tail(work[p]))
         /\ Follows(work[p][1], Tail(work[p])[1])
         /\ <<"decrypt", Arg(p, 2), Arg(p, 3)>>[3] = work[p][1][3]
         /\ UNCHANGED <<storage, barrier, state, modules, operators, ghosts>>
<1>1. Tasks /\ At(p, "unseal")
  BY DEF KeyInv, BarrierUnseal
<1>2. work[p] # <<>> /\ work[p][1][1] = "unseal" /\ Head(work[p]) = work[p][1]
      /\ Proper(View, work[p][1]) /\ Fits(View, p, work[p])
  BY <1>1, AtFacts
<1>3. p \in Unsealers
  BY <1>1, AtUnsealer DEF UnsealOps
<1>4. OpIn(p, {"unseal"})
  BY <1>2 DEF OpIn
<1>5. recordKey # 0 /\ barrier.sealed
  BY <1>2, <1>3 DEF KeyInv, Stages, OpIn, Closed
<1>6. /\ Tail(work[p]) = <<>> => Ends(work[p][1])
      /\ Tail(work[p]) # <<>> => Follows(work[p][1], Tail(work[p])[1])
  BY <1>2, FitsTail
<1>7. Tail(work[p]) # <<>> /\ Follows(work[p][1], Tail(work[p])[1])
  BY <1>2, <1>6 DEF Ends
<1> DEFINE x == <<"init_cipher", Arg(p, 2)>> y == <<"decrypt", Arg(p, 2), Arg(p, 3)>>
<1>8. Then(p, <<x, y>>)
  BY <1>5 DEF BarrierUnseal
<1>9. x[1] = "init_cipher" /\ x[2] = work[p][1][2] /\ y[1] = "decrypt"
      /\ y[2] = work[p][1][2] /\ y[3] = work[p][1][3]
  BY <1>2 DEF Arg
<1> HIDE DEF x, y
<1>10. x[1] \in Ops(p) /\ y[1] \in Ops(p)
  BY <1>3, <1>9 DEF Ops, UnsealOps
<1>11. Proper(View, x) /\ Proper(View, y)
  BY <1>2, <1>5, <1>9 DEF Proper, View, PostOps
<1>12. Follows(x, y) /\ Follows(y, Tail(work[p])[1])
  BY <1>2, <1>7, <1>9 DEF Follows
<1>13. UNCHANGED <<storage, barrier, state, modules, operators, ghosts>>
  BY DEF BarrierUnseal
<1>14. View' = View /\ Grows(View, View')
  BY <1>13, SameView DEF storage, operators, ghosts
<1>15. Part(View', p, <<x, y>>) /\ <<x, y>> # <<>> /\ Len(<<x, y>>) = 2
       /\ <<x, y>>[1] = x /\ <<x, y>>[2] = y
  BY <1>10, <1>11, <1>12, <1>14, Part2
<1>16. Tasks' /\ Turn(p, <<x, y>> \o Tail(work[p]))
  BY <1>1, <1>2, <1>7, <1>8, <1>12, <1>14, <1>15, DoesMore
<1>17. QED
  BY <1>3, <1>4, <1>5, <1>7, <1>9, <1>13, <1>16 DEF x, y

Popped(p) ==
  /\ work[p] # <<>> /\ Turn(p, Tail(work[p]))
  /\ Tail(work[p]) = <<>> => Ends(work[p][1])
  /\ Tail(work[p]) # <<>> => Follows(work[p][1], Tail(work[p])[1])

LEMMA Pops ==
  ASSUME Tasks, NEW p \in Proc, NEW op, At(p, op), Then(p, <<>>), Grows(View, View')
  PROVE  /\ Tasks' /\ Popped(p) /\ work[p][1][1] = op /\ Head(work[p]) = work[p][1]
         /\ Proper(View, work[p][1]) /\ op \in Ops(p)
<1>1. work[p] # <<>> /\ work[p][1][1] = op /\ Head(work[p]) = work[p][1]
      /\ Proper(View, work[p][1]) /\ op \in Ops(p)
  BY AtFacts
<1>2. QED
  BY <1>1, GoesOn DEF Popped

(* The one task that unseals has changed what the others do not look at.    *)
LEMMA TurnAlone ==
  ASSUME Tasks, SoleUnsealer, NEW p \in Unsealers, NEW w, work' = [work EXCEPT ![p] = w],
         NEW v, v = View', Fits(v, p, w), recordKey # 0 => v.recordKey # 0
  PROVE  Tasks' /\ Turn(p, w)
<1>1. work = [q \in Proc |-> work[q]] /\ p \in Proc
  BY DEF Tasks, Proc
<1>2. Turn(p, w)
  BY <1>1 DEF Turn
<1>3. work' = [q \in Proc |-> work'[q]]
  BY <1>1
<1>4. \A q \in Proc : Fits(v, q, work'[q])
  <2> SUFFICES ASSUME NEW q \in Proc PROVE Fits(v, q, work'[q])
    OBVIOUS
  <2>1. CASE q = p
    BY <2>1, <1>2 DEF Turn
  <2>2. CASE q # p
    <3>1. Fits(View, q, work[q]) /\ work'[q] = work[q]
      BY <2>2, <1>2 DEF Tasks, Turn
    <3>2. q \notin Unsealers
      BY <2>2 DEF SoleUnsealer
    <3>3. \A i \in DOMAIN work[q] : Proper(v, work[q][i])
      <4> SUFFICES ASSUME NEW i \in DOMAIN work[q] PROVE Proper(v, work[q][i])
        OBVIOUS
      <4> DEFINE x == work[q][i]
      <4>1. x[1] \in Ops(q) /\ Proper(View, x)
        BY <3>1 DEF Fits, Part
      <4>2. x[1] \in {"pre_seal", "reset_cipher", "close", "put"}
        BY <4>1, <3>2 DEF Ops, SealOps
      <4> HIDE DEF x
      <4>3. Proper(v, x)
        BY <4>1, <4>2 DEF Proper, View, PostOps
      <4>4. QED
        BY <4>3 DEF x
    <3>4. QED
      BY <3>1, <3>3 DEF Fits, Part
  <2>3. QED
    BY <2>1, <2>2
<1>5. QED
  BY <1>2, <1>3, <1>4 DEF Tasks

LEMMA DecryptMoves ==
  ASSUME KeyInv, NEW p \in Proc, Decrypt(p)
  PROVE  /\ p \in Unsealers /\ Tasks' /\ OpIn(p, {"decrypt"}) /\ Tail(work[p]) # <<>>
         /\ Uses(Tail(work[p])[1], work[p][1][2]) /\ Proper(View, work[p][1])
         /\ IF work[p][1][2] = recordKey
            THEN /\ Turn(p, <<<<"open">>>> \o Tail(work[p]))
                 /\ <<<<"open">>>> \o Tail(work[p]) # <<>>
                 /\ (<<<<"open">>>> \o Tail(work[p]))[1] = <<"open">>
                 /\ (<<<<"open">>>> \o Tail(work[p]))[2] = Tail(work[p])[1]
                 /\ barrier' = [barrier EXCEPT !.key = Enc] /\ UNCHANGED state
            ELSE Turn(p, <<>>) /\ state' = work[p][1][3] /\ UNCHANGED barrier
         /\ UNCHANGED <<storage, modules, operators, ghosts>>
<1>1. Tasks /\ At(p, "decrypt") /\ UNCHANGED <<storage, modules, operators, ghosts>>
  BY DEF KeyInv, Decrypt
<1>2. work[p] # <<>> /\ work[p][1][1] = "decrypt" /\ Head(work[p]) = work[p][1]
      /\ Proper(View, work[p][1]) /\ Fits(View, p, work[p]) /\ IsSeq(Tail(work[p]))
  BY <1>1, AtFacts
<1>3. p \in Unsealers
  BY <1>1, AtUnsealer DEF UnsealOps
<1>4. OpIn(p, {"decrypt"})
  BY <1>2 DEF OpIn
<1>5. /\ Tail(work[p]) = <<>> => Ends(work[p][1])
      /\ Tail(work[p]) # <<>> => Follows(work[p][1], Tail(work[p])[1])
  BY <1>2, FitsTail
<1>6. Tail(work[p]) # <<>> /\ Uses(Tail(work[p])[1], work[p][1][2])
  BY <1>2, <1>5 DEF Ends, Follows
<1>7. View' = View /\ Grows(View, View')
  BY <1>1, SameView DEF storage, operators, ghosts
<1>8. Arg(p, 2) = work[p][1][2] /\ Arg(p, 3) = work[p][1][3]
  BY <1>2 DEF Arg
<1>9. CASE work[p][1][2] = recordKey
  <2> DEFINE y == <<"open">> t == Tail(work[p])
  <2>1. Then(p, <<y>>) /\ barrier' = [barrier EXCEPT !.key = Enc] /\ UNCHANGED state
    BY <1>8, <1>9 DEF Decrypt
  <2>2. y[1] = "open"
    OBVIOUS
  <2> HIDE DEF y
  <2>3. y[1] \in Ops(p) /\ Proper(View, y)
    BY <1>2, <1>3, <2>2 DEF Ops, UnsealOps, Proper, View, PostOps
  <2>4. Follows(y, t[1])
    BY <1>6, <2>2 DEF Follows, Uses
  <2>5. Part(View', p, <<y>>) /\ <<y>> # <<>> /\ Len(<<y>>) = 1 /\ <<y>>[1] = y
    BY <1>7, <2>3, Part1
  <2>6. Tasks' /\ Turn(p, <<y>> \o t) /\ <<y>> \o t # <<>> /\ (<<y>> \o t)[1] = y
    BY <1>1, <1>2, <1>6, <1>7, <2>1, <2>4, <2>5, DoesMore
  <2>7. IsSeq(<<y>>) /\ IsSeq(t) /\ t # <<>>
    BY <1>2, <1>6, <2>5 DEF Part
  <2> HIDE DEF t
  <2>8. Len(t) \in Nat /\ Len(t) > 0
    BY <2>7, SeqFacts
  <2>9. (<<y>> \o t)[2] = t[1]
    BY <2>5, <2>7, <2>8, CatFacts
  <2>10. QED
    BY <1>1, <1>2, <1>3, <1>4, <1>6, <1>9, <2>1, <2>6, <2>9 DEF y, t
<1>10. CASE work[p][1][2] # recordKey
  <2>1. Refuse(p) /\ state' = work[p][1][3] /\ UNCHANGED barrier
    BY <1>8, <1>10 DEF Decrypt
  <2>2. Tasks' /\ Turn(p, <<>>)
    BY <1>1, <1>7, <2>1, Refuses
  <2>3. QED
    BY <1>1, <1>2, <1>3, <1>4, <1>6, <1>10, <2>1, <2>2
<1>11. QED
  BY <1>9, <1>10

(* do_unseal and count are the last of their task.                          *)
LEMMA LastAlone ==
  ASSUME Tasks, NEW p \in Proc, NEW op, At(p, op),
         op \in {"do_unseal", "count", "opened", "barrier_init", "put_config", "split",
                 "generate", "init_done"}
  PROVE  Tail(work[p]) = <<>>
<1>1. work[p] # <<>> /\ work[p][1][1] = op /\ Fits(View, p, work[p])
  BY AtFacts
<1>2. Tail(work[p]) # <<>> => Follows(work[p][1], Tail(work[p])[1])
  BY <1>1, FitsTail
<1>3. QED
  BY <1>1, <1>2 DEF Follows

LEMMA Replaces ==
  ASSUME Tasks, NEW p \in Proc, work[p] # <<>>, Tail(work[p]) = <<>>, NEW s, Then(p, s),
         Grows(View, View'), Fits(View', p, s)
  PROVE  Tasks' /\ Turn(p, s)
<1>1. IsSeq(s) /\ IsSeq(<<>>)
  BY DEF Fits, Part, IsSeq
<1>2. s \o <<>> = s
  BY <1>1, CatFacts, SeqFacts, SameSeq
<1>3. work' = [work EXCEPT ![p] = s]
  BY <1>2 DEF Then
<1>4. QED
  BY <1>3, TurnTasks

LEMMA ToSetCat ==
  ASSUME NEW s, NEW t, IsSeq(s), IsSeq(t)
  PROVE  ToSet(s \o t) = ToSet(s) \cup ToSet(t)
<1> DEFINE u == s \o t
<1>1. IsSeq(u) /\ Len(u) = Len(s) + Len(t)
      /\ \A i \in 1..Len(u) : u[i] = IF i <= Len(s) THEN s[i] ELSE t[i - Len(s)]
  BY CatFacts
<1>2. /\ Len(s) \in Nat /\ DOMAIN s = 1..Len(s)
      /\ Len(t) \in Nat /\ DOMAIN t = 1..Len(t)
      /\ DOMAIN u = 1..Len(u)
  BY <1>1, SeqFacts
<1> HIDE DEF u
<1>3. \A i \in DOMAIN u : u[i] \in ToSet(s) \cup ToSet(t)
  <2> SUFFICES ASSUME NEW i \in DOMAIN u PROVE u[i] \in ToSet(s) \cup ToSet(t)
    OBVIOUS
  <2>1. CASE i <= Len(s)
    <3>1. i \in DOMAIN s /\ u[i] = s[i]
      BY <2>1, <1>1, <1>2
    <3>2. QED
      BY <3>1 DEF ToSet
  <2>2. CASE ~(i <= Len(s))
    <3>1. i - Len(s) \in DOMAIN t /\ u[i] = t[i - Len(s)]
      BY <2>2, <1>1, <1>2
    <3>2. QED
      BY <3>1 DEF ToSet
  <2>3. QED
    BY <2>1, <2>2
<1>4. \A i \in DOMAIN s : s[i] \in ToSet(u)
  <2> SUFFICES ASSUME NEW i \in DOMAIN s PROVE s[i] \in ToSet(u)
    OBVIOUS
  <2>1. i \in DOMAIN u /\ u[i] = s[i]
    BY <1>1, <1>2
  <2>2. QED
    BY <2>1 DEF ToSet
<1>5. \A i \in DOMAIN t : t[i] \in ToSet(u)
  <2> SUFFICES ASSUME NEW i \in DOMAIN t PROVE t[i] \in ToSet(u)
    OBVIOUS
  <2>1. i + Len(s) \in DOMAIN u /\ ~(i + Len(s) <= Len(s)) /\ (i + Len(s)) - Len(s) = i
    BY <1>1, <1>2
  <2>2. u[i + Len(s)] = t[i]
    BY <2>1, <1>1, <1>2
  <2>3. QED
    BY <2>1, <2>2 DEF ToSet
<1>6. QED
  BY <1>3, <1>4, <1>5 DEF ToSet, u

LEMMA ToSetTail ==
  ASSUME NEW w, IsSeq(w), w # <<>>
  PROVE  ToSet(Tail(w)) \subseteq ToSet(w)
<1>1. IsSeq(Tail(w)) /\ Len(Tail(w)) = Len(w) - 1
      /\ \A i \in 1..Len(Tail(w)) : Tail(w)[i] = w[i + 1]
  BY TailFacts
<1> DEFINE t == Tail(w)
<1>2. Len(w) \in Nat /\ DOMAIN w = 1..Len(w) /\ Len(t) \in Nat /\ DOMAIN t = 1..Len(t)
  BY <1>1, SeqFacts
<1> HIDE DEF t
<1>3. ASSUME NEW i \in DOMAIN t PROVE t[i] \in ToSet(w)
  <2>1. i + 1 \in DOMAIN w /\ t[i] = w[i + 1]
    BY <1>1, <1>2 DEF t
  <2>2. QED
    BY <2>1 DEF ToSet
<1>4. QED
  BY <1>3 DEF ToSet, t

LEMMA DoUnsealMoves ==
  ASSUME KeyInv, NEW p \in Proc, DoUnseal(p)
  PROVE  /\ p \in Unsealers /\ Tasks' /\ OpIn(p, {"do_unseal"})
         /\ \/ Turn(p, <<>>)
            \/ /\ recordKey # 0 /\ barrier.sealed
               /\ Turn(p, <<<<"count", work[p][1][2], work[p][1][3], state>>>>)
         /\ UNCHANGED <<storage, barrier, state, modules, operators, ghosts>>
<1>1. Tasks /\ At(p, "do_unseal")
      /\ UNCHANGED <<storage, barrier, state, modules, operators, ghosts>>
  BY DEF KeyInv, DoUnseal
<1>2. work[p] # <<>> /\ work[p][1][1] = "do_unseal" /\ Head(work[p]) = work[p][1]
      /\ Proper(View, work[p][1])
  BY <1>1, AtFacts
<1>3. p \in Unsealers
  BY <1>1, AtUnsealer DEF UnsealOps
<1>4. OpIn(p, {"do_unseal"}) /\ Tail(work[p]) = <<>>
  BY <1>1, <1>2, LastAlone DEF OpIn
<1>5. View' = View /\ Grows(View, View')
  BY <1>1, SameView DEF storage, operators, ghosts
<1>6. CASE recordKey = 0 \/ ~barrier.sealed
  <2>1. Refuse(p)
    BY <1>6 DEF DoUnseal
  <2>2. QED
    BY <1>1, <1>3, <1>4, <1>5, <2>1, Refuses
<1>7. CASE ~(recordKey = 0 \/ ~barrier.sealed)
  <2> DEFINE y == <<"count", work[p][1][2], work[p][1][3], state>>
  <2>1. Then(p, <<y>>)
    BY <1>2, <1>7 DEF DoUnseal, Arg
  <2>2. y[1] = "count" /\ y[2] = work[p][1][2] /\ y[3] = work[p][1][3] /\ y[4] = state
    OBVIOUS
  <2> HIDE DEF y
  <2>3. y[1] \in Ops(p) /\ Ends(y)
    BY <1>3, <2>2 DEF Ops, UnsealOps, Ends
  <2>4. work[p][1][2] \in handed /\ work[p][1][3] \in BOOLEAN
    BY <1>2 DEF Proper, View
  <2>5. Copy(View, state)
    BY DEF KeyInv, Shares
  <2>6. Proper(View, y)
    BY <1>7, <2>2, <2>4, <2>5 DEF Proper, View, PostOps
  <2>7. Fits(View', p, <<y>>)
    BY <1>5, <2>3, <2>6, FitsAlone
  <2>8. Tasks' /\ Turn(p, <<y>>)
    BY <1>1, <1>2, <1>4, <1>5, <2>1, <2>7, Replaces
  <2>9. QED
    BY <1>1, <1>3, <1>4, <1>7, <2>8 DEF y
<1>8. QED
  BY <1>6, <1>7

LEMMA AppendFacts ==
  ASSUME NEW s \in Seq(Share), NEW x \in Share
  PROVE  /\ Append(s, x) \in Seq(Share) /\ Append(s, x) # <<>>
         /\ ToSet(Append(s, x)) = ToSet(s) \cup {x}
<1>1. Append(s, x) \in Seq(Share) /\ Append(s, x) # <<>> /\ Len(Append(s, x)) = Len(s) + 1
      /\ \A i \in 1..Len(s) : Append(s, x)[i] = s[i]
      /\ Append(s, x)[Len(s) + 1] = x
  BY AppendProperties
<1> DEFINE t == Append(s, x)
<1>2. Len(s) \in Nat /\ DOMAIN s = 1..Len(s) /\ DOMAIN t = 1..Len(s) + 1
  BY <1>1, LenProperties
<1> HIDE DEF t
<1>3. \A i \in DOMAIN t : (i \in DOMAIN s /\ t[i] = s[i]) \/ t[i] = x
  BY <1>1, <1>2 DEF t
<1>4. \A i \in DOMAIN s : i \in DOMAIN t /\ t[i] = s[i]
  BY <1>1, <1>2 DEF t
<1>5. Len(s) + 1 \in DOMAIN t /\ t[Len(s) + 1] = x
  BY <1>1, <1>2 DEF t
<1>6. ToSet(t) \subseteq ToSet(s) \cup {x}
  BY <1>3 DEF ToSet
<1>7. ToSet(s) \cup {x} \subseteq ToSet(t)
  BY <1>4, <1>5 DEF ToSet
<1>8. QED
  BY <1>1, <1>6, <1>7 DEF t

LEMMA CombinedType ==
  ASSUME NEW s \in Seq(Share), s # <<>>
  PROVE  Combined(s) \in Key \cup {Wrong}
<1>1. s[1] \in Share
  BY EmptySeq, LenProperties, ElementOfSeq
<1>2. s[1][1] \in Key
  BY <1>1 DEF Share
<1>3. QED
  BY <1>2 DEF Combined

LEMMA CountMoves ==
  ASSUME KeyInv, NEW p \in Proc, Count(p)
  PROVE  /\ p \in Unsealers /\ Tasks' /\ OpIn(p, {"count"}) /\ Proper(View, work[p][1])
         /\ recordKey # 0 /\ Grows(View, View') /\ Copy(View', state')
         /\ \/ /\ Turn(p, <<>>)
               /\ state'.sealed = state.sealed \/ state'.sealed = work[p][1][4].sealed
               /\ UNCHANGED state \/ (state'.sealed = work[p][1][4].sealed
                                       /\ state'.kek = work[p][1][4].kek)
            \/ /\ UNCHANGED state
               /\ \E k, c, s, r :
                    /\ c.sealed = work[p][1][4].sealed
                    /\ Turn(p, <<<<"unseal", k, c>>,
                                 <<"opened", s, work[p][1][3], r, deprecated>>>>)
         /\ (faults' = faults /\ blind' = blind) \/ (faults' = faults + 1 /\ blind' = TRUE)
         /\ UNCHANGED <<storage, barrier, modules, operators, cut, late>>
<1>1. Tasks /\ At(p, "count") /\ UNCHANGED <<storage, barrier, modules, operators, cut, late>>
  BY DEF KeyInv, Count
<1>2. work[p] # <<>> /\ work[p][1][1] = "count" /\ Head(work[p]) = work[p][1]
      /\ Proper(View, work[p][1])
  BY <1>1, AtFacts
<1>3. p \in Unsealers
  BY <1>1, AtUnsealer DEF UnsealOps
<1>4. OpIn(p, {"count"}) /\ Tail(work[p]) = <<>>
  BY <1>1, <1>2, LastAlone DEF OpIn
<1> DEFINE x == work[p][1][2] once == work[p][1][3] old == work[p][1][4]
           shares == Append(old.shares, x)
<1>5. recordKey # 0 /\ x \in handed /\ once \in BOOLEAN /\ Copy(View, old)
  BY <1>2 DEF Proper, View
<1>6. Arg(p, 2) = x /\ Arg(p, 3) = once /\ Arg(p, 4) = old
  BY <1>2 DEF Arg
<1>7. old \in CoreState /\ x \in Share /\ old.shares \in Seq(Share)
  BY <1>5 DEF KeyInv, Shares, Copy, CoreState
<1>8. PICK readable \in BOOLEAN :
        /\ \/ readable /\ UNCHANGED <<faults, blind>>
           \/ ~readable /\ faults < MaxFaults /\ faults' = faults + 1 /\ blind' = TRUE
        /\ IF x \in ToSet(old.shares) \/ Refused(x, readable)
           THEN Refuse(p) /\ UNCHANGED state
           ELSE IF ~Enough(shares)
           THEN Refuse(p) /\ state' = [old EXCEPT !.shares = shares]
           ELSE IF ~Combinable(shares)
           THEN Refuse(p) /\ state' = Cleared(old)
           ELSE /\ Then(p, <<unseal(Combined(shares), Cleared(old)),
                             <<"opened", shares, once, readable, deprecated>>>>)
                /\ UNCHANGED state
  BY <1>6 DEF Count
<1> HIDE DEF old, x, once
<1>9. shares \in Seq(Share) /\ shares # <<>> /\ ToSet(shares) = ToSet(old.shares) \cup {x}
  BY <1>7, AppendFacts
<1> HIDE DEF shares
<1>10. Grows(View, View') /\ (blind => blind') /\ (~readable => blind')
       /\ UNCHANGED <<recordKey, gen, handed, deprecated>>
       /\ ((faults' = faults /\ blind' = blind) \/ (faults' = faults + 1 /\ blind' = TRUE))
  BY <1>1, <1>8 DEF Grows, View, storage, operators
<1>11. View'.handed = handed /\ View'.deprecated = deprecated /\ View'.blind = blind'
       /\ View'.recordKey = recordKey
  BY <1>10 DEF View
<1>12. Copy(View', old)
  BY <1>5, <1>10, <1>11 DEF Copy, Fresh, View
<1>13. Copy(View', state)
  BY <1>10, <1>11 DEF KeyInv, Shares, Copy, Fresh, View
<1>14. ToSet(<<>>) = {} /\ <<>> \in Seq(Share) /\ Len(<<>>) = 0
  BY DEF ToSet
<1>15. 0 < T
  BY ConfigAssumption
<1>16. Cleared(old) \in CoreState /\ Cleared(old).sealed = old.sealed
       /\ Cleared(old).kek = old.kek /\ Cleared(old).shares = <<>>
  BY <1>7, <1>14 DEF Cleared, CoreState
<1>17. Copy(View', Cleared(old))
  BY <1>12, <1>14, <1>15, <1>16 DEF Copy, Fresh
<1>18. CASE x \in ToSet(old.shares) \/ Refused(x, readable)
  <2>1. Refuse(p) /\ UNCHANGED state
    BY <1>8, <1>18
  <2>2. Tasks' /\ Turn(p, <<>>)
    BY <1>1, <1>10, <2>1, Refuses
  <2>3. QED
    BY <1>1, <1>2, <1>3, <1>4, <1>5, <1>10, <1>13, <2>1, <2>2
<1>19. ASSUME ~(x \in ToSet(old.shares) \/ Refused(x, readable))
       PROVE  Fresh(View', ToSet(shares)) /\ ToSet(shares) \subseteq handed
  <2>1. blind' \/ x \notin deprecated
    BY <1>10, <1>19 DEF Refused
  <2>2. QED
    BY <1>5, <1>9, <1>11, <1>12, <2>1 DEF Copy, Fresh
<1>20. CASE ~(x \in ToSet(old.shares) \/ Refused(x, readable)) /\ ~Enough(shares)
  <2>1. Refuse(p) /\ state' = [old EXCEPT !.shares = shares]
    BY <1>8, <1>20
  <2>2. Tasks' /\ Turn(p, <<>>)
    BY <1>1, <1>10, <2>1, Refuses
  <2>3. state' \in CoreState /\ state'.sealed = old.sealed /\ state'.kek = old.kek
        /\ state'.shares = shares
    BY <1>7, <1>9, <2>1 DEF CoreState
  <2>4. Len(shares) \in Nat /\ Len(shares) < T
    BY <1>9, <1>20, LenProperties, ConfigAssumption DEF Enough
  <2>5. Copy(View', state')
    BY <1>11, <1>12, <1>19, <1>20, <2>3, <2>4 DEF Copy
  <2>6. QED
    BY <1>1, <1>2, <1>3, <1>4, <1>5, <1>10, <2>2, <2>3, <2>5 DEF old
<1>21. CASE ~(x \in ToSet(old.shares) \/ Refused(x, readable)) /\ Enough(shares)
            /\ ~Combinable(shares)
  <2>1. Refuse(p) /\ state' = Cleared(old)
    BY <1>8, <1>21
  <2>2. Tasks' /\ Turn(p, <<>>)
    BY <1>1, <1>10, <2>1, Refuses
  <2>3. QED
    BY <1>1, <1>2, <1>3, <1>4, <1>5, <1>10, <1>16, <1>17, <2>1, <2>2 DEF old
<1>22. CASE ~(x \in ToSet(old.shares) \/ Refused(x, readable)) /\ Enough(shares)
            /\ Combinable(shares)
  <2> DEFINE k == Combined(shares) c == Cleared(old)
             y == <<"unseal", k, c>> z == <<"opened", shares, once, readable, deprecated>>
  <2>1. Then(p, <<y, z>>) /\ UNCHANGED state
    BY <1>8, <1>22 DEF unseal
  <2>2. k \in Key \cup {Wrong}
    BY <1>9, CombinedType
  <2>3. Copy(View', c) /\ c.shares = <<>> /\ c.sealed = old.sealed
    BY <1>16, <1>17
  <2>4. y[1] = "unseal" /\ y[2] = k /\ y[3] = c /\ z[1] = "opened" /\ z[2] = shares
        /\ z[3] = once /\ z[4] = readable /\ z[5] = deprecated
    OBVIOUS
  <2>5. Follows(y, z)
    BY <2>4 DEF Follows, Uses
  <2> HIDE DEF y, z, k, c
  <2>6. y[1] \in Ops(p) /\ z[1] \in Ops(p) /\ Ends(z)
    BY <1>3, <2>4 DEF Ops, UnsealOps, Ends
  <2>7. Proper(View', y)
    BY <2>2, <2>3, <2>4 DEF Proper, PostOps
  <2>8. deprecated \subseteq handed
    BY DEF KeyInv, Shares
  <2>9. Proper(View', z)
    BY <1>5, <1>9, <1>11, <1>19, <1>22, <2>4, <2>8 DEF Proper, PostOps
  <2>10. Part(View', p, <<y, z>>) /\ <<y, z>> # <<>> /\ Len(<<y, z>>) = 2
         /\ <<y, z>>[1] = y /\ <<y, z>>[2] = z
    BY <2>5, <2>6, <2>7, <2>9, Part2
  <2>11. Fits(View', p, <<y, z>>)
    BY <2>6, <2>10 DEF Fits
  <2>12. Tasks' /\ Turn(p, <<y, z>>)
    BY <1>1, <1>2, <1>4, <1>10, <2>1, <2>11, Replaces
  <2>13. \E k1, c1, s1, r1 :
           /\ c1.sealed = work[p][1][4].sealed
           /\ Turn(p, <<<<"unseal", k1, c1>>,
                        <<"opened", s1, work[p][1][3], r1, deprecated>>>>)
    BY <2>3, <2>12 DEF y, z, old, once
  <2>14. QED
    BY <1>1, <1>2, <1>3, <1>4, <1>5, <1>10, <1>13, <2>1, <2>12, <2>13
<1>23. QED
  BY <1>18, <1>20, <1>21, <1>22

LEMMA PostFits ==
  ASSUME NEW v, v.recordKey # 0, NEW p \in Unsealers, NEW b \in BOOLEAN
  PROVE  LET w == post_unseal(b) IN
         /\ Part(v, p, w) /\ w # <<>> /\ Len(w) = 4 /\ w[1] = <<"load", b>>
         /\ w[4] = <<"policy", b>>
         /\ \A x \in ToSet(w) : x[1] \in PostOps
<1> DEFINE x1 == <<"load", b>> x2 == <<"token_store", b>> x3 == <<"handler", b>>
           x4 == <<"policy", b>> w == <<x1, x2, x3, x4>>
<1>1. post_unseal(b) = w
  BY DEF post_unseal
<1>2. /\ x1[1] = "load" /\ x2[1] = "token_store" /\ x3[1] = "handler" /\ x4[1] = "policy"
      /\ x1[2] = b /\ x2[2] = b /\ x3[2] = b /\ x4[2] = b
  OBVIOUS
<1>3. Len(w) = 4 /\ DOMAIN w = 1..4 /\ w[1] = x1 /\ w[2] = x2 /\ w[3] = x3 /\ w[4] = x4
      /\ w # <<>> /\ w \in Seq({x1, x2, x3, x4})
  OBVIOUS
<1> HIDE DEF w, x1, x2, x3, x4
<1>4. x1[1] \in Ops(p) /\ x2[1] \in Ops(p) /\ x3[1] \in Ops(p) /\ x4[1] \in Ops(p)
  BY <1>2 DEF Ops, UnsealOps, PostOps
<1>5. Proper(v, x1) /\ Proper(v, x2) /\ Proper(v, x3) /\ Proper(v, x4)
  BY <1>2 DEF Proper, PostOps
<1>6. Follows(x1, x2) /\ Follows(x2, x3) /\ Follows(x3, x4)
  BY <1>2 DEF Follows
<1>7. IsSeq(w)
  BY <1>3, IsSeqOf
<1>8. Linked(w)
  BY <1>3, <1>6 DEF Linked
<1>9. \A i \in DOMAIN w : w[i] = x1 \/ w[i] = x2 \/ w[i] = x3 \/ w[i] = x4
  BY <1>3
<1>10. Part(v, p, w)
  BY <1>4, <1>5, <1>7, <1>8, <1>9 DEF Part
<1>11. \A x \in ToSet(w) : x[1] \in PostOps
  BY <1>2, <1>9 DEF ToSet, PostOps
<1>12. QED
  BY <1>1, <1>2, <1>3, <1>10, <1>11 DEF x1, x4

LEMMA RenewalFits ==
  ASSUME NEW v, v.recordKey # 0, NEW p \in Unsealers, NEW s, NEW once \in BOOLEAN,
         NEW readable \in BOOLEAN, NEW d, v.deprecated \subseteq d, d \subseteq v.handed,
         ToSet(s) \subseteq v.handed
  PROVE  LET w == renewal(s, once, readable, d) IN
         /\ Fits(v, p, w) /\ (w # <<>> => w[1][1] \in {"deprecate", "generate"})
         /\ \A x \in ToSet(w) : x[1] \in {"deprecate", "generate"} /\ once
<1> DEFINE x == <<"deprecate", d \cup ToSet(s)>> y == <<"generate">>
           w == renewal(s, once, readable, d)
<1>1. x[1] = "deprecate" /\ x[2] = d \cup ToSet(s) /\ y[1] = "generate"
  OBVIOUS
<1>2. w = (IF once /\ readable THEN <<x>> ELSE <<>>) \o (IF once THEN <<y>> ELSE <<>>)
  BY DEF renewal
<1>3. ToSet(<<>>) = {} /\ ToSet(<<y>>) = {y} /\ ToSet(<<x, y>>) = {x, y}
  BY DEF ToSet
<1> HIDE DEF x, y, w
<1>4. x[1] \in Ops(p) /\ y[1] \in Ops(p) /\ Ends(y) /\ Follows(x, y)
  BY <1>1 DEF Ops, UnsealOps, Ends, Follows
<1>5. Proper(v, x) /\ Proper(v, y)
  BY <1>1 DEF Proper, PostOps
<1>6. CASE ~once
  <2>1. w = <<>>
    BY <1>2, <1>6
  <2>2. QED
    BY <2>1, <1>3, FitsEmpty DEF w
<1>7. CASE once /\ ~readable
  <2>1. w = <<y>>
    BY <1>2, <1>7
  <2>2. Fits(v, p, <<y>>) /\ <<y>> # <<>> /\ <<y>>[1] = y
    BY <1>4, <1>5, FitsAlone
  <2>3. QED
    BY <1>1, <1>3, <1>7, <2>1, <2>2 DEF w
<1>8. CASE once /\ readable
  <2>1. w = <<x, y>>
    BY <1>2, <1>8, Cat11
  <2>2. Part(v, p, <<x, y>>) /\ <<x, y>> # <<>> /\ Len(<<x, y>>) = 2
        /\ <<x, y>>[1] = x /\ <<x, y>>[2] = y
    BY <1>4, <1>5, Part2
  <2>3. Fits(v, p, <<x, y>>)
    BY <1>4, <2>2 DEF Fits
  <2>4. QED
    BY <1>1, <1>3, <1>8, <2>1, <2>2, <2>3 DEF w
<1>9. QED
  BY <1>6, <1>7, <1>8

LEMMA OpenedMoves ==
  ASSUME KeyInv, NEW p \in Proc, Opened(p)
  PROVE  /\ p \in Unsealers /\ Tasks' /\ OpIn(p, {"opened"}) /\ recordKey # 0
         /\ \/ Turn(p, <<>>) /\ UNCHANGED state
            \/ /\ ~barrier.sealed /\ barrier.key # None
               /\ state' = [sealed |-> FALSE, shares |-> <<>>, kek |-> Combined(work[p][1][2])]
               /\ Combined(work[p][1][2]) \in Key \cup {Wrong}
               /\ \E w : /\ Turn(p, w) /\ w # <<>> /\ w[1] = <<"load", FALSE>>
                         /\ \A x \in ToSet(w) : x[1] \in PostOps
                              \/ (x[1] \in {"deprecate", "generate"} /\ work[p][1][3])
         /\ UNCHANGED <<storage, barrier, modules, operators, ghosts>>
<1>1. Tasks /\ At(p, "opened") /\ UNCHANGED <<storage, barrier, modules, operators, ghosts>>
  BY DEF KeyInv, Opened
<1>2. work[p] # <<>> /\ work[p][1][1] = "opened" /\ Head(work[p]) = work[p][1]
      /\ Proper(View, work[p][1])
  BY <1>1, AtFacts
<1>3. p \in Unsealers
  BY <1>1, AtUnsealer DEF UnsealOps
<1>4. OpIn(p, {"opened"}) /\ Tail(work[p]) = <<>>
  BY <1>1, <1>2, LastAlone DEF OpIn
<1>5. View' = View /\ Grows(View, View')
  BY <1>1, SameView DEF storage, operators, ghosts
<1> DEFINE s == work[p][1][2] once == work[p][1][3] r == work[p][1][4] d == work[p][1][5]
<1>6. Arg(p, 2) = s /\ Arg(p, 3) = once /\ Arg(p, 4) = r /\ Arg(p, 5) = d
  BY <1>2 DEF Arg
<1>7. /\ s \in Seq(Share) /\ s # <<>> /\ ToSet(s) \subseteq View.handed
      /\ once \in BOOLEAN /\ r \in BOOLEAN
      /\ View.deprecated \subseteq d /\ d \subseteq View.handed
      /\ recordKey # 0 /\ View.recordKey # 0
  BY <1>2 DEF Proper, View
<1>8. CASE barrier.sealed \/ barrier.key = None
  <2>1. Refuse(p) /\ UNCHANGED state
    BY <1>8 DEF Opened
  <2>2. QED
    BY <1>1, <1>3, <1>4, <1>5, <1>7, <2>1, Refuses
<1>9. CASE ~(barrier.sealed \/ barrier.key = None)
  <2> DEFINE a == post_unseal(FALSE) b == renewal(s, once, r, d) w == a \o b
  <2>1. Then(p, w) /\ state' = [sealed |-> FALSE, shares |-> <<>>, kek |-> Combined(s)]
    BY <1>6, <1>9 DEF Opened
  <2>2. /\ Part(View, p, a) /\ a # <<>> /\ Len(a) = 4 /\ a[1] = <<"load", FALSE>>
        /\ a[4] = <<"policy", FALSE>> /\ \A x \in ToSet(a) : x[1] \in PostOps
    BY <1>3, <1>7, PostFits
  <2> HIDE DEF s, once, r, d, a
  <2>3. /\ Fits(View, p, b) /\ (b # <<>> => b[1][1] \in {"deprecate", "generate"})
        /\ \A x \in ToSet(b) : x[1] \in {"deprecate", "generate"} /\ once
    BY <1>3, <1>7, RenewalFits
  <2>4. a[4][1] = "policy" /\ a[4][2] = FALSE
    BY <2>2
  <2>5. Ends(a[Len(a)]) /\ (b # <<>> => Follows(a[Len(a)], b[1]))
    BY <2>2, <2>3, <2>4 DEF Ends, Follows
  <2>6. IsSeq(a) /\ IsSeq(b)
    BY <2>2, <2>3 DEF Fits, Part
  <2> HIDE DEF b
  <2> DEFINE v == View
  <2> HIDE DEF v, w
  <2>7. Fits(v, p, a \o b) /\ a \o b # <<>> /\ (a \o b)[1] = a[1]
    <3>1. Part(v, p, a) /\ a # <<>> /\ Fits(v, p, b)
      BY <2>2, <2>3 DEF v
    <3>2. QED
      BY <3>1, <2>5, FitsMore
  <2>8. ToSet(w) = ToSet(a) \cup ToSet(b)
    BY <2>6, ToSetCat DEF w
  <2>9. Fits(View', p, w) /\ w # <<>> /\ w[1] = <<"load", FALSE>>
    BY <1>5, <2>2, <2>7 DEF v, w
  <2>10. Tasks' /\ Turn(p, w)
    BY <1>1, <1>2, <1>4, <1>5, <2>1, <2>9, Replaces
  <2>11. Combined(s) \in Key \cup {Wrong}
    BY <1>7, CombinedType
  <2>12. \A x \in ToSet(w) : x[1] \in PostOps \/ (x[1] \in {"deprecate", "generate"} /\ once)
    BY <2>2, <2>3, <2>8
  <2>13. QED
    BY <1>1, <1>3, <1>4, <1>7, <1>9, <2>1, <2>9, <2>10, <2>11, <2>12 DEF s, once
<1>10. QED
  BY <1>8, <1>9

LEMMA DeprecateMoves ==
  ASSUME KeyInv, SoleUnsealer, NEW p \in Proc, Deprecate(p)
  PROVE  /\ p \in Unsealers /\ Tasks' /\ OpIn(p, {"deprecate"}) /\ recordKey # 0
         /\ \E w : Turn(p, w) /\ w # <<>> /\ \A x \in ToSet(w) : x[1] = "generate"
         /\ \E w : Turn(p, w) /\ w[1][1] = "generate"
         /\ deprecated \subseteq deprecated' /\ deprecated' \subseteq handed
         /\ UNCHANGED <<recordKey, written, barrier, state, modules, operators, ghosts>>
<1>1. Tasks /\ At(p, "deprecate")
      /\ UNCHANGED <<recordKey, written, barrier, state, modules, operators, ghosts>>
  BY DEF KeyInv, Deprecate
<1>2. work[p] # <<>> /\ work[p][1][1] = "deprecate" /\ Head(work[p]) = work[p][1]
      /\ Proper(View, work[p][1]) /\ Fits(View, p, work[p])
  BY <1>1, AtFacts
<1>3. p \in Unsealers
  BY <1>1, AtUnsealer DEF UnsealOps
<1>4. OpIn(p, {"deprecate"})
  BY <1>2 DEF OpIn
<1> DEFINE t == Tail(work[p]) v == View'
<1>5. Fits(View, p, t) /\ (t = <<>> => Ends(work[p][1])) /\ (t # <<>> => Follows(work[p][1], t[1]))
  BY <1>2, FitsTail
<1>6. t # <<>> /\ t[1][1] = "generate"
  BY <1>2, <1>5 DEF Ends, Follows
<1>7. deprecated' = work[p][1][2] /\ Then(p, <<>>)
  BY <1>2 DEF Deprecate, Arg
<1>8. deprecated \subseteq deprecated' /\ deprecated' \subseteq handed /\ recordKey # 0
  BY <1>2, <1>7 DEF Proper, View
<1>9. v.recordKey = recordKey /\ IsSeq(t)
  BY <1>1, <1>5 DEF View, Fits, Part
<1>10. <<>> \o t = t
  BY <1>9, CatEmpty
<1>11. work' = [work EXCEPT ![p] = t]
  BY <1>7, <1>10 DEF Then
<1> HIDE DEF t, v
<1>12. Len(t) \in Nat /\ DOMAIN t = 1..Len(t) /\ Len(t) > 0
  BY <1>6, <1>9, SeqFacts
<1>13. Len(t) = 1
  <2> SUFFICES ASSUME Len(t) > 1 PROVE FALSE
    BY <1>12
  <2>1. 1 \in DOMAIN t /\ 2 \in DOMAIN t /\ 2 = 1 + 1
    BY <1>12
  <2>2. Follows(t[1], t[2])
    BY <1>5, <2>1 DEF Fits, Part, Linked
  <2>3. QED
    BY <1>6, <2>2 DEF Follows
<1>14. \A i \in DOMAIN t : t[i][1] = "generate"
  BY <1>6, <1>12, <1>13
<1>15. \A i \in DOMAIN t : Proper(v, t[i])
  BY <1>8, <1>9, <1>14 DEF Proper, PostOps
<1>16. Fits(v, p, t)
  BY <1>5, <1>15 DEF Fits, Part
<1>17. Tasks' /\ Turn(p, t)
  BY <1>1, <1>3, <1>8, <1>9, <1>11, <1>16, TurnAlone DEF v
<1>18. \A x \in ToSet(t) : x[1] = "generate"
  BY <1>14 DEF ToSet
<1>19. QED
  BY <1>1, <1>3, <1>4, <1>6, <1>8, <1>17, <1>18

LEMMA GenerateMoves ==
  ASSUME KeyInv, NEW p \in Proc, Generate(p)
  PROVE  /\ p \in Unsealers /\ Tasks' /\ OpIn(p, {"generate"}) /\ recordKey # 0
         /\ Turn(p, <<>>) /\ Grows(View, View')
         /\ \/ UNCHANGED <<gen, handed>>
               /\ (state.sealed \/ state.kek = None \/ T < 2 \/ gen = MaxGen)
            \/ /\ gen' = gen + 1 /\ gen < MaxGen /\ ~state.sealed /\ state.kek # None
               /\ handed' = IF state.kek = Wrong THEN handed
                            ELSE handed \cup Polynomial(state.kek, gen + 1)
         /\ UNCHANGED <<storage, barrier, state, modules, ops, ghosts>>
<1>1. Tasks /\ At(p, "generate") /\ Then(p, <<>>)
      /\ UNCHANGED <<storage, barrier, state, modules, ops, ghosts>>
  BY DEF KeyInv, Generate
<1>2. work[p] # <<>> /\ work[p][1][1] = "generate" /\ Head(work[p]) = work[p][1]
      /\ Proper(View, work[p][1])
  BY <1>1, AtFacts
<1>3. p \in Unsealers
  BY <1>1, AtUnsealer DEF UnsealOps
<1>4. OpIn(p, {"generate"}) /\ Tail(work[p]) = <<>>
  BY <1>1, <1>2, LastAlone DEF OpIn
<1>5. recordKey # 0
  BY <1>2 DEF Proper, View
<1>6. gen \in 0..MaxGen /\ MaxGen \in Nat
  BY BoundAssumption DEF KeyInv, Shares
<1>7. /\ \/ UNCHANGED <<gen, handed>>
            /\ (state.sealed \/ state.kek = None \/ T < 2 \/ gen = MaxGen)
         \/ /\ gen' = gen + 1 /\ gen < MaxGen /\ ~state.sealed /\ state.kek # None
            /\ handed' = IF state.kek = Wrong THEN handed
                         ELSE handed \cup Polynomial(state.kek, gen + 1)
  BY <1>6 DEF Generate
<1>8. Grows(View, View')
  <2>1. handed \subseteq handed'
    BY <1>7
  <2>2. QED
    BY <1>1, <1>5, <2>1 DEF Grows, View, storage, ghosts
<1>9. Tasks' /\ Turn(p, Tail(work[p]))
  BY <1>1, <1>2, <1>8, GoesOn
<1>10. Turn(p, <<>>)
  BY <1>4, <1>9
<1>11. QED
  BY <1>1, <1>3, <1>4, <1>5, <1>7, <1>8, <1>9, <1>10

LEMMA PutConfigMoves ==
  ASSUME KeyInv, NEW p \in Proc, PutConfig(p)
  PROVE  /\ p \in Unsealers /\ Tasks' /\ OpIn(p, {"put_config"}) /\ recordKey = 0
         /\ Turn(p, <<<<"barrier_init">>>>) /\ deprecated = {} /\ deprecated' = {}
         /\ UNCHANGED <<recordKey, written, barrier, state, modules, operators, ghosts>>
<1>1. Tasks /\ At(p, "put_config") /\ Then(p, <<<<"barrier_init">>>>) /\ deprecated' = {}
      /\ UNCHANGED <<recordKey, written, barrier, state, modules, operators, ghosts>>
  BY DEF KeyInv, PutConfig
<1>2. work[p] # <<>> /\ work[p][1][1] = "put_config" /\ Head(work[p]) = work[p][1]
      /\ Proper(View, work[p][1])
  BY <1>1, AtFacts
<1>3. p \in Unsealers
  BY <1>1, AtUnsealer DEF UnsealOps
<1>4. OpIn(p, {"put_config"}) /\ Tail(work[p]) = <<>>
  BY <1>1, <1>2, LastAlone DEF OpIn
<1>5. recordKey = 0
  BY <1>2 DEF Proper, View
<1>6. deprecated = {}
  BY <1>5 DEF KeyInv, Blank, Shares
<1>7. View' = View /\ Grows(View, View')
  BY <1>1, <1>6, SameView DEF operators, ghosts
<1> DEFINE y == <<"barrier_init">>
<1>8. y[1] = "barrier_init"
  OBVIOUS
<1>9. Then(p, <<y>>)
  BY <1>1
<1> HIDE DEF y
<1>10. y[1] \in Ops(p) /\ Ends(y) /\ Proper(View, y)
  BY <1>3, <1>5, <1>8 DEF Ops, UnsealOps, Ends, Proper, View, PostOps
<1>11. Fits(View', p, <<y>>)
  BY <1>7, <1>10, FitsAlone
<1>12. Tasks' /\ Turn(p, <<y>>)
  BY <1>1, <1>2, <1>4, <1>7, <1>9, <1>11, Replaces
<1>13. QED
  BY <1>1, <1>3, <1>4, <1>5, <1>6, <1>12 DEF y

LEMMA NoElements ==
  ASSUME NEW S, NEW s \in Seq(S), ToSet(s) = {}
  PROVE  s = <<>>
<1>1. Len(s) \in Nat /\ DOMAIN s = 1..Len(s)
  BY LenProperties
<1>2. CASE Len(s) = 0
  BY <1>2, EmptySeq
<1>3. CASE Len(s) > 0
  <2>1. 1 \in DOMAIN s
    BY <1>1, <1>3
  <2>2. s[1] \in ToSet(s)
    BY <2>1 DEF ToSet
  <2>3. QED
    BY <2>2
<1>4. QED
  BY <1>1, <1>2, <1>3

LEMMA BarrierInitMoves ==
  ASSUME KeyInv, SoleUnsealer, NEW p \in Proc, BarrierInit(p)
  PROVE  /\ p \in Unsealers /\ Tasks' /\ OpIn(p, {"barrier_init"}) /\ recordKey = 0
         /\ \/ Turn(p, <<>>) /\ UNCHANGED gen
            \/ /\ gen' = gen + 1 /\ gen < MaxGen
               /\ Turn(p, <<<<"init_cipher", gen + 1>>, <<"put_record", gen + 1>>,
                            <<"reset_cipher">>, <<"unseal", gen + 1, state>>,
                            <<"split", gen + 1>>>>)
         /\ UNCHANGED <<storage, barrier, state, modules, handed, ops, ghosts>>
<1>1. Tasks /\ At(p, "barrier_init")
      /\ UNCHANGED <<storage, barrier, state, modules, handed, ops, ghosts>>
  BY DEF KeyInv, BarrierInit
<1>2. work[p] # <<>> /\ work[p][1][1] = "barrier_init" /\ Head(work[p]) = work[p][1]
      /\ Proper(View, work[p][1])
  BY <1>1, AtFacts
<1>3. p \in Unsealers
  BY <1>1, AtUnsealer DEF UnsealOps
<1>4. OpIn(p, {"barrier_init"}) /\ Tail(work[p]) = <<>>
  BY <1>1, <1>2, LastAlone DEF OpIn
<1>5. recordKey = 0
  BY <1>2 DEF Proper, View
<1>6. CASE gen = MaxGen
  <2>1. Refuse(p) /\ UNCHANGED gen
    BY <1>6 DEF BarrierInit
  <2>2. Grows(View, View')
    BY <1>1, <2>1, SameView DEF storage, ghosts
  <2>3. QED
    BY <1>1, <1>3, <1>4, <1>5, <2>1, <2>2, Refuses
<1>7. CASE gen # MaxGen
  <2> DEFINE k == gen + 1
             x1 == <<"init_cipher", k>> x2 == <<"put_record", k>> x3 == <<"reset_cipher">>
             x4 == <<"unseal", k, state>> x5 == <<"split", k>>
             w == <<x1, x2, x3, x4, x5>> v == View'
  <2>1. gen' = k /\ Then(p, w)
    BY <1>5, <1>7 DEF BarrierInit, unseal
  <2>2. /\ x1[1] = "init_cipher" /\ x1[2] = k /\ x2[1] = "put_record" /\ x2[2] = k
        /\ x3[1] = "reset_cipher" /\ x4[1] = "unseal" /\ x4[2] = k /\ x4[3] = state
        /\ x5[1] = "split" /\ x5[2] = k
    OBVIOUS
  <2>3. Len(w) = 5 /\ DOMAIN w = 1..5 /\ w[1] = x1 /\ w[2] = x2 /\ w[3] = x3 /\ w[4] = x4
        /\ w[5] = x5 /\ w # <<>> /\ w \in Seq({x1, x2, x3, x4, x5})
    OBVIOUS
  <2>4. k \in Key /\ gen < MaxGen
    BY <1>7, BoundAssumption DEF KeyInv, Shares, Key
  <2>5. handed = {} /\ Copy(View, state)
    BY <1>5 DEF KeyInv, Blank, Shares
  <2>6. state.shares \in Seq(Share) /\ ToSet(state.shares) = {}
    BY <2>5 DEF Copy, View, CoreState
  <2>7. state.shares = <<>>
    BY <2>6, NoElements
  <2>8. v.recordKey = 0 /\ v.gen = k /\ v.handed = View.handed
        /\ v.deprecated = View.deprecated /\ v.blind = View.blind
    BY <1>1, <1>5, <2>1 DEF View, storage, ghosts
  <2> HIDE DEF w, x1, x2, x3, x4, x5, k, v
  <2>9. Copy(v, state)
    BY <2>5, <2>8 DEF Copy, Fresh
  <2>10. /\ x1[1] \in Ops(p) /\ x2[1] \in Ops(p) /\ x3[1] \in Ops(p) /\ x4[1] \in Ops(p)
         /\ x5[1] \in Ops(p) /\ Ends(x5)
    BY <1>3, <2>2 DEF Ops, UnsealOps, Ends
  <2>11. Proper(v, x1) /\ Proper(v, x2) /\ Proper(v, x3) /\ Proper(v, x5)
    BY <2>2, <2>4, <2>8 DEF Proper, PostOps
  <2>12. Proper(v, x4)
    BY <2>2, <2>4, <2>7, <2>9 DEF Proper, PostOps
  <2>13. Follows(x1, x2) /\ Follows(x2, x3) /\ Follows(x3, x4) /\ Follows(x4, x5)
    BY <2>2 DEF Follows, Uses
  <2>14. IsSeq(w)
    BY <2>3, IsSeqOf
  <2>15. Linked(w)
    BY <2>3, <2>13 DEF Linked
  <2>16. \A i \in DOMAIN w : w[i] = x1 \/ w[i] = x2 \/ w[i] = x3 \/ w[i] = x4 \/ w[i] = x5
    BY <2>3
  <2>17. Fits(v, p, w)
    BY <2>3, <2>10, <2>11, <2>12, <2>14, <2>15, <2>16 DEF Fits, Part
  <2>18. IsSeq(<<>>)
    BY DEF IsSeq
  <2>19. w \o <<>> = w
    BY <2>14, <2>18, CatFacts, SeqFacts, SameSeq
  <2>20. work' = [work EXCEPT ![p] = w]
    BY <1>4, <2>1, <2>19 DEF Then
  <2>21. Tasks' /\ Turn(p, w)
    BY <1>1, <1>3, <1>5, <2>17, <2>20, TurnAlone DEF v
  <2>22. QED
    BY <1>1, <1>3, <1>4, <1>5, <2>1, <2>4, <2>21 DEF w, x1, x2, x3, x4, x5, k
<1>8. QED
  BY <1>6, <1>7

LEMMA PutRecordMoves ==
  ASSUME KeyInv, SoleUnsealer, NEW p \in Proc, PutRecord(p)
  PROVE  /\ p \in Unsealers /\ Tasks' /\ OpIn(p, {"put_record"}) /\ recordKey = 0
         /\ recordKey' = work[p][1][2] /\ recordKey' = gen /\ recordKey' \in Key
         /\ Popped(p) /\ Tail(work[p]) # <<>> /\ Tail(work[p])[1][1] = "reset_cipher"
         /\ UNCHANGED <<deprecated, written, barrier, state, modules, operators, ghosts>>
<1>1. Tasks /\ At(p, "put_record") /\ Then(p, <<>>)
      /\ UNCHANGED <<deprecated, written, barrier, state, modules, operators, ghosts>>
  BY DEF KeyInv, PutRecord
<1>2. work[p] # <<>> /\ work[p][1][1] = "put_record" /\ Head(work[p]) = work[p][1]
      /\ Proper(View, work[p][1]) /\ Fits(View, p, work[p])
  BY <1>1, AtFacts
<1>3. p \in Unsealers
  BY <1>1, AtUnsealer DEF UnsealOps
<1>4. OpIn(p, {"put_record"})
  BY <1>2 DEF OpIn
<1>5. recordKey' = work[p][1][2]
  BY <1>2 DEF PutRecord, Arg
<1>6. recordKey = 0 /\ work[p][1][2] = gen /\ work[p][1][2] \in Key
  BY <1>2 DEF Proper, View
<1> DEFINE w == work[p] t == Tail(w) v == View'
<1>7. Fits(View, p, t) /\ (t = <<>> => Ends(w[1])) /\ (t # <<>> => Follows(w[1], t[1]))
  BY <1>2, FitsTail
<1>8. t # <<>> /\ t[1][1] = "reset_cipher"
  BY <1>2, <1>7 DEF Ends, Follows
<1>9. IsSeq(w) /\ Linked(w) /\ IsSeq(t)
  BY <1>2, <1>7 DEF Fits, Part
<1>10. <<>> \o t = t
  BY <1>9, CatEmpty
<1>11. work' = [work EXCEPT ![p] = t]
  BY <1>1, <1>10 DEF Then
<1>12. /\ Len(w) \in Nat /\ DOMAIN w = 1..Len(w) /\ DOMAIN t = 1..Len(t)
       /\ Len(t) = Len(w) - 1 /\ \A i \in 1..Len(t) : t[i] = w[i + 1]
  BY <1>2, <1>9, SeqFacts, TailFacts
<1>13. v.recordKey = gen /\ v.gen = gen /\ v.handed = handed /\ v.deprecated = deprecated
       /\ v.blind = blind /\ 0 \notin Key
  BY <1>1, <1>5, <1>6 DEF View, operators, ghosts, Key
<1>14. w[1][1] = "put_record"
  BY <1>2
<1>15. Part(View, p, t)
  BY <1>7 DEF Fits
<1> HIDE DEF w, t, v
<1>16. ASSUME NEW i \in DOMAIN t PROVE Proper(v, t[i])
  <2>1. i \in DOMAIN w /\ i + 1 \in DOMAIN w /\ t[i] = w[i + 1]
    BY <1>12, <1>16
  <2>2. Follows(w[i], t[i])
    BY <1>9, <2>1 DEF Linked
  <2>3. w[i][1] # "init_cipher"
    <3>1. CASE i = 1
      BY <1>14, <3>1
    <3>2. CASE i # 1
      <4>1. i - 1 \in DOMAIN w /\ i = (i - 1) + 1
        BY <1>12, <1>16, <3>2
      <4>2. Follows(w[i - 1], w[i])
        BY <1>9, <2>1, <4>1 DEF Linked
      <4>3. QED
        BY <4>2 DEF Follows, Uses
    <3>3. QED
      BY <3>1, <3>2
  <2> DEFINE x == t[i]
  <2>4. x[1] \notin {"put_config", "barrier_init", "put_record"}
    BY <2>2, <2>3 DEF Follows, Uses
  <2>5. Proper(View, x)
    BY <1>15, <1>16 DEF Part
  <2> HIDE DEF x
  <2>6. Proper(v, x)
    BY <2>4, <2>5, <1>6, <1>13 DEF Proper, Copy, Fresh, View
  <2>7. QED
    BY <2>6 DEF x
<1>17. Fits(v, p, t)
  BY <1>7, <1>16 DEF Fits, Part
<1>18. Tasks' /\ Turn(p, t)
  BY <1>1, <1>3, <1>6, <1>11, <1>17, TurnAlone DEF v
<1>19. Popped(p) /\ Tail(work[p]) # <<>> /\ Tail(work[p])[1][1] = "reset_cipher"
  BY <1>2, <1>7, <1>8, <1>18 DEF Popped, t, w
<1>20. QED
  BY <1>1, <1>3, <1>4, <1>5, <1>6, <1>18, <1>19

LEMMA SplitMoves ==
  ASSUME KeyInv, NEW p \in Proc, Split(p)
  PROVE  /\ p \in Unsealers /\ Tasks' /\ OpIn(p, {"split"}) /\ recordKey # 0
         /\ work[p][1][2] = recordKey
         /\ \/ Turn(p, <<>>) /\ UNCHANGED state /\ (barrier.sealed \/ barrier.key = None)
            \/ /\ ~barrier.sealed /\ barrier.key # None
               /\ state' = [state EXCEPT !.sealed = FALSE, !.kek = recordKey]
               /\ \/ Turn(p, <<>>) /\ N > 1 /\ T < 2
                  \/ \E w : /\ Turn(p, w) /\ w # <<>> /\ w[1] = <<"load", TRUE>>
                            /\ \A x \in ToSet(w) : x[1] \in PostOps \cup {"init_done"}
                            /\ \E x \in ToSet(w) : x[1] = "init_done"
         /\ UNCHANGED <<storage, barrier, modules, operators, ghosts>>
<1>1. Tasks /\ At(p, "split") /\ UNCHANGED <<storage, barrier, modules, operators, ghosts>>
  BY DEF KeyInv, Split
<1>2. work[p] # <<>> /\ work[p][1][1] = "split" /\ Head(work[p]) = work[p][1]
      /\ Proper(View, work[p][1])
  BY <1>1, AtFacts
<1>3. p \in Unsealers
  BY <1>1, AtUnsealer DEF UnsealOps
<1>4. OpIn(p, {"split"}) /\ Tail(work[p]) = <<>>
  BY <1>1, <1>2, LastAlone DEF OpIn
<1>5. View' = View /\ Grows(View, View')
  BY <1>1, SameView DEF storage, operators, ghosts
<1>6. recordKey # 0
  BY <1>3, <1>4 DEF KeyInv, Stages, OpIn
<1>7. work[p][1][2] = recordKey /\ Arg(p, 2) = recordKey /\ recordKey \in Key
  BY <1>2, <1>6 DEF Proper, View, Arg
<1>8. CASE barrier.sealed \/ barrier.key = None
  <2>1. Refuse(p) /\ UNCHANGED state
    BY <1>8 DEF Split
  <2>2. QED
    BY <1>1, <1>3, <1>4, <1>5, <1>6, <1>7, <1>8, <2>1, Refuses
<1>9. ASSUME ~(barrier.sealed \/ barrier.key = None)
      PROVE  state' = [state EXCEPT !.sealed = FALSE, !.kek = recordKey]
  BY <1>7, <1>9 DEF Split
<1>10. CASE ~(barrier.sealed \/ barrier.key = None) /\ N > 1 /\ T < 2
  <2>1. Refuse(p)
    BY <1>10 DEF Split
  <2>2. QED
    BY <1>1, <1>3, <1>4, <1>5, <1>6, <1>7, <1>9, <1>10, <2>1, Refuses
<1>11. CASE ~(barrier.sealed \/ barrier.key = None) /\ ~(N > 1 /\ T < 2)
  <2> DEFINE a == post_unseal(TRUE) y == <<"init_done", recordKey>> w == a \o <<y>> v == View
  <2>1. Then(p, w)
    BY <1>7, <1>11 DEF Split
  <2>2. y[1] = "init_done" /\ y[2] = recordKey
    OBVIOUS
  <2>3. v.recordKey # 0 /\ View' = v /\ v.recordKey = recordKey
    BY <1>5, <1>6 DEF View
  <2>4. Grows(View, View')
    BY <1>5
  <2> HIDE DEF v
  <2>5. /\ Part(v, p, a) /\ a # <<>> /\ Len(a) = 4 /\ a[1] = <<"load", TRUE>>
        /\ a[4] = <<"policy", TRUE>> /\ \A x \in ToSet(a) : x[1] \in PostOps
    BY <1>3, <2>3, PostFits
  <2> HIDE DEF a, y
  <2>6. a[4][1] = "policy" /\ a[4][2] = TRUE
    BY <2>5
  <2>7. y[1] \in Ops(p) /\ Ends(y) /\ Follows(a[Len(a)], y)
    BY <1>3, <2>2, <2>5, <2>6 DEF Ops, UnsealOps, Ends, Follows
  <2>8. Proper(v, y)
    BY <1>6, <1>7, <2>2, <2>3 DEF Proper, PostOps
  <2>9. Fits(v, p, <<y>>) /\ <<y>> # <<>> /\ <<y>>[1] = y
    BY <2>7, <2>8, FitsAlone
  <2>10. Fits(v, p, a \o <<y>>) /\ a \o <<y>> # <<>> /\ (a \o <<y>>)[1] = a[1]
    <3> DEFINE b == <<y>>
    <3>1. Fits(v, p, b) /\ b # <<>> /\ Follows(a[Len(a)], b[1]) /\ Part(v, p, a) /\ a # <<>>
      BY <2>5, <2>7, <2>9
    <3> HIDE DEF b
    <3>2. Fits(v, p, a \o b) /\ a \o b # <<>> /\ (a \o b)[1] = a[1]
      BY <3>1, FitsMore
    <3>3. QED
      BY <3>2 DEF b
  <2>11. IsSeq(a) /\ IsSeq(<<y>>)
    BY <2>5, <2>9 DEF Fits, Part
  <2>12. ToSet(w) = ToSet(a) \cup {y}
    <3>1. ToSet(<<y>>) = {y}
      BY DEF ToSet
    <3>2. QED
      BY <3>1, <2>11, ToSetCat
  <2>13. Fits(View', p, w) /\ w # <<>> /\ w[1] = <<"load", TRUE>>
    BY <2>3, <2>5, <2>10
  <2> HIDE DEF w
  <2>14. Tasks' /\ Turn(p, w)
    BY <1>1, <1>2, <1>4, <2>1, <2>4, <2>13, Replaces
  <2>15. /\ \A x \in ToSet(w) : x[1] \in PostOps \cup {"init_done"}
         /\ \E x \in ToSet(w) : x[1] = "init_done"
    BY <2>2, <2>5, <2>12
  <2>16. QED
    BY <1>1, <1>3, <1>4, <1>6, <1>7, <1>9, <1>11, <2>13, <2>14, <2>15
<1>12. QED
  BY <1>8, <1>10, <1>11

LEMMA InitDoneMoves ==
  ASSUME KeyInv, NEW p \in Proc, InitDone(p)
  PROVE  /\ p \in Unsealers /\ Tasks' /\ OpIn(p, {"init_done"}) /\ recordKey # 0
         /\ recordKey \in Key /\ Grows(View, View')
         /\ Turn(p, <<>>)
         /\ IF Readable THEN handed' = handed \cup Polynomial(recordKey, recordKey)
                             /\ mounted' = FALSE /\ handler' = FALSE
            ELSE UNCHANGED <<handed, mounted, handler>>
         /\ barrier' = [sealed |-> TRUE, key |-> None] /\ state' = DefaultState
         /\ late' = (late \/ Sealing)
         /\ UNCHANGED <<storage, made, gen, ops, blind, cut, faults>>
<1>1. Tasks /\ At(p, "init_done") /\ Then(p, <<>>)
      /\ UNCHANGED <<storage, made, gen, ops, blind, cut, faults>>
      /\ barrier' = [sealed |-> TRUE, key |-> None] /\ state' = DefaultState
      /\ late' = (late \/ Sealing)
  BY DEF KeyInv, InitDone
<1>2. work[p] # <<>> /\ work[p][1][1] = "init_done" /\ Head(work[p]) = work[p][1]
      /\ Proper(View, work[p][1])
  BY <1>1, AtFacts
<1>3. p \in Unsealers
  BY <1>1, AtUnsealer DEF UnsealOps
<1>4. OpIn(p, {"init_done"}) /\ Tail(work[p]) = <<>>
  BY <1>1, <1>2, LastAlone DEF OpIn
<1>5. recordKey # 0 /\ Arg(p, 2) = recordKey /\ recordKey \in Key
  BY <1>2 DEF Proper, View, Arg
<1>6. IF Readable THEN handed' = handed \cup Polynomial(recordKey, recordKey)
                       /\ mounted' = FALSE /\ handler' = FALSE
      ELSE UNCHANGED <<handed, mounted, handler>>
  BY <1>5 DEF InitDone
<1>7. Grows(View, View')
  <2>1. handed \subseteq handed'
    BY <1>6
  <2>2. QED
    BY <1>1, <1>5, <2>1 DEF Grows, View, storage
<1>8. Tasks' /\ Turn(p, Tail(work[p]))
  BY <1>1, <1>2, <1>7, GoesOn
<1>9. Turn(p, <<>>)
  BY <1>4, <1>8
<1>10. QED
  BY <1>1, <1>3, <1>4, <1>5, <1>6, <1>7, <1>8, <1>9

(* A step of post_unseal,                                                   *)
LEMMA PostMoves ==
  ASSUME KeyInv, NEW p \in Proc, NEW op \in PostOps, At(p, op), Then(p, <<>>), View' = View
  PROVE  /\ p \in Unsealers /\ Tasks' /\ OpIn(p, {op}) /\ OpIn(p, PostOps) /\ recordKey # 0
         /\ Popped(p) /\ work[p][1][1] = op
<1>1. Grows(View, View')
  BY DEF Grows
<1>2. Tasks' /\ Popped(p) /\ work[p][1][1] = op /\ Proper(View, work[p][1])
  BY <1>1, Pops DEF KeyInv
<1>3. work[p] # <<>> /\ OpIn(p, {op}) /\ OpIn(p, PostOps)
  BY <1>2 DEF Popped, OpIn
<1>4. p \in Unsealers
  BY AtUnsealer DEF KeyInv, UnsealOps, PostOps
<1>5. recordKey # 0
  BY <1>2 DEF Proper, View
<1>6. QED
  BY <1>2, <1>3, <1>4, <1>5

(* and its failure.                                                         *)
LEMMA PostFailedMoves ==
  ASSUME KeyInv, NEW p \in Proc, NEW op \in PostOps, At(p, op), PostFailed(p), View' = View
  PROVE  /\ p \in Unsealers /\ Tasks' /\ OpIn(p, {op}) /\ OpIn(p, PostOps) /\ recordKey # 0
         /\ Turn(p, <<>>) /\ work[p][1][1] = op /\ work[p][1][2] \in BOOLEAN
         /\ state' = DefaultState
         /\ barrier' = IF work[p][1][2] THEN [sealed |-> TRUE, key |-> None] ELSE barrier
         /\ late' = (late \/ (work[p][1][2] /\ Sealing))
<1>1. Grows(View, View')
  BY DEF Grows
<1>2. Tasks /\ Refuse(p)
  BY DEF KeyInv, PostFailed
<1>3. Tasks' /\ Turn(p, <<>>)
  BY <1>1, <1>2, Refuses
<1>4. work[p] # <<>> /\ work[p][1][1] = op /\ Head(work[p]) = work[p][1]
      /\ Proper(View, work[p][1])
  BY <1>2, AtFacts
<1>5. OpIn(p, {op}) /\ OpIn(p, PostOps)
  BY <1>4 DEF OpIn
<1>6. p \in Unsealers
  BY <1>2, AtUnsealer DEF UnsealOps, PostOps
<1>7. recordKey # 0 /\ work[p][1][2] \in BOOLEAN
  BY <1>4 DEF Proper, View
<1>8. QED
  BY <1>3, <1>4, <1>5, <1>6, <1>7 DEF PostFailed, Arg

-----------------------------------------------------------------------------
(* The first layer: every step keeps it.                                    *)

LEMMA StagesOf ==
  ASSUME SoleUnsealer, NEW p \in Unsealers, NEW w, Turn(p, w),
         w # <<>> => /\ w[1][1] \in Closed => barrier'.sealed
                     /\ w[1][1] = "open" => barrier'.key \in {Enc, None}
                     /\ w[1][1] \in {"reset_cipher", "unseal", "split"} => recordKey' # 0
                     /\ w[1][1] = "deprecate" => state'.shares = <<>>
                     /\ w[1][1] \in PostOps /\ ~w[1][2] => state'.shares = <<>>
  PROVE  Stages'
<1>1. \A q \in Unsealers : q = p
  BY DEF SoleUnsealer
<1>2. work'[p] = w
  BY DEF Turn
<1>3. QED
  BY <1>1, <1>2 DEF Stages, OpIn

LEMMA StagesNone ==
  ASSUME SoleUnsealer, NEW p \in Unsealers, Turn(p, <<>>)
  PROVE  Stages'
<1>1. \A q \in Unsealers : q = p
  BY DEF SoleUnsealer
<1>2. work'[p] = <<>>
  BY DEF Turn
<1>3. QED
  BY <1>1, <1>2 DEF Stages, OpIn

LEMMA StagesOthers ==
  ASSUME Stages, NEW p \in Proc, p \notin Unsealers, NEW w, Turn(p, w),
         barrier.sealed => barrier'.sealed, barrier'.key = barrier.key \/ barrier'.key = None,
         recordKey' = recordKey, state'.shares = state.shares \/ state'.shares = <<>>
  PROVE  Stages'
<1>1. \A q \in Unsealers : work'[q] = work[q]
  BY DEF Turn, Proc
<1>2. QED
  BY <1>1 DEF Stages, OpIn

LEMMA DefaultCopy ==
  ASSUME NEW v
  PROVE  Copy(v, DefaultState) /\ DefaultState.shares = <<>> /\ DefaultState.sealed
<1>1. ToSet(<<>>) = {} /\ <<>> \in Seq(Share) /\ Len(<<>>) = 0
  BY DEF ToSet
<1>2. DefaultState \in CoreState
  BY <1>1 DEF DefaultState, CoreState
<1>3. 0 < T
  BY ConfigAssumption
<1>4. QED
  BY <1>1, <1>2, <1>3 DEF Copy, Fresh, DefaultState

(* Actions that touch neither the shares, nor the barrier, nor the state.   *)
LEMMA RestKept ==
  ASSUME KeyInv, UNCHANGED <<storage, barrier, state, modules, gen, handed, ghosts>>
  PROVE  Flags' /\ Shares' /\ Blank' /\ Barrier'
<1>1. View' = View
  BY DEF View, storage, ghosts
<1>2. Flags'
  BY DEF KeyInv, Flags, modules, ghosts
<1>3. Shares'
  BY <1>1 DEF KeyInv, Shares, storage, Copy, Fresh
<1>4. Blank'
  BY DEF KeyInv, Blank, storage, modules
<1>5. Barrier'
  BY DEF KeyInv, Barrier, storage
<1>6. QED
  BY <1>2, <1>3, <1>4, <1>5

LEMMA SubmitKeys ==
  ASSUME KeyInv, SoleUnsealer, NEW p \in Proc, Submit(p)
  PROVE  KeyInv'
<1>1. PICK x \in handed, once \in BOOLEAN :
        /\ p \in Unsealers /\ Tasks' /\ Turn(p, <<<<"do_unseal", x, once>>>>)
        /\ UNCHANGED <<storage, barrier, state, modules, gen, handed, ghosts>>
  BY SubmitMoves
<1> DEFINE w == <<<<"do_unseal", x, once>>>>
<1>2. w[1][1] = "do_unseal"
  OBVIOUS
<1> HIDE DEF w
<1>3. Stages'
  <2>1. Turn(p, w)
    BY <1>1 DEF w
  <2>2. QED
    BY <1>1, <1>2, <2>1, StagesOf DEF Closed, PostOps
<1>4. QED
  BY <1>1, <1>3, RestKept DEF KeyInv

LEMMA InitialiseKeys ==
  ASSUME KeyInv, SoleUnsealer, NEW p \in Proc, Initialise(p)
  PROVE  KeyInv'
<1>1. /\ p \in Unsealers /\ Tasks'
      /\ Turn(p, <<>>) \/ Turn(p, <<<<"put_config">>>>)
      /\ UNCHANGED <<storage, barrier, state, modules, gen, handed, ghosts>>
  BY InitialiseMoves
<1>2. CASE Turn(p, <<>>)
  BY <1>1, <1>2, StagesNone, RestKept DEF KeyInv
<1>3. CASE Turn(p, <<<<"put_config">>>>)
  <2> DEFINE w == <<<<"put_config">>>>
  <2>1. w[1][1] = "put_config" /\ Turn(p, w)
    BY <1>3
  <2> HIDE DEF w
  <2>2. Stages'
    BY <1>1, <2>1, StagesOf DEF Closed, PostOps
  <2>3. QED
    BY <1>1, <2>2, RestKept DEF KeyInv
<1>4. QED
  BY <1>1, <1>2, <1>3

LEMMA SealKeys ==
  ASSUME KeyInv, NEW p \in Proc, Seal(p)
  PROVE  KeyInv'
<1>1. PICK w : /\ p \notin Unsealers /\ Tasks' /\ Turn(p, w)
               /\ UNCHANGED <<storage, barrier, state, modules, gen, handed, ghosts>>
  BY SealMoves
<1>2. Stages'
  BY <1>1, StagesOthers DEF KeyInv, storage
<1>3. QED
  BY <1>1, <1>2, RestKept DEF KeyInv

LEMMA WriteKeys ==
  ASSUME KeyInv, NEW p \in Proc, Write(p)
  PROVE  KeyInv'
<1>1. PICK w : /\ p \notin Unsealers /\ Tasks' /\ Turn(p, w)
               /\ UNCHANGED <<storage, barrier, state, modules, gen, handed, ghosts>>
  BY WriteMoves
<1>2. Stages'
  BY <1>1, StagesOthers DEF KeyInv, storage
<1>3. QED
  BY <1>1, <1>2, RestKept DEF KeyInv

LEMMA BarrierUnsealKeys ==
  ASSUME KeyInv, SoleUnsealer, NEW p \in Proc, BarrierUnseal(p)
  PROVE  KeyInv'
<1> DEFINE x == <<"init_cipher", Arg(p, 2)>> y == <<"decrypt", Arg(p, 2), Arg(p, 3)>>
           s == <<x, y>> t == Tail(work[p])
<1>1. /\ p \in Unsealers /\ barrier.sealed /\ Tasks' /\ Turn(p, s \o t) /\ OpIn(p, {"unseal"})
      /\ UNCHANGED <<storage, barrier, state, modules, operators, ghosts>>
  BY BarrierUnsealMoves
<1>2. s # <<>> /\ s[1] = x /\ x[1] = "init_cipher" /\ IsSeq(s)
  BY IsSeqOf DEF IsSeq
<1>3. IsSeq(t)
  BY <1>1, TailFacts DEF KeyInv, Tasks, Fits, Part, OpIn
<1> HIDE DEF x, s, t
<1>4. (s \o t)[1][1] = "init_cipher"
  BY <1>2, <1>3, CatEnds
<1>5. Stages'
  <2> DEFINE w == s \o t
  <2>1. Turn(p, w) /\ w[1][1] = "init_cipher"
    BY <1>1, <1>4
  <2> HIDE DEF w
  <2>2. QED
    BY <1>1, <2>1, StagesOf DEF Closed, PostOps
<1>6. QED
  BY <1>1, <1>5, RestKept DEF KeyInv, operators

LEMMA InitCipherKeys ==
  ASSUME KeyInv, SoleUnsealer, NEW p \in Proc, InitCipher(p)
  PROVE  KeyInv'
<1>1. At(p, "init_cipher") /\ Then(p, <<>>) /\ barrier' = [barrier EXCEPT !.key = Arg(p, 2)]
      /\ UNCHANGED <<storage, state, modules, operators, ghosts>>
  BY DEF InitCipher
<1>2. View' = View /\ Grows(View, View')
  BY <1>1, SameView DEF storage, operators, ghosts
<1>3. Tasks' /\ Popped(p) /\ work[p][1][1] = "init_cipher" /\ Head(work[p]) = work[p][1]
      /\ Proper(View, work[p][1])
  BY <1>1, <1>2, Pops DEF KeyInv
<1>4. p \in Unsealers
  BY <1>1, AtUnsealer DEF KeyInv, UnsealOps
<1>5. barrier.sealed
  BY <1>3, <1>4 DEF KeyInv, Stages, OpIn, Closed, Popped
<1>6. Arg(p, 2) \in Key \cup {Wrong}
  BY <1>3 DEF Proper, Arg
<1>7. barrier' \in [sealed : BOOLEAN, key : Cipher] /\ barrier'.sealed
  BY <1>1, <1>5, <1>6 DEF KeyInv, Barrier, Cipher
<1>8. Flags' /\ Shares' /\ Blank'
  BY <1>1, <1>2, <1>7 DEF KeyInv, Flags, Shares, Blank, modules, ghosts, storage, operators, Copy, Fresh
<1>9. Barrier'
  BY <1>1, <1>7 DEF KeyInv, Barrier, storage
<1>10. Stages'
  <2> DEFINE w == Tail(work[p])
  <2>1. Turn(p, w) /\ (w # <<>> => w[1][1] \in {"decrypt", "put_record"})
    BY <1>3 DEF Popped, Follows
  <2> HIDE DEF w
  <2>2. QED
    BY <1>4, <1>7, <2>1, StagesOf DEF PostOps
<1>11. QED
  BY <1>3, <1>8, <1>9, <1>10 DEF KeyInv

LEMMA DecryptKeys ==
  ASSUME KeyInv, SoleUnsealer, NEW p \in Proc, Decrypt(p)
  PROVE  KeyInv'
<1>1. /\ p \in Unsealers /\ Tasks' /\ OpIn(p, {"decrypt"}) /\ Proper(View, work[p][1])
      /\ UNCHANGED <<storage, modules, operators, ghosts>>
  BY DecryptMoves
<1>2. View' = View
  BY <1>1, SameView DEF storage, operators, ghosts
<1>3. barrier.sealed /\ recordKey # 0 /\ Copy(View, work[p][1][3])
  BY <1>1 DEF KeyInv, Stages, OpIn, Closed, Proper, View
<1>4. Flags'
  BY <1>1 DEF KeyInv, Flags, modules, ghosts
<1>5. CASE work[p][1][2] = recordKey
  <2> DEFINE w == <<<<"open">>>> \o Tail(work[p])
  <2>1. Turn(p, w) /\ w[1] = <<"open">> /\ barrier' = [barrier EXCEPT !.key = Enc]
        /\ UNCHANGED state
    BY <1>5, DecryptMoves
  <2> HIDE DEF w
  <2>2. barrier' \in [sealed : BOOLEAN, key : Cipher] /\ barrier'.sealed /\ barrier'.key = Enc
    BY <1>3, <2>1 DEF KeyInv, Barrier, Cipher
  <2>3. Shares' /\ Blank' /\ Barrier'
    BY <1>1, <1>2, <1>3, <2>1, <2>2
       DEF KeyInv, Shares, Blank, Barrier, storage, operators, Copy, Fresh
  <2>4. w[1][1] = "open"
    BY <2>1
  <2>5. Stages'
    BY <1>1, <2>1, <2>2, <2>4, StagesOf DEF PostOps
  <2>6. QED
    BY <1>1, <1>4, <2>3, <2>5 DEF KeyInv
<1>6. CASE work[p][1][2] # recordKey
  <2>1. Turn(p, <<>>) /\ state' = work[p][1][3] /\ UNCHANGED barrier
    BY <1>6, DecryptMoves
  <2>2. Copy(View, state')
    BY <1>3, <2>1
  <2>3. Shares' /\ Blank' /\ Barrier'
    BY <1>1, <1>2, <1>3, <2>1, <2>2
       DEF KeyInv, Shares, Blank, Barrier, storage, operators, Copy, Fresh
  <2>4. QED
    BY <1>1, <1>4, <2>1, <2>3, StagesNone DEF KeyInv
<1>7. QED
  BY <1>5, <1>6

LEMMA OpenKeys ==
  ASSUME KeyInv, SoleUnsealer, NEW p \in Proc, Open(p)
  PROVE  KeyInv'
<1>1. At(p, "open") /\ Then(p, <<>>) /\ barrier' = [barrier EXCEPT !.sealed = FALSE]
      /\ UNCHANGED <<storage, state, modules, operators, ghosts>>
  BY DEF Open
<1>2. View' = View /\ Grows(View, View')
  BY <1>1, SameView DEF storage, operators, ghosts
<1>3. Tasks' /\ Popped(p) /\ work[p][1][1] = "open" /\ Proper(View, work[p][1])
  BY <1>1, <1>2, Pops DEF KeyInv
<1>4. p \in Unsealers
  BY <1>1, AtUnsealer DEF KeyInv, UnsealOps
<1>5. barrier.key \in {Enc, None} /\ recordKey # 0
  BY <1>3, <1>4 DEF KeyInv, Stages, OpIn, Popped, Proper, View
<1>6. barrier' \in [sealed : BOOLEAN, key : Cipher] /\ barrier'.key = barrier.key
  BY <1>1 DEF KeyInv, Barrier
<1>7. Flags' /\ Shares' /\ Blank' /\ Barrier'
  BY <1>1, <1>2, <1>5, <1>6
     DEF KeyInv, Flags, Shares, Blank, Barrier, modules, ghosts, storage, operators, Copy, Fresh
<1>8. Stages'
  <2> DEFINE w == Tail(work[p])
  <2>1. Turn(p, w) /\ (w # <<>> => w[1][1] \in {"opened", "split"})
    BY <1>3 DEF Popped, Follows
  <2>2. recordKey' # 0
    BY <1>1, <1>5 DEF storage
  <2> HIDE DEF w
  <2>3. QED
    BY <1>4, <2>1, <2>2, StagesOf DEF Closed, PostOps
<1>9. QED
  BY <1>3, <1>7, <1>8 DEF KeyInv

LEMMA ResetCipherKeys ==
  ASSUME KeyInv, SoleUnsealer, NEW p \in Proc, ResetCipher(p)
  PROVE  KeyInv'
<1>1. At(p, "reset_cipher") /\ Then(p, <<>>) /\ barrier' = [barrier EXCEPT !.key = None]
      /\ UNCHANGED <<storage, state, modules, operators, ghosts>>
  BY DEF ResetCipher
<1>2. View' = View /\ Grows(View, View')
  BY <1>1, SameView DEF storage, operators, ghosts
<1>3. Tasks' /\ Popped(p) /\ work[p][1][1] = "reset_cipher"
  BY <1>1, <1>2, Pops DEF KeyInv
<1>4. barrier' \in [sealed : BOOLEAN, key : Cipher] /\ barrier'.key = None
      /\ barrier'.sealed = barrier.sealed
  BY <1>1 DEF KeyInv, Barrier, Cipher
<1>5. Flags' /\ Shares' /\ Blank' /\ Barrier'
  BY <1>1, <1>2, <1>4
     DEF KeyInv, Flags, Shares, Blank, Barrier, modules, ghosts, storage, operators, Copy, Fresh
<1>6. Stages'
  <2> DEFINE w == Tail(work[p])
  <2>1. Turn(p, w) /\ (w # <<>> => w[1][1] \in {"unseal", "close"})
    BY <1>3 DEF Popped, Follows
  <2> HIDE DEF w
  <2>2. CASE p \in Unsealers
    <3>1. barrier.sealed /\ recordKey # 0
      BY <1>3, <2>2 DEF KeyInv, Stages, OpIn, Closed, Popped
    <3>2. recordKey' # 0 /\ barrier'.sealed
      BY <1>1, <1>4, <3>1 DEF storage
    <3>3. QED
      BY <2>1, <2>2, <3>2, StagesOf DEF PostOps
  <2>3. CASE p \notin Unsealers
    BY <1>1, <1>4, <2>1, <2>3, StagesOthers DEF KeyInv, storage
  <2>4. QED
    BY <2>2, <2>3
<1>7. QED
  BY <1>3, <1>5, <1>6 DEF KeyInv

LEMMA CloseKeys ==
  ASSUME KeyInv, NEW p \in Proc, Close(p)
  PROVE  KeyInv'
<1>1. At(p, "close") /\ Then(p, <<>>) /\ barrier' = [barrier EXCEPT !.sealed = TRUE]
      /\ UNCHANGED <<storage, state, modules, operators, ghosts>>
  BY DEF Close
<1>2. View' = View /\ Grows(View, View')
  BY <1>1, SameView DEF storage, operators, ghosts
<1>3. Tasks' /\ Popped(p)
  BY <1>1, <1>2, Pops DEF KeyInv
<1>4. p \notin Unsealers
  BY <1>1, AtOther DEF KeyInv
<1>5. barrier' \in [sealed : BOOLEAN, key : Cipher] /\ barrier'.key = barrier.key
      /\ barrier'.sealed
  BY <1>1 DEF KeyInv, Barrier
<1>6. Flags' /\ Shares' /\ Blank' /\ Barrier'
  BY <1>1, <1>2, <1>5
     DEF KeyInv, Flags, Shares, Blank, Barrier, modules, ghosts, storage, operators, Copy, Fresh
<1>7. Stages'
  BY <1>1, <1>3, <1>4, <1>5, StagesOthers DEF KeyInv, storage, Popped
<1>8. QED
  BY <1>3, <1>6, <1>7 DEF KeyInv

LEMMA DoUnsealKeys ==
  ASSUME KeyInv, SoleUnsealer, NEW p \in Proc, DoUnseal(p)
  PROVE  KeyInv'
<1> DEFINE w == <<<<"count", work[p][1][2], work[p][1][3], state>>>>
<1>1. /\ p \in Unsealers /\ Tasks'
      /\ Turn(p, <<>>) \/ (barrier.sealed /\ Turn(p, w))
      /\ UNCHANGED <<storage, barrier, state, modules, operators, ghosts>>
  BY DoUnsealMoves
<1>2. w[1][1] = "count"
  OBVIOUS
<1> HIDE DEF w
<1>3. Flags' /\ Shares' /\ Blank' /\ Barrier'
  BY <1>1, RestKept DEF operators
<1>4. CASE Turn(p, <<>>)
  BY <1>1, <1>3, <1>4, StagesNone DEF KeyInv
<1>5. CASE barrier.sealed /\ Turn(p, w)
  <2>1. Stages'
    BY <1>1, <1>2, <1>5, StagesOf DEF PostOps
  <2>2. QED
    BY <1>1, <1>3, <2>1 DEF KeyInv
<1>6. QED
  BY <1>1, <1>4, <1>5

LEMMA CountKeys ==
  ASSUME KeyInv, SoleUnsealer, NEW p \in Proc, Count(p)
  PROVE  KeyInv'
<1>1. /\ p \in Unsealers /\ Tasks' /\ OpIn(p, {"count"})
      /\ recordKey # 0 /\ Grows(View, View') /\ Copy(View', state')
      /\ Turn(p, <<>>) \/ \E k, c, s, r :
           Turn(p, <<<<"unseal", k, c>>, <<"opened", s, work[p][1][3], r, deprecated>>>>)
      /\ (faults' = faults /\ blind' = blind) \/ (faults' = faults + 1 /\ blind' = TRUE)
      /\ UNCHANGED <<storage, barrier, modules, operators, cut, late>>
  BY CountMoves
<1>2. barrier.sealed
  BY <1>1 DEF KeyInv, Stages, OpIn, Closed
<1>3. Flags'
  <2>1. faults \in Nat /\ faults + 1 \in Nat /\ blind \in BOOLEAN
    BY DEF KeyInv, Flags
  <2>2. faults' \in Nat /\ blind' \in BOOLEAN
    BY <1>1, <2>1, Zenon
  <2>3. QED
    BY <1>1, <2>2 DEF KeyInv, Flags, modules
<1>4. Shares'
  BY <1>1 DEF KeyInv, Shares, storage, operators
<1>5. Blank' /\ Barrier'
  BY <1>1, <1>2 DEF KeyInv, Blank, Barrier, storage, operators
<1>6. CASE Turn(p, <<>>)
  BY <1>1, <1>3, <1>4, <1>5, <1>6, StagesNone DEF KeyInv
<1>7. CASE \E k, c, s, r :
             Turn(p, <<<<"unseal", k, c>>, <<"opened", s, work[p][1][3], r, deprecated>>>>)
  <2>1. PICK w : Turn(p, w) /\ w[1][1] = "unseal"
    <3>1. PICK k, c, s, r :
            Turn(p, <<<<"unseal", k, c>>, <<"opened", s, work[p][1][3], r, deprecated>>>>)
      BY <1>7
    <3> DEFINE w == <<<<"unseal", k, c>>, <<"opened", s, work[p][1][3], r, deprecated>>>>
    <3>2. Turn(p, w) /\ w[1][1] = "unseal"
      BY <3>1
    <3>3. QED
      BY <3>2
  <2>2. barrier'.sealed /\ recordKey' # 0
    BY <1>1, <1>2 DEF storage
  <2>3. Stages'
    BY <1>1, <2>1, <2>2, StagesOf DEF PostOps
  <2>4. QED
    BY <1>1, <1>3, <1>4, <1>5, <2>3 DEF KeyInv
<1>8. QED
  BY <1>1, <1>6, <1>7

LEMMA OpenedKeys ==
  ASSUME KeyInv, SoleUnsealer, NEW p \in Proc, Opened(p)
  PROVE  KeyInv'
<1>1. /\ p \in Unsealers /\ Tasks' /\ recordKey # 0
      /\ UNCHANGED <<storage, barrier, modules, operators, ghosts>>
  BY OpenedMoves
<1>2. View' = View
  BY <1>1, SameView DEF storage, operators, ghosts
<1>3. Flags'
  BY <1>1 DEF KeyInv, Flags, modules, ghosts
<1>4. Blank' /\ Barrier'
  BY <1>1 DEF KeyInv, Blank, Barrier, storage, operators
<1>5. CASE Turn(p, <<>>) /\ UNCHANGED state
  <2>1. Shares'
    BY <1>1, <1>2, <1>5 DEF KeyInv, Shares, storage, operators, Copy, Fresh
  <2>2. QED
    BY <1>1, <1>3, <1>4, <1>5, <2>1, StagesNone DEF KeyInv
<1>6. CASE ~(Turn(p, <<>>) /\ UNCHANGED state)
  <2>1. /\ state' = [sealed |-> FALSE, shares |-> <<>>, kek |-> Combined(work[p][1][2])]
        /\ Combined(work[p][1][2]) \in Key \cup {Wrong}
        /\ \E w : Turn(p, w) /\ w[1] = <<"load", FALSE>>
    BY <1>6, OpenedMoves
  <2> DEFINE k == Combined(work[p][1][2])
  <2>2. state' = [sealed |-> FALSE, shares |-> <<>>, kek |-> k] /\ k \in Key \cup {Wrong}
    BY <2>1
  <2> HIDE DEF k
  <2>3. ToSet(<<>>) = {} /\ <<>> \in Seq(Share) /\ Len(<<>>) = 0
    BY DEF ToSet
  <2>4. state' \in CoreState /\ state'.shares = <<>> /\ ~state'.sealed
    BY <2>2, <2>3 DEF CoreState
  <2>5. Copy(View', state')
    <3>1. 0 < T
      BY ConfigAssumption
    <3>2. QED
      BY <2>3, <2>4, <3>1 DEF Copy, Fresh
  <2>6. Shares'
    BY <1>1, <2>5 DEF KeyInv, Shares, storage, operators
  <2>7. PICK w : Turn(p, w) /\ w[1][1] = "load"
    <3>1. PICK w : Turn(p, w) /\ w[1] = <<"load", FALSE>>
      BY <2>1
    <3>2. w[1][1] = "load"
      BY <3>1
    <3>3. QED
      BY <3>1, <3>2
  <2>8. Stages'
    BY <1>1, <2>4, <2>7, StagesOf DEF Closed
  <2>9. QED
    BY <1>1, <1>3, <1>4, <2>6, <2>8 DEF KeyInv
<1>7. QED
  BY <1>5, <1>6

LEMMA DeprecateKeys ==
  ASSUME KeyInv, SoleUnsealer, NEW p \in Proc, Deprecate(p)
  PROVE  KeyInv'
<1>1. /\ p \in Unsealers /\ Tasks' /\ OpIn(p, {"deprecate"}) /\ recordKey # 0
      /\ deprecated' \subseteq handed
      /\ UNCHANGED <<recordKey, written, barrier, state, modules, operators, ghosts>>
  BY DeprecateMoves
<1>2. PICK w : Turn(p, w) /\ w[1][1] = "generate"
  BY DeprecateMoves
<1>3. state.shares = <<>>
  BY <1>1 DEF KeyInv, Stages, OpIn
<1>4. ToSet(<<>>) = {}
  BY DEF ToSet
<1>5. View'.handed = View.handed
  BY <1>1 DEF View, operators
<1>6. Copy(View', state')
  BY <1>1, <1>3, <1>4, <1>5 DEF KeyInv, Shares, Copy, Fresh
<1>7. Shares'
  BY <1>1, <1>6 DEF KeyInv, Shares, operators
<1>8. Flags' /\ Blank' /\ Barrier'
  BY <1>1 DEF KeyInv, Flags, Blank, Barrier, modules, operators, ghosts
<1>9. Stages'
  BY <1>1, <1>2, StagesOf DEF Closed, PostOps
<1>10. QED
  BY <1>1, <1>7, <1>8, <1>9 DEF KeyInv

LEMMA GenerateKeys ==
  ASSUME KeyInv, SoleUnsealer, NEW p \in Proc, Generate(p)
  PROVE  KeyInv'
<1>1. /\ p \in Unsealers /\ Tasks' /\ OpIn(p, {"generate"}) /\ recordKey # 0
      /\ Turn(p, <<>>) /\ Grows(View, View')
      /\ UNCHANGED <<storage, barrier, state, modules, ops, ghosts>>
  BY GenerateMoves
<1>2. \/ UNCHANGED <<gen, handed>>
      \/ /\ gen' = gen + 1 /\ gen < MaxGen /\ state.kek # None
         /\ handed' = IF state.kek = Wrong THEN handed
                      ELSE handed \cup Polynomial(state.kek, gen + 1)
  BY GenerateMoves
<1>3. state \in CoreState /\ gen \in 0..MaxGen /\ MaxGen \in Nat
  BY BoundAssumption DEF KeyInv, Shares, Copy
<1>4. state.kek \in Key \cup {None, Wrong}
  BY <1>3 DEF CoreState
<1>5. /\ handed' \subseteq Share /\ handed \subseteq handed' /\ gen' \in 0..MaxGen /\ gen <= gen'
      /\ \A x \in handed' : x[2] <= gen'
  <2>1. CASE UNCHANGED <<gen, handed>>
    BY <2>1, <1>3 DEF KeyInv, Shares
  <2>2. ASSUME gen' = gen + 1, gen < MaxGen, state.kek # None, state.kek # Wrong
        PROVE  /\ Polynomial(state.kek, gen + 1) \subseteq Share
               /\ \A x \in Polynomial(state.kek, gen + 1) : x[2] = gen'
    <3>1. state.kek \in Key /\ gen + 1 \in 1..MaxGen
      BY <2>2, <1>3, <1>4
    <3>2. QED
      BY <2>2, <3>1 DEF Polynomial, Share
  <2>3. ASSUME gen' = gen + 1, gen < MaxGen
        PROVE  gen' \in 0..MaxGen /\ gen <= gen' /\ \A x \in handed : x[2] <= gen'
    <3>1. \A x \in handed : x[2] <= gen /\ x[2] \in Int
      BY DEF KeyInv, Shares, Share
    <3>2. QED
      BY <2>3, <3>1, <1>3
  <2>4. \A x \in 0..MaxGen : x <= x
    BY <1>3
  <2>5. QED
    BY <1>2, <2>1, <2>2, <2>3, <2>4, <1>3 DEF KeyInv, Shares
<1>6. Copy(View', state')
  BY <1>1, <1>5 DEF KeyInv, Shares, Copy, Fresh, View, Grows
<1>7. recordKey' <= gen'
  BY <1>1, <1>3, <1>5 DEF KeyInv, Shares, storage, Key
<1>8. Shares'
  BY <1>1, <1>5, <1>6, <1>7 DEF KeyInv, Shares, storage
<1>9. Flags' /\ Blank' /\ Barrier'
  BY <1>1 DEF KeyInv, Flags, Blank, Barrier, storage, modules, ghosts
<1>10. QED
  BY <1>1, <1>8, <1>9, StagesNone DEF KeyInv

LEMMA PostKeys ==
  ASSUME KeyInv, SoleUnsealer, NEW p \in Proc, NEW op \in PostOps, At(p, op), Then(p, <<>>),
         UNCHANGED <<storage, barrier, state, operators, ghosts>>,
         mounted' \in BOOLEAN, handler' \in BOOLEAN, made' \in BOOLEAN
  PROVE  KeyInv'
<1>1. View' = View
  BY SameView DEF storage, operators, ghosts
<1>2. /\ p \in Unsealers /\ Tasks' /\ OpIn(p, PostOps) /\ recordKey # 0
      /\ Popped(p) /\ work[p][1][1] = op
  BY <1>1, PostMoves
<1>3. ~work[p][1][2] => state.shares = <<>>
  BY <1>2 DEF KeyInv, Stages
<1>4. Flags' /\ Shares' /\ Blank' /\ Barrier'
  BY <1>1, <1>2 DEF KeyInv, Flags, Shares, Blank, Barrier, ghosts, storage, operators, Copy, Fresh
<1>5. Stages'
  <2> DEFINE w == Tail(work[p])
  <2>1. Turn(p, w) /\ (w # <<>> => w[1][1] \in PostOps \cup {"deprecate", "generate", "init_done"})
    BY <1>2 DEF Popped, Follows, PostOps
  <2>2. w # <<>> => /\ w[1][1] = "deprecate" => ~work[p][1][2]
                    /\ w[1][1] \in PostOps => w[1][2] = work[p][1][2]
    BY <1>2 DEF Popped, Follows, PostOps
  <2>3. w # <<>> => /\ w[1][1] = "deprecate" => state'.shares = <<>>
                    /\ w[1][1] \in PostOps /\ ~w[1][2] => state'.shares = <<>>
    BY <1>3, <2>2
  <2> HIDE DEF w
  <2>4. QED
    BY <1>2, <2>1, <2>3, StagesOf DEF Closed, PostOps
<1>6. QED
  BY <1>2, <1>4, <1>5 DEF KeyInv

LEMMA PostFailedKeys ==
  ASSUME KeyInv, SoleUnsealer, NEW p \in Proc, NEW op \in PostOps, At(p, op), PostFailed(p),
         UNCHANGED <<storage, operators, modules, blind, cut>>, faults' \in Nat
  PROVE  KeyInv'
<1>1. View' = View
  BY SameView DEF storage, operators
<1>2. /\ p \in Unsealers /\ Tasks' /\ recordKey # 0 /\ Turn(p, <<>>) /\ state' = DefaultState
      /\ barrier' = IF work[p][1][2] THEN [sealed |-> TRUE, key |-> None] ELSE barrier
      /\ late' = (late \/ (work[p][1][2] /\ Sealing)) /\ work[p][1][2] \in BOOLEAN
  BY <1>1, PostFailedMoves
<1>3. barrier' \in [sealed : BOOLEAN, key : Cipher] /\ (~barrier'.sealed => barrier' = barrier)
  BY <1>2 DEF KeyInv, Barrier, Cipher
<1>4. Copy(View', state')
  BY <1>2, DefaultCopy
<1>5. Flags'
  <2>1. late' \in BOOLEAN
    BY <1>2 DEF Sealing
  <2>2. QED
    BY <2>1 DEF KeyInv, Flags, modules
<1>6. Shares' /\ Blank' /\ Barrier'
  BY <1>2, <1>3, <1>4 DEF KeyInv, Shares, Blank, Barrier, storage, operators
<1>7. QED
  BY <1>2, <1>5, <1>6, StagesNone DEF KeyInv

LEMMA LoadKeys ==
  ASSUME KeyInv, SoleUnsealer, NEW p \in Proc, Load(p)
  PROVE  KeyInv'
<1>1. At(p, "load") /\ "load" \in PostOps
      /\ UNCHANGED <<storage, handler, made, operators, blind, cut, faults>>
  BY DEF Load, PostOps
<1>2. mounted \in BOOLEAN /\ handler \in BOOLEAN /\ made \in BOOLEAN /\ faults \in Nat
  BY DEF KeyInv, Flags
<1>3. CASE mounted' = TRUE /\ Then(p, <<>>) /\ UNCHANGED <<barrier, state, late>>
  <2>1. UNCHANGED <<storage, barrier, state, operators, ghosts>>
    BY <1>1, <1>3 DEF ghosts
  <2>2. QED
    BY <1>1, <1>2, <1>3, <2>1, PostKeys
<1>4. CASE PostFailed(p) /\ UNCHANGED mounted
  <2>1. UNCHANGED <<storage, operators, modules, blind, cut>> /\ faults' \in Nat
    BY <1>1, <1>2, <1>4 DEF modules
  <2>2. QED
    BY <1>1, <1>4, <2>1, PostFailedKeys
<1>5. QED
  BY <1>3, <1>4 DEF Load

LEMMA TokenStoreKeys ==
  ASSUME KeyInv, SoleUnsealer, NEW p \in Proc, TokenStore(p)
  PROVE  KeyInv'
<1>1. At(p, "token_store") /\ "token_store" \in PostOps
      /\ UNCHANGED <<storage, mounted, handler, operators, blind, cut, faults>>
  BY DEF TokenStore, PostOps
<1>2. mounted \in BOOLEAN /\ handler \in BOOLEAN /\ made \in BOOLEAN /\ faults \in Nat
  BY DEF KeyInv, Flags
<1>3. CASE made' = TRUE /\ Then(p, <<>>) /\ UNCHANGED <<barrier, state, late>>
  <2>1. UNCHANGED <<storage, barrier, state, operators, ghosts>>
    BY <1>1, <1>3 DEF ghosts
  <2>2. QED
    BY <1>1, <1>2, <1>3, <2>1, PostKeys
<1>4. CASE PostFailed(p) /\ UNCHANGED made
  <2>1. UNCHANGED <<storage, operators, modules, blind, cut>> /\ faults' \in Nat
    BY <1>1, <1>2, <1>4 DEF modules
  <2>2. QED
    BY <1>1, <1>4, <2>1, PostFailedKeys
<1>5. QED
  BY <1>3, <1>4 DEF TokenStore

LEMMA AddHandlerKeys ==
  ASSUME KeyInv, SoleUnsealer, NEW p \in Proc, AddHandler(p)
  PROVE  KeyInv'
<1>1. At(p, "handler") /\ "handler" \in PostOps
      /\ UNCHANGED <<storage, mounted, made, operators, blind, cut, faults>>
  BY DEF AddHandler, PostOps
<1>2. mounted \in BOOLEAN /\ handler \in BOOLEAN /\ made \in BOOLEAN /\ faults \in Nat
  BY DEF KeyInv, Flags
<1>3. CASE handler' = TRUE /\ Then(p, <<>>) /\ UNCHANGED <<barrier, state, late>>
  <2>1. UNCHANGED <<storage, barrier, state, operators, ghosts>>
    BY <1>1, <1>3 DEF ghosts
  <2>2. QED
    BY <1>1, <1>2, <1>3, <2>1, PostKeys
<1>4. CASE PostFailed(p) /\ UNCHANGED handler
  <2>1. UNCHANGED <<storage, operators, modules, blind, cut>> /\ faults' \in Nat
    BY <1>1, <1>2, <1>4 DEF modules
  <2>2. QED
    BY <1>1, <1>4, <2>1, PostFailedKeys
<1>5. QED
  BY <1>3, <1>4 DEF AddHandler

LEMMA PolicyKeys ==
  ASSUME KeyInv, SoleUnsealer, NEW p \in Proc, Policy(p)
  PROVE  KeyInv'
<1>1. At(p, "policy") /\ "policy" \in PostOps
      /\ UNCHANGED <<storage, modules, operators, blind, cut, faults>>
  BY DEF Policy, PostOps
<1>2. mounted \in BOOLEAN /\ handler \in BOOLEAN /\ made \in BOOLEAN /\ faults \in Nat
  BY DEF KeyInv, Flags
<1>3. CASE Then(p, <<>>) /\ UNCHANGED <<barrier, state, late>>
  <2>1. UNCHANGED <<storage, barrier, state, operators, ghosts>>
    BY <1>1, <1>3 DEF ghosts
  <2>2. mounted' \in BOOLEAN /\ handler' \in BOOLEAN /\ made' \in BOOLEAN
    BY <1>1, <1>2 DEF modules
  <2>3. QED
    BY <1>1, <1>3, <2>1, <2>2, PostKeys
<1>4. CASE PostFailed(p)
  BY <1>1, <1>2, <1>4, PostFailedKeys
<1>5. QED
  BY <1>3, <1>4 DEF Policy

LEMMA PutConfigKeys ==
  ASSUME KeyInv, SoleUnsealer, NEW p \in Proc, PutConfig(p)
  PROVE  KeyInv'
<1> DEFINE w == <<<<"barrier_init">>>>
<1>1. /\ p \in Unsealers /\ Tasks' /\ Turn(p, w) /\ deprecated = {} /\ deprecated' = {}
      /\ UNCHANGED <<recordKey, written, barrier, state, modules, operators, ghosts>>
  BY PutConfigMoves
<1>2. w[1][1] = "barrier_init"
  OBVIOUS
<1> HIDE DEF w
<1>3. UNCHANGED <<storage, barrier, state, modules, gen, handed, ghosts>>
  BY <1>1 DEF storage, operators
<1>4. Stages'
  BY <1>1, <1>2, StagesOf DEF Closed, PostOps
<1>5. QED
  BY <1>1, <1>3, <1>4, RestKept DEF KeyInv

LEMMA BarrierInitKeys ==
  ASSUME KeyInv, SoleUnsealer, NEW p \in Proc, BarrierInit(p)
  PROVE  KeyInv'
<1> DEFINE w == <<<<"init_cipher", gen + 1>>, <<"put_record", gen + 1>>, <<"reset_cipher">>,
                  <<"unseal", gen + 1, state>>, <<"split", gen + 1>>>>
<1>1. /\ p \in Unsealers /\ Tasks' /\ recordKey = 0
      /\ \/ Turn(p, <<>>) /\ UNCHANGED gen
         \/ gen' = gen + 1 /\ gen < MaxGen /\ Turn(p, w)
      /\ UNCHANGED <<storage, barrier, state, modules, handed, ops, ghosts>>
  BY BarrierInitMoves
<1>2. w[1][1] = "init_cipher"
  OBVIOUS
<1> HIDE DEF w
<1>3. barrier.sealed /\ handed = {}
  BY <1>1 DEF KeyInv, Blank
<1>4. gen \in 0..MaxGen /\ MaxGen \in Nat
  BY BoundAssumption DEF KeyInv, Shares
<1>5. gen' \in 0..MaxGen /\ 0 <= gen'
  BY <1>1, <1>4
<1>6. Copy(View', state')
  BY <1>1 DEF KeyInv, Shares, Copy, Fresh, View, storage, ghosts
<1>7. Shares'
  BY <1>1, <1>3, <1>5, <1>6 DEF KeyInv, Shares, storage
<1>8. Flags' /\ Blank' /\ Barrier'
  BY <1>1 DEF KeyInv, Flags, Blank, Barrier, storage, modules, ghosts
<1>9. Stages'
  <2>1. CASE Turn(p, <<>>)
    BY <1>1, <2>1, StagesNone
  <2>2. CASE Turn(p, w)
    BY <1>1, <1>2, <1>3, <2>2, StagesOf DEF PostOps
  <2>3. QED
    BY <1>1, <2>1, <2>2
<1>10. QED
  BY <1>1, <1>7, <1>8, <1>9 DEF KeyInv

LEMMA PutRecordKeys ==
  ASSUME KeyInv, SoleUnsealer, NEW p \in Proc, PutRecord(p)
  PROVE  KeyInv'
<1>1. /\ p \in Unsealers /\ Tasks' /\ OpIn(p, {"put_record"}) /\ recordKey = 0
      /\ recordKey' = gen /\ recordKey' \in Key
      /\ Popped(p) /\ Tail(work[p])[1][1] = "reset_cipher"
      /\ UNCHANGED <<deprecated, written, barrier, state, modules, operators, ghosts>>
  BY PutRecordMoves
<1>2. barrier.sealed /\ handed = {} /\ recordKey' # 0
  BY <1>1 DEF KeyInv, Blank, Key
<1>3. gen \in 0..MaxGen /\ gen <= gen
  BY BoundAssumption DEF KeyInv, Shares
<1>4. Copy(View', state')
  BY <1>1 DEF KeyInv, Shares, Copy, Fresh, View, operators, ghosts
<1>5. Shares'
  BY <1>1, <1>3, <1>4 DEF KeyInv, Shares, operators
<1>6. Flags' /\ Blank' /\ Barrier'
  BY <1>1, <1>2 DEF KeyInv, Flags, Blank, Barrier, modules, ghosts
<1>7. Stages'
  <2> DEFINE w == Tail(work[p])
  <2>1. Turn(p, w) /\ w[1][1] = "reset_cipher"
    BY <1>1 DEF Popped
  <2> HIDE DEF w
  <2>2. QED
    BY <1>1, <1>2, <2>1, StagesOf DEF PostOps
<1>8. QED
  BY <1>1, <1>5, <1>6, <1>7 DEF KeyInv

LEMMA SplitKeys ==
  ASSUME KeyInv, SoleUnsealer, NEW p \in Proc, Split(p)
  PROVE  KeyInv'
<1>1. /\ p \in Unsealers /\ Tasks' /\ recordKey # 0
      /\ UNCHANGED <<storage, barrier, modules, operators, ghosts>>
  BY SplitMoves
<1>2. View' = View
  BY <1>1, SameView DEF storage, operators, ghosts
<1>3. state \in CoreState /\ recordKey \in Key
  BY <1>1 DEF KeyInv, Shares, Copy
<1>4. Copy(View', state')
  <2>1. CASE UNCHANGED state
    BY <1>2, <2>1 DEF KeyInv, Shares
  <2>2. CASE state' = [state EXCEPT !.sealed = FALSE, !.kek = recordKey]
    <3>1. state' \in CoreState /\ ~state'.sealed /\ state'.shares = state.shares
      BY <1>3, <2>2 DEF CoreState
    <3>2. QED
      BY <1>2, <3>1 DEF KeyInv, Shares, Copy
  <2>3. QED
    BY <2>1, <2>2, SplitMoves
<1>5. Shares' /\ Blank' /\ Barrier' /\ Flags'
  BY <1>1, <1>4
     DEF KeyInv, Shares, Blank, Barrier, Flags, storage, operators, modules, ghosts
<1>6. CASE Turn(p, <<>>)
  BY <1>1, <1>5, <1>6, StagesNone DEF KeyInv
<1>7. CASE \E w : Turn(p, w) /\ w[1] = <<"load", TRUE>>
  <2>1. PICK w : Turn(p, w) /\ w[1] = <<"load", TRUE>>
    BY <1>7
  <2>2. w[1][1] = "load" /\ w[1][2] = TRUE
    BY <2>1
  <2>3. Stages'
    BY <1>1, <2>1, <2>2, StagesOf DEF Closed
  <2>4. QED
    BY <1>1, <1>5, <2>3 DEF KeyInv
<1>8. QED
  BY <1>6, <1>7, SplitMoves

LEMMA InitDoneKeys ==
  ASSUME KeyInv, SoleUnsealer, NEW p \in Proc, InitDone(p)
  PROVE  KeyInv'
<1>1. /\ p \in Unsealers /\ Tasks' /\ recordKey # 0 /\ recordKey \in Key
      /\ Turn(p, <<>>)
      /\ IF Readable THEN handed' = handed \cup Polynomial(recordKey, recordKey)
                          /\ mounted' = FALSE /\ handler' = FALSE
         ELSE UNCHANGED <<handed, mounted, handler>>
      /\ barrier' = [sealed |-> TRUE, key |-> None] /\ state' = DefaultState
      /\ late' = (late \/ Sealing)
      /\ UNCHANGED <<storage, made, gen, ops, blind, cut, faults>>
  BY InitDoneMoves
<1>2. recordKey <= gen /\ gen \in 0..MaxGen /\ MaxGen \in Nat
  BY BoundAssumption DEF KeyInv, Shares
<1>3. /\ Polynomial(recordKey, recordKey) \subseteq Share
      /\ \A x \in Polynomial(recordKey, recordKey) : x[2] <= gen
  BY <1>1, <1>2 DEF Polynomial, Share, Key
<1>4. handed \subseteq handed' /\ handed' \subseteq Share /\ \A x \in handed' : x[2] <= gen
  BY <1>1, <1>3 DEF KeyInv, Shares
<1>5. Copy(View', state')
  BY <1>1, DefaultCopy
<1>6. Shares'
  BY <1>1, <1>4, <1>5 DEF KeyInv, Shares, storage
<1>7. Flags'
  <2>1. late' \in BOOLEAN
    BY <1>1 DEF Sealing
  <2>2. mounted' \in BOOLEAN /\ handler' \in BOOLEAN
    BY <1>1 DEF KeyInv, Flags
  <2>3. QED
    BY <1>1, <2>1, <2>2 DEF KeyInv, Flags
<1>8. Blank' /\ Barrier'
  BY <1>1 DEF KeyInv, Blank, Barrier, storage, Cipher
<1>9. QED
  BY <1>1, <1>6, <1>7, <1>8, StagesNone DEF KeyInv

LEMMA PreSealMoves ==
  ASSUME KeyInv, NEW p \in Proc, PreSeal(p)
  PROVE  /\ p \in Sealers /\ p \notin Unsealers /\ Tasks' /\ OpIn(p, {"pre_seal"})
         /\ recordKey # 0
         /\ \/ Turn(p, <<>>) /\ UNCHANGED <<mounted, handler, state>> /\ ~made
            \/ /\ handler' = FALSE /\ mounted' = FALSE /\ state' = DefaultState
               /\ \E w : Turn(p, w) /\ w # <<>> /\ w[1][1] = "reset_cipher"
         /\ cut' = (cut \/ \E q \in Unsealers : work[q] # <<>>)
         /\ UNCHANGED <<storage, barrier, made, operators, blind, late, faults>>
<1>1. Tasks /\ At(p, "pre_seal") /\ cut' = (cut \/ \E q \in Unsealers : work[q] # <<>>)
      /\ UNCHANGED <<storage, barrier, made, operators, blind, late, faults>>
  BY DEF KeyInv, PreSeal
<1>2. work[p] # <<>> /\ work[p][1][1] = "pre_seal" /\ Proper(View, work[p][1])
  BY <1>1, AtFacts
<1>3. p \in Sealers /\ p \notin Unsealers
  BY <1>1, AtOther
<1>4. View' = View /\ Grows(View, View')
  BY <1>1, SameView DEF storage, operators
<1>5. recordKey # 0
  BY <1>2 DEF Proper, View
<1>6. CASE ~made
  <2>1. Refuse(p) /\ UNCHANGED <<mounted, handler, state>>
    BY <1>6 DEF PreSeal
  <2>2. QED
    BY <1>1, <1>2, <1>3, <1>4, <1>5, <1>6, <2>1, Refuses DEF OpIn
<1>7. CASE made
  <2>1. Then(p, <<>>) /\ handler' = FALSE /\ mounted' = FALSE /\ state' = DefaultState
    BY <1>7 DEF PreSeal
  <2>2. Tasks' /\ Popped(p)
    BY <1>1, <1>4, <2>1, Pops
  <2> DEFINE w == Tail(work[p])
  <2>3. Turn(p, w) /\ w # <<>> /\ w[1][1] = "reset_cipher"
    BY <1>2, <2>2 DEF Popped, Follows, Ends
  <2> HIDE DEF w
  <2>4. QED
    BY <1>1, <1>2, <1>3, <1>5, <2>1, <2>2, <2>3 DEF OpIn
<1>8. QED
  BY <1>6, <1>7

LEMMA PreSealKeys ==
  ASSUME KeyInv, NEW p \in Proc, PreSeal(p)
  PROVE  KeyInv'
<1>1. /\ p \notin Unsealers /\ Tasks' /\ recordKey # 0
      /\ cut' = (cut \/ \E q \in Unsealers : work[q] # <<>>)
      /\ UNCHANGED <<storage, barrier, made, operators, blind, late, faults>>
  BY PreSealMoves
<1>2. \/ UNCHANGED <<mounted, handler, state>>
      \/ handler' = FALSE /\ mounted' = FALSE /\ state' = DefaultState
  BY PreSealMoves
<1>3. PICK w : Turn(p, w)
  BY PreSealMoves
<1>4. View' = View
  BY <1>1, SameView DEF storage, operators
<1>5. Copy(View', state') /\ (state'.shares = state.shares \/ state'.shares = <<>>)
  <2>1. CASE UNCHANGED state
    BY <1>4, <2>1 DEF KeyInv, Shares
  <2>2. CASE state' = DefaultState
    BY <2>2, DefaultCopy
  <2>3. QED
    BY <1>2, <2>1, <2>2
<1>6. Shares'
  BY <1>1, <1>5 DEF KeyInv, Shares, storage, operators
<1>7. Flags'
  <2>1. cut' \in BOOLEAN
    BY <1>1
  <2>2. mounted' \in BOOLEAN /\ handler' \in BOOLEAN
    BY <1>2 DEF KeyInv, Flags
  <2>3. QED
    BY <1>1, <2>1, <2>2 DEF KeyInv, Flags
<1>8. Blank' /\ Barrier'
  BY <1>1 DEF KeyInv, Blank, Barrier, storage
<1>9. Stages'
  BY <1>1, <1>3, <1>5, StagesOthers DEF KeyInv, storage
<1>10. QED
  BY <1>1, <1>6, <1>7, <1>8, <1>9 DEF KeyInv

LEMMA PutMoves ==
  ASSUME KeyInv, NEW p \in Proc, Put(p)
  PROVE  /\ p \notin Unsealers /\ p \notin Sealers /\ Tasks' /\ \E w : Turn(p, w)
         /\ UNCHANGED <<recordKey, deprecated, barrier, state, modules, operators, ghosts>>
<1>1. At(p, "put") /\ Then(p, <<>>)
      /\ UNCHANGED <<recordKey, deprecated, barrier, state, modules, operators, ghosts>>
  BY DEF Put
<1>2. View' = View /\ Grows(View, View')
  BY <1>1, SameView DEF operators, ghosts
<1>3. Tasks' /\ Popped(p)
  BY <1>1, <1>2, Pops DEF KeyInv
<1>4. p \notin Unsealers /\ p \notin Sealers
  BY <1>1, AtOther DEF KeyInv
<1>5. QED
  BY <1>1, <1>3, <1>4 DEF Popped

LEMMA PutKeys ==
  ASSUME KeyInv, NEW p \in Proc, Put(p)
  PROVE  KeyInv'
<1>1. PICK w : /\ p \notin Unsealers /\ Tasks' /\ Turn(p, w)
               /\ UNCHANGED <<recordKey, deprecated, barrier, state, modules, operators, ghosts>>
  BY PutMoves
<1>2. View' = View
  BY <1>1, SameView DEF operators, ghosts
<1>3. written' \subseteq {Enc}
  BY DEF KeyInv, Barrier, Put
<1>4. Flags' /\ Shares' /\ Blank'
  BY <1>1, <1>2 DEF KeyInv, Flags, Shares, Blank, operators, modules, ghosts, Copy, Fresh
<1>5. Barrier'
  BY <1>1, <1>3 DEF KeyInv, Barrier
<1>6. Stages'
  BY <1>1, StagesOthers DEF KeyInv
<1>7. QED
  BY <1>1, <1>4, <1>5, <1>6 DEF KeyInv

LEMMA FailKeys ==
  ASSUME KeyInv, SoleUnsealer, NEW p \in Proc, Fail(p)
  PROVE  KeyInv'
<1>1. faults' \in Nat /\ UNCHANGED <<storage, modules, operators, blind, cut>>
  BY DEF Fail, KeyInv, Flags
<1>2. View' = View /\ Grows(View, View')
  BY <1>1, SameView DEF storage, operators
<1>3. CASE Refuse(p) /\ UNCHANGED <<barrier, state, late>>
  <2>1. Tasks' /\ Turn(p, <<>>)
    BY <1>2, <1>3, Refuses DEF KeyInv
  <2>2. Flags' /\ Shares' /\ Blank' /\ Barrier'
    BY <1>1, <1>2, <1>3
       DEF KeyInv, Flags, Shares, Blank, Barrier, modules, storage, operators, Copy, Fresh
  <2>3. Stages'
    <3>1. CASE p \in Unsealers
      BY <2>1, <3>1, StagesNone
    <3>2. CASE p \notin Unsealers
      BY <1>1, <1>3, <2>1, <3>2, StagesOthers DEF KeyInv, storage
    <3>3. QED
      BY <3>1, <3>2
  <2>4. QED
    BY <2>1, <2>2, <2>3 DEF KeyInv
<1>4. CASE \E op \in PostOps : At(p, op) /\ PostFailed(p)
  BY <1>1, <1>4, PostFailedKeys
<1>5. QED
  BY <1>3, <1>4 DEF Fail, PostOps

LEMMA CrashMoves ==
  ASSUME KeyInv, Crash
  PROVE  /\ Tasks' /\ \A p \in Proc : work'[p] = <<>>
         /\ View' = View /\ faults' \in Nat /\ faults' = faults + 1
         /\ barrier' = [sealed |-> TRUE, key |-> None] /\ state' = DefaultState
         /\ mounted' = FALSE /\ handler' = FALSE /\ made' = FALSE
         /\ UNCHANGED <<storage, operators, blind, cut, late>>
<1>1. /\ faults' = faults + 1
      /\ barrier' = [sealed |-> TRUE, key |-> None] /\ state' = DefaultState
      /\ mounted' = FALSE /\ handler' = FALSE /\ made' = FALSE
      /\ work' = [p \in Proc |-> <<>>]
      /\ UNCHANGED <<storage, operators, blind, cut, late>>
  BY DEF Crash
<1>2. View' = View
  BY <1>1, SameView DEF storage, operators
<1>3. \A p \in Proc : work'[p] = <<>>
  BY <1>1
<1>4. Tasks'
  BY <1>1, <1>3, FitsEmpty DEF Tasks
<1>5. faults' \in Nat
  BY <1>1 DEF KeyInv, Flags
<1>6. QED
  BY <1>1, <1>2, <1>3, <1>4, <1>5

LEMMA CrashKeys ==
  ASSUME KeyInv, Crash
  PROVE  KeyInv'
<1>1. /\ Tasks' /\ \A p \in Proc : work'[p] = <<>>
      /\ View' = View /\ faults' \in Nat
      /\ barrier' = [sealed |-> TRUE, key |-> None] /\ state' = DefaultState
      /\ mounted' = FALSE /\ handler' = FALSE /\ made' = FALSE
      /\ UNCHANGED <<storage, operators, blind, cut, late>>
  BY CrashMoves
<1>2. Flags'
  BY <1>1 DEF KeyInv, Flags
<1>3. Shares'
  BY <1>1, DefaultCopy DEF KeyInv, Shares, storage, operators
<1>4. Blank' /\ Barrier'
  BY <1>1, DefaultCopy DEF KeyInv, Blank, Barrier, storage, operators, Cipher
<1>5. Stages'
  BY <1>1 DEF Stages, OpIn, Proc
<1>6. QED
  BY <1>1, <1>2, <1>3, <1>4, <1>5 DEF KeyInv

LEMMA InitKeys ==
  ASSUME Init
  PROVE  KeyInv
<1>1. /\ deprecated = {} /\ barrier = [sealed |-> TRUE, key |-> None]
      /\ state = DefaultState /\ mounted = FALSE /\ handler = FALSE /\ made = FALSE
      /\ work = [p \in Proc |-> <<>>]
      /\ written = {} /\ blind = FALSE /\ cut = FALSE /\ late = FALSE /\ faults = 0
  BY DEF Init
<1>2. \A p \in Proc : work[p] = <<>>
  BY <1>1
<1>3. Tasks
  BY <1>1, <1>2, FitsEmpty DEF Tasks
<1>4. Flags
  BY <1>1 DEF Flags
<1>5. /\ recordKey \in Key \cup {0} /\ gen \in 0..MaxGen /\ recordKey <= gen
      /\ handed \subseteq Share /\ \A x \in handed : x[2] <= gen
  <2>1. CASE recordKey = 0 /\ handed = {} /\ gen = 0
    BY <2>1, BoundAssumption
  <2>2. CASE recordKey = 1 /\ handed = Polynomial(1, 1) /\ gen = 1
    <3>1. 1 \in 1..MaxGen
      BY BoundAssumption
    <3>2. handed \subseteq Share /\ \A x \in handed : x[2] = 1
      BY <2>2, <3>1 DEF Polynomial, Share, Key
    <3>3. QED
      BY <2>2, <3>1, <3>2 DEF Key
  <2>3. QED
    BY <2>1, <2>2 DEF Init
<1>6. Shares
  BY <1>1, <1>5, DefaultCopy DEF Shares
<1>7. Blank /\ Barrier
  BY <1>1, DefaultCopy DEF Init, Blank, Barrier, Cipher
<1>8. Stages
  BY <1>2 DEF Stages, OpIn, Proc
<1>9. QED
  BY <1>3, <1>4, <1>6, <1>7, <1>8 DEF KeyInv

LEMMA StutterKeys ==
  ASSUME KeyInv, UNCHANGED vars
  PROVE  KeyInv'
<1>1. UNCHANGED <<storage, barrier, state, modules, gen, handed, ghosts>> /\ work' = work
  BY DEF vars, storage, modules, ghosts
<1>2. View' = View
  BY <1>1, SameView DEF storage, ghosts
<1>3. Tasks'
  BY <1>1, <1>2 DEF KeyInv, Tasks
<1>4. Stages'
  BY <1>1 DEF KeyInv, Stages, OpIn, storage
<1>5. QED
  BY <1>1, <1>3, <1>4, RestKept DEF KeyInv

LEMMA NextKeys ==
  ASSUME KeyInv, SoleUnsealer, [Next]_vars
  PROVE  KeyInv'
<1>1. ASSUME NEW p \in Proc, UnsealStep(p) PROVE KeyInv'
  BY <1>1, BarrierUnsealKeys, InitCipherKeys, DecryptKeys, OpenKeys, DoUnsealKeys, CountKeys,
     OpenedKeys, DeprecateKeys, GenerateKeys, LoadKeys, TokenStoreKeys, AddHandlerKeys,
     PolicyKeys DEF UnsealStep
<1>2. ASSUME NEW p \in Proc, InitStep(p) PROVE KeyInv'
  BY <1>2, PutConfigKeys, BarrierInitKeys, PutRecordKeys, SplitKeys, InitDoneKeys DEF InitStep
<1>3. ASSUME NEW p \in Proc,
             \/ Submit(p) \/ Initialise(p) \/ Seal(p) \/ Write(p)
             \/ ResetCipher(p) \/ Close(p) \/ PreSeal(p) \/ Put(p) \/ Fail(p)
      PROVE  KeyInv'
  BY <1>3, SubmitKeys, InitialiseKeys, SealKeys, WriteKeys, ResetCipherKeys, CloseKeys,
     PreSealKeys, PutKeys, FailKeys
<1>4. CASE UNCHANGED vars
  BY <1>4, StutterKeys
<1>5. QED
  BY <1>1, <1>2, <1>3, <1>4, CrashKeys DEF Next

(* The first layer is inductive for one task that unseals: nobody else      *)
(* opens the barrier after do_unseal found it sealed (core.rs:345-347).     *)
THEOREM KeyInvHolds ==
  ASSUME SoleUnsealer PROVE Spec => []KeyInv
<1>1. Init => KeyInv
  BY InitKeys
<1>2. KeyInv /\ [Next]_vars => KeyInv'
  BY NextKeys
<1>3. QED
  BY <1>1, <1>2, PTL DEF Spec

LEMMA KeysFromInv ==
  ASSUME KeyInv
  PROVE  KeysOK
<1>1. TypeOK
  BY DEF KeyInv, Shares, Barrier, Copy, CoreState, TypeOK, View
<1>2. OneDataKey
  BY DEF KeyInv, Barrier, OneDataKey
<1>3. UsedOnce
  <2> SUFFICES ASSUME NEW p \in Proc, At(p, "opened")
               PROVE  blind \/ ToSet(Arg(p, 2)) \cap deprecated = {}
    BY DEF UsedOnce
  <2>1. Proper(View, work[p][1]) /\ work[p][1][1] = "opened" /\ Head(work[p]) = work[p][1]
    BY AtFacts DEF KeyInv
  <2>2. QED
    BY <2>1 DEF Proper, Fresh, View, Arg
<1>4. QED
  BY <1>1, <1>2, <1>3 DEF KeysOK

(* Everything is stored under the key that BarrierInit generated, and no    *)
(* one unseals with a share that an unseal_once has deprecated, unless the  *)
(* set could not be read (core.rs:362-366, barrier_aes_gcm.rs:180-202).     *)
THEOREM KeysOKHolds ==
  ASSUME SoleUnsealer PROVE Spec => []KeysOK
<1>1. KeyInv => KeysOK
  BY KeysFromInv
<1>2. QED
  BY <1>1, KeyInvHolds, PTL

LEMMA DeprecatedStep ==
  ASSUME KeyInv, SoleUnsealer, [Next]_vars
  PROVE  deprecated \subseteq deprecated'
<1>1. ASSUME NEW p \in Proc, Deprecate(p) PROVE deprecated \subseteq deprecated'
  BY <1>1, DeprecateMoves
<1>2. ASSUME NEW p \in Proc, PutConfig(p) PROVE deprecated \subseteq deprecated'
  BY <1>2, PutConfigMoves
<1>3. ASSUME NEW p \in Proc, UnsealStep(p), ~Deprecate(p) PROVE deprecated' = deprecated
  BY <1>3 DEF UnsealStep, BarrierUnseal, InitCipher, Decrypt, Open, DoUnseal, Count, Opened,
              Generate, Load, TokenStore, AddHandler, Policy, storage
<1>4. ASSUME NEW p \in Proc, InitStep(p), ~PutConfig(p) PROVE deprecated' = deprecated
  BY <1>4 DEF InitStep, BarrierInit, PutRecord, Split, InitDone, storage
<1>5. ASSUME NEW p \in Proc,
             \/ Submit(p) \/ Initialise(p) \/ Seal(p) \/ Write(p)
             \/ ResetCipher(p) \/ Close(p) \/ PreSeal(p) \/ Put(p) \/ Fail(p)
      PROVE  deprecated' = deprecated
  BY <1>5 DEF Submit, Initialise, Seal, Write, Request, ResetCipher, Close, PreSeal, Put,
              Fail, storage
<1>6. CASE UNCHANGED vars \/ Crash
  BY <1>6 DEF vars, Crash, storage
<1>7. QED
  BY <1>1, <1>2, <1>3, <1>4, <1>5, <1>6 DEF Next

(* A deprecated share stays so: do_unseal writes back the set it read       *)
(* before it unsealed (core.rs:362, 414-426), and nothing comes between.    *)
THEOREM DeprecatedForGoodHolds ==
  ASSUME SoleUnsealer PROVE Spec => DeprecatedForGood
<1>1. KeyInv /\ [Next]_vars => [deprecated \subseteq deprecated']_vars
  BY DeprecatedStep
<1>2. QED
  BY <1>1, KeyInvHolds, PTL DEF Spec, DeprecatedForGood

-----------------------------------------------------------------------------
(* The second layer: what a task that unseals goes by.                      *)

LEMMA HeadTailSet ==
  ASSUME NEW w, IsSeq(w), w # <<>>
  PROVE  ToSet(w) = {w[1]} \cup ToSet(Tail(w))
<1> DEFINE t == Tail(w)
<1>1. /\ Len(w) \in Nat /\ DOMAIN w = 1..Len(w) /\ Len(w) > 0
      /\ IsSeq(t) /\ Len(t) = Len(w) - 1 /\ \A i \in 1..Len(t) : t[i] = w[i + 1]
  BY SeqFacts, TailFacts
<1>2. Len(t) \in Nat /\ DOMAIN t = 1..Len(t)
  BY <1>1, SeqFacts
<1> HIDE DEF t
<1>3. \A i \in DOMAIN w : w[i] \in {w[1]} \cup ToSet(t)
  <2> SUFFICES ASSUME NEW i \in DOMAIN w, i # 1 PROVE w[i] \in ToSet(t)
    OBVIOUS
  <2>1. i - 1 \in 1..Len(t) /\ (i - 1) + 1 = i
    BY <1>1, <1>2
  <2>2. t[i - 1] = w[i]
    BY <1>1, <2>1
  <2>3. QED
    BY <1>2, <2>1, <2>2 DEF ToSet
<1>4. \A i \in DOMAIN t : t[i] \in ToSet(w)
  <2> SUFFICES ASSUME NEW i \in DOMAIN t PROVE t[i] \in ToSet(w)
    OBVIOUS
  <2>1. i + 1 \in DOMAIN w /\ t[i] = w[i + 1]
    BY <1>1, <1>2
  <2>2. QED
    BY <2>1 DEF ToSet
<1>5. w[1] \in ToSet(w)
  <2>1. 1 \in DOMAIN w
    BY <1>1
  <2>2. QED
    BY <2>1 DEF ToSet
<1>6. ToSet(w) = {w[1]} \cup ToSet(t)
  BY <1>3, <1>4, <1>5 DEF ToSet
<1>7. QED
  BY <1>6 DEF t

LEMMA HeadAndTail ==
  ASSUME KeyInv, NEW p \in Proc, work[p] # <<>>
  PROVE  ToSet(work[p]) = {work[p][1]} \cup ToSet(Tail(work[p]))
<1>1. IsSeq(work[p])
  BY DEF KeyInv, Tasks, Fits, Part
<1>2. QED
  BY <1>1, HeadTailSet

LEMMA NoSteps == ToSet(<<>>) = {}
  BY DEF ToSet

LEMMA OneStep ==
  ASSUME NEW y
  PROVE  ToSet(<<y>>) = {y}
  BY DEF ToSet

LEMMA SealersKept ==
  ASSUME NEW p \in Proc, p \notin Sealers, NEW w, Turn(p, w)
  PROVE  /\ \A q \in Sealers : work'[q] = work[q]
         /\ Calm' <=> Calm
         /\ Sealing' <=> Sealing
<1>1. \A q \in Sealers : work'[q] = work[q]
  BY DEF Turn, Proc
<1>2. QED
  BY <1>1 DEF Calm, Sealing, OpIn

LEMMA UnsealersKept ==
  ASSUME NEW p \in Proc, p \notin Unsealers, NEW w, Turn(p, w)
  PROVE  \A q \in Unsealers : work'[q] = work[q]
  BY DEF Turn, Proc

LEMMA RightOf ==
  ASSUME SoleUnsealer, NEW p \in Unsealers, NEW w, Turn(p, w),
         w # <<>> => w[1][1] \notin {"opened", "open"}
  PROVE  Right'
<1>1. \A q \in Unsealers : q = p
  BY DEF SoleUnsealer
<1>2. work'[p] = w
  BY DEF Turn
<1>3. QED
  BY <1>1, <1>2 DEF Right, OpIn

LEMMA RightNone ==
  ASSUME SoleUnsealer, NEW p \in Unsealers, Turn(p, <<>>)
  PROVE  Right'
<1>1. \A q \in Unsealers : q = p
  BY DEF SoleUnsealer
<1>2. work'[p] = <<>>
  BY DEF Turn
<1>3. QED
  BY <1>1, <1>2 DEF Right, OpIn

LEMMA RightOthers ==
  ASSUME Right, NEW p \in Proc, p \notin Unsealers, NEW w, Turn(p, w), recordKey' = recordKey
  PROVE  Right'
  BY UnsealersKept DEF Right, OpIn, Uses

LEMMA ClosingOf ==
  ASSUME Closing, SoleUnsealer, NEW p \in Unsealers, NEW w, Turn(p, w),
         UNCHANGED <<barrier, recordKey>>, ~late' => ~late,
         work[p] # <<>> => work[p][1][1] \notin {"decrypt", "open", "reset_cipher"},
         w # <<>> => w[1][1] \notin {"decrypt", "put_record"}
  PROVE  Closing'
<1>1. \A q \in Unsealers : q = p
  BY DEF SoleUnsealer
<1>2. work'[p] = w
  BY DEF Turn
<1>3. (\A q \in Sealers : work'[q] = work[q]) /\ (Sealing' <=> Sealing)
  BY SealersKept, ProcAssumption DEF Proc
<1> SUFFICES ASSUME ~late'
    PROVE  /\ Sealing' => ~barrier'.sealed
           /\ \A q \in Sealers : OpIn(q, {"close"})' => barrier'.key = None
           /\ \A q \in Unsealers : OpIn(q, {"decrypt", "put_record"})' => barrier'.key = work'[q][1][2]
           /\ barrier'.sealed => barrier'.key \notin {recordKey', Enc} \ {None}
  BY DEF Closing
<1>4. Sealing' => ~barrier'.sealed
  BY <1>3 DEF Closing
<1>5. \A q \in Sealers : OpIn(q, {"close"})' => barrier'.key = None
  BY <1>3 DEF Closing, OpIn
<1>6. \A q \in Unsealers : OpIn(q, {"decrypt", "put_record"})' => barrier'.key = work'[q][1][2]
  BY <1>1, <1>2 DEF OpIn
<1>7. \A q \in Unsealers : ~OpIn(q, {"decrypt", "open", "reset_cipher"})
  BY <1>1 DEF OpIn
<1>8. barrier'.sealed => barrier'.key \notin {recordKey', Enc} \ {None}
  BY <1>7 DEF Closing
<1>9. QED
  BY <1>4, <1>5, <1>6, <1>8

LEMMA ClosingShut ==
  ASSUME SoleUnsealer, NEW p \in Unsealers, Turn(p, <<>>),
         barrier' = [sealed |-> TRUE, key |-> None], ~late' => ~Sealing
  PROVE  Closing'
<1>1. \A q \in Unsealers : q = p
  BY DEF SoleUnsealer
<1>2. work'[p] = <<>>
  BY DEF Turn
<1>3. Sealing' <=> Sealing
  BY SealersKept, ProcAssumption DEF Proc
<1>4. \A q \in Unsealers : ~OpIn(q, {"decrypt", "put_record"})'
  BY <1>1, <1>2 DEF OpIn
<1>5. QED
  BY <1>3, <1>4 DEF Closing

LEMMA WholeOf ==
  ASSUME SoleUnsealer, NEW p \in Unsealers, NEW w, Turn(p, w),
         ~late' /\ ~cut' =>
           /\ \A x \in ToSet(w) : CopySealed(x)
           /\ Calm \/ (state'.sealed /\ (w = <<>> \/ w[1][1] = "do_unseal"))
           /\ ~state'.sealed =>
                /\ Readable' /\ state'.kek = recordKey'
                /\ w = <<>> \/ w[1][1] \in Serving
                /\ mounted' \/ (w # <<>> /\ w[1][1] = "load")
                /\ handler' \/ (w # <<>> /\ w[1][1] \in {"load", "token_store", "handler"})
  PROVE  Whole'
<1>1. \A q \in Unsealers : q = p
  BY DEF SoleUnsealer
<1>2. work'[p] = w
  BY DEF Turn
<1>3. Calm' <=> Calm
  BY SealersKept, ProcAssumption DEF Proc
<1> SUFFICES ASSUME ~late', ~cut'
    PROVE  /\ Copies'
           /\ ~Calm' => state'.sealed /\ \A q \in Unsealers : work'[q] = <<>> \/ OpIn(q, {"do_unseal"})'
           /\ ~state'.sealed =>
                /\ Readable' /\ state'.kek = recordKey'
                /\ \A q \in Unsealers : work'[q] = <<>> \/ OpIn(q, Serving)'
                /\ mounted' \/ \E q \in Unsealers : OpIn(q, {"load"})'
                /\ handler' \/ \E q \in Unsealers : OpIn(q, {"load", "token_store", "handler"})'
  BY DEF Whole
<1>4. Copies'
  BY <1>1, <1>2 DEF Copies
<1>5. ~Calm' => state'.sealed /\ \A q \in Unsealers : work'[q] = <<>> \/ OpIn(q, {"do_unseal"})'
  BY <1>1, <1>2, <1>3 DEF OpIn
<1>6. ASSUME ~state'.sealed
      PROVE  /\ Readable' /\ state'.kek = recordKey'
             /\ \A q \in Unsealers : work'[q] = <<>> \/ OpIn(q, Serving)'
             /\ mounted' \/ \E q \in Unsealers : OpIn(q, {"load"})'
             /\ handler' \/ \E q \in Unsealers : OpIn(q, {"load", "token_store", "handler"})'
  BY <1>1, <1>2, <1>6 DEF OpIn
<1>7. QED
  BY <1>4, <1>5, <1>6

LEMMA WholeFacts ==
  ASSUME TrackInv, SoleUnsealer, NEW p \in Unsealers, ~late, ~cut
  PROVE  /\ \A x \in ToSet(work[p]) : CopySealed(x)
         /\ ~Calm => state.sealed /\ (work[p] = <<>> \/ OpIn(p, {"do_unseal"}))
         /\ ~state.sealed =>
              /\ Readable /\ state.kek = recordKey
              /\ work[p] = <<>> \/ OpIn(p, Serving)
              /\ mounted \/ OpIn(p, {"load"})
              /\ handler \/ OpIn(p, {"load", "token_store", "handler"})
<1>1. \A q \in Unsealers : q = p
  BY DEF SoleUnsealer
<1>2. QED
  BY <1>1 DEF TrackInv, Whole, Copies

(* A task whose call is refused leaves the core as whole as it was.         *)
LEMMA WholeNone ==
  ASSUME TrackInv, SoleUnsealer, NEW p \in Unsealers, Turn(p, <<>>), late' = late, cut' = cut,
         UNCHANGED <<recordKey, barrier, state, mounted, handler>>,
         ~OpIn(p, {"load", "token_store", "handler"})
  PROVE  Whole'
<1>1. ASSUME ~late, ~cut
      PROVE  /\ Calm \/ state'.sealed
             /\ ~state'.sealed => Readable' /\ state'.kek = recordKey' /\ mounted' /\ handler'
  <2>1. Readable' <=> Readable
    BY DEF Readable
  <2>2. QED
    BY <1>1, <2>1, WholeFacts DEF OpIn
<1> DEFINE w == <<>>
<1>2. Turn(p, w) /\ w = <<>> /\ \A x \in ToSet(w) : CopySealed(x)
  BY NoSteps
<1> HIDE DEF w
<1>3. QED
  BY <1>1, <1>2, WholeOf

(* So does one that leaves the state sealed.                                *)
LEMMA WholeShut ==
  ASSUME TrackInv, SoleUnsealer, NEW p \in Unsealers, Turn(p, <<>>),
         ~late' /\ ~cut' => state'.sealed
  PROVE  Whole'
<1> DEFINE w == <<>>
<1>1. Turn(p, w) /\ w = <<>> /\ \A x \in ToSet(w) : CopySealed(x)
  BY NoSteps
<1> HIDE DEF w
<1>2. QED
  BY <1>1, WholeOf

-----------------------------------------------------------------------------
(* The second layer: every step keeps it.                                   *)

LEMMA SubmitTracks ==
  ASSUME TrackInv, SoleUnsealer, NEW p \in Proc, Submit(p)
  PROVE  Right' /\ Closing' /\ Whole'
<1>1. PICK x \in handed, once \in BOOLEAN :
        /\ p \in Unsealers /\ work[p] = <<>> /\ Turn(p, <<<<"do_unseal", x, once>>>>)
        /\ UNCHANGED <<storage, barrier, state, modules, gen, handed, ghosts>>
  BY SubmitMoves DEF TrackInv
<1> DEFINE y == <<"do_unseal", x, once>> w == <<y>>
<1>2. y[1] = "do_unseal" /\ w[1] = y /\ w # <<>> /\ ToSet(w) = {y} /\ Turn(p, w)
  BY <1>1, OneStep
<1> HIDE DEF y, w
<1>3. UNCHANGED <<recordKey, barrier, state, mounted, handler, late, cut>>
  BY <1>1 DEF storage, modules, ghosts
<1>4. Right'
  BY <1>1, <1>2, RightOf
<1>5. Closing'
  BY <1>1, <1>2, <1>3, ClosingOf DEF TrackInv
<1>6. ASSUME ~late', ~cut'
      PROVE  /\ \A z \in ToSet(w) : CopySealed(z)
             /\ Calm \/ (state'.sealed /\ w[1][1] = "do_unseal")
             /\ ~state'.sealed =>
                  /\ Readable' /\ state'.kek = recordKey' /\ w[1][1] \in Serving
                  /\ mounted' /\ handler'
  <2>1. Readable' <=> Readable
    BY <1>3 DEF Readable
  <2>2. \A z \in ToSet(w) : CopySealed(z)
    BY <1>2 DEF CopySealed
  <2>3. Calm \/ state.sealed
    BY <1>1, <1>3, <1>6, WholeFacts
  <2>4. ~state.sealed => Readable /\ state.kek = recordKey /\ mounted /\ handler
    BY <1>1, <1>3, <1>6, WholeFacts DEF OpIn
  <2>5. QED
    BY <1>2, <1>3, <2>1, <2>2, <2>3, <2>4 DEF Serving
<1>7. Whole'
  BY <1>1, <1>2, <1>6, WholeOf
<1>8. QED
  BY <1>4, <1>5, <1>7

LEMMA InitialiseTracks ==
  ASSUME TrackInv, SoleUnsealer, NEW p \in Proc, Initialise(p)
  PROVE  Right' /\ Closing' /\ Whole'
<1>1. /\ p \in Unsealers /\ work[p] = <<>>
      /\ Turn(p, <<>>) \/ (recordKey = 0 /\ Turn(p, <<<<"put_config">>>>))
      /\ UNCHANGED <<storage, barrier, state, modules, gen, handed, ghosts>>
  BY InitialiseMoves DEF TrackInv
<1>2. UNCHANGED <<recordKey, barrier, state, mounted, handler, late, cut>>
  BY <1>1 DEF storage, modules, ghosts
<1>3. CASE Turn(p, <<>>)
  <2>1. Closing'
    BY <1>1, <1>2, <1>3, ClosingOf DEF TrackInv
  <2>2. QED
    BY <1>1, <1>2, <1>3, <2>1, RightNone, WholeNone DEF OpIn
<1>4. CASE recordKey = 0 /\ Turn(p, <<<<"put_config">>>>)
  <2> DEFINE y == <<"put_config">> w == <<y>>
  <2>1. y[1] = "put_config" /\ w[1] = y /\ w # <<>> /\ ToSet(w) = {y} /\ Turn(p, w)
    BY <1>4, OneStep
  <2> HIDE DEF y, w
  <2>2. Right' /\ Closing'
    BY <1>1, <1>2, <2>1, RightOf, ClosingOf DEF TrackInv
  <2>3. state.sealed /\ barrier.sealed
    BY <1>4 DEF TrackInv, KeyInv, Blank
  <2>4. ~late => Calm
    BY <2>3 DEF TrackInv, Closing, Sealing, Calm
  <2>5. \A z \in ToSet(w) : CopySealed(z)
    BY <2>1 DEF CopySealed
  <2>6. Whole'
    BY <1>1, <1>2, <2>1, <2>3, <2>4, <2>5, WholeOf
  <2>7. QED
    BY <2>2, <2>6
<1>5. QED
  BY <1>1, <1>3, <1>4

LEMMA BarrierUnsealTracks ==
  ASSUME TrackInv, SoleUnsealer, NEW p \in Proc, BarrierUnseal(p)
  PROVE  Right' /\ Closing' /\ Whole'
<1> DEFINE x == <<"init_cipher", Arg(p, 2)>> y == <<"decrypt", Arg(p, 2), Arg(p, 3)>>
           s == <<x, y>> t == Tail(work[p]) w == s \o t
<1>1. /\ p \in Unsealers /\ OpIn(p, {"unseal"}) /\ Turn(p, w) /\ y[3] = work[p][1][3]
      /\ UNCHANGED <<storage, barrier, state, modules, operators, ghosts>>
  BY BarrierUnsealMoves DEF TrackInv
<1>2. x[1] = "init_cipher" /\ y[1] = "decrypt" /\ s # <<>> /\ s[1] = x /\ ToSet(s) = {x, y} /\ IsSeq(s)
  BY IsSeqOf DEF IsSeq, ToSet
<1>3. work[p] # <<>> /\ work[p][1][1] = "unseal" /\ IsSeq(t)
  BY <1>1, TailFacts DEF TrackInv, KeyInv, Tasks, Fits, Part, OpIn
<1>4. ToSet(t) \subseteq ToSet(work[p]) /\ work[p][1] \in ToSet(work[p])
  BY <1>3, HeadAndTail DEF TrackInv
<1> HIDE DEF x, y, s, t
<1>5. w # <<>> /\ w[1] = x /\ ToSet(w) = {x, y} \cup ToSet(t)
  BY <1>2, <1>3, CatEnds, ToSetCat
<1> HIDE DEF w
<1>6. UNCHANGED <<recordKey, barrier, state, mounted, handler, late, cut>>
  BY <1>1 DEF storage, modules, ghosts
<1>7. Right'
  BY <1>1, <1>2, <1>5, RightOf
<1>8. Closing'
  BY <1>1, <1>2, <1>3, <1>5, <1>6, ClosingOf DEF TrackInv
<1>9. ASSUME ~late, ~cut
      PROVE  (\A z \in ToSet(w) : CopySealed(z)) /\ Calm /\ state.sealed
  <2>1. \A z \in ToSet(work[p]) : CopySealed(z)
    BY <1>1, <1>9, WholeFacts
  <2>2. CopySealed(x) /\ CopySealed(y)
    BY <1>1, <1>2, <1>3, <1>4, <2>1 DEF CopySealed
  <2>3. Calm /\ state.sealed
    BY <1>1, <1>3, <1>9, WholeFacts DEF OpIn, Serving, PostOps
  <2>4. QED
    BY <1>4, <1>5, <2>1, <2>2, <2>3
<1>10. Whole'
  BY <1>1, <1>6, <1>9, WholeOf
<1>11. QED
  BY <1>7, <1>8, <1>10

(* Steps that only take the next one up, with the state sealed.             *)
LEMMA PoppedSealed ==
  ASSUME TrackInv, SoleUnsealer, NEW p \in Unsealers, Popped(p), ~OpIn(p, Serving),
         UNCHANGED <<state, late, cut>>
  PROVE  Whole'
<1> DEFINE w == Tail(work[p])
<1>1. Turn(p, w) /\ ToSet(w) \subseteq ToSet(work[p]) /\ work[p] # <<>>
  BY HeadAndTail DEF TrackInv, Popped, Proc
<1> HIDE DEF w
<1>2. ASSUME ~late, ~cut
      PROVE  (\A z \in ToSet(w) : CopySealed(z)) /\ Calm /\ state.sealed
  BY <1>1, <1>2, WholeFacts DEF OpIn, Serving
<1>3. QED
  BY <1>1, <1>2, WholeOf

LEMMA InitCipherTracks ==
  ASSUME TrackInv, SoleUnsealer, NEW p \in Proc, InitCipher(p)
  PROVE  Right' /\ Closing' /\ Whole'
<1>1. At(p, "init_cipher") /\ Then(p, <<>>) /\ barrier' = [barrier EXCEPT !.key = Arg(p, 2)]
      /\ UNCHANGED <<storage, state, modules, operators, ghosts>>
  BY DEF InitCipher
<1>2. View' = View /\ Grows(View, View')
  BY <1>1, SameView DEF storage, operators, ghosts
<1>3. Popped(p) /\ work[p][1][1] = "init_cipher" /\ Head(work[p]) = work[p][1] /\ work[p] # <<>>
      /\ Proper(View, work[p][1])
  BY <1>1, <1>2, Pops DEF TrackInv, KeyInv, Popped
<1>4. p \in Unsealers
  BY <1>1, AtUnsealer DEF TrackInv, KeyInv, UnsealOps
<1>5. OpIn(p, {"init_cipher"})
  BY <1>3 DEF OpIn
<1>6. UNCHANGED <<recordKey, state, mounted, handler, late, cut>>
  BY <1>1 DEF storage, modules, ghosts
<1> DEFINE w == Tail(work[p])
<1>7. Turn(p, w) /\ w # <<>> /\ w[1][1] \in {"decrypt", "put_record"}
      /\ w[1][2] = work[p][1][2]
  BY <1>3 DEF Popped, Follows, Ends
<1> HIDE DEF w
<1>8. barrier'.key = work[p][1][2] /\ barrier'.sealed = barrier.sealed /\ barrier.sealed
  BY <1>1, <1>3, <1>4, <1>5 DEF TrackInv, KeyInv, Barrier, Stages, Closed, OpIn, Arg
<1>9. Right'
  BY <1>4, <1>7, RightOf
<1>10. Closing'
  <2>1. \A q \in Unsealers : q = p
    BY <1>4 DEF SoleUnsealer
  <2>2. (\A q \in Sealers : work'[q] = work[q]) /\ (Sealing' <=> Sealing)
    BY <1>4, <1>7, SealersKept, ProcAssumption DEF Proc
  <2>3. work'[p] = w
    BY <1>7 DEF Turn
  <2>4. ~late => ~Sealing
    BY <1>8 DEF TrackInv, Closing
  <2>5. ASSUME w[1][1] = "put_record"
        PROVE  w[1][2] \notin {recordKey, Enc} \ {None}
    <3>1. Tasks /\ work[p] # <<>>
      BY <1>3 DEF TrackInv, KeyInv
    <3>2. Fits(View, p, w)
      BY <3>1, <1>4, FitsTail DEF Tasks, w, Proc
    <3>3. Proper(View, w[1])
      <4>1. IsSeq(w)
        BY <3>2 DEF Fits, Part
      <4>2. 1 \in DOMAIN w
        BY <4>1, <1>7, SeqFacts
      <4>3. QED
        BY <3>2, <4>2 DEF Fits, Part
    <3>4. w[1][2] \in Key /\ recordKey = 0
      BY <2>5, <3>3 DEF Proper, View
    <3>5. QED
      BY <3>4, BoundAssumption DEF Key, Enc, None
  <2>6. w[1][1] = "decrypt" \/ w[1][1] = "put_record"
    BY <1>7
  <2>7. ~late' => ~late
    BY <1>6
  <2>8. \A q \in Unsealers : OpIn(q, {"decrypt", "put_record"})' => barrier'.key = work'[q][1][2]
    BY <1>7, <1>8, <2>1, <2>3 DEF OpIn
  <2>9. \A q \in Sealers : ~late' => ~OpIn(q, {"close"})'
    BY <2>2, <2>4, <2>7 DEF Sealing, OpIn
  <2>10. (\A q \in Unsealers : ~OpIn(q, {"decrypt", "open", "reset_cipher"})') =>
           barrier'.key \notin {recordKey', Enc} \ {None}
    <3>1. CASE w[1][1] = "decrypt"
      BY <1>4, <1>7, <2>3, <3>1 DEF OpIn
    <3>2. CASE w[1][1] = "put_record"
      BY <1>6, <1>7, <1>8, <2>5, <3>2
    <3>3. QED
      BY <2>6, <3>1, <3>2
  <2>11. QED
    BY <2>2, <2>4, <2>7, <2>8, <2>9, <2>10 DEF Closing
<1>11. Whole'
  BY <1>3, <1>4, <1>5, <1>6, PoppedSealed DEF OpIn, Serving, PostOps
<1>12. QED
  BY <1>9, <1>10, <1>11

LEMMA DecryptTracks ==
  ASSUME TrackInv, SoleUnsealer, NEW p \in Proc, Decrypt(p)
  PROVE  Right' /\ Closing' /\ Whole'
<1>1. /\ p \in Unsealers /\ OpIn(p, {"decrypt"}) /\ Proper(View, work[p][1])
      /\ Uses(Tail(work[p])[1], work[p][1][2])
      /\ UNCHANGED <<storage, modules, operators, ghosts>>
  BY DecryptMoves DEF TrackInv
<1>2. work[p] # <<>> /\ work[p][1][1] = "decrypt"
  BY <1>1 DEF OpIn
<1>3. UNCHANGED <<recordKey, mounted, handler, late, cut>>
  BY <1>1 DEF storage, modules, ghosts
<1>4. barrier.sealed /\ work[p][1][2] \in Key \cup {Wrong} /\ barrier \in [sealed : BOOLEAN, key : Cipher]
  BY <1>1, <1>2 DEF TrackInv, KeyInv, Barrier, Stages, OpIn, Closed, Proper
<1>5. \A q \in Unsealers : q = p
  BY <1>1 DEF SoleUnsealer
<1>6. ToSet(Tail(work[p])) \subseteq ToSet(work[p]) /\ work[p][1] \in ToSet(work[p])
  BY <1>2, HeadAndTail DEF TrackInv
<1>7. ASSUME ~late, ~cut
      PROVE  (\A z \in ToSet(work[p]) : CopySealed(z)) /\ Calm /\ state.sealed
  BY <1>1, <1>2, <1>7, WholeFacts DEF OpIn, Serving, PostOps
<1>8. CASE work[p][1][2] = recordKey
  <2> DEFINE t == Tail(work[p]) s == <<<<"open">>>> w == s \o t
  <2>1. Turn(p, w) /\ w # <<>> /\ w[1] = <<"open">> /\ w[2] = t[1]
        /\ barrier' = [barrier EXCEPT !.key = Enc] /\ UNCHANGED state
    BY <1>8, DecryptMoves DEF TrackInv
  <2>2. IsSeq(t) /\ IsSeq(s) /\ ToSet(s) = {<<"open">>}
    <3>1. IsSeq(t)
      BY <1>2, TailFacts DEF TrackInv, KeyInv, Tasks, Fits, Part
    <3>2. IsSeq(s)
      BY DEF IsSeq
    <3>3. QED
      BY <3>1, <3>2, OneStep
  <2>3. w[1][1] = "open"
    BY <2>1
  <2>4. ToSet(w) = {w[1]} \cup ToSet(t)
    BY <2>1, <2>2, ToSetCat
  <2>5. Uses(w[2], recordKey)
    BY <1>1, <1>8, <2>1
  <2> HIDE DEF w, s, t
  <2>6. work'[p] = w
    BY <2>1 DEF Turn
  <2>7. Right'
    BY <1>3, <1>5, <2>3, <2>5, <2>6 DEF Right, OpIn
  <2>8. Closing'
    <3>1. Sealing' <=> Sealing
      BY <1>1, <2>1, SealersKept, ProcAssumption DEF Proc
    <3>2. \A q \in Sealers : work'[q] = work[q]
      BY <1>1, <2>1, SealersKept, ProcAssumption DEF Proc
    <3>3. ~late => ~Sealing
      BY <1>4 DEF TrackInv, Closing
    <3>4. OpIn(p, {"decrypt", "open", "reset_cipher"})' /\ ~OpIn(p, {"decrypt", "put_record"})'
      BY <2>1, <2>3, <2>6 DEF OpIn
    <3>5. \A q \in Sealers : ~late' => ~OpIn(q, {"close"})'
      BY <1>3, <3>2, <3>3 DEF Sealing, OpIn
    <3>6. QED
      BY <1>1, <1>3, <1>5, <3>1, <3>3, <3>4, <3>5 DEF Closing
  <2>9. \A z \in ToSet(w) : z = w[1] \/ z \in ToSet(work[p])
    BY <1>6, <2>4 DEF t
  <2>10. CopySealed(w[1])
    BY <2>3 DEF CopySealed
  <2>11. Whole'
    BY <1>1, <1>3, <1>7, <2>1, <2>9, <2>10, WholeOf
  <2>12. QED
    BY <2>7, <2>8, <2>11
<1>9. CASE work[p][1][2] # recordKey
  <2>1. Turn(p, <<>>) /\ state' = work[p][1][3] /\ UNCHANGED barrier
    BY <1>9, DecryptMoves DEF TrackInv
  <2>2. ~late /\ ~cut => state'.sealed
    BY <1>2, <1>6, <1>7, <2>1 DEF CopySealed
  <2>3. Whole'
    BY <1>1, <1>3, <1>2, <2>1, <2>2, WholeShut, WholeFacts, <1>7
  <2>4. Closing'
    <3>1. Sealing' <=> Sealing
      BY <1>1, <2>1, SealersKept, ProcAssumption DEF Proc
    <3>2. \A q \in Sealers : work'[q] = work[q]
      BY <1>1, <2>1, SealersKept, ProcAssumption DEF Proc
    <3>3. work'[p] = <<>>
      BY <2>1 DEF Turn
    <3>4. \A q \in Unsealers : ~OpIn(q, {"decrypt", "put_record"})'
      BY <1>5, <3>3 DEF OpIn
    <3>5. ~late => barrier.key = work[p][1][2]
      BY <1>1, <1>2 DEF TrackInv, Closing, OpIn
    <3>6. barrier.key = work[p][1][2] => barrier.key \notin {recordKey, Enc} \ {None}
      BY <1>4, <1>9, BoundAssumption DEF Key, Enc, Wrong
    <3>7. \A q \in Sealers : ~late' => (OpIn(q, {"close"})' => barrier'.key = None)
      BY <1>3, <2>1, <3>2 DEF TrackInv, Closing, OpIn
    <3>8. QED
      BY <1>3, <2>1, <3>1, <3>4, <3>5, <3>6, <3>7 DEF TrackInv, Closing
  <2>5. QED
    BY <1>1, <2>1, <2>3, <2>4, RightNone
<1>10. QED
  BY <1>8, <1>9

LEMMA OpenTracks ==
  ASSUME TrackInv, SoleUnsealer, NEW p \in Proc, Open(p)
  PROVE  Right' /\ Closing' /\ Whole'
<1>1. At(p, "open") /\ Then(p, <<>>) /\ barrier' = [barrier EXCEPT !.sealed = FALSE]
      /\ UNCHANGED <<storage, state, modules, operators, ghosts>>
  BY DEF Open
<1>2. View' = View /\ Grows(View, View')
  BY <1>1, SameView DEF storage, operators, ghosts
<1>3. Popped(p) /\ work[p][1][1] = "open" /\ work[p] # <<>>
  BY <1>1, <1>2, Pops DEF TrackInv, KeyInv, Popped
<1>4. p \in Unsealers /\ OpIn(p, {"open"})
  BY <1>1, <1>3, AtUnsealer DEF TrackInv, KeyInv, UnsealOps, OpIn
<1>5. UNCHANGED <<recordKey, state, mounted, handler, late, cut>>
  BY <1>1 DEF storage, modules, ghosts
<1> DEFINE w == Tail(work[p])
<1>6. Turn(p, w) /\ w # <<>> /\ w[1][1] \in {"opened", "split"}
  BY <1>3 DEF Popped, Follows, Ends
<1>7. w[1] = work[p][2]
  <2>1. IsSeq(work[p])
    BY DEF TrackInv, KeyInv, Tasks, Fits, Part
  <2>2. IsSeq(w) /\ \A i \in 1..Len(w) : w[i] = work[p][i + 1]
    BY <1>3, <2>1, TailFacts
  <2>3. 1 \in 1..Len(w)
    BY <1>6, <2>2, SeqFacts
  <2>4. QED
    BY <2>2, <2>3
<1> HIDE DEF w
<1>8. Uses(w[1], recordKey)
  BY <1>4, <1>7 DEF TrackInv, Right
<1>9. barrier' \in [sealed : BOOLEAN, key : Cipher] /\ ~barrier'.sealed
  BY <1>1 DEF TrackInv, KeyInv, Barrier
<1>10. \A q \in Unsealers : q = p
  BY <1>4 DEF SoleUnsealer
<1>11. work'[p] = w
  BY <1>6 DEF Turn
<1>12. Right'
  BY <1>5, <1>6, <1>8, <1>10, <1>11 DEF Right, OpIn
<1>13. Closing'
  <2>1. \A q \in Sealers : work'[q] = work[q]
    BY <1>4, <1>6, SealersKept, ProcAssumption DEF Proc
  <2>2. \A q \in Unsealers : ~OpIn(q, {"decrypt", "put_record"})'
    BY <1>6, <1>10, <1>11 DEF OpIn
  <2>3. barrier.sealed
    BY <1>3, <1>4 DEF TrackInv, KeyInv, Stages, OpIn, Closed
  <2>4. \A q \in Sealers : ~late => ~OpIn(q, {"close"})
    BY <2>3 DEF TrackInv, Closing, Sealing, OpIn
  <2>5. \A q \in Sealers : ~late' => ~OpIn(q, {"close"})'
    BY <1>5, <2>1, <2>4 DEF OpIn
  <2>6. QED
    BY <1>9, <2>2, <2>5 DEF Closing
<1>14. Whole'
  BY <1>3, <1>4, <1>5, PoppedSealed DEF OpIn, Serving, PostOps
<1>15. QED
  BY <1>12, <1>13, <1>14

LEMMA ResetCipherTracks ==
  ASSUME TrackInv, SoleUnsealer, SoleSealer, NEW p \in Proc, ResetCipher(p)
  PROVE  Right' /\ Closing' /\ Whole'
<1>1. At(p, "reset_cipher") /\ Then(p, <<>>) /\ barrier' = [barrier EXCEPT !.key = None]
      /\ UNCHANGED <<storage, state, modules, operators, ghosts>>
  BY DEF ResetCipher
<1>2. View' = View /\ Grows(View, View')
  BY <1>1, SameView DEF storage, operators, ghosts
<1>3. Popped(p) /\ work[p][1][1] = "reset_cipher" /\ work[p] # <<>> /\ "reset_cipher" \in Ops(p)
  BY <1>1, <1>2, Pops DEF TrackInv, KeyInv, Popped
<1>4. UNCHANGED <<recordKey, state, mounted, handler, late, cut>>
  BY <1>1 DEF storage, modules, ghosts
<1> DEFINE w == Tail(work[p])
<1>5. Turn(p, w) /\ w # <<>> /\ w[1][1] \in {"unseal", "close"}
  BY <1>3 DEF Popped, Follows, Ends
<1> HIDE DEF w
<1>6. barrier'.key = None /\ barrier'.sealed = barrier.sealed
  BY <1>1 DEF TrackInv, KeyInv, Barrier
<1>7. work'[p] = w
  BY <1>5 DEF Turn
<1>8. CASE p \in Unsealers
  <2>1. \A q \in Unsealers : q = p
    BY <1>8 DEF SoleUnsealer
  <2>2. Right'
    BY <1>5, <1>8, RightOf
  <2>3. Closing'
    <3>1. Sealing' <=> Sealing
      BY <1>5, <1>8, SealersKept, ProcAssumption DEF Proc
    <3>2. \A q \in Unsealers : ~OpIn(q, {"decrypt", "put_record"})'
      BY <1>5, <1>7, <2>1 DEF OpIn
    <3>3. QED
      BY <1>4, <1>6, <3>1, <3>2 DEF TrackInv, Closing
  <2>4. Whole'
    BY <1>3, <1>4, <1>8, PoppedSealed DEF OpIn, Serving, PostOps
  <2>5. QED
    BY <2>2, <2>3, <2>4
<1>9. CASE p \notin Unsealers
  <2>1. p \in Sealers
    BY <1>3, <1>9 DEF Ops
  <2>2. Right'
    BY <1>4, <1>5, <1>9, RightOthers DEF TrackInv
  <2>3. \A q \in Unsealers : work'[q] = work[q]
    BY <1>5, <1>9, UnsealersKept
  <2>4. ~late => ~barrier.sealed
    BY <1>3, <2>1 DEF TrackInv, Closing, Sealing
  <2>5. Closing'
    <3>1. \A q \in Unsealers : ~late => ~OpIn(q, {"decrypt", "put_record"})
      BY <2>4 DEF TrackInv, KeyInv, Stages, OpIn, Closed
    <3>2. \A q \in Unsealers : ~late' => ~OpIn(q, {"decrypt", "put_record"})'
      BY <1>4, <2>3, <3>1 DEF OpIn
    <3>3. QED
      BY <1>4, <1>6, <2>4, <3>2 DEF Closing
  <2>6. Whole'
    <3>1. ~Calm
      BY <1>3, <2>1 DEF Calm, OpIn
    <3>2. QED
      BY <1>4, <2>3, <3>1 DEF TrackInv, Whole, Copies, OpIn
  <2>7. QED
    BY <2>2, <2>5, <2>6
<1>10. QED
  BY <1>8, <1>9

LEMMA CloseTracks ==
  ASSUME TrackInv, SoleSealer, NEW p \in Proc, Close(p)
  PROVE  Right' /\ Closing' /\ Whole'
<1>1. At(p, "close") /\ Then(p, <<>>) /\ barrier' = [barrier EXCEPT !.sealed = TRUE]
      /\ UNCHANGED <<storage, state, modules, operators, ghosts>>
  BY DEF Close
<1>2. View' = View /\ Grows(View, View')
  BY <1>1, SameView DEF storage, operators, ghosts
<1>3. Popped(p) /\ work[p][1][1] = "close" /\ work[p] # <<>>
  BY <1>1, <1>2, Pops DEF TrackInv, KeyInv, Popped
<1>4. p \notin Unsealers /\ p \in Sealers
  BY <1>1, AtOther DEF TrackInv, KeyInv
<1>5. UNCHANGED <<recordKey, state, mounted, handler, late, cut>>
  BY <1>1 DEF storage, modules, ghosts
<1>6. Turn(p, <<>>)
  BY <1>3 DEF Popped, Follows
<1>7. barrier'.key = barrier.key /\ barrier'.sealed
  BY <1>1 DEF TrackInv, KeyInv, Barrier
<1>8. \A q \in Sealers : work'[q] = <<>>
  BY <1>4, <1>6 DEF SoleSealer, Turn
<1>9. \A q \in Unsealers : work'[q] = work[q]
  BY <1>4, <1>6, UnsealersKept
<1>10. Right'
  BY <1>4, <1>5, <1>6, RightOthers DEF TrackInv
<1>11. Closing'
  <2>1. ~late => ~barrier.sealed /\ barrier.key = None
    BY <1>3, <1>4 DEF TrackInv, Closing, Sealing, OpIn
  <2>2. \A q \in Unsealers : ~late => ~OpIn(q, {"decrypt", "put_record"})
    BY <2>1 DEF TrackInv, KeyInv, Stages, OpIn, Closed
  <2>3. \A q \in Unsealers : ~late' => ~OpIn(q, {"decrypt", "put_record"})'
    BY <1>5, <1>9, <2>2 DEF OpIn
  <2>4. ~Sealing'
    BY <1>8 DEF Sealing
  <2>5. \A q \in Sealers : ~OpIn(q, {"close"})'
    BY <1>8 DEF OpIn
  <2>6. QED
    BY <1>5, <1>7, <2>1, <2>3, <2>4, <2>5 DEF Closing
<1>12. Whole'
  <2>1. ~Calm
    BY <1>3, <1>4 DEF Calm, OpIn
  <2>2. QED
    BY <1>5, <1>9, <2>1 DEF TrackInv, Whole, Copies, OpIn
<1>13. QED
  BY <1>10, <1>11, <1>12

LEMMA SealTracks ==
  ASSUME TrackInv, SoleSealer, NEW p \in Proc, Seal(p)
  PROVE  Right' /\ Closing' /\ Whole'
<1>1. /\ p \in Sealers /\ p \notin Unsealers /\ work[p] = <<>>
      /\ \/ Turn(p, <<>>)
         \/ ~barrier.sealed /\ \E w : Turn(p, w) /\ w # <<>> /\ w[1][1] = "pre_seal"
      /\ UNCHANGED <<storage, barrier, state, modules, gen, handed, ghosts>>
  BY SealMoves DEF TrackInv
<1>2. PICK w : Turn(p, w) /\ (w # <<>> => w[1][1] = "pre_seal" /\ ~barrier.sealed)
  BY <1>1
<1>3. UNCHANGED <<recordKey, barrier, state, mounted, handler, late, cut>>
  BY <1>1 DEF storage, modules, ghosts
<1>4. \A q \in Unsealers : work'[q] = work[q]
  BY <1>1, <1>2, UnsealersKept
<1>5. \A q \in Sealers : work'[q] = w /\ work[q] = <<>>
  BY <1>1, <1>2 DEF SoleSealer, Turn
<1>6. Right'
  BY <1>1, <1>2, <1>3, RightOthers DEF TrackInv
<1>7. Closing'
  <2>1. \A q \in Sealers : ~OpIn(q, {"close"})'
    BY <1>2, <1>5 DEF OpIn
  <2>2. Sealing' => ~barrier.sealed
    BY <1>2, <1>5 DEF Sealing
  <2>3. QED
    BY <1>3, <1>4, <2>1, <2>2 DEF TrackInv, Closing, OpIn
<1>8. Whole'
  <2>1. Calm'
    BY <1>2, <1>5 DEF Calm, OpIn
  <2>2. Readable' <=> Readable
    BY <1>3 DEF Readable
  <2>3. QED
    BY <1>3, <1>4, <2>1, <2>2 DEF TrackInv, Whole, Copies, OpIn
<1>9. QED
  BY <1>6, <1>7, <1>8

LEMMA PreSealTracks ==
  ASSUME TrackInv, SoleSealer, NEW p \in Proc, PreSeal(p)
  PROVE  Right' /\ Closing' /\ Whole'
<1>1. /\ p \in Sealers /\ p \notin Unsealers /\ OpIn(p, {"pre_seal"})
      /\ \/ Turn(p, <<>>) /\ UNCHANGED <<mounted, handler, state>>
         \/ /\ state' = DefaultState
            /\ \E w : Turn(p, w) /\ w # <<>> /\ w[1][1] = "reset_cipher"
      /\ cut' = (cut \/ \E q \in Unsealers : work[q] # <<>>)
      /\ UNCHANGED <<storage, barrier, made, operators, blind, late, faults>>
  BY PreSealMoves DEF TrackInv
<1>2. PICK w : /\ Turn(p, w)
               /\ \/ w = <<>> /\ UNCHANGED <<mounted, handler, state>>
                  \/ state' = DefaultState /\ w # <<>> /\ w[1][1] = "reset_cipher"
  BY <1>1
<1>3. UNCHANGED <<recordKey, barrier, late>>
  BY <1>1 DEF storage
<1>4. \A q \in Unsealers : work'[q] = work[q]
  BY <1>1, <1>2, UnsealersKept
<1>5. \A q \in Sealers : work'[q] = w
  BY <1>1, <1>2 DEF SoleSealer, Turn
<1>6. Right'
  BY <1>1, <1>2, <1>3, RightOthers DEF TrackInv
<1>7. Closing'
  <2>1. \A q \in Sealers : ~OpIn(q, {"close"})'
    BY <1>2, <1>5 DEF OpIn
  <2>2. Sealing
    BY <1>1 DEF Sealing, OpIn
  <2>3. QED
    BY <1>3, <1>4, <2>1, <2>2 DEF TrackInv, Closing, OpIn
<1>8. Whole'
  <2>1. ASSUME ~cut'
        PROVE  ~cut /\ \A q \in Unsealers : work'[q] = <<>>
    BY <1>1, <1>4, <2>1
  <2>2. CASE state' = DefaultState
    <3>1. state'.sealed
      BY <2>2, DefaultCopy
    <3>2. ~cut' => Copies'
      BY <2>1, NoSteps DEF Copies
    <3>3. QED
      BY <2>1, <3>1, <3>2 DEF Whole
  <2>3. CASE w = <<>> /\ UNCHANGED <<mounted, handler, state>>
    <3>1. Calm'
      BY <1>5, <2>3 DEF Calm
    <3>2. Readable' <=> Readable
      BY <1>3 DEF Readable
    <3>3. QED
      BY <1>3, <1>4, <2>1, <2>3, <3>1, <3>2 DEF TrackInv, Whole, Copies, OpIn
  <2>4. QED
    BY <1>2, <2>2, <2>3
<1>9. QED
  BY <1>6, <1>7, <1>8

(* What a client does, or nobody.                                           *)
LEMMA RestTracks ==
  ASSUME TrackInv, \A q \in Unsealers \cup Sealers : work'[q] = work[q],
         UNCHANGED <<recordKey, barrier, state, mounted, handler, late, cut>>
  PROVE  Right' /\ Closing' /\ Whole'
<1>1. Right'
  BY DEF TrackInv, Right, OpIn, Uses
<1>2. Sealing' <=> Sealing
  BY DEF Sealing
<1>3. Closing'
  BY <1>2 DEF TrackInv, Closing, OpIn
<1>4. (Calm' <=> Calm) /\ (Readable' <=> Readable)
  BY DEF Calm, OpIn, Readable
<1>5. Whole'
  BY <1>4 DEF TrackInv, Whole, Copies, OpIn
<1>6. QED
  BY <1>1, <1>3, <1>5

LEMMA WriteTracks ==
  ASSUME TrackInv, NEW p \in Proc, Write(p) \/ Put(p)
  PROVE  Right' /\ Closing' /\ Whole'
<1>1. PICK w : Turn(p, w) /\ p \notin Unsealers /\ p \notin Sealers
  BY WriteMoves, PutMoves DEF TrackInv
<1>2. \A q \in Unsealers \cup Sealers : work'[q] = work[q]
  BY <1>1 DEF Turn, Proc
<1>3. UNCHANGED <<recordKey, barrier, state, mounted, handler, late, cut>>
  BY DEF Write, Put, Request, storage, modules, ghosts
<1>4. QED
  BY <1>2, <1>3, RestTracks

LEMMA CrashTracks ==
  ASSUME TrackInv, Crash
  PROVE  Right' /\ Closing' /\ Whole'
<1>1. /\ \A p \in Proc : work'[p] = <<>>
      /\ barrier' = [sealed |-> TRUE, key |-> None] /\ state' = DefaultState
  BY CrashMoves DEF TrackInv
<1>2. \A p \in Unsealers \cup Sealers : work'[p] = <<>>
  BY <1>1 DEF Proc
<1>3. state'.sealed
  BY <1>1, DefaultCopy
<1>4. Right'
  BY <1>2 DEF Right, OpIn
<1>5. ~Sealing' /\ Calm' /\ Copies'
  BY <1>2, NoSteps DEF Sealing, Calm, Copies
<1>6. Closing'
  BY <1>1, <1>2, <1>5 DEF Closing, OpIn
<1>7. Whole'
  BY <1>3, <1>5 DEF Whole
<1>8. QED
  BY <1>4, <1>6, <1>7

LEMMA DoUnsealTracks ==
  ASSUME TrackInv, SoleUnsealer, NEW p \in Proc, DoUnseal(p)
  PROVE  Right' /\ Closing' /\ Whole'
<1> DEFINE y == <<"count", work[p][1][2], work[p][1][3], state>> w == <<y>>
<1>1. /\ p \in Unsealers /\ OpIn(p, {"do_unseal"})
      /\ Turn(p, <<>>) \/ (barrier.sealed /\ Turn(p, w))
      /\ UNCHANGED <<storage, barrier, state, modules, operators, ghosts>>
  BY DoUnsealMoves DEF TrackInv
<1>2. y[1] = "count" /\ y[4] = state /\ w[1] = y /\ w # <<>> /\ ToSet(w) = {y}
  BY OneStep
<1> HIDE DEF y, w
<1>3. UNCHANGED <<recordKey, barrier, state, mounted, handler, late, cut>>
  BY <1>1 DEF storage, modules, ghosts
<1>4. work[p][1][1] = "do_unseal"
  BY <1>1 DEF OpIn
<1>5. CASE Turn(p, <<>>)
  <2>1. Closing'
    BY <1>1, <1>3, <1>4, <1>5, ClosingOf DEF TrackInv
  <2>2. Whole'
    BY <1>1, <1>3, <1>4, <1>5, WholeNone DEF OpIn
  <2>3. QED
    BY <1>1, <1>5, <2>1, <2>2, RightNone
<1>6. CASE barrier.sealed /\ Turn(p, w)
  <2>1. Right' /\ Closing'
    BY <1>1, <1>2, <1>3, <1>4, <1>6, RightOf, ClosingOf DEF TrackInv
  <2>2. ASSUME ~late, ~cut PROVE Calm /\ state.sealed
    <3>1. ~Sealing
      BY <1>6, <2>2 DEF TrackInv, Closing
    <3>2. state.sealed
      BY <1>1, <1>6, <2>2, WholeFacts DEF Readable
    <3>3. QED
      BY <3>1, <3>2 DEF Sealing, Calm
  <2>3. ~late /\ ~cut => \A z \in ToSet(w) : CopySealed(z)
    BY <1>2, <2>2 DEF CopySealed
  <2>4. Whole'
    BY <1>1, <1>3, <1>6, <2>2, <2>3, WholeOf
  <2>5. QED
    BY <2>1, <2>4
<1>7. QED
  BY <1>1, <1>5, <1>6

LEMMA CountTracks ==
  ASSUME TrackInv, SoleUnsealer, NEW p \in Proc, Count(p)
  PROVE  Right' /\ Closing' /\ Whole'
<1>1. /\ p \in Unsealers /\ OpIn(p, {"count"})
      /\ \/ /\ Turn(p, <<>>)
            /\ state'.sealed = state.sealed \/ state'.sealed = work[p][1][4].sealed
         \/ /\ UNCHANGED state
            /\ \E k, c, s, r :
                 /\ c.sealed = work[p][1][4].sealed
                 /\ Turn(p, <<<<"unseal", k, c>>,
                              <<"opened", s, work[p][1][3], r, deprecated>>>>)
      /\ UNCHANGED <<storage, barrier, modules, operators, cut, late>>
  BY CountMoves DEF TrackInv
<1>2. UNCHANGED <<recordKey, barrier, mounted, handler, late, cut>>
  BY <1>1 DEF storage, modules
<1>3. work[p][1][1] = "count" /\ work[p] # <<>> /\ work[p][1] \in ToSet(work[p])
  BY <1>1, HeadAndTail DEF OpIn, TrackInv
<1>4. ASSUME ~late, ~cut PROVE Calm /\ state.sealed /\ work[p][1][4].sealed
  BY <1>1, <1>3, <1>4, WholeFacts DEF OpIn, Serving, PostOps, CopySealed
<1>5. CASE /\ Turn(p, <<>>)
           /\ state'.sealed = state.sealed \/ state'.sealed = work[p][1][4].sealed
  <2>1. Closing'
    BY <1>1, <1>2, <1>3, <1>5, ClosingOf DEF TrackInv
  <2>2. ~late' /\ ~cut' => state'.sealed
    BY <1>2, <1>4, <1>5, Zenon
  <2>3. Whole'
    BY <1>1, <1>5, <2>2, WholeShut
  <2>4. QED
    BY <1>1, <1>5, <2>1, <2>3, RightNone
<1>6. CASE UNCHANGED state /\ ~Turn(p, <<>>)
  <2>1. PICK k, c, s, r :
          /\ c.sealed = work[p][1][4].sealed
          /\ Turn(p, <<<<"unseal", k, c>>, <<"opened", s, work[p][1][3], r, deprecated>>>>)
    BY <1>1, <1>6
  <2> DEFINE x == <<"unseal", k, c>> y == <<"opened", s, work[p][1][3], r, deprecated>>
             w == <<x, y>>
  <2>2. /\ x[1] = "unseal" /\ x[3] = c /\ y[1] = "opened" /\ w[1] = x /\ w # <<>>
        /\ ToSet(w) = {x, y} /\ Turn(p, w)
    BY <2>1 DEF ToSet
  <2> HIDE DEF x, y, w
  <2>3. Right' /\ Closing'
    BY <1>1, <1>2, <1>3, <2>2, RightOf, ClosingOf DEF TrackInv
  <2>4. ~late /\ ~cut => \A z \in ToSet(w) : CopySealed(z)
    BY <1>4, <2>1, <2>2 DEF CopySealed
  <2>5. Whole'
    BY <1>1, <1>2, <1>4, <1>6, <2>2, <2>4, WholeOf
  <2>6. QED
    BY <2>3, <2>5
<1>7. QED
  BY <1>1, <1>5, <1>6

LEMMA OpenedTracks ==
  ASSUME TrackInv, SoleUnsealer, NEW p \in Proc, Opened(p)
  PROVE  Right' /\ Closing' /\ Whole'
<1>1. /\ p \in Unsealers /\ OpIn(p, {"opened"}) /\ recordKey # 0
      /\ \/ Turn(p, <<>>) /\ UNCHANGED state
         \/ /\ ~barrier.sealed /\ barrier.key # None
            /\ state' = [sealed |-> FALSE, shares |-> <<>>, kek |-> Combined(work[p][1][2])]
            /\ \E w : /\ Turn(p, w) /\ w # <<>> /\ w[1] = <<"load", FALSE>>
                      /\ \A x \in ToSet(w) : x[1] \in PostOps
                           \/ (x[1] \in {"deprecate", "generate"} /\ work[p][1][3])
      /\ UNCHANGED <<storage, barrier, modules, operators, ghosts>>
  BY OpenedMoves DEF TrackInv
<1>2. UNCHANGED <<recordKey, barrier, mounted, handler, late, cut>>
  BY <1>1 DEF storage, modules, ghosts
<1>3. work[p][1][1] = "opened" /\ work[p] # <<>>
  BY <1>1 DEF OpIn
<1>4. ASSUME ~late, ~cut PROVE Calm /\ state.sealed
  BY <1>1, <1>3, <1>4, WholeFacts DEF OpIn, Serving, PostOps
<1>5. CASE Turn(p, <<>>) /\ UNCHANGED state
  <2>1. Closing'
    BY <1>1, <1>2, <1>3, <1>5, ClosingOf DEF TrackInv
  <2>2. Whole'
    BY <1>1, <1>2, <1>4, <1>5, WholeShut
  <2>3. QED
    BY <1>1, <1>5, <2>1, <2>2, RightNone
<1>6. CASE ~(Turn(p, <<>>) /\ UNCHANGED state)
  <2>1. ~barrier.sealed /\ barrier.key # None
        /\ state' = [sealed |-> FALSE, shares |-> <<>>, kek |-> Combined(work[p][1][2])]
    BY <1>1, <1>6
  <2>2. PICK w : /\ Turn(p, w) /\ w # <<>> /\ w[1] = <<"load", FALSE>>
                 /\ \A x \in ToSet(w) : x[1] \in PostOps \cup {"deprecate", "generate"}
    BY <1>1, <1>6
  <2>3. w[1][1] = "load"
    BY <2>2
  <2>4. Combined(work[p][1][2]) = recordKey
    BY <1>1, <1>3 DEF TrackInv, Right, Uses
  <2>5. Readable
    BY <2>1 DEF TrackInv, KeyInv, Barrier, Readable
  <2>6. Readable' /\ state'.kek = recordKey'
    BY <1>2, <2>1, <2>4, <2>5 DEF Readable
  <2>7. \A z \in ToSet(w) : CopySealed(z)
    BY <2>2 DEF CopySealed, PostOps
  <2>8. Right' /\ Closing'
    BY <1>1, <1>2, <1>3, <2>2, <2>3, RightOf, ClosingOf DEF TrackInv
  <2>9. Whole'
    BY <1>1, <1>2, <1>4, <2>2, <2>3, <2>6, <2>7, WholeOf DEF Serving, PostOps
  <2>10. QED
    BY <2>8, <2>9
<1>7. QED
  BY <1>5, <1>6

LEMMA DeprecateTracks ==
  ASSUME TrackInv, SoleUnsealer, NEW p \in Proc, Deprecate(p)
  PROVE  Right' /\ Closing' /\ Whole'
<1>1. /\ p \in Unsealers /\ OpIn(p, {"deprecate"})
      /\ UNCHANGED <<recordKey, written, barrier, state, modules, operators, ghosts>>
  BY DeprecateMoves DEF TrackInv
<1>2. PICK w : Turn(p, w) /\ w # <<>> /\ \A x \in ToSet(w) : x[1] = "generate"
  BY DeprecateMoves DEF TrackInv
<1>3. UNCHANGED <<recordKey, barrier, state, mounted, handler, late, cut>>
  BY <1>1 DEF modules, ghosts
<1>4. work[p][1][1] = "deprecate" /\ work[p] # <<>>
  BY <1>1 DEF OpIn
<1>5. w[1][1] = "generate"
  <2>1. PICK x : Turn(p, x) /\ x[1][1] = "generate"
    BY DeprecateMoves DEF TrackInv
  <2>2. QED
    BY <1>2, <2>1 DEF Turn
<1>6. Right' /\ Closing'
  BY <1>1, <1>2, <1>3, <1>4, <1>5, RightOf, ClosingOf DEF TrackInv
<1>7. ASSUME ~late, ~cut
      PROVE  Calm /\ (~state.sealed => Readable /\ state.kek = recordKey /\ mounted /\ handler)
  BY <1>1, <1>4, <1>7, WholeFacts DEF OpIn
<1>8. Readable' <=> Readable
  BY <1>3 DEF Readable
<1>9. \A z \in ToSet(w) : CopySealed(z)
  BY <1>2 DEF CopySealed
<1>10. Whole'
  BY <1>1, <1>2, <1>3, <1>5, <1>7, <1>8, <1>9, WholeOf DEF Serving
<1>11. QED
  BY <1>6, <1>10

LEMMA GenerateTracks ==
  ASSUME TrackInv, SoleUnsealer, NEW p \in Proc, Generate(p)
  PROVE  Right' /\ Closing' /\ Whole'
<1>1. /\ p \in Unsealers /\ OpIn(p, {"generate"}) /\ Turn(p, <<>>)
      /\ UNCHANGED <<storage, barrier, state, modules, ops, ghosts>>
  BY GenerateMoves DEF TrackInv
<1>2. UNCHANGED <<recordKey, barrier, state, mounted, handler, late, cut>>
  BY <1>1 DEF storage, modules, ghosts
<1>3. work[p][1][1] = "generate"
  BY <1>1 DEF OpIn
<1>4. Closing'
  BY <1>1, <1>2, <1>3, ClosingOf DEF TrackInv
<1>5. Whole'
  BY <1>1, <1>2, <1>3, WholeNone DEF OpIn
<1>6. QED
  BY <1>1, <1>4, <1>5, RightNone

LEMMA PostTracks ==
  ASSUME TrackInv, SoleUnsealer, NEW p \in Proc, NEW op \in PostOps, At(p, op), Then(p, <<>>),
         UNCHANGED <<storage, barrier, state, operators, ghosts>>,
         mounted' = (mounted \/ op = "load"), handler' = (handler \/ op = "handler")
  PROVE  Right' /\ Closing' /\ Whole'
<1>1. View' = View
  BY SameView DEF storage, operators, ghosts
<1>2. p \in Unsealers /\ Popped(p) /\ work[p][1][1] = op /\ work[p] # <<>>
  BY <1>1, PostMoves DEF TrackInv, Popped
<1>3. UNCHANGED <<recordKey, barrier, state, late, cut>>
  BY DEF storage, ghosts
<1> DEFINE w == Tail(work[p])
<1>4. /\ Turn(p, w) /\ ToSet(w) \subseteq ToSet(work[p])
      /\ w # <<>> => w[1][1] \in PostOps \cup {"deprecate", "generate", "init_done"}
      /\ op = "load" => w # <<>> /\ w[1][1] = "token_store"
      /\ op = "token_store" => w # <<>> /\ w[1][1] = "handler"
  BY <1>2, HeadAndTail DEF TrackInv, Popped, Follows, Ends, PostOps
<1> HIDE DEF w
<1>5. Right' /\ Closing'
  BY <1>2, <1>3, <1>4, RightOf, ClosingOf DEF TrackInv, PostOps
<1>6. Readable' <=> Readable
  BY DEF Readable
<1>7. ASSUME ~late, ~cut
      PROVE  /\ Calm /\ \A z \in ToSet(w) : CopySealed(z)
             /\ ~state.sealed =>
                  /\ Readable /\ state.kek = recordKey
                  /\ mounted \/ op = "load"
                  /\ handler \/ op \in {"load", "token_store", "handler"}
  BY <1>2, <1>4, <1>7, WholeFacts DEF OpIn, PostOps
<1>8. w = <<>> \/ w[1][1] \in Serving
  BY <1>4 DEF Serving
<1>9. handler' \/ ~(handler \/ op \in {"load", "token_store", "handler"})
      \/ (w # <<>> /\ w[1][1] \in {"load", "token_store", "handler"})
  BY <1>4
<1>10. Whole'
  BY <1>2, <1>3, <1>4, <1>6, <1>7, <1>8, <1>9, WholeOf
<1>11. QED
  BY <1>5, <1>10

LEMMA PostFailedTracks ==
  ASSUME TrackInv, SoleUnsealer, NEW p \in Proc, NEW op \in PostOps, At(p, op), PostFailed(p),
         UNCHANGED <<storage, operators, blind, cut>>
  PROVE  Right' /\ Closing' /\ Whole'
<1>1. View' = View
  BY SameView DEF storage, operators
<1>2. /\ p \in Unsealers /\ OpIn(p, PostOps) /\ Turn(p, <<>>) /\ state' = DefaultState
      /\ work[p][1][2] \in BOOLEAN
      /\ barrier' = IF work[p][1][2] THEN [sealed |-> TRUE, key |-> None] ELSE barrier
      /\ late' = (late \/ (work[p][1][2] /\ Sealing))
  BY <1>1, PostFailedMoves DEF TrackInv
<1>3. state'.sealed
  BY <1>2, DefaultCopy
<1>4. Whole'
  BY <1>2, <1>3, WholeShut
<1>5. CASE work[p][1][2] = TRUE
  BY <1>2, <1>4, <1>5, RightNone, ClosingShut
<1>6. CASE work[p][1][2] = FALSE
  <2>1. Closing'
    BY <1>2, <1>6, ClosingOf DEF TrackInv, OpIn, PostOps, storage
  <2>2. QED
    BY <1>2, <1>4, <2>1, RightNone
<1>7. QED
  BY <1>2, <1>5, <1>6

LEMMA LoadTracks ==
  ASSUME TrackInv, SoleUnsealer, NEW p \in Proc, Load(p)
  PROVE  Right' /\ Closing' /\ Whole'
<1>1. At(p, "load") /\ "load" \in PostOps
      /\ UNCHANGED <<storage, handler, made, operators, blind, cut, faults>>
  BY DEF Load, PostOps
<1>2. handler \in BOOLEAN
  BY DEF TrackInv, KeyInv, Flags
<1>3. CASE mounted' = TRUE /\ Then(p, <<>>) /\ UNCHANGED <<barrier, state, late>>
  <2>1. UNCHANGED <<storage, barrier, state, operators, ghosts>>
    BY <1>1, <1>3 DEF ghosts
  <2>2. handler' = (handler \/ "load" = "handler") /\ mounted' = (mounted \/ "load" = "load")
    BY <1>1, <1>2, <1>3
  <2>3. QED
    BY <1>1, <1>3, <2>1, <2>2, PostTracks
<1>4. CASE PostFailed(p)
  BY <1>1, <1>4, PostFailedTracks
<1>5. QED
  BY <1>3, <1>4 DEF Load

LEMMA TokenStoreTracks ==
  ASSUME TrackInv, SoleUnsealer, NEW p \in Proc, TokenStore(p)
  PROVE  Right' /\ Closing' /\ Whole'
<1>1. At(p, "token_store") /\ "token_store" \in PostOps
      /\ UNCHANGED <<storage, mounted, handler, operators, blind, cut, faults>>
  BY DEF TokenStore, PostOps
<1>2. mounted \in BOOLEAN /\ handler \in BOOLEAN
  BY DEF TrackInv, KeyInv, Flags
<1>3. CASE Then(p, <<>>) /\ UNCHANGED <<barrier, state, late>>
  <2>1. UNCHANGED <<storage, barrier, state, operators, ghosts>>
    BY <1>1, <1>3 DEF ghosts
  <2>2. handler' = (handler \/ "token_store" = "handler")
        /\ mounted' = (mounted \/ "token_store" = "load")
    BY <1>1, <1>2
  <2>3. QED
    BY <1>1, <1>3, <2>1, <2>2, PostTracks
<1>4. CASE PostFailed(p)
  BY <1>1, <1>4, PostFailedTracks
<1>5. QED
  BY <1>3, <1>4 DEF TokenStore

LEMMA AddHandlerTracks ==
  ASSUME TrackInv, SoleUnsealer, NEW p \in Proc, AddHandler(p)
  PROVE  Right' /\ Closing' /\ Whole'
<1>1. At(p, "handler") /\ "handler" \in PostOps
      /\ UNCHANGED <<storage, mounted, made, operators, blind, cut, faults>>
  BY DEF AddHandler, PostOps
<1>2. mounted \in BOOLEAN
  BY DEF TrackInv, KeyInv, Flags
<1>3. CASE handler' = TRUE /\ Then(p, <<>>) /\ UNCHANGED <<barrier, state, late>>
  <2>1. UNCHANGED <<storage, barrier, state, operators, ghosts>>
    BY <1>1, <1>3 DEF ghosts
  <2>2. handler' = (handler \/ "handler" = "handler")
        /\ mounted' = (mounted \/ "handler" = "load")
    BY <1>1, <1>2, <1>3
  <2>3. QED
    BY <1>1, <1>3, <2>1, <2>2, PostTracks
<1>4. CASE PostFailed(p)
  BY <1>1, <1>4, PostFailedTracks
<1>5. QED
  BY <1>3, <1>4 DEF AddHandler

LEMMA PolicyTracks ==
  ASSUME TrackInv, SoleUnsealer, NEW p \in Proc, Policy(p)
  PROVE  Right' /\ Closing' /\ Whole'
<1>1. At(p, "policy") /\ "policy" \in PostOps
      /\ UNCHANGED <<storage, modules, operators, blind, cut, faults>>
  BY DEF Policy, PostOps
<1>2. mounted \in BOOLEAN /\ handler \in BOOLEAN
  BY DEF TrackInv, KeyInv, Flags
<1>3. CASE Then(p, <<>>) /\ UNCHANGED <<barrier, state, late>>
  <2>1. UNCHANGED <<storage, barrier, state, operators, ghosts>>
    BY <1>1, <1>3 DEF ghosts
  <2>2. handler' = (handler \/ "policy" = "handler") /\ mounted' = (mounted \/ "policy" = "load")
    BY <1>1, <1>2 DEF modules
  <2>3. QED
    BY <1>1, <1>3, <2>1, <2>2, PostTracks
<1>4. CASE PostFailed(p)
  BY <1>1, <1>4, PostFailedTracks
<1>5. QED
  BY <1>3, <1>4 DEF Policy

LEMMA PutConfigTracks ==
  ASSUME TrackInv, SoleUnsealer, NEW p \in Proc, PutConfig(p)
  PROVE  Right' /\ Closing' /\ Whole'
<1> DEFINE y == <<"barrier_init">> w == <<y>>
<1>1. /\ p \in Unsealers /\ OpIn(p, {"put_config"}) /\ Turn(p, w)
      /\ UNCHANGED <<recordKey, written, barrier, state, modules, operators, ghosts>>
  BY PutConfigMoves DEF TrackInv
<1>2. y[1] = "barrier_init" /\ w[1] = y /\ w # <<>> /\ ToSet(w) = {y}
  BY OneStep
<1> HIDE DEF y, w
<1>3. UNCHANGED <<recordKey, barrier, state, mounted, handler, late, cut>>
  BY <1>1 DEF modules, ghosts
<1>4. work[p][1][1] = "put_config" /\ work[p] # <<>>
  BY <1>1 DEF OpIn
<1>5. Right' /\ Closing'
  BY <1>1, <1>2, <1>3, <1>4, RightOf, ClosingOf DEF TrackInv
<1>6. ~late /\ ~cut => Calm /\ state.sealed
  BY <1>1, <1>4, WholeFacts DEF OpIn, Serving, PostOps
<1>7. \A z \in ToSet(w) : CopySealed(z)
  BY <1>2 DEF CopySealed
<1>8. Whole'
  BY <1>1, <1>3, <1>6, <1>7, WholeOf
<1>9. QED
  BY <1>5, <1>8

LEMMA BarrierInitTracks ==
  ASSUME TrackInv, SoleUnsealer, NEW p \in Proc, BarrierInit(p)
  PROVE  Right' /\ Closing' /\ Whole'
<1> DEFINE a == <<"init_cipher", gen + 1>> b == <<"put_record", gen + 1>> c == <<"reset_cipher">>
           d == <<"unseal", gen + 1, state>> e == <<"split", gen + 1>> w == <<a, b, c, d, e>>
<1>1. /\ p \in Unsealers /\ OpIn(p, {"barrier_init"}) /\ recordKey = 0
      /\ Turn(p, <<>>) \/ Turn(p, w)
      /\ UNCHANGED <<storage, barrier, state, modules, handed, ops, ghosts>>
  BY BarrierInitMoves DEF TrackInv
<1>2. /\ a[1] = "init_cipher" /\ b[1] = "put_record" /\ c[1] = "reset_cipher"
      /\ d[1] = "unseal" /\ d[3] = state /\ e[1] = "split"
  OBVIOUS
<1>3. w[1] = a /\ w # <<>> /\ \A z \in ToSet(w) : z \in {a, b, c, d, e}
  BY DEF ToSet
<1> HIDE DEF a, b, c, d, e, w
<1>4. UNCHANGED <<recordKey, barrier, state, mounted, handler, late, cut>>
  BY <1>1 DEF storage, modules, ghosts
<1>5. work[p][1][1] = "barrier_init" /\ work[p] # <<>>
  BY <1>1 DEF OpIn
<1>6. ~late /\ ~cut => Calm
  BY <1>1, <1>5, WholeFacts DEF OpIn
<1>7. state.sealed
  BY <1>1 DEF TrackInv, KeyInv, Blank
<1>8. CASE Turn(p, <<>>)
  BY <1>1, <1>4, <1>5, <1>7, <1>8, RightNone, ClosingOf, WholeShut DEF TrackInv
<1>9. CASE Turn(p, w)
  <2>1. Right' /\ Closing'
    BY <1>1, <1>2, <1>3, <1>4, <1>5, <1>9, RightOf, ClosingOf DEF TrackInv
  <2>2. \A z \in ToSet(w) : CopySealed(z)
    BY <1>2, <1>3, <1>7 DEF CopySealed
  <2>3. Whole'
    BY <1>1, <1>4, <1>6, <1>7, <1>9, <2>2, WholeOf
  <2>4. QED
    BY <2>1, <2>3
<1>10. QED
  BY <1>1, <1>8, <1>9

LEMMA PutRecordTracks ==
  ASSUME TrackInv, SoleUnsealer, NEW p \in Proc, PutRecord(p)
  PROVE  Right' /\ Closing' /\ Whole'
<1>1. /\ p \in Unsealers /\ OpIn(p, {"put_record"}) /\ recordKey = 0
      /\ Popped(p) /\ Tail(work[p]) # <<>> /\ Tail(work[p])[1][1] = "reset_cipher"
      /\ UNCHANGED <<deprecated, written, barrier, state, modules, operators, ghosts>>
  BY PutRecordMoves DEF TrackInv
<1>2. UNCHANGED <<barrier, state, late, cut>>
  BY <1>1 DEF ghosts
<1> DEFINE w == Tail(work[p])
<1>3. Turn(p, w) /\ w # <<>> /\ w[1][1] = "reset_cipher"
  BY <1>1 DEF Popped
<1> HIDE DEF w
<1>4. Right'
  BY <1>1, <1>3, RightOf
<1>5. Closing'
  <2>1. barrier.sealed
    BY <1>1 DEF TrackInv, KeyInv, Blank
  <2>2. \A q \in Unsealers : q = p
    BY <1>1 DEF SoleUnsealer
  <2>3. work'[p] = w
    BY <1>3 DEF Turn
  <2>4. (\A q \in Sealers : work'[q] = work[q]) /\ (Sealing' <=> Sealing)
    BY <1>1, <1>3, SealersKept, ProcAssumption DEF Proc
  <2>5. OpIn(p, {"decrypt", "open", "reset_cipher"})'
    BY <1>3, <2>3 DEF OpIn
  <2>6. \A q \in Unsealers : ~OpIn(q, {"decrypt", "put_record"})'
    BY <1>3, <2>2, <2>3 DEF OpIn
  <2>7. ~late => ~Sealing
    BY <2>1 DEF TrackInv, Closing
  <2>8. \A q \in Sealers : ~late' => ~OpIn(q, {"close"})'
    BY <1>2, <2>4, <2>7 DEF Sealing, OpIn
  <2>9. QED
    BY <1>1, <1>2, <2>4, <2>5, <2>6, <2>7, <2>8 DEF Closing
<1>6. Whole'
  BY <1>1, <1>2, PoppedSealed DEF OpIn, Serving, PostOps
<1>7. QED
  BY <1>4, <1>5, <1>6

(* Split refuses several shares with threshold 1, and leaves what it opened.*)
LEMMA SplitTracks ==
  ASSUME TrackInv, SoleUnsealer, T >= 2 \/ N = 1, NEW p \in Proc, Split(p)
  PROVE  Right' /\ Closing' /\ Whole'
<1>1. /\ p \in Unsealers /\ OpIn(p, {"split"})
      /\ \/ Turn(p, <<>>) /\ UNCHANGED state
         \/ /\ ~barrier.sealed /\ barrier.key # None
            /\ state' = [state EXCEPT !.sealed = FALSE, !.kek = recordKey]
            /\ \/ Turn(p, <<>>) /\ N > 1 /\ T < 2
               \/ \E w : /\ Turn(p, w) /\ w # <<>> /\ w[1] = <<"load", TRUE>>
                         /\ \A x \in ToSet(w) : x[1] \in PostOps \cup {"init_done"}
      /\ UNCHANGED <<storage, barrier, modules, operators, ghosts>>
  BY SplitMoves DEF TrackInv
<1>2. UNCHANGED <<recordKey, barrier, mounted, handler, late, cut>>
  BY <1>1 DEF storage, modules, ghosts
<1>3. work[p][1][1] = "split" /\ work[p] # <<>>
  BY <1>1 DEF OpIn
<1>4. ASSUME ~late, ~cut PROVE Calm /\ state.sealed
  BY <1>1, <1>3, <1>4, WholeFacts DEF OpIn, Serving, PostOps
<1>5. ~(N > 1 /\ T < 2)
  BY ConfigAssumption
<1>6. CASE Turn(p, <<>>) /\ UNCHANGED state
  <2>1. Closing'
    BY <1>1, <1>2, <1>3, <1>6, ClosingOf DEF TrackInv
  <2>2. Whole'
    BY <1>1, <1>2, <1>4, <1>6, WholeShut
  <2>3. QED
    BY <1>1, <1>6, <2>1, <2>2, RightNone
<1>7. CASE ~(Turn(p, <<>>) /\ UNCHANGED state)
  <2>1. ~barrier.sealed /\ barrier.key # None
        /\ state' = [state EXCEPT !.sealed = FALSE, !.kek = recordKey]
    BY <1>1, <1>7
  <2>2. PICK w : /\ Turn(p, w) /\ w # <<>> /\ w[1] = <<"load", TRUE>>
                 /\ \A x \in ToSet(w) : x[1] \in PostOps \cup {"init_done"}
    BY <1>1, <1>5, <1>7
  <2>3. w[1][1] = "load"
    BY <2>2
  <2>4. Readable
    BY <2>1 DEF TrackInv, KeyInv, Barrier, Readable
  <2>5. Readable' /\ state'.kek = recordKey'
    <3>1. state \in CoreState
      BY DEF TrackInv, KeyInv, Shares, Copy
    <3>2. state'.kek = recordKey
      BY <2>1, <3>1 DEF CoreState
    <3>3. QED
      BY <1>2, <2>4, <3>2 DEF Readable
  <2>6. \A z \in ToSet(w) : CopySealed(z)
    BY <2>2 DEF CopySealed, PostOps
  <2>7. Right' /\ Closing'
    BY <1>1, <1>2, <1>3, <2>2, <2>3, RightOf, ClosingOf DEF TrackInv
  <2>8. Whole'
    BY <1>1, <1>2, <1>4, <2>2, <2>3, <2>5, <2>6, WholeOf DEF Serving, PostOps
  <2>9. QED
    BY <2>7, <2>8
<1>8. QED
  BY <1>6, <1>7

LEMMA InitDoneTracks ==
  ASSUME TrackInv, SoleUnsealer, NEW p \in Proc, InitDone(p)
  PROVE  Right' /\ Closing' /\ Whole'
<1>1. /\ p \in Unsealers /\ Turn(p, <<>>)
      /\ barrier' = [sealed |-> TRUE, key |-> None] /\ state' = DefaultState
      /\ late' = (late \/ Sealing)
  BY InitDoneMoves DEF TrackInv
<1>2. state'.sealed
  BY <1>1, DefaultCopy
<1>3. QED
  BY <1>1, <1>2, RightNone, ClosingShut, WholeShut

LEMMA FailTracks ==
  ASSUME TrackInv, SoleUnsealer, NEW p \in Proc, Fail(p)
  PROVE  Right' /\ Closing' /\ Whole'
<1>1. UNCHANGED <<storage, modules, operators, blind, cut>>
  BY DEF Fail
<1>2. View' = View /\ Grows(View, View')
  BY <1>1, SameView DEF storage, operators
<1>3. CASE /\ \E op \in {"put_config", "put_record", "put", "deprecate", "generate"} : At(p, op)
           /\ Refuse(p) /\ UNCHANGED <<barrier, state, late>>
  <2>1. PICK op \in {"put_config", "put_record", "put", "deprecate", "generate"} : At(p, op)
    BY <1>3
  <2>2. Turn(p, <<>>) /\ work[p][1][1] = op /\ work[p] # <<>>
    BY <1>2, <1>3, <2>1, Refuses, AtFacts DEF TrackInv, KeyInv
  <2>3. UNCHANGED <<recordKey, barrier, state, mounted, handler, late, cut>>
    BY <1>1, <1>3 DEF storage, modules
  <2>4. CASE p \in Unsealers
    <3>1. Closing'
      BY <2>2, <2>3, <2>4, ClosingOf DEF TrackInv
    <3>2. Whole'
      BY <2>2, <2>3, <2>4, WholeNone DEF OpIn
    <3>3. QED
      BY <2>2, <2>4, <3>1, <3>2, RightNone
  <2>5. CASE p \notin Unsealers
    <3>1. op = "put"
      BY <2>1, <2>5, AtUnsealer DEF TrackInv, KeyInv, UnsealOps
    <3>2. p \notin Sealers
      BY <2>1, <3>1, AtOther DEF TrackInv, KeyInv
    <3>3. \A q \in Unsealers \cup Sealers : work'[q] = work[q]
      BY <2>2, <2>5, <3>2 DEF Turn, Proc
    <3>4. QED
      BY <2>3, <3>3, RestTracks
  <2>6. QED
    BY <2>4, <2>5
<1>4. CASE \E op \in PostOps : At(p, op) /\ PostFailed(p)
  BY <1>1, <1>4, PostFailedTracks
<1>5. QED
  BY <1>3, <1>4 DEF Fail, PostOps

LEMMA InitTracks ==
  ASSUME Init
  PROVE  TrackInv
<1>1. /\ barrier = [sealed |-> TRUE, key |-> None] /\ state = DefaultState
      /\ work = [p \in Proc |-> <<>>]
  BY DEF Init
<1>2. \A p \in Unsealers \cup Sealers : work[p] = <<>>
  BY <1>1 DEF Proc
<1>3. state.sealed
  BY <1>1, DefaultCopy
<1>4. Right
  BY <1>2 DEF Right, OpIn
<1>5. ~Sealing /\ Calm /\ Copies
  BY <1>2, NoSteps DEF Sealing, Calm, Copies
<1>6. Closing
  BY <1>1, <1>2, <1>5 DEF Closing, OpIn
<1>7. Whole
  BY <1>3, <1>5 DEF Whole
<1>8. QED
  BY <1>4, <1>6, <1>7, InitKeys DEF TrackInv

LEMMA NextTracks ==
  ASSUME TrackInv, SoleUnsealer, SoleSealer, T >= 2 \/ N = 1, [Next]_vars
  PROVE  TrackInv'
<1> DEFINE R == Right' /\ Closing' /\ Whole'
<1>1. ASSUME NEW p \in Proc, UnsealStep(p) PROVE R
  BY <1>1, BarrierUnsealTracks, InitCipherTracks, DecryptTracks, OpenTracks, DoUnsealTracks,
     CountTracks, OpenedTracks, DeprecateTracks, GenerateTracks, LoadTracks, TokenStoreTracks,
     AddHandlerTracks, PolicyTracks DEF UnsealStep
<1>2. ASSUME NEW p \in Proc, InitStep(p) PROVE R
  BY <1>2, PutConfigTracks, BarrierInitTracks, PutRecordTracks, SplitTracks, InitDoneTracks
     DEF InitStep
<1>3. ASSUME NEW p \in Proc,
             \/ Submit(p) \/ Initialise(p) \/ Seal(p) \/ Write(p)
             \/ ResetCipher(p) \/ Close(p) \/ PreSeal(p) \/ Put(p) \/ Fail(p)
      PROVE  R
  BY <1>3, SubmitTracks, InitialiseTracks, SealTracks, WriteTracks, ResetCipherTracks,
     CloseTracks, PreSealTracks, FailTracks
<1>4. ASSUME UNCHANGED vars PROVE R
  BY <1>4, RestTracks DEF vars
<1>5. R
  BY <1>1, <1>2, <1>3, <1>4, CrashTracks DEF Next
<1>6. QED
  BY <1>5, NextKeys DEF TrackInv

(* The second layer is inductive for one task that unseals and one that     *)
(* seals, when the threshold is 2 or more or there is but one share: with   *)
(* more, init leaves the barrier open when the split is refused             *)
(* (shamir.rs:164, core.rs:208-216).                                        *)
THEOREM TrackInvHolds ==
  ASSUME SoleUnsealer, SoleSealer, T >= 2 \/ N = 1 PROVE Spec => []TrackInv
<1>1. Init => TrackInv
  BY InitTracks
<1>2. TrackInv /\ [Next]_vars => TrackInv'
  BY NextTracks
<1>3. QED
  BY <1>1, <1>2, PTL DEF Spec

LEMMA TracksFromInv ==
  ASSUME TrackInv
  PROVE  StateTracksBarrier
<1>1. SealedHoldsNoKey
  <2> SUFFICES ASSUME Idle, ~late
               PROVE  /\ barrier.sealed => barrier.key \notin {recordKey, Enc} \ {None}
                      /\ state.sealed => state.kek = None
    BY DEF SealedHoldsNoKey
  <2>1. \A p \in Unsealers : ~OpIn(p, {"decrypt", "open", "reset_cipher"})
    BY DEF Idle, OpIn, Proc
  <2>2. barrier.sealed => barrier.key \notin {recordKey, Enc} \ {None}
    BY <2>1 DEF TrackInv, Closing
  <2>3. state.sealed => state.kek = None
    BY DEF TrackInv, KeyInv, Shares, Copy
  <2>4. QED
    BY <2>2, <2>3
<1>2. ServesWhole
  BY DEF ServesWhole, TrackInv, Whole, Idle, OpIn, Proc
<1>3. QED
  BY <1>1, <1>2 DEF StateTracksBarrier

(* When nothing is under way, a sealed barrier and a sealed state hold no   *)
(* key that opens anything, and an unsealed state has the barrier open, the *)
(* key, the routes and the token store's handler, whatever failed before; a *)
(* seal that came between another's steps is excepted (core.rs:394-412,     *)
(* 472-494).                                                                *)
THEOREM StateTracksBarrierHolds ==
  ASSUME SoleUnsealer, SoleSealer, T >= 2 \/ N = 1 PROVE Spec => []StateTracksBarrier
<1>1. TrackInv => StateTracksBarrier
  BY TracksFromInv
<1>2. QED
  BY <1>1, TrackInvHolds, PTL

-----------------------------------------------------------------------------
(* The third layer.                                                         *)

(* A task that makes the first shares has their making still to do.         *)
LEMMA InitsBeyond ==
  ASSUME NEW v, NEW p, NEW w, Fits(v, p, w), Inits(w), w[1][1] \notin {"split", "init_done"}
  PROVE  Tail(w) # <<>> /\ Fits(v, p, Tail(w)) /\ Inits(Tail(w)) /\ Follows(w[1], Tail(w)[1])
<1>1. w # <<>>
  BY NoSteps DEF Inits
<1>2. IsSeq(w)
  BY DEF Fits, Part
<1>3. ToSet(w) = {w[1]} \cup ToSet(Tail(w))
  BY <1>1, <1>2, HeadTailSet
<1>4. Inits(Tail(w))
  BY <1>3 DEF Inits
<1>5. Tail(w) # <<>>
  BY <1>4, NoSteps DEF Inits
<1>6. QED
  BY <1>1, <1>4, <1>5, FitsTail

LEMMA PoppedInits ==
  ASSUME KeyInv, NEW p \in Proc, work[p] # <<>>, work[p][1][1] \notin {"split", "init_done"}
  PROVE  Inits(Tail(work[p])) <=> Initing(p)
  BY HeadAndTail DEF Inits, Initing

LEMMA NothingInits ==
  ASSUME NEW v, NEW p, NEW w, Fits(v, p, w),
         w[1][1] \in {"do_unseal", "count", "opened", "barrier_init", "put_config", "generate",
                     "deprecate"}
  PROVE  ~Inits(w)
<1> SUFFICES ASSUME Inits(w) PROVE FALSE
  OBVIOUS
<1> DEFINE t == Tail(w)
<1>1. t # <<>> /\ Fits(v, p, t) /\ Inits(t) /\ Follows(w[1], t[1])
  BY InitsBeyond
<1> HIDE DEF t
<1>2. t[1][1] = "generate"
  BY <1>1 DEF Follows
<1>3. Follows(t[1], Tail(t)[1])
  BY <1>1, <1>2, InitsBeyond
<1>4. QED
  BY <1>2, <1>3 DEF Follows

LEMMA NotIniting ==
  ASSUME KeyInv, NEW p \in Proc,
         OpIn(p, {"do_unseal", "count", "opened", "barrier_init", "put_config", "generate",
                  "deprecate"})
  PROVE  ~Initing(p)
  BY NothingInits DEF KeyInv, Tasks, Initing, OpIn

(* A barrier that init has sealed opens with the key that init made.        *)
LEMMA InitDecrypts ==
  ASSUME KeyInv, NEW p \in Proc, OpIn(p, {"decrypt"}), Initing(p)
  PROVE  work[p][1][2] = recordKey
<1> DEFINE w == work[p] t == Tail(w)
<1>1. Fits(View, p, w) /\ Inits(w)
  BY DEF KeyInv, Tasks, Initing
<1>2. w[1][1] = "decrypt" /\ w # <<>>
  BY DEF OpIn
<1> HIDE DEF w
<1>3. t # <<>> /\ Fits(View, p, t) /\ Inits(t) /\ Follows(w[1], t[1])
  BY <1>1, <1>2, InitsBeyond
<1> HIDE DEF t
<1>4. Uses(t[1], w[1][2])
  BY <1>2, <1>3 DEF Follows
<1>5. t[1][1] # "opened"
  <2> SUFFICES ASSUME t[1][1] = "opened" PROVE FALSE
    OBVIOUS
  <2>1. Follows(t[1], Tail(t)[1])
    BY <1>3, InitsBeyond
  <2>2. QED
    BY <2>1 DEF Follows
<1>6. t[1][1] = "split" /\ t[1][2] = w[1][2]
  BY <1>4, <1>5 DEF Uses
<1>7. Proper(View, t[1]) /\ Proper(View, w[1])
  <2>1. 1 \in DOMAIN t /\ 1 \in DOMAIN w
    BY <1>1, <1>2, <1>3, SeqFacts DEF Fits, Part
  <2>2. QED
    BY <1>1, <1>3, <2>1 DEF Fits, Part
<1>8. recordKey # 0
  BY <1>2, <1>7 DEF Proper, View
<1>9. t[1][2] = recordKey
  BY <1>6, <1>7, <1>8 DEF Proper, View
<1>10. QED
  BY <1>6, <1>9 DEF w

(* A vault that is being sealed has been initialised.                       *)
LEMMA SealersNeedRecord ==
  ASSUME KeyInv, recordKey = 0
  PROVE  Calm
<1> SUFFICES ASSUME NEW q \in Sealers, work[q] # <<>> PROVE FALSE
  BY DEF Calm
<1> DEFINE w == work[q] t == Tail(w)
<1>1. Fits(View, q, w) /\ q \notin Unsealers
  BY ProcAssumption DEF KeyInv, Tasks, Proc
<1>2. w # <<>>
  OBVIOUS
<1> HIDE DEF w
<1>3. 1 \in DOMAIN w
  BY <1>1, <1>2, SeqFacts DEF Fits, Part
<1>4. w[1][1] \in SealOps /\ Proper(View, w[1])
  BY <1>1, <1>3 DEF Fits, Part, Ops
<1>5. w[1][1] = "reset_cipher"
  BY <1>4 DEF Proper, View, SealOps
<1>6. t # <<>> /\ Fits(View, q, t) /\ Follows(w[1], t[1])
  BY <1>1, <1>2, <1>5, FitsTail DEF Ends
<1> HIDE DEF t
<1>7. 1 \in DOMAIN t
  BY <1>6, SeqFacts DEF Fits, Part
<1>8. t[1][1] \in SealOps /\ Proper(View, t[1])
  BY <1>1, <1>6, <1>7 DEF Fits, Part, Ops
<1>9. t[1][1] = "close"
  BY <1>5, <1>6, <1>8 DEF Follows, SealOps
<1>10. QED
  BY <1>8, <1>9 DEF Proper, View

LEMMA RecoversFacts ==
  ASSUME Recovers, SoleUnsealer, NEW p \in Unsealers, faults = 0, ~cut
  PROVE  /\ recordKey # 0 => (\E g \in 1..gen : Usable(g)) \/ Initing(p) \/ OpIn(p, {"generate"})
         /\ Initing(p) => Initialising(p)
         /\ recordKey = 0 => work[p] = <<>> \/ OpIn(p, {"put_config", "barrier_init"}) \/ Initing(p)
         /\ OpIn(p, {"deprecate", "generate"} \cup PostOps) => ~state.sealed /\ state.kek = recordKey
         /\ \A x \in ToSet(work[p]) : Once(x) => gen < MaxGen
<1>1. \A q \in Unsealers : q = p
  BY DEF SoleUnsealer
<1>2. QED
  BY <1>1 DEF Recovers

(* What a step of p to w has to keep, when it makes no shares.              *)
LEMMA RecoversOf ==
  ASSUME RecoverInv, SoleUnsealer, NEW p \in Unsealers, NEW w, Turn(p, w),
         UNCHANGED <<recordKey, gen, handed, deprecated, cut>>,
         faults' = 0 /\ ~cut =>
           /\ faults = 0
           /\ Initing(p) => Inits(w)
           /\ ~OpIn(p, {"generate"}) \/ (\E g \in 1..gen : Usable(g)) \/ recordKey = 0
           /\ Inits(w) =>
                /\ Calm /\ handed = {}
                /\ w[1][1] \notin {"policy", "init_done"} => ~handler'
                /\ w[1][1] \notin {"token_store", "handler", "policy", "init_done"} => ~mounted'
                /\ w[1][1] = "open" => barrier'.key = Enc
                /\ w[1][1] \in {"split", "init_done"} \cup PostOps => Readable'
           /\ recordKey = 0 => w = <<>> \/ w[1][1] \in {"put_config", "barrier_init"} \/ Inits(w)
           /\ w # <<>> /\ w[1][1] \in {"deprecate", "generate"} \cup PostOps =>
                ~state'.sealed /\ state'.kek = recordKey
           /\ \A x \in ToSet(w) : Once(x) => gen < MaxGen
  PROVE  Recovers'
<1>1. \A q \in Unsealers : q = p
  BY DEF SoleUnsealer
<1>2. work'[p] = w
  BY DEF Turn
<1>3. Calm' <=> Calm
  BY SealersKept, ProcAssumption DEF Proc
<1>4. Initing(p)' <=> Inits(w)
  BY <1>2 DEF Initing
<1>5. \A g : Usable(g)' <=> Usable(g)
  BY DEF Usable
<1> SUFFICES ASSUME faults' = 0, ~cut'
    PROVE  /\ recordKey' # 0 => \/ \E g \in 1..gen' : Usable(g)'
                                \/ \E q \in Unsealers : Initing(q)' \/ OpIn(q, {"generate"})'
           /\ \A q \in Unsealers :
                /\ Initing(q)' => Initialising(q)'
                /\ recordKey' = 0 =>
                     work'[q] = <<>> \/ OpIn(q, {"put_config", "barrier_init"})' \/ Initing(q)'
                /\ OpIn(q, {"deprecate", "generate"} \cup PostOps)' =>
                     ~state'.sealed /\ state'.kek = recordKey'
                /\ \A x \in ToSet(work'[q]) : Once(x) => gen' < MaxGen
  BY DEF Recovers
<1>6. recordKey' # 0 => \/ \E g \in 1..gen' : Usable(g)'
                        \/ \E q \in Unsealers : Initing(q)' \/ OpIn(q, {"generate"})'
  BY <1>4, <1>5, RecoversFacts DEF RecoverInv
<1>7. Initing(p)' => Initialising(p)'
  <2> SUFFICES ASSUME Inits(w) PROVE Initialising(p)'
    BY <1>4
  <2>1. w # <<>>
    BY NoSteps DEF Inits
  <2>2. QED
    BY <1>2, <1>3, <2>1 DEF Initialising, OpIn
<1>8. recordKey' = 0 =>
        work'[p] = <<>> \/ OpIn(p, {"put_config", "barrier_init"})' \/ Initing(p)'
  BY <1>2, <1>4 DEF OpIn
<1>9. OpIn(p, {"deprecate", "generate"} \cup PostOps)' =>
        ~state'.sealed /\ state'.kek = recordKey'
  BY <1>2 DEF OpIn
<1>10. \A x \in ToSet(work'[p]) : Once(x) => gen' < MaxGen
  BY <1>2
<1>11. QED
  BY <1>1, <1>6, <1>7, <1>8, <1>9, <1>10

-----------------------------------------------------------------------------
(* The third layer: every step keeps it.                                    *)

LEMMA SubmitRecovers ==
  ASSUME RecoverInv, SoleUnsealer, NEW p \in Proc, Submit(p)
  PROVE  Right' /\ Recovers'
<1>1. PICK x \in handed, once \in BOOLEAN :
        /\ once => gen < MaxGen
        /\ p \in Unsealers /\ recordKey # 0 /\ work[p] = <<>>
        /\ Turn(p, <<<<"do_unseal", x, once>>>>)
        /\ UNCHANGED <<storage, barrier, state, modules, gen, handed, ghosts>>
  BY SubmitMoves DEF RecoverInv
<1> DEFINE y == <<"do_unseal", x, once>> w == <<y>>
<1>2. y[1] = "do_unseal" /\ y[3] = once /\ w[1] = y /\ w # <<>> /\ ToSet(w) = {y} /\ Turn(p, w)
  BY <1>1, OneStep
<1> HIDE DEF y, w
<1>3. UNCHANGED <<recordKey, gen, handed, deprecated, cut, faults>>
  BY <1>1 DEF storage, ghosts
<1>4. ~Initing(p) /\ ~OpIn(p, {"generate"})
  BY <1>1, NoSteps DEF Initing, Inits, OpIn
<1>5. ~Inits(w)
  BY <1>2 DEF Inits
<1>6. \A z \in ToSet(w) : Once(z) => gen < MaxGen
  BY <1>1, <1>2 DEF Once
<1>7. Recovers'
  BY <1>1, <1>2, <1>3, <1>4, <1>5, <1>6, RecoversOf DEF PostOps
<1>8. QED
  BY <1>1, <1>2, <1>7, RightOf

LEMMA InitialiseRecovers ==
  ASSUME RecoverInv, SoleUnsealer, NEW p \in Proc, Initialise(p)
  PROVE  Right' /\ Recovers'
<1>1. /\ p \in Unsealers /\ work[p] = <<>>
      /\ Turn(p, <<>>) \/ (recordKey = 0 /\ Turn(p, <<<<"put_config">>>>))
      /\ UNCHANGED <<storage, barrier, state, modules, gen, handed, ghosts>>
  BY InitialiseMoves DEF RecoverInv
<1> DEFINE y == <<"put_config">>
<1>2. PICK w : Turn(p, w) /\ (w = <<>> \/ w = <<y>>)
  BY <1>1
<1>3. y[1] = "put_config" /\ <<y>>[1] = y /\ <<y>> # <<>> /\ ToSet(<<y>>) = {y} /\ ToSet(<<>>) = {}
  BY OneStep, NoSteps
<1> HIDE DEF y
<1>4. UNCHANGED <<recordKey, gen, handed, deprecated, cut, faults>>
  BY <1>1 DEF storage, ghosts
<1>5. ~Initing(p) /\ ~OpIn(p, {"generate"})
  BY <1>1, NoSteps DEF Initing, Inits, OpIn
<1>6. /\ \A z \in ToSet(w) : z[1] = "put_config"
      /\ w # <<>> => w[1][1] = "put_config"
  BY <1>2, <1>3
<1>7. ~Inits(w) /\ \A z \in ToSet(w) : ~Once(z)
  BY <1>6 DEF Inits, Once
<1>8. Recovers'
  BY <1>1, <1>2, <1>4, <1>5, <1>6, <1>7, RecoversOf DEF PostOps
<1>9. QED
  BY <1>1, <1>2, <1>6, <1>8, RightOf

LEMMA BarrierUnsealRecovers ==
  ASSUME RecoverInv, SoleUnsealer, NEW p \in Proc, BarrierUnseal(p)
  PROVE  Right' /\ Recovers'
<1> DEFINE x == <<"init_cipher", Arg(p, 2)>> y == <<"decrypt", Arg(p, 2), Arg(p, 3)>>
           s == <<x, y>> t == Tail(work[p]) w == s \o t
<1>1. /\ p \in Unsealers /\ OpIn(p, {"unseal"}) /\ Turn(p, w) /\ recordKey # 0
      /\ UNCHANGED <<storage, barrier, state, modules, operators, ghosts>>
  BY BarrierUnsealMoves DEF RecoverInv
<1>2. x[1] = "init_cipher" /\ y[1] = "decrypt" /\ s # <<>> /\ s[1] = x /\ ToSet(s) = {x, y} /\ IsSeq(s)
  BY IsSeqOf DEF IsSeq, ToSet
<1>3. work[p] # <<>> /\ work[p][1][1] = "unseal" /\ IsSeq(t)
  BY <1>1, TailFacts DEF RecoverInv, KeyInv, Tasks, Fits, Part, OpIn
<1>4. ToSet(work[p]) = {work[p][1]} \cup ToSet(t)
  BY <1>3, HeadAndTail DEF RecoverInv
<1> HIDE DEF x, y, s, t
<1>5. w # <<>> /\ w[1] = x /\ ToSet(w) = {x, y} \cup ToSet(t)
  BY <1>2, <1>3, CatEnds, ToSetCat
<1> HIDE DEF w
<1>6. UNCHANGED <<recordKey, gen, handed, deprecated, barrier, state, mounted, handler, cut, faults>>
  BY <1>1 DEF storage, operators, modules, ghosts
<1>7. Inits(w) <=> Initing(p)
  BY <1>2, <1>3, <1>4, <1>5 DEF Inits, Initing
<1>8. ASSUME faults = 0, ~cut PROVE \A z \in ToSet(w) : Once(z) => gen < MaxGen
  <2>1. \A z \in ToSet(work[p]) : Once(z) => gen < MaxGen
    BY <1>1, <1>8, RecoversFacts DEF RecoverInv
  <2>2. ~Once(x) /\ ~Once(y)
    BY <1>2 DEF Once
  <2>3. QED
    BY <1>4, <1>5, <2>1, <2>2
<1>9. ASSUME faults = 0, ~cut, Inits(w) PROVE Calm /\ handed = {} /\ ~handler /\ ~mounted
  BY <1>1, <1>3, <1>7, <1>9, RecoversFacts DEF RecoverInv, Initialising, OpIn
<1>10. ~OpIn(p, {"generate"})
  BY <1>3 DEF OpIn
<1>11. Recovers'
  BY <1>1, <1>2, <1>5, <1>6, <1>7, <1>8, <1>9, <1>10, RecoversOf DEF PostOps
<1>12. QED
  BY <1>1, <1>2, <1>5, <1>11, RightOf

(* Steps that take the next one up and are not among the last of init.      *)
LEMMA PoppedRecovers ==
  ASSUME RecoverInv, SoleUnsealer, NEW p \in Unsealers, Popped(p),
         work[p][1][1] \in {"init_cipher", "open", "reset_cipher"},
         UNCHANGED <<recordKey, gen, handed, deprecated, state, mounted, handler, cut, faults>>,
         LET w == Tail(work[p]) IN
         faults = 0 /\ ~cut /\ Initing(p) =>
           /\ w[1][1] = "open" => barrier'.key = Enc
           /\ w[1][1] \in {"split", "init_done"} => Readable'
  PROVE  Recovers'
<1> DEFINE w == Tail(work[p])
<1>1. Turn(p, w) /\ work[p] # <<>> /\ ToSet(w) \subseteq ToSet(work[p])
  BY HeadAndTail DEF RecoverInv, Popped, Proc
<1>2. Inits(w) <=> Initing(p)
  BY <1>1, PoppedInits DEF RecoverInv, Proc
<1>3. w # <<>> => w[1][1] \in {"decrypt", "put_record", "opened", "split", "unseal", "close"}
  BY DEF Popped, Follows
<1>4. faults = 0 /\ ~cut /\ Initing(p) =>
        /\ w[1][1] = "open" => barrier'.key = Enc
        /\ w[1][1] \in {"split", "init_done"} => Readable'
  OBVIOUS
<1>5. Inits(w) => w # <<>>
  BY NoSteps DEF Inits
<1> HIDE DEF w
<1>6. ASSUME faults = 0, ~cut PROVE \A z \in ToSet(w) : Once(z) => gen < MaxGen
  BY <1>1, <1>6, RecoversFacts DEF RecoverInv
<1>7. ASSUME faults = 0, ~cut, Initing(p) PROVE Calm /\ handed = {} /\ ~handler /\ ~mounted
  BY <1>1, <1>7, RecoversFacts DEF RecoverInv, Initialising, OpIn
<1>8. ~OpIn(p, {"generate"})
  BY DEF OpIn
<1>9. ASSUME faults = 0, ~cut, recordKey = 0 PROVE Initing(p)
  BY <1>1, <1>9, RecoversFacts DEF RecoverInv, OpIn
<1>10. QED
  BY <1>1, <1>2, <1>3, <1>4, <1>5, <1>6, <1>7, <1>8, <1>9, RecoversOf DEF PostOps

LEMMA InitCipherRecovers ==
  ASSUME RecoverInv, SoleUnsealer, NEW p \in Proc, InitCipher(p)
  PROVE  Right' /\ Recovers'
<1>1. At(p, "init_cipher") /\ Then(p, <<>>)
      /\ UNCHANGED <<storage, state, modules, operators, ghosts>>
  BY DEF InitCipher
<1>2. View' = View /\ Grows(View, View')
  BY <1>1, SameView DEF storage, operators, ghosts
<1>3. Popped(p) /\ work[p][1][1] = "init_cipher" /\ p \in Unsealers
  BY <1>1, <1>2, Pops, AtUnsealer DEF RecoverInv, KeyInv, UnsealOps
<1>4. UNCHANGED <<recordKey, gen, handed, deprecated, state, mounted, handler, cut, faults>>
  BY <1>1 DEF storage, operators, modules, ghosts
<1> DEFINE w == Tail(work[p])
<1>5. Turn(p, w) /\ w # <<>> /\ w[1][1] \in {"decrypt", "put_record"}
  BY <1>3 DEF Popped, Follows, Ends
<1> HIDE DEF w
<1>6. Right'
  BY <1>3, <1>5, RightOf
<1>7. Recovers'
  BY <1>3, <1>4, <1>5, PoppedRecovers DEF w
<1>8. QED
  BY <1>6, <1>7

LEMMA OpenRecovers ==
  ASSUME RecoverInv, SoleUnsealer, NEW p \in Proc, Open(p)
  PROVE  Right' /\ Recovers'
<1>1. At(p, "open") /\ Then(p, <<>>) /\ barrier' = [barrier EXCEPT !.sealed = FALSE]
      /\ UNCHANGED <<storage, state, modules, operators, ghosts>>
  BY DEF Open
<1>2. View' = View /\ Grows(View, View')
  BY <1>1, SameView DEF storage, operators, ghosts
<1>3. Popped(p) /\ work[p][1][1] = "open" /\ work[p] # <<>> /\ p \in Unsealers
  BY <1>1, <1>2, Pops, AtUnsealer DEF RecoverInv, KeyInv, UnsealOps, Popped
<1>4. OpIn(p, {"open"})
  BY <1>3 DEF OpIn
<1>5. UNCHANGED <<recordKey, gen, handed, deprecated, state, mounted, handler, cut, faults>>
  BY <1>1 DEF storage, operators, modules, ghosts
<1> DEFINE w == Tail(work[p])
<1>6. Turn(p, w) /\ w # <<>> /\ w[1][1] \in {"opened", "split"}
  BY <1>3 DEF Popped, Follows, Ends
<1>7. w[1] = work[p][2]
  <2>1. IsSeq(work[p])
    BY DEF RecoverInv, KeyInv, Tasks, Fits, Part
  <2>2. IsSeq(w) /\ \A i \in 1..Len(w) : w[i] = work[p][i + 1]
    BY <1>3, <2>1, TailFacts
  <2>3. 1 \in 1..Len(w)
    BY <1>6, <2>2, SeqFacts
  <2>4. QED
    BY <2>2, <2>3
<1> HIDE DEF w
<1>8. Uses(w[1], recordKey)
  BY <1>3, <1>4, <1>7 DEF RecoverInv, Right
<1>9. Right'
  <2>1. \A q \in Unsealers : q = p
    BY <1>3 DEF SoleUnsealer
  <2>2. work'[p] = w
    BY <1>6 DEF Turn
  <2>3. QED
    BY <1>5, <1>6, <1>8, <2>1, <2>2 DEF Right, OpIn
<1>10. faults = 0 /\ ~cut /\ Initing(p) => Readable'
  <2>1. ~barrier'.sealed /\ barrier'.key = barrier.key
    BY <1>1 DEF RecoverInv, KeyInv, Barrier
  <2>2. faults = 0 /\ ~cut /\ Initing(p) => barrier.key = Enc
    BY <1>3, <1>4, RecoversFacts DEF RecoverInv, Initialising
  <2>3. QED
    BY <2>1, <2>2 DEF Readable
<1>11. Recovers'
  BY <1>3, <1>5, <1>6, <1>10, PoppedRecovers DEF w
<1>12. QED
  BY <1>9, <1>11

LEMMA DecryptRecovers ==
  ASSUME RecoverInv, SoleUnsealer, NEW p \in Proc, Decrypt(p)
  PROVE  Right' /\ Recovers'
<1>1. /\ p \in Unsealers /\ OpIn(p, {"decrypt"}) /\ Proper(View, work[p][1])
      /\ Uses(Tail(work[p])[1], work[p][1][2])
      /\ UNCHANGED <<storage, modules, operators, ghosts>>
  BY DecryptMoves DEF RecoverInv
<1>2. work[p] # <<>> /\ work[p][1][1] = "decrypt"
  BY <1>1 DEF OpIn
<1>3. UNCHANGED <<recordKey, gen, handed, deprecated, mounted, handler, cut, faults>>
  BY <1>1 DEF storage, operators, modules, ghosts
<1>4. recordKey # 0
  BY <1>1, <1>2 DEF Proper, View
<1>5. \A q \in Unsealers : q = p
  BY <1>1 DEF SoleUnsealer
<1>6. ToSet(work[p]) = {work[p][1]} \cup ToSet(Tail(work[p]))
  BY <1>2, HeadAndTail DEF RecoverInv
<1>7. ~OpIn(p, {"generate"})
  BY <1>2 DEF OpIn
<1>8. CASE work[p][1][2] = recordKey
  <2> DEFINE t == Tail(work[p]) s == <<<<"open">>>> w == s \o t
  <2>1. Turn(p, w) /\ w # <<>> /\ w[1] = <<"open">> /\ w[2] = t[1]
        /\ barrier' = [barrier EXCEPT !.key = Enc] /\ UNCHANGED state
    BY <1>8, DecryptMoves DEF RecoverInv
  <2>2. IsSeq(t) /\ IsSeq(s) /\ ToSet(s) = {<<"open">>}
    <3>1. IsSeq(t)
      BY <1>2, TailFacts DEF RecoverInv, KeyInv, Tasks, Fits, Part
    <3>2. IsSeq(s)
      BY DEF IsSeq
    <3>3. QED
      BY <3>1, <3>2, OneStep
  <2>3. w[1][1] = "open"
    BY <2>1
  <2>4. ToSet(w) = {w[1]} \cup ToSet(t)
    BY <2>1, <2>2, ToSetCat
  <2>5. Uses(w[2], recordKey)
    BY <1>1, <1>8, <2>1
  <2>6. ToSet(work[p]) = {work[p][1]} \cup ToSet(t)
    BY <1>6
  <2> HIDE DEF w, s, t
  <2>7. work'[p] = w
    BY <2>1 DEF Turn
  <2>8. Right'
    BY <1>3, <1>5, <2>3, <2>5, <2>7 DEF Right, OpIn
  <2>9. Inits(w) <=> Initing(p)
    BY <1>2, <2>3, <2>4, <2>6 DEF Inits, Initing
  <2>10. ~Once(w[1])
    BY <2>3 DEF Once
  <2>11. ASSUME faults = 0, ~cut PROVE \A z \in ToSet(w) : Once(z) => gen < MaxGen
    <3>1. \A z \in ToSet(work[p]) : Once(z) => gen < MaxGen
      BY <1>1, <2>11, RecoversFacts DEF RecoverInv
    <3>2. QED
      BY <2>4, <2>6, <2>10, <3>1
  <2>12. ASSUME faults = 0, ~cut, Initing(p) PROVE Calm /\ handed = {} /\ ~handler /\ ~mounted
    BY <1>1, <1>2, <2>12, RecoversFacts DEF RecoverInv, Initialising, OpIn
  <2>13. barrier'.key = Enc
    BY <2>1 DEF RecoverInv, KeyInv, Barrier
  <2>14. Recovers'
    BY <1>1, <1>3, <1>4, <1>7, <2>1, <2>3, <2>9, <2>11, <2>12, <2>13, RecoversOf DEF PostOps
  <2>15. QED
    BY <2>8, <2>14
<1>9. CASE work[p][1][2] # recordKey
  <2>1. ~Initing(p)
    BY <1>1, <1>9, InitDecrypts DEF RecoverInv
  <2> DEFINE w == <<>>
  <2>2. Turn(p, w) /\ w = <<>> /\ ToSet(w) = {}
    BY <1>9, DecryptMoves, NoSteps DEF RecoverInv
  <2> HIDE DEF w
  <2>3. ~Inits(w)
    BY <2>2 DEF Inits
  <2>4. Recovers'
    BY <1>1, <1>3, <1>4, <1>7, <2>1, <2>2, <2>3, RecoversOf
  <2>5. QED
    BY <1>1, <2>2, <2>4, RightOf
<1>10. QED
  BY <1>8, <1>9

LEMMA RecoversOthers ==
  ASSUME Recovers, NEW p \in Proc, p \notin Unsealers, NEW w, Turn(p, w),
         UNCHANGED <<recordKey, gen, handed, deprecated, state, cut, faults>>,
         Calm => Calm' /\ UNCHANGED <<barrier, mounted, handler>>
  PROVE  Recovers'
<1>1. \A q \in Unsealers : work'[q] = work[q]
  BY UnsealersKept
<1>2. \A g : Usable(g)' <=> Usable(g)
  BY DEF Usable
<1>3. \A q \in Unsealers : Initing(q)' <=> Initing(q)
  BY <1>1 DEF Initing
<1>4. Calm => (Readable' <=> Readable)
  BY DEF Readable
<1>5. ASSUME NEW q \in Unsealers, Initialising(q) PROVE Initialising(q)'
  BY <1>1, <1>4, <1>5 DEF Initialising, OpIn
<1>6. \A q \in Unsealers : \A O : OpIn(q, O)' <=> OpIn(q, O)
  BY <1>1 DEF OpIn
<1> SUFFICES ASSUME faults' = 0, ~cut'
    PROVE  /\ recordKey' # 0 => \/ \E g \in 1..gen' : Usable(g)'
                                \/ \E q \in Unsealers : Initing(q)' \/ OpIn(q, {"generate"})'
           /\ \A q \in Unsealers :
                /\ Initing(q)' => Initialising(q)'
                /\ recordKey' = 0 =>
                     work'[q] = <<>> \/ OpIn(q, {"put_config", "barrier_init"})' \/ Initing(q)'
                /\ OpIn(q, {"deprecate", "generate"} \cup PostOps)' =>
                     ~state'.sealed /\ state'.kek = recordKey'
                /\ \A x \in ToSet(work'[q]) : Once(x) => gen' < MaxGen
  BY DEF Recovers
<1>7. recordKey' # 0 => \/ \E g \in 1..gen' : Usable(g)'
                        \/ \E q \in Unsealers : Initing(q)' \/ OpIn(q, {"generate"})'
  BY <1>2, <1>3, <1>6 DEF Recovers
<1>8. ASSUME NEW q \in Unsealers
      PROVE  /\ Initing(q)' => Initialising(q)'
             /\ recordKey' = 0 =>
                  work'[q] = <<>> \/ OpIn(q, {"put_config", "barrier_init"})' \/ Initing(q)'
             /\ OpIn(q, {"deprecate", "generate"} \cup PostOps)' =>
                  ~state'.sealed /\ state'.kek = recordKey'
             /\ \A x \in ToSet(work'[q]) : Once(x) => gen' < MaxGen
  BY <1>1, <1>3, <1>5, <1>6, <1>8 DEF Recovers
<1>9. QED
  BY <1>7, <1>8

LEMMA SealRecovers ==
  ASSUME RecoverInv, NEW p \in Proc, Seal(p)
  PROVE  Right' /\ Recovers'
<1>1. /\ p \in Sealers /\ p \notin Unsealers
      /\ UNCHANGED <<storage, barrier, state, modules, gen, handed, ghosts>>
  BY SealMoves DEF RecoverInv
<1>2. PICK w : Turn(p, w) /\ (w = <<>> \/ (w # <<>> /\ w[1][1] = "pre_seal"))
  BY SealMoves DEF RecoverInv
<1>3. UNCHANGED <<recordKey, gen, handed, deprecated, state, cut, faults, barrier, mounted, handler>>
  BY <1>1 DEF storage, modules, ghosts
<1>4. work'[p] = w /\ \A q \in Proc : q # p => work'[q] = work[q]
  BY <1>2 DEF Turn
<1>5. Calm => Calm'
  BY <1>2, <1>4 DEF Calm, OpIn, Proc
<1>6. Right'
  BY <1>1, <1>2, <1>3, RightOthers DEF RecoverInv
<1>7. Recovers'
  BY <1>1, <1>2, <1>3, <1>5, RecoversOthers DEF RecoverInv
<1>8. QED
  BY <1>6, <1>7

LEMMA WriteRecovers ==
  ASSUME RecoverInv, NEW p \in Proc, Write(p) \/ Put(p)
  PROVE  Right' /\ Recovers'
<1>1. PICK w : Turn(p, w) /\ p \notin Unsealers /\ p \notin Sealers
  BY WriteMoves, PutMoves DEF RecoverInv
<1>2. UNCHANGED <<recordKey, gen, handed, deprecated, state, cut, faults, barrier, mounted, handler>>
  BY DEF Write, Put, Request, storage, modules, operators, ghosts
<1>3. Calm => Calm'
  BY <1>1, SealersKept
<1>4. Right'
  BY <1>1, <1>2, RightOthers DEF RecoverInv
<1>5. Recovers'
  BY <1>1, <1>2, <1>3, RecoversOthers DEF RecoverInv
<1>6. QED
  BY <1>4, <1>5

LEMMA ResetCipherRecovers ==
  ASSUME RecoverInv, SoleUnsealer, NEW p \in Proc, ResetCipher(p)
  PROVE  Right' /\ Recovers'
<1>1. At(p, "reset_cipher") /\ Then(p, <<>>)
      /\ UNCHANGED <<storage, state, modules, operators, ghosts>>
  BY DEF ResetCipher
<1>2. View' = View /\ Grows(View, View')
  BY <1>1, SameView DEF storage, operators, ghosts
<1>3. Popped(p) /\ work[p][1][1] = "reset_cipher" /\ work[p] # <<>> /\ "reset_cipher" \in Ops(p)
  BY <1>1, <1>2, Pops DEF RecoverInv, KeyInv, Popped
<1>4. UNCHANGED <<recordKey, gen, handed, deprecated, state, mounted, handler, cut, faults>>
  BY <1>1 DEF storage, operators, modules, ghosts
<1> DEFINE w == Tail(work[p])
<1>5. Turn(p, w) /\ w # <<>> /\ w[1][1] \in {"unseal", "close"}
  BY <1>3 DEF Popped, Follows, Ends
<1> HIDE DEF w
<1>6. CASE p \in Unsealers
  <2>1. Right'
    BY <1>5, <1>6, RightOf
  <2>2. Recovers'
    BY <1>3, <1>4, <1>5, <1>6, PoppedRecovers DEF w
  <2>3. QED
    BY <2>1, <2>2
<1>7. CASE p \notin Unsealers
  <2>1. p \in Sealers
    BY <1>3, <1>7 DEF Ops
  <2>2. ~Calm
    BY <1>3, <2>1 DEF Calm, OpIn
  <2>3. Right'
    BY <1>4, <1>5, <1>7, RightOthers DEF RecoverInv
  <2>4. Recovers'
    BY <1>4, <1>5, <1>7, <2>2, RecoversOthers DEF RecoverInv
  <2>5. QED
    BY <2>3, <2>4
<1>8. QED
  BY <1>6, <1>7

LEMMA CloseRecovers ==
  ASSUME RecoverInv, NEW p \in Proc, Close(p)
  PROVE  Right' /\ Recovers'
<1>1. At(p, "close") /\ Then(p, <<>>)
      /\ UNCHANGED <<storage, state, modules, operators, ghosts>>
  BY DEF Close
<1>2. View' = View /\ Grows(View, View')
  BY <1>1, SameView DEF storage, operators, ghosts
<1>3. Popped(p) /\ work[p][1][1] = "close" /\ work[p] # <<>>
  BY <1>1, <1>2, Pops DEF RecoverInv, KeyInv, Popped
<1>4. p \notin Unsealers /\ p \in Sealers
  BY <1>1, AtOther DEF RecoverInv, KeyInv
<1>5. UNCHANGED <<recordKey, gen, handed, deprecated, state, mounted, handler, cut, faults>>
  BY <1>1 DEF storage, operators, modules, ghosts
<1>6. PICK w : Turn(p, w)
  BY <1>3 DEF Popped
<1>7. ~Calm
  BY <1>3, <1>4 DEF Calm, OpIn
<1>8. Right'
  BY <1>4, <1>5, <1>6, RightOthers DEF RecoverInv
<1>9. Recovers'
  BY <1>4, <1>5, <1>6, <1>7, RecoversOthers DEF RecoverInv
<1>10. QED
  BY <1>8, <1>9

LEMMA PreSealRecovers ==
  ASSUME RecoverInv, NEW p \in Proc, PreSeal(p)
  PROVE  Right' /\ Recovers'
<1>1. /\ p \notin Unsealers /\ cut' = (cut \/ \E q \in Unsealers : work[q] # <<>>)
      /\ UNCHANGED <<storage, barrier, made, operators, blind, late, faults>>
  BY PreSealMoves DEF RecoverInv
<1>2. PICK w : Turn(p, w)
  BY PreSealMoves DEF RecoverInv
<1>3. UNCHANGED <<recordKey, gen, handed, deprecated, faults>>
  BY <1>1 DEF storage, operators
<1>4. \A q \in Unsealers : work'[q] = work[q]
  BY <1>1, <1>2, UnsealersKept
<1>5. Right'
  BY <1>1, <1>2, <1>3, RightOthers DEF RecoverInv
<1>6. Recovers'
  <2>1. CASE cut'
    BY <2>1 DEF Recovers
  <2>2. CASE ~cut'
    <3>1. ~cut /\ \A q \in Unsealers : work[q] = <<>>
      BY <1>1, <2>2
    <3>2. \A q \in Unsealers : /\ ~Initing(q) /\ ~Initing(q)'
                               /\ \A O : ~OpIn(q, O) /\ ~OpIn(q, O)'
                               /\ work'[q] = <<>> /\ ToSet(work'[q]) = {}
      BY <1>4, <3>1, NoSteps DEF Initing, Inits, OpIn
    <3>3. \A g : Usable(g)' <=> Usable(g)
      BY <1>3 DEF Usable
    <3>4. faults = 0 /\ recordKey # 0 => \E g \in 1..gen : Usable(g)
      BY <3>1, <3>2 DEF RecoverInv, Recovers
    <3>5. QED
      BY <1>3, <3>2, <3>3, <3>4 DEF Recovers
  <2>3. QED
    BY <2>1, <2>2
<1>7. QED
  BY <1>5, <1>6

(* Nothing is said of a vault that a fault has hit.                         *)
LEMMA FaultRecovers ==
  ASSUME RecoverInv, faults' = faults + 1
  PROVE  Recovers'
<1>1. faults \in Nat
  BY DEF RecoverInv, KeyInv, Flags
<1>2. faults' # 0
  BY <1>1
<1>3. QED
  BY <1>2 DEF Recovers

LEMMA FailRecovers ==
  ASSUME RecoverInv, SoleUnsealer, NEW p \in Proc, Fail(p)
  PROVE  Right' /\ Recovers'
<1>1. UNCHANGED <<storage, modules, operators, blind, cut>> /\ faults' = faults + 1
  BY DEF Fail
<1>2. View' = View /\ Grows(View, View')
  BY <1>1, SameView DEF storage, operators
<1>3. Refuse(p)
  BY DEF Fail, PostFailed
<1>4. Turn(p, <<>>)
  BY <1>2, <1>3, Refuses DEF RecoverInv, KeyInv
<1>5. Right'
  <2>1. CASE p \in Unsealers
    BY <1>4, <2>1, RightNone
  <2>2. CASE p \notin Unsealers
    BY <1>1, <1>4, <2>2, RightOthers DEF RecoverInv, storage
  <2>3. QED
    BY <2>1, <2>2
<1>6. QED
  BY <1>1, <1>5, FaultRecovers

LEMMA CrashRecovers ==
  ASSUME RecoverInv, Crash
  PROVE  Right' /\ Recovers'
<1>1. faults' = faults + 1 /\ \A p \in Proc : work'[p] = <<>>
  BY CrashMoves DEF RecoverInv
<1>2. Right'
  BY <1>1 DEF Right, OpIn, Proc
<1>3. QED
  BY <1>1, <1>2, FaultRecovers

LEMMA StutterRecovers ==
  ASSUME RecoverInv, UNCHANGED vars
  PROVE  Right' /\ Recovers'
<1>1. UNCHANGED <<recordKey, gen, handed, deprecated, state, cut, faults, barrier, mounted,
                  handler, work>>
  BY DEF vars
<1>2. Right'
  BY <1>1 DEF RecoverInv, Right, OpIn, Uses
<1>3. /\ \A g : Usable(g)' <=> Usable(g)
      /\ \A q : Initing(q)' <=> Initing(q)
      /\ \A q : \A O : OpIn(q, O)' <=> OpIn(q, O)
      /\ (Calm' <=> Calm) /\ (Readable' <=> Readable)
  BY <1>1 DEF Usable, Initing, OpIn, Calm, Readable
<1>4. \A q : Initialising(q)' <=> Initialising(q)
  BY <1>1, <1>3 DEF Initialising, OpIn
<1>5. Recovers'
  BY <1>1, <1>3, <1>4 DEF RecoverInv, Recovers
<1>6. QED
  BY <1>2, <1>5

LEMMA RecoversNone ==
  ASSUME RecoverInv, SoleUnsealer, NEW p \in Unsealers, Turn(p, <<>>),
         UNCHANGED <<recordKey, gen, handed, deprecated, cut>>, ~OpIn(p, {"generate"}),
         faults' = 0 /\ ~cut => faults = 0 /\ ~Initing(p)
  PROVE  Right' /\ Recovers'
<1> DEFINE w == <<>>
<1>1. Turn(p, w) /\ w = <<>> /\ ToSet(w) = {}
  BY NoSteps
<1> HIDE DEF w
<1>2. ~Inits(w)
  BY <1>1 DEF Inits
<1>3. Recovers'
  BY <1>1, <1>2, RecoversOf
<1>4. QED
  BY <1>3, RightNone

LEMMA DoUnsealRecovers ==
  ASSUME RecoverInv, SoleUnsealer, NEW p \in Proc, DoUnseal(p)
  PROVE  Right' /\ Recovers'
<1> DEFINE y == <<"count", work[p][1][2], work[p][1][3], state>> w == <<y>>
<1>1. /\ p \in Unsealers /\ OpIn(p, {"do_unseal"})
      /\ Turn(p, <<>>) \/ (recordKey # 0 /\ Turn(p, w))
      /\ UNCHANGED <<storage, barrier, state, modules, operators, ghosts>>
  BY DoUnsealMoves DEF RecoverInv
<1>2. y[1] = "count" /\ y[3] = work[p][1][3] /\ w[1] = y /\ w # <<>> /\ ToSet(w) = {y}
  BY OneStep
<1> HIDE DEF y, w
<1>3. UNCHANGED <<recordKey, gen, handed, deprecated, cut, faults>>
  BY <1>1 DEF storage, operators, ghosts
<1>4. work[p][1][1] = "do_unseal" /\ work[p] # <<>> /\ ~OpIn(p, {"generate"})
  BY <1>1 DEF OpIn
<1>5. ~Initing(p)
  BY <1>1, NotIniting DEF RecoverInv, OpIn
<1>6. CASE Turn(p, <<>>)
  BY <1>1, <1>3, <1>4, <1>5, <1>6, RecoversNone
<1>7. CASE recordKey # 0 /\ Turn(p, w)
  <2>1. ~Inits(w)
    BY <1>2 DEF Inits
  <2>2. work[p][1] \in ToSet(work[p])
    BY <1>4, HeadAndTail DEF RecoverInv
  <2>3. ASSUME faults = 0, ~cut PROVE \A z \in ToSet(w) : Once(z) => gen < MaxGen
    <3>1. Once(work[p][1]) => gen < MaxGen
      BY <1>1, <2>2, <2>3, RecoversFacts DEF RecoverInv
    <3>2. Once(y) => Once(work[p][1])
      BY <1>2, <1>4 DEF Once
    <3>3. QED
      BY <1>2, <3>1, <3>2
  <2>4. Recovers'
    BY <1>1, <1>2, <1>3, <1>4, <1>5, <1>7, <2>1, <2>3, RecoversOf DEF PostOps
  <2>5. QED
    BY <1>1, <1>2, <1>7, <2>4, RightOf
<1>8. QED
  BY <1>1, <1>6, <1>7

LEMMA CountRecovers ==
  ASSUME RecoverInv, SoleUnsealer, NEW p \in Proc, Count(p)
  PROVE  Right' /\ Recovers'
<1>1. /\ p \in Unsealers /\ OpIn(p, {"count"}) /\ recordKey # 0
      /\ \/ Turn(p, <<>>)
         \/ \E k, c, s, r :
              Turn(p, <<<<"unseal", k, c>>, <<"opened", s, work[p][1][3], r, deprecated>>>>)
      /\ faults' = faults \/ faults' = faults + 1
      /\ UNCHANGED <<storage, barrier, modules, operators, cut, late>>
  BY CountMoves DEF RecoverInv
<1>2. UNCHANGED <<recordKey, gen, handed, deprecated, cut>>
  BY <1>1 DEF storage, operators
<1>3. work[p][1][1] = "count" /\ work[p] # <<>> /\ ~OpIn(p, {"generate"})
  BY <1>1 DEF OpIn
<1>4. work[p][1] \in ToSet(work[p])
  BY <1>3, HeadAndTail DEF RecoverInv
<1>5. ~Initing(p)
  BY <1>1, NotIniting DEF RecoverInv, OpIn
<1>6. faults' = 0 => faults = 0
  BY <1>1 DEF RecoverInv, KeyInv, Flags
<1>7. CASE Turn(p, <<>>)
  BY <1>1, <1>2, <1>3, <1>5, <1>6, <1>7, RecoversNone
<1>8. CASE ~Turn(p, <<>>)
  <2>1. PICK k, c, s, r :
          Turn(p, <<<<"unseal", k, c>>, <<"opened", s, work[p][1][3], r, deprecated>>>>)
    BY <1>1, <1>8
  <2> DEFINE x == <<"unseal", k, c>> y == <<"opened", s, work[p][1][3], r, deprecated>>
             w == <<x, y>>
  <2>2. /\ x[1] = "unseal" /\ y[1] = "opened" /\ y[3] = work[p][1][3]
        /\ w[1] = x /\ w # <<>> /\ ToSet(w) = {x, y} /\ Turn(p, w)
    BY <2>1 DEF ToSet
  <2> HIDE DEF x, y, w
  <2>3. ~Inits(w)
    BY <2>2 DEF Inits
  <2>4. ASSUME faults = 0, ~cut PROVE \A z \in ToSet(w) : Once(z) => gen < MaxGen
    <3>1. Once(work[p][1]) => gen < MaxGen
      BY <1>1, <1>4, <2>4, RecoversFacts DEF RecoverInv
    <3>2. (Once(y) => Once(work[p][1])) /\ ~Once(x)
      BY <1>3, <2>2 DEF Once
    <3>3. QED
      BY <2>2, <3>1, <3>2
  <2>5. Recovers'
    BY <1>1, <1>2, <1>3, <1>5, <1>6, <2>2, <2>3, <2>4, RecoversOf DEF PostOps
  <2>6. QED
    BY <1>1, <2>2, <2>5, RightOf
<1>9. QED
  BY <1>7, <1>8

LEMMA OpenedRecovers ==
  ASSUME RecoverInv, SoleUnsealer, NEW p \in Proc, Opened(p)
  PROVE  Right' /\ Recovers'
<1>1. /\ p \in Unsealers /\ OpIn(p, {"opened"}) /\ recordKey # 0
      /\ \/ Turn(p, <<>>)
         \/ /\ state' = [sealed |-> FALSE, shares |-> <<>>, kek |-> Combined(work[p][1][2])]
            /\ \E w : /\ Turn(p, w) /\ w # <<>> /\ w[1] = <<"load", FALSE>>
                      /\ \A x \in ToSet(w) : x[1] \in PostOps
                           \/ (x[1] \in {"deprecate", "generate"} /\ work[p][1][3])
      /\ UNCHANGED <<storage, barrier, modules, operators, ghosts>>
  BY OpenedMoves DEF RecoverInv
<1>2. UNCHANGED <<recordKey, gen, handed, deprecated, cut, faults>>
  BY <1>1 DEF storage, operators, ghosts
<1>3. work[p][1][1] = "opened" /\ work[p] # <<>> /\ ~OpIn(p, {"generate"})
  BY <1>1 DEF OpIn
<1>4. work[p][1] \in ToSet(work[p])
  BY <1>3, HeadAndTail DEF RecoverInv
<1>5. ~Initing(p)
  BY <1>1, NotIniting DEF RecoverInv, OpIn
<1>6. CASE Turn(p, <<>>)
  BY <1>1, <1>2, <1>3, <1>5, <1>6, RecoversNone
<1>7. CASE ~Turn(p, <<>>)
  <2>1. state' = [sealed |-> FALSE, shares |-> <<>>, kek |-> Combined(work[p][1][2])]
    BY <1>1, <1>7
  <2>2. PICK w : /\ Turn(p, w) /\ w # <<>> /\ w[1] = <<"load", FALSE>>
                 /\ \A x \in ToSet(w) : x[1] \in PostOps
                      \/ (x[1] \in {"deprecate", "generate"} /\ work[p][1][3])
    BY <1>1, <1>7
  <2>3. w[1][1] = "load"
    BY <2>2
  <2>4. Combined(work[p][1][2]) = recordKey
    BY <1>1, <1>3 DEF RecoverInv, Right, Uses
  <2>5. ~state'.sealed /\ state'.kek = recordKey
    BY <2>1, <2>4
  <2>6. ~Inits(w)
    BY <2>2 DEF Inits, PostOps
  <2>7. ASSUME faults = 0, ~cut PROVE \A z \in ToSet(w) : Once(z) => gen < MaxGen
    <3>1. Once(work[p][1]) => gen < MaxGen
      BY <1>1, <1>4, <2>7, RecoversFacts DEF RecoverInv
    <3>2. \A z \in ToSet(w) : Once(z) => work[p][1][3]
      BY <2>2 DEF Once, PostOps
    <3>3. work[p][1][3] => Once(work[p][1])
      BY <1>3 DEF Once
    <3>4. QED
      BY <3>1, <3>2, <3>3
  <2>8. Recovers'
    BY <1>1, <1>2, <1>3, <1>5, <2>2, <2>5, <2>6, <2>7, RecoversOf
  <2>9. QED
    BY <1>1, <2>2, <2>3, <2>8, RightOf
<1>8. QED
  BY <1>6, <1>7

(* Shares are deprecated only when others are about to be made.             *)
LEMMA DeprecateRecovers ==
  ASSUME RecoverInv, SoleUnsealer, NEW p \in Proc, Deprecate(p)
  PROVE  Right' /\ Recovers'
<1>1. /\ p \in Unsealers /\ OpIn(p, {"deprecate"}) /\ recordKey # 0
      /\ UNCHANGED <<recordKey, written, barrier, state, modules, operators, ghosts>>
  BY DeprecateMoves DEF RecoverInv
<1>2. PICK w : Turn(p, w) /\ w # <<>> /\ \A x \in ToSet(w) : x[1] = "generate"
  BY DeprecateMoves DEF RecoverInv
<1>3. w[1][1] = "generate"
  <2>1. PICK x : Turn(p, x) /\ x[1][1] = "generate"
    BY DeprecateMoves DEF RecoverInv
  <2>2. QED
    BY <1>2, <2>1 DEF Turn
<1>4. UNCHANGED <<recordKey, gen, state, cut, faults>>
  BY <1>1 DEF operators, ghosts
<1>5. work[p][1][1] = "deprecate" /\ work[p] # <<>>
  BY <1>1 DEF OpIn
<1>6. work[p][1] \in ToSet(work[p])
  BY <1>5, HeadAndTail DEF RecoverInv
<1>7. \A q \in Unsealers : q = p
  BY <1>1 DEF SoleUnsealer
<1>8. work'[p] = w
  BY <1>2 DEF Turn
<1>9. ~Initing(p)'
  BY <1>2, <1>8 DEF Initing, Inits
<1>10. OpIn(p, {"generate"})'
  BY <1>2, <1>3, <1>8 DEF OpIn
<1>11. ASSUME faults = 0, ~cut PROVE gen < MaxGen /\ ~state.sealed /\ state.kek = recordKey
  <2>1. Once(work[p][1])
    BY <1>5 DEF Once
  <2>2. QED
    BY <1>1, <1>5, <1>6, <1>11, <2>1, RecoversFacts DEF RecoverInv, OpIn
<1>12. Recovers'
  BY <1>1, <1>4, <1>7, <1>9, <1>10, <1>11 DEF Recovers
<1>13. QED
  BY <1>1, <1>2, <1>3, <1>12, RightOf

LEMMA GenerateRecovers ==
  ASSUME RecoverInv, SoleUnsealer, T >= 2, NEW p \in Proc, Generate(p)
  PROVE  Right' /\ Recovers'
<1>1. /\ p \in Unsealers /\ OpIn(p, {"generate"}) /\ recordKey # 0 /\ Turn(p, <<>>)
      /\ \/ UNCHANGED <<gen, handed>>
            /\ (state.sealed \/ state.kek = None \/ T < 2 \/ gen = MaxGen)
         \/ /\ gen' = gen + 1
            /\ handed' = IF state.kek = Wrong THEN handed
                         ELSE handed \cup Polynomial(state.kek, gen + 1)
      /\ UNCHANGED <<storage, barrier, state, modules, ops, ghosts>>
  BY GenerateMoves DEF RecoverInv
<1>2. UNCHANGED <<recordKey, deprecated, state, cut, faults>>
  BY <1>1 DEF storage, ghosts
<1>3. work[p][1][1] = "generate" /\ work[p] # <<>>
  BY <1>1 DEF OpIn
<1>4. work[p][1] \in ToSet(work[p]) /\ Once(work[p][1])
  BY <1>3, HeadAndTail DEF RecoverInv, Once
<1>5. \A q \in Unsealers : q = p
  BY <1>1 DEF SoleUnsealer
<1>6. work'[p] = <<>> /\ ToSet(work'[p]) = {}
  BY <1>1, NoSteps DEF Turn
<1>7. ~Initing(p)' /\ \A O : ~OpIn(p, O)'
  BY <1>6 DEF Initing, Inits, OpIn
<1>8. ASSUME faults = 0, ~cut PROVE \E g \in 1..gen' : Usable(g)'
  <2>1. gen < MaxGen /\ ~state.sealed /\ state.kek = recordKey
    BY <1>1, <1>4, <1>8, RecoversFacts DEF RecoverInv, OpIn
  <2>2. recordKey \in Key /\ gen \in 0..MaxGen /\ MaxGen \in Nat
    BY <1>1, BoundAssumption DEF RecoverInv, KeyInv, Shares
  <2>3. state.kek # None /\ state.kek # Wrong /\ ~(T < 2) /\ gen # MaxGen
    BY <2>1, <2>2, ConfigAssumption DEF None, Wrong, Key
  <2>4. gen' = gen + 1 /\ handed' = handed \cup Polynomial(recordKey, gen + 1)
    BY <1>1, <2>1, <2>3
  <2>5. \A x \in deprecated : x[2] <= gen
    BY DEF RecoverInv, KeyInv, Shares
  <2>6. \A x \in Polynomial(recordKey, gen + 1) : x[2] = gen + 1
    BY DEF Polynomial
  <2>7. \A x \in Polynomial(recordKey, gen + 1) : x \notin deprecated
    BY <2>2, <2>5, <2>6
  <2>8. Polynomial(recordKey, gen + 1) \subseteq handed' \ deprecated'
    BY <1>2, <2>4, <2>7
  <2>9. PICK g : g = gen + 1
    OBVIOUS
  <2>10. Usable(g)' /\ g \in 1..gen'
    BY <1>2, <2>2, <2>4, <2>8, <2>9 DEF Usable
  <2>11. QED
    BY <2>10
<1>9. Recovers'
  BY <1>1, <1>2, <1>5, <1>6, <1>7, <1>8 DEF Recovers
<1>10. QED
  BY <1>1, <1>9, RightNone

LEMMA PostRecovers ==
  ASSUME RecoverInv, SoleUnsealer, NEW p \in Proc, NEW op \in PostOps, At(p, op), Then(p, <<>>),
         UNCHANGED <<storage, barrier, state, operators, ghosts>>,
         mounted' = (mounted \/ op = "load"), handler' = (handler \/ op = "handler")
  PROVE  Right' /\ Recovers'
<1>1. View' = View
  BY SameView DEF storage, operators, ghosts
<1>2. /\ p \in Unsealers /\ OpIn(p, PostOps) /\ recordKey # 0
      /\ Popped(p) /\ work[p][1][1] = op /\ work[p] # <<>>
  BY <1>1, PostMoves DEF RecoverInv, Popped
<1>3. UNCHANGED <<recordKey, gen, handed, deprecated, barrier, state, cut, faults>>
  BY DEF storage, operators, ghosts
<1> DEFINE w == Tail(work[p])
<1>4. /\ Turn(p, w) /\ ToSet(w) \subseteq ToSet(work[p])
      /\ w # <<>> => w[1][1] \in PostOps \cup {"deprecate", "generate", "init_done"}
      /\ op = "load" => w # <<>> /\ w[1][1] = "token_store"
      /\ op = "token_store" => w # <<>> /\ w[1][1] = "handler"
      /\ op = "handler" => w # <<>> /\ w[1][1] = "policy"
      /\ op = "policy" /\ w # <<>> => w[1][1] \in {"deprecate", "generate", "init_done"}
  BY <1>2, HeadAndTail DEF RecoverInv, Popped, Follows, Ends, PostOps
<1>5. Inits(w) <=> Initing(p)
  BY <1>2, PoppedInits DEF RecoverInv, PostOps
<1>6. Inits(w) => w # <<>> /\ w[1][1] \notin {"deprecate", "generate"}
  <2>1. Inits(w) => w # <<>>
    BY NoSteps DEF Inits
  <2>2. Fits(View, p, w)
    BY <1>2, FitsTail DEF RecoverInv, KeyInv, Tasks
  <2>3. QED
    BY <2>1, <2>2, NothingInits
<1> HIDE DEF w
<1>7. Readable' <=> Readable
  BY DEF Readable
<1>8. ~OpIn(p, {"generate"})
  BY <1>2 DEF OpIn, PostOps
<1>9. ASSUME faults = 0, ~cut PROVE \A z \in ToSet(w) : Once(z) => gen < MaxGen
  BY <1>2, <1>4, <1>9, RecoversFacts DEF RecoverInv
<1>10. ASSUME faults = 0, ~cut PROVE ~state.sealed /\ state.kek = recordKey
  BY <1>2, <1>10, RecoversFacts DEF RecoverInv, OpIn
<1>11. ASSUME faults = 0, ~cut, Initing(p)
       PROVE  /\ Calm /\ handed = {} /\ Readable
              /\ op # "policy" => ~handler
              /\ op = "load" => ~mounted
  <2>1. Initialising(p)
    BY <1>2, <1>11, RecoversFacts DEF RecoverInv
  <2>2. QED
    BY <1>2, <2>1 DEF Initialising, OpIn, PostOps
<1>12. Recovers'
  <2> SUFFICES ASSUME faults' = 0, ~cut
               PROVE  /\ Inits(w) =>
                           /\ Calm /\ handed = {}
                           /\ w[1][1] \notin {"policy", "init_done"} => ~handler'
                           /\ w[1][1] \notin {"token_store", "handler", "policy", "init_done"}
                                => ~mounted'
                           /\ w[1][1] = "open" => barrier'.key = Enc
                           /\ w[1][1] \in {"split", "init_done"} \cup PostOps => Readable'
    BY <1>2, <1>3, <1>4, <1>5, <1>8, <1>9, <1>10, RecoversOf
  <2> SUFFICES ASSUME Inits(w)
               PROVE  /\ Calm /\ handed = {} /\ Readable'
                      /\ w[1][1] \notin {"policy", "init_done"} => ~handler'
                      /\ w[1][1] \in {"token_store", "handler", "policy", "init_done"}
    OBVIOUS
  <2>1. w[1][1] \in {"token_store", "handler", "policy", "init_done"}
    BY <1>4, <1>6 DEF PostOps
  <2>2. Calm /\ handed = {} /\ Readable'
    BY <1>3, <1>5, <1>7, <1>11
  <2>3. w[1][1] \notin {"policy", "init_done"} => op \in {"load", "token_store"}
    BY <1>4, <1>6 DEF PostOps
  <2>4. w[1][1] \notin {"policy", "init_done"} => ~handler'
    BY <1>3, <1>5, <1>11, <2>3
  <2>5. QED
    BY <2>1, <2>2, <2>4
<1>13. Right'
  BY <1>2, <1>4, RightOf DEF PostOps
<1>14. QED
  BY <1>12, <1>13

(* The modules come up when init mounts them, if nothing fails.             *)
LEMMA PostFailedRecovers ==
  ASSUME RecoverInv, SoleUnsealer, NEW p \in Proc, NEW op \in PostOps, At(p, op), PostFailed(p),
         UNCHANGED <<storage, operators, blind, cut, faults>>,
         ~Readable \/ (op = "load" /\ mounted) \/ (op = "handler" /\ handler)
  PROVE  Right' /\ Recovers'
<1>1. View' = View
  BY SameView DEF storage, operators
<1>2. /\ p \in Unsealers /\ OpIn(p, PostOps) /\ Turn(p, <<>>) /\ work[p][1][1] = op
  BY <1>1, PostFailedMoves DEF RecoverInv
<1>3. UNCHANGED <<recordKey, gen, handed, deprecated, cut, faults>>
  BY DEF storage, operators
<1>4. ~OpIn(p, {"generate"})
  BY <1>2 DEF OpIn, PostOps
<1>5. ASSUME faults = 0, ~cut, Initing(p) PROVE FALSE
  <2>1. Initialising(p)
    BY <1>2, <1>5, RecoversFacts DEF RecoverInv
  <2>2. QED
    BY <1>2, <2>1 DEF Initialising, OpIn, PostOps
<1>6. QED
  BY <1>2, <1>3, <1>4, <1>5, RecoversNone

LEMMA LoadRecovers ==
  ASSUME RecoverInv, SoleUnsealer, NEW p \in Proc, Load(p)
  PROVE  Right' /\ Recovers'
<1>1. At(p, "load") /\ "load" \in PostOps
      /\ UNCHANGED <<storage, handler, made, operators, blind, cut, faults>>
  BY DEF Load, PostOps
<1>2. handler \in BOOLEAN
  BY DEF RecoverInv, KeyInv, Flags
<1>3. CASE mounted' = TRUE /\ Then(p, <<>>) /\ UNCHANGED <<barrier, state, late>>
  <2>1. UNCHANGED <<storage, barrier, state, operators, ghosts>>
    BY <1>1, <1>3 DEF ghosts
  <2>2. handler' = (handler \/ "load" = "handler") /\ mounted' = (mounted \/ "load" = "load")
    BY <1>1, <1>2, <1>3
  <2>3. QED
    BY <1>1, <1>3, <2>1, <2>2, PostRecovers
<1>4. CASE ~(Readable /\ ~mounted) /\ PostFailed(p)
  BY <1>1, <1>4, PostFailedRecovers
<1>5. QED
  BY <1>3, <1>4 DEF Load

LEMMA TokenStoreRecovers ==
  ASSUME RecoverInv, SoleUnsealer, NEW p \in Proc, TokenStore(p)
  PROVE  Right' /\ Recovers'
<1>1. At(p, "token_store") /\ "token_store" \in PostOps
      /\ UNCHANGED <<storage, mounted, handler, operators, blind, cut, faults>>
  BY DEF TokenStore, PostOps
<1>2. mounted \in BOOLEAN /\ handler \in BOOLEAN
  BY DEF RecoverInv, KeyInv, Flags
<1>3. CASE Then(p, <<>>) /\ UNCHANGED <<barrier, state, late>>
  <2>1. UNCHANGED <<storage, barrier, state, operators, ghosts>>
    BY <1>1, <1>3 DEF ghosts
  <2>2. handler' = (handler \/ "token_store" = "handler")
        /\ mounted' = (mounted \/ "token_store" = "load")
    BY <1>1, <1>2
  <2>3. QED
    BY <1>1, <1>3, <2>1, <2>2, PostRecovers
<1>4. CASE ~Readable /\ PostFailed(p)
  BY <1>1, <1>4, PostFailedRecovers
<1>5. QED
  BY <1>3, <1>4 DEF TokenStore

LEMMA AddHandlerRecovers ==
  ASSUME RecoverInv, SoleUnsealer, NEW p \in Proc, AddHandler(p)
  PROVE  Right' /\ Recovers'
<1>1. At(p, "handler") /\ "handler" \in PostOps
      /\ UNCHANGED <<storage, mounted, made, operators, blind, cut, faults>>
  BY DEF AddHandler, PostOps
<1>2. mounted \in BOOLEAN
  BY DEF RecoverInv, KeyInv, Flags
<1>3. CASE handler' = TRUE /\ Then(p, <<>>) /\ UNCHANGED <<barrier, state, late>>
  <2>1. UNCHANGED <<storage, barrier, state, operators, ghosts>>
    BY <1>1, <1>3 DEF ghosts
  <2>2. handler' = (handler \/ "handler" = "handler")
        /\ mounted' = (mounted \/ "handler" = "load")
    BY <1>1, <1>2, <1>3
  <2>3. QED
    BY <1>1, <1>3, <2>1, <2>2, PostRecovers
<1>4. CASE ~(Readable /\ ~handler) /\ PostFailed(p)
  BY <1>1, <1>4, PostFailedRecovers
<1>5. QED
  BY <1>3, <1>4 DEF AddHandler

LEMMA PolicyRecovers ==
  ASSUME RecoverInv, SoleUnsealer, NEW p \in Proc, Policy(p)
  PROVE  Right' /\ Recovers'
<1>1. At(p, "policy") /\ "policy" \in PostOps
      /\ UNCHANGED <<storage, modules, operators, blind, cut, faults>>
  BY DEF Policy, PostOps
<1>2. mounted \in BOOLEAN /\ handler \in BOOLEAN
  BY DEF RecoverInv, KeyInv, Flags
<1>3. CASE Then(p, <<>>) /\ UNCHANGED <<barrier, state, late>>
  <2>1. UNCHANGED <<storage, barrier, state, operators, ghosts>>
    BY <1>1, <1>3 DEF ghosts
  <2>2. handler' = (handler \/ "policy" = "handler") /\ mounted' = (mounted \/ "policy" = "load")
    BY <1>1, <1>2 DEF modules
  <2>3. QED
    BY <1>1, <1>3, <2>1, <2>2, PostRecovers
<1>4. CASE ~Readable /\ PostFailed(p)
  BY <1>1, <1>4, PostFailedRecovers
<1>5. QED
  BY <1>3, <1>4 DEF Policy

LEMMA PutConfigRecovers ==
  ASSUME RecoverInv, SoleUnsealer, NEW p \in Proc, PutConfig(p)
  PROVE  Right' /\ Recovers'
<1> DEFINE y == <<"barrier_init">> w == <<y>>
<1>1. /\ p \in Unsealers /\ OpIn(p, {"put_config"}) /\ Turn(p, w)
      /\ deprecated = {} /\ deprecated' = {}
      /\ UNCHANGED <<recordKey, written, barrier, state, modules, operators, ghosts>>
  BY PutConfigMoves DEF RecoverInv
<1>2. y[1] = "barrier_init" /\ w[1] = y /\ w # <<>> /\ ToSet(w) = {y}
  BY OneStep
<1> HIDE DEF y, w
<1>3. UNCHANGED <<recordKey, gen, handed, deprecated, cut, faults>>
  BY <1>1 DEF operators, ghosts
<1>4. ~Initing(p) /\ ~OpIn(p, {"generate"})
  BY <1>1, NotIniting DEF RecoverInv, OpIn
<1>5. ~Inits(w) /\ \A z \in ToSet(w) : ~Once(z)
  BY <1>2 DEF Inits, Once
<1>6. Recovers'
  BY <1>1, <1>2, <1>3, <1>4, <1>5, RecoversOf DEF PostOps
<1>7. QED
  BY <1>1, <1>2, <1>6, RightOf

LEMMA BarrierInitRecovers ==
  ASSUME RecoverInv, SoleUnsealer, NEW p \in Proc, BarrierInit(p)
  PROVE  Right' /\ Recovers'
<1> DEFINE a == <<"init_cipher", gen + 1>> b == <<"put_record", gen + 1>> c == <<"reset_cipher">>
           d == <<"unseal", gen + 1, state>> e == <<"split", gen + 1>> w == <<a, b, c, d, e>>
<1>1. /\ p \in Unsealers /\ OpIn(p, {"barrier_init"}) /\ recordKey = 0
      /\ (Turn(p, <<>>) /\ UNCHANGED gen) \/ Turn(p, w)
      /\ UNCHANGED <<storage, barrier, state, modules, handed, ops, ghosts>>
  BY BarrierInitMoves DEF RecoverInv
<1>2. /\ a[1] = "init_cipher" /\ b[1] = "put_record" /\ c[1] = "reset_cipher"
      /\ d[1] = "unseal" /\ e[1] = "split"
  OBVIOUS
<1>3. w[1] = a /\ w # <<>> /\ ToSet(w) = {a, b, c, d, e}
  BY DEF ToSet
<1> HIDE DEF a, b, c, d, e, w
<1>4. UNCHANGED <<recordKey, handed, deprecated, barrier, mounted, handler, cut, faults>>
  BY <1>1 DEF storage, modules, ghosts
<1>5. ~Initing(p) /\ ~OpIn(p, {"generate"})
  BY <1>1, NotIniting DEF RecoverInv, OpIn
<1>6. CASE Turn(p, <<>>) /\ UNCHANGED gen
  BY <1>1, <1>4, <1>5, <1>6, RecoversNone
<1>7. CASE Turn(p, w)
  <2>1. \A q \in Unsealers : q = p
    BY <1>1 DEF SoleUnsealer
  <2>2. work'[p] = w
    BY <1>7 DEF Turn
  <2>3. Calm'
    <3>1. Calm
      BY <1>1, SealersNeedRecord DEF RecoverInv
    <3>2. QED
      BY <1>1, <1>7, <3>1, SealersKept, ProcAssumption DEF Proc
  <2>4. Initing(p)'
    BY <1>2, <1>3, <2>2 DEF Initing, Inits
  <2>5. \A O : OpIn(p, O)' => "init_cipher" \in O
    BY <1>2, <1>3, <2>2 DEF OpIn
  <2>6. handed = {} /\ ~mounted /\ ~handler
    BY <1>1 DEF RecoverInv, KeyInv, Blank
  <2>7. Initialising(p)'
    BY <1>4, <2>3, <2>5, <2>6 DEF Initialising, PostOps
  <2>8. \A z \in ToSet(work'[p]) : ~Once(z)
    BY <1>2, <1>3, <2>2 DEF Once
  <2>9. ~OpIn(p, {"deprecate", "generate"} \cup PostOps)'
    BY <2>5 DEF PostOps
  <2>10. Recovers'
    BY <1>1, <1>4, <2>1, <2>4, <2>7, <2>8, <2>9 DEF Recovers
  <2>11. QED
    BY <1>1, <1>2, <1>3, <1>7, <2>10, RightOf
<1>8. QED
  BY <1>1, <1>6, <1>7

LEMMA PutRecordRecovers ==
  ASSUME RecoverInv, SoleUnsealer, NEW p \in Proc, PutRecord(p)
  PROVE  Right' /\ Recovers'
<1>1. /\ p \in Unsealers /\ OpIn(p, {"put_record"}) /\ recordKey = 0 /\ recordKey' \in Key
      /\ Popped(p) /\ Tail(work[p]) # <<>> /\ Tail(work[p])[1][1] = "reset_cipher"
      /\ UNCHANGED <<deprecated, written, barrier, state, modules, operators, ghosts>>
  BY PutRecordMoves DEF RecoverInv
<1>2. UNCHANGED <<gen, handed, mounted, handler, cut, faults>>
  BY <1>1 DEF operators, modules, ghosts
<1>3. work[p][1][1] = "put_record" /\ work[p] # <<>>
  BY <1>1 DEF OpIn
<1> DEFINE w == Tail(work[p])
<1>4. Turn(p, w) /\ w # <<>> /\ w[1][1] = "reset_cipher" /\ ToSet(w) \subseteq ToSet(work[p])
  BY <1>1, <1>3, HeadAndTail DEF RecoverInv, Popped
<1>5. Inits(w) <=> Initing(p)
  BY <1>3, PoppedInits DEF RecoverInv
<1> HIDE DEF w
<1>6. \A q \in Unsealers : q = p
  BY <1>1 DEF SoleUnsealer
<1>7. work'[p] = w
  BY <1>4 DEF Turn
<1>8. Initing(p)' <=> Initing(p)
  BY <1>5, <1>7 DEF Initing
<1>9. \A O : OpIn(p, O)' => "reset_cipher" \in O
  BY <1>4, <1>7 DEF OpIn
<1>10. ~OpIn(p, {"deprecate", "generate"} \cup PostOps)'
  BY <1>9 DEF PostOps
<1>11. Calm' <=> Calm
  BY <1>1, <1>4, SealersKept, ProcAssumption DEF Proc
<1>12. ASSUME faults = 0, ~cut
       PROVE  /\ Initing(p)' /\ Initialising(p)'
              /\ \A z \in ToSet(work'[p]) : Once(z) => gen < MaxGen
  <2>1. Initing(p)
    BY <1>1, <1>3, <1>12, RecoversFacts DEF RecoverInv, OpIn
  <2>2. Initialising(p)
    BY <1>1, <1>12, <2>1, RecoversFacts DEF RecoverInv
  <2>3. Calm /\ handed = {} /\ ~handler /\ ~mounted
    BY <1>3, <2>2 DEF Initialising, OpIn
  <2>4. Initialising(p)'
    BY <1>2, <1>9, <1>11, <2>3 DEF Initialising, PostOps
  <2>5. \A z \in ToSet(work'[p]) : Once(z) => gen < MaxGen
    BY <1>1, <1>4, <1>7, <1>12, RecoversFacts DEF RecoverInv
  <2>6. QED
    BY <1>8, <2>1, <2>4, <2>5
<1>13. Recovers'
  BY <1>1, <1>2, <1>6, <1>10, <1>12 DEF Recovers, Key
<1>14. QED
  BY <1>1, <1>4, <1>13, RightOf

LEMMA SplitRecovers ==
  ASSUME RecoverInv, SoleUnsealer, T >= 2, NEW p \in Proc, Split(p)
  PROVE  Right' /\ Recovers'
<1>1. /\ p \in Unsealers /\ OpIn(p, {"split"}) /\ recordKey # 0
      /\ \/ Turn(p, <<>>) /\ (barrier.sealed \/ barrier.key = None)
         \/ /\ state' = [state EXCEPT !.sealed = FALSE, !.kek = recordKey]
            /\ \/ Turn(p, <<>>) /\ N > 1 /\ T < 2
               \/ \E w : /\ Turn(p, w) /\ w # <<>> /\ w[1] = <<"load", TRUE>>
                         /\ \A x \in ToSet(w) : x[1] \in PostOps \cup {"init_done"}
                         /\ \E x \in ToSet(w) : x[1] = "init_done"
      /\ UNCHANGED <<storage, barrier, modules, operators, ghosts>>
  BY SplitMoves DEF RecoverInv
<1>2. UNCHANGED <<recordKey, gen, handed, deprecated, barrier, mounted, handler, cut, faults>>
  BY <1>1 DEF storage, operators, modules, ghosts
<1>3. work[p][1][1] = "split" /\ work[p] # <<>> /\ ~OpIn(p, {"generate"})
  BY <1>1 DEF OpIn
<1>4. Initing(p)
  BY <1>3, HeadAndTail DEF RecoverInv, Initing, Inits
<1>5. ASSUME faults = 0, ~cut PROVE Calm /\ handed = {} /\ ~handler /\ ~mounted /\ Readable
  <2>1. Initialising(p)
    BY <1>1, <1>4, <1>5, RecoversFacts DEF RecoverInv
  <2>2. QED
    BY <1>1, <1>3, <2>1 DEF Initialising, OpIn, PostOps
<1>6. ~(N > 1 /\ T < 2)
  BY ConfigAssumption
<1>7. CASE Turn(p, <<>>) /\ (barrier.sealed \/ barrier.key = None)
  <2>1. ~Readable
    BY <1>7 DEF Readable, None, Enc
  <2>2. QED
    BY <1>1, <1>2, <1>3, <1>5, <1>7, <2>1, RecoversNone
<1>8. CASE ~(Turn(p, <<>>) /\ (barrier.sealed \/ barrier.key = None))
  <2>1. state' = [state EXCEPT !.sealed = FALSE, !.kek = recordKey]
    BY <1>1, <1>8
  <2>2. PICK w : /\ Turn(p, w) /\ w # <<>> /\ w[1] = <<"load", TRUE>>
                 /\ \A x \in ToSet(w) : x[1] \in PostOps \cup {"init_done"}
                 /\ \E x \in ToSet(w) : x[1] = "init_done"
    BY <1>1, <1>6, <1>8
  <2>3. w[1][1] = "load"
    BY <2>2
  <2>4. Inits(w)
    BY <2>2 DEF Inits
  <2>5. \A z \in ToSet(w) : ~Once(z)
    BY <2>2 DEF Once, PostOps
  <2>6. ~state'.sealed /\ state'.kek = recordKey
    <3>1. state \in CoreState
      BY DEF RecoverInv, KeyInv, Shares, Copy
    <3>2. QED
      BY <2>1, <3>1 DEF CoreState
  <2>7. Readable' <=> Readable
    BY <1>2 DEF Readable
  <2>8. Recovers'
    BY <1>1, <1>2, <1>3, <1>5, <2>2, <2>3, <2>4, <2>5, <2>6, <2>7, RecoversOf
  <2>9. QED
    BY <1>1, <2>2, <2>3, <2>8, RightOf
<1>9. QED
  BY <1>7, <1>8

LEMMA InitDoneRecovers ==
  ASSUME RecoverInv, SoleUnsealer, NEW p \in Proc, InitDone(p)
  PROVE  Right' /\ Recovers'
<1>1. /\ p \in Unsealers /\ OpIn(p, {"init_done"}) /\ recordKey \in Key /\ Turn(p, <<>>)
      /\ Readable => handed' = handed \cup Polynomial(recordKey, recordKey)
      /\ UNCHANGED <<storage, made, gen, ops, blind, cut, faults>>
  BY InitDoneMoves DEF RecoverInv
<1>2. UNCHANGED <<recordKey, gen, deprecated, cut, faults>>
  BY <1>1 DEF storage
<1>3. work[p][1][1] = "init_done" /\ work[p] # <<>>
  BY <1>1 DEF OpIn
<1>4. Initing(p)
  BY <1>3, HeadAndTail DEF RecoverInv, Initing, Inits
<1>5. \A q \in Unsealers : q = p
  BY <1>1 DEF SoleUnsealer
<1>6. work'[p] = <<>> /\ ToSet(work'[p]) = {}
  BY <1>1, NoSteps DEF Turn
<1>7. ~Initing(p)' /\ \A O : ~OpIn(p, O)'
  BY <1>6 DEF Initing, Inits, OpIn
<1>8. ASSUME faults = 0, ~cut PROVE \E g \in 1..gen' : Usable(g)'
  <2>1. handed = {} /\ Readable
    BY <1>1, <1>4, <1>8, RecoversFacts DEF RecoverInv, Initialising, OpIn
  <2>2. deprecated = {}
    BY <2>1 DEF RecoverInv, KeyInv, Shares
  <2>3. PICK g : g = recordKey
    OBVIOUS
  <2>4. g \in 1..gen'
    <3>1. recordKey <= gen /\ gen \in 0..MaxGen /\ recordKey \in 1..MaxGen /\ MaxGen \in Nat
      BY <1>1, BoundAssumption DEF RecoverInv, KeyInv, Shares, Key
    <3>2. QED
      BY <1>2, <2>3, <3>1
  <2>5. Usable(g)'
    BY <1>1, <1>2, <2>1, <2>2, <2>3 DEF Usable
  <2>6. QED
    BY <2>4, <2>5
<1>9. Recovers'
  BY <1>1, <1>2, <1>5, <1>6, <1>7, <1>8 DEF Recovers, Key
<1>10. QED
  BY <1>1, <1>9, RightNone

LEMMA InitRecovers ==
  ASSUME Init
  PROVE  RecoverInv
<1>1. work = [p \in Proc |-> <<>>]
      /\ (recordKey = 0 \/ (recordKey = 1 /\ handed = Polynomial(1, 1) /\ gen = 1))
      /\ deprecated = {}
  BY DEF Init
<1>2. \A p \in Unsealers : work[p] = <<>>
  BY <1>1 DEF Proc
<1>3. Right
  BY <1>2 DEF Right, OpIn
<1>4. \A p \in Unsealers : ~Initing(p) /\ (\A O : ~OpIn(p, O)) /\ ToSet(work[p]) = {}
  BY <1>2, NoSteps DEF Initing, Inits, OpIn
<1>5. recordKey # 0 => \E g \in 1..gen : Usable(g)
  <2> SUFFICES ASSUME recordKey # 0 PROVE \E g \in 1..gen : Usable(g)
    OBVIOUS
  <2>1. recordKey = 1 /\ handed = Polynomial(1, 1) /\ gen = 1
    BY <1>1
  <2>2. Usable(1)
    BY <1>1, <2>1 DEF Usable
  <2>3. QED
    BY <2>1, <2>2
<1>6. Recovers
  BY <1>2, <1>4, <1>5 DEF Recovers
<1>7. QED
  BY <1>3, <1>6, InitKeys DEF RecoverInv

LEMMA NextRecovers ==
  ASSUME RecoverInv, SoleUnsealer, T >= 2, [Next]_vars
  PROVE  RecoverInv'
<1> DEFINE R == Right' /\ Recovers'
<1>1. ASSUME NEW p \in Proc, UnsealStep(p) PROVE R
  BY <1>1, BarrierUnsealRecovers, InitCipherRecovers, DecryptRecovers, OpenRecovers,
     DoUnsealRecovers, CountRecovers, OpenedRecovers, DeprecateRecovers, GenerateRecovers,
     LoadRecovers, TokenStoreRecovers, AddHandlerRecovers, PolicyRecovers DEF UnsealStep
<1>2. ASSUME NEW p \in Proc, InitStep(p) PROVE R
  BY <1>2, PutConfigRecovers, BarrierInitRecovers, PutRecordRecovers, SplitRecovers,
     InitDoneRecovers DEF InitStep
<1>3. ASSUME NEW p \in Proc,
             \/ Submit(p) \/ Initialise(p) \/ Seal(p) \/ Write(p)
             \/ ResetCipher(p) \/ Close(p) \/ PreSeal(p) \/ Put(p) \/ Fail(p)
      PROVE  R
  BY <1>3, SubmitRecovers, InitialiseRecovers, SealRecovers, WriteRecovers, ResetCipherRecovers,
     CloseRecovers, PreSealRecovers, FailRecovers
<1>4. R
  BY <1>1, <1>2, <1>3, CrashRecovers, StutterRecovers DEF Next
<1>5. QED
  BY <1>4, NextKeys DEF RecoverInv

(* The third layer is inductive for one task that unseals, any number that  *)
(* seal, and a threshold of 2 or more.                                      *)
THEOREM RecoverInvHolds ==
  ASSUME SoleUnsealer, T >= 2 PROVE Spec => []RecoverInv
<1>1. Init => RecoverInv
  BY InitRecovers
<1>2. RecoverInv /\ [Next]_vars => RecoverInv'
  BY NextRecovers
<1>3. QED
  BY <1>1, <1>2, PTL DEF Spec

(* A polynomial has N shares.                                               *)
LEMMA PolynomialSize ==
  ASSUME NEW k, NEW g
  PROVE  IsFiniteSet(Polynomial(k, g)) /\ Cardinality(Polynomial(k, g)) = N
<1> DEFINE f == [i \in 1..N |-> <<k, g, i>>]
<1>1. f \in Bijection(1..N, Polynomial(k, g))
  BY DEF Bijection, Injection, Surjection, IsInjective, Polynomial
<1>2. IsFiniteSet(1..N) /\ Cardinality(1..N) = N
  BY FS_Interval, ConfigAssumption
<1>3. ExistsBijection(1..N, Polynomial(k, g))
  BY <1>1 DEF ExistsBijection
<1>4. QED
  BY <1>2, <1>3, FS_Bijection

LEMMA RecoverableFromInv ==
  ASSUME RecoverInv, SoleUnsealer
  PROVE  Recoverable
<1> SUFFICES ASSUME Idle, recordKey # 0, faults = 0, ~cut
             PROVE  \E g \in 1..gen :
                      Cardinality(Polynomial(recordKey, g) \cap (handed \ deprecated)) >= T
  BY DEF Recoverable
<1>1. \A p \in Unsealers : ~Initing(p) /\ ~OpIn(p, {"generate"})
  BY NoSteps DEF Idle, Proc, Initing, Inits, OpIn
<1>2. PICK g \in 1..gen : Usable(g)
  BY <1>1 DEF RecoverInv, Recovers
<1>3. Polynomial(recordKey, g) \cap (handed \ deprecated) = Polynomial(recordKey, g)
  BY <1>2 DEF Usable
<1>4. Cardinality(Polynomial(recordKey, g)) = N
  BY PolynomialSize
<1>5. N >= T
  BY ConfigAssumption
<1>6. QED
  BY <1>3, <1>4, <1>5

(* An initialised vault opens again with T shares of one polynomial that    *)
(* were handed out and are not deprecated, unless a storage operation or the *)
(* process failed or a seal came between another's steps (core.rs:203-216,  *)
(* 414-426, 463-470).                                                       *)
THEOREM RecoverableHolds ==
  ASSUME SoleUnsealer, T >= 2 PROVE Spec => []Recoverable
<1>1. RecoverInv => Recoverable
  BY RecoverableFromInv
<1>2. QED
  BY <1>1, RecoverInvHolds, PTL
=============================================================================
