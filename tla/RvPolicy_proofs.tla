-------------------------- MODULE RvPolicy_proofs --------------------------
(***************************************************************************)
(* Proofs about RvPolicy, for any names, documents, writers and checkers.  *)
(*                                                                         *)
(* StoreOK is not inductive.  Why a write that was alone leaves its name   *)
(* clean is seen from what is so while it runs: calls that meet on a name  *)
(* know of it and the name is not clean (Apart), a writer of a clean name  *)
(* is alone (WriterAlone), an alone writer finds what its earlier steps    *)
(* left (StageOK), and a checker that will cache a clean name's policy has *)
(* read what is stored (FillOK).                                           *)
(*                                                                         *)
(* DecisionCurrent follows in two parts.  CheckInv says what a check that  *)
(* no write overlaps has had so far: the stored documents of the names it  *)
(* is through with.  And what Verdict makes of them, merging one document  *)
(* after another, is what Granted says of the set of them: the merge of    *)
(* permissions is the sum of its parts (Sums), by induction over the       *)
(* documents (AclSums), and of any keys at most one decides (AtMostOne).  *)
(*                                                                         *)
(* NarrowestDecides needs that one does: Before orders totally the rules   *)
(* that cover a path (ExactlyOne), since two of them that no count tells   *)
(* apart are the same.  And a rule that covers no more than another asks   *)
(* of each segment the same or more (Fixed), so that, unless it has more   *)
(* wildcards, Before does not sort it first (LessNotBefore).               *)
(***************************************************************************)
EXTENDS RvPolicy, FiniteSetTheorems, SequenceTheorems, WellFoundedInduction, TLAPS

Single == {{n} : n \in Name}
Item == Name \cup {"root"}
Answers == {"none", "failed", "error", "allowed", "denied", "no policy", "policy"}

SetCall == [at : {"put", "type", "insert"}, names : Single, doc : Written, alone : BOOLEAN]
DeleteCall == [at : {"erase", "uncache", "untype"}, names : {{n} : n \in Name \ {Default}},
               alone : BOOLEAN]
CheckCall ==
  [at : {"look", "read", "retype", "fill", "answered"}, names : SUBSET Name,
   token : Tokens, todo : Seq(Item), found : Seq(Doc), request : Request \cup {None},
   doc : Slot, answer : Answers, alone : BOOLEAN, acl : BOOLEAN]
Call == {Idle} \cup SetCall \cup DeleteCall \cup CheckCall

(* What a check has still to fetch is among its names. *)
CheckOK(w) ==
  /\ \A i \in 1..Len(w.todo) : w.todo[i] \in w.names \cup {"root"}
  /\ Len(w.found) + Len(w.todo) <= Len(w.token)
  /\ w.at \in {"read", "retype", "fill"} => w.todo # <<>> /\ Head(w.todo) \in w.names
  /\ w.at \in {"retype", "fill"} => w.doc \in Doc
  /\ w.at = "answered" <=> w.answer # "none"
  /\ w.answer \in {"allowed", "denied"} => w.request \in Request

CallOK(p) ==
  \/ work[p] = Idle
  \/ p \in Writers /\ work[p] \in SetCall \cup DeleteCall
  \/ p \in Checkers /\ work[p] \in CheckCall /\ CheckOK(work[p])

TypeInv ==
  /\ stored \in [Name -> Slot] /\ cache \in [Name -> Slot]
  /\ stored[Default] # None
  /\ typed \subseteq Name /\ clean \subseteq Name
  /\ work \in [Proc -> Call]
  /\ \A p \in Proc : CallOK(p)
  /\ ops \in 0..MaxOps /\ faults \in 0..MaxFaults

Met(p, q) == p # q /\ (Writes(work[p]) \/ Writes(work[q]))
Apart ==
  \A p, q \in Proc : \A n \in Touches(work[p]) \cap Touches(work[q]) :
    Met(p, q) => n \notin clean /\ ~work[p].alone

WriterAlone ==
  \A p \in Proc : Writes(work[p]) => \A n \in Touches(work[p]) \cap clean : work[p].alone

StageOK(p) ==
  Writes(work[p]) /\ work[p].alone => \A n \in work[p].names :
    /\ At(p, "type") => stored[n] = work[p].doc
    /\ At(p, "insert") => stored[n] = work[p].doc /\ n \in typed
    /\ At(p, "uncache") => stored[n] = None
    /\ At(p, "untype") => stored[n] = None /\ cache[n] = None

FillOK(p) ==
  work[p].at \in {"retype", "fill"} /\ Head(work[p].todo) \in clean
    => work[p].doc = stored[Head(work[p].todo)]

Late(w) == w.at \in {"type", "insert", "uncache", "untype"}
Agree(n) == cache[n] \in {None, stored[n]} /\ (n \in typed <=> stored[n] # None)
Agreed ==
  \A n \in clean : (\A p \in Proc : Late(work[p]) => n \notin work[p].names) => Agree(n)

MetInv == Apart /\ WriterAlone
DataInv == (\A p \in Proc : StageOK(p)) /\ (\A p \in Proc : FillOK(p)) /\ Agreed
IInv == TypeInv /\ MetInv /\ DataInv
LEMMA TokenIsSeq ==
  ASSUME NEW t \in Tokens
  PROVE  t \in Seq(Item) /\ Len(t) \in Nat
<1>1. "root" \in Item /\ \A n \in Name : n \in Item
  BY DEF Item
<1>2. CASE t = <<>>
  BY <1>2
<1>3. CASE t = <<"root">>
  BY <1>1, <1>3
<1>4. ASSUME NEW n \in Name, t = <<n>> PROVE t \in Seq(Item) /\ Len(t) \in Nat
  BY <1>1, <1>4
<1>5. ASSUME NEW m \in Name, NEW n \in Name \cup {"root"}, t = <<m, n>>
      PROVE  t \in Seq(Item) /\ Len(t) \in Nat
  <2>1. m \in Item /\ n \in Item
    BY <1>1
  <2>2. QED
    BY <1>5, <2>1
<1>6. QED
  <2>1. \/ t = <<>> \/ t = <<"root">> \/ \E n \in Name : t = <<n>>
        \/ \E m \in Name, n \in Name \cup {"root"} : t = <<m, n>>
    BY DEF Tokens
  <2>2. QED
    BY <2>1, <1>2, <1>3, <1>4, <1>5


-----------------------------------------------------------------------------
(* Typing.                                                                 *)

LEMMA NoneIsNoDoc == None \notin Doc /\ "root" \notin Name /\ Written \subseteq Doc
BY PolicyAssumption

(* What is known of a call from its step. *)
LEMMA WriterCall ==
  ASSUME TypeInv, NEW p \in Proc, Writes(work[p])
  PROVE  /\ p \in Writers
         /\ work[p] \in SetCall \cup DeleteCall
         /\ work[p].at \in {"put", "type", "insert"} <=> work[p] \in SetCall
         /\ Name1(p) \in Name /\ work[p].names = {Name1(p)}
         /\ Touches(work[p]) = {Name1(p)}
         /\ work[p] \in DeleteCall => Name1(p) # Default
<1>1. CallOK(p)
  BY DEF TypeInv
<1>2. work[p].at \in {"put", "type", "insert", "erase", "uncache", "untype"}
  BY DEF Writes
<1>3. p \in Writers /\ work[p] \in SetCall \cup DeleteCall
  BY <1>1, <1>2 DEF CallOK, Idle, CheckCall
<1>4. work[p].at \in {"put", "type", "insert"} <=> work[p] \in SetCall
  BY <1>3 DEF SetCall, DeleteCall
<1>5. \E n \in Name : work[p].names = {n} /\ (work[p] \in DeleteCall => n # Default)
  BY <1>3, <1>4 DEF SetCall, DeleteCall, Single
<1>6. PICK n \in Name : work[p].names = {n} /\ (work[p] \in DeleteCall => n # Default)
  BY <1>5
<1>7. Name1(p) = n
  BY <1>6 DEF Name1
<1>8. Touches(work[p]) = work[p].names
  BY <1>2 DEF Touches
<1>9. QED
  BY <1>3, <1>4, <1>6, <1>7, <1>8

LEMMA CheckerCall ==
  ASSUME TypeInv, NEW p \in Proc, work[p].at \in {"look", "read", "retype", "fill"}
  PROVE  /\ p \in Checkers /\ work[p] \in CheckCall /\ CheckOK(work[p])
         /\ work[p].answer = "none" /\ ~Writes(work[p])
         /\ Touches(work[p]) = work[p].names
<1>1. p \in Checkers /\ work[p] \in CheckCall /\ CheckOK(work[p])
  BY DEF TypeInv, CallOK, Idle, SetCall, DeleteCall
<1>2. QED
  BY <1>1 DEF CheckOK, Writes, Touches, CheckCall

(* p's call becomes v. *)
Fits(p, v) ==
  \/ v = Idle
  \/ p \in Writers /\ v \in SetCall \cup DeleteCall
  \/ p \in Checkers /\ v \in CheckCall /\ CheckOK(v)

LEMMA StepTyped ==
  ASSUME TypeInv, NEW p \in Proc, NEW v, Fits(p, v), Step(p, v)
  PROVE  /\ work' \in [Proc -> Call]
         /\ \A q \in Proc : CallOK(q)'
         /\ work'[p] = v
         /\ \A q \in Proc \ {p} : work'[q] = work[q]
<1>1. v \in Call
  BY DEF Fits, Call
<1>2. work' = [work EXCEPT ![p] = v] /\ work \in [Proc -> Call]
  BY DEF Step, TypeInv
<1>3. work' \in [Proc -> Call] /\ work'[p] = v /\ \A q \in Proc \ {p} : work'[q] = work[q]
  BY <1>1, <1>2
<1>4. ASSUME NEW q \in Proc PROVE CallOK(q)'
  <2>1. CASE q = p
    BY <1>3, <2>1 DEF Fits, CallOK
  <2>2. CASE q # p
    BY <1>3, <2>2 DEF TypeInv, CallOK
  <2>3. QED
    BY <2>1, <2>2
<1>5. QED
  BY <1>3, <1>4

(* A writer's next step. *)
LEMMA SetCallMoves ==
  ASSUME NEW w \in SetCall, NEW a \in {"put", "type", "insert"}
  PROVE  LET v == [w EXCEPT !.at = a]
         IN v \in SetCall /\ v.at = a /\ v.names = w.names /\ v.doc = w.doc /\ v.alone = w.alone
BY DEF SetCall

LEMMA DeleteCallMoves ==
  ASSUME NEW w \in DeleteCall, NEW a \in {"erase", "uncache", "untype"}
  PROVE  LET v == [w EXCEPT !.at = a]
         IN v \in DeleteCall /\ v.at = a /\ v.names = w.names /\ v.alone = w.alone
BY DEF DeleteCall

(* A checker's next step. *)
LEMMA CheckCallMoves ==
  ASSUME NEW w \in CheckCall, CheckOK(w), w.at \in {"look", "read", "retype", "fill"},
         w.todo # <<>>, Head(w.todo) # "root",
         NEW a \in {"read", "retype", "fill"}, NEW d \in Slot, a = "read" \/ d \in Doc
  PROVE  LET v == [w EXCEPT !.at = a, !.doc = d]
         IN v \in CheckCall /\ CheckOK(v) /\ v.at = a /\ v.names = w.names
            /\ v.alone = w.alone /\ v.todo = w.todo /\ v.doc = d
<1> DEFINE v == [w EXCEPT !.at = a, !.doc = d]
<1>1. v \in CheckCall /\ v.at = a /\ v.names = w.names /\ v.alone = w.alone /\ v.todo = w.todo
      /\ v.doc = d /\ v.found = w.found /\ v.token = w.token /\ v.answer = w.answer
  BY DEF CheckCall
<1>2. Head(w.todo) \in w.names
  <2>1. w.todo \in Seq(Item)
    BY DEF CheckCall
  <2>2. 1 \in 1..Len(w.todo) /\ Head(w.todo) = w.todo[1]
    BY <2>1
  <2>3. QED
    BY <2>2 DEF CheckOK
<1>3. CheckOK(v)
  BY <1>1, <1>2 DEF CheckOK
<1>4. QED
  BY <1>1, <1>3

LEMMA CheckCallFetches ==
  ASSUME NEW w \in CheckCall, CheckOK(w), w.at \in {"look", "read", "fill"}, w.todo # <<>>,
         NEW docs \in Seq(Doc), Len(docs) <= 1
  PROVE  LET v == [w EXCEPT !.at = "look", !.doc = None, !.found = @ \o docs, !.todo = Tail(@)]
         IN v \in CheckCall /\ CheckOK(v) /\ v.at = "look" /\ v.names = w.names
            /\ v.alone = w.alone
<1> DEFINE v == [w EXCEPT !.at = "look", !.doc = None, !.found = @ \o docs, !.todo = Tail(@)]
<1>1. w.todo \in Seq(Item) /\ w.found \in Seq(Doc)
  BY DEF CheckCall
<1>2. Tail(w.todo) \in Seq(Item) /\ w.found \o docs \in Seq(Doc)
  BY <1>1
<1>3. /\ Len(Tail(w.todo)) = Len(w.todo) - 1
      /\ Len(w.found \o docs) = Len(w.found) + Len(docs)
      /\ \A i \in 1..Len(Tail(w.todo)) : Tail(w.todo)[i] = w.todo[i + 1]
  BY <1>1
<1>4. v \in CheckCall /\ v.at = "look" /\ v.names = w.names /\ v.alone = w.alone
      /\ v.todo = Tail(w.todo) /\ v.found = w.found \o docs /\ v.token = w.token
      /\ v.answer = w.answer
  BY <1>2 DEF CheckCall, Slot
<1>5. w.token \in Tokens /\ Len(w.todo) \in Nat /\ Len(w.found) \in Nat /\ Len(docs) \in Nat
  BY <1>1 DEF CheckCall
<1> HIDE DEF v
<1>6. \A i \in 1..Len(v.todo) : v.todo[i] \in v.names \cup {"root"}
  <2>1. ASSUME NEW i \in 1..Len(Tail(w.todo))
        PROVE  Tail(w.todo)[i] \in w.names \cup {"root"}
    <3>1. i + 1 \in 1..Len(w.todo)
      BY <1>3, <1>5
    <3>2. QED
      BY <1>3, <3>1 DEF CheckOK
  <2>2. QED
    BY <1>4, <2>1
<1>7. Len(v.found) + Len(v.todo) <= Len(v.token)
  <2>1. Len(w.found) + Len(w.todo) <= Len(w.token) /\ Len(w.token) \in Nat
    BY <1>5, TokenIsSeq DEF CheckOK
  <2>2. /\ Len(v.found) = Len(w.found) + Len(docs) /\ Len(v.todo) = Len(w.todo) - 1
        /\ v.token = w.token
    BY <1>3, <1>4
  <2>3. \A a, b, c, d \in Nat : a + b <= c /\ d <= 1 => (a + d) + (b - 1) <= c
    OBVIOUS
  <2>4. (Len(w.found) + Len(docs)) + (Len(w.todo) - 1) <= Len(w.token)
    BY <2>1, <2>3, <1>5
  <2>5. QED
    BY <2>2, <2>4
<1>8. w.answer = "none"
  BY DEF CheckOK, CheckCall
<1>9. QED
  <2>1. CheckOK(v)
    BY <1>4, <1>6, <1>7, <1>8 DEF CheckOK
  <2>2. QED
    BY <1>4, <2>1 DEF v

LEMMA CheckCallAnswers ==
  ASSUME NEW w \in CheckCall, CheckOK(w), NEW r \in Request \cup {None},
         NEW a \in Answers \ {"none"}, a \in {"allowed", "denied"} => r \in Request
  PROVE  LET v == [w EXCEPT !.at = "answered", !.doc = None, !.request = r, !.answer = a]
         IN v \in CheckCall /\ CheckOK(v) /\ v.at = "answered"
<1> DEFINE v == [w EXCEPT !.at = "answered", !.doc = None, !.request = r, !.answer = a]
<1>1. v \in CheckCall /\ v.at = "answered" /\ v.todo = w.todo /\ v.found = w.found
      /\ v.names = w.names /\ v.token = w.token /\ v.answer = a /\ v.request = r
  BY DEF CheckCall, Slot
<1>2. QED
  BY <1>1 DEF CheckOK

-----------------------------------------------------------------------------
(* Who meets whom.  Each step but the start of a call keeps p's names, or   *)
(* ends p's call.                                                           *)

Keeps(p) ==
  /\ Touches(work'[p]) = Touches(work[p])
  /\ Writes(work'[p]) = Writes(work[p])
  /\ work'[p].alone = work[p].alone

(* Two calls that meet on a name are not alone, and the name is not clean.  *)
LEMMA MetTwice ==
  ASSUME Apart, NEW p \in Proc, NEW q \in Proc, p # q, Writes(work[p]),
         NEW n, n \in Touches(work[p]), n \in Touches(work[q])
  PROVE  n \notin clean /\ ~work[p].alone /\ ~work[q].alone
BY DEF Apart, Met

LEMMA MetStep ==
  ASSUME TypeInv, MetInv, NEW p \in Proc,
         \A q \in Proc \ {p} : work'[q] = work[q],
         Keeps(p) \/ Touches(work'[p]) = {},
         \/ clean' = clean
         \/ Touches(work'[p]) = {} /\ Writes(work[p]) /\ clean' = Cleaned(p)
  PROVE  MetInv'
<1>1. \A n \in clean' : n \in clean \/ (Writes(work[p]) /\ work[p].alone /\ n \in Touches(work[p])
                                        /\ Touches(work'[p]) = {})
  <2>1. CASE clean' = clean
    BY <2>1
  <2>2. CASE Touches(work'[p]) = {} /\ Writes(work[p]) /\ clean' = Cleaned(p)
    BY <2>2 DEF Cleaned, Touches, Writes
  <2>3. QED
    BY <2>1, <2>2
<1>2. \A q \in Proc : \A n \in Touches(work'[q]) :
        n \in Touches(work[q]) /\ Writes(work'[q]) = Writes(work[q])
        /\ work'[q].alone = work[q].alone
  <2>1. SUFFICES ASSUME NEW q \in Proc, NEW n \in Touches(work'[q])
                 PROVE  /\ n \in Touches(work[q]) /\ Writes(work'[q]) = Writes(work[q])
                        /\ work'[q].alone = work[q].alone
    OBVIOUS
  <2>2. CASE q = p
    BY <2>1, <2>2 DEF Keeps
  <2>3. CASE q # p
    BY <2>1, <2>3
  <2>4. QED
    BY <2>2, <2>3
<1>3. Apart'
  <2> SUFFICES ASSUME NEW q \in Proc, NEW r \in Proc,
                      NEW n \in Touches(work'[q]), n \in Touches(work'[r]), Met(q, r)'
               PROVE  n \notin clean' /\ ~work'[q].alone
    BY DEF Apart
  <2>1. n \in Touches(work[q]) /\ n \in Touches(work[r]) /\ Met(q, r) /\ Met(r, q)
        /\ work'[q].alone = work[q].alone
    BY <1>2 DEF Met
  <2>2. n \notin clean /\ ~work[q].alone
    BY <2>1 DEF MetInv, Apart
  <2>3. ASSUME Writes(work[p]), work[p].alone, n \in Touches(work[p]), Touches(work'[p]) = {}
        PROVE  FALSE
    <3>1. p # q
      BY <2>3
    <3>2. QED
      BY <2>1, <2>3, <3>1, MetTwice DEF MetInv
  <2>4. QED
    BY <1>1, <2>1, <2>2, <2>3
<1>4. WriterAlone'
  <2> SUFFICES ASSUME NEW q \in Proc, Writes(work'[q]), NEW n \in Touches(work'[q]), n \in clean'
               PROVE  work'[q].alone
    BY DEF WriterAlone
  <2>1. n \in Touches(work[q]) /\ Writes(work[q]) /\ work'[q].alone = work[q].alone
    BY <1>2
  <2>2. CASE n \in clean
    BY <2>1, <2>2 DEF MetInv, WriterAlone
  <2>3. CASE n \notin clean
    <3>1. Writes(work[p]) /\ work[p].alone /\ n \in Touches(work[p]) /\ Touches(work'[p]) = {}
      BY <1>1, <2>3
    <3>2. p # q
      BY <3>1
    <3>3. QED
      BY <2>1, <3>1, <3>2, MetTwice DEF MetInv
  <2>4. QED
    BY <2>2, <2>3
<1>5. QED
  BY <1>3, <1>4 DEF MetInv

-----------------------------------------------------------------------------
(* Steps of a checker, and of a writer that gives up, that leave the store  *)
(* as it is.                                                                *)
LEMMA DataKept ==
  ASSUME TypeInv, DataInv, NEW p \in Proc,
         \A q \in Proc \ {p} : work'[q] = work[q],
         UNCHANGED <<stored, cache, typed, clean>>,
         ~Late(work[p]), ~Late(work'[p]), FillOK(p)'
  PROVE  DataInv'
<1>1. ASSUME NEW q \in Proc PROVE StageOK(q)'
  <2>1. CASE q = p
    BY <2>1 DEF StageOK, At, Late
  <2>2. CASE q # p
    BY <2>2 DEF DataInv, StageOK, At, Writes
  <2>3. QED
    BY <2>1, <2>2
<1>2. ASSUME NEW q \in Proc PROVE FillOK(q)'
  BY DEF DataInv, FillOK
<1>3. Agreed'
  <2> SUFFICES ASSUME NEW n \in clean, \A q \in Proc : Late(work'[q]) => n \notin work'[q].names
               PROVE  Agree(n)'
    BY DEF Agreed
  <2>1. \A q \in Proc : Late(work[q]) => n \notin work[q].names
    OBVIOUS
  <2>2. QED
    BY <2>1 DEF DataInv, Agreed, Agree
<1>4. QED
  BY <1>1, <1>2, <1>3 DEF DataInv

-----------------------------------------------------------------------------
(* The steps of a writer.                                                   *)

(* p ends its call without a change of the store. *)
LEMMA EndsQuietly ==
  ASSUME IInv, NEW p \in Writers, At(p, "put") \/ At(p, "erase"), Step(p, Idle),
         UNCHANGED <<stored, cache, typed, clean, ops>>, faults' \in 0..MaxFaults
  PROVE  IInv'
<1>1. p \in Proc /\ Fits(p, Idle)
  BY DEF Proc, Fits
<1>2. /\ work' \in [Proc -> Call] /\ \A q \in Proc : CallOK(q)'
      /\ work'[p] = Idle /\ \A q \in Proc \ {p} : work'[q] = work[q]
  BY <1>1, StepTyped DEF IInv
<1>3. TypeInv'
  BY <1>2 DEF IInv, TypeInv
<1>4. Touches(work'[p]) = {} /\ ~Late(work'[p]) /\ FillOK(p)'
  BY <1>2 DEF Touches, Idle, Late, FillOK
<1>5. MetInv'
  BY <1>1, <1>2, <1>4, MetStep DEF IInv
<1>6. DataInv'
  BY <1>1, <1>2, <1>4, DataKept DEF IInv, At, Late
<1>7. QED
  BY <1>3, <1>5, <1>6 DEF IInv

(* A step of a writer of n: what it must do about n. *)
LEMMA WriterData ==
  ASSUME TypeInv, MetInv, DataInv, NEW p \in Proc, Writes(work[p]), NEW n, n = Name1(p),
         \A q \in Proc \ {p} : work'[q] = work[q],
         \A m \in Name \ {n} :
            stored'[m] = stored[m] /\ cache'[m] = cache[m] /\ (m \in typed' <=> m \in typed),
         clean' = clean \/ clean' = Cleaned(p),
         work'[p].at \notin {"retype", "fill"},
         StageOK(p)',
         n \in clean' => Agree(n)' \/ (Late(work'[p]) /\ n \in work'[p].names)
  PROVE  DataInv'
<1>1. n \in Name /\ work[p].names = {n} /\ Touches(work[p]) = {n}
  BY WriterCall
<1>2. \A m \in clean' : m \in clean \/ m = n
  BY <1>1 DEF Cleaned
<1>3. \A q \in Proc \ {p} : n \in Touches(work[q]) =>
        n \notin clean /\ ~work[q].alone /\ ~work[p].alone
  BY <1>1, MetTwice DEF MetInv
<1>4. ASSUME NEW q \in Proc PROVE StageOK(q)'
  <2>1. CASE q = p
    BY <2>1
  <2>2. CASE q # p
    <3> SUFFICES ASSUME Writes(work[q]), work[q].alone, NEW m \in work[q].names
                 PROVE  /\ At(q, "type") => stored'[m] = work[q].doc
                        /\ At(q, "insert") => stored'[m] = work[q].doc /\ m \in typed'
                        /\ At(q, "uncache") => stored'[m] = None
                        /\ At(q, "untype") => stored'[m] = None /\ cache'[m] = None
      BY <2>2 DEF StageOK, At, Writes
    <3>1. m \in Touches(work[q]) /\ m \in Name
      BY WriterCall
    <3>2. m # n
      BY <2>2, <3>1, <1>3
    <3>3. QED
      BY <3>1, <3>2 DEF DataInv, StageOK
  <2>3. QED
    BY <2>1, <2>2
<1>5. ASSUME NEW q \in Proc PROVE FillOK(q)'
  <2>1. CASE q = p
    BY <2>1 DEF FillOK
  <2>2. CASE q # p
    <3> SUFFICES ASSUME work[q].at \in {"retype", "fill"}, Head(work[q].todo) \in clean'
                 PROVE  work[q].doc = stored'[Head(work[q].todo)]
      BY <2>2 DEF FillOK
    <3>1. Head(work[q].todo) \in Touches(work[q]) /\ Touches(work[q]) \subseteq Name
      <4>1. work[q] \in CheckCall /\ CheckOK(work[q]) /\ Touches(work[q]) = work[q].names
        BY CheckerCall
      <4>2. QED
        BY <4>1 DEF CheckOK, CheckCall
    <3>2. CASE Head(work[q].todo) = n
      <4>1. n \notin clean /\ ~work[p].alone
        BY <2>2, <3>1, <3>2, <1>3
      <4>2. QED
        BY <3>2, <4>1 DEF Cleaned
    <3>3. CASE Head(work[q].todo) # n
      BY <3>1, <3>3, <1>2 DEF DataInv, FillOK
    <3>4. QED
      BY <3>2, <3>3
  <2>3. QED
    BY <2>1, <2>2
<1>6. Agreed'
  <2> SUFFICES ASSUME NEW m \in clean', \A q \in Proc : Late(work'[q]) => m \notin work'[q].names
               PROVE  Agree(m)'
    BY DEF Agreed
  <2>1. CASE m = n
    BY <2>1
  <2>2. CASE m # n
    <3>1. m \in clean /\ \A q \in Proc : Late(work[q]) => m \notin work[q].names
      BY <2>2, <1>1, <1>2
    <3>2. Agree(m) /\ m \in Name
      BY <3>1 DEF DataInv, Agreed, TypeInv
    <3>3. QED
      BY <2>2, <3>2 DEF Agree
  <2>3. QED
    BY <2>1, <2>2
<1>7. QED
  BY <1>4, <1>5, <1>6 DEF DataInv

LEMMA PutStep ==
  ASSUME IInv, NEW p \in Writers, Put(p)
  PROVE  IInv'
<1>0. PICK n : n = Name1(p)
  OBVIOUS
<1> DEFINE v == [work[p] EXCEPT !.at = "type"]
<1>1. p \in Proc /\ Writes(work[p]) /\ At(p, "put") /\ ~Late(work[p])
  BY DEF Put, At, Writes, Proc, Late
<1>2. work[p] \in SetCall /\ n \in Name /\ work[p].names = {n} /\ Touches(work[p]) = {n}
  BY <1>0, <1>1, WriterCall DEF IInv, At
<1>3. CASE Fail(p)
  <2>1. Step(p, Idle) /\ UNCHANGED <<stored, cache, typed, clean, ops>>
    BY <1>3 DEF Fail
  <2>2. faults' \in 0..MaxFaults
    BY <1>3, BoundAssumption DEF Fail, IInv, TypeInv
  <2>3. QED
    BY <1>1, <2>1, <2>2, EndsQuietly
<1>4. CASE ~Fail(p)
  <2>1. /\ stored' = [stored EXCEPT ![n] = work[p].doc] /\ Step(p, v)
        /\ UNCHANGED <<cache, typed, clean, ops, faults>>
    BY <1>0, <1>4 DEF Put
  <2>2. v \in SetCall /\ v.at = "type" /\ v.names = {n} /\ v.doc = work[p].doc
        /\ v.alone = work[p].alone
    BY <1>2, SetCallMoves
  <2>3. /\ work' \in [Proc -> Call] /\ \A q \in Proc : CallOK(q)'
        /\ work'[p] = v /\ \A q \in Proc \ {p} : work'[q] = work[q]
    BY <1>1, <2>1, <2>2, StepTyped DEF Fits, IInv
  <2>4. work[p].doc \in Doc /\ work[p].doc # None
    BY <1>2, NoneIsNoDoc DEF SetCall
  <2>5. /\ stored' \in [Name -> Slot] /\ stored'[n] = work[p].doc
        /\ stored'[Default] # None /\ \A m \in Name \ {n} : stored'[m] = stored[m]
    BY <1>2, <2>1, <2>4, PolicyAssumption DEF IInv, TypeInv, Slot
  <2>6. TypeInv'
    BY <2>1, <2>3, <2>5 DEF IInv, TypeInv
  <2>7. Keeps(p)
    BY <1>1, <1>2, <2>2, <2>3 DEF Keeps, Touches, Writes
  <2>8. MetInv'
    BY <1>1, <2>1, <2>3, <2>7, MetStep DEF IInv
  <2>9. StageOK(p)' /\ Late(work'[p]) /\ n \in work'[p].names
    BY <2>2, <2>3, <2>5 DEF StageOK, At, Late
  <2>10. DataInv'
    BY <1>1, <2>1, <2>2, <2>3, <2>5, <2>9, <1>0, WriterData DEF IInv
  <2>11. QED
    BY <2>6, <2>8, <2>10 DEF IInv
<1>5. QED
  BY <1>3, <1>4

LEMMA SetTypeStep ==
  ASSUME IInv, NEW p \in Writers, SetType(p)
  PROVE  IInv'
<1>0. PICK n : n = Name1(p)
  OBVIOUS
<1> DEFINE v == [work[p] EXCEPT !.at = "insert"]
<1>1. p \in Proc /\ Writes(work[p]) /\ At(p, "type")
  BY DEF SetType, At, Writes, Proc
<1>2. work[p] \in SetCall /\ n \in Name /\ work[p].names = {n} /\ Touches(work[p]) = {n}
  BY <1>0, <1>1, WriterCall DEF IInv, At
<1>3. typed' = typed \cup {n} /\ Step(p, v) /\ UNCHANGED <<stored, cache, clean, ops, faults>>
  BY <1>2 DEF SetType
<1>4. v \in SetCall /\ v.at = "insert" /\ v.names = {n} /\ v.doc = work[p].doc
      /\ v.alone = work[p].alone
  BY <1>2, SetCallMoves
<1>5. /\ work' \in [Proc -> Call] /\ \A q \in Proc : CallOK(q)'
      /\ work'[p] = v /\ \A q \in Proc \ {p} : work'[q] = work[q]
  BY <1>1, <1>3, <1>4, StepTyped DEF Fits, IInv
<1>6. TypeInv'
  BY <1>2, <1>3, <1>5 DEF IInv, TypeInv
<1>7. Keeps(p)
  BY <1>1, <1>2, <1>4, <1>5 DEF Keeps, Touches, Writes
<1>8. MetInv'
  BY <1>1, <1>3, <1>5, <1>7, MetStep DEF IInv
<1>9. StageOK(p)' /\ Late(work'[p]) /\ n \in work'[p].names
  <2>1. work[p].alone => stored[n] = work[p].doc
    BY <1>1, <1>2 DEF IInv, DataInv, StageOK
  <2>2. QED
    BY <2>1, <1>3, <1>4, <1>5 DEF StageOK, At, Late
<1>10. DataInv'
  BY <1>1, <1>3, <1>4, <1>5, <1>9, <1>0, WriterData DEF IInv
<1>11. QED
  BY <1>6, <1>8, <1>10 DEF IInv

LEMMA InsertStep ==
  ASSUME IInv, NEW p \in Writers, Insert(p)
  PROVE  IInv'
<1>0. PICK n : n = Name1(p)
  OBVIOUS
<1>1. p \in Proc /\ Writes(work[p]) /\ At(p, "insert")
  BY DEF Insert, At, Writes, Proc
<1>2. work[p] \in SetCall /\ n \in Name /\ work[p].names = {n} /\ Touches(work[p]) = {n}
  BY <1>0, <1>1, WriterCall DEF IInv, At
<1>3. /\ cache' \in Inserted(n, work[p].doc) /\ clean' = Cleaned(p) /\ Step(p, Idle)
      /\ UNCHANGED <<stored, typed, ops, faults>>
  BY <1>0 DEF Insert
<1>4. /\ work' \in [Proc -> Call] /\ \A q \in Proc : CallOK(q)'
      /\ work'[p] = Idle /\ \A q \in Proc \ {p} : work'[q] = work[q]
  BY <1>1, <1>3, StepTyped DEF Fits, IInv
<1>5. work[p].doc \in Slot /\ work[p].doc # None
  BY <1>2, NoneIsNoDoc DEF SetCall, Slot
<1>6. /\ cache' \in [Name -> Slot] /\ \A m \in Name \ {n} : cache'[m] = cache[m]
      /\ cache'[n] \in {None, work[p].doc}
  BY <1>2, <1>3, <1>5 DEF Inserted, IInv, TypeInv
<1>7. clean' \subseteq Name
  BY <1>2, <1>3 DEF Cleaned, IInv, TypeInv
<1>8. TypeInv'
  BY <1>3, <1>4, <1>6, <1>7 DEF IInv, TypeInv
<1>9. Touches(work'[p]) = {} /\ StageOK(p)' /\ work'[p].at = "idle"
  BY <1>4 DEF Touches, Idle, StageOK, Writes
<1>10. MetInv'
  BY <1>1, <1>3, <1>4, <1>9, MetStep DEF IInv
<1>11. n \in clean' => Agree(n)'
  <2>1. n \in clean' => work[p].alone
    BY <1>1, <1>2, <1>3 DEF Cleaned, IInv, MetInv, WriterAlone
  <2>2. work[p].alone => stored[n] = work[p].doc /\ n \in typed
    BY <1>1, <1>2 DEF IInv, DataInv, StageOK
  <2>3. QED
    BY <2>1, <2>2, <1>3, <1>5, <1>6 DEF Agree
<1>12. DataInv'
  BY <1>1, <1>3, <1>4, <1>6, <1>9, <1>11, <1>0, WriterData DEF IInv
<1>13. QED
  BY <1>8, <1>10, <1>12 DEF IInv

LEMMA EraseStep ==
  ASSUME IInv, NEW p \in Writers, Erase(p)
  PROVE  IInv'
<1>0. PICK n : n = Name1(p)
  OBVIOUS
<1> DEFINE v == [work[p] EXCEPT !.at = "uncache"]
<1>1. p \in Proc /\ Writes(work[p]) /\ At(p, "erase") /\ ~Late(work[p])
  BY DEF Erase, At, Writes, Proc, Late
<1>2. work[p] \in DeleteCall /\ n \in Name /\ work[p].names = {n} /\ Touches(work[p]) = {n}
      /\ n # Default
  BY <1>0, <1>1, WriterCall DEF IInv, At
<1>3. CASE Fail(p)
  <2>1. Step(p, Idle) /\ UNCHANGED <<stored, cache, typed, clean, ops>>
    BY <1>3 DEF Fail
  <2>2. faults' \in 0..MaxFaults
    BY <1>3, BoundAssumption DEF Fail, IInv, TypeInv
  <2>3. QED
    BY <1>1, <2>1, <2>2, EndsQuietly
<1>4. CASE ~Fail(p)
  <2>1. /\ stored' = [stored EXCEPT ![n] = None] /\ Step(p, v)
        /\ UNCHANGED <<cache, typed, clean, ops, faults>>
    BY <1>0, <1>4 DEF Erase
  <2>2. v \in DeleteCall /\ v.at = "uncache" /\ v.names = {n} /\ v.alone = work[p].alone
    BY <1>2, DeleteCallMoves
  <2>3. /\ work' \in [Proc -> Call] /\ \A q \in Proc : CallOK(q)'
        /\ work'[p] = v /\ \A q \in Proc \ {p} : work'[q] = work[q]
    BY <1>1, <2>1, <2>2, StepTyped DEF Fits, IInv
  <2>4. /\ stored' \in [Name -> Slot] /\ stored'[n] = None
        /\ stored'[Default] # None /\ \A m \in Name \ {n} : stored'[m] = stored[m]
    BY <1>2, <2>1, PolicyAssumption DEF IInv, TypeInv, Slot
  <2>5. TypeInv'
    BY <2>1, <2>3, <2>4 DEF IInv, TypeInv
  <2>6. Keeps(p)
    BY <1>1, <1>2, <2>2, <2>3 DEF Keeps, Touches, Writes
  <2>7. MetInv'
    BY <1>1, <2>1, <2>3, <2>6, MetStep DEF IInv
  <2>8. StageOK(p)' /\ Late(work'[p]) /\ n \in work'[p].names
    BY <2>2, <2>3, <2>4 DEF StageOK, At, Late
  <2>9. DataInv'
    BY <1>1, <2>1, <2>2, <2>3, <2>4, <2>8, <1>0, WriterData DEF IInv
  <2>10. QED
    BY <2>5, <2>7, <2>9 DEF IInv
<1>5. QED
  BY <1>3, <1>4

LEMMA UncacheStep ==
  ASSUME IInv, NEW p \in Writers, Uncache(p)
  PROVE  IInv'
<1>0. PICK n : n = Name1(p)
  OBVIOUS
<1> DEFINE v == [work[p] EXCEPT !.at = "untype"]
<1>1. p \in Proc /\ Writes(work[p]) /\ At(p, "uncache")
  BY DEF Uncache, At, Writes, Proc
<1>2. work[p] \in DeleteCall /\ n \in Name /\ work[p].names = {n} /\ Touches(work[p]) = {n}
  BY <1>0, <1>1, WriterCall DEF IInv, At
<1>3. /\ cache' = [cache EXCEPT ![n] = None] /\ Step(p, v)
      /\ UNCHANGED <<stored, typed, clean, ops, faults>>
  BY <1>0 DEF Uncache
<1>4. v \in DeleteCall /\ v.at = "untype" /\ v.names = {n} /\ v.alone = work[p].alone
  BY <1>2, DeleteCallMoves
<1>5. /\ work' \in [Proc -> Call] /\ \A q \in Proc : CallOK(q)'
      /\ work'[p] = v /\ \A q \in Proc \ {p} : work'[q] = work[q]
  BY <1>1, <1>3, <1>4, StepTyped DEF Fits, IInv
<1>6. /\ cache' \in [Name -> Slot] /\ cache'[n] = None
      /\ \A m \in Name \ {n} : cache'[m] = cache[m]
  BY <1>2, <1>3 DEF IInv, TypeInv, Slot
<1>7. TypeInv'
  BY <1>3, <1>5, <1>6 DEF IInv, TypeInv
<1>8. Keeps(p)
  BY <1>1, <1>2, <1>4, <1>5 DEF Keeps, Touches, Writes
<1>9. MetInv'
  BY <1>1, <1>3, <1>5, <1>8, MetStep DEF IInv
<1>10. StageOK(p)' /\ Late(work'[p]) /\ n \in work'[p].names
  <2>1. work[p].alone => stored[n] = None
    BY <1>1, <1>2 DEF IInv, DataInv, StageOK
  <2>2. QED
    BY <2>1, <1>3, <1>4, <1>5, <1>6 DEF StageOK, At, Late
<1>11. DataInv'
  BY <1>1, <1>3, <1>4, <1>5, <1>6, <1>10, <1>0, WriterData DEF IInv
<1>12. QED
  BY <1>7, <1>9, <1>11 DEF IInv

LEMMA UntypeStep ==
  ASSUME IInv, NEW p \in Writers, Untype(p)
  PROVE  IInv'
<1>0. PICK n : n = Name1(p)
  OBVIOUS
<1>1. p \in Proc /\ Writes(work[p]) /\ At(p, "untype")
  BY DEF Untype, At, Writes, Proc
<1>2. n \in Name /\ work[p].names = {n} /\ Touches(work[p]) = {n}
  BY <1>0, <1>1, WriterCall DEF IInv
<1>3. /\ typed' = typed \ {n} /\ clean' = Cleaned(p) /\ Step(p, Idle)
      /\ UNCHANGED <<stored, cache, ops, faults>>
  BY <1>2 DEF Untype
<1>4. /\ work' \in [Proc -> Call] /\ \A q \in Proc : CallOK(q)'
      /\ work'[p] = Idle /\ \A q \in Proc \ {p} : work'[q] = work[q]
  BY <1>1, <1>3, StepTyped DEF Fits, IInv
<1>5. clean' \subseteq Name
  BY <1>2, <1>3 DEF Cleaned, IInv, TypeInv
<1>6. TypeInv'
  BY <1>3, <1>4, <1>5 DEF IInv, TypeInv
<1>7. Touches(work'[p]) = {} /\ StageOK(p)' /\ work'[p].at = "idle"
  BY <1>4 DEF Touches, Idle, StageOK, Writes
<1>8. MetInv'
  BY <1>1, <1>3, <1>4, <1>7, MetStep DEF IInv
<1>9. n \in clean' => Agree(n)'
  <2>1. n \in clean' => work[p].alone
    BY <1>1, <1>2, <1>3 DEF Cleaned, IInv, MetInv, WriterAlone
  <2>2. work[p].alone => stored[n] = None /\ cache[n] = None
    BY <1>1, <1>2 DEF IInv, DataInv, StageOK
  <2>3. QED
    BY <2>1, <2>2, <1>3 DEF Agree
<1>10. DataInv'
  BY <1>1, <1>3, <1>4, <1>7, <1>9, <1>0, WriterData DEF IInv
<1>11. QED
  BY <1>6, <1>8, <1>10 DEF IInv
-----------------------------------------------------------------------------
(* A call begins.                                                           *)

(* A call that is met is not alone any more, and is otherwise as it was. *)
LEMMA MetCall ==
  ASSUME TypeInv, NEW q \in Proc, Busy(q)
  PROVE  LET u == [work[q] EXCEPT !.alone = FALSE]
         IN /\ Fits(q, u) /\ u.at = work[q].at /\ u.names = work[q].names /\ ~u.alone
            /\ work[q] \in SetCall => u.doc = work[q].doc
            /\ work[q] \in CheckCall => u.doc = work[q].doc /\ u.todo = work[q].todo
<1> DEFINE u == [work[q] EXCEPT !.alone = FALSE]
<1>1. work[q] # Idle /\ CallOK(q)
  BY DEF Busy, Idle, TypeInv
<1>2. CASE q \in Writers /\ work[q] \in SetCall
  BY <1>2 DEF Fits, SetCall, CheckCall
<1>3. CASE q \in Writers /\ work[q] \in DeleteCall
  BY <1>3 DEF Fits, DeleteCall, SetCall, CheckCall
<1>4. CASE q \in Checkers /\ work[q] \in CheckCall /\ CheckOK(work[q])
  <2>1. /\ u \in CheckCall /\ u.at = work[q].at /\ u.names = work[q].names /\ ~u.alone
        /\ u.doc = work[q].doc /\ u.todo = work[q].todo /\ u.found = work[q].found
        /\ u.token = work[q].token /\ u.answer = work[q].answer
        /\ u.request = work[q].request
    BY <1>4 DEF CheckCall
  <2>2. CheckOK(u)
    BY <1>4, <2>1 DEF CheckOK
  <2>3. QED
    BY <1>4, <2>1, <2>2 DEF Fits, SetCall, CheckCall
<1>5. QED
  BY <1>1, <1>2, <1>3, <1>4 DEF CallOK

LEMMA BeginStep ==
  ASSUME IInv, NEW p \in Proc, NEW w, Begin(p, w),
         w.at \in {"put", "erase", "look"},
         Writes(w) => \E n \in Name : w.names = {n},
         \A b \in BOOLEAN :
           LET v == [w EXCEPT !.alone = b]
           IN Fits(p, v) /\ v.at = w.at /\ v.names = w.names /\ v.alone = b
  PROVE  IInv'
<1> DEFINE met(q) == Busy(q) /\ (Writes(w) \/ Writes(work[q])) /\ w.names \cap work[q].names # {}
           others == {q \in Proc : met(q)}
           b == others = {} /\ (Writes(w) \/ w.names \subseteq clean)
           v == [w EXCEPT !.alone = b]
<1>1. /\ ops < MaxOps /\ ops' = ops + 1 /\ ~Busy(p)
      /\ UNCHANGED <<stored, cache, typed, faults>>
  BY DEF Begin
<1>2. clean' = clean \ UNION {w.names \cap work[q].names : q \in others}
  BY DEF Begin
<1>3. work' = [q \in Proc |->
          IF q = p THEN v
          ELSE IF ~Busy(q) THEN Idle
          ELSE IF met(q) THEN [work[q] EXCEPT !.alone = FALSE]
          ELSE work[q]]
  BY DEF Begin
<1>4. /\ Fits(p, v) /\ v.at = w.at /\ v.names = w.names /\ v.alone = b
      /\ work'[p] = v
  <2>1. b \in BOOLEAN
    OBVIOUS
  <2> HIDE DEF b
  <2>2. Fits(p, v) /\ v.at = w.at /\ v.names = w.names /\ v.alone = b
    BY <2>1
  <2>3. QED
    BY <1>3, <2>2
<1>5. /\ clean' \subseteq clean
      /\ \A q \in Proc : met(q) => \A n \in w.names \cap work[q].names : n \notin clean'
  BY <1>2
<1>6. Touches(v) = w.names /\ Writes(v) = Writes(w) /\ ~Late(v)
      /\ v.at \notin {"retype", "fill"}
  BY <1>4 DEF Touches, Writes, Late
<1>7. /\ v.alone => others = {}
      /\ Writes(w) /\ others = {} => v.alone
  BY <1>4
<1> HIDE DEF v, others, met, b
(* The call of another process. *)
<1>8. ASSUME NEW q \in Proc \ {p}
      PROVE  /\ Fits(q, work'[q])
             /\ Touches(work'[q]) = Touches(work[q]) /\ Writes(work'[q]) = Writes(work[q])
             /\ Late(work'[q]) = Late(work[q])
             /\ Busy(q) => /\ work'[q].at = work[q].at /\ work'[q].names = work[q].names
                           /\ work'[q].alone => work[q].alone /\ ~met(q)
                           /\ ~met(q) => work'[q] = work[q]
                           /\ work[q] \in SetCall => work'[q].doc = work[q].doc
                           /\ work[q] \in CheckCall =>
                                work'[q].doc = work[q].doc /\ work'[q].todo = work[q].todo
             /\ ~Busy(q) => work'[q] = Idle
  <2>1. CASE ~Busy(q)
    <3>1. work'[q] = Idle
      BY <1>3, <2>1
    <3>2. QED
      BY <2>1, <3>1 DEF Busy, Idle, Fits, Touches, Writes, Late
  <2>2. CASE Busy(q) /\ ~met(q)
    <3>1. work'[q] = work[q]
      BY <1>3, <2>2
    <3>2. Fits(q, work[q])
      BY DEF IInv, TypeInv, CallOK, Fits
    <3>3. QED
      BY <2>2, <3>1, <3>2
  <2>3. CASE Busy(q) /\ met(q)
    <3>1. work'[q] = [work[q] EXCEPT !.alone = FALSE]
      BY <1>3, <2>3
    <3>2. /\ Fits(q, work'[q]) /\ work'[q].at = work[q].at /\ work'[q].names = work[q].names
          /\ ~work'[q].alone
          /\ work[q] \in SetCall => work'[q].doc = work[q].doc
          /\ work[q] \in CheckCall =>
               work'[q].doc = work[q].doc /\ work'[q].todo = work[q].todo
      BY <2>3, <3>1, MetCall DEF IInv
    <3>3. QED
      BY <2>3, <3>2 DEF Touches, Writes, Late
  <2>4. QED
    BY <2>1, <2>2, <2>3
<1>9. TypeInv'
  <2>1. \A q \in Proc : Fits(q, work'[q])
    BY <1>4, <1>8
  <2>2. \A q \in Proc : CallOK(q)' /\ work'[q] \in Call
    BY <2>1 DEF Fits, CallOK, Call
  <2>3. work' \in [Proc -> Call]
    BY <1>3, <2>2
  <2>4. ops' \in 0..MaxOps
    BY <1>1, BoundAssumption DEF IInv, TypeInv
  <2>5. QED
    BY <1>1, <1>5, <2>2, <2>3, <2>4 DEF IInv, TypeInv
(* Whom the new call meets. *)
<1>10. ASSUME NEW q \in Proc \ {p}, NEW n \in Touches(v), n \in Touches(work[q]),
              Writes(w) \/ Writes(work[q])
       PROVE  met(q) /\ n \notin clean' /\ ~v.alone
  <2>1. Busy(q) /\ n \in w.names \cap work[q].names
    BY <1>6, <1>10 DEF Touches, Busy
  <2>2. met(q)
    BY <1>10, <2>1 DEF met
  <2>3. others # {}
    BY <2>2 DEF others
  <2>4. QED
    BY <1>5, <1>7, <2>1, <2>2, <2>3
<1>11. Apart'
  <2> SUFFICES ASSUME NEW q \in Proc, NEW r \in Proc,
                      NEW n \in Touches(work'[q]), n \in Touches(work'[r]), Met(q, r)'
               PROVE  n \notin clean' /\ ~work'[q].alone
    BY DEF Apart
  <2>1. q # r /\ (Writes(work'[q]) \/ Writes(work'[r]))
    BY DEF Met
  <2>2. CASE q = p
    BY <2>1, <2>2, <1>4, <1>6, <1>8, <1>10
  <2>3. CASE r = p
    <3>1. met(q) /\ n \notin clean'
      BY <2>1, <2>3, <1>4, <1>6, <1>8, <1>10
    <3>2. Busy(q)
      BY <3>1 DEF met
    <3>3. QED
      BY <2>1, <2>3, <3>1, <3>2, <1>8
  <2>4. CASE q # p /\ r # p
    <3>1. n \in Touches(work[q]) /\ n \in Touches(work[r]) /\ Met(q, r)
      BY <2>1, <2>4, <1>8 DEF Met
    <3>2. n \notin clean /\ ~work[q].alone
      BY <3>1 DEF IInv, MetInv, Apart
    <3>3. Busy(q)
      BY <3>1 DEF Touches, Busy
    <3>4. QED
      BY <2>4, <3>2, <3>3, <1>5, <1>8
  <2>5. QED
    BY <2>2, <2>3, <2>4
<1>12. WriterAlone'
  <2> SUFFICES ASSUME NEW q \in Proc, Writes(work'[q]), NEW n \in Touches(work'[q]), n \in clean'
               PROVE  work'[q].alone
    BY DEF WriterAlone
  <2>1. CASE q = p
    <3>1. Writes(w) /\ w.names = {n}
      BY <2>1, <1>4, <1>6
    <3>2. \A r \in Proc : ~met(r)
      BY <3>1, <1>5 DEF met
    <3>3. QED
      BY <2>1, <3>1, <3>2, <1>4, <1>7 DEF others
  <2>2. CASE q # p
    <3>1. Writes(work[q]) /\ n \in Touches(work[q]) /\ n \in clean
      BY <2>2, <1>5, <1>8
    <3>2. work[q].alone /\ work[q].names = {n} /\ Busy(q)
      BY <3>1, WriterCall DEF IInv, MetInv, WriterAlone, Writes, Busy
    <3>3. ~met(q)
      BY <3>2, <1>5 DEF met
    <3>4. QED
      BY <2>2, <3>2, <3>3, <1>8
  <2>3. QED
    BY <2>1, <2>2
<1>13. ASSUME NEW q \in Proc PROVE StageOK(q)'
  <2>1. CASE q = p
    BY <2>1, <1>4, <1>6 DEF StageOK, At, Late
  <2>2. CASE q # p
    <3> SUFFICES ASSUME Writes(work'[q]), work'[q].alone
                 PROVE  StageOK(q)'
      BY DEF StageOK
    <3>1. Writes(work[q]) /\ Busy(q)
      BY <2>2, <1>8 DEF Writes, Busy
    <3>2. /\ work[q].alone /\ work'[q].at = work[q].at /\ work'[q].names = work[q].names
          /\ work'[q] = work[q]
      BY <2>2, <3>1, <1>8
    <3>3. StageOK(q)
      BY DEF IInv, DataInv
    <3>4. QED
      BY <3>2, <3>3, <1>1 DEF StageOK, At
  <2>3. QED
    BY <2>1, <2>2
<1>14. ASSUME NEW q \in Proc PROVE FillOK(q)'
  <2>1. CASE q = p
    BY <2>1, <1>4, <1>6 DEF FillOK
  <2>2. CASE q # p
    <3> SUFFICES ASSUME work'[q].at \in {"retype", "fill"} PROVE FillOK(q)'
      BY DEF FillOK
    <3>1. Busy(q) /\ work[q].at = work'[q].at
      BY <2>2, <1>8 DEF Idle
    <3>2. work[q] \in CheckCall
      BY <3>1, CheckerCall DEF IInv
    <3>3. work'[q].doc = work[q].doc /\ work'[q].todo = work[q].todo
      BY <2>2, <3>1, <3>2, <1>8
    <3>4. FillOK(q)
      BY DEF IInv, DataInv
    <3>5. QED
      BY <3>1, <3>3, <3>4, <1>1, <1>5 DEF FillOK
  <2>3. QED
    BY <2>1, <2>2
<1>15. Agreed'
  <2> SUFFICES ASSUME NEW n \in clean', \A q \in Proc : Late(work'[q]) => n \notin work'[q].names
               PROVE  Agree(n)'
    BY DEF Agreed
  <2>1. ASSUME NEW q \in Proc, Late(work[q]) PROVE n \notin work[q].names
    <3>1. Busy(q) /\ q # p
      BY <2>1, <1>1 DEF Late, Busy
    <3>2. QED
      BY <2>1, <3>1, <1>8
  <2>2. Agree(n)
    BY <2>1, <1>5 DEF IInv, DataInv, Agreed
  <2>3. QED
    BY <2>2, <1>1 DEF Agree
<1>16. QED
  BY <1>9, <1>11, <1>12, <1>13, <1>14, <1>15 DEF IInv, MetInv, DataInv

LEMMA SetPolicyStep ==
  ASSUME IInv, NEW p \in Writers, SetPolicy(p)
  PROVE  IInv'
<1>1. PICK n \in Name, d \in Written :
        Begin(p, [at |-> "put", names |-> {n}, doc |-> d, alone |-> TRUE])
  BY DEF SetPolicy
<1> DEFINE w == [at |-> "put", names |-> {n}, doc |-> d, alone |-> TRUE]
<1>2. ASSUME NEW b \in BOOLEAN
      PROVE  LET v == [w EXCEPT !.alone = b]
             IN Fits(p, v) /\ v.at = w.at /\ v.names = w.names /\ v.alone = b
  BY DEF Fits, SetCall, Single
<1>3. w.at = "put" /\ w.names = {n} /\ p \in Proc
  BY DEF Proc
<1>4. Begin(p, w)
  BY <1>1
<1> HIDE DEF w
<1>5. QED
  BY <1>2, <1>3, <1>4, BeginStep

LEMMA DeletePolicyStep ==
  ASSUME IInv, NEW p \in Writers, DeletePolicy(p)
  PROVE  IInv'
<1>1. PICK n \in Name \ {Default} : Begin(p, [at |-> "erase", names |-> {n}, alone |-> TRUE])
  BY DEF DeletePolicy
<1> DEFINE w == [at |-> "erase", names |-> {n}, alone |-> TRUE]
<1>2. ASSUME NEW b \in BOOLEAN
      PROVE  LET v == [w EXCEPT !.alone = b]
             IN Fits(p, v) /\ v.at = w.at /\ v.names = w.names /\ v.alone = b
  BY DEF Fits, DeleteCall
<1>3. w.at = "erase" /\ w.names = {n} /\ p \in Proc
  BY DEF Proc
<1>4. Begin(p, w)
  BY <1>1
<1> HIDE DEF w
<1>5. QED
  BY <1>2, <1>3, <1>4, BeginStep

(* The call of a check, or of a read, of the policies that tok names. *)
NewCheck(tok, names, acl) ==
  [at |-> "look", names |-> names, token |-> tok, todo |-> tok, found |-> <<>>,
   request |-> None, doc |-> None, answer |-> "none", alone |-> TRUE, acl |-> acl]

LEMMA NewCheckStep ==
  ASSUME IInv, NEW p \in Checkers, NEW tok \in Tokens, NEW names \in SUBSET Name,
         NEW acl \in BOOLEAN, \A i \in 1..Len(tok) : tok[i] \in names \cup {"root"},
         Begin(p, NewCheck(tok, names, acl))
  PROVE  IInv'
<1> DEFINE w == NewCheck(tok, names, acl)
<1>1. w.at = "look" /\ ~Writes(w) /\ p \in Proc
  BY DEF NewCheck, Writes, Proc
<1>2. ASSUME NEW b \in BOOLEAN
      PROVE  LET v == [w EXCEPT !.alone = b]
             IN Fits(p, v) /\ v.at = w.at /\ v.names = w.names /\ v.alone = b
  <2> DEFINE v == [w EXCEPT !.alone = b]
  <2>1. tok \in Seq(Item) /\ Len(tok) \in Nat /\ <<>> \in Seq(Doc) /\ Len(<<>>) = 0
    BY TokenIsSeq
  <2>2. v = [at |-> "look", names |-> names, token |-> tok, todo |-> tok, found |-> <<>>,
             request |-> None, doc |-> None, answer |-> "none", alone |-> b, acl |-> acl]
    BY DEF NewCheck
  <2>3. v \in CheckCall
    BY <2>1, <2>2 DEF CheckCall, Slot, Answers
  <2>4. v.at = "look" /\ v.names = names /\ v.alone = b /\ v.todo = tok /\ v.token = tok
        /\ v.found = <<>> /\ v.answer = "none"
    BY <2>2
  <2>5. w.at = "look" /\ w.names = names
    BY DEF NewCheck
  <2> HIDE DEF v
  <2>6. Len(v.found) + Len(v.todo) <= Len(v.token)
    BY <2>1, <2>4
  <2>7. CheckOK(v)
    BY <2>4, <2>6 DEF CheckOK
  <2>8. QED
    BY <2>3, <2>4, <2>5, <2>7 DEF Fits, v
<1>3. Begin(p, w)
  OBVIOUS
<1> HIDE DEF w
<1>4. QED
  BY <1>1, <1>2, <1>3, BeginStep

LEMMA CheckRequestStep ==
  ASSUME IInv, NEW p \in Checkers, CheckRequest(p)
  PROVE  IInv'
<1>1. PICK tok \in Tokens : Begin(p, NewCheck(tok, Range(tok) \ {"root"}, TRUE))
  BY DEF CheckRequest, NewCheck
<1>2. tok \in Seq(Item)
  BY TokenIsSeq
<1>3. /\ Range(tok) \ {"root"} \in SUBSET Name
      /\ \A i \in 1..Len(tok) : tok[i] \in (Range(tok) \ {"root"}) \cup {"root"}
  BY <1>2 DEF Range, Item
<1>4. QED
  BY <1>1, <1>3, NewCheckStep

LEMMA ReadPolicyStep ==
  ASSUME IInv, NEW p \in Checkers, ReadPolicy(p)
  PROVE  IInv'
<1>1. PICK n \in Name : Begin(p, NewCheck(<<n>>, {n}, FALSE))
  BY DEF ReadPolicy, NewCheck
<1>2. <<n>> \in Tokens
  BY DEF Tokens
<1>3. \A i \in 1..Len(<<n>>) : <<n>>[i] \in {n} \cup {"root"}
  OBVIOUS
<1>4. QED
  BY <1>1, <1>2, <1>3, NewCheckStep

-----------------------------------------------------------------------------
(* The steps of a checker.                                                  *)

LEMMA CheckCallFails ==
  ASSUME NEW w \in CheckCall, CheckOK(w)
  PROVE  LET v == [w EXCEPT !.at = "answered", !.answer = "failed"]
         IN v \in CheckCall /\ CheckOK(v) /\ v.at = "answered"
<1> DEFINE v == [w EXCEPT !.at = "answered", !.answer = "failed"]
<1>1. v \in CheckCall /\ v.at = "answered" /\ v.todo = w.todo /\ v.found = w.found
      /\ v.names = w.names /\ v.token = w.token /\ v.answer = "failed"
  BY DEF CheckCall, Answers
<1> HIDE DEF v
<1>2. CheckOK(v)
  BY <1>1 DEF CheckOK
<1>3. QED
  BY <1>1, <1>2 DEF v

(* A step that changes p's call and no more. *)
LEMMA CheckerMoves ==
  ASSUME IInv, NEW p \in Proc, work[p].at \in {"look", "read", "retype", "fill"},
         NEW v, Fits(p, v), Step(p, v),
         \/ v.at \in {"idle", "answered"}
         \/ /\ v.at \in {"look", "read", "retype"}
            /\ v.names = work[p].names /\ v.alone = work[p].alone,
         v.at = "retype" => v.doc = stored[Head(v.todo)],
         UNCHANGED <<stored, cache, typed, clean, ops>>, faults' \in 0..MaxFaults
  PROVE  IInv'
<1>1. /\ work' \in [Proc -> Call] /\ \A q \in Proc : CallOK(q)'
      /\ work'[p] = v /\ \A q \in Proc \ {p} : work'[q] = work[q]
  BY StepTyped DEF IInv
<1>2. TypeInv'
  BY <1>1 DEF IInv, TypeInv
<1>3. ~Writes(work[p]) /\ Touches(work[p]) = work[p].names /\ ~Late(work[p])
  BY CheckerCall DEF IInv, Late
<1>4. Keeps(p) \/ Touches(work'[p]) = {}
  BY <1>1, <1>3 DEF Keeps, Touches, Writes
<1>5. ~Late(work'[p]) /\ FillOK(p)'
  BY <1>1 DEF Late, FillOK
<1>6. MetInv'
  BY <1>1, <1>4, MetStep DEF IInv
<1>7. DataInv'
  BY <1>1, <1>3, <1>5, DataKept DEF IInv
<1>8. QED
  BY <1>2, <1>6, <1>7 DEF IInv

(* What is to be fetched next. *)
LEMMA HeadIsName ==
  ASSUME TypeInv, NEW p \in Proc, work[p].at \in {"look", "read", "retype", "fill"},
         work[p].todo # <<>>, Head(work[p].todo) # "root"
  PROVE  Head(work[p].todo) \in Name /\ Head(work[p].todo) \in work[p].names
<1>1. work[p] \in CheckCall /\ CheckOK(work[p])
  BY CheckerCall
<1>2. work[p].todo \in Seq(Item) /\ Len(work[p].todo) \in Nat
  BY <1>1 DEF CheckCall
<1>3. 1 \in 1..Len(work[p].todo) /\ Head(work[p].todo) = work[p].todo[1]
  BY <1>2
<1>4. QED
  BY <1>1, <1>2, <1>3 DEF CheckOK, Item

(* The head of todo is passed over, or had. *)
LEMMA FetchedStep ==
  ASSUME IInv, NEW p \in Proc, work[p].at \in {"look", "read"}, work[p].todo # <<>>,
         NEW docs \in Seq(Doc), Len(docs) <= 1, Fetched(p, docs),
         UNCHANGED <<stored, cache, typed, clean, ops, faults>>
  PROVE  IInv'
<1> DEFINE v == [work[p] EXCEPT !.at = "look", !.doc = None, !.found = @ \o docs, !.todo = Tail(@)]
<1>1. p \in Checkers /\ work[p] \in CheckCall /\ CheckOK(work[p])
  BY CheckerCall DEF IInv
<1>2. v \in CheckCall /\ CheckOK(v) /\ v.at = "look" /\ v.names = work[p].names
      /\ v.alone = work[p].alone
  BY <1>1, CheckCallFetches
<1>3. Step(p, v)
  BY DEF Fetched
<1> HIDE DEF v
<1>4. Fits(p, v)
  BY <1>1, <1>2 DEF Fits
<1>5. faults' \in 0..MaxFaults
  BY DEF IInv, TypeInv
<1>6. QED
  BY <1>2, <1>3, <1>4, <1>5, CheckerMoves

LEMMA AnswerStep ==
  ASSUME IInv, NEW p \in Proc, work[p].at = "look",
         NEW r \in Request \cup {None}, NEW a \in Answers \ {"none"}, Answer(p, r, a),
         a \in {"allowed", "denied"} => r \in Request,
         UNCHANGED <<stored, cache, typed, clean, ops, faults>>
  PROVE  IInv'
<1> DEFINE v == [work[p] EXCEPT !.at = "answered", !.doc = None, !.request = r, !.answer = a]
<1>1. p \in Checkers /\ work[p] \in CheckCall /\ CheckOK(work[p])
  BY CheckerCall DEF IInv
<1>2. v \in CheckCall /\ CheckOK(v) /\ v.at = "answered"
  BY <1>1, CheckCallAnswers
<1>3. Step(p, v)
  BY DEF Answer
<1> HIDE DEF v
<1>4. Fits(p, v)
  BY <1>1, <1>2 DEF Fits
<1>5. faults' \in 0..MaxFaults
  BY DEF IInv, TypeInv
<1>6. QED
  BY <1>2, <1>3, <1>4, <1>5, CheckerMoves

LEMMA LookStep ==
  ASSUME IInv, NEW p \in Checkers, Look(p)
  PROVE  IInv'
<1> DEFINE n == Head(work[p].todo)
<1>1. /\ p \in Proc /\ work[p].at = "look" /\ work[p].todo # <<>> /\ n # "root"
      /\ UNCHANGED <<stored, cache, typed, clean, ops, faults>>
  BY DEF Look, At, Proc
<1>2. n \in Name
  BY <1>1, HeadIsName DEF IInv
<1>3. CASE Answer(p, None, "error")
  BY <1>1, <1>3, AnswerStep DEF Answers
<1>4. CASE cache[n] # None /\ Fetched(p, <<cache[n]>>)
  <2>1. cache[n] \in Doc
    BY <1>2, <1>4 DEF IInv, TypeInv, Slot
  <2>2. <<cache[n]>> \in Seq(Doc) /\ Len(<<cache[n]>>) <= 1
    BY <2>1
  <2>3. QED
    BY <1>1, <1>4, <2>2, FetchedStep
<1>5. CASE Step(p, [work[p] EXCEPT !.at = "read"])
  <2> DEFINE v == [work[p] EXCEPT !.at = "read"]
  <2>1. p \in Checkers /\ work[p] \in CheckCall /\ CheckOK(work[p])
    BY <1>1, CheckerCall DEF IInv
  <2>2. /\ v \in CheckCall /\ v.at = "read" /\ v.names = work[p].names
        /\ v.alone = work[p].alone /\ v.todo = work[p].todo /\ v.found = work[p].found
        /\ v.token = work[p].token /\ v.answer = work[p].answer
    BY <2>1 DEF CheckCall
  <2>3. n \in work[p].names
    BY <1>1, HeadIsName DEF IInv
  <2>4. Step(p, v)
    BY <1>5
  <2> HIDE DEF v
  <2>5. CheckOK(v)
    BY <1>1, <2>1, <2>2, <2>3 DEF CheckOK
  <2>6. Fits(p, v)
    BY <2>1, <2>2, <2>5 DEF Fits
  <2>7. faults' \in 0..MaxFaults
    BY <1>1 DEF IInv, TypeInv
  <2>8. QED
    BY <1>1, <2>2, <2>4, <2>6, <2>7, CheckerMoves
<1>6. QED
  BY <1>3, <1>4, <1>5 DEF Look

LEMMA LookRootStep ==
  ASSUME IInv, NEW p \in Checkers, LookRoot(p)
  PROVE  IInv'
<1>1. <<>> \in Seq(Doc) /\ Len(<<>>) <= 1
  OBVIOUS
<1>2. QED
  BY <1>1, FetchedStep DEF LookRoot, At, Proc

LEMMA ReadStep ==
  ASSUME IInv, NEW p \in Checkers, Read(p)
  PROVE  IInv'
<1> DEFINE n == Head(work[p].todo)
<1>1. p \in Proc /\ work[p].at = "read"
  BY DEF Read, At, Proc
<1>2. p \in Checkers /\ work[p] \in CheckCall /\ CheckOK(work[p])
  BY <1>1, CheckerCall DEF IInv
<1>3. work[p].todo # <<>> /\ n \in work[p].names /\ n \in Name
  BY <1>1, <1>2 DEF CheckOK, CheckCall
<1>4. n # "root"
  BY <1>3, NoneIsNoDoc
<1>5. CASE Fail(p)
  <2>1. UNCHANGED <<stored, cache, typed, clean, ops>>
    BY <1>5 DEF Fail
  <2>2. faults' \in 0..MaxFaults
    BY <1>5, BoundAssumption DEF Fail, IInv, TypeInv
  <2>3. CASE p \in Writers
    <3>1. Step(p, Idle)
      BY <1>5, <2>3 DEF Fail
    <3>2. Fits(p, Idle) /\ Idle.at = "idle"
      BY DEF Fits, Idle
    <3>3. QED
      BY <1>1, <2>1, <2>2, <3>1, <3>2, CheckerMoves
  <2>4. CASE p \notin Writers
    <3> DEFINE v == [work[p] EXCEPT !.at = "answered", !.answer = "failed"]
    <3>1. Step(p, v)
      BY <1>5, <2>4 DEF Fail
    <3>2. v \in CheckCall /\ CheckOK(v) /\ v.at = "answered"
      BY <1>2, CheckCallFails
    <3> HIDE DEF v
    <3>3. Fits(p, v)
      BY <3>2 DEF Fits
    <3>4. QED
      BY <1>1, <2>1, <2>2, <3>1, <3>2, <3>3, CheckerMoves
  <2>5. QED
    BY <2>3, <2>4
<1>6. CASE ~Fail(p) /\ stored[n] = None
  <2>1. Fetched(p, <<>>) /\ UNCHANGED <<stored, cache, typed, clean, ops, faults>>
    BY <1>6 DEF Read
  <2>2. <<>> \in Seq(Doc) /\ Len(<<>>) <= 1
    OBVIOUS
  <2>3. QED
    BY <1>1, <1>3, <2>1, <2>2, FetchedStep
<1>7. CASE ~Fail(p) /\ stored[n] # None
  <2>0. PICK d : d = stored[n]
    OBVIOUS
  <2> DEFINE v == [work[p] EXCEPT !.at = "retype", !.doc = d]
  <2>1. Step(p, v) /\ UNCHANGED <<stored, cache, typed, clean, ops, faults>>
    BY <1>7, <2>0 DEF Read
  <2>2. d \in Doc /\ d \in Slot
    BY <2>0, <1>3, <1>7 DEF IInv, TypeInv, Slot
  <2>3. v \in CheckCall /\ CheckOK(v) /\ v.at = "retype" /\ v.names = work[p].names
        /\ v.alone = work[p].alone /\ v.todo = work[p].todo /\ v.doc = d
    BY <1>1, <1>2, <1>3, <1>4, <2>2, CheckCallMoves
  <2> HIDE DEF v
  <2>4. Fits(p, v)
    BY <1>2, <2>3 DEF Fits
  <2>5. faults' \in 0..MaxFaults
    BY <2>1 DEF IInv, TypeInv
  <2>6. QED
    BY <1>1, <2>0, <2>1, <2>3, <2>4, <2>5, CheckerMoves
<1>8. QED
  BY <1>5, <1>6, <1>7

LEMMA DecideStep ==
  ASSUME IInv, NEW p \in Checkers, Decide(p)
  PROVE  IInv'
<1>1. p \in Proc /\ work[p].at = "look" /\ UNCHANGED <<stored, cache, typed, clean, ops, faults>>
  BY DEF Decide, At, Proc
<1>2. \A r \in Request : Verdict(work[p], r) \in Answers \ {"none"}
  BY DEF Verdict, Answers
<1>3. CASE work[p].acl
  <2>1. PICK r \in Request : Answer(p, r, Verdict(work[p], r))
    BY <1>3 DEF Decide
  <2>2. QED
    BY <1>1, <1>2, <2>1, AnswerStep
<1>4. CASE ~work[p].acl
  <2>1. PICK a \in {"no policy", "policy"} : Answer(p, None, a)
    BY <1>4 DEF Decide
  <2>2. a \in Answers \ {"none"} /\ a \notin {"allowed", "denied"}
    BY DEF Answers
  <2>3. QED
    BY <1>1, <2>1, <2>2, AnswerStep
<1>5. QED
  BY <1>3, <1>4

(* What a checker that has read n may do to the cache and the type map. *)
LEMMA CheckerData ==
  ASSUME IInv, NEW p \in Proc, work[p].at \in {"retype", "fill"},
         NEW n, n = Head(work[p].todo),
         \A q \in Proc \ {p} : work'[q] = work[q],
         UNCHANGED <<stored, clean>>,
         \A m \in Name \ {n} : cache'[m] = cache[m] /\ (m \in typed' <=> m \in typed),
         cache'[n] \in {cache[n], work[p].doc}, typed \subseteq typed', typed' \subseteq Name,
         ~Late(work'[p]), FillOK(p)'
  PROVE  DataInv'
<1>1. /\ n \in Touches(work[p]) /\ n \in Name /\ work[p].doc \in Doc /\ ~Late(work[p])
      /\ ~Writes(work[p])
  <2>1. work[p] \in CheckCall /\ CheckOK(work[p]) /\ Touches(work[p]) = work[p].names
        /\ ~Writes(work[p])
    BY CheckerCall DEF IInv
  <2>2. QED
    BY <2>1 DEF CheckOK, CheckCall, Late
<1>2. ASSUME NEW q \in Proc PROVE StageOK(q)'
  <2>1. CASE q = p
    BY <2>1 DEF StageOK, At, Late
  <2>2. CASE q # p
    <3> SUFFICES ASSUME Writes(work[q]), work[q].alone, NEW m \in work[q].names
                 PROVE  /\ At(q, "type") => stored[m] = work[q].doc
                        /\ At(q, "insert") => stored[m] = work[q].doc /\ m \in typed'
                        /\ At(q, "uncache") => stored[m] = None
                        /\ At(q, "untype") => stored[m] = None /\ cache'[m] = None
      BY <2>2 DEF StageOK, At, Writes
    <3>1. m \in Touches(work[q]) /\ m \in Name
      BY WriterCall DEF IInv
    <3>2. m # n
      BY <2>2, <3>1, <1>1, MetTwice DEF IInv, MetInv
    <3>3. QED
      BY <3>1, <3>2 DEF IInv, DataInv, StageOK
  <2>3. QED
    BY <2>1, <2>2
<1>3. ASSUME NEW q \in Proc PROVE FillOK(q)'
  BY DEF IInv, DataInv, FillOK
<1>4. Agreed'
  <2> SUFFICES ASSUME NEW m \in clean, \A q \in Proc : Late(work'[q]) => m \notin work'[q].names
               PROVE  Agree(m)'
    BY DEF Agreed
  <2>1. Agree(m) /\ m \in Name
    <3>1. \A q \in Proc : Late(work[q]) => m \notin work[q].names
      BY <1>1
    <3>2. QED
      BY <3>1 DEF IInv, DataInv, Agreed, TypeInv
  <2>2. CASE m # n
    BY <2>1, <2>2 DEF Agree
  <2>3. CASE m = n
    <3>1. work[p].doc = stored[n]
      BY <2>3 DEF IInv, DataInv, FillOK
    <3>2. stored[n] # None
      BY <3>1, <1>1, NoneIsNoDoc
    <3>3. QED
      BY <2>1, <2>3, <3>1, <3>2 DEF Agree
  <2>4. QED
    BY <2>2, <2>3
<1>5. QED
  BY <1>2, <1>3, <1>4 DEF DataInv

LEMMA RetypeStep ==
  ASSUME IInv, NEW p \in Checkers, Retype(p)
  PROVE  IInv'
<1>0. PICK n : n = Head(work[p].todo)
  OBVIOUS
<1> DEFINE v == [work[p] EXCEPT !.at = "fill", !.doc = work[p].doc]
<1>1. /\ p \in Proc /\ work[p].at = "retype" /\ typed' = typed \cup {n}
      /\ Step(p, [work[p] EXCEPT !.at = "fill"])
      /\ UNCHANGED <<stored, cache, clean, ops, faults>>
  BY <1>0 DEF Retype, At, Proc
<1>2. work[p] \in CheckCall /\ CheckOK(work[p]) /\ Touches(work[p]) = work[p].names
      /\ ~Writes(work[p])
  BY <1>1, CheckerCall DEF IInv
<1>3. /\ work[p].todo # <<>> /\ n \in Name /\ n # "root"
      /\ work[p].doc \in Doc /\ work[p].doc \in Slot
  BY <1>0, <1>1, <1>2, NoneIsNoDoc DEF CheckOK, CheckCall, Slot
<1>4. v = [work[p] EXCEPT !.at = "fill"]
  BY <1>2 DEF CheckCall
<1>5. v \in CheckCall /\ CheckOK(v) /\ v.at = "fill" /\ v.names = work[p].names
      /\ v.alone = work[p].alone /\ v.todo = work[p].todo /\ v.doc = work[p].doc
  BY <1>0, <1>1, <1>2, <1>3, CheckCallMoves
<1>6. Step(p, v)
  BY <1>1, <1>4
<1> HIDE DEF v
<1>7. /\ work' \in [Proc -> Call] /\ \A q \in Proc : CallOK(q)'
      /\ work'[p] = v /\ \A q \in Proc \ {p} : work'[q] = work[q]
  BY <1>1, <1>5, <1>6, StepTyped DEF Fits, IInv
<1>8. TypeInv'
  BY <1>1, <1>3, <1>7 DEF IInv, TypeInv
<1>9. Keeps(p)
  BY <1>2, <1>5, <1>7 DEF Keeps, Touches, Writes
<1>10. MetInv'
  BY <1>1, <1>7, <1>9, MetStep DEF IInv
<1>11. ~Late(work'[p]) /\ FillOK(p)'
  BY <1>1, <1>5, <1>7 DEF Late, FillOK, IInv, DataInv
<1>12. DataInv'
  BY <1>0, <1>1, <1>3, <1>7, <1>8, <1>11, CheckerData DEF TypeInv
<1>13. QED
  BY <1>8, <1>10, <1>12 DEF IInv

LEMMA FillStep ==
  ASSUME IInv, NEW p \in Checkers, Fill(p)
  PROVE  IInv'
<1>0. PICK n : n = Head(work[p].todo)
  OBVIOUS
<1> DEFINE docs == <<work[p].doc>>
           v == [work[p] EXCEPT !.at = "look", !.doc = None, !.found = @ \o docs, !.todo = Tail(@)]
<1>1. /\ p \in Proc /\ work[p].at = "fill" /\ cache' \in Inserted(n, work[p].doc)
      /\ Step(p, v) /\ UNCHANGED <<stored, typed, clean, ops, faults>>
  BY <1>0 DEF Fill, Fetched, At, Proc
<1>2. work[p] \in CheckCall /\ CheckOK(work[p]) /\ Touches(work[p]) = work[p].names
      /\ ~Writes(work[p])
  BY <1>1, CheckerCall DEF IInv
<1>3. work[p].todo # <<>> /\ n \in Name /\ work[p].doc \in Doc /\ work[p].doc \in Slot
  BY <1>0, <1>1, <1>2 DEF CheckOK, CheckCall, Slot
<1>4. docs \in Seq(Doc) /\ Len(docs) <= 1
  BY <1>3
<1>5. v \in CheckCall /\ CheckOK(v) /\ v.at = "look" /\ v.names = work[p].names
      /\ v.alone = work[p].alone
  BY <1>1, <1>2, <1>3, <1>4, CheckCallFetches
<1> HIDE DEF v
<1>6. /\ work' \in [Proc -> Call] /\ \A q \in Proc : CallOK(q)'
      /\ work'[p] = v /\ \A q \in Proc \ {p} : work'[q] = work[q]
  BY <1>1, <1>5, StepTyped DEF Fits, IInv
<1>7. /\ cache' \in [Name -> Slot] /\ \A m \in Name \ {n} : cache'[m] = cache[m]
      /\ cache'[n] \in {cache[n], work[p].doc}
  BY <1>1, <1>3 DEF Inserted, IInv, TypeInv
<1>8. TypeInv'
  BY <1>1, <1>6, <1>7 DEF IInv, TypeInv
<1>9. Keeps(p)
  BY <1>1, <1>2, <1>5, <1>6 DEF Keeps, Touches, Writes
<1>10. MetInv'
  BY <1>1, <1>6, <1>9, MetStep DEF IInv
<1>11. ~Late(work'[p]) /\ FillOK(p)'
  BY <1>5, <1>6 DEF Late, FillOK
<1>12. DataInv'
  BY <1>0, <1>1, <1>6, <1>7, <1>8, <1>11, CheckerData DEF TypeInv
<1>13. QED
  BY <1>8, <1>10, <1>12 DEF IInv

-----------------------------------------------------------------------------
(* The cache gives up an entry; the vault starts.                           *)

LEMMA EvictStep ==
  ASSUME IInv, NEW n \in Name, Evict(n)
  PROVE  IInv'
<1>1. /\ cache' = [cache EXCEPT ![n] = None]
      /\ UNCHANGED <<stored, typed, work, clean, ops, faults>>
  BY DEF Evict
<1>2. /\ cache' \in [Name -> Slot]
      /\ \A m \in Name : cache'[m] = cache[m] \/ cache'[m] = None
  BY <1>1 DEF IInv, TypeInv, Slot
<1>3. TypeInv'
  BY <1>1, <1>2 DEF IInv, TypeInv, CallOK
<1>4. MetInv'
  BY <1>1 DEF IInv, MetInv, Apart, Met, WriterAlone
<1>5. ASSUME NEW p \in Proc PROVE StageOK(p)'
  <2>1. StageOK(p)
    BY DEF IInv, DataInv
  <2>2. Writes(work[p]) => work[p].names \subseteq Name
    BY WriterCall DEF IInv
  <2>3. QED
    BY <1>1, <1>2, <2>1, <2>2 DEF StageOK, At
<1>6. ASSUME NEW p \in Proc PROVE FillOK(p)'
  BY <1>1 DEF IInv, DataInv, FillOK
<1>7. Agreed'
  BY <1>1, <1>2 DEF IInv, TypeInv, DataInv, Agreed, Agree
<1>8. QED
  BY <1>3, <1>4, <1>5, <1>6, <1>7 DEF IInv, DataInv

LEMMA WithDefaultHasIt ==
  ASSUME NEW s \in [Name -> Slot]
  PROVE  WithDefault(s) \in [Name -> Slot] /\ WithDefault(s)[Default] # None
BY PolicyAssumption DEF WithDefault, Slot

(* What the caches and types of a start are. *)
LEMMA StartAgrees ==
  ASSUME NEW s \in [Name -> Slot], NEW c \in CachesAtStart(s), NEW t, t = TypesAtStart(s)
  PROVE  /\ c \in [Name -> Slot] /\ t \subseteq Name
         /\ \A n \in Name : c[n] \in {None, s[n]} /\ (n \in t <=> s[n] # None)
BY PolicyAssumption DEF CachesAtStart, TypesAtStart, Slot

LEMMA Initial == Init => IInv
<1> SUFFICES ASSUME Init PROVE IInv
  OBVIOUS
<1>1. PICK s \in [Name -> Slot] : stored = WithDefault(s)
  BY DEF Init
<1>2. stored \in [Name -> Slot] /\ stored[Default] # None
  BY <1>1, WithDefaultHasIt
<1>3. /\ cache \in [Name -> Slot] /\ typed \subseteq Name /\ \A n \in Name : Agree(n)
  BY <1>2, StartAgrees DEF Init, Agree
<1>4. work \in [Proc -> Call] /\ clean = Name /\ \A p \in Proc : work[p] = Idle
  BY DEF Init, Call
<1>5. \A p \in Proc : CallOK(p) /\ Touches(work[p]) = {} /\ StageOK(p) /\ FillOK(p)
                      /\ ~Writes(work[p])
  BY <1>4 DEF CallOK, Touches, StageOK, FillOK, Idle, Writes
<1>6. TypeInv
  BY <1>2, <1>3, <1>4, <1>5, BoundAssumption DEF TypeInv, Init
<1>7. MetInv
  BY <1>5 DEF MetInv, Apart, WriterAlone
<1>8. DataInv
  BY <1>3, <1>4, <1>5 DEF DataInv, Agreed
<1>9. QED
  BY <1>6, <1>7, <1>8 DEF IInv

LEMMA RestartStep ==
  ASSUME IInv, Restart
  PROVE  IInv'
<1>1. /\ faults < MaxFaults /\ faults' = faults + 1 /\ stored' = WithDefault(stored)
      /\ cache' \in CachesAtStart(stored') /\ typed' = TypesAtStart(stored')
      /\ work' = [p \in Proc |-> Idle] /\ clean' = Name /\ ops' = ops
  BY DEF Restart
<1>2. stored' \in [Name -> Slot] /\ stored'[Default] # None
  BY <1>1, WithDefaultHasIt DEF IInv, TypeInv
<1>3. /\ cache' \in [Name -> Slot] /\ typed' \subseteq Name
      /\ \A n \in Name : cache'[n] \in {None, stored'[n]} /\ (n \in typed' <=> stored'[n] # None)
  BY <1>1, <1>2, StartAgrees
<1>4. \A n \in Name : Agree(n)'
  BY <1>3 DEF Agree
<1>5. work' \in [Proc -> Call] /\ \A p \in Proc : work'[p] = Idle
  BY <1>1 DEF Call
<1>6. \A p \in Proc : CallOK(p)' /\ Touches(work'[p]) = {} /\ StageOK(p)' /\ FillOK(p)'
                      /\ ~Writes(work'[p])
  BY <1>5 DEF CallOK, Touches, StageOK, FillOK, Idle, Writes
<1>7. faults' \in 0..MaxFaults /\ ops' \in 0..MaxOps
  BY <1>1, BoundAssumption DEF IInv, TypeInv
<1>8. TypeInv'
  BY <1>1, <1>2, <1>3, <1>5, <1>6, <1>7 DEF TypeInv
<1>9. MetInv'
  BY <1>6 DEF MetInv, Apart, WriterAlone
<1>10. DataInv'
  BY <1>1, <1>4, <1>6 DEF DataInv, Agreed
<1>11. QED
  BY <1>8, <1>9, <1>10 DEF IInv

LEMMA Stutter == IInv /\ UNCHANGED vars => IInv'
<1> SUFFICES ASSUME IInv, UNCHANGED vars PROVE IInv'
  OBVIOUS
<1>1. TypeInv'
  BY DEF vars, IInv, TypeInv, CallOK
<1>2. MetInv'
  BY DEF vars, IInv, MetInv, Apart, Met, WriterAlone
<1>3. DataInv'
  BY DEF vars, IInv, DataInv, StageOK, FillOK, At, Agreed, Agree
<1>4. QED
  BY <1>1, <1>2, <1>3 DEF IInv

LEMMA Inductive == IInv /\ [Next]_vars => IInv'
<1> SUFFICES ASSUME IInv, [Next]_vars PROVE IInv'
  OBVIOUS
<1>1. ASSUME NEW p \in Writers, WriterStep(p) PROVE IInv'
  BY <1>1, SetPolicyStep, PutStep, SetTypeStep, InsertStep, DeletePolicyStep, EraseStep,
     UncacheStep, UntypeStep DEF WriterStep
<1>2. ASSUME NEW p \in Checkers, CheckerStep(p) PROVE IInv'
  BY <1>2, CheckRequestStep, ReadPolicyStep, LookStep, LookRootStep, ReadStep, RetypeStep,
     FillStep, DecideStep DEF CheckerStep
<1>3. ASSUME NEW n \in Name, Evict(n) PROVE IInv'
  BY <1>3, EvictStep
<1>4. CASE Restart
  BY <1>4, RestartStep
<1>5. CASE UNCHANGED vars
  BY <1>5, Stutter
<1>6. QED
  BY <1>1, <1>2, <1>3, <1>4, <1>5 DEF Next

-----------------------------------------------------------------------------
(* What the invariant gives.                                                *)

LEMMA CallsTyped ==
  ASSUME TypeInv, NEW p \in Proc
  PROVE  WorkOK(p)
<1> DEFINE w == work[p]
<1>1. CallOK(p)
  BY DEF TypeInv
<1>2. CASE w = Idle
  BY <1>2 DEF WorkOK
<1>3. CASE p \in Writers /\ w \in SetCall
  <2>1. w.at \in {"put", "type", "insert"} /\ w.doc \in Written /\ \E n \in Name : w.names = {n}
    BY <1>3 DEF SetCall, Single
  <2>2. QED
    BY <1>3, <2>1 DEF WorkOK
<1>4. CASE p \in Writers /\ w \in DeleteCall
  <2>1. w.at \in {"erase", "uncache", "untype"} /\ \E n \in Name \ {Default} : w.names = {n}
    BY <1>4 DEF DeleteCall
  <2>2. QED
    BY <1>4, <2>1 DEF WorkOK
<1>5. CASE p \in Checkers /\ w \in CheckCall /\ CheckOK(w)
  <2>1. /\ w.at \in {"look", "read", "retype", "fill", "answered"}
        /\ w.token \in Tokens /\ w.request \in Request \cup {None} /\ w.found \in Seq(Doc)
    BY <1>5 DEF CheckCall
  <2>2. Range(w.found) \subseteq Doc
    BY <2>1 DEF Range
  <2>3. QED
    BY <1>5, <2>1, <2>2 DEF WorkOK, CheckOK
<1>6. QED
  BY <1>1, <1>2, <1>3, <1>4, <1>5 DEF CallOK

LEMMA Sound == IInv => StoreOK
<1> SUFFICES ASSUME IInv PROVE StoreOK
  OBVIOUS
<1>1. TypeOK
  BY CallsTyped DEF IInv, TypeInv, TypeOK
<1>2. CleanAgrees
  <2> SUFFICES ASSUME NEW n \in clean, \A p \in Proc : n \notin Touches(work[p])
               PROVE  Agree(n)
    BY DEF CleanAgrees, Agree
  <2>1. \A p \in Proc : Late(work[p]) => n \notin work[p].names
    BY DEF Late, Touches
  <2>2. QED
    BY <2>1 DEF IInv, DataInv, Agreed
<1>3. QED
  BY <1>1, <1>2 DEF StoreOK

(* The invariant holds throughout. *)
THEOREM Invariant == Spec => []IInv
BY Initial, Inductive, PTL DEF Spec

(* Storage, cache and type map agree about each name that no call touches   *)
(* and whose last write was alone, however many callers, names and          *)
(* documents there are (policy_store.rs:299-390, 409-442, 489-540).         *)
THEOREM CleanAgreesHolds == Spec => []CleanAgrees
<1>1. IInv => CleanAgrees
  BY Sound DEF StoreOK
<1>2. QED
  BY <1>1, Invariant, PTL

(* The store is well typed and, where nothing is under way, agrees.         *)
THEOREM StoreOKHolds == Spec => []StoreOK
BY Invariant, Sound, PTL

-----------------------------------------------------------------------------
(* The access control list that ACL::new makes of documents.               *)

(* A non-empty set of naturals has a least element.                         *)
LEMMA HasLeast ==
  ASSUME NEW T \in SUBSET Nat, T # {}
  PROVE  \E m \in T : \A x \in T : m <= x
<1>1. PICK m \in T : \A x \in T : <<x, m>> \notin OpToRel(<, Nat)
  BY WFMin, NatLessThanWellFounded, Zenon
<1>2. \A x \in T : ~(x < m)
  BY <1>1, Zenon DEF OpToRel
<1>3. QED
  BY <1>2

(* What holds of 0 and of the successor of each number it holds of.         *)
LEMMA Counting ==
  ASSUME NEW T \in SUBSET Nat, 0 \in T, \A m \in Nat : m \in T => m + 1 \in T
  PROVE  T = Nat
<1>1. SUFFICES ASSUME Nat \ T # {} PROVE FALSE
  OBVIOUS
<1>2. PICK m \in Nat \ T : \A x \in Nat \ T : m <= x
  BY <1>1, HasLeast
<1>3. m # 0 /\ m - 1 \in Nat /\ m - 1 \notin Nat \ T
  BY <1>2
<1>4. (m - 1) + 1 = m
  BY <1>2
<1>5. QED BY <1>2, <1>3, <1>4

(* The loop of ACL::new goes through all documents.                         *)
LEMMA MergedStepwise ==
  ASSUME NEW docs, Len(docs) \in Nat
  PROVE  \E f : /\ ACL(docs) = f[Len(docs)]
                /\ f[0] = [k \in {} |-> {}]
                /\ \A n \in 1..Len(docs) : f[n] = Added(f[n - 1], docs[n])
<1> DEFINE Runs(f, m) ==
      f = [n \in 0..m |-> IF n = 0 THEN [k \in {} |-> {}] ELSE Added(f[n - 1], docs[n])]
           T == {m \in Nat : \E f : Runs(f, m)}
<1>1. 0 \in T
  <2> DEFINE g == [n \in 0..0 |-> [k \in {} |-> {}]]
  <2>1. Runs(g, 0)
    OBVIOUS
  <2>2. QED BY <2>1
<1>2. ASSUME NEW m \in Nat, m \in T PROVE m + 1 \in T
  <2>1. PICK f : Runs(f, m)
    BY <1>2
  <2> DEFINE g == [n \in 0..m + 1 |-> IF n = m + 1 THEN Added(f[m], docs[m + 1]) ELSE f[n]]
  <2>2. /\ f[0] = [k \in {} |-> {}]
        /\ \A n \in 1..m : f[n] = Added(f[n - 1], docs[n])
    BY <2>1
  <2>3. \A n \in 0..m + 1 : n # m + 1 => n \in 0..m
    OBVIOUS
  <2>4. g[0] = [k \in {} |-> {}]
    BY <2>2
  <2>5. \A n \in 1..m + 1 : g[n] = Added(g[n - 1], docs[n])
    <3>1. ASSUME NEW n \in 1..m + 1 PROVE g[n] = Added(g[n - 1], docs[n])
      <4>1. n \in 0..m + 1 /\ n - 1 \in 0..m + 1 /\ n - 1 # m + 1
        OBVIOUS
      <4>2. g[n - 1] = f[n - 1]
        BY <4>1
      <4>3. CASE n = m + 1
        <5>1. n - 1 = m /\ g[n] = Added(f[m], docs[n])
          BY <4>1, <4>3
        <5>2. QED BY <5>1, <4>2
      <4>4. CASE n # m + 1
        <5>1. n \in 1..m /\ g[n] = f[n]
          BY <4>1, <4>4
        <5>2. QED BY <5>1, <4>2, <2>2
      <4>5. QED BY <4>3, <4>4
    <3>2. QED BY <3>1
  <2>6. Runs(g, m + 1)
    <3>1. DOMAIN g = 0..m + 1 /\ g = [n \in 0..m + 1 |-> g[n]]
      OBVIOUS
    <3> HIDE DEF g
    <3>2. \A n \in 0..m + 1 : g[n] = IF n = 0 THEN [k \in {} |-> {}] ELSE Added(g[n - 1], docs[n])
      BY <2>4, <2>5
    <3>3. QED BY <3>1, <3>2
  <2> HIDE DEF g
  <2>7. \E h : Runs(h, m + 1)
    BY <2>6
  <2>8. m + 1 \in Nat
    OBVIOUS
  <2>9. QED BY <2>7, <2>8
<1>3. T = Nat
  <2> HIDE DEF T
  <2>1. T \in SUBSET Nat
    BY DEF T
  <2>2. QED BY <1>1, <1>2, <2>1, Counting
<1> DEFINE f == CHOOSE f : Runs(f, Len(docs))
<1>4. Runs(f, Len(docs))
  <2>1. \E g : Runs(g, Len(docs))
    BY <1>3
  <2> HIDE DEF Runs
  <2>2. QED BY <2>1, Zenon
<1>5. ACL(docs) = f[Len(docs)]
  BY DEF ACL
<1>6. /\ f[0] = [k \in {} |-> {}]
      /\ \A n \in 1..Len(docs) : f[n] = Added(f[n - 1], docs[n])
  <2> HIDE DEF f
  <2>1. QED BY <1>4
<1> HIDE DEF f
<1>7. QED BY <1>5, <1>6

(* The characters of a path are a number.                                   *)
LEMMA SegmentTyped ==
  ASSUME NEW s \in Literal \cup {Plus}
  PROVE  SegmentSize(s) \in Nat
BY SegmentAssumption DEF SegmentSize

PathSet == Seq(Literal \cup {Plus})

LEMMA CharsStepwise ==
  ASSUME NEW path \in PathSet
  PROVE  \E f : /\ Chars(path) = f[Len(path)] /\ f[0] = -1
                /\ \A n \in 1..Len(path) : f[n] = f[n - 1] + SegmentSize(path[n]) + 1
<1> DEFINE Runs(f, m) ==
      f = [n \in 0..m |-> IF n = 0 THEN -1 ELSE f[n - 1] + SegmentSize(path[n]) + 1]
           T == {m \in Nat : \E f : Runs(f, m)}
<1>0. Len(path) \in Nat
  BY DEF PathSet
<1>1. 0 \in T
  <2> DEFINE g == [n \in 0..0 |-> -1]
  <2>1. Runs(g, 0)
    OBVIOUS
  <2>2. QED BY <2>1
<1>2. ASSUME NEW m \in Nat, m \in T PROVE m + 1 \in T
  <2>1. PICK f : Runs(f, m)
    BY <1>2
  <2> DEFINE g == [n \in 0..m + 1 |->
                     IF n = m + 1 THEN f[m] + SegmentSize(path[m + 1]) + 1 ELSE f[n]]
  <2>2. /\ f[0] = -1
        /\ \A n \in 1..m : f[n] = f[n - 1] + SegmentSize(path[n]) + 1
    BY <2>1
  <2>3. \A n \in 0..m + 1 : n # m + 1 => n \in 0..m
    OBVIOUS
  <2>4. g[0] = -1
    BY <2>2
  <2>5. \A n \in 1..m + 1 : g[n] = g[n - 1] + SegmentSize(path[n]) + 1
    <3>1. ASSUME NEW n \in 1..m + 1 PROVE g[n] = g[n - 1] + SegmentSize(path[n]) + 1
      <4>1. n \in 0..m + 1 /\ n - 1 \in 0..m + 1 /\ n - 1 # m + 1
        OBVIOUS
      <4>2. g[n - 1] = f[n - 1]
        BY <4>1
      <4>3. CASE n = m + 1
        <5>1. n - 1 = m /\ g[n] = f[m] + SegmentSize(path[m + 1]) + 1
          BY <4>1, <4>3
        <5>2. QED BY <5>1, <4>2, <4>3
      <4>4. CASE n # m + 1
        <5>1. n \in 1..m /\ g[n] = f[n]
          BY <4>1, <4>4
        <5>2. QED BY <5>1, <4>2, <2>2
      <4>5. QED BY <4>3, <4>4
    <3>2. QED BY <3>1
  <2>6. Runs(g, m + 1)
    <3>1. g = [n \in 0..m + 1 |-> g[n]]
      OBVIOUS
    <3> HIDE DEF g
    <3>2. \A n \in 0..m + 1 : g[n] = IF n = 0 THEN -1 ELSE g[n - 1] + SegmentSize(path[n]) + 1
      BY <2>4, <2>5
    <3>3. QED BY <3>1, <3>2
  <2> HIDE DEF g
  <2>7. (\E h : Runs(h, m + 1)) /\ m + 1 \in Nat
    BY <2>6
  <2>8. QED BY <2>7
<1>3. T = Nat
  <2> HIDE DEF T
  <2>1. T \in SUBSET Nat
    BY DEF T
  <2>2. QED BY <1>1, <1>2, <2>1, Counting
<1> DEFINE f == CHOOSE f : Runs(f, Len(path))
<1>4. Runs(f, Len(path))
  <2>1. \E g : Runs(g, Len(path))
    BY <1>0, <1>3
  <2> HIDE DEF Runs
  <2>2. QED BY <2>1, Zenon
<1>5. Chars(path) = f[Len(path)]
  BY DEF Chars
<1>6. /\ f[0] = -1
      /\ \A n \in 1..Len(path) : f[n] = f[n - 1] + SegmentSize(path[n]) + 1
  <2> HIDE DEF f
  <2>1. QED BY <1>0, <1>4
<1> HIDE DEF f
<1>7. QED BY <1>5, <1>6

LEMMA CharsTyped ==
  ASSUME NEW path \in PathSet
  PROVE  Chars(path) \in Int
<1>1. Len(path) \in Nat /\ \A n \in 1..Len(path) : SegmentSize(path[n]) \in Nat
  BY SegmentTyped DEF PathSet
<1>2. PICK f : /\ Chars(path) = f[Len(path)] /\ f[0] = -1
               /\ \A n \in 1..Len(path) : f[n] = f[n - 1] + SegmentSize(path[n]) + 1
  BY CharsStepwise
<1> DEFINE T == {m \in Nat : m <= Len(path) => f[m] \in Int}
<1>3. 0 \in T
  BY <1>2
<1>4. ASSUME NEW m \in Nat, m \in T PROVE m + 1 \in T
  <2>1. SUFFICES ASSUME m + 1 <= Len(path) PROVE f[m + 1] \in Int
    OBVIOUS
  <2>2. m + 1 \in 1..Len(path) /\ f[m] \in Int /\ (m + 1) - 1 = m
    BY <1>1, <1>4, <2>1
  <2>3. f[m + 1] = f[m] + SegmentSize(path[m + 1]) + 1
    BY <1>2, <2>2
  <2>4. SegmentSize(path[m + 1]) \in Nat
    BY <1>1, <2>2
  <2>5. QED BY <2>2, <2>3, <2>4
<1>5. T = Nat
  <2> HIDE DEF T
  <2>1. T \in SUBSET Nat
    BY DEF T
  <2>2. QED BY <1>3, <1>4, <2>1, Counting
<1>6. QED BY <1>1, <1>2, <1>5

-----------------------------------------------------------------------------
(* What merging does to the parameter lists and capabilities of rules.      *)

LEMMA ParamsMerged ==
  ASSUME NEW f, NEW g
  PROVE  LET h == MergeParams(f, g)
         IN /\ DOMAIN h = DOMAIN f \cup DOMAIN g
            /\ \A k, v : Lists(h, k, v) <=> Lists(f, k, v) \/ Lists(g, k, v)
<1> DEFINE h == MergeParams(f, g)
<1>1. DOMAIN h = DOMAIN f \cup DOMAIN g
  BY DEF MergeParams
<1>2. \A k \in DOMAIN h : h[k] = IF k \notin DOMAIN g THEN f[k]
                                 ELSE IF k \notin DOMAIN f THEN g[k]
                                 ELSE IF f[k] = {} \/ g[k] = {} THEN {} ELSE f[k] \cup g[k]
  BY DEF MergeParams
<1> HIDE DEF h
<1>3. ASSUME NEW k, NEW v PROVE Lists(h, k, v) <=> Lists(f, k, v) \/ Lists(g, k, v)
  <2>1. CASE k \notin DOMAIN f \cup DOMAIN g
    BY <1>1, <2>1 DEF Lists
  <2>2. CASE k \in DOMAIN f /\ k \notin DOMAIN g
    <3>1. h[k] = f[k]
      BY <1>1, <1>2, <2>2
    <3>2. QED BY <1>1, <2>2, <3>1 DEF Lists
  <2>3. CASE k \notin DOMAIN f /\ k \in DOMAIN g
    <3>1. h[k] = g[k]
      BY <1>1, <1>2, <2>3
    <3>2. QED BY <1>1, <2>3, <3>1 DEF Lists
  <2>4. CASE k \in DOMAIN f /\ k \in DOMAIN g
    <3>1. h[k] = IF f[k] = {} \/ g[k] = {} THEN {} ELSE f[k] \cup g[k]
      BY <1>1, <1>2, <2>4
    <3>2. QED BY <1>1, <2>4, <3>1 DEF Lists
  <2>5. QED BY <2>1, <2>2, <2>3, <2>4
<1>4. QED BY <1>1, <1>3 DEF h

(* m is the merge of the permissions ps, in some order. *)
Sums(m, ps) ==
  /\ ps # {}
  /\ IF \E q \in ps : "deny" \in q.caps THEN m.caps = {"deny"}
     ELSE /\ "deny" \notin m.caps
          /\ \A c : c \in m.caps <=> \E q \in ps : c \in q.caps
          /\ \A r : r \in m.required <=> \E q \in ps : r \in q.required
          /\ \A k : k \in DOMAIN m.allowed <=> \E q \in ps : k \in DOMAIN q.allowed
          /\ \A k : k \in DOMAIN m.denied <=> \E q \in ps : k \in DOMAIN q.denied
          /\ \A k, v : Lists(m.allowed, k, v) <=> \E q \in ps : Lists(q.allowed, k, v)
          /\ \A k, v : Lists(m.denied, k, v) <=> \E q \in ps : Lists(q.denied, k, v)

DenyAlone(p) == "deny" \in p.caps => p.caps = {"deny"}

LEMMA SumsOne ==
  ASSUME NEW p, DenyAlone(p)
  PROVE  Sums(p, {p})
<1>1. CASE "deny" \in p.caps
  BY <1>1 DEF Sums, DenyAlone
<1>2. CASE "deny" \notin p.caps
  BY <1>2 DEF Sums
<1>3. QED BY <1>1, <1>2

LEMMA SumsMore ==
  ASSUME NEW m, NEW ps, Sums(m, ps), NEW p, DenyAlone(p)
  PROVE  Sums(Merge(m, p), ps \cup {p})
<1> DEFINE n == Merge(m, p)
<1>0. ps \cup {p} # {}
  OBVIOUS
<1>1. CASE \E q \in ps : "deny" \in q.caps
  <2>1. m.caps = {"deny"}
    BY <1>1 DEF Sums
  <2>2. n = m
    BY <2>1 DEF Merge
  <2>3. QED BY <1>0, <1>1, <2>1, <2>2 DEF Sums
<1>2. CASE (\A q \in ps : "deny" \notin q.caps) /\ "deny" \in p.caps
  <2>1. "deny" \notin m.caps
    BY <1>2 DEF Sums
  <2>2. n.caps = {"deny"}
    BY <1>2, <2>1 DEF Merge
  <2>3. QED BY <1>0, <1>2, <2>2 DEF Sums
<1>3. CASE (\A q \in ps : "deny" \notin q.caps) /\ "deny" \notin p.caps
  <2>1. /\ "deny" \notin m.caps
        /\ \A c : c \in m.caps <=> \E q \in ps : c \in q.caps
        /\ \A r : r \in m.required <=> \E q \in ps : r \in q.required
        /\ \A k : k \in DOMAIN m.allowed <=> \E q \in ps : k \in DOMAIN q.allowed
        /\ \A k : k \in DOMAIN m.denied <=> \E q \in ps : k \in DOMAIN q.denied
        /\ \A k, v : Lists(m.allowed, k, v) <=> \E q \in ps : Lists(q.allowed, k, v)
        /\ \A k, v : Lists(m.denied, k, v) <=> \E q \in ps : Lists(q.denied, k, v)
    BY <1>3, Zenon DEF Sums
  <2>2. /\ n.caps = m.caps \cup p.caps /\ n.required = m.required \cup p.required
        /\ n.allowed = MergeParams(m.allowed, p.allowed)
        /\ n.denied = MergeParams(m.denied, p.denied)
    BY <1>3, <2>1 DEF Merge
  <2> HIDE DEF n
  <2>3. /\ DOMAIN n.allowed = DOMAIN m.allowed \cup DOMAIN p.allowed
        /\ DOMAIN n.denied = DOMAIN m.denied \cup DOMAIN p.denied
    <3>1. /\ DOMAIN MergeParams(m.allowed, p.allowed) = DOMAIN m.allowed \cup DOMAIN p.allowed
          /\ DOMAIN MergeParams(m.denied, p.denied) = DOMAIN m.denied \cup DOMAIN p.denied
      BY ParamsMerged
    <3>2. QED BY <2>2, <3>1
  <2>4. \A k, v : Lists(n.allowed, k, v) <=> Lists(m.allowed, k, v) \/ Lists(p.allowed, k, v)
    BY <2>2, ParamsMerged
  <2>5. \A k, v : Lists(n.denied, k, v) <=> Lists(m.denied, k, v) \/ Lists(p.denied, k, v)
    BY <2>2, ParamsMerged
  <2>6. \A q : q \in ps \cup {p} <=> q \in ps \/ q = p
    OBVIOUS
  <2>7. ~\E q \in ps \cup {p} : "deny" \in q.caps
    BY <1>3
  <2>8. "deny" \notin n.caps
    BY <1>3, <2>1, <2>2
  <2>9. \A c : c \in n.caps <=> \E q \in ps \cup {p} : c \in q.caps
    BY <2>1, <2>2
  <2>10. \A r : r \in n.required <=> \E q \in ps \cup {p} : r \in q.required
    BY <2>1, <2>2
  <2>11. \A k : k \in DOMAIN n.allowed <=> \E q \in ps \cup {p} : k \in DOMAIN q.allowed
    <3>1. \A k : k \in DOMAIN n.allowed <=> k \in DOMAIN m.allowed \/ k \in DOMAIN p.allowed
      BY <2>3
    <3>2. QED BY <2>1, <3>1, <2>6, Zenon
  <2>12. \A k : k \in DOMAIN n.denied <=> \E q \in ps \cup {p} : k \in DOMAIN q.denied
    <3>1. \A k : k \in DOMAIN n.denied <=> k \in DOMAIN m.denied \/ k \in DOMAIN p.denied
      BY <2>3
    <3>2. QED BY <2>1, <3>1, <2>6, Zenon
  <2>13. \A k, v : Lists(n.allowed, k, v) <=> \E q \in ps \cup {p} : Lists(q.allowed, k, v)
    BY <2>1, <2>4, <2>6, Zenon
  <2>14. \A k, v : Lists(n.denied, k, v) <=> \E q \in ps \cup {p} : Lists(q.denied, k, v)
    BY <2>1, <2>5, <2>6, Zenon
  <2>15. QED
    BY <1>0, <2>7, <2>8, <2>9, <2>10, <2>11, <2>12, <2>13, <2>14, Zenon DEF Sums, n
<1>4. QED BY <1>1, <1>2, <1>3

-----------------------------------------------------------------------------
(* What the merged rules say of a key is the sum of what the documents say. *)

Says(ds, k) == {d[k] : d \in {e \in ds : k \in DOMAIN e}}
SumsUp(acl, ds) ==
  /\ DOMAIN acl = UNION {DOMAIN d : d \in ds}
  /\ \A k \in DOMAIN acl : Sums(acl[k], Says(ds, k))

LEMMA AddedSums ==
  ASSUME NEW acl, NEW ds, SumsUp(acl, ds), NEW doc, IsDocument(doc)
  PROVE  SumsUp(Added(acl, doc), ds \cup {doc})
<1> DEFINE new == Added(acl, doc)
           es == ds \cup {doc}
<1>1. DOMAIN new = DOMAIN acl \cup DOMAIN doc
  BY DEF Added
<1>2. \A k \in DOMAIN new : new[k] = IF k \notin DOMAIN doc THEN acl[k]
                                     ELSE IF k \notin DOMAIN acl THEN doc[k]
                                     ELSE Merge(acl[k], doc[k])
  BY DEF Added
<1> HIDE DEF new
<1>3. DOMAIN acl = UNION {DOMAIN d : d \in ds}
  BY DEF SumsUp
<1>4. DOMAIN new = UNION {DOMAIN d : d \in es}
  BY <1>1, <1>3
<1>5. \A k \in DOMAIN doc : DenyAlone(doc[k])
  BY DEF IsDocument, DenyAlone
<1>6. ASSUME NEW k \in DOMAIN new PROVE Sums(new[k], Says(es, k))
  <2>1. CASE k \notin DOMAIN doc
    <3>1. k \in DOMAIN acl /\ new[k] = acl[k]
      BY <1>1, <1>2, <2>1
    <3>2. Says(es, k) = Says(ds, k)
      BY <2>1 DEF Says
    <3>3. QED BY <3>1, <3>2 DEF SumsUp
  <2>2. CASE k \in DOMAIN doc /\ k \notin DOMAIN acl
    <3>1. new[k] = doc[k]
      BY <1>1, <1>2, <2>2
    <3>2. \A d \in ds : k \notin DOMAIN d
      BY <1>3, <2>2
    <3>3. Says(es, k) = {doc[k]}
      BY <2>2, <3>2 DEF Says
    <3>4. QED BY <1>5, <2>2, <3>1, <3>3, SumsOne
  <2>3. CASE k \in DOMAIN doc /\ k \in DOMAIN acl
    <3>1. new[k] = Merge(acl[k], doc[k])
      BY <1>1, <1>2, <2>3
    <3>2. Says(es, k) = Says(ds, k) \cup {doc[k]}
      BY <2>3 DEF Says
    <3>3. Sums(acl[k], Says(ds, k))
      BY <2>3 DEF SumsUp
    <3>4. QED BY <1>5, <2>3, <3>1, <3>2, <3>3, SumsMore
  <2>4. QED BY <2>1, <2>2, <2>3
<1> HIDE DEF es
<1>7. SumsUp(new, es)
  BY <1>4, <1>6 DEF SumsUp
<1>8. QED BY <1>7 DEF new, es

(* The rules that ACL::new merges from documents say of each path what the  *)
(* documents say together, in whatever order they come and however often:   *)
(* a deny anywhere leaves nothing else, without one the capabilities and    *)
(* the parameter lists add up (acl.rs:125-162, policy.rs:500-579).          *)
THEOREM AclSums ==
  ASSUME NEW docs, Len(docs) \in Nat, DOMAIN docs = 1..Len(docs),
         \A i \in DOMAIN docs : IsDocument(docs[i])
  PROVE  SumsUp(ACL(docs), {docs[i] : i \in DOMAIN docs})
<1>1. PICK f : /\ ACL(docs) = f[Len(docs)]
               /\ f[0] = [k \in {} |-> {}]
               /\ \A n \in 1..Len(docs) : f[n] = Added(f[n - 1], docs[n])
  BY MergedStepwise
<1> DEFINE First(n) == {docs[i] : i \in 1..n}
           T == {n \in Nat : n <= Len(docs) => SumsUp(f[n], First(n))}
<1>2. 0 \in T
  <2>1. First(0) = {} /\ DOMAIN f[0] = {}
    BY <1>1
  <2>2. SumsUp(f[0], {})
    BY <2>1 DEF SumsUp
  <2>3. QED BY <2>1, <2>2
<1>3. ASSUME NEW n \in Nat, n \in T PROVE n + 1 \in T
  <2>1. SUFFICES ASSUME n + 1 <= Len(docs) PROVE SumsUp(f[n + 1], First(n + 1))
    OBVIOUS
  <2>2. n + 1 \in 1..Len(docs) /\ n <= Len(docs) /\ (n + 1) - 1 = n
    BY <2>1
  <2>3. f[n + 1] = Added(f[n], docs[n + 1])
    BY <1>1, <2>2
  <2>4. First(n + 1) = First(n) \cup {docs[n + 1]}
    OBVIOUS
  <2>5. SumsUp(f[n], First(n)) /\ IsDocument(docs[n + 1])
    BY <1>3, <2>2
  <2> HIDE DEF First
  <2>6. QED BY <2>3, <2>4, <2>5, AddedSums
<1>4. Len(docs) \in T
  <2> HIDE DEF T
  <2>1. T \in SUBSET Nat
    BY DEF T
  <2>2. T = Nat
    BY <1>2, <1>3, <2>1, Counting
  <2>3. QED BY <2>2
<1>5. SumsUp(f[Len(docs)], First(Len(docs)))
  BY <1>4
<1>6. First(Len(docs)) = {docs[i] : i \in DOMAIN docs}
  OBVIOUS
<1>7. QED BY <1>1, <1>5, <1>6

-----------------------------------------------------------------------------
(* A request is checked against a sum as against its parts.                 *)

Ok(ps, req) ==
  /\ \A q \in ps : "deny" \notin q.caps
  /\ \E q \in ps : q.caps \cap Needed(req.operation) # {}
  /\ req.operation \in {"read", "write"} =>
       /\ \A q \in ps : q.required \subseteq DOMAIN req.data
       /\ \A q \in ps : DOMAIN req.data # {} => "*" \notin DOMAIN q.denied
       /\ \A k \in DOMAIN req.data :
            /\ \A q \in ps : ~Lists(q.denied, k, req.data[k])
            /\ \/ \A q \in ps : DOMAIN q.allowed \subseteq {"*"}
               \/ \E q \in ps : Lists(q.allowed, k, req.data[k])
               \/ /\ \A q \in ps : k \notin DOMAIN q.allowed
                  /\ \E q \in ps : "*" \in DOMAIN q.allowed
Sudo(ps) == \E q \in ps : "sudo" \in q.caps /\ \A r \in ps : "deny" \notin r.caps

LEMMA NoNeedOfDeny ==
  ASSUME NEW op \in Operation \ {"help"}
  PROVE  "deny" \notin Needed(op)
BY DEF Operation, Needed

LEMMA ParamsSum ==
  ASSUME NEW m, NEW ps, Sums(m, ps), \A q \in ps : "deny" \notin q.caps, NEW data
  PROVE  ParamsAllowed(m, data) <=>
           /\ \A q \in ps : q.required \subseteq DOMAIN data
           /\ \A q \in ps : DOMAIN data # {} => "*" \notin DOMAIN q.denied
           /\ \A k \in DOMAIN data :
                /\ \A q \in ps : ~Lists(q.denied, k, data[k])
                /\ \/ \A q \in ps : DOMAIN q.allowed \subseteq {"*"}
                   \/ \E q \in ps : Lists(q.allowed, k, data[k])
                   \/ /\ \A q \in ps : k \notin DOMAIN q.allowed
                      /\ \E q \in ps : "*" \in DOMAIN q.allowed
<1>1. /\ \A r : r \in m.required <=> \E q \in ps : r \in q.required
      /\ \A k : k \in DOMAIN m.allowed <=> \E q \in ps : k \in DOMAIN q.allowed
      /\ \A k : k \in DOMAIN m.denied <=> \E q \in ps : k \in DOMAIN q.denied
      /\ \A k, v : Lists(m.allowed, k, v) <=> \E q \in ps : Lists(q.allowed, k, v)
      /\ \A k, v : Lists(m.denied, k, v) <=> \E q \in ps : Lists(q.denied, k, v)
  BY Zenon DEF Sums
<1>2. \A k, v : Lists(m.allowed, k, v) => k \in DOMAIN m.allowed
  BY DEF Lists
<1>3. m.required \subseteq DOMAIN data <=> \A q \in ps : q.required \subseteq DOMAIN data
  BY <1>1
<1>4. "*" \notin DOMAIN m.denied <=> \A q \in ps : "*" \notin DOMAIN q.denied
  BY <1>1
<1>5. \A k, v : ~Lists(m.denied, k, v) <=> \A q \in ps : ~Lists(q.denied, k, v)
  BY <1>1
<1>6. DOMAIN m.allowed \subseteq {"*"} <=> \A q \in ps : DOMAIN q.allowed \subseteq {"*"}
  BY <1>1
<1>7. \A k, v :
        (IF k \in DOMAIN m.allowed THEN Lists(m.allowed, k, v) ELSE "*" \in DOMAIN m.allowed)
        <=> \/ \E q \in ps : Lists(q.allowed, k, v)
            \/ /\ \A q \in ps : k \notin DOMAIN q.allowed
               /\ \E q \in ps : "*" \in DOMAIN q.allowed
  <2>1. ASSUME NEW k, NEW v
        PROVE  (IF k \in DOMAIN m.allowed THEN Lists(m.allowed, k, v) ELSE "*" \in DOMAIN m.allowed)
               <=> \/ \E q \in ps : Lists(q.allowed, k, v)
                   \/ /\ \A q \in ps : k \notin DOMAIN q.allowed
                      /\ \E q \in ps : "*" \in DOMAIN q.allowed
    <3>1. CASE k \in DOMAIN m.allowed
      BY <1>1, <3>1
    <3>2. CASE k \notin DOMAIN m.allowed
      BY <1>1, <1>2, <3>2
    <3>3. QED BY <3>1, <3>2
  <2>2. QED BY <2>1
<1>8. CASE DOMAIN data = {}
  BY <1>3, <1>8 DEF ParamsAllowed
<1>9. CASE DOMAIN data # {}
  <2>1. ParamsAllowed(m, data) <=>
          /\ \A q \in ps : q.required \subseteq DOMAIN data
          /\ \A q \in ps : "*" \notin DOMAIN q.denied
          /\ \A k \in DOMAIN data : \A q \in ps : ~Lists(q.denied, k, data[k])
          /\ \/ \A q \in ps : DOMAIN q.allowed \subseteq {"*"}
             \/ \A k \in DOMAIN data :
                  \/ \E q \in ps : Lists(q.allowed, k, data[k])
                  \/ /\ \A q \in ps : k \notin DOMAIN q.allowed
                     /\ \E q \in ps : "*" \in DOMAIN q.allowed
    BY <1>3, <1>4, <1>5, <1>6, <1>7, <1>9, Zenon DEF ParamsAllowed
  <2>2. QED BY <1>9, <2>1
<1>10. QED BY <1>8, <1>9

LEMMA CheckSums ==
  ASSUME NEW m, NEW ps, Sums(m, ps), NEW req, req.operation \in Operation \ {"help"}
  PROVE  /\ Check(m, req) <=> Ok(ps, req)
         /\ "sudo" \in m.caps <=> Sudo(ps)
<1>1. CASE \E q \in ps : "deny" \in q.caps
  <2>1. m.caps = {"deny"}
    BY <1>1 DEF Sums
  <2>2. ~Check(m, req)
    BY <2>1, NoNeedOfDeny DEF Check
  <2>3. QED BY <1>1, <2>1, <2>2 DEF Ok, Sudo
<1>2. CASE \A q \in ps : "deny" \notin q.caps
  <2>1. \A c : c \in m.caps <=> \E q \in ps : c \in q.caps
    BY <1>2, Zenon DEF Sums
  <2>2. m.caps \cap Needed(req.operation) # {} <=>
          \E q \in ps : q.caps \cap Needed(req.operation) # {}
    BY <2>1
  <2>3. Check(m, req) <=> Ok(ps, req)
    <3>1. Check(m, req) <=>
            /\ \E q \in ps : q.caps \cap Needed(req.operation) # {}
            /\ req.operation \in {"read", "write"} => ParamsAllowed(m, req.data)
      BY <2>2 DEF Check
    <3> DEFINE data == req.data
    <3>2. ParamsAllowed(m, data) <=>
            /\ \A q \in ps : q.required \subseteq DOMAIN data
            /\ \A q \in ps : DOMAIN data # {} => "*" \notin DOMAIN q.denied
            /\ \A k \in DOMAIN data :
                 /\ \A q \in ps : ~Lists(q.denied, k, data[k])
                 /\ \/ \A q \in ps : DOMAIN q.allowed \subseteq {"*"}
                    \/ \E q \in ps : Lists(q.allowed, k, data[k])
                    \/ /\ \A q \in ps : k \notin DOMAIN q.allowed
                       /\ \E q \in ps : "*" \in DOMAIN q.allowed
      <4> HIDE DEF data
      <4>1. QED BY <1>2, ParamsSum
    <3>3. QED BY <1>2, <3>1, <3>2, Zenon DEF Ok
  <2>4. "sudo" \in m.caps <=> Sudo(ps)
    BY <1>2, <2>1 DEF Sudo
  <2>5. QED BY <2>3, <2>4
<1>3. QED BY <1>1, <1>2

-----------------------------------------------------------------------------
(* One rule decides.                                                        *)

KeySet == [path : PathSet, wild : BOOLEAN, glob : BOOLEAN]

LEMMA FirstWildcardTyped ==
  ASSUME NEW k \in KeySet
  PROVE  FirstWildcard(k) \in Int
<1>1. k.path \in PathSet /\ Len(k.path) \in Nat
  BY DEF KeySet
<1>2. CASE ~k.wild
  BY <1>1, <1>2, CharsTyped DEF FirstWildcard
<1>3. CASE k.wild
  <2> DEFINE at == {i \in 1..Len(k.path) : k.path[i] = Plus}
             i == IF at # {} THEN Min(at) ELSE 0
             start == SubSeq(k.path, 1, i - 1)
  <2>1. FirstWildcard(k) = Chars(start) + 1
    BY <1>3 DEF FirstWildcard, SelectInSeq
  <2>2. i \in 0..Len(k.path)
    <3>1. CASE at = {}
      BY <1>1, <3>1
    <3>2. CASE at # {}
      <4>1. at \in SUBSET Nat
        BY <1>1
      <4>2. \E m \in at : \A x \in at : m <= x
        <5> HIDE DEF at
        <5>1. QED BY <3>2, <4>1, HasLeast
      <4>3. Min(at) \in at
        <5> HIDE DEF at
        <5>1. QED BY <4>2, Zenon DEF Min
      <4>4. QED BY <1>1, <3>2, <4>3
    <3>3. QED BY <3>1, <3>2
  <2> HIDE DEF i
  <2>3. start \in PathSet
    BY <1>1, <2>2, SubSeqProperties DEF PathSet
  <2> HIDE DEF start
  <2>4. Chars(start) \in Int
    BY <2>3, CharsTyped
  <2>5. QED BY <2>1, <2>4
<1>4. QED BY <1>2, <1>3

LEMMA WildcardsTyped ==
  ASSUME NEW k \in KeySet
  PROVE  Wildcards(k) \in Int
<1> DEFINE at == {i \in DOMAIN k.path : k.path[i] = Plus}
<1>1. Len(k.path) \in Nat /\ DOMAIN k.path = 1..Len(k.path)
  BY DEF KeySet
<1>2. IsFiniteSet(1..Len(k.path))
  BY <1>1, FS_Interval
<1>3. IsFiniteSet(at)
  BY <1>1, <1>2, FS_Subset
<1>4. Cardinality(at) \in Nat
  BY <1>3, FS_CardinalityType
<1>5. QED BY <1>4 DEF Wildcards

LEMMA LexAsymmetric ==
  ASSUME NEW p \in PathSet, NEW q \in PathSet,
         LexBefore(p, q), LexBefore(q, p)
  PROVE  FALSE
<1>1. PICK i \in DOMAIN p \cap DOMAIN q :
        p[i] = Plus /\ q[i] # Plus /\ \A j \in 1..i - 1 : p[j] = q[j]
  BY DEF LexBefore
<1>2. PICK m \in DOMAIN q \cap DOMAIN p :
        q[m] = Plus /\ p[m] # Plus /\ \A j \in 1..m - 1 : q[j] = p[j]
  BY DEF LexBefore
<1>3. DOMAIN p = 1..Len(p) /\ Len(p) \in Nat
  OBVIOUS
<1>4. i \in Nat /\ m \in Nat /\ 1 <= i /\ 1 <= m
  BY <1>1, <1>2, <1>3
<1>5. i # m
  BY <1>1, <1>2
<1>6. CASE i < m
  <2>1. i \in 1..m - 1
    BY <1>4, <1>6
  <2>2. QED BY <1>1, <1>2, <2>1
<1>7. CASE m < i
  <2>1. m \in 1..i - 1
    BY <1>4, <1>7
  <2>2. QED BY <1>1, <1>2, <2>1
<1>8. QED BY <1>4, <1>5, <1>6, <1>7

LEMMA BeforeAsymmetric ==
  ASSUME NEW j \in KeySet, NEW k \in KeySet, Before(j, k), Before(k, j)
  PROVE  FALSE
<1>1. /\ FirstWildcard(j) \in Int /\ FirstWildcard(k) \in Int
      /\ Wildcards(j) \in Int /\ Wildcards(k) \in Int
  BY FirstWildcardTyped, WildcardsTyped
<1>2. j.path \in PathSet /\ k.path \in PathSet
  BY DEF KeySet
<1>3. Chars(j.path) \in Int /\ Chars(k.path) \in Int
  BY <1>2, CharsTyped
<1>4. ~(LexBefore(j.path, k.path) /\ LexBefore(k.path, j.path))
  BY <1>2, LexAsymmetric
<1>5. QED BY <1>1, <1>3, <1>4 DEF Before

(* Of the rules of any documents at most one decides a request, so that the *)
(* order in which the hash map is walked does not matter (acl.rs:281-386).  *)
THEOREM AtMostOne ==
  ASSUME NEW keys \in SUBSET KeySet, NEW req,
         NEW j \in Deciding(keys, req), NEW k \in Deciding(keys, req)
  PROVE  j = k
<1>1. CASE Plain(req.path) \in keys
  BY <1>1 DEF Deciding
<1>2. CASE Plain(req.path) \notin keys /\ req.operation = "list" /\ Plain(Trimmed(req.path)) \in keys
  BY <1>2 DEF Deciding
<1>3. CASE Plain(req.path) \notin keys
           /\ ~(req.operation = "list" /\ Plain(Trimmed(req.path)) \in keys)
  <2> DEFINE all == Candidates(keys, req.path)
  <2>1. Deciding(keys, req) = {x \in all : \A y \in all \ {x} : Before(y, x)}
    BY <1>3 DEF Deciding
  <2>2. all \subseteq KeySet
    BY DEF Candidates
  <2> HIDE DEF all
  <2>3. SUFFICES ASSUME j # k PROVE FALSE
    OBVIOUS
  <2>4. j \in all /\ k \in all /\ Before(j, k) /\ Before(k, j)
    BY <2>1, <2>3
  <2>5. j \in KeySet /\ k \in KeySet
    BY <2>2, <2>4
  <2>6. QED BY <2>4, <2>5, BeforeAsymmetric
<1>4. QED BY <1>1, <1>2, <1>3

-----------------------------------------------------------------------------
(* Of the rules that cover a path, any two are in order.                    *)

Begins(path, n) == SubSeq(path, 1, n)

LEMMA BeginsTyped ==
  ASSUME NEW p \in PathSet, NEW n \in 0..Len(p)
  PROVE  /\ Begins(p, n) \in PathSet /\ Len(Begins(p, n)) = n
         /\ \A i \in 1..n : Begins(p, n)[i] = p[i]
<1>1. Len(p) \in Nat /\ \A i \in 1..n : p[i] \in Literal \cup {Plus}
  BY DEF PathSet
<1>2. /\ SubSeq(p, 1, n) \in PathSet
      /\ Len(SubSeq(p, 1, n)) = IF 1 <= n THEN n - 1 + 1 ELSE 0
      /\ \A i \in 1..n - 1 + 1 : SubSeq(p, 1, n)[i] = p[1 + i - 1]
  BY <1>1, SubSeqProperties DEF PathSet
<1> DEFINE b == SubSeq(p, 1, n)
<1> HIDE DEF b
<1>3. Len(b) = n
  BY <1>2, <1>1 DEF b
<1>4. \A i \in 1..n : b[i] = p[i]
  <2>1. \A i \in 1..n : i \in 1..n - 1 + 1 /\ 1 + i - 1 = i
    BY <1>1
  <2>2. QED BY <1>2, <2>1 DEF b
<1>5. QED BY <1>2, <1>3, <1>4 DEF b, Begins

(* Two paths that begin alike begin with as many characters.                *)
LEMMA BeginAlike ==
  ASSUME NEW p \in PathSet, NEW q \in PathSet, NEW n \in Nat, n <= Len(p), n <= Len(q),
         \A i \in 1..n : p[i] = q[i]
  PROVE  Begins(p, n) = Begins(q, n)
<1>0. Len(p) \in Nat /\ Len(q) \in Nat
  BY DEF PathSet
<1>1. n \in 0..Len(p) /\ n \in 0..Len(q)
  BY <1>0
<1> DEFINE a == Begins(p, n)
           b == Begins(q, n)
<1>2. /\ a \in PathSet /\ Len(a) = n /\ \A i \in 1..n : a[i] = p[i]
      /\ b \in PathSet /\ Len(b) = n /\ \A i \in 1..n : b[i] = q[i]
  BY <1>1, BeginsTyped
<1> HIDE DEF a, b
<1>3. \A i \in 1..n : a[i] = b[i]
  BY <1>2
<1>4. a = [i \in 1..n |-> a[i]] /\ b = [i \in 1..n |-> b[i]]
  BY <1>2 DEF PathSet
<1>5. a = b
  BY <1>3, <1>4
<1>6. QED BY <1>5 DEF a, b

LEMMA BeginsAll ==
  ASSUME NEW p \in PathSet
  PROVE  Begins(p, Len(p)) = p
<1>0. Len(p) \in Nat /\ Len(p) \in 0..Len(p)
  BY DEF PathSet
<1> DEFINE a == Begins(p, Len(p))
<1>1. a \in PathSet /\ Len(a) = Len(p) /\ \A i \in 1..Len(p) : a[i] = p[i]
  BY <1>0, BeginsTyped
<1> HIDE DEF a
<1>2. a = [i \in 1..Len(p) |-> a[i]] /\ p = [i \in 1..Len(p) |-> p[i]]
  BY <1>1 DEF PathSet
<1>3. a = p
  BY <1>1, <1>2
<1>4. QED BY <1>3 DEF a

(* Each segment adds its characters and a slash.                            *)
LEMMA CharsNext ==
  ASSUME NEW p \in PathSet, NEW n \in 1..Len(p)
  PROVE  Chars(Begins(p, n)) = Chars(Begins(p, n - 1)) + SegmentSize(p[n]) + 1
<1>0. Len(p) \in Nat /\ n \in 0..Len(p) /\ n - 1 \in 0..Len(p) /\ n \in Nat /\ n - 1 \in Nat
  BY DEF PathSet
<1> DEFINE a == Begins(p, n - 1)
           b == Begins(p, n)
<1>1. /\ a \in PathSet /\ Len(a) = n - 1 /\ \A i \in 1..n - 1 : a[i] = p[i]
      /\ b \in PathSet /\ Len(b) = n /\ \A i \in 1..n : b[i] = p[i]
  BY <1>0, BeginsTyped
<1> HIDE DEF a, b
<1>a. a \in PathSet /\ Len(a) = n - 1
  BY <1>1
<1>b. b \in PathSet /\ Len(b) = n
  BY <1>1
<1>2. PICK f : /\ Chars(a) = f[n - 1] /\ f[0] = -1
               /\ \A i \in 1..n - 1 : f[i] = f[i - 1] + SegmentSize(a[i]) + 1
  BY <1>a, CharsStepwise
<1>3. PICK g : /\ Chars(b) = g[n] /\ g[0] = -1
               /\ \A i \in 1..n : g[i] = g[i - 1] + SegmentSize(b[i]) + 1
  BY <1>b, CharsStepwise
<1> DEFINE T == {m \in Nat : m <= n - 1 => f[m] = g[m]}
<1>4. 0 \in T
  BY <1>2, <1>3
<1>5. ASSUME NEW m \in Nat, m \in T PROVE m + 1 \in T
  <2>1. SUFFICES ASSUME m + 1 <= n - 1 PROVE f[m + 1] = g[m + 1]
    OBVIOUS
  <2>2. m + 1 \in 1..n - 1 /\ m + 1 \in 1..n /\ (m + 1) - 1 = m /\ f[m] = g[m]
    BY <1>0, <1>5, <2>1
  <2>3. a[m + 1] = b[m + 1]
    BY <1>1, <2>2
  <2>4. f[m + 1] = f[m] + SegmentSize(a[m + 1]) + 1
    BY <1>2, <2>2
  <2>5. g[m + 1] = g[m] + SegmentSize(b[m + 1]) + 1
    BY <1>3, <2>2
  <2>6. QED BY <2>2, <2>3, <2>4, <2>5
<1>6. T = Nat
  <2> HIDE DEF T
  <2>1. T \in SUBSET Nat
    BY DEF T
  <2>2. QED BY <1>4, <1>5, <2>1, Counting
<1>7. f[n - 1] = g[n - 1]
  BY <1>0, <1>6
<1>8. g[n] = g[n - 1] + SegmentSize(b[n]) + 1 /\ b[n] = p[n]
  BY <1>0, <1>1, <1>3
<1>9. Chars(b) = Chars(a) + SegmentSize(p[n]) + 1
  BY <1>2, <1>3, <1>7, <1>8
<1>10. QED BY <1>9 DEF a, b

(* A longer beginning has more characters.                                  *)
LEMMA CharsGrow ==
  ASSUME NEW p \in PathSet, NEW n \in 0..Len(p)
  PROVE  /\ Chars(Begins(p, n)) \in Int
         /\ n # Len(p) => Chars(Begins(p, n)) < Chars(p)
<1>0. Len(p) \in Nat /\ n \in Nat
  BY DEF PathSet
<1>1. \A m \in 0..Len(p) : Chars(Begins(p, m)) \in Int
  BY BeginsTyped, CharsTyped DEF PathSet
<1>2. \A m \in 1..Len(p) : Chars(Begins(p, m - 1)) < Chars(Begins(p, m))
  <2>1. ASSUME NEW m \in 1..Len(p) PROVE Chars(Begins(p, m - 1)) < Chars(Begins(p, m))
    <3>1. m - 1 \in 0..Len(p) /\ SegmentSize(p[m]) \in Nat
      BY <1>0, SegmentTyped DEF PathSet
    <3>2. Chars(Begins(p, m - 1)) \in Int
      BY <1>1, <3>1
    <3>3. QED BY <3>1, <3>2, CharsNext
  <2>2. QED BY <2>1
<1> DEFINE c == [m \in 0..Len(p) |-> Chars(Begins(p, m))]
           T == {m \in Nat : n + 1 + m <= Len(p) => c[n] < c[n + 1 + m]}
<1>3. \A m \in 0..Len(p) : c[m] = Chars(Begins(p, m)) /\ c[m] \in Int
  BY <1>1
<1>4. \A m \in 1..Len(p) : c[m - 1] < c[m]
  <2>1. \A m \in 1..Len(p) : m \in 0..Len(p) /\ m - 1 \in 0..Len(p)
    BY <1>0
  <2>2. QED BY <1>2, <2>1
<1> HIDE DEF c
<1>5. 0 \in T
  <2>1. ASSUME n + 1 <= Len(p) PROVE c[n] < c[n + 1]
    <3>1. n + 1 \in 1..Len(p) /\ (n + 1) - 1 = n
      BY <1>0, <2>1
    <3>2. QED BY <1>4, <3>1
  <2>2. n + 1 + 0 = n + 1
    BY <1>0
  <2>3. QED BY <2>1, <2>2
<1>6. ASSUME NEW m \in Nat, m \in T PROVE m + 1 \in T
  <2>1. SUFFICES ASSUME n + 1 + (m + 1) <= Len(p) PROVE c[n] < c[n + 1 + (m + 1)]
    OBVIOUS
  <2> DEFINE a == n + 1 + m
             b == n + 1 + (m + 1)
  <2>2. b \in 1..Len(p) /\ b - 1 = a /\ a \in 0..Len(p) /\ b \in 0..Len(p)
    BY <1>0, <2>1
  <2>3. c[n] < c[a]
    BY <1>6, <2>2, <1>0
  <2> HIDE DEF a, b
  <2>4. c[a] < c[b]
    BY <1>4, <2>2
  <2>5. c[n] \in Int /\ c[a] \in Int /\ c[b] \in Int
    BY <1>3, <2>2
  <2>6. c[n] < c[b]
    BY <2>3, <2>4, <2>5
  <2>7. QED BY <2>6 DEF b
<1>7. T = Nat
  <2> HIDE DEF T
  <2>1. T \in SUBSET Nat
    BY DEF T
  <2>2. QED BY <1>5, <1>6, <2>1, Counting
<1>8. ASSUME n # Len(p) PROVE Chars(Begins(p, n)) < Chars(p)
  <2> DEFINE m == Len(p) - n - 1
  <2>1. m \in Nat /\ n + 1 + m = Len(p) /\ Len(p) <= Len(p)
    BY <1>0, <1>8
  <2> HIDE DEF m
  <2>a. m \in T
    BY <1>7, <2>1
  <2>2. c[n] < c[Len(p)]
    BY <2>1, <2>a
  <2>3. c[n] = Chars(Begins(p, n)) /\ c[Len(p)] = Chars(p)
    BY <1>0, <1>3, BeginsAll
  <2>4. QED BY <2>2, <2>3
<1>9. QED BY <1>1, <1>8

LEMMA SamePath ==
  ASSUME NEW p \in PathSet, NEW q \in PathSet, Len(p) <= Len(q),
         \A i \in 1..Len(p) : p[i] = q[i], Chars(p) = Chars(q)
  PROVE  p = q
<1>1. Len(p) \in Nat /\ Len(q) \in Nat
  BY DEF PathSet
<1>2. Begins(q, Len(p)) = p
  <2>1. Begins(p, Len(p)) = Begins(q, Len(p))
    BY <1>1, BeginAlike
  <2>2. QED BY <2>1, BeginsAll
<1>3. Len(p) = Len(q)
  <2>1. Len(p) \in 0..Len(q) /\ Chars(p) \in Int
    BY <1>1, CharsTyped DEF PathSet
  <2>2. Len(p) # Len(q) => Chars(p) < Chars(q)
    BY <1>2, <2>1, CharsGrow
  <2>3. QED BY <2>1, <2>2
<1>4. QED BY <1>2, <1>3, BeginsAll

(* Where p ends with a prefix of a segment, q has no more of that segment.  *)
LEMMA PrefixEnds ==
  ASSUME NEW p \in PathSet, NEW q \in PathSet, Chars(p) = Chars(q),
         NEW i \in 1..Len(p), i \in 1..Len(q), \A m \in 1..i - 1 : p[m] = q[m],
         p[i] \in Literal, q[i] \in Literal, NEW s \in Literal,
         i = Len(p), <<s, p[i]>> \in StartsWith,
         q[i] = s \/ (i = Len(q) /\ <<s, q[i]>> \in StartsWith)
  PROVE  p[i] = q[i]
<1>0. /\ Len(p) \in Nat /\ Len(q) \in Nat /\ i - 1 \in Nat /\ i - 1 \in 0..Len(p)
      /\ i \in 0..Len(q) /\ i - 1 <= Len(p) /\ i - 1 <= Len(q)
  BY DEF PathSet
<1> DEFINE b == Chars(Begins(p, i - 1))
           c == Chars(Begins(q, i))
           x == Size[p[i]]
           y == Size[q[i]]
<1>1. b \in Int /\ x \in Nat /\ y \in Nat
  BY <1>0, CharsGrow, SegmentAssumption
<1>2. SegmentSize(p[i]) = x /\ SegmentSize(q[i]) = y
  BY SegmentAssumption DEF SegmentSize
<1>3. Chars(p) = b + x + 1
  <2>1. Begins(p, i) = p
    BY BeginsAll
  <2>2. Chars(Begins(p, i)) = b + SegmentSize(p[i]) + 1
    BY CharsNext
  <2>3. QED BY <1>2, <2>1, <2>2
<1>4. c = b + y + 1
  <2>1. Begins(p, i - 1) = Begins(q, i - 1)
    BY <1>0, BeginAlike
  <2>2. c = Chars(Begins(q, i - 1)) + SegmentSize(q[i]) + 1
    BY CharsNext
  <2>3. QED BY <1>2, <2>1, <2>2
<1>5. i # Len(q) => c < Chars(q)
  BY <1>0, CharsGrow
<1>6. i = Len(q) => c = Chars(q)
  BY BeginsAll
<1> HIDE DEF b, c
<1>7. CASE i = Len(q)
  <2>1. x = y
    BY <1>1, <1>3, <1>4, <1>6, <1>7
  <2>2. <<s, q[i]>> \in StartsWith
    BY SegmentAssumption
  <2>3. QED BY <2>1, <2>2, SegmentAssumption
<1>8. CASE i # Len(q)
  <2>1. q[i] = s /\ x <= y
    BY <1>8, SegmentAssumption
  <2> HIDE DEF x, y
  <2>2. b + x + 1 <= b + y + 1 /\ c \in Int
    BY <1>1, <1>4, <2>1
  <2>3. c < Chars(p) /\ Chars(p) <= c
    BY <1>3, <1>4, <1>5, <1>8, <2>2
  <2>4. Chars(p) \in Int
    BY CharsTyped DEF PathSet
  <2>5. QED BY <2>2, <2>3, <2>4
<1>9. QED BY <1>7, <1>8

LEMMA KeysDiffer ==
  ASSUME NEW j \in KeySet, NEW k \in KeySet, IsKey(j), IsKey(k), j # k, j.glob = k.glob
  PROVE  j.path # k.path
<1>1. SUFFICES ASSUME j.path = k.path PROVE FALSE
  OBVIOUS
<1>2. j.wild = k.wild
  BY <1>1 DEF IsKey
<1>3. j = [path |-> j.path, wild |-> j.wild, glob |-> j.glob]
      /\ k = [path |-> k.path, wild |-> k.wild, glob |-> k.glob]
  BY DEF KeySet
<1>4. QED BY <1>1, <1>2, <1>3

LEMMA CoversAlike ==
  ASSUME NEW j \in KeySet, NEW k \in KeySet, IsKey(j), IsKey(k), j # k, j.glob = k.glob,
         Chars(j.path) = Chars(k.path),
         NEW path \in Seq(Literal), Covers(j, path), Covers(k, path)
  PROVE  LexBefore(j.path, k.path) \/ LexBefore(k.path, j.path)
<1>0. PICK p, q : p = j.path /\ q = k.path
  OBVIOUS
<1>1. /\ p \in PathSet /\ q \in PathSet /\ Len(p) \in Nat /\ Len(q) \in Nat
      /\ DOMAIN p = 1..Len(p) /\ DOMAIN q = 1..Len(q) /\ Chars(p) = Chars(q)
      /\ p # q
  BY <1>0, KeysDiffer DEF KeySet, PathSet
<1>2. /\ Len(path) \in Nat /\ Len(p) <= Len(path) /\ Len(q) <= Len(path)
      /\ \A i \in 1..Len(path) : path[i] \in Literal
  BY <1>0 DEF Covers
<1>3. /\ \A i \in 1..Len(p) : \/ p[i] = Plus \/ p[i] = path[i]
                              \/ i = Len(p) /\ <<path[i], p[i]>> \in StartsWith
      /\ \A i \in 1..Len(q) : \/ q[i] = Plus \/ q[i] = path[i]
                              \/ i = Len(q) /\ <<path[i], q[i]>> \in StartsWith
  BY <1>0, <1>1 DEF Covers
<1> DEFINE T == {i \in Nat : i \in 1..Len(p) /\ i \in 1..Len(q) /\ p[i] # q[i]}
<1>4. T # {}
  <2>1. SUFFICES ASSUME T = {} PROVE FALSE
    OBVIOUS
  <2>2. \A i \in 1..Len(p) : i \in 1..Len(q) => p[i] = q[i]
    BY <2>1, <1>1
  <2>3. CASE Len(p) <= Len(q)
    <3>1. \A i \in 1..Len(p) : p[i] = q[i]
      BY <1>1, <2>2, <2>3
    <3>2. QED BY <1>1, <2>3, <3>1, SamePath
  <2>4. CASE Len(q) <= Len(p)
    <3>1. \A i \in 1..Len(q) : q[i] = p[i]
      BY <1>1, <2>2, <2>4
    <3>2. q = p
      BY <1>1, <2>4, <3>1, SamePath
    <3>3. QED BY <1>1, <3>2
  <2>5. QED BY <1>1, <2>3, <2>4
<1>5. PICK i \in T : \A m \in T : i <= m
  <2>1. T \in SUBSET Nat
    OBVIOUS
  <2> HIDE DEF T
  <2>2. QED BY <1>4, <2>1, HasLeast
<1>6. i \in Nat /\ i \in 1..Len(p) /\ i \in 1..Len(q) /\ p[i] # q[i]
  OBVIOUS
<1>7. \A m \in 1..i - 1 : p[m] = q[m]
  <2>1. ASSUME NEW m \in 1..i - 1 PROVE p[m] = q[m]
    <3>1. m \in Nat /\ m \in 1..Len(p) /\ m \in 1..Len(q) /\ ~(i <= m)
      BY <1>1, <1>6
    <3>2. m \notin T
      BY <1>5, <3>1
    <3>3. QED BY <3>1, <3>2
  <2>2. QED BY <2>1
<1> HIDE DEF T
<1>8. i \in DOMAIN p \cap DOMAIN q
  BY <1>1, <1>6
<1>9. CASE p[i] = Plus
  <2>1. LexBefore(p, q)
    BY <1>6, <1>7, <1>8, <1>9 DEF LexBefore
  <2>2. QED BY <1>0, <2>1
<1>10. CASE q[i] = Plus
  <2>1. LexBefore(q, p)
    BY <1>6, <1>7, <1>8, <1>10 DEF LexBefore
  <2>2. QED BY <1>0, <2>1
<1>11. CASE p[i] # Plus /\ q[i] # Plus
  <2>1. p[i] \in Literal /\ q[i] \in Literal /\ path[i] \in Literal
    BY <1>1, <1>2, <1>6, <1>11 DEF PathSet
  <2>2. /\ p[i] = path[i] \/ (i = Len(p) /\ <<path[i], p[i]>> \in StartsWith)
        /\ q[i] = path[i] \/ (i = Len(q) /\ <<path[i], q[i]>> \in StartsWith)
    BY <1>3, <1>6, <1>11
  <2>3. PICK s \in Literal : s = path[i]
    BY <2>1
  <2>4. CASE i = Len(p) /\ <<s, p[i]>> \in StartsWith
    <3>1. q[i] = s \/ (i = Len(q) /\ <<s, q[i]>> \in StartsWith)
      BY <2>2, <2>3
    <3>2. p[i] = q[i]
      BY <1>1, <1>6, <1>7, <2>1, <2>4, <3>1, PrefixEnds
    <3>3. QED BY <1>6, <3>2
  <2>5. CASE i = Len(q) /\ <<s, q[i]>> \in StartsWith
    <3>1. p[i] = s \/ (i = Len(p) /\ <<s, p[i]>> \in StartsWith)
      BY <2>2, <2>3
    <3>2. \A m \in 1..i - 1 : q[m] = p[m]
      BY <1>7
    <3>3. q[i] = p[i]
      BY <1>1, <1>6, <2>1, <2>5, <3>1, <3>2, PrefixEnds
    <3>4. QED BY <1>6, <3>3
  <2>6. QED BY <1>6, <2>2, <2>3, <2>4, <2>5
<1>12. QED BY <1>9, <1>10, <1>11

LEMMA BeforeTotal ==
  ASSUME NEW j \in KeySet, NEW k \in KeySet, IsKey(j), IsKey(k), j # k,
         NEW path \in Seq(Literal), Covers(j, path), Covers(k, path)
  PROVE  Before(j, k) \/ Before(k, j)
<1>1. /\ FirstWildcard(j) \in Int /\ FirstWildcard(k) \in Int
      /\ Wildcards(j) \in Int /\ Wildcards(k) \in Int
  BY FirstWildcardTyped, WildcardsTyped
<1>2. Chars(j.path) \in Int /\ Chars(k.path) \in Int
  BY CharsTyped DEF KeySet
<1>3. j.glob \in BOOLEAN /\ k.glob \in BOOLEAN
  BY DEF KeySet
<1>4. j.glob = k.glob /\ Chars(j.path) = Chars(k.path) =>
        LexBefore(j.path, k.path) \/ LexBefore(k.path, j.path)
  BY CoversAlike
<1>5. QED BY <1>1, <1>2, <1>3, <1>4 DEF Before

LEMMA LexTransitive ==
  ASSUME NEW p \in PathSet, NEW q \in PathSet, NEW r \in PathSet,
         LexBefore(p, q), LexBefore(q, r)
  PROVE  LexBefore(p, r)
<1>1. /\ DOMAIN p = 1..Len(p) /\ DOMAIN q = 1..Len(q) /\ DOMAIN r = 1..Len(r)
      /\ Len(p) \in Nat /\ Len(q) \in Nat /\ Len(r) \in Nat
  BY DEF PathSet
<1>2. PICK i \in DOMAIN p \cap DOMAIN q :
        p[i] = Plus /\ q[i] # Plus /\ \A m \in 1..i - 1 : p[m] = q[m]
  BY DEF LexBefore
<1>3. PICK n \in DOMAIN q \cap DOMAIN r :
        q[n] = Plus /\ r[n] # Plus /\ \A m \in 1..n - 1 : q[m] = r[m]
  BY DEF LexBefore
<1>4. i \in 1..Len(p) /\ i \in 1..Len(q) /\ n \in 1..Len(q) /\ n \in 1..Len(r) /\ i # n
  BY <1>1, <1>2, <1>3
<1>5. CASE i < n
  <2>1. i \in DOMAIN p \cap DOMAIN r /\ i \in 1..n - 1
    BY <1>1, <1>4, <1>5
  <2>2. r[i] # Plus
    BY <1>2, <1>3, <2>1
  <2>3. \A m \in 1..i - 1 : m \in 1..n - 1
    BY <1>1, <1>4, <1>5
  <2>4. \A m \in 1..i - 1 : p[m] = r[m]
    BY <1>2, <1>3, <2>3
  <2>5. QED BY <1>2, <2>1, <2>2, <2>4 DEF LexBefore
<1>6. CASE n < i
  <2>1. n \in DOMAIN p \cap DOMAIN r /\ n \in 1..i - 1
    BY <1>1, <1>4, <1>6
  <2>2. p[n] = Plus
    BY <1>2, <1>3, <2>1
  <2>3. \A m \in 1..n - 1 : m \in 1..i - 1
    BY <1>1, <1>4, <1>6
  <2>4. \A m \in 1..n - 1 : p[m] = r[m]
    BY <1>2, <1>3, <2>3
  <2>5. QED BY <1>3, <2>1, <2>2, <2>4 DEF LexBefore
<1>7. QED BY <1>1, <1>4, <1>5, <1>6

LEMMA BeforeTransitive ==
  ASSUME NEW i \in KeySet, NEW j \in KeySet, NEW k \in KeySet, Before(i, j), Before(j, k)
  PROVE  Before(i, k)
<1>1. \A x \in {i, j, k} : /\ FirstWildcard(x) \in Int /\ Wildcards(x) \in Int
                           /\ Chars(x.path) \in Int /\ x.path \in PathSet /\ x.glob \in BOOLEAN
  BY FirstWildcardTyped, WildcardsTyped, CharsTyped DEF KeySet, PathSet
<1>2. LexBefore(i.path, j.path) /\ LexBefore(j.path, k.path) => LexBefore(i.path, k.path)
  BY <1>1, LexTransitive
<1> DEFINE a == FirstWildcard(i)
           b == FirstWildcard(j)
           c == FirstWildcard(k)
           d == Wildcards(i)
           e == Wildcards(j)
           f == Wildcards(k)
           g == Chars(i.path)
           h == Chars(j.path)
           l == Chars(k.path)
<1>3. /\ a \in Int /\ b \in Int /\ c \in Int /\ d \in Int /\ e \in Int /\ f \in Int
      /\ g \in Int /\ h \in Int /\ l \in Int
      /\ i.glob \in BOOLEAN /\ j.glob \in BOOLEAN /\ k.glob \in BOOLEAN
  BY <1>1
<1>4. QED BY <1>2, <1>3 DEF Before

(* A finite set in a total order has a last element.                        *)
Orders(R, U) ==
  /\ \A x, y, z \in U : <<x, y>> \in R /\ <<y, z>> \in R => <<x, z>> \in R
  /\ \A x, y \in U : <<x, y>> \in R \/ <<y, x>> \in R

LEMMA HasLast ==
  ASSUME NEW U, NEW R, Orders(R, U), NEW S \in SUBSET U, IsFiniteSet(S), S # {}
  PROVE  \E m \in S : \A x \in S : <<x, m>> \in R
<1>0. /\ \A x, y, z \in U : <<x, y>> \in R /\ <<y, z>> \in R => <<x, z>> \in R
      /\ \A x, y \in U : <<x, y>> \in R \/ <<y, x>> \in R
  BY DEF Orders
<1> DEFINE HasIt(V) == \E m \in V : \A x \in V : <<x, m>> \in R
           T == {n \in Nat : \A V \in SUBSET U :
                   IsFiniteSet(V) /\ Cardinality(V) = n /\ V # {} => HasIt(V)}
<1>1. 0 \in T
  BY FS_EmptySet
<1>2. ASSUME NEW n \in Nat, n \in T PROVE n + 1 \in T
  <2>1. SUFFICES ASSUME NEW V \in SUBSET U, IsFiniteSet(V), Cardinality(V) = n + 1, V # {}
                 PROVE  HasIt(V)
    OBVIOUS
  <2>2. PICK v \in V : TRUE
    BY <2>1
  <2> DEFINE W == V \ {v}
  <2>3. W \in SUBSET U /\ IsFiniteSet(W) /\ Cardinality(W) = n
    <3>1. IsFiniteSet(V \ {v}) /\ Cardinality(V \ {v}) = Cardinality(V) - 1
      BY <2>1, <2>2, FS_RemoveElement
    <3>2. Cardinality(V) - 1 = n
      BY <2>1
    <3>3. QED BY <3>1, <3>2
  <2>4. \A x \in V : x = v \/ x \in W
    OBVIOUS
  <2>5. \A x \in W : x \in V
    OBVIOUS
  <2>6. <<v, v>> \in R
    BY <1>0, <2>2
  <2> HIDE DEF W
  <2>7. CASE W = {}
    BY <2>2, <2>4, <2>6, <2>7
  <2>8. CASE W # {}
    <3>1. PICK m \in W : \A x \in W : <<x, m>> \in R
      BY <1>2, <2>3, <2>8
    <3>2. CASE <<v, m>> \in R
      BY <2>4, <2>5, <3>1, <3>2
    <3>3. CASE <<m, v>> \in R
      <4>1. \A x \in W : <<x, v>> \in R
        BY <1>0, <2>2, <2>3, <3>1, <3>3
      <4>2. QED BY <2>2, <2>4, <2>6, <4>1
    <3>4. QED BY <1>0, <2>2, <2>3, <3>1, <3>2, <3>3
  <2>9. QED BY <2>7, <2>8
<1>3. T = Nat
  <2> HIDE DEF T
  <2>1. T \in SUBSET Nat
    BY DEF T
  <2>2. QED BY <1>1, <1>2, <2>1, Counting
<1>4. Cardinality(S) \in Nat
  BY FS_CardinalityType
<1>5. QED BY <1>3, <1>4

LEMMA CandidatesCover ==
  ASSUME NEW keys \in SUBSET KeySet, \A k \in keys : IsKey(k), NEW path \in Seq(Literal),
         NEW k \in Candidates(keys, path)
  PROVE  k \in keys /\ Covers(k, path)
<1>1. CASE k \in keys /\ k.wild /\ Covers(k, path)
  BY <1>1
<1>2. CASE k \in keys /\ ~k.wild /\ k.glob /\ HasPrefix(path, k)
  <2>1. PICK q : q = k.path
    OBVIOUS
  <2>2. Len(q) \in Nat /\ DOMAIN q = 1..Len(q) /\ Len(path) \in Nat
    BY <1>2, <2>1 DEF KeySet
  <2>3. /\ Len(q) <= Len(path) /\ \A i \in 1..Len(q) - 1 : path[i] = q[i]
        /\ <<path[Len(q)], q[Len(q)]>> \in StartsWith
    BY <1>2, <2>1 DEF HasPrefix
  <2>4. \A i \in 1..Len(q) : i \in 1..Len(q) - 1 \/ i = Len(q)
    <3>1. \A n \in Nat : \A i \in 1..n : i \in 1..n - 1 \/ i = n
      OBVIOUS
    <3>2. QED BY <2>2, <3>1
  <2>5. QED BY <1>2, <2>1, <2>2, <2>3, <2>4 DEF Covers
<1>3. QED BY <1>1, <1>2 DEF Candidates

LEMMA CandidatesThere ==
  ASSUME NEW keys \in SUBSET KeySet, IsFiniteSet(keys), NEW path,
         NEW k \in keys, ~k.wild, k.glob, HasPrefix(path, k)
  PROVE  \E m \in Candidates(keys, path) :
           /\ m \in keys /\ ~m.wild
           /\ \A x \in keys : ~x.wild /\ x.glob /\ HasPrefix(path, x) =>
                Chars(x.path) <= Chars(m.path)
<1> DEFINE S == {x \in keys : ~x.wild /\ x.glob /\ HasPrefix(path, x)}
           R == {e \in KeySet \X KeySet : Chars(e[1].path) <= Chars(e[2].path)}
<1>1. \A x \in KeySet : Chars(x.path) \in Int
  BY CharsTyped DEF KeySet
<1>2. \A x, y \in KeySet : <<x, y>> \in R <=> Chars(x.path) <= Chars(y.path)
  OBVIOUS
<1>3. S \in SUBSET KeySet /\ S # {} /\ IsFiniteSet(S)
  BY FS_Subset
<1> HIDE DEF R, S
<1>4. \A x, y, z \in KeySet : <<x, y>> \in R /\ <<y, z>> \in R => <<x, z>> \in R
  BY <1>1, <1>2
<1>5. \A x, y \in KeySet : <<x, y>> \in R \/ <<y, x>> \in R
  <2>1. ASSUME NEW x \in KeySet, NEW y \in KeySet PROVE <<x, y>> \in R \/ <<y, x>> \in R
    <3>1. PICK a, b \in Int : a = Chars(x.path) /\ b = Chars(y.path)
      BY <1>1
    <3>2. a <= b \/ b <= a
      OBVIOUS
    <3>3. QED BY <1>2, <3>1, <3>2
  <2>2. QED BY <2>1
<1>6. PICK m \in S : \A x \in S : <<x, m>> \in R
  <2>1. S \in SUBSET KeySet /\ S # {} /\ IsFiniteSet(S)
    BY <1>3
  <2>2. Orders(R, KeySet)
    BY <1>4, <1>5 DEF Orders
  <2>3. QED BY <2>1, <2>2, HasLast
<1>7. \A x \in S : Chars(x.path) <= Chars(m.path)
  BY <1>2, <1>3, <1>6
<1>8. m \in Candidates(keys, path)
  BY <1>6, <1>7 DEF Candidates, S
<1>9. m \in keys /\ ~m.wild
  BY <1>6 DEF S
<1>10. \A x \in keys : ~x.wild /\ x.glob /\ HasPrefix(path, x) => Chars(x.path) <= Chars(m.path)
  BY <1>7 DEF S
<1>11. QED BY <1>8, <1>9, <1>10

(* Of rules some of which cover a path exactly one decides a request for    *)
(* it: the order of the rules is total where it matters (acl.rs:75-122,     *)
(* 230-267, 281-386).                                                       *)
THEOREM ExactlyOne ==
  ASSUME NEW keys \in SUBSET KeySet, IsFiniteSet(keys), \A k \in keys : IsKey(k),
         NEW req, req.path \in Seq(Literal), \E k \in keys : Hits(k, req.path)
  PROVE  Cardinality(Deciding(keys, req)) = 1
<1>1. SUFFICES Deciding(keys, req) # {}
  <2>1. ASSUME NEW k \in Deciding(keys, req) PROVE Deciding(keys, req) = {k}
    BY AtMostOne
  <2>2. QED BY <2>1, FS_Singleton
<1>2. CASE Plain(req.path) \in keys \/ (req.operation = "list" /\ Plain(Trimmed(req.path)) \in keys)
  BY <1>2 DEF Deciding
<1>3. CASE ~(Plain(req.path) \in keys \/ (req.operation = "list" /\ Plain(Trimmed(req.path)) \in keys))
  <2> DEFINE all == Candidates(keys, req.path)
             R == {e \in all \X all : e[1] = e[2] \/ Before(e[1], e[2])}
  <2>1. Deciding(keys, req) = {k \in all : \A j \in all \ {k} : Before(j, k)}
    BY <1>3 DEF Deciding
  <2>2. all \subseteq keys
    BY DEF Candidates
  <2>3. all # {}
    <3>1. PICK k \in keys : Hits(k, req.path)
      OBVIOUS
    <3>2. CASE k.wild
      BY <3>1, <3>2 DEF Hits, Candidates
    <3>3. CASE ~k.wild /\ k.glob
      BY <3>1, <3>3, CandidatesThere DEF Hits
    <3>4. CASE ~k.wild /\ ~k.glob
      <4>1. k.path = req.path
        BY <3>1, <3>4 DEF Hits
      <4>2. k = [path |-> k.path, wild |-> k.wild, glob |-> k.glob] /\ k.wild = FALSE /\ k.glob = FALSE
        BY <3>4 DEF KeySet
      <4>3. k = Plain(req.path)
        BY <4>1, <4>2 DEF Plain
      <4>4. QED BY <1>3, <4>3
    <3>5. QED BY <3>2, <3>3, <3>4
  <2>4. \A k \in all : k \in KeySet /\ IsKey(k) /\ Covers(k, req.path)
    BY <2>2, CandidatesCover
  <2>5. IsFiniteSet(all)
    BY <2>2, FS_Subset
  <2>6. \A x, y \in all : <<x, y>> \in R <=> x = y \/ Before(x, y)
    OBVIOUS
  <2> HIDE DEF all, R
  <2>7. \A x, y, z \in all : <<x, y>> \in R /\ <<y, z>> \in R => <<x, z>> \in R
    BY <2>4, <2>6, BeforeTransitive
  <2>8. \A x, y \in all : <<x, y>> \in R \/ <<y, x>> \in R
    BY <2>4, <2>6, BeforeTotal
  <2>a. all \in SUBSET all
    OBVIOUS
  <2>9. PICK m \in all : \A x \in all : <<x, m>> \in R
    <3>1. Orders(R, all)
      BY <2>7, <2>8 DEF Orders
    <3>2. QED BY <2>a, <2>3, <2>5, <3>1, HasLast
  <2>10. m \in Deciding(keys, req)
    BY <2>1, <2>6, <2>9
  <2>11. QED BY <2>10
<1>4. QED BY <1>2, <1>3

-----------------------------------------------------------------------------
(* The merged rules decide as the documents do together.                    *)

LEMMA DecidingKeys ==
  ASSUME NEW keys, NEW req
  PROVE  Deciding(keys, req) \subseteq keys
BY DEF Deciding, Candidates

(* What documents allow over a merged list is what they grant. *)
LEMMA SumDecides ==
  ASSUME NEW acl, NEW ds, SumsUp(acl, ds), \A d \in ds : IsDocument(d),
         NEW req, req.operation \in Operation, NEW root
  PROVE  LET keys == UNION {DOMAIN d : d \in ds}
         IN /\ req.operation = "help" \/
               \E k \in Deciding(keys, req) : Ok(Says(ds, k), req) /\ (root => Sudo(Says(ds, k)))
            <=> ~(root /\ req.operation # "help" /\ ~RootPrivs(acl, req)) /\ Allowed(acl, req)
<1> DEFINE keys == UNION {DOMAIN d : d \in ds}
<1>1. DOMAIN acl = keys /\ \A k \in keys : Sums(acl[k], Says(ds, k))
  BY DEF SumsUp
<1>2. keys \subseteq KeySet
  BY DEF IsDocument, IsKey, KeySet, PathSet
<1>3. Deciding(keys, req) \subseteq keys
  BY DecidingKeys
<1> HIDE DEF keys
<1>4. \A j, k \in Deciding(keys, req) : j = k
  BY <1>2, AtMostOne
<1>5. CASE req.operation = "help"
  BY <1>5 DEF Allowed, keys
<1>6. CASE req.operation # "help"
  <2>1. \A k \in Deciding(keys, req) :
          /\ Check(acl[k], req) <=> Ok(Says(ds, k), req)
          /\ "sudo" \in acl[k].caps <=> Sudo(Says(ds, k))
    BY <1>1, <1>3, <1>6, CheckSums
  <2>2. Allowed(acl, req) <=> \E k \in Deciding(keys, req) : Ok(Says(ds, k), req)
    BY <1>1, <1>6, <2>1, Zenon DEF Allowed
  <2>3. RootPrivs(acl, req) <=> \E k \in Deciding(keys, req) : Sudo(Says(ds, k))
    BY <1>1, <1>6, <2>1, Zenon DEF RootPrivs
  <2>4. (\E k \in Deciding(keys, req) : Ok(Says(ds, k), req) /\ (root => Sudo(Says(ds, k))))
        <=> ~(root /\ ~RootPrivs(acl, req)) /\ Allowed(acl, req)
    BY <1>4, <2>2, <2>3, Zenon
  <2>5. QED BY <1>6, <2>4 DEF keys
<1>7. QED BY <1>5, <1>6

-----------------------------------------------------------------------------
(* The verdict of a check that had each of its policies.                    *)

LEMMA GrantedSays ==
  ASSUME NEW ds, NEW req
  PROVE  LET keys == UNION {DOMAIN d : d \in ds}
         IN Granted(ds, req) <=>
              \/ req.operation = "help"
              \/ \E k \in Deciding(keys, req) :
                   Ok(Says(ds, k), req) /\ (req.path \in RootPath => Sudo(Says(ds, k)))
BY Zenon DEF Granted, Ok, Says, Sudo

LEMMA VerdictGranted ==
  ASSUME NEW w, w.found \in Seq(Doc), w.token # <<>>, "root" \notin Range(w.token),
         NEW r \in Request
  PROVE  Verdict(w, r) =
           IF Granted({Text[w.found[i]] : i \in DOMAIN w.found}, r) THEN "allowed" ELSE "denied"
<1> DEFINE docs == [i \in DOMAIN w.found |-> Text[w.found[i]]]
           ds == {docs[i] : i \in DOMAIN docs}
           acl == ACL(docs)
           root == r.path \in RootPath
<1>1. ds = {Text[w.found[i]] : i \in DOMAIN w.found}
  OBVIOUS
<1>2. DOMAIN docs = 1..Len(w.found) /\ Len(w.found) \in Nat
  OBVIOUS
<1>3. Len(docs) = Len(w.found)
  BY <1>2
<1>4. \A i \in DOMAIN docs : IsDocument(docs[i])
  <2>1. \A i \in DOMAIN docs : w.found[i] \in Doc /\ docs[i] = Text[w.found[i]]
    OBVIOUS
  <2>2. QED BY <2>1, DocumentAssumption
<1> HIDE DEF docs
<1>5. SumsUp(acl, ds)
  BY <1>2, <1>3, <1>4, AclSums
<1>6. \A d \in ds : IsDocument(d)
  BY <1>4
<1>7. r.operation \in Operation
  BY RequestAssumption
<1> HIDE DEF ds, acl, root
<1>8. Granted(ds, r) <=> ~(root /\ r.operation # "help" /\ ~RootPrivs(acl, r)) /\ Allowed(acl, r)
  <2> DEFINE keys == UNION {DOMAIN d : d \in ds}
             one == \E k \in Deciding(keys, r) : Ok(Says(ds, k), r) /\ (root => Sudo(Says(ds, k)))
  <2>1. (r.operation = "help" \/ one)
        <=> ~(root /\ r.operation # "help" /\ ~RootPrivs(acl, r)) /\ Allowed(acl, r)
    BY <1>5, <1>6, <1>7, SumDecides
  <2>2. Granted(ds, r) <=> r.operation = "help" \/ one
    BY GrantedSays DEF root
  <2>3. QED BY <2>1, <2>2
<1>9. Verdict(w, r) = IF root /\ r.operation # "help" /\ ~RootPrivs(acl, r) THEN "denied"
                      ELSE IF Allowed(acl, r) THEN "allowed" ELSE "denied"
  BY DEF Verdict, acl, docs, root
<1>10. QED BY <1>1, <1>8, <1>9

-----------------------------------------------------------------------------
(* What a check that no write overlaps has had.                             *)

Sure(w) == w.at \in {"look", "read", "retype", "fill", "answered"} /\ w.acl /\ w.alone

Distinct(t) == \A i, j \in 1..Len(t) : i # j => t[i] # t[j]

Had(s, w) ==
  /\ Distinct(w.todo)
  /\ \A i \in 1..Len(w.found) : \E n \in w.names \ Range(w.todo) : w.found[i] = s[n]
  /\ \A n \in w.names \ Range(w.todo) :
       s[n] # None /\ \E i \in 1..Len(w.found) : w.found[i] = s[n]
  /\ w.at = "read" => s[Head(w.todo)] # None

CheckedOK(p) ==
  LET w == work[p]
  IN Sure(w) =>
       /\ w.names = Range(w.token) \ {"root"}
       /\ w.names \subseteq clean
       /\ \A q \in Proc : Writes(work[q]) => Touches(work[q]) \cap w.names = {}
       /\ w.at # "answered" => Had(stored, w)
       /\ w.at = "answered" /\ w.answer # "failed" => w.answer = Promised(stored, w.token, w.request)

CheckInv == \A p \in Checkers : CheckedOK(p)

LEMMA RestOfTodo ==
  ASSUME NEW S, NEW s \in Seq(S), s # <<>>, Distinct(s)
  PROVE  /\ Distinct(Tail(s))
         /\ Head(s) \in Range(s) /\ Head(s) \notin Range(Tail(s))
         /\ \A n : n \in Range(Tail(s)) <=> n \in Range(s) /\ n # Head(s)
<1>1. /\ Len(s) \in Nat /\ 1 \in 1..Len(s) /\ Head(s) = s[1] /\ Tail(s) \in Seq(S)
      /\ Len(Tail(s)) = Len(s) - 1
      /\ \A i \in 1..Len(Tail(s)) : Tail(s)[i] = s[i + 1]
  OBVIOUS
<1>2. DOMAIN s = 1..Len(s) /\ DOMAIN Tail(s) = 1..Len(Tail(s))
  BY <1>1
<1> HIDE DEF Distinct
<1> DEFINE t == Tail(s)
<1>3. /\ Len(t) = Len(s) - 1 /\ DOMAIN t = 1..Len(t) /\ \A i \in 1..Len(t) : t[i] = s[i + 1]
  BY <1>1, <1>2
<1> HIDE DEF t
<1>4. \A i \in 1..Len(t) : i + 1 \in 1..Len(s) /\ i + 1 # 1
  BY <1>1, <1>3
<1>5. Distinct(t)
  BY <1>3, <1>4 DEF Distinct
<1>6. \A i \in 1..Len(t) : t[i] # s[1]
  BY <1>1, <1>3, <1>4 DEF Distinct
<1>7. \A i \in 1..Len(s) : i # 1 => i - 1 \in 1..Len(t) /\ t[i - 1] = s[i]
  BY <1>1, <1>3
<1>8. s[1] \in Range(s) /\ s[1] \notin Range(t)
  BY <1>1, <1>2, <1>3, <1>6 DEF Range
<1>9. ASSUME NEW n PROVE n \in Range(t) <=> n \in Range(s) /\ n # s[1]
  <2>1. ASSUME n \in Range(t) PROVE n \in Range(s) /\ n # s[1]
    BY <2>1, <1>2, <1>3, <1>4, <1>8 DEF Range
  <2>2. ASSUME n \in Range(s), n # s[1] PROVE n \in Range(t)
    <3>1. PICK i \in 1..Len(s) : n = s[i]
      BY <2>2, <1>2 DEF Range
    <3>2. i # 1
      BY <3>1, <2>2
    <3>3. QED BY <1>3, <1>7, <3>1, <3>2 DEF Range
  <2>3. QED BY <2>1, <2>2
<1>10. QED BY <1>1, <1>5, <1>8, <1>9 DEF t

(* The head of todo is had. *)
LEMMA HadMore ==
  ASSUME NEW s, NEW w, w.found \in Seq(Doc), w.todo \in Seq(Item), w.todo # <<>>, Had(s, w),
         NEW docs \in Seq(Doc),
         Head(w.todo) \in w.names =>
           docs = <<s[Head(w.todo)]>> /\ s[Head(w.todo)] # None,
         Head(w.todo) \notin w.names => docs = <<>>,
         NEW v, v.at = "look", v.names = w.names, v.todo = Tail(w.todo), v.found = w.found \o docs
  PROVE  Had(s, v)
<1> DEFINE h == Head(w.todo)
<1>1. /\ Distinct(v.todo) /\ h \in Range(w.todo) /\ h \notin Range(v.todo)
      /\ \A n : n \in Range(v.todo) <=> n \in Range(w.todo) /\ n # h
  BY RestOfTodo DEF Had
<1>2. /\ Len(w.found) \in Nat /\ Len(docs) \in Nat /\ Len(v.found) = Len(w.found) + Len(docs)
      /\ \A i \in 1..Len(w.found) : v.found[i] = w.found[i]
      /\ \A i \in 1..Len(docs) : v.found[Len(w.found) + i] = docs[i]
  OBVIOUS
<1>3. \A i \in 1..Len(w.found) : i \in 1..Len(v.found)
  BY <1>2
<1>4. \A n : n \in v.names \ Range(v.todo)
             <=> n \in w.names \ Range(w.todo) \/ (n = h /\ h \in w.names)
  BY <1>1
<1>5. /\ \A i \in 1..Len(w.found) : \E n \in w.names \ Range(w.todo) : w.found[i] = s[n]
      /\ \A n \in w.names \ Range(w.todo) :
           s[n] # None /\ \E i \in 1..Len(w.found) : w.found[i] = s[n]
  BY DEF Had
<1> HIDE DEF h
<1>6. CASE h \in w.names
  <2>1. docs = <<s[h]>> /\ s[h] # None
    BY <1>6 DEF h
  <2>2. Len(docs) = 1 /\ docs[1] = s[h]
    BY <2>1
  <2>3. /\ Len(v.found) = Len(w.found) + 1 /\ v.found[Len(w.found) + 1] = s[h]
        /\ Len(w.found) + 1 \in 1..Len(v.found)
    BY <1>2, <2>2
  <2>4. \A i \in 1..Len(v.found) : i \in 1..Len(w.found) \/ i = Len(w.found) + 1
    BY <1>2, <2>3
  <2>5. ASSUME NEW i \in 1..Len(v.found)
        PROVE  \E n \in v.names \ Range(v.todo) : v.found[i] = s[n]
    <3>1. CASE i \in 1..Len(w.found)
      BY <1>2, <1>4, <1>5, <3>1
    <3>2. CASE i = Len(w.found) + 1
      BY <1>4, <1>6, <2>3, <3>2
    <3>3. QED BY <2>4, <3>1, <3>2
  <2>6. ASSUME NEW n \in v.names \ Range(v.todo)
        PROVE  s[n] # None /\ \E i \in 1..Len(v.found) : v.found[i] = s[n]
    <3>1. CASE n = h
      BY <2>1, <2>3, <3>1
    <3>2. CASE n \in w.names \ Range(w.todo)
      BY <1>2, <1>3, <1>5, <3>2
    <3>3. QED BY <1>4, <3>1, <3>2
  <2>7. QED BY <1>1, <2>5, <2>6 DEF Had
<1>7. CASE h \notin w.names
  <2>1. docs = <<>>
    BY <1>7 DEF h
  <2>2. Len(docs) = 0
    BY <2>1
  <2>3. Len(v.found) = Len(w.found)
    BY <1>2, <2>2
  <2>4. \A n : n \in v.names \ Range(v.todo) <=> n \in w.names \ Range(w.todo)
    BY <1>4, <1>7
  <2>5. \A i \in 1..Len(v.found) : \E n \in v.names \ Range(v.todo) : v.found[i] = s[n]
    BY <1>2, <1>5, <2>3, <2>4
  <2>6. \A n \in v.names \ Range(v.todo) :
          s[n] # None /\ \E i \in 1..Len(v.found) : v.found[i] = s[n]
    BY <1>2, <1>5, <2>3, <2>4
  <2>7. QED BY <1>1, <2>5, <2>6 DEF Had
<1>8. QED BY <1>6, <1>7

-----------------------------------------------------------------------------
(* What is owed.                                                            *)

LEMMA TokenNames ==
  ASSUME NEW t \in Tokens
  PROVE  /\ Range(t) \subseteq Item
         /\ Range(t) \ {"root"} = {} => t = <<>> \/ t = <<"root">>
         /\ t = <<>> => Range(t) = {}
         /\ t = <<"root">> => Range(t) = {"root"}
         /\ Distinct(t)
<1>1. "root" \notin Name /\ "root" \in Item /\ \A n \in Name : n \in Item
  BY PolicyAssumption DEF Item
<1>2. CASE t = <<>>
  <2>1. Range(t) = {} /\ Len(t) = 0 /\ t # <<"root">>
    BY <1>2 DEF Range
  <2>2. QED BY <1>2, <2>1 DEF Distinct
<1>3. CASE t = <<"root">>
  <2>1. Range(t) = {"root"} /\ Len(t) = 1 /\ t # <<>>
    BY <1>3 DEF Range
  <2>2. QED BY <1>1, <1>3, <2>1 DEF Distinct
<1>4. ASSUME NEW n \in Name, t = <<n>>
      PROVE  Range(t) = {n} /\ Len(t) = 1 /\ t # <<>> /\ t # <<"root">>
  BY <1>1, <1>4 DEF Range
<1>5. ASSUME NEW m \in Name, NEW n \in Name \cup {"root"}, t = <<m, n>>, m # n
      PROVE  Range(t) = {m, n} /\ Len(t) = 2 /\ t # <<>> /\ t # <<"root">> /\ Distinct(t)
  <2>1. Len(t) = 2 /\ t[1] = m /\ t[2] = n /\ DOMAIN t = 1..2
    BY <1>5
  <2>2. t # <<>> /\ t # <<"root">>
    <3>1. Len(<<>>) = 0 /\ Len(<<"root">>) = 1
      OBVIOUS
    <3>2. Len(t) # 0 /\ Len(t) # 1
      BY <2>1
    <3>3. QED BY <3>1, <3>2, Zenon
  <2>3. Range(t) = {m, n}
    BY <2>1 DEF Range
  <2>4. Distinct(t)
    <3>1. \A i \in 1..2 : i = 1 \/ i = 2
      OBVIOUS
    <3>2. QED BY <1>5, <2>1, <3>1 DEF Distinct
  <2>5. QED BY <2>1, <2>2, <2>3, <2>4
<1>6. CASE \E n \in Name : t = <<n>>
  <2>1. PICK n \in Name : t = <<n>>
    BY <1>6
  <2>2. Range(t) = {n} /\ Len(t) = 1 /\ t # <<>> /\ t # <<"root">>
    BY <1>4, <2>1
  <2>3. Distinct(t)
    BY <2>2 DEF Distinct
  <2>4. QED BY <1>1, <2>2, <2>3
<1>7. CASE \E m \in Name, n \in Name \cup {"root"} : m # n /\ t = <<m, n>>
  <2>1. PICK m \in Name, n \in Name \cup {"root"} : m # n /\ t = <<m, n>>
    BY <1>7
  <2>2. Range(t) = {m, n} /\ t # <<>> /\ t # <<"root">> /\ Distinct(t)
    BY <1>5, <2>1
  <2>3. QED BY <1>1, <2>2
<1>8. \/ t = <<>> \/ t = <<"root">> \/ \E n \in Name : t = <<n>>
      \/ \E m \in Name, n \in Name \cup {"root"} : m # n /\ t = <<m, n>>
  BY DEF Tokens
<1>9. QED BY <1>2, <1>3, <1>6, <1>7, <1>8

(* A policy that is not stored is an error. *)
LEMMA ErrorPromised ==
  ASSUME NEW s, NEW t \in Tokens, NEW n \in Range(t) \ {"root"}, s[n] = None, NEW req
  PROVE  Promised(s, t, req) = "error"
<1>1. t # <<>> /\ t # <<"root">>
  BY TokenNames
<1>2. QED BY <1>1 DEF Promised

(* What is owed depends on the token's policies only. *)
LEMMA PromisedKept ==
  ASSUME NEW s, NEW u, NEW t \in Tokens, \A n \in Range(t) \ {"root"} : u[n] = s[n], NEW req
  PROVE  Promised(u, t, req) = Promised(s, t, req)
<1>1. CASE t = <<>> \/ t = <<"root">> \/ "root" \in Range(t)
  BY <1>1 DEF Promised
<1>2. CASE t # <<>> /\ t # <<"root">> /\ "root" \notin Range(t)
  <2>1. \A n \in Range(t) : u[n] = s[n]
    BY <1>2
  <2>2. {Text[u[n]] : n \in Range(t)} = {Text[s[n]] : n \in Range(t)}
    BY <2>1
  <2>3. QED BY <1>2, <2>1, <2>2 DEF Promised
<1>3. QED BY <1>1, <1>2

(* The same with what is had of them. *)
LEMMA HadKept ==
  ASSUME NEW s, NEW u, NEW w, \A n \in w.names : u[n] = s[n], Had(s, w),
         w.at = "read" => Head(w.todo) \in w.names
  PROVE  Had(u, w)
BY DEF Had

LEMMA VerdictPromised ==
  ASSUME NEW s \in [Name -> Slot], NEW w \in CheckCall, w.todo = <<>>, Had(s, w),
         w.names = Range(w.token) \ {"root"}, NEW r \in Request
  PROVE  Verdict(w, r) = Promised(s, w.token, r)
<1> DEFINE t == w.token
<1>1. t \in Tokens /\ w.found \in Seq(Doc) /\ w.names \subseteq Name
  BY DEF CheckCall
<1>2. Range(w.todo) = {}
  BY DEF Range
<1>3. /\ \A i \in 1..Len(w.found) : \E n \in w.names : w.found[i] = s[n]
      /\ \A n \in w.names : s[n] # None /\ \E i \in 1..Len(w.found) : w.found[i] = s[n]
  BY <1>2 DEF Had
<1>4. DOMAIN w.found = 1..Len(w.found) /\ Len(w.found) \in Nat
  BY <1>1
<1>5. CASE t = <<>>
  BY <1>5 DEF Verdict, Promised
<1>6. CASE t # <<>> /\ "root" \in Range(t)
  <2>1. w.found = <<>> <=> w.names = {}
    <3>1. w.found = <<>> <=> Len(w.found) = 0
      BY <1>1
    <3>2. CASE w.names = {}
      <4>1. 1 \notin 1..Len(w.found)
        BY <1>3, <3>2
      <4>2. Len(w.found) = 0
        BY <1>4, <4>1
      <4>3. QED BY <3>1, <3>2, <4>2
    <3>3. CASE w.names # {}
      <4>1. PICK i \in 1..Len(w.found) : TRUE
        BY <1>3, <3>3
      <4>2. QED BY <1>4, <3>1, <3>3, <4>1
    <3>4. QED BY <3>2, <3>3
  <2>2. w.names = {} <=> t = <<"root">>
    BY <1>1, <1>6, TokenNames
  <2>3. QED BY <1>6, <2>1, <2>2 DEF Verdict, Promised
<1>7. CASE t # <<>> /\ "root" \notin Range(t)
  <2>1. t # <<"root">> /\ w.names = Range(t)
    BY <1>1, <1>7, TokenNames
  <2>2. \A n \in Range(t) : s[n] # None
    BY <1>3, <2>1
  <2> DEFINE had == {Text[w.found[i]] : i \in DOMAIN w.found}
             there == {Text[s[n]] : n \in Range(t)}
  <2>3. had = there
    <3>1. \A i \in DOMAIN w.found : \E n \in Range(t) : w.found[i] = s[n]
      BY <1>3, <1>4, <2>1
    <3>2. \A n \in Range(t) : \E i \in DOMAIN w.found : w.found[i] = s[n]
      BY <1>3, <1>4, <2>1
    <3>3. QED BY <3>1, <3>2
  <2>4. Verdict(w, r) = IF Granted(had, r) THEN "allowed" ELSE "denied"
    BY <1>1, <1>7, VerdictGranted
  <2>5. Promised(s, w.token, r) = IF Granted(there, r) THEN "allowed" ELSE "denied"
    BY <1>7, <2>1, <2>2 DEF Promised
  <2> HIDE DEF had, there
  <2>6. QED BY <2>3, <2>4, <2>5
<1>8. QED BY <1>5, <1>6, <1>7

-----------------------------------------------------------------------------
(* CheckInv is kept: a check of others, a check of the process that moves.  *)

LEMMA SureCall ==
  ASSUME TypeInv, NEW c \in Checkers, Sure(work[c])
  PROVE  /\ work[c] \in CheckCall /\ CheckOK(work[c])
         /\ work[c].names \subseteq Name /\ work[c].token \in Tokens
<1>1. CallOK(c)
  BY DEF TypeInv, Proc
<1>2. work[c] \in CheckCall /\ CheckOK(work[c])
  BY <1>1 DEF CallOK, Sure, Idle, SetCall, DeleteCall
<1>3. QED BY <1>2 DEF CheckCall

LEMMA CheckFrame ==
  ASSUME TypeInv, NEW c \in Checkers, CheckedOK(c), work'[c] = work[c],
         Sure(work[c]) =>
           /\ \A n \in work[c].names : stored'[n] = stored[n] /\ n \in clean'
           /\ \A q \in Proc : Writes(work'[q]) => Touches(work'[q]) \cap work[c].names = {}
  PROVE  CheckedOK(c)'
<1>1. PICK w : w = work[c]
  OBVIOUS
<1>2. CASE ~Sure(w)
  BY <1>1, <1>2 DEF CheckedOK
<1>3. CASE Sure(w)
  <2>1. /\ w \in CheckCall /\ CheckOK(w) /\ w.names \subseteq Name /\ w.token \in Tokens
    BY <1>1, <1>3, SureCall
  <2>2. /\ w.names = Range(w.token) \ {"root"}
        /\ w.at # "answered" => Had(stored, w)
        /\ w.at = "answered" /\ w.answer # "failed" =>
             w.answer = Promised(stored, w.token, w.request)
    BY <1>1, <1>3 DEF CheckedOK
  <2>3. /\ \A n \in w.names : stored'[n] = stored[n]
        /\ w.names \subseteq clean'
        /\ \A q \in Proc : Writes(work'[q]) => Touches(work'[q]) \cap w.names = {}
    BY <1>1, <1>3
  <2>4. PICK s : s = stored
    OBVIOUS
  <2>5. PICK u : u = stored'
    OBVIOUS
  <2>6. \A n \in w.names : u[n] = s[n]
    BY <2>3, <2>4, <2>5
  <2>7. w.at # "answered" => Had(u, w)
    <3>1. w.at = "read" => Head(w.todo) \in w.names
      BY <2>1 DEF CheckOK
    <3>2. w.at # "answered" => Had(s, w)
      BY <2>2, <2>4
    <3>3. QED BY <2>6, <3>1, <3>2, HadKept
  <2>8. Promised(u, w.token, w.request) = Promised(s, w.token, w.request)
    BY <2>1, <2>2, <2>6, PromisedKept
  <2>9. w.at = "answered" /\ w.answer # "failed" => w.answer = Promised(u, w.token, w.request)
    BY <2>2, <2>4, <2>8
  <2>10. w = work'[c]
    BY <1>1
  <2>11. QED
    BY <2>2, <2>3, <2>5, <2>7, <2>9, <2>10 DEF CheckedOK
<1>4. QED BY <1>2, <1>3

(* p moves; it ends no check and keeps to the names it touches. *)
LEMMA OneMoves ==
  ASSUME TypeInv, CheckInv, NEW p \in Proc,
         \A q \in Proc \ {p} : work'[q] = work[q], clean \subseteq clean',
         Writes(work'[p]) => Writes(work[p]) /\ Touches(work'[p]) = Touches(work[p]),
         \A n \in Name : stored'[n] = stored[n] \/ (Writes(work[p]) /\ n \in Touches(work[p])),
         p \in Checkers => CheckedOK(p)'
  PROVE  CheckInv'
<1>1. SUFFICES ASSUME NEW c \in Checkers PROVE CheckedOK(c)'
  BY DEF CheckInv
<1>2. CASE c = p
  BY <1>2
<1>3. CASE c # p
  <2>1. c \in Proc /\ work'[c] = work[c] /\ CheckedOK(c)
    BY <1>3 DEF Proc, CheckInv
  <2>2. SUFFICES ASSUME Sure(work[c])
                 PROVE  /\ \A n \in work[c].names : stored'[n] = stored[n] /\ n \in clean'
                        /\ \A q \in Proc : Writes(work'[q]) =>
                             Touches(work'[q]) \cap work[c].names = {}
    BY <2>1, CheckFrame
  <2>3. /\ work[c].names \subseteq clean
        /\ \A q \in Proc : Writes(work[q]) => Touches(work[q]) \cap work[c].names = {}
    BY <2>1, <2>2 DEF CheckedOK
  <2>4. work[c].names \subseteq Name
    BY <2>2, SureCall
  <2>5. \A n \in work[c].names : stored'[n] = stored[n] /\ n \in clean'
    BY <2>3, <2>4
  <2>6. ASSUME NEW q \in Proc, Writes(work'[q])
        PROVE  Touches(work'[q]) \cap work[c].names = {}
    <3>1. CASE q = p
      BY <2>3, <2>6, <3>1
    <3>2. CASE q # p
      BY <2>3, <2>6, <3>2
    <3>3. QED BY <3>1, <3>2
  <2>7. QED BY <2>5, <2>6
<1>4. QED BY <1>2, <1>3

(* A writer's step. *)
LEMMA WriterMoves ==
  ASSUME IInv, CheckInv, NEW p \in Writers, Writes(work[p]), NEW v, Step(p, v),
         v = Idle \/ (Writes(v) /\ v.names = work[p].names),
         clean \subseteq clean',
         stored' = stored \/ \E x : stored' = [stored EXCEPT ![Name1(p)] = x]
  PROVE  CheckInv'
<1>1. p \in Proc /\ TypeInv
  BY DEF Proc, IInv
<1>2. Touches(work[p]) = {Name1(p)} /\ work[p].names = {Name1(p)}
  BY <1>1, WriterCall
<1>3. work'[p] = v /\ \A q \in Proc \ {p} : work'[q] = work[q]
  BY <1>1 DEF Step, TypeInv
<1>4. \A n \in Name : stored'[n] = stored[n] \/ (Writes(work[p]) /\ n \in Touches(work[p]))
  BY <1>1, <1>2 DEF TypeInv
<1>5. Writes(v) => Touches(v) = work[p].names /\ v.at # "idle"
  BY DEF Writes, Touches, Idle
<1>6. ~Sure(v)
  BY DEF Sure, Writes, Idle
<1>7. CheckedOK(p)'
  BY <1>3, <1>6 DEF CheckedOK
<1>8. QED
  BY <1>1, <1>2, <1>3, <1>4, <1>5, <1>7, OneMoves

(* A checker's step. *)
LEMMA CheckMoves ==
  ASSUME IInv, CheckInv, NEW p \in Checkers, work[p].at \in {"look", "read", "retype", "fill"},
         NEW v, Step(p, v), ~Writes(v), UNCHANGED <<stored, clean>>,
         Sure(v) =>
           /\ Sure(work[p]) /\ v.names = work[p].names /\ v.token = work[p].token
           /\ v.at # "answered" => Had(stored, v)
           /\ v.at = "answered" /\ v.answer # "failed" =>
                v.answer = Promised(stored, v.token, v.request)
  PROVE  CheckInv'
<1>1. p \in Proc /\ TypeInv
  BY DEF Proc, IInv
<1>2. work'[p] = v /\ \A q \in Proc \ {p} : work'[q] = work[q]
  BY <1>1 DEF Step, TypeInv
<1>3. CheckedOK(p)'
  <2>1. SUFFICES ASSUME Sure(v)
                 PROVE  /\ v.names = Range(v.token) \ {"root"}
                        /\ v.names \subseteq clean
                        /\ \A q \in Proc : Writes(work'[q]) => Touches(work'[q]) \cap v.names = {}
    BY <1>2 DEF CheckedOK
  <2>2. /\ work[p].names = Range(work[p].token) \ {"root"}
        /\ work[p].names \subseteq clean
        /\ \A q \in Proc : Writes(work[q]) => Touches(work[q]) \cap work[p].names = {}
    BY <2>1 DEF CheckInv, CheckedOK
  <2>3. ASSUME NEW q \in Proc, Writes(work'[q]) PROVE Touches(work'[q]) \cap v.names = {}
    <3>1. q # p
      BY <1>2, <2>3
    <3>2. QED BY <1>2, <2>1, <2>2, <2>3, <3>1
  <2>4. QED BY <2>1, <2>2, <2>3
<1>4. QED
  BY <1>1, <1>2, <1>3, OneMoves

(* The start of a call ends the checks that it meets, and those answered.   *)
LEMMA BeginChecks ==
  ASSUME IInv, CheckInv, NEW p \in Proc, NEW w, Begin(p, w), w.at \in {"put", "erase", "look"},
         \A b \in BOOLEAN :
           LET v == [w EXCEPT !.alone = b]
           IN /\ v.at = w.at /\ v.names = w.names /\ v.alone = b
              /\ Sure(v) => v.names = Range(v.token) \ {"root"} /\ Had(stored, v)
  PROVE  CheckInv'
<1> DEFINE met(q) == Busy(q) /\ (Writes(w) \/ Writes(work[q])) /\ w.names \cap work[q].names # {}
           others == {q \in Proc : met(q)}
           b == others = {} /\ (Writes(w) \/ w.names \subseteq clean)
           v == [w EXCEPT !.alone = b]
<1>1. UNCHANGED stored
  BY DEF Begin
<1>2. clean' = clean \ UNION {w.names \cap work[q].names : q \in others}
  BY DEF Begin
<1>3. work' = [q \in Proc |->
          IF q = p THEN v
          ELSE IF ~Busy(q) THEN Idle
          ELSE IF met(q) THEN [work[q] EXCEPT !.alone = FALSE]
          ELSE work[q]]
  BY DEF Begin
<1>4. /\ v.at = w.at /\ v.names = w.names /\ v.alone = b /\ work'[p] = v
      /\ Sure(v) => v.names = Range(v.token) \ {"root"} /\ Had(stored, v)
  <2>1. b \in BOOLEAN
    OBVIOUS
  <2> HIDE DEF b
  <2>2. /\ v.at = w.at /\ v.names = w.names /\ v.alone = b
        /\ Sure(v) => v.names = Range(v.token) \ {"root"} /\ Had(stored, v)
    BY <2>1
  <2>3. QED
    BY <1>3, <2>2
<1>5. \A q \in Proc : met(q) <=> q \in others
  OBVIOUS
<1>6. \A n \in clean : n \notin clean' => \E q \in Proc : met(q) /\ n \in w.names /\ n \in work[q].names
  BY <1>2
<1>7. b => others = {} /\ (Writes(w) \/ w.names \subseteq clean)
  OBVIOUS
<1>8. \A q \in Proc : met(q) <=> /\ Busy(q) /\ (Writes(w) \/ Writes(work[q]))
                                 /\ w.names \cap work[q].names # {}
  OBVIOUS
<1>9. Writes(v) = Writes(w) /\ Touches(v) = w.names
  BY <1>4 DEF Writes, Touches
<1> HIDE DEF v, others, met, b
<1>10. ASSUME NEW q \in Proc \ {p}
       PROVE  /\ Writes(work'[q]) => Writes(work[q]) /\ Touches(work'[q]) = Touches(work[q])
              /\ Sure(work'[q]) => Busy(q) /\ ~met(q) /\ work'[q] = work[q]
  <2>1. CASE ~Busy(q)
    <3>1. work'[q] = Idle
      BY <1>3, <2>1
    <3>2. QED BY <3>1 DEF Idle, Writes, Sure
  <2>2. CASE Busy(q) /\ ~met(q)
    <3>1. work'[q] = work[q]
      BY <1>3, <2>2
    <3>2. QED BY <2>2, <3>1
  <2>3. CASE Busy(q) /\ met(q)
    <3>1. work'[q] = [work[q] EXCEPT !.alone = FALSE]
      BY <1>3, <2>3
    <3>2. /\ work'[q].at = work[q].at /\ work'[q].names = work[q].names /\ ~work'[q].alone
      BY <2>3, <3>1, MetCall DEF IInv
    <3>3. QED BY <3>2 DEF Writes, Touches, Sure
  <2>4. QED BY <2>1, <2>2, <2>3
<1>11. \A q \in Proc : Writes(work[q]) => Busy(q) /\ Touches(work[q]) = work[q].names
  BY DEF Writes, Busy, Touches
<1>12. ASSUME NEW c \in Checkers PROVE CheckedOK(c)'
  <2>0. c \in Proc
    BY DEF Proc
  <2>1. CASE c = p
    <3>1. SUFFICES ASSUME Sure(v)
                   PROVE  /\ v.names \subseteq clean'
                          /\ \A q \in Proc : Writes(work'[q]) => Touches(work'[q]) \cap v.names = {}
      <4>1. Sure(v) => v.at = "look"
        BY <1>4 DEF Sure
      <4>2. QED BY <1>1, <1>4, <2>1, <4>1 DEF CheckedOK
    <3>2. ~Writes(w) /\ v.alone
      BY <1>4, <3>1 DEF Sure, Writes
    <3>3. others = {} /\ w.names \subseteq clean
      BY <1>4, <1>7, <3>2
    <3>4. \A q \in Proc : ~met(q)
      BY <1>5, <3>3
    <3>5. v.names \subseteq clean'
      BY <1>4, <1>6, <3>3, <3>4
    <3>6. ASSUME NEW q \in Proc, Writes(work'[q]) PROVE Touches(work'[q]) \cap v.names = {}
      <4>1. q # p
        BY <1>4, <1>9, <3>2, <3>6
      <4>2. Writes(work[q]) /\ Touches(work'[q]) = Touches(work[q])
        BY <1>10, <3>6, <4>1
      <4>3. Busy(q) /\ Touches(work[q]) = work[q].names
        BY <1>11, <4>2
      <4>4. w.names \cap work[q].names = {}
        BY <1>8, <3>4, <4>2, <4>3
      <4>5. QED BY <1>4, <4>2, <4>3, <4>4
    <3>7. QED BY <3>5, <3>6
  <2>2. CASE c # p
    <3>1. CASE ~Sure(work'[c])
      BY <3>1 DEF CheckedOK
    <3>2. CASE Sure(work'[c])
      <4>1. Busy(c) /\ ~met(c) /\ work'[c] = work[c] /\ Sure(work[c])
        BY <1>10, <2>0, <2>2, <3>2
      <4>2. CheckedOK(c) /\ work[c].names \subseteq clean
        BY <4>1 DEF CheckInv, CheckedOK
      <4>3. \A q \in Proc : Writes(work[q]) => Touches(work[q]) \cap work[c].names = {}
        BY <4>1, <4>2 DEF CheckedOK
      <4>4. ~Writes(w) \/ w.names \cap work[c].names = {}
        BY <1>8, <2>0, <4>1
      <4>5. ASSUME NEW n \in work[c].names PROVE n \in clean'
        <5>1. SUFFICES ASSUME n \notin clean' PROVE FALSE
          OBVIOUS
        <5>2. PICK q \in Proc : met(q) /\ n \in w.names /\ n \in work[q].names
          BY <1>6, <4>2, <5>1
        <5>3. Writes(work[q])
          BY <1>8, <4>4, <5>2
        <5>4. QED BY <1>11, <4>3, <5>2, <5>3
      <4>6. ASSUME NEW q \in Proc, Writes(work'[q])
            PROVE  Touches(work'[q]) \cap work[c].names = {}
        <5>1. CASE q = p
          BY <1>4, <1>9, <4>4, <4>6, <5>1
        <5>2. CASE q # p
          BY <1>10, <4>3, <4>6, <5>2
        <5>3. QED BY <5>1, <5>2
      <4>7. QED BY <1>1, <4>1, <4>2, <4>5, <4>6, CheckFrame DEF IInv
    <3>3. QED BY <3>1, <3>2
  <2>3. QED BY <2>1, <2>2
<1>13. QED BY <1>12 DEF CheckInv

LEMMA WritersBegin ==
  ASSUME IInv, CheckInv, NEW p \in Writers, SetPolicy(p) \/ DeletePolicy(p)
  PROVE  CheckInv'
<1>0. p \in Proc
  BY DEF Proc
<1>1. CASE SetPolicy(p)
  <2>1. PICK n \in Name, d \in Written :
          Begin(p, [at |-> "put", names |-> {n}, doc |-> d, alone |-> TRUE])
    BY <1>1 DEF SetPolicy
  <2> DEFINE w == [at |-> "put", names |-> {n}, doc |-> d, alone |-> TRUE]
  <2>2. ASSUME NEW b \in BOOLEAN
        PROVE  LET v == [w EXCEPT !.alone = b]
               IN v.at = w.at /\ v.names = w.names /\ v.alone = b /\ ~Sure(v)
    BY DEF Sure
  <2>3. w.at = "put" /\ Begin(p, w)
    BY <2>1
  <2> HIDE DEF w
  <2>4. QED BY <1>0, <2>2, <2>3, BeginChecks
<1>2. CASE DeletePolicy(p)
  <2>1. PICK n \in Name \ {Default} : Begin(p, [at |-> "erase", names |-> {n}, alone |-> TRUE])
    BY <1>2 DEF DeletePolicy
  <2> DEFINE w == [at |-> "erase", names |-> {n}, alone |-> TRUE]
  <2>2. ASSUME NEW b \in BOOLEAN
        PROVE  LET v == [w EXCEPT !.alone = b]
               IN v.at = w.at /\ v.names = w.names /\ v.alone = b /\ ~Sure(v)
    BY DEF Sure
  <2>3. w.at = "erase" /\ Begin(p, w)
    BY <2>1
  <2> HIDE DEF w
  <2>4. QED BY <1>0, <2>2, <2>3, BeginChecks
<1>3. QED BY <1>1, <1>2

LEMMA NewHad ==
  ASSUME NEW s, NEW v, NEW t \in Tokens, v.at = "look", v.todo = t, v.found = <<>>,
         v.names = Range(t) \ {"root"}
  PROVE  Had(s, v)
<1>1. Distinct(v.todo)
  BY TokenNames
<1>2. v.names \ Range(v.todo) = {} /\ Len(v.found) = 0
  OBVIOUS
<1>3. QED BY <1>1, <1>2 DEF Had

LEMMA CheckersBegin ==
  ASSUME IInv, CheckInv, NEW p \in Checkers, CheckRequest(p) \/ ReadPolicy(p)
  PROVE  CheckInv'
<1>0. p \in Proc
  BY DEF Proc
<1>1. CASE CheckRequest(p)
  <2>1. PICK tok \in Tokens : Begin(p, NewCheck(tok, Range(tok) \ {"root"}, TRUE))
    BY <1>1 DEF CheckRequest, NewCheck
  <2> DEFINE w == NewCheck(tok, Range(tok) \ {"root"}, TRUE)
  <2>2. ASSUME NEW b \in BOOLEAN
        PROVE  LET v == [w EXCEPT !.alone = b]
               IN /\ v.at = w.at /\ v.names = w.names /\ v.alone = b
                  /\ Sure(v) => v.names = Range(v.token) \ {"root"} /\ Had(stored, v)
    <3> DEFINE v == [w EXCEPT !.alone = b]
    <3>1. /\ v.at = "look" /\ v.todo = tok /\ v.token = tok /\ v.found = <<>> /\ v.alone = b
          /\ v.names = Range(tok) \ {"root"} /\ w.at = "look" /\ w.names = Range(tok) \ {"root"}
      BY DEF NewCheck
    <3> HIDE DEF v, w
    <3>2. Had(stored, v)
      BY <3>1, NewHad
    <3>3. QED BY <3>1, <3>2 DEF v
  <2>3. w.at = "look" /\ Begin(p, w)
    BY <2>1 DEF NewCheck
  <2> HIDE DEF w
  <2>4. QED BY <1>0, <2>2, <2>3, BeginChecks
<1>2. CASE ReadPolicy(p)
  <2>1. PICK n \in Name : Begin(p, NewCheck(<<n>>, {n}, FALSE))
    BY <1>2 DEF ReadPolicy, NewCheck
  <2> DEFINE w == NewCheck(<<n>>, {n}, FALSE)
  <2>2. ASSUME NEW b \in BOOLEAN
        PROVE  LET v == [w EXCEPT !.alone = b]
               IN v.at = w.at /\ v.names = w.names /\ v.alone = b /\ ~Sure(v)
    BY DEF Sure, NewCheck
  <2>3. w.at = "look" /\ Begin(p, w)
    BY <2>1 DEF NewCheck
  <2> HIDE DEF w
  <2>4. QED BY <1>0, <2>2, <2>3, BeginChecks
<1>3. QED BY <1>1, <1>2

-----------------------------------------------------------------------------
(* The steps of writers and checkers keep CheckInv.                         *)

LEMMA WritersMove ==
  ASSUME IInv, CheckInv, NEW p \in Writers,
         Put(p) \/ SetType(p) \/ Insert(p) \/ Erase(p) \/ Uncache(p) \/ Untype(p)
  PROVE  CheckInv'
<1>1. p \in Proc /\ Writes(work[p])
  BY DEF Proc, Put, SetType, Insert, Erase, Uncache, Untype, At, Writes
<1>2. work[p] \in SetCall \cup DeleteCall
  BY <1>1, WriterCall DEF IInv
<1>3. \A a \in {"type", "insert", "uncache", "untype"} :
        LET v == [work[p] EXCEPT !.at = a]
        IN Writes(v) /\ v.names = work[p].names
  BY <1>2 DEF SetCall, DeleteCall, Writes
<1>4. clean \subseteq Cleaned(p)
  BY DEF Cleaned
<1>5. ASSUME Fail(p) PROVE CheckInv'
  <2>1. Step(p, Idle) /\ UNCHANGED <<stored, clean>>
    BY <1>5 DEF Fail
  <2>2. QED BY <1>1, <2>1, WriterMoves
<1>6. ASSUME NEW a \in {"type", "insert", "uncache", "untype"},
             Step(p, [work[p] EXCEPT !.at = a]), UNCHANGED clean,
             stored' = stored \/ \E x : stored' = [stored EXCEPT ![Name1(p)] = x]
      PROVE  CheckInv'
  <2> DEFINE v == [work[p] EXCEPT !.at = a]
  <2>1. Writes(v) /\ v.names = work[p].names /\ Step(p, v)
    BY <1>3, <1>6
  <2> HIDE DEF v
  <2>2. QED BY <1>1, <1>6, <2>1, WriterMoves
<1>7. ASSUME Step(p, Idle), clean' = Cleaned(p), UNCHANGED stored
      PROVE  CheckInv'
  BY <1>1, <1>4, <1>7, WriterMoves
<1>8. CASE Put(p)
  <2>1. Fail(p) \/ (/\ stored' = [stored EXCEPT ![Name1(p)] = work[p].doc]
                    /\ Step(p, [work[p] EXCEPT !.at = "type"]) /\ UNCHANGED clean)
    BY <1>8 DEF Put
  <2>2. QED BY <1>5, <1>6, <2>1
<1>9. CASE SetType(p)
  BY <1>6, <1>9 DEF SetType
<1>10. CASE Insert(p)
  BY <1>7, <1>10 DEF Insert
<1>11. CASE Erase(p)
  <2>1. Fail(p) \/ (/\ stored' = [stored EXCEPT ![Name1(p)] = None]
                    /\ Step(p, [work[p] EXCEPT !.at = "uncache"]) /\ UNCHANGED clean)
    BY <1>11 DEF Erase
  <2>2. QED BY <1>5, <1>6, <2>1
<1>12. CASE Uncache(p)
  BY <1>6, <1>12 DEF Uncache
<1>13. CASE Untype(p)
  BY <1>7, <1>13 DEF Untype
<1>14. QED BY <1>8, <1>9, <1>10, <1>11, <1>12, <1>13

(* What is known of a sure check that is fetching. *)
LEMMA SureFacts ==
  ASSUME IInv, CheckInv, NEW p \in Checkers, work[p].at \in {"look", "read", "retype", "fill"},
         Sure(work[p])
  PROVE  /\ Had(stored, work[p])
         /\ work[p].names = Range(work[p].token) \ {"root"}
         /\ \A n \in work[p].names : n \in Name /\ Agree(n)
         /\ work[p].at \in {"retype", "fill"} => work[p].doc = stored[Head(work[p].todo)]
<1>1. p \in Proc
  BY DEF Proc
<1>2. /\ work[p].names = Range(work[p].token) \ {"root"}
      /\ work[p].names \subseteq clean
      /\ \A q \in Proc : Writes(work[q]) => Touches(work[q]) \cap work[p].names = {}
      /\ Had(stored, work[p])
  BY DEF CheckInv, CheckedOK
<1>3. \A q \in Proc : Late(work[q]) => Writes(work[q]) /\ Touches(work[q]) = work[q].names
  BY DEF Late, Writes, Touches
<1>4. \A n \in work[p].names : n \in clean /\ \A q \in Proc : Late(work[q]) => n \notin work[q].names
  BY <1>2, <1>3
<1>5. \A n \in work[p].names : n \in Name /\ Agree(n)
  BY <1>4 DEF IInv, DataInv, Agreed, TypeInv
<1>6. work[p].at \in {"retype", "fill"} => work[p].doc = stored[Head(work[p].todo)]
  <2>1. work[p].at \in {"retype", "fill"} => Head(work[p].todo) \in work[p].names
    BY <1>1, CheckerCall DEF IInv, CheckOK
  <2>2. QED BY <1>1, <1>2, <2>1 DEF IInv, DataInv, FillOK
<1>7. QED BY <1>2, <1>5, <1>6

LEMMA AtMoves ==
  ASSUME IInv, CheckInv, NEW p \in Checkers, work[p].at \in {"look", "read", "retype", "fill"},
         NEW a \in {"read", "retype", "fill"}, NEW d,
         Sure(work[p]) /\ a = "read" => stored[Head(work[p].todo)] # None,
         \/ Step(p, [work[p] EXCEPT !.at = a])
         \/ Step(p, [work[p] EXCEPT !.at = a, !.doc = d]),
         UNCHANGED <<stored, clean>>
  PROVE  CheckInv'
<1>0. PICK w : w = work[p]
  OBVIOUS
<1>1. w \in CheckCall
  BY <1>0, CheckerCall DEF IInv, Proc
<1>2. ASSUME NEW v, v = [w EXCEPT !.at = a] \/ v = [w EXCEPT !.at = a, !.doc = d]
      PROVE  /\ v.at = a /\ v.names = w.names /\ v.token = w.token /\ v.acl = w.acl
             /\ v.alone = w.alone /\ v.todo = w.todo /\ v.found = w.found
  BY <1>1, <1>2 DEF CheckCall
<1>3. PICK v : Step(p, v) /\ (v = [w EXCEPT !.at = a] \/ v = [w EXCEPT !.at = a, !.doc = d])
  BY <1>0
<1>4. /\ v.at = a /\ v.names = w.names /\ v.token = w.token /\ v.acl = w.acl
      /\ v.alone = w.alone /\ v.todo = w.todo /\ v.found = w.found
  BY <1>2, <1>3
<1>5. ~Writes(v)
  BY <1>4 DEF Writes
<1>6. ASSUME Sure(v) PROVE Sure(w) /\ Had(stored, v)
  <2>1. Sure(w)
    BY <1>0, <1>4, <1>6 DEF Sure
  <2>2. Had(stored, w)
    BY <1>0, <2>1, SureFacts
  <2>3. v.at = "read" => stored[Head(v.todo)] # None
    BY <1>0, <1>4, <2>1
  <2>4. QED BY <1>4, <2>1, <2>2, <2>3 DEF Had
<1>7. QED
  BY <1>0, <1>3, <1>4, <1>5, <1>6, CheckMoves

LEMMA FetchMoves ==
  ASSUME IInv, CheckInv, NEW p \in Checkers, work[p].at \in {"look", "read", "fill"},
         work[p].todo # <<>>, NEW docs \in Seq(Doc),
         Sure(work[p]) =>
           LET h == Head(work[p].todo)
           IN IF h \in work[p].names THEN docs = <<stored[h]>> /\ stored[h] # None
              ELSE docs = <<>>,
         Fetched(p, docs), UNCHANGED <<stored, clean>>
  PROVE  CheckInv'
<1>0. PICK w : w = work[p]
  OBVIOUS
<1>1. w \in CheckCall /\ w.found \in Seq(Doc) /\ w.todo \in Seq(Item)
  BY <1>0, CheckerCall DEF IInv, Proc, CheckCall
<1> DEFINE v == [w EXCEPT !.at = "look", !.doc = None, !.found = @ \o docs, !.todo = Tail(@)]
<1>2. /\ v.at = "look" /\ v.names = w.names /\ v.token = w.token /\ v.acl = w.acl
      /\ v.alone = w.alone /\ v.todo = Tail(w.todo) /\ v.found = w.found \o docs
  BY <1>1 DEF CheckCall
<1>3. Step(p, v)
  BY <1>0 DEF Fetched
<1> HIDE DEF v
<1>4. ~Writes(v)
  BY <1>2 DEF Writes
<1>5. ASSUME Sure(v) PROVE Sure(w) /\ Had(stored, v)
  <2>1. Sure(w)
    BY <1>0, <1>2, <1>5 DEF Sure
  <2>2. Had(stored, w)
    BY <1>0, <2>1, SureFacts
  <2>3. PICK s : s = stored
    OBVIOUS
  <2>4. /\ Head(w.todo) \in w.names => docs = <<s[Head(w.todo)]>> /\ s[Head(w.todo)] # None
        /\ Head(w.todo) \notin w.names => docs = <<>>
    BY <1>0, <2>1, <2>3
  <2>5. w.todo # <<>>
    BY <1>0
  <2>6. Had(s, v)
    BY <1>1, <1>2, <2>2, <2>3, <2>4, <2>5, HadMore
  <2>7. QED BY <2>1, <2>3, <2>6
<1>6. QED
  BY <1>0, <1>2, <1>3, <1>4, <1>5, CheckMoves

LEMMA AnswerMoves ==
  ASSUME IInv, CheckInv, NEW p \in Checkers, work[p].at = "look", NEW r, NEW a,
         Answer(p, r, a), UNCHANGED <<stored, clean>>,
         Sure(work[p]) => a = Promised(stored, work[p].token, r)
  PROVE  CheckInv'
<1>0. PICK w : w = work[p]
  OBVIOUS
<1>1. w \in CheckCall
  BY <1>0, CheckerCall DEF IInv, Proc
<1> DEFINE v == [w EXCEPT !.at = "answered", !.doc = None, !.request = r, !.answer = a]
<1>2. /\ v.at = "answered" /\ v.names = w.names /\ v.token = w.token /\ v.acl = w.acl
      /\ v.alone = w.alone /\ v.request = r /\ v.answer = a
  BY <1>1 DEF CheckCall
<1>3. Step(p, v)
  BY <1>0 DEF Answer
<1> HIDE DEF v
<1>4. ~Writes(v)
  BY <1>2 DEF Writes
<1>5. ASSUME Sure(v) PROVE Sure(w) /\ v.answer = Promised(stored, v.token, v.request)
  <2>1. Sure(w)
    BY <1>0, <1>2, <1>5 DEF Sure
  <2>2. QED BY <1>0, <1>2, <2>1
<1>6. QED
  BY <1>0, <1>2, <1>3, <1>4, <1>5, CheckMoves

LEMMA LookMoves ==
  ASSUME IInv, CheckInv, NEW p \in Checkers, Look(p)
  PROVE  CheckInv'
<1>0. PICK n : n = Head(work[p].todo)
  OBVIOUS
<1>1. /\ p \in Proc /\ work[p].at = "look" /\ work[p].todo # <<>> /\ n # "root"
      /\ UNCHANGED <<stored, clean>>
  BY <1>0 DEF Look, At, Proc
<1>2. n \in Name /\ n \in work[p].names
  BY <1>0, <1>1, HeadIsName DEF IInv
<1>3. ASSUME Sure(work[p])
      PROVE  /\ Agree(n) /\ work[p].acl /\ work[p].token \in Tokens
             /\ n \in Range(work[p].token) \ {"root"}
  BY <1>1, <1>2, <1>3, SureFacts, SureCall DEF IInv, Sure
<1>4. CASE work[p].acl /\ n \notin typed
  <2>1. Answer(p, None, "error")
    BY <1>0, <1>4 DEF Look
  <2>2. ASSUME Sure(work[p]) PROVE "error" = Promised(stored, work[p].token, None)
    <3>1. stored[n] = None
      BY <1>3, <1>4, <2>2 DEF Agree
    <3>2. QED BY <1>3, <2>2, <3>1, ErrorPromised
  <2>3. QED BY <1>1, <2>1, <2>2, AnswerMoves
<1>5. CASE ~(work[p].acl /\ n \notin typed) /\ cache[n] # None
  <2>1. Fetched(p, <<cache[n]>>)
    BY <1>0, <1>5 DEF Look
  <2>2. cache[n] \in Doc
    BY <1>2, <1>5 DEF IInv, TypeInv, Slot
  <2>3. <<cache[n]>> \in Seq(Doc)
    BY <2>2
  <2>4. ASSUME Sure(work[p]) PROVE cache[n] = stored[n] /\ stored[n] # None
    BY <1>3, <1>5, <2>4 DEF Agree
  <2>5. QED BY <1>0, <1>1, <1>2, <2>1, <2>3, <2>4, FetchMoves
<1>6. CASE ~(work[p].acl /\ n \notin typed) /\ cache[n] = None
  <2>1. Step(p, [work[p] EXCEPT !.at = "read"])
    BY <1>0, <1>6 DEF Look
  <2>2. ASSUME Sure(work[p]) PROVE stored[n] # None
    BY <1>3, <1>6, <2>2 DEF Agree
  <2>3. QED BY <1>0, <1>1, <2>1, <2>2, AtMoves
<1>7. QED BY <1>4, <1>5, <1>6

LEMMA LookRootMoves ==
  ASSUME IInv, CheckInv, NEW p \in Checkers, LookRoot(p)
  PROVE  CheckInv'
<1>1. /\ work[p].at = "look" /\ work[p].todo # <<>> /\ Head(work[p].todo) = "root"
      /\ Fetched(p, <<>>) /\ UNCHANGED <<stored, clean>>
  BY DEF LookRoot, At
<1>2. Sure(work[p]) => "root" \notin work[p].names
  BY SureCall, NoneIsNoDoc DEF IInv
<1>3. <<>> \in Seq(Doc)
  OBVIOUS
<1>4. QED BY <1>1, <1>2, <1>3, FetchMoves

LEMMA ReadMoves ==
  ASSUME IInv, CheckInv, NEW p \in Checkers, Read(p)
  PROVE  CheckInv'
<1>0. PICK n : n = Head(work[p].todo)
  OBVIOUS
<1>1. p \in Proc /\ work[p].at = "read"
  BY DEF Read, At, Proc
<1>2. work[p] \in CheckCall /\ CheckOK(work[p])
  BY <1>1, CheckerCall DEF IInv
<1>3. work[p].todo # <<>>
  BY <1>1, <1>2 DEF CheckOK
<1>4. Sure(work[p]) => stored[n] # None
  BY <1>0, <1>1, SureFacts DEF Had
<1>5. CASE Fail(p)
  <2>1. UNCHANGED <<stored, clean>>
    BY <1>5 DEF Fail
  <2>2. CASE p \in Writers
    <3>1. Step(p, Idle)
      BY <1>5, <2>2 DEF Fail
    <3>2. ~Sure(Idle) /\ ~Writes(Idle)
      BY DEF Sure, Writes, Idle
    <3>3. QED BY <1>1, <2>1, <3>1, <3>2, CheckMoves
  <2>3. CASE p \notin Writers
    <3> DEFINE v == [work[p] EXCEPT !.at = "answered", !.answer = "failed"]
    <3>1. Step(p, v)
      BY <1>5, <2>3 DEF Fail
    <3>2. /\ v.at = "answered" /\ v.answer = "failed" /\ v.names = work[p].names
          /\ v.token = work[p].token /\ v.acl = work[p].acl /\ v.alone = work[p].alone
      BY <1>2 DEF CheckCall
    <3> HIDE DEF v
    <3>3. ~Writes(v) /\ (Sure(v) => Sure(work[p]))
      BY <1>1, <3>2 DEF Writes, Sure
    <3>4. QED BY <1>1, <2>1, <3>1, <3>2, <3>3, CheckMoves
  <2>4. QED BY <2>2, <2>3
<1>6. CASE ~Fail(p) /\ stored[n] = None
  <2>1. Fetched(p, <<>>) /\ UNCHANGED <<stored, clean>>
    BY <1>0, <1>6 DEF Read
  <2>2. <<>> \in Seq(Doc)
    OBVIOUS
  <2>3. QED BY <1>1, <1>3, <1>4, <1>6, <2>1, <2>2, FetchMoves
<1>7. CASE ~Fail(p) /\ stored[n] # None
  <2>1. /\ Step(p, [work[p] EXCEPT !.at = "retype", !.doc = stored[n]])
        /\ UNCHANGED <<stored, clean>>
    BY <1>0, <1>7 DEF Read
  <2>2. QED BY <1>1, <2>1, AtMoves
<1>8. QED BY <1>5, <1>6, <1>7

LEMMA RetypeMoves ==
  ASSUME IInv, CheckInv, NEW p \in Checkers, Retype(p)
  PROVE  CheckInv'
<1>1. /\ work[p].at = "retype" /\ Step(p, [work[p] EXCEPT !.at = "fill"])
      /\ UNCHANGED <<stored, clean>>
  BY DEF Retype, At
<1>2. QED BY <1>1, AtMoves

LEMMA FillMoves ==
  ASSUME IInv, CheckInv, NEW p \in Checkers, Fill(p)
  PROVE  CheckInv'
<1>0. PICK d : d = work[p].doc
  OBVIOUS
<1>1. p \in Proc /\ work[p].at = "fill" /\ Fetched(p, <<d>>) /\ UNCHANGED <<stored, clean>>
  BY <1>0 DEF Fill, At, Proc
<1>2. work[p].todo # <<>> /\ d \in Doc
  BY <1>0, <1>1, CheckerCall DEF IInv, CheckOK
<1>3. <<d>> \in Seq(Doc) /\ d # None
  BY <1>2, NoneIsNoDoc
<1>4. Sure(work[p]) => d = stored[Head(work[p].todo)] /\ Head(work[p].todo) \in work[p].names
  BY <1>0, <1>1, SureFacts, CheckerCall DEF IInv, CheckOK
<1>5. QED BY <1>1, <1>2, <1>3, <1>4, FetchMoves

LEMMA DecideMoves ==
  ASSUME IInv, CheckInv, NEW p \in Checkers, Decide(p)
  PROVE  CheckInv'
<1>1. work[p].at = "look" /\ work[p].todo = <<>> /\ UNCHANGED <<stored, clean>>
  BY DEF Decide, At
<1>2. CASE work[p].acl
  <2>1. PICK r \in Request : Answer(p, r, Verdict(work[p], r))
    BY <1>2 DEF Decide
  <2>2. ASSUME Sure(work[p])
        PROVE  Verdict(work[p], r) = Promised(stored, work[p].token, r)
    <3>1. work[p] \in CheckCall
      BY <2>2, SureCall DEF IInv
    <3>2. Had(stored, work[p]) /\ work[p].names = Range(work[p].token) \ {"root"}
      BY <1>1, <2>2, SureFacts
    <3>3. stored \in [Name -> Slot]
      BY DEF IInv, TypeInv
    <3>4. QED BY <1>1, <3>1, <3>2, <3>3, VerdictPromised
  <2>3. QED BY <1>1, <2>1, <2>2, AnswerMoves
<1>3. CASE ~work[p].acl
  <2>1. PICK a : Answer(p, None, a)
    BY <1>3 DEF Decide
  <2>2. ~Sure(work[p])
    BY <1>3 DEF Sure
  <2>3. QED BY <1>1, <2>1, <2>2, AnswerMoves
<1>4. QED BY <1>2, <1>3

-----------------------------------------------------------------------------
(* CheckInv is inductive, given IInv.                                       *)

LEMMA IdleChecks == (\A p \in Proc : work[p] = Idle) => CheckInv
BY DEF CheckInv, CheckedOK, Sure, Idle, Proc

LEMMA ChecksInductive == IInv /\ CheckInv /\ [Next]_vars => CheckInv'
<1> SUFFICES ASSUME IInv, CheckInv, [Next]_vars PROVE CheckInv'
  OBVIOUS
<1>1. ASSUME NEW p \in Writers, WriterStep(p) PROVE CheckInv'
  BY <1>1, WritersBegin, WritersMove DEF WriterStep
<1>2. ASSUME NEW p \in Checkers, CheckerStep(p) PROVE CheckInv'
  BY <1>2, CheckersBegin, LookMoves, LookRootMoves, ReadMoves, RetypeMoves, FillMoves,
     DecideMoves DEF CheckerStep
<1>3. ASSUME UNCHANGED <<stored, work, clean>> PROVE CheckInv'
  BY <1>3 DEF CheckInv, CheckedOK
<1>4. ASSUME NEW n \in Name, Evict(n) PROVE CheckInv'
  BY <1>3, <1>4 DEF Evict
<1>5. CASE Restart
  <2>1. \A p \in Proc : work'[p] = Idle
    BY <1>5 DEF Restart
  <2>2. QED
    BY <2>1 DEF CheckInv, CheckedOK, Sure, Idle, Proc
<1>6. CASE UNCHANGED vars
  BY <1>3, <1>6 DEF vars
<1>7. QED
  BY <1>1, <1>2, <1>4, <1>5, <1>6 DEF Next

LEMMA CheckedSound == CheckInv => DecisionCurrent
BY DEF CheckInv, CheckedOK, Sure, DecisionCurrent

(* A check that no write of its policies overlapped answers what the stored *)
(* documents grant, whatever documents, tokens and calls there are, in      *)
(* whatever order the token names its policies and whatever the cache held  *)
(* (policy_store.rs:639-677, acl.rs:125-162, policy.rs:384-580).            *)
THEOREM DecisionCurrentHolds == Spec => []DecisionCurrent
<1>1. Init => CheckInv
  BY IdleChecks DEF Init
<1>2. QED
  BY <1>1, Invariant, ChecksInductive, CheckedSound, PTL DEF Spec

-----------------------------------------------------------------------------
(* One rule decides whatever a check found.                                 *)

(* The rules of finitely many finite documents are finitely many.           *)
LEMMA RulesFinite ==
  ASSUME NEW fs, NEW m \in Nat, \A i \in 1..m : IsFiniteSet(DOMAIN Text[fs[i]])
  PROVE  IsFiniteSet(UNION {DOMAIN Text[fs[i]] : i \in 1..m})
<1> DEFINE Upto(n) == UNION {DOMAIN Text[fs[i]] : i \in 1..n}
           T == {n \in Nat : n <= m => IsFiniteSet(Upto(n))}
<1>1. 0 \in T
  <2>1. Upto(0) = {}
    OBVIOUS
  <2>2. QED BY <2>1, FS_EmptySet
<1>2. ASSUME NEW n \in Nat, n \in T PROVE n + 1 \in T
  <2>1. SUFFICES ASSUME n + 1 <= m PROVE IsFiniteSet(Upto(n + 1))
    OBVIOUS
  <2>2. IsFiniteSet(Upto(n)) /\ n + 1 \in 1..m
    BY <1>2, <2>1
  <2>3. 1..(n + 1) = (1..n) \cup {n + 1}
    OBVIOUS
  <2>4. Upto(n + 1) = Upto(n) \cup DOMAIN Text[fs[n + 1]]
    BY <2>3, Zenon
  <2> HIDE DEF Upto
  <2>5. IsFiniteSet(DOMAIN Text[fs[n + 1]])
    BY <2>2
  <2>6. IsFiniteSet(Upto(n) \cup DOMAIN Text[fs[n + 1]])
    BY <2>2, <2>5, FS_Union, Zenon
  <2>7. QED BY <2>4, <2>6
<1>3. T = Nat
  <2> HIDE DEF T
  <2>1. T \subseteq Nat
    BY DEF T
  <2>2. QED BY <1>1, <1>2, <2>1, Counting
<1>4. QED
  <2>1. m \in T
    BY <1>3
  <2>2. QED BY <2>1

(* The rules that a check found are rules of documents.                     *)
LEMMA RulesOfCheck ==
  ASSUME NEW w \in CheckCall
  PROVE  /\ Rules(w) \subseteq KeySet
         /\ IsFiniteSet(Rules(w))
         /\ \A k \in Rules(w) : IsKey(k)
<1>1. w.found \in Seq(Doc)
  BY DEF CheckCall
<1>2. Len(w.found) \in Nat /\ Range(w.found) = {w.found[i] : i \in 1..Len(w.found)}
  BY <1>1 DEF Range
<1>3. \A i \in 1..Len(w.found) : w.found[i] \in Doc
  BY <1>1
<1>4. \A i \in 1..Len(w.found) : IsDocument(Text[w.found[i]])
  BY <1>3, DocumentAssumption
<1>5. Rules(w) = UNION {DOMAIN Text[w.found[i]] : i \in 1..Len(w.found)}
  BY <1>2, Zenon DEF Rules
<1>6. \A i \in 1..Len(w.found) : IsFiniteSet(DOMAIN Text[w.found[i]])
  BY <1>4 DEF IsDocument
<1>7. IsFiniteSet(Rules(w))
  <2> DEFINE fs == w.found
             m == Len(w.found)
  <2>1. m \in Nat /\ \A i \in 1..m : IsFiniteSet(DOMAIN Text[fs[i]])
    BY <1>2, <1>6
  <2>2. Rules(w) = UNION {DOMAIN Text[fs[i]] : i \in 1..m}
    BY <1>5
  <2> HIDE DEF fs, m
  <2>3. IsFiniteSet(UNION {DOMAIN Text[fs[i]] : i \in 1..m})
    BY <2>1, RulesFinite
  <2>4. QED BY <2>2, <2>3, Zenon
<1>8. \A k \in Rules(w) : IsKey(k)
  BY <1>4, <1>5 DEF IsDocument
<1>9. Rules(w) \subseteq KeySet
  BY <1>8 DEF IsKey, KeySet, PathSet
<1>10. QED BY <1>7, <1>8, <1>9

LEMMA PathTyped ==
  ASSUME NEW p
  PROVE  p \in Path <=> p \in Seq(Literal) /\ p # <<>> /\ Len(p) <= MaxSegments
<1>1. MaxSegments \in Nat
  BY BoundAssumption
<1>2. ASSUME p \in Path PROVE p \in Seq(Literal) /\ p # <<>> /\ Len(p) <= MaxSegments
  <2>1. PICK m \in 0..MaxSegments : p \in [1..m -> Literal]
    BY <1>2 DEF Path, SeqOf
  <2>2. m \in Nat /\ p \in Seq(Literal) /\ Len(p) = m
    BY <1>1, <2>1
  <2>3. p # <<>>
    BY <1>2 DEF Path
  <2>4. QED BY <1>1, <2>2, <2>3
<1>3. ASSUME p \in Seq(Literal), p # <<>>, Len(p) <= MaxSegments PROVE p \in Path
  <2>1. Len(p) \in 0..MaxSegments /\ p \in [1..Len(p) -> Literal]
    BY <1>1, <1>3
  <2>2. QED BY <1>3, <2>1 DEF Path, SeqOf
<1>4. QED BY <1>2, <1>3

LEMMA OneDecidesSound == IInv => OneDecides
<1> SUFFICES ASSUME IInv, NEW p \in Checkers, Decided(work[p]), Hit(work[p]) # {}
             PROVE  Cardinality(Deciding(Rules(work[p]), work[p].request)) = 1
  BY DEF OneDecides
<1>1. work[p].at = "answered" /\ work[p].answer \in {"allowed", "denied"}
  BY DEF Decided
<1>2. work[p] \in CheckCall /\ CheckOK(work[p])
  <2>1. CallOK(p)
    BY DEF IInv, TypeInv, Proc
  <2>2. QED BY <1>1, <2>1 DEF CallOK, Idle, SetCall, DeleteCall
<1>3. work[p].request \in Request
  BY <1>1, <1>2 DEF CheckOK
<1>4. work[p].request.path \in Seq(Literal)
  BY <1>3, RequestAssumption, PathTyped
<1>5. \E k \in Rules(work[p]) : Hits(k, work[p].request.path)
  BY DEF Hit
<1>6. QED BY <1>2, <1>4, <1>5, RulesOfCheck, ExactlyOne

(* Policy::parse makes documents: DocumentAssumption asks no more of Text   *)
(* than that each was parsed from finitely many rules (policy.rs:226-378).  *)
LEMMA ParsedIsDocument ==
  ASSUME NEW rules, IsFiniteSet(rules),
         \A r \in rules : /\ r.path \in Seq(Literal \cup {Plus}) /\ r.path # <<>>
                          /\ r.star \in BOOLEAN
  PROVE  IsDocument(Parsed(rules))
<1>1. DOMAIN Parsed(rules) = {Key(r) : r \in rules}
  BY DEF Parsed
<1>2. IsFiniteSet({Key(r) : r \in rules})
  <2> DEFINE f == [r \in rules |-> Key(r)]
  <2>1. f \in Surjection(rules, {Key(r) : r \in rules})
    BY DEF Surjection
  <2>2. QED BY <2>1, FS_Surjection
<1>3. ASSUME NEW k \in {Key(r) : r \in rules}
      PROVE  IsKey(k) /\ ("deny" \in Parsed(rules)[k].caps => Parsed(rules)[k].caps = {"deny"})
  <2>1. PICK r \in rules : k = Key(r)
    OBVIOUS
  <2>2. IsKey(k)
    BY <2>1 DEF IsKey, Key
  <2> DEFINE c == CHOOSE q \in rules : Key(q) = k
  <2>3. Parsed(rules)[k] = Permissions(c)
    BY <1>3 DEF Parsed
  <2> HIDE DEF c
  <2>4. "deny" \in Permissions(c).caps => Permissions(c).caps = {"deny"}
    BY DEF Permissions
  <2>5. QED BY <2>2, <2>3, <2>4
<1>4. QED BY <1>1, <1>2, <1>3 DEF IsDocument

-----------------------------------------------------------------------------
(* A rule that covers no more than another.                                 *)

(* The three kinds of rules cover alike.                                    *)
LEMMA HitsCovers ==
  ASSUME NEW k \in KeySet, IsKey(k), NEW path \in Seq(Literal)
  PROVE  Hits(k, path) <=> Covers(k, path)
<1>0. PICK q : q = k.path
  OBVIOUS
<1>1. /\ q \in PathSet /\ Len(q) \in Nat /\ DOMAIN q = 1..Len(q) /\ q # <<>> /\ Len(q) \in 1..Len(q)
      /\ Len(path) \in Nat /\ \A i \in 1..Len(path) : path[i] \in Literal
  <2>1. q \in PathSet /\ q # <<>>
    BY <1>0 DEF KeySet, IsKey
  <2>2. QED BY <2>1 DEF PathSet
<1>2. CASE k.wild
  BY <1>2 DEF Hits
<1>3. CASE ~k.wild /\ k.glob
  <2>1. \A i \in 1..Len(q) : q[i] # Plus
    BY <1>0, <1>1, <1>3 DEF IsKey, Range
  <2>2. \A i \in 1..Len(q) : (i \in 1..Len(q) - 1 \/ i = Len(q)) /\ ~(i \in 1..Len(q) - 1 /\ i = Len(q))
    <3>1. \A n \in Nat : \A i \in 1..n : (i \in 1..n - 1 \/ i = n) /\ ~(i \in 1..n - 1 /\ i = n)
      OBVIOUS
    <3>2. QED BY <1>1, <3>1
  <2>3. \A i \in 1..Len(q) - 1 : i \in 1..Len(q)
    BY <1>1
  <2>4. Len(q) <= Len(path) /\ path[Len(q)] = q[Len(q)] => <<path[Len(q)], q[Len(q)]>> \in StartsWith
    <3>1. Len(q) <= Len(path) => path[Len(q)] \in Literal
      BY <1>1
    <3>2. QED BY <3>1, SegmentAssumption
  <2>5. ASSUME HasPrefix(path, k) PROVE Covers(k, path)
    <3>1. /\ Len(q) <= Len(path) /\ \A i \in 1..Len(q) - 1 : path[i] = q[i]
          /\ <<path[Len(q)], q[Len(q)]>> \in StartsWith
      BY <1>0, <2>5 DEF HasPrefix
    <3>2. QED BY <1>0, <1>1, <1>3, <2>2, <3>1 DEF Covers
  <2>6. ASSUME Covers(k, path) PROVE HasPrefix(path, k)
    <3>1. /\ Len(q) <= Len(path)
          /\ \A i \in 1..Len(q) : \/ q[i] = Plus \/ q[i] = path[i]
                                  \/ i = Len(q) /\ <<path[i], q[i]>> \in StartsWith
      BY <1>0, <1>1, <2>6 DEF Covers
    <3>2. \A i \in 1..Len(q) - 1 : path[i] = q[i]
      BY <2>1, <2>2, <2>3, <3>1
    <3>3. <<path[Len(q)], q[Len(q)]>> \in StartsWith
      BY <1>1, <2>1, <2>4, <3>1
    <3>4. QED BY <1>0, <3>1, <3>2, <3>3 DEF HasPrefix
  <2>7. QED BY <1>3, <2>5, <2>6 DEF Hits
<1>4. CASE ~k.wild /\ ~k.glob
  <2>1. \A i \in 1..Len(q) : q[i] # Plus
    BY <1>0, <1>1, <1>4 DEF IsKey, Range
  <2>2. Covers(k, path) <=> Len(q) = Len(path) /\ \A i \in 1..Len(q) : q[i] = path[i]
    <3>1. Covers(k, path) <=> /\ Len(q) <= Len(path) /\ Len(q) = Len(path)
                              /\ \A i \in 1..Len(q) : q[i] = Plus \/ q[i] = path[i]
      BY <1>0, <1>1, <1>4 DEF Covers
    <3>2. (\A i \in 1..Len(q) : q[i] = Plus \/ q[i] = path[i])
            <=> \A i \in 1..Len(q) : q[i] = path[i]
      BY <2>1
    <3>3. Len(q) = Len(path) => Len(q) <= Len(path)
      BY <1>1
    <3>4. QED BY <3>1, <3>2, <3>3
  <2>3. q = path <=> Len(q) = Len(path) /\ \A i \in 1..Len(q) : q[i] = path[i]
    <3>1. q = [i \in 1..Len(q) |-> q[i]] /\ path = [i \in 1..Len(path) |-> path[i]]
      BY <1>1 DEF PathSet
    <3>2. QED BY <3>1
  <2>4. QED BY <1>0, <1>4, <2>2, <2>3 DEF Hits
<1>5. k.wild \in BOOLEAN /\ k.glob \in BOOLEAN
  BY DEF KeySet
<1>6. QED BY <1>2, <1>3, <1>4, <1>5

(* What rule k asks of a path, rule j asks too: of each segment the same,   *)
(* or, where k ends with "*", more.                                         *)
Fixed(j, k) ==
  /\ Len(k.path) <= Len(j.path)
  /\ \A i \in 1..Len(k.path) :
       \/ k.path[i] = Plus
       \/ k.path[i] = j.path[i]
       \/ k.glob /\ i = Len(k.path) /\ k.path[i] = ""
       \/ /\ k.glob /\ i = Len(k.path) /\ j.path[i] \in Literal
          /\ <<j.path[i], k.path[i]>> \in StartsWith

(* The shortest path that rule j covers, t in the place of wildcards.       *)
Instance(j, t) == [i \in 1..Len(j.path) |-> IF j.path[i] = Plus THEN t ELSE j.path[i]]

LEMMA InstanceCovered ==
  ASSUME NEW j \in KeySet, j.path # <<>>, Len(j.path) <= MaxSegments, NEW t \in Literal
  PROVE  /\ Instance(j, t) \in Path /\ Instance(j, t) \in Seq(Literal)
         /\ Len(Instance(j, t)) = Len(j.path) /\ Covers(j, Instance(j, t))
         /\ \A i \in 1..Len(j.path) :
              Instance(j, t)[i] = IF j.path[i] = Plus THEN t ELSE j.path[i]
<1>0. PICK q : q = j.path
  OBVIOUS
<1>1. q \in PathSet /\ Len(q) \in Nat /\ DOMAIN q = 1..Len(q) /\ Len(q) # 0
  <2>1. q \in PathSet /\ q # <<>>
    BY <1>0 DEF KeySet
  <2>2. QED BY <2>1 DEF PathSet
<1>2. \A i \in 1..Len(q) : q[i] \in Literal \cup {Plus}
  BY <1>1 DEF PathSet
<1> DEFINE p == [i \in 1..Len(q) |-> IF q[i] = Plus THEN t ELSE q[i]]
<1>3. \A i \in 1..Len(q) : p[i] = (IF q[i] = Plus THEN t ELSE q[i]) /\ p[i] \in Literal
  BY <1>2
<1>4. p \in [1..Len(q) -> Literal]
  BY <1>3
<1> HIDE DEF p
<1>5. p \in Seq(Literal) /\ Len(p) = Len(q) /\ p # <<>>
  BY <1>1, <1>4
<1>6. p \in Path
  BY <1>0, <1>5, PathTyped
<1>7. Covers(j, p)
  <2>1. \A i \in 1..Len(q) : q[i] = Plus \/ q[i] = p[i]
    BY <1>3
  <2>2. QED BY <1>0, <1>1, <1>5, <2>1 DEF Covers
<1>8. p = Instance(j, t)
  BY <1>0 DEF p, Instance
<1>9. QED BY <1>0, <1>3, <1>5, <1>6, <1>7, <1>8

(* The empty segment starts with no other.                                  *)
LEMMA OnlyEmpty ==
  ASSUME NEW e \in Literal, Size[e] = 0, NEW s \in Literal, <<e, s>> \in StartsWith
  PROVE  s = e
<1>1. <<e, e>> \in StartsWith
  BY SegmentAssumption
<1>2. Size[s] \in Nat /\ Size[s] <= Size[e]
  BY SegmentAssumption
<1>3. \A m \in Nat : m <= 0 => m = 0
  OBVIOUS
<1>4. Size[s] = Size[e]
  BY <1>2, <1>3
<1>5. QED BY <1>1, <1>4, SegmentAssumption

LEMMA SubsetFixed ==
  ASSUME NEW j \in KeySet, NEW k \in KeySet, IsKey(j), IsKey(k), Len(j.path) <= MaxSegments,
         \A p \in Path : Covers(j, p) => Covers(k, p)
  PROVE  Fixed(j, k)
<1>0. PICK p, q : p = j.path /\ q = k.path
  OBVIOUS
<1>1. /\ p \in PathSet /\ q \in PathSet /\ Len(p) \in Nat /\ Len(q) \in Nat
      /\ DOMAIN p = 1..Len(p) /\ DOMAIN q = 1..Len(q)
  BY <1>0 DEF KeySet, PathSet
<1>2. \A i \in 1..Len(p) : p[i] \in Literal \cup {Plus}
  BY <1>1 DEF PathSet
<1>3. \A i \in 1..Len(q) : q[i] \in Literal \cup {Plus}
  BY <1>1 DEF PathSet
<1>4. ASSUME NEW t \in Literal
      PROVE  /\ Len(q) <= Len(p)
             /\ \A i \in 1..Len(q) :
                  LET s == IF p[i] = Plus THEN t ELSE p[i]
                  IN \/ q[i] = Plus \/ q[i] = s
                     \/ k.glob /\ i = Len(q) /\ <<s, q[i]>> \in StartsWith
  <2> DEFINE r == Instance(j, t)
  <2>1. /\ r \in Path /\ Len(r) = Len(p) /\ Covers(j, r)
        /\ \A i \in 1..Len(p) : r[i] = IF p[i] = Plus THEN t ELSE p[i]
    BY <1>0, InstanceCovered DEF IsKey
  <2> HIDE DEF r
  <2>2. Covers(k, r)
    BY <2>1
  <2>3. /\ Len(q) <= Len(p)
        /\ \A i \in 1..Len(q) : \/ q[i] = Plus \/ q[i] = r[i]
                                \/ k.glob /\ i = Len(q) /\ <<r[i], q[i]>> \in StartsWith
    BY <1>0, <1>1, <2>1, <2>2 DEF Covers
  <2>4. \A i \in 1..Len(q) : i \in 1..Len(p)
    BY <1>1, <2>3
  <2>5. QED BY <2>1, <2>3, <2>4
<1>5. "" \in Literal /\ \E t \in Literal : t # ""
  BY SegmentAssumption
<1>6. Len(q) <= Len(p)
  BY <1>4, <1>5
<1>7. ASSUME NEW i \in 1..Len(q), q[i] # Plus, q[i] # p[i],
             ~(k.glob /\ i = Len(q) /\ q[i] = "")
      PROVE  /\ k.glob /\ i = Len(q) /\ p[i] \in Literal
             /\ <<p[i], q[i]>> \in StartsWith
  <2>1. i \in 1..Len(p)
    BY <1>1, <1>6
  <2>2. CASE p[i] # Plus
    BY <1>2, <1>4, <1>5, <1>7, <2>1, <2>2
  <2>3. CASE p[i] = Plus /\ q[i] = ""
    <3>1. PICK t \in Literal : t # ""
      BY <1>5
    <3>2. q[i] = t \/ (k.glob /\ i = Len(q) /\ <<t, q[i]>> \in StartsWith)
      BY <1>4, <1>7, <2>3
    <3>3. QED BY <1>7, <2>3, <3>1, <3>2
  <2>4. CASE p[i] = Plus /\ q[i] # ""
    <3>1. <<"", q[i]>> \in StartsWith /\ q[i] \in Literal
      BY <1>3, <1>4, <1>5, <1>7, <2>4
    <3>2. PICK e \in Literal : e = "" /\ Size[e] = 0 /\ <<e, q[i]>> \in StartsWith
      BY <3>1, SegmentAssumption
    <3>3. q[i] = e
      BY <3>1, <3>2, OnlyEmpty
    <3>4. QED BY <2>4, <3>2, <3>3
  <2>5. QED BY <2>2, <2>3, <2>4
<1>8. QED BY <1>0, <1>6, <1>7 DEF Fixed

(* The longer beginning has no fewer characters.                            *)
LEMMA CharsMono ==
  ASSUME NEW p \in PathSet, NEW n \in 0..Len(p), NEW m \in 0..n
  PROVE  /\ Chars(Begins(p, m)) \in Int /\ Chars(Begins(p, n)) \in Int
         /\ Chars(Begins(p, m)) <= Chars(Begins(p, n))
<1>0. Len(p) \in Nat /\ n \in Nat /\ m \in Nat /\ m <= n /\ n <= Len(p) /\ m \in 0..Len(p)
  BY DEF PathSet
<1>1. Chars(Begins(p, m)) \in Int /\ Chars(Begins(p, n)) \in Int
  BY <1>0, CharsGrow
<1>2. CASE m = n
  BY <1>1, <1>2
<1>3. CASE m # n
  <2> DEFINE b == Begins(p, n)
  <2>1. b \in PathSet /\ Len(b) = n /\ \A i \in 1..n : b[i] = p[i]
    BY BeginsTyped
  <2> HIDE DEF b
  <2>2. \A i \in 1..m : b[i] = p[i]
    BY <1>0, <2>1
  <2>3. m <= Len(b) /\ m <= Len(p) /\ m \in 0..Len(b) /\ m # Len(b)
    BY <1>0, <1>3, <2>1
  <2>4. Begins(b, m) = Begins(p, m)
    BY <1>0, <2>1, <2>2, <2>3, BeginAlike
  <2>5. Chars(Begins(b, m)) < Chars(b)
    BY <2>1, <2>3, CharsGrow
  <2>6. Chars(Begins(p, m)) < Chars(b)
    BY <2>4, <2>5
  <2>7. QED BY <1>1, <2>6 DEF b
<1>4. QED BY <1>1, <1>2, <1>3

LEMMA FirstWildcardAt ==
  ASSUME NEW k \in KeySet, IsKey(k), k.wild
  PROVE  \E m \in 1..Len(k.path) :
           /\ k.path[m] = Plus /\ \A i \in 1..m - 1 : k.path[i] # Plus
           /\ FirstWildcard(k) = Chars(Begins(k.path, m - 1)) + 1
<1>1. k.path \in PathSet /\ Len(k.path) \in Nat /\ DOMAIN k.path = 1..Len(k.path)
  BY DEF KeySet, PathSet
<1> DEFINE at == {i \in 1..Len(k.path) : k.path[i] = Plus}
<1>2. at # {}
  BY <1>1 DEF IsKey, Range
<1>3. FirstWildcard(k) = Chars(SubSeq(k.path, 1, Min(at) - 1)) + 1
  BY <1>2 DEF FirstWildcard, SelectInSeq
<1>4. Min(at) \in at /\ \A x \in at : Min(at) <= x
  <2>1. at \in SUBSET Nat
    BY <1>1
  <2>2. \E m \in at : \A x \in at : m <= x
    <3> HIDE DEF at
    <3>1. QED BY <1>2, <2>1, HasLeast
  <2> HIDE DEF at
  <2>3. QED BY <2>2, Zenon DEF Min
<1> DEFINE m == Min(at)
<1>5. m \in at /\ \A x \in at : m <= x
  BY <1>4
<1>6. FirstWildcard(k) = Chars(Begins(k.path, m - 1)) + 1
  BY <1>3 DEF Begins
<1> HIDE DEF m
<1>7. m \in 1..Len(k.path) /\ k.path[m] = Plus
  BY <1>5
<1>8. \A i \in 1..m - 1 : k.path[i] # Plus
  <2>1. ASSUME NEW i \in 1..m - 1 PROVE k.path[i] # Plus
    <3>1. i \in 1..Len(k.path) /\ ~(m <= i)
      BY <1>1, <1>7
    <3>2. i \notin at
      BY <1>5, <3>1
    <3>3. QED BY <3>1, <3>2
  <2>2. QED BY <2>1
<1>9. QED BY <1>6, <1>7, <1>8

LEMMA NoWildcard ==
  ASSUME NEW k \in KeySet, IsKey(k), ~k.wild
  PROVE  /\ FirstWildcard(k) = Chars(k.path)
         /\ \A i \in 1..Len(k.path) : k.path[i] # Plus
<1>1. Len(k.path) \in Nat /\ DOMAIN k.path = 1..Len(k.path)
  BY DEF KeySet, PathSet
<1>2. \A i \in 1..Len(k.path) : k.path[i] # Plus
  BY <1>1 DEF IsKey, Range
<1>3. QED BY <1>2 DEF FirstWildcard

(* The characters of a segment that a wildcard may not match.               *)
Weight(s) == IF s = Plus THEN 0 ELSE SegmentSize(s)

LEMMA WeightTyped ==
  ASSUME NEW s \in Literal \cup {Plus}
  PROVE  Weight(s) \in Nat /\ SegmentSize(s) = Weight(s) + (IF s = Plus THEN 1 ELSE 0)
<1>1. SegmentSize(s) \in Nat
  BY SegmentTyped
<1>2. s = Plus => SegmentSize(s) = 1
  BY DEF SegmentSize
<1>3. QED BY <1>1, <1>2 DEF Weight

LEMMA FixedSegment ==
  ASSUME NEW j \in KeySet, NEW k \in KeySet, Fixed(j, k), NEW i \in 1..Len(k.path)
  PROVE  /\ i \in 1..Len(j.path)
         /\ Weight(k.path[i]) <= Weight(j.path[i])
         /\ i # Len(k.path) => k.path[i] = Plus \/ k.path[i] = j.path[i]
         /\ k.path[i] # Plus /\ j.path[i] = Plus => k.glob /\ i = Len(k.path) /\ k.path[i] = ""
<1>0. PICK p, q : p = j.path /\ q = k.path
  OBVIOUS
<1>1. /\ p \in PathSet /\ q \in PathSet /\ Len(p) \in Nat /\ Len(q) \in Nat /\ Len(q) <= Len(p)
      /\ i \in 1..Len(q)
  <2>1. p \in PathSet /\ q \in PathSet
    BY <1>0 DEF KeySet
  <2>2. Len(q) <= Len(p)
    BY <1>0 DEF Fixed
  <2>3. i \in 1..Len(q)
    BY <1>0
  <2>4. QED BY <2>1, <2>2, <2>3 DEF PathSet
<1>2. i \in 1..Len(p)
  BY <1>1
<1>3. PICK s, t : s = p[i] /\ t = q[i]
  OBVIOUS
<1>4. s \in Literal \cup {Plus} /\ t \in Literal \cup {Plus}
  BY <1>1, <1>2, <1>3 DEF PathSet
<1>5. \/ t = Plus \/ t = s
      \/ k.glob /\ i = Len(q) /\ t = ""
      \/ k.glob /\ i = Len(q) /\ s \in Literal /\ <<s, t>> \in StartsWith
  BY <1>0, <1>1, <1>3 DEF Fixed
<1>6. Plus \notin Literal /\ Weight(s) \in Nat /\ Weight(t) \in Nat
  BY <1>4, WeightTyped, SegmentAssumption
<1>7. Weight(t) <= Weight(s)
  <2>1. CASE t = Plus
    <3>1. Weight(t) = 0
      BY <2>1 DEF Weight
    <3>2. QED BY <1>6, <3>1
  <2>2. CASE t = s
    BY <1>6, <2>2
  <2>3. CASE t = ""
    <3>1. Size[t] = 0 /\ t # Plus
      BY <1>6, <2>3, SegmentAssumption
    <3>2. Weight(t) = 0
      BY <3>1 DEF Weight, SegmentSize
    <3>3. QED BY <1>6, <3>2
  <2>4. CASE s \in Literal /\ <<s, t>> \in StartsWith
    <3>1. t \in Literal /\ Size[t] <= Size[s]
      BY <2>4, SegmentAssumption
    <3>2. s # Plus /\ t # Plus
      BY <1>6, <2>4, <3>1
    <3>3. Weight(t) = Size[t] /\ Weight(s) = Size[s]
      BY <3>2 DEF Weight, SegmentSize
    <3>4. QED BY <3>1, <3>3
  <2>5. QED BY <1>5, <2>1, <2>2, <2>3, <2>4
<1>8. t # Plus /\ s = Plus => k.glob /\ i = Len(q) /\ t = ""
  BY <1>5, <1>6
<1>9. i # Len(q) => t = Plus \/ t = s
  BY <1>5
<1>10. QED BY <1>0, <1>2, <1>3, <1>7, <1>8, <1>9

(* A rule that covers no more has its first wildcard no earlier.            *)
LEMMA FixedFirst ==
  ASSUME NEW j \in KeySet, NEW k \in KeySet, IsKey(j), IsKey(k), Fixed(j, k)
  PROVE  FirstWildcard(k) <= FirstWildcard(j)
<1>0. PICK p, q : p = j.path /\ q = k.path
  OBVIOUS
<1>1. /\ p \in PathSet /\ q \in PathSet /\ Len(p) \in Nat /\ Len(q) \in Nat
      /\ Len(q) <= Len(p) /\ 1 <= Len(q)
  <2>1. p \in PathSet /\ q \in PathSet /\ q # <<>>
    BY <1>0 DEF KeySet, IsKey
  <2>2. Len(q) <= Len(p)
    BY <1>0 DEF Fixed
  <2>3. QED BY <2>1, <2>2 DEF PathSet
<1>2. PICK l \in Nat : l = Len(q)
  BY <1>1
<1> DEFINE c == [x \in 0..Len(p) |-> Chars(Begins(p, x))]
<1>3. \A x \in 0..Len(p) : c[x] \in Int /\ c[x] = Chars(Begins(p, x))
  <2>1. \A x \in 0..Len(p) : Chars(Begins(p, x)) \in Int
    BY <1>1, CharsGrow
  <2>2. QED BY <2>1
<1>4. \A x, y \in 0..Len(p) : x <= y => c[x] <= c[y]
  <2>1. ASSUME NEW x \in 0..Len(p), NEW y \in 0..Len(p), x <= y PROVE c[x] <= c[y]
    <3>1. x \in 0..y
      BY <1>1, <2>1
    <3>2. QED BY <1>1, <3>1, CharsMono
  <2>2. QED BY <2>1
<1>5. \A x \in 1..Len(p) : /\ p[x] \in Literal \cup {Plus}
                           /\ c[x] = c[x - 1] + SegmentSize(p[x]) + 1
                           /\ SegmentSize(p[x]) \in Nat
  <2>1. ASSUME NEW x \in 1..Len(p)
        PROVE  /\ p[x] \in Literal \cup {Plus}
               /\ c[x] = c[x - 1] + SegmentSize(p[x]) + 1
               /\ SegmentSize(p[x]) \in Nat
    <3>1. x \in 0..Len(p) /\ x - 1 \in 0..Len(p)
      BY <1>1
    <3>2. p[x] \in Literal \cup {Plus}
      BY <1>1 DEF PathSet
    <3>3. Chars(Begins(p, x)) = Chars(Begins(p, x - 1)) + SegmentSize(p[x]) + 1
      BY <1>1, CharsNext
    <3>4. QED BY <3>1, <3>2, <3>3, SegmentTyped
  <2>2. QED BY <2>1
<1>6. c[Len(p)] = Chars(p)
  BY <1>1, BeginsAll
<1> HIDE DEF c
<1>7. \A i \in 1..l : /\ i \in 1..Len(p) /\ q[i] \in Literal \cup {Plus}
                      /\ i # l => q[i] = Plus \/ q[i] = p[i]
                      /\ Weight(q[i]) <= Weight(p[i])
                      /\ q[i] # Plus /\ p[i] = Plus => i = l /\ q[i] = ""
  <2>1. \A i \in 1..l : q[i] \in Literal \cup {Plus}
    BY <1>1, <1>2 DEF PathSet
  <2>2. QED BY <1>0, <1>2, <2>1, FixedSegment
<1>8. ASSUME NEW m \in 1..l, \A i \in 1..m - 1 : q[i] # Plus
      PROVE  /\ \A i \in 1..m - 1 : q[i] = p[i]
             /\ Chars(Begins(q, m - 1)) = c[m - 1]
  <2>1. \A i \in 1..m - 1 : i \in 1..l /\ i # l
    BY <1>2
  <2>2. \A i \in 1..m - 1 : q[i] = p[i]
    BY <1>7, <1>8, <2>1
  <2>3. m - 1 \in Nat /\ m - 1 <= Len(p) /\ m - 1 <= Len(q) /\ m - 1 \in 0..Len(p)
    BY <1>1, <1>2
  <2>4. Begins(q, m - 1) = Begins(p, m - 1)
    BY <1>1, <2>2, <2>3, BeginAlike
  <2>5. QED BY <1>3, <2>2, <2>3, <2>4
(* Where j has its first wildcard. *)
<1> DEFINE First(n) == /\ n \in 1..Len(p) /\ p[n] = Plus /\ \A i \in 1..n - 1 : p[i] # Plus
                       /\ FirstWildcard(j) = c[n - 1] + 1
           None1 == (\A i \in 1..Len(p) : p[i] # Plus) /\ FirstWildcard(j) = c[Len(p)]
<1>9. (\E n : First(n)) \/ None1
  <2>1. CASE j.wild
    <3>1. PICK n \in 1..Len(p) : /\ p[n] = Plus /\ \A i \in 1..n - 1 : p[i] # Plus
                                 /\ FirstWildcard(j) = Chars(Begins(p, n - 1)) + 1
      BY <1>0, <2>1, FirstWildcardAt
    <3>2. n - 1 \in 0..Len(p)
      BY <1>1
    <3>3. First(n)
      BY <1>3, <3>1, <3>2
    <3>4. QED BY <3>3
  <2>2. CASE ~j.wild
    <3>1. None1
      BY <1>0, <1>6, <2>2, NoWildcard
    <3>2. QED BY <3>1
  <2>3. QED BY <2>1, <2>2
<1>10. CASE k.wild
  <2>1. PICK m \in 1..l : /\ q[m] = Plus /\ \A i \in 1..m - 1 : q[i] # Plus
                          /\ FirstWildcard(k) = Chars(Begins(q, m - 1)) + 1
    BY <1>0, <1>2, <1>10, FirstWildcardAt
  <2>2. FirstWildcard(k) = c[m - 1] + 1 /\ \A i \in 1..m - 1 : q[i] = p[i]
    BY <1>8, <2>1
  <2>3. m \in 1..Len(p) /\ m - 1 \in 0..Len(p) /\ m \in 0..Len(p) /\ m \in Nat
    BY <1>1, <1>2
  <2>4. ASSUME NEW n, First(n) PROVE FirstWildcard(k) <= FirstWildcard(j)
    <3>1. n \in 1..Len(p) /\ n - 1 \in 0..Len(p) /\ n \in Nat /\ 1 <= n
      BY <1>1, <2>4
    <3>2. ~(n < m)
      <4>1. n < m => n \in 1..m - 1
        BY <2>3, <3>1
      <4>2. p[n] = Plus
        BY <2>4
      <4>3. QED BY <2>1, <2>2, <4>1, <4>2
    <3>3. m - 1 <= n - 1
      BY <2>3, <3>1, <3>2
    <3>4. c[m - 1] <= c[n - 1]
      BY <1>4, <2>3, <3>1, <3>3
    <3>5. c[m - 1] \in Int /\ c[n - 1] \in Int /\ FirstWildcard(j) = c[n - 1] + 1
      BY <1>3, <2>3, <2>4, <3>1
    <3>6. QED BY <2>2, <3>4, <3>5
  <2>5. CASE None1
    <3>1. c[m] <= c[Len(p)]
      BY <1>1, <1>4, <2>3
    <3>2. c[m] = c[m - 1] + SegmentSize(p[m]) + 1 /\ SegmentSize(p[m]) \in Nat
      BY <1>5, <2>3
    <3>3. c[m - 1] \in Int /\ c[Len(p)] \in Int
      BY <1>1, <1>3, <2>3
    <3>4. FirstWildcard(j) = c[Len(p)]
      BY <2>5
    <3>5. QED BY <2>2, <3>1, <3>2, <3>3, <3>4
  <2>6. QED BY <1>9, <2>4, <2>5
<1>11. CASE ~k.wild
  <2>1. FirstWildcard(k) = Chars(q) /\ \A i \in 1..l : q[i] # Plus
    BY <1>0, <1>2, <1>11, NoWildcard
  <2>2. l \in 1..l /\ l \in 1..Len(p) /\ l \in 0..Len(p) /\ l - 1 \in 0..Len(p) /\ 1 <= l
    BY <1>1, <1>2
  <2>3. Chars(Begins(q, l - 1)) = c[l - 1] /\ \A i \in 1..l - 1 : q[i] = p[i]
    <3>1. \A i \in 1..l - 1 : i \in 1..l
      BY <1>2
    <3>2. QED BY <1>8, <2>1, <2>2, <3>1
  <2>4. Chars(q) = c[l - 1] + SegmentSize(q[l]) + 1
    <3>1. Begins(q, l) = q
      BY <1>1, <1>2, BeginsAll
    <3>2. Chars(Begins(q, l)) = Chars(Begins(q, l - 1)) + SegmentSize(q[l]) + 1
      BY <1>1, <1>2, <2>2, CharsNext
    <3>3. QED BY <2>3, <3>1, <3>2
  <2>5. q[l] # Plus /\ SegmentSize(q[l]) \in Nat /\ SegmentSize(q[l]) = Weight(q[l])
    <3>1. q[l] # Plus /\ q[l] \in Literal \cup {Plus}
      BY <1>7, <2>1, <2>2
    <3>2. SegmentSize(q[l]) \in Nat
      BY <3>1, SegmentTyped
    <3>3. SegmentSize(q[l]) = Weight(q[l])
      BY <3>1 DEF Weight
    <3>4. QED BY <3>1, <3>2, <3>3
  <2>6. ASSUME p[l] # Plus PROVE Chars(q) <= c[l]
    <3>1. SegmentSize(p[l]) = Weight(p[l]) /\ Weight(q[l]) <= Weight(p[l])
      <4>1. SegmentSize(p[l]) = Weight(p[l])
        BY <2>6 DEF Weight
      <4>2. QED BY <1>7, <2>2, <4>1
    <3>2. c[l] = c[l - 1] + SegmentSize(p[l]) + 1 /\ SegmentSize(p[l]) \in Nat
      BY <1>5, <2>2
    <3>3. c[l - 1] \in Int
      BY <1>3, <2>2
    <3>4. QED BY <2>4, <2>5, <3>1, <3>2, <3>3
  <2>7. ASSUME NEW n, First(n) PROVE FirstWildcard(k) <= FirstWildcard(j)
    <3>1. n \in 1..Len(p) /\ n - 1 \in 0..Len(p) /\ n \in Nat /\ 1 <= n /\ p[n] = Plus
      BY <1>1, <2>7
    <3>2. ~(n < l)
      <4>1. n < l => n \in 1..l - 1 /\ n \in 1..l
        BY <1>2, <3>1
      <4>2. QED BY <2>1, <2>3, <3>1, <4>1
    <3>3. CASE n = l
      <4>1. q[l] = ""
        BY <1>7, <2>2, <2>5, <3>1, <3>3
      <4>2. SegmentSize(q[l]) = 0
        BY <2>5, <4>1, SegmentAssumption DEF SegmentSize
      <4>3. c[l - 1] \in Int
        BY <1>3, <2>2
      <4>4. FirstWildcard(j) = c[l - 1] + 1
        BY <2>7, <3>3
      <4>5. QED BY <2>1, <2>4, <4>2, <4>3, <4>4
    <3>4. CASE l < n
      <4>1. l \in 1..n - 1 /\ l <= n - 1
        BY <1>2, <2>2, <3>1, <3>4
      <4>2. p[l] # Plus
        BY <2>7, <4>1
      <4>3. c[l] <= c[n - 1]
        BY <1>4, <2>2, <3>1, <4>1
      <4>4. c[l] \in Int /\ c[n - 1] \in Int /\ Chars(q) \in Int
        BY <1>1, <1>3, <2>2, <3>1, CharsTyped
      <4>5. FirstWildcard(j) = c[n - 1] + 1 /\ Chars(q) <= c[l]
        BY <2>6, <2>7, <4>2
      <4>6. QED BY <2>1, <4>3, <4>4, <4>5
    <3>5. QED BY <1>2, <3>1, <3>2, <3>3, <3>4
  <2>8. CASE None1
    <3>1. p[l] # Plus /\ FirstWildcard(j) = c[Len(p)]
      BY <2>2, <2>8
    <3>2. Chars(q) <= c[l] /\ c[l] <= c[Len(p)]
      BY <1>1, <1>4, <2>2, <2>6, <3>1
    <3>3. c[l] \in Int /\ c[Len(p)] \in Int /\ Chars(q) \in Int
      BY <1>1, <1>3, <2>2, CharsTyped
    <3>4. QED BY <2>1, <3>1, <3>2, <3>3
  <2>9. QED BY <1>9, <2>7, <2>8
<1>12. QED BY <1>10, <1>11

(* The wildcards among the first n segments.                                *)
Pluses(p, n) == Cardinality({i \in 1..n : p[i] = Plus})

LEMMA PlusesNext ==
  ASSUME NEW p, NEW n \in Nat
  PROVE  /\ Pluses(p, n) \in Nat /\ Pluses(p, 0) = 0
         /\ Pluses(p, n + 1) = Pluses(p, n) + (IF p[n + 1] = Plus THEN 1 ELSE 0)
<1> DEFINE at == {i \in 1..n : p[i] = Plus}
           next == {i \in 1..(n + 1) : p[i] = Plus}
<1>1. IsFiniteSet(at) /\ Cardinality(at) \in Nat
  <2>1. IsFiniteSet(1..n)
    BY FS_Interval
  <2>2. IsFiniteSet(at)
    BY <2>1, FS_Subset
  <2>3. QED BY <2>2, FS_CardinalityType
<1>2. Pluses(p, 0) = 0
  <2>1. {i \in 1..0 : p[i] = Plus} = {}
    OBVIOUS
  <2>2. QED BY <2>1, FS_EmptySet DEF Pluses
<1>3. CASE p[n + 1] = Plus
  <2>1. next = at \cup {n + 1} /\ n + 1 \notin at
    <3>1. \A i \in 1..(n + 1) : i \in 1..n \/ i = n + 1
      OBVIOUS
    <3>2. \A i \in 1..n : i \in 1..(n + 1) /\ i # n + 1
      OBVIOUS
    <3>3. n + 1 \in 1..(n + 1)
      OBVIOUS
    <3>4. QED BY <1>3, <3>1, <3>2, <3>3
  <2> HIDE DEF at, next
  <2>2. Cardinality(at \cup {n + 1}) = Cardinality(at) + 1
    BY <1>1, <2>1, FS_AddElement
  <2>3. Cardinality(next) = Cardinality(at) + 1
    BY <2>1, <2>2
  <2>4. QED BY <1>1, <1>2, <1>3, <2>3 DEF Pluses, at, next
<1>4. CASE p[n + 1] # Plus
  <2>1. next = at
    <3>1. \A i \in 1..(n + 1) : i \in 1..n \/ i = n + 1
      OBVIOUS
    <3>2. \A i \in 1..n : i \in 1..(n + 1)
      OBVIOUS
    <3>3. QED BY <1>4, <3>1, <3>2
  <2>2. Cardinality(next) = Cardinality(at)
    BY <2>1
  <2>3. Cardinality(at) = Cardinality(at) + 0
    BY <1>1
  <2> HIDE DEF at, next
  <2>4. QED BY <1>1, <1>2, <1>4, <2>2, <2>3 DEF Pluses, at, next
<1>5. QED BY <1>3, <1>4

LEMMA WildcardsCounted ==
  ASSUME NEW k \in KeySet
  PROVE  Wildcards(k) = Pluses(k.path, Len(k.path))
<1>1. DOMAIN k.path = 1..Len(k.path)
  BY DEF KeySet, PathSet
<1>2. QED BY <1>1 DEF Wildcards, Pluses

(* The characters of the first n segments that no wildcard can save.        *)
Net(p, n) == Chars(Begins(p, n)) - Pluses(p, n)

LEMMA NetNext ==
  ASSUME NEW p \in PathSet, NEW n \in Nat, n + 1 <= Len(p)
  PROVE  Net(p, n) \in Int /\ Net(p, n + 1) = Net(p, n) + Weight(p[n + 1]) + 1
<1>1. Len(p) \in Nat /\ n + 1 \in 1..Len(p) /\ n \in 0..Len(p) /\ (n + 1) - 1 = n
  BY DEF PathSet
<1>2. p[n + 1] \in Literal \cup {Plus}
  BY <1>1 DEF PathSet
<1>3. Chars(Begins(p, n + 1)) = Chars(Begins(p, n)) + SegmentSize(p[n + 1]) + 1
  BY <1>1, CharsNext
<1>4. Chars(Begins(p, n)) \in Int
  BY <1>1, CharsGrow
<1>5. /\ Weight(p[n + 1]) \in Nat
      /\ SegmentSize(p[n + 1]) = Weight(p[n + 1]) + (IF p[n + 1] = Plus THEN 1 ELSE 0)
  BY <1>2, WeightTyped
<1>6. /\ Pluses(p, n) \in Nat
      /\ Pluses(p, n + 1) = Pluses(p, n) + (IF p[n + 1] = Plus THEN 1 ELSE 0)
  BY PlusesNext
<1> DEFINE a == Chars(Begins(p, n))
           b == Pluses(p, n)
           w == Weight(p[n + 1])
           e == IF p[n + 1] = Plus THEN 1 ELSE 0
<1>7. a \in Int /\ b \in Int /\ w \in Int /\ e \in Int
  BY <1>4, <1>5, <1>6
<1>8. Chars(Begins(p, n + 1)) = a + (w + e) + 1 /\ Pluses(p, n + 1) = b + e
  BY <1>3, <1>5, <1>6
<1> HIDE DEF a, b, w, e
<1>9. (a + (w + e) + 1) - (b + e) = (a - b) + w + 1
  BY <1>7
<1>10. Net(p, n + 1) = (a - b) + w + 1
  BY <1>8, <1>9 DEF Net
<1>11. Net(p, n) = a - b
  BY DEF Net, a, b
<1>12. QED BY <1>7, <1>10, <1>11 DEF w

LEMMA FixedNet ==
  ASSUME NEW j \in KeySet, NEW k \in KeySet, Fixed(j, k)
  PROVE  Net(k.path, Len(k.path)) <= Net(j.path, Len(j.path))
<1>0. PICK p, q : p = j.path /\ q = k.path
  OBVIOUS
<1>1. p \in PathSet /\ q \in PathSet /\ Len(p) \in Nat /\ Len(q) \in Nat /\ Len(q) <= Len(p)
  <2>1. p \in PathSet /\ q \in PathSet
    BY <1>0 DEF KeySet
  <2>2. Len(q) <= Len(p)
    BY <1>0 DEF Fixed
  <2>3. QED BY <2>1, <2>2 DEF PathSet
<1>2. \A i \in 1..Len(q) : Weight(q[i]) <= Weight(p[i]) /\ Weight(q[i]) \in Nat
  <2>1. \A i \in 1..Len(q) : q[i] \in Literal \cup {Plus}
    BY <1>1 DEF PathSet
  <2>2. QED BY <1>0, <2>1, FixedSegment, WeightTyped
<1>3. \A i \in 1..Len(p) : Weight(p[i]) \in Nat
  <2>1. \A i \in 1..Len(p) : p[i] \in Literal \cup {Plus}
    BY <1>1 DEF PathSet
  <2>2. QED BY <2>1, WeightTyped
<1>4. \A n \in 0..Len(p) : Net(p, n) \in Int
  <2>1. ASSUME NEW n \in 0..Len(p) PROVE Net(p, n) \in Int
    <3>1. n \in Nat /\ Chars(Begins(p, n)) \in Int
      BY <1>1, CharsGrow
    <3>2. Pluses(p, n) \in Nat
      BY <3>1, PlusesNext
    <3>3. QED BY <3>1, <3>2 DEF Net
  <2>2. QED BY <2>1
<1>5. \A n \in 0..Len(q) : Net(q, n) \in Int
  <2>1. ASSUME NEW n \in 0..Len(q) PROVE Net(q, n) \in Int
    <3>1. n \in Nat /\ Chars(Begins(q, n)) \in Int
      BY <1>1, CharsGrow
    <3>2. Pluses(q, n) \in Nat
      BY <3>1, PlusesNext
    <3>3. QED BY <3>1, <3>2 DEF Net
  <2>2. QED BY <2>1
<1>6. \A n \in Nat : n + 1 <= Len(p) => Net(p, n + 1) = Net(p, n) + Weight(p[n + 1]) + 1
  BY <1>1, NetNext
<1>7. \A n \in Nat : n + 1 <= Len(q) => Net(q, n + 1) = Net(q, n) + Weight(q[n + 1]) + 1
  BY <1>1, NetNext
<1> DEFINE T == {n \in Nat : n <= Len(q) => Net(q, n) <= Net(p, n)}
           U == {n \in Nat : Len(q) + n <= Len(p) => Net(q, Len(q)) <= Net(p, Len(q) + n)}
<1>8. 0 \in T
  <2>1. Begins(q, 0) = Begins(p, 0)
    BY <1>1, BeginAlike
  <2>2. Pluses(q, 0) = 0 /\ Pluses(p, 0) = 0
    BY PlusesNext
  <2>3. Net(q, 0) = Net(p, 0) /\ Net(q, 0) \in Int
    BY <1>1, <1>5, <2>1, <2>2 DEF Net
  <2>4. QED BY <2>3
<1>9. ASSUME NEW n \in Nat, n \in T PROVE n + 1 \in T
  <2>1. SUFFICES ASSUME n + 1 <= Len(q) PROVE Net(q, n + 1) <= Net(p, n + 1)
    OBVIOUS
  <2>2. /\ n + 1 <= Len(p) /\ n + 1 \in 1..Len(q) /\ n + 1 \in 1..Len(p)
        /\ n \in 0..Len(q) /\ n \in 0..Len(p) /\ Net(q, n) <= Net(p, n)
    BY <1>1, <1>9, <2>1
  <2>3. /\ Net(q, n) \in Int /\ Net(p, n) \in Int
        /\ Weight(q[n + 1]) \in Int /\ Weight(p[n + 1]) \in Int
        /\ Weight(q[n + 1]) <= Weight(p[n + 1])
    BY <1>2, <1>3, <1>4, <1>5, <2>2
  <2>4. /\ Net(q, n + 1) = Net(q, n) + Weight(q[n + 1]) + 1
        /\ Net(p, n + 1) = Net(p, n) + Weight(p[n + 1]) + 1
    BY <1>6, <1>7, <2>1, <2>2
  <2>5. QED BY <2>2, <2>3, <2>4
<1>10. T = Nat
  <2> HIDE DEF T
  <2>1. T \in SUBSET Nat
    BY DEF T
  <2>2. QED BY <1>8, <1>9, <2>1, Counting
<1>11. Net(q, Len(q)) <= Net(p, Len(q))
  BY <1>1, <1>10
<1>12. 0 \in U
  BY <1>1, <1>11
<1>13. ASSUME NEW n \in Nat, n \in U PROVE n + 1 \in U
  <2>1. SUFFICES ASSUME Len(q) + (n + 1) <= Len(p)
                 PROVE  Net(q, Len(q)) <= Net(p, Len(q) + (n + 1))
    OBVIOUS
  <2>2. PICK m \in Nat : m = Len(q) + n
    BY <1>1
  <2>3. /\ Len(q) + (n + 1) = m + 1 /\ m + 1 <= Len(p) /\ m + 1 \in 1..Len(p) /\ m \in 0..Len(p)
        /\ Len(q) \in 0..Len(q) /\ m <= Len(p)
    BY <1>1, <2>1, <2>2
  <2>4. Net(q, Len(q)) <= Net(p, m)
    BY <1>13, <2>2, <2>3
  <2>5. Net(p, m + 1) = Net(p, m) + Weight(p[m + 1]) + 1
    BY <1>6, <2>2, <2>3
  <2>6. Weight(p[m + 1]) \in Nat /\ Net(p, m) \in Int /\ Net(q, Len(q)) \in Int
    BY <1>3, <1>4, <1>5, <2>3
  <2>7. Net(q, Len(q)) <= Net(p, m + 1)
    BY <2>4, <2>5, <2>6
  <2>8. QED BY <2>3, <2>7
<1>14. U = Nat
  <2> HIDE DEF U
  <2>1. U \in SUBSET Nat
    BY DEF U
  <2>2. QED BY <1>12, <1>13, <2>1, Counting
<1>15. Net(q, Len(q)) <= Net(p, Len(p))
  <2>1. PICK n \in Nat : Len(q) + n = Len(p)
    <3>1. Len(p) - Len(q) \in Nat /\ Len(q) + (Len(p) - Len(q)) = Len(p)
      BY <1>1
    <3>2. QED BY <3>1
  <2>2. n \in U
    BY <1>14
  <2>3. QED BY <1>1, <2>1, <2>2
<1>16. QED BY <1>0, <1>15

(* With as many wildcards it has no fewer characters.                       *)
LEMMA FixedChars ==
  ASSUME NEW j \in KeySet, NEW k \in KeySet, Fixed(j, k), Wildcards(j) = Wildcards(k)
  PROVE  ~(Chars(j.path) < Chars(k.path))
<1>1. j.path \in PathSet /\ k.path \in PathSet
  BY DEF KeySet
<1>2. /\ Net(j.path, Len(j.path)) = Chars(j.path) - Wildcards(j)
      /\ Net(k.path, Len(k.path)) = Chars(k.path) - Wildcards(k)
  BY <1>1, BeginsAll, WildcardsCounted DEF Net
<1>3. Chars(k.path) - Wildcards(k) <= Chars(j.path) - Wildcards(j)
  BY <1>2, FixedNet
<1>4. Chars(j.path) \in Int /\ Chars(k.path) \in Int /\ Wildcards(k) \in Int
  BY <1>1, CharsTyped, WildcardsTyped
<1>5. QED BY <1>3, <1>4

(* Having a wildcard where the other has none it has more of them.          *)
LEMMA FixedLex ==
  ASSUME NEW j \in KeySet, NEW k \in KeySet, Fixed(j, k), LexBefore(j.path, k.path)
  PROVE  Wildcards(k) < Wildcards(j)
<1>0. PICK p, q : p = j.path /\ q = k.path
  OBVIOUS
<1>1. /\ p \in PathSet /\ q \in PathSet /\ Len(p) \in Nat /\ Len(q) \in Nat
      /\ DOMAIN p = 1..Len(p) /\ DOMAIN q = 1..Len(q)
  BY <1>0 DEF KeySet, PathSet
<1>2. PICK i \in DOMAIN p \cap DOMAIN q :
        p[i] = Plus /\ q[i] # Plus /\ \A m \in 1..i - 1 : p[m] = q[m]
  BY <1>0 DEF LexBefore
<1>3. i \in 1..Len(p) /\ i \in 1..Len(q) /\ i = Len(q)
  <2>1. i \in 1..Len(p) /\ i \in 1..Len(q)
    BY <1>1, <1>2
  <2>2. QED BY <1>0, <1>2, <2>1, FixedSegment
<1> DEFINE few == {x \in 1..Len(q) : q[x] = Plus}
           many == {x \in 1..Len(p) : p[x] = Plus}
<1>4. IsFiniteSet(few) /\ IsFiniteSet(many)
  <2>1. IsFiniteSet(1..Len(q)) /\ IsFiniteSet(1..Len(p))
    BY <1>1, FS_Interval
  <2>2. QED BY <2>1, FS_Subset
<1>5. i \notin few /\ few \cup {i} \subseteq many
  <2>1. ASSUME NEW x \in few PROVE x \in many
    <3>1. x \in 1..i - 1 /\ x \in 1..Len(p)
      BY <1>1, <1>2, <1>3
    <3>2. QED BY <1>2, <3>1
  <2>2. QED BY <1>2, <1>3, <2>1
<1>6. Wildcards(k) = Cardinality(few) /\ Wildcards(j) = Cardinality(many)
  BY <1>0, <1>1 DEF Wildcards
<1> HIDE DEF few, many
<1>7. IsFiniteSet(few \cup {i}) /\ Cardinality(few \cup {i}) = Cardinality(few) + 1
  BY <1>4, <1>5, FS_AddElement
<1>8. Cardinality(few \cup {i}) <= Cardinality(many)
  BY <1>4, <1>5, FS_Subset
<1>9. Cardinality(few) \in Nat /\ Cardinality(many) \in Nat
  BY <1>4, FS_CardinalityType
<1>10. QED BY <1>6, <1>7, <1>8, <1>9

(* A path that is one segment longer is still covered by a rule with "*".   *)
LEMMA LongerCovered ==
  ASSUME NEW j \in KeySet, NEW k \in KeySet, j.glob, ~k.glob,
         NEW path \in Path, Len(k.path) < MaxSegments, Covers(j, path), Covers(k, path)
  PROVE  \E r \in Path : Covers(j, r) /\ ~Covers(k, r)
<1>0. PICK p, q : p = j.path /\ q = k.path
  OBVIOUS
<1>1. /\ path \in Seq(Literal) /\ path # <<>> /\ Len(path) \in Nat
      /\ Len(p) \in Nat /\ Len(q) \in Nat /\ DOMAIN p = 1..Len(p) /\ DOMAIN q = 1..Len(q)
  <2>1. path \in Seq(Literal) /\ path # <<>>
    BY PathTyped
  <2>2. p \in PathSet /\ q \in PathSet
    BY <1>0 DEF KeySet
  <2>3. QED BY <2>1, <2>2 DEF PathSet
<1>2. /\ Len(p) <= Len(path)
      /\ \A i \in 1..Len(p) : \/ p[i] = Plus \/ p[i] = path[i]
                              \/ i = Len(p) /\ <<path[i], p[i]>> \in StartsWith
  BY <1>0, <1>1 DEF Covers
<1>3. Len(q) = Len(path)
  BY <1>0 DEF Covers
<1>4. PICK e : e \in Literal
  BY SegmentAssumption
<1> DEFINE r == Append(path, e)
<1>5. /\ r \in Seq(Literal) /\ Len(r) = Len(path) + 1 /\ r # <<>>
      /\ \A i \in 1..Len(path) : r[i] = path[i]
  BY <1>1, <1>4
<1> HIDE DEF r
<1>6. r \in Path
  <2>1. Len(q) < MaxSegments /\ MaxSegments \in Nat
    BY <1>0, BoundAssumption
  <2>2. Len(r) <= MaxSegments
    BY <1>1, <1>3, <1>5, <2>1
  <2>3. QED BY <1>5, <2>2, PathTyped
<1> DEFINE a == Len(p)
           n == Len(path)
           m == Len(r)
<1>7. a \in Nat /\ n \in Nat /\ m = n + 1 /\ a <= n
  BY <1>1, <1>2, <1>5
<1> HIDE DEF a, n, m
<1>8. a <= m /\ n # m /\ \A i \in 1..a : i \in 1..n
  BY <1>7
<1>9. Covers(j, r)
  <2>1. \A i \in 1..a : r[i] = path[i]
    BY <1>5, <1>8 DEF n
  <2>2. \A i \in 1..a : \/ p[i] = Plus \/ p[i] = r[i]
                        \/ i = a /\ <<r[i], p[i]>> \in StartsWith
    BY <1>2, <2>1 DEF a
  <2>3. QED BY <1>0, <1>1, <1>8, <2>2 DEF Covers, a, m
<1>10. ~Covers(k, r)
  <2>1. Len(q) # Len(r)
    BY <1>3, <1>8 DEF n, m
  <2>2. QED BY <1>0, <2>1 DEF Covers
<1>11. QED BY <1>6, <1>9, <1>10

(* Before does not sort a rule that covers less before one that covers      *)
(* more, unless it has more wildcards.                                      *)
LEMMA LessNotBefore ==
  ASSUME NEW j \in KeySet, NEW k \in KeySet, IsKey(j), IsKey(k), Fixed(j, k),
         Wildcards(j) <= Wildcards(k), ~(j.glob /\ ~k.glob)
  PROVE  ~Before(j, k)
<1>1. /\ FirstWildcard(j) \in Int /\ FirstWildcard(k) \in Int
      /\ Wildcards(j) \in Int /\ Wildcards(k) \in Int
  BY FirstWildcardTyped, WildcardsTyped
<1>2. ~(FirstWildcard(j) < FirstWildcard(k))
  BY <1>1, FixedFirst
<1>3. ~(Wildcards(j) > Wildcards(k))
  BY <1>1
<1>4. Wildcards(j) = Wildcards(k) => ~(Chars(j.path) < Chars(k.path))
  BY FixedChars
<1>5. ~LexBefore(j.path, k.path)
  <2>1. LexBefore(j.path, k.path) => Wildcards(k) < Wildcards(j)
    BY FixedLex
  <2>2. QED BY <1>1, <2>1
<1>6. QED BY <1>2, <1>3, <1>4, <1>5 DEF Before

(* Of the rules of any documents none that covers less than the one that    *)
(* decides is passed over, unless it has more wildcards (acl.rs:75-122,     *)
(* 281-386).                                                                *)
LEMMA NonePassedOver ==
  ASSUME NEW keys \in SUBSET KeySet, IsFiniteSet(keys),
         \A x \in keys : IsKey(x) /\ Len(x.path) < MaxSegments,
         NEW req, req.path \in Path, NEW k \in Deciding(keys, req),
         NEW j \in keys, Hits(j, req.path),
         \A p \in Path : Hits(j, p) => Hits(k, p),
         NEW r \in Path, Hits(k, r), ~Hits(j, r),
         Wildcards(j) <= Wildcards(k)
  PROVE  FALSE
<1>1. PICK path \in Path : path = req.path
  OBVIOUS
<1>2. path \in Seq(Literal) /\ \A p \in Path : p \in Seq(Literal)
  BY PathTyped
<1>3. ASSUME NEW x, k = Plain(x) PROVE FALSE
  <2>1. \A p \in Path : Hits(k, p) <=> p = x
    BY <1>3 DEF Plain, Hits
  <2>2. path = x /\ r = x
    BY <1>1, <2>1
  <2>3. QED BY <1>1, <2>2
<1>4. /\ Plain(path) \notin keys
      /\ Deciding(keys, req) = {x \in Candidates(keys, path) :
                                  \A y \in Candidates(keys, path) \ {x} : Before(y, x)}
  <2>1. CASE Plain(path) \in keys
    BY <1>1, <1>3, <2>1 DEF Deciding
  <2>2. CASE Plain(path) \notin keys /\ req.operation = "list" /\ Plain(Trimmed(path)) \in keys
    BY <1>1, <1>3, <2>2 DEF Deciding
  <2>3. CASE Plain(path) \notin keys /\ ~(req.operation = "list" /\ Plain(Trimmed(path)) \in keys)
    BY <1>1, <2>3 DEF Deciding
  <2>4. QED BY <2>1, <2>2, <2>3
<1> DEFINE all == Candidates(keys, path)
<1>5. k \in all /\ \A y \in all \ {k} : Before(y, k)
  BY <1>4
<1>6. \A x \in all : x \in keys /\ Covers(x, path)
  BY <1>2, CandidatesCover
<1>7. k \in keys /\ k \in KeySet /\ j \in KeySet /\ IsKey(j) /\ IsKey(k) /\ j # k
  BY <1>5, <1>6
<1>8. \A p \in Path : (Hits(j, p) <=> Covers(j, p)) /\ (Hits(k, p) <=> Covers(k, p))
  BY <1>2, <1>7, HitsCovers
<1>9. \A p \in Path : Covers(j, p) => Covers(k, p)
  BY <1>8
<1>10. Covers(j, path) /\ Covers(k, path)
  BY <1>1, <1>8
<1>11. Fixed(j, k)
  <2>1. Len(j.path) <= MaxSegments
    <3>1. Len(j.path) < MaxSegments /\ Len(j.path) \in Nat /\ MaxSegments \in Nat
      BY <1>7, BoundAssumption DEF KeySet, PathSet
    <3>2. QED BY <3>1
  <2>2. QED BY <1>7, <1>9, <2>1, SubsetFixed
<1> HIDE DEF all
<1>12. CASE j \in all
  <2>1. ~(j.glob /\ ~k.glob)
    <3>1. Len(k.path) < MaxSegments
      BY <1>7
    <3>2. QED BY <1>7, <1>9, <1>10, <3>1, LongerCovered
  <2>2. Before(j, k)
    BY <1>5, <1>7, <1>12
  <2>3. QED BY <1>7, <1>11, <2>1, <2>2, LessNotBefore
<1>13. CASE j \notin all
  <2>1. ~j.wild
    BY <1>10, <1>13 DEF all, Candidates
  <2>2. j.glob
    <3>1. SUFFICES ASSUME ~j.glob PROVE FALSE
      OBVIOUS
    <3>2. j.path = path
      BY <1>1, <2>1, <3>1 DEF Hits
    <3>3. j = [path |-> j.path, wild |-> j.wild, glob |-> j.glob] /\ j.wild = FALSE /\ j.glob = FALSE
      BY <1>7, <2>1, <3>1 DEF KeySet
    <3>4. j = Plain(path)
      BY <3>2, <3>3 DEF Plain
    <3>5. QED BY <1>4, <3>4
  <2>3. HasPrefix(path, j)
    BY <1>1, <2>1, <2>2 DEF Hits
  <2>4. PICK m \in all : /\ m \in keys /\ ~m.wild
                         /\ \A x \in keys : ~x.wild /\ x.glob /\ HasPrefix(path, x) =>
                              Chars(x.path) <= Chars(m.path)
    BY <2>1, <2>2, <2>3, CandidatesThere DEF all
  <2>5. PICK x \in keys : ~x.wild /\ x.glob /\ HasPrefix(path, x) /\ ~(Chars(x.path) <= Chars(j.path))
    BY <1>13, <2>1, <2>2, <2>3 DEF all, Candidates
  <2>6. m \in KeySet /\ x \in KeySet /\ IsKey(m)
    BY <2>4
  <2>7. Chars(x.path) \in Int /\ Chars(j.path) \in Int /\ Chars(m.path) \in Int
    BY <1>7, <2>6, CharsTyped DEF KeySet
  <2>8. Chars(x.path) <= Chars(m.path)
    BY <2>4, <2>5
  <2>9. Chars(j.path) < Chars(m.path)
    BY <2>5, <2>7, <2>8
  <2>10. FirstWildcard(j) = Chars(j.path) /\ FirstWildcard(m) = Chars(m.path)
    BY <1>7, <2>1, <2>4, <2>6, NoWildcard
  <2>11. FirstWildcard(k) \in Int /\ FirstWildcard(k) <= FirstWildcard(j)
    BY <1>7, <1>11, FixedFirst, FirstWildcardTyped
  <2>12. FirstWildcard(m) <= FirstWildcard(k)
    <3>1. CASE m = k
      BY <2>11, <3>1
    <3>2. CASE m # k
      <4>1. Before(m, k)
        BY <1>5, <2>4, <3>2
      <4>2. FirstWildcard(m) < FirstWildcard(k) \/ FirstWildcard(m) = FirstWildcard(k)
        BY <4>1 DEF Before
      <4>3. QED BY <2>7, <2>10, <2>11, <4>2
    <3>3. QED BY <3>1, <3>2
  <2>13. QED BY <2>7, <2>9, <2>10, <2>11, <2>12
<1>14. QED BY <1>12, <1>13

LEMMA NarrowestSound == IInv => NarrowestDecides
<1> SUFFICES ASSUME IInv PROVE NarrowestDecides
  OBVIOUS
<1>1. ASSUME NEW p \in Checkers, Decided(work[p]),
             NEW k \in Deciding(Rules(work[p]), work[p].request),
             NEW j \in Hit(work[p]) \cap Narrower[k]
      PROVE  FALSE
  <2>1. work[p] \in CheckCall /\ work[p].request.path \in Path
    <3>1. work[p].at = "answered" /\ work[p].answer \in {"allowed", "denied"}
      BY <1>1 DEF Decided
    <3>2. CallOK(p)
      BY DEF IInv, TypeInv, Proc
    <3>3. work[p] \in CheckCall /\ CheckOK(work[p])
      BY <3>1, <3>2 DEF CallOK, Idle, SetCall, DeleteCall
    <3>4. work[p].request \in Request
      BY <3>1, <3>3 DEF CheckOK
    <3>5. QED BY <3>3, <3>4, RequestAssumption
  <2> DEFINE keys == Rules(work[p])
             req == work[p].request
  <2>2. keys \subseteq KeySet /\ IsFiniteSet(keys) /\ \A x \in keys : IsKey(x)
    BY <2>1, RulesOfCheck
  <2>3. ASSUME NEW x \in keys PROVE x \in Keys /\ Len(x.path) < MaxSegments
    <3>1. PICK d \in Range(work[p].found) : x \in DOMAIN Text[d]
      BY <2>3 DEF Rules
    <3>2. d \in Doc
      <4>1. work[p].found \in Seq(Doc)
        BY <2>1 DEF CheckCall
      <4>2. QED BY <3>1, <4>1 DEF Range
    <3>3. QED BY <3>1, <3>2, DocumentAssumption DEF Keys
  <2>4. j \in keys /\ Hits(j, req.path)
    BY DEF Hit
  <2>5. k \in keys
    BY DEF Deciding, Candidates
  <2>6. k \in Keys /\ j \in Keys
    BY <2>3, <2>4, <2>5
  <2>7. Narrower[k] = {x \in Keys : /\ PathsOf[x] \subseteq PathsOf[k] /\ PathsOf[x] # PathsOf[k]
                                    /\ Wildcards(x) <= Wildcards(k)}
    BY <2>6 DEF Narrower
  <2>8. /\ PathsOf[j] \subseteq PathsOf[k] /\ PathsOf[j] # PathsOf[k]
        /\ Wildcards(j) <= Wildcards(k)
    BY <1>1, <2>7
  <2>9. /\ PathsOf[j] = {x \in Path : Hits(j, x)}
        /\ PathsOf[k] = {x \in Path : Hits(k, x)}
    BY <2>6 DEF PathsOf
  <2>10. \A x \in Path : Hits(j, x) => Hits(k, x)
    BY <2>8, <2>9
  <2>11. PICK r \in Path : Hits(k, r) /\ ~Hits(j, r)
    BY <2>8, <2>9
  <2> HIDE DEF keys, req
  <2>12. k \in Deciding(keys, req) /\ req.path \in Path
    BY <1>1, <2>1 DEF keys, req
  <2>13. QED BY <2>2, <2>3, <2>4, <2>8, <2>10, <2>11, <2>12, NonePassedOver
<1>2. \A p \in Checkers :
        Decided(work[p]) =>
          \A k \in Deciding(Rules(work[p]), work[p].request) : Hit(work[p]) \cap Narrower[k] = {}
  BY <1>1
<1>3. QED BY <1>2, OneDecidesSound DEF NarrowestDecides

(* One rule decides each path that some rule covers, and no rule that       *)
(* covers the path and less than it is passed over, unless that one has     *)
(* more segment wildcards; whatever documents the token has and in          *)
(* whichever order their rules are walked (acl.rs:230-267, 281-386).        *)
THEOREM NarrowestDecidesHolds == Spec => []NarrowestDecides
BY Invariant, NarrowestSound, PTL
=============================================================================
