---------------------------- MODULE Cepaf_proofs ----------------------------
(*************************************************************************)
(* Proofs about SigningKeys, StsLimiter and OrSet, the models of the     *)
(* processes of cepaf_gleam: for every set of callers, kids, realms and  *)
(* replicas, every limit and window, and every number of failures,       *)
(* crashes and restarts.  Where a theorem needs one rotator or one       *)
(* caller, which the code does not enforce, it says so; the properties   *)
(* CurrentExists and SeedKept speak of the time before the first failing *)
(* statement or crash.                                                   *)
(*************************************************************************)
EXTENDS SigningKeys, StsLimiter, OrSet, FiniteSetTheorems, WellFoundedInduction, TLAPS

-----------------------------------------------------------------------------
(*************************************************************************)
(* SigningKeys.                                                          *)
(*************************************************************************)

(* Type correctness, one lemma per group of actions.                       *)

LEMMA RotatorTyped ==
  ASSUME TypeOK, NEW p \in Rotators, RotatorStep(p)
  PROVE  TypeOK'
<1> USE DEF TypeOK, ArgTyped, Steps, RotateSteps, tables
<1>p. p \in Procs
  BY DEF Procs
<1>1. CASE RotateDemote(p)
  BY <1>1, <1>p DEF RotateDemote, Step
<1>2. CASE RotateInsertKey(p)
  BY <1>2, <1>p DEF RotateInsertKey, Step
<1>3. CASE RotateInsertSeed(p)
  BY <1>3, <1>p DEF RotateInsertSeed, Step
<1>4. CASE RotateInvalidate(p)
  BY <1>4, <1>p DEF RotateInvalidate, Step
<1>5. CASE HandoffPut(p)
  BY <1>5, <1>p DEF HandoffPut, Step
<1>6. CASE HandoffPurge(p)
  BY <1>6, <1>p DEF HandoffPurge, Step
<1>7. CASE RotateFails(p)
  BY <1>7, <1>p DEF RotateFails
<1> QED
  BY <1>1, <1>2, <1>3, <1>4, <1>5, <1>6, <1>7 DEF RotatorStep

LEMMA JwksTyped ==
  ASSUME TypeOK, NEW p \in JwksReaders, JwksStep(p)
  PROVE  TypeOK'
<1> USE DEF TypeOK, ArgTyped, Steps, RotateSteps, tables
<1>p. p \in Procs
  BY DEF Procs
<1>1. CASE JwksMiss(p)
  BY <1>1, <1>p DEF JwksMiss, Step
<1>2. CASE JwksPublish(p)
  BY <1>2, <1>p DEF JwksPublish, Step
<1>3. CASE JwksFill(p)
  BY <1>3, <1>p DEF JwksFill, Step
<1> QED
  BY <1>1, <1>2, <1>3 DEF JwksStep

LEMMA IssuerTyped ==
  ASSUME TypeOK, NEW p \in Issuers, IssuerStep(p)
  PROVE  TypeOK'
<1> USE DEF TypeOK, ArgTyped, Steps, RotateSteps, tables
<1>p. p \in Procs
  BY DEF Procs
<1>1. CASE IssueLocal(p)
  BY <1>1, <1>p DEF IssueLocal
<1>2. CASE IssueFetchSeed(p)
  BY <1>2, <1>p DEF IssueFetchSeed, Step
<1>3. CASE IssueWithSeed(p)
  BY <1>3, <1>p DEF IssueWithSeed, Step
<1> QED
  BY <1>1, <1>2, <1>3 DEF IssuerStep

LEMMA InitTyped == Init => TypeOK
  BY DEF Init, TypeOK, ArgTyped, Steps, RotateSteps

LEMMA NextTyped == TypeOK /\ [Next]_vars => TypeOK'
<1> SUFFICES ASSUME TypeOK, [Next]_vars PROVE TypeOK'
  OBVIOUS
<1>1. CASE \E p \in Rotators : RotatorStep(p)
  BY <1>1, RotatorTyped
<1>2. CASE \E p \in JwksReaders : JwksStep(p)
  BY <1>2, JwksTyped
<1>3. CASE \E p \in Issuers : IssuerStep(p)
  BY <1>3, IssuerTyped
<1>4. CASE JwksExpire
  BY <1>4 DEF JwksExpire, TypeOK, ArgTyped, tables
<1>5. CASE Crash
  BY <1>5 DEF Crash, TypeOK, ArgTyped, Steps, RotateSteps, tables
<1>6. CASE UNCHANGED vars
  BY <1>6 DEF vars, TypeOK, ArgTyped
<1> QED
  BY <1>1, <1>2, <1>3, <1>4, <1>5, <1>6 DEF Next

(* The tables, the caches and what calls carry are well typed for ever;    *)
(* with current \subseteq keys this says a demoted or failed rotation      *)
(* leaves no current key without a row.                                    *)
THEOREM TypeCorrect == Spec => []TypeOK
<1>1. Init => TypeOK
  BY InitTyped
<1>2. TypeOK /\ [Next]_vars => TypeOK'
  BY NextTyped
<1> QED
  BY <1>1, <1>2, PTL DEF Spec

-----------------------------------------------------------------------------
(* TokensVerify needs nothing but the types: what signs is current, and    *)
(* current rows are rows.                                                  *)

(* Every token ever issued names a key the table still holds, through any  *)
(* number of concurrent rotations, failing statements and crashes: no step *)
(* of rotate, its errors or the handoff drops a row of signing_keys.       *)
LEMMA TokensVerifyHolds == Spec => []TokensVerify
<1>1. Init => TokensVerify
  BY DEF Init, TokensVerify
<1>2. TypeOK /\ TokensVerify /\ [Next]_vars => TokensVerify'
  <2> SUFFICES ASSUME TypeOK, TokensVerify, [Next]_vars PROVE TokensVerify'
    OBVIOUS
  <2> USE DEF TypeOK, TokensVerify, tables
  <2>1. CASE \E p \in Rotators : RotatorStep(p)
    BY <2>1 DEF RotatorStep, RotateDemote, RotateInsertKey, RotateInsertSeed,
                RotateInvalidate, HandoffPut, HandoffPurge, RotateFails
  <2>2. CASE \E p \in JwksReaders : JwksStep(p)
    BY <2>2 DEF JwksStep, JwksMiss, JwksPublish, JwksFill
  <2>3. CASE \E p \in Issuers : IssuerStep(p)
    BY <2>3 DEF IssuerStep, IssueLocal, IssueFetchSeed, IssueWithSeed
  <2>4. CASE JwksExpire \/ Crash \/ UNCHANGED vars
    BY <2>4 DEF JwksExpire, Crash, vars
  <2> QED
    BY <2>1, <2>2, <2>3, <2>4 DEF Next
<1> QED
  BY <1>1, <1>2, TypeCorrect, PTL DEF Spec

-----------------------------------------------------------------------------
(* One rotating caller: between its UPDATE and its INSERT there is no      *)
(* current key at all, so the INSERT makes exactly one.                    *)

OnlyRotatorsRotate == \A p \in Procs : pc[p] \in RotateSteps => p \in Rotators
EmptyBeforeInsert == \A p \in Rotators : pc[p] = "insert_key" => current = {}
CurrentInv == OneCurrent /\ OnlyRotatorsRotate /\ EmptyBeforeInsert

(* With one caller of rotate at a time no two rows are ever current, over  *)
(* any failures and crashes of the three statements (SC-FERRISKEY-NIF-008; *)
(* the run two_rotators shows that the premise is needed).                 *)
THEOREM OneCurrentHolds ==
  ASSUME NEW r, Rotators = {r}
  PROVE  Spec => []OneCurrent
<1> USE DEF CurrentInv, OneCurrent, OnlyRotatorsRotate, EmptyBeforeInsert, RotateSteps, tables
<1>1. Init => CurrentInv
  BY DEF Init
<1>2. TypeOK /\ CurrentInv /\ [Next]_vars => CurrentInv'
  <2> SUFFICES ASSUME TypeOK, CurrentInv, [Next]_vars PROVE CurrentInv'
    OBVIOUS
  <2>t. pc \in [Procs -> Steps] /\ r \in Procs
    BY DEF TypeOK, Procs
  <2>1. CASE RotateDemote(r)
    BY <2>1, <2>t DEF RotateDemote, Step
  <2>2. CASE RotateInsertKey(r)
    BY <2>2, <2>t DEF RotateInsertKey, Step
  <2>3. CASE RotateInsertSeed(r) \/ RotateInvalidate(r)
    BY <2>3, <2>t DEF RotateInsertSeed, RotateInvalidate, Step
  <2>4. CASE HandoffPut(r) \/ HandoffPurge(r) \/ RotateFails(r)
    BY <2>4, <2>t DEF HandoffPut, HandoffPurge, RotateFails, Step
  <2>5. CASE \E p \in JwksReaders : JwksStep(p)
    BY <2>5, <2>t DEF JwksStep, JwksMiss, JwksPublish, JwksFill, Step, Procs
  <2>6. CASE \E p \in Issuers : IssuerStep(p)
    BY <2>6, <2>t DEF IssuerStep, IssueLocal, IssueFetchSeed, IssueWithSeed, Step, Procs
  <2>7. CASE JwksExpire \/ Crash \/ UNCHANGED vars
    BY <2>7, <2>t DEF JwksExpire, Crash, vars
  <2> QED
    BY <2>1, <2>2, <2>3, <2>4, <2>5, <2>6, <2>7 DEF Next, RotatorStep
<1>3. CurrentInv => OneCurrent
  OBVIOUS
<1> QED
  BY <1>1, <1>2, <1>3, TypeCorrect, PTL DEF Spec

-----------------------------------------------------------------------------
(* The handoff: a kid belongs to one call until the call returns, its seed *)
(* is in the vault before the purge, and no other call inserts it again.   *)

KidsApart ==
  \A p, q \in Procs :
    pc[p] \in RotateSteps /\ pc[q] \in RotateSteps /\ arg[p] = arg[q] => p = q

HandedKidsDone == \A p \in Procs : pc[p] \in RotateSteps => arg[p] \notin handoffs

RowBeforeSeed ==
  \A p \in Procs :
    pc[p] \in {"insert_seed", "invalidate", "vault_put", "purge"} => arg[p] \in keys

PutBeforePurge == \A p \in Procs : pc[p] = "purge" => arg[p] \in vault

HandoffInv ==
  HandoffComplete /\ KidsApart /\ HandedKidsDone /\ RowBeforeSeed /\ PutBeforePurge

(* A handoff that rotate_to_vault reports is complete and stays so: its    *)
(* seed is in the vault, gone from SQLite, and its row is in the table     *)
(* (SC-FERRISKEY-NIF-010), for any number of concurrent rotations,         *)
(* failures and crashes.                                                   *)
THEOREM HandoffCompleteHolds == Spec => []HandoffComplete
<1> USE DEF HandoffInv, HandoffComplete, KidsApart, HandedKidsDone, RowBeforeSeed,
            PutBeforePurge, RotateSteps, tables
<1>1. Init => HandoffInv
  BY DEF Init
<1>2. TypeOK /\ HandoffInv /\ [Next]_vars => HandoffInv'
  <2> SUFFICES ASSUME TypeOK, HandoffInv, [Next]_vars PROVE HandoffInv'
    OBVIOUS
  <2>t. pc \in [Procs -> Steps] /\ DOMAIN arg = Procs /\ Rotators \subseteq Procs
    BY DEF TypeOK, Procs
  <2>1. ASSUME NEW p \in Rotators, RotateDemote(p) PROVE HandoffInv'
    BY <2>1, <2>t DEF RotateDemote, Step, Minting
  <2>2. ASSUME NEW p \in Rotators, RotateInsertKey(p) PROVE HandoffInv'
    BY <2>2, <2>t DEF RotateInsertKey, Step
  <2>3. ASSUME NEW p \in Rotators, RotateInsertSeed(p) PROVE HandoffInv'
    BY <2>3, <2>t DEF RotateInsertSeed, Step
  <2>4. ASSUME NEW p \in Rotators, RotateInvalidate(p) PROVE HandoffInv'
    BY <2>4, <2>t DEF RotateInvalidate, Step
  <2>5. ASSUME NEW p \in Rotators, HandoffPut(p) PROVE HandoffInv'
    BY <2>5, <2>t DEF HandoffPut, Step
  <2>6. ASSUME NEW p \in Rotators, HandoffPurge(p) PROVE HandoffInv'
    BY <2>6, <2>t DEF HandoffPurge, Step
  <2>7. ASSUME NEW p \in Rotators, RotateFails(p) PROVE HandoffInv'
    BY <2>7, <2>t DEF RotateFails
  <2>8. CASE \E p \in JwksReaders : JwksStep(p)
    BY <2>8, <2>t DEF JwksStep, JwksMiss, JwksPublish, JwksFill, Step, Procs
  <2>9. CASE \E p \in Issuers : IssuerStep(p)
    BY <2>9, <2>t DEF IssuerStep, IssueLocal, IssueFetchSeed, IssueWithSeed, Step, Procs
  <2>10. CASE JwksExpire \/ Crash \/ UNCHANGED vars
    BY <2>10, <2>t DEF JwksExpire, Crash, vars
  <2> QED
    BY <2>1, <2>2, <2>3, <2>4, <2>5, <2>6, <2>7, <2>8, <2>9, <2>10 DEF Next, RotatorStep
<1>3. HandoffInv => HandoffComplete
  OBVIOUS
<1> QED
  BY <1>1, <1>2, <1>3, TypeCorrect, PTL DEF Spec

-----------------------------------------------------------------------------
(* Without failures and crashes every demotion is followed by its insert,  *)
(* and every seed moves from SQLite to the vault without a gap.            *)

(* No current key only while some call is between UPDATE and INSERT.       *)
CurrentOrPending ==
  Faultless /\ keys # {} => current # {} \/ \E p \in Procs : pc[p] = "insert_key"

(* If no statement fails and nothing crashes, a realm that has ever had a  *)
(* key has a current one whenever no rotation is in progress, with any     *)
(* number of rotating callers.                                             *)
THEOREM CurrentExistsHolds ==
  Spec => []CurrentExists
<1>1. Init => CurrentOrPending
  BY DEF Init, CurrentOrPending, Faultless
<1>2. TypeOK /\ CurrentOrPending /\ [Next]_vars => CurrentOrPending'
  <2> SUFFICES ASSUME TypeOK, CurrentOrPending, [Next]_vars
               PROVE  CurrentOrPending'
    OBVIOUS
  <2> USE DEF CurrentOrPending, Faultless, tables
  <2>t. pc \in [Procs -> Steps] /\ Rotators \subseteq Procs
    BY DEF TypeOK, Procs
  <2>1. ASSUME NEW p \in Rotators, RotateDemote(p) PROVE CurrentOrPending'
    BY <2>1, <2>t DEF RotateDemote, Step
  <2>2. ASSUME NEW p \in Rotators, RotateInsertKey(p) PROVE CurrentOrPending'
    BY <2>2, <2>t DEF RotateInsertKey, Step
  <2>3. ASSUME NEW p \in Rotators, RotateInsertSeed(p) \/ RotateInvalidate(p)
        PROVE  CurrentOrPending'
    BY <2>3, <2>t DEF RotateInsertSeed, RotateInvalidate, Step
  <2>4. ASSUME NEW p \in Rotators, HandoffPut(p) \/ HandoffPurge(p)
        PROVE  CurrentOrPending'
    BY <2>4, <2>t DEF HandoffPut, HandoffPurge, Step
  <2>5. CASE \E p \in Rotators : RotateFails(p)
    BY <2>5 DEF RotateFails, Faultless, TypeOK
  <2>6. CASE \E p \in JwksReaders : JwksStep(p)
    BY <2>6, <2>t DEF JwksStep, JwksMiss, JwksPublish, JwksFill, Step, Procs
  <2>7. CASE \E p \in Issuers : IssuerStep(p)
    BY <2>7, <2>t DEF IssuerStep, IssueLocal, IssueFetchSeed, IssueWithSeed, Step, Procs
  <2>8. CASE JwksExpire \/ UNCHANGED vars
    BY <2>8 DEF JwksExpire, vars
  <2>9. CASE Crash
    BY <2>9 DEF Crash, Faultless, TypeOK
  <2> QED
    BY <2>1, <2>2, <2>3, <2>4, <2>5, <2>6, <2>7, <2>8, <2>9 DEF Next, RotatorStep
<1>3. CurrentOrPending => CurrentExists
  BY DEF CurrentOrPending, CurrentExists, NoRotation, RotateSteps
<1> QED
  BY <1>1, <1>2, <1>3, TypeCorrect, PTL DEF Spec

SeedInv == SeedKept /\ PutBeforePurge

(* Under the same premise a complete key's seed is never nowhere: the put  *)
(* to the vault is always ahead of the purge (rotate_to_vault), also when  *)
(* several callers rotate and hand off at once.                            *)
THEOREM SeedKeptHolds ==
  Spec => []SeedKept
<1> USE DEF SeedInv, SeedKept, PutBeforePurge, Faultless, tables
<1>1. Init => SeedInv
  BY DEF Init
<1>2. TypeOK /\ SeedInv /\ [Next]_vars => SeedInv'
  <2> SUFFICES ASSUME TypeOK, SeedInv, [Next]_vars PROVE SeedInv'
    OBVIOUS
  <2>t. pc \in [Procs -> Steps] /\ DOMAIN arg = Procs /\ Rotators \subseteq Procs
    BY DEF TypeOK, Procs
  <2>1. ASSUME NEW p \in Rotators, RotateDemote(p) PROVE SeedInv'
    BY <2>1, <2>t DEF RotateDemote, Step
  <2>2. ASSUME NEW p \in Rotators, RotateInsertKey(p) PROVE SeedInv'
    BY <2>2, <2>t DEF RotateInsertKey, Step
  <2>3. ASSUME NEW p \in Rotators, RotateInsertSeed(p) PROVE SeedInv'
    BY <2>3, <2>t DEF RotateInsertSeed, Step
  <2>4. ASSUME NEW p \in Rotators, RotateInvalidate(p) PROVE SeedInv'
    BY <2>4, <2>t DEF RotateInvalidate, Step
  <2>5. ASSUME NEW p \in Rotators, HandoffPut(p) PROVE SeedInv'
    BY <2>5, <2>t DEF HandoffPut, Step
  <2>6. ASSUME NEW p \in Rotators, HandoffPurge(p) PROVE SeedInv'
    BY <2>6, <2>t DEF HandoffPurge, Step
  <2>7. CASE \E p \in Rotators : RotateFails(p)
    BY <2>7 DEF RotateFails, Faultless, TypeOK
  <2>8. CASE \E p \in JwksReaders : JwksStep(p)
    BY <2>8, <2>t DEF JwksStep, JwksMiss, JwksPublish, JwksFill, Step, Procs
  <2>9. CASE \E p \in Issuers : IssuerStep(p)
    BY <2>9, <2>t DEF IssuerStep, IssueLocal, IssueFetchSeed, IssueWithSeed, Step, Procs
  <2>10. CASE JwksExpire \/ UNCHANGED vars
    BY <2>10 DEF JwksExpire, vars
  <2>11. CASE Crash
    BY <2>11 DEF Crash, Faultless, TypeOK
  <2> QED
    BY <2>1, <2>2, <2>3, <2>4, <2>5, <2>6, <2>7, <2>8, <2>9, <2>10, <2>11 DEF Next, RotatorStep
<1>3. SeedInv => SeedKept
  OBVIOUS
<1> QED
  BY <1>1, <1>2, <1>3, TypeCorrect, PTL DEF Spec

(* With one rotator the tables are well typed, with one current key at     *)
(* most and the row of every key that has signed.                          *)
THEOREM TableOKHolds ==
  ASSUME NEW r, Rotators = {r}
  PROVE  Spec => []TableOK
<1>1. Spec => []OneCurrent
  BY OneCurrentHolds
<1>2. TypeOK /\ OneCurrent /\ TokensVerify => TableOK
  BY DEF TableOK
<1>3. QED
  BY <1>1, <1>2, TypeCorrect, TokensVerifyHolds, PTL


-----------------------------------------------------------------------------
(*************************************************************************)
(* StsLimiter.                                                           *)
(*                                                                       *)
(* The stamps still to be handled are those in the mailbox and those a   *)
(* caller can still read from the clock.  With one caller none of them is *)
(* before a stamp already handled, so what the actor has pruned can no   *)
(* longer matter: Forgotten.                                             *)
(*************************************************************************)

(* A non-empty set of naturals has a least element.                         *)
LEMMA NatSetHasMin ==
  ASSUME NEW T \in SUBSET Nat, T # {}
  PROVE  \E m \in T : \A x \in T : m <= x
<1>1. PICK m \in T : \A x \in T : <<x, m>> \notin OpToRel(<, Nat)
  BY WFMin, NatLessThanWellFounded, Zenon
<1>2. \A x \in T : ~(x < m)
  BY <1>1, Zenon DEF OpToRel
<1>3. QED
  BY <1>2

(* No stamp still to be handled is before t.                               *)
NotBefore(t) ==
  /\ t <= clock
  /\ \A c \in Callers : \A i \in 1 .. Len(mailbox[c]) : t <= mailbox[c][i].call.at

InOrder ==
  \A c \in Callers : \A i, j \in 1 .. Len(mailbox[c]) :
    /\ i <= j => mailbox[c][i].call.at <= mailbox[c][j].call.at
    /\ mailbox[c][i].call.at <= clock

Past == \A r \in Realms : \A k \in allowed[r] : NotBefore(k.at)

Forgotten == \A r \in Realms : \A k \in allowed[r] \ windows[r] : NotBefore(k.at + WindowMs)

FiniteHistory == \A r \in Realms : IsFiniteSet(allowed[r]) /\ windows[r] \subseteq allowed[r]

WindowInv ==
  LimiterTypeOK /\ FiniteHistory /\ InOrder /\ Past /\ Forgotten /\ WindowRespected

SmallWindows ==
  \A r \in Realms : IsFiniteSet(windows[r]) /\ Cardinality(windows[r]) <= RpmLimit

-----------------------------------------------------------------------------
LEMMA TypeStep == LimiterTypeOK /\ [LimiterNext]_limiterVars => LimiterTypeOK'
<1> SUFFICES ASSUME LimiterTypeOK, [LimiterNext]_limiterVars PROVE LimiterTypeOK'
  OBVIOUS
<1>1. CASE UNCHANGED limiterVars
  BY <1>1 DEF limiterVars, LimiterTypeOK
<1>2. CASE Tick
  BY <1>2 DEF Tick, LimiterTypeOK
<1>3. ASSUME NEW c \in Callers, CheckAllow(c) PROVE LimiterTypeOK'
  <2> DEFINE m == Head(mailbox[c])
  <2>1. mailbox[c] \in Seq(Message) /\ mailbox[c] # <<>>
    BY <1>3 DEF CheckAllow, LimiterTypeOK
  <2>2. m \in Message /\ Tail(mailbox[c]) \in Seq(Message)
    BY <2>1
  <2>3. m.realm \in Realms /\ m.call \in Call
    BY <2>2 DEF Message
  <2>4. mailbox' \in [Callers -> Seq(Message)]
    BY <1>3, <2>2 DEF CheckAllow, LimiterTypeOK
  <2>5. \A w \in SUBSET Call : Pruned(w, m.call.at) \in SUBSET Call
    BY DEF Pruned
  <2>6. \/ /\ windows' = [windows EXCEPT ![m.realm] = Pruned(@, m.call.at)]
           /\ allowed' = allowed
        \/ /\ windows' = [windows EXCEPT ![m.realm] = Pruned(@, m.call.at) \cup {m.call}]
           /\ allowed' = [allowed EXCEPT ![m.realm] = @ \cup {m.call}]
    BY <1>3 DEF CheckAllow, Allow, Throttle
  <2>7. windows' \in [Realms -> SUBSET Call] /\ allowed' \in [Realms -> SUBSET Call]
    <3> HIDE DEF m
    <3>1. windows[m.realm] \in SUBSET Call /\ allowed[m.realm] \in SUBSET Call
      BY <2>3 DEF LimiterTypeOK
    <3>2. /\ Pruned(windows[m.realm], m.call.at) \in SUBSET Call
          /\ Pruned(windows[m.realm], m.call.at) \cup {m.call} \in SUBSET Call
          /\ allowed[m.realm] \cup {m.call} \in SUBSET Call
      BY <2>3, <2>5, <3>1
    <3>3. QED
      BY <2>6, <3>2 DEF LimiterTypeOK
  <2>8. QED
    BY <1>3, <2>4, <2>7 DEF CheckAllow, LimiterTypeOK
<1>4. ASSUME NEW c \in Callers, NEW r \in Realms, Send(c, r) PROVE LimiterTypeOK'
  <2> DEFINE m == [realm |-> r, call |-> [number |-> calls + 1, at |-> clock]]
  <2>1. m \in Message
    BY DEF Message, Call, LimiterTypeOK
  <2>2. mailbox' \in [Callers -> Seq(Message)]
    BY <1>4, <2>1 DEF Send, LimiterTypeOK
  <2>3. QED
    BY <1>4, <2>2 DEF Send, LimiterTypeOK
<1>5. ASSUME NEW r \in Realms, Reset(r) PROVE LimiterTypeOK'
  BY <1>5 DEF Reset, LimiterTypeOK
<1>6. CASE Restart
  BY <1>6 DEF Restart, LimiterTypeOK
<1>7. QED
  BY <1>1, <1>2, <1>3, <1>4, <1>5, <1>6 DEF LimiterNext

LEMMA TypeInit == LimiterInit => LimiterTypeOK
BY DEF LimiterInit, LimiterTypeOK

(* The actor's state, the mailbox and the history stay well typed.         *)
THEOREM LimiterTypeCorrect == LimiterSpec => []LimiterTypeOK
BY TypeInit, TypeStep, PTL DEF LimiterSpec

(* Handling takes a message that is at the head of a mailbox, and the      *)
(* messages that remain were in it.                                        *)
LEMMA Handled ==
  ASSUME LimiterTypeOK, NEW c \in Callers, CheckAllow(c)
  PROVE  /\ Head(mailbox[c]) = mailbox[c][1] /\ 1 \in 1 .. Len(mailbox[c])
         /\ Head(mailbox[c]).realm \in Realms /\ Head(mailbox[c]).call \in Call
         /\ \A d \in Callers \ {c} : mailbox'[d] = mailbox[d]
         /\ Len(mailbox'[c]) = Len(mailbox[c]) - 1
         /\ \A i \in 1 .. Len(mailbox'[c]) :
              i + 1 \in 1 .. Len(mailbox[c]) /\ mailbox'[c][i] = mailbox[c][i + 1]
         /\ clock' = clock
<1>1. mailbox[c] \in Seq(Message) /\ mailbox[c] # <<>>
  BY DEF CheckAllow, LimiterTypeOK
<1>2. mailbox' = [mailbox EXCEPT ![c] = Tail(@)] /\ clock' = clock
  BY DEF CheckAllow
<1>3. mailbox'[c] = Tail(mailbox[c]) /\ \A d \in Callers \ {c} : mailbox'[d] = mailbox[d]
  BY <1>2 DEF LimiterTypeOK
<1>4. Head(mailbox[c]) \in Message
  BY <1>1
<1>5. ASSUME NEW q \in Seq(Message), q # <<>>
      PROVE  /\ Head(q) = q[1] /\ 1 \in 1 .. Len(q)
             /\ Len(Tail(q)) = Len(q) - 1
             /\ \A i \in 1 .. Len(Tail(q)) : i + 1 \in 1 .. Len(q) /\ Tail(q)[i] = q[i + 1]
  BY <1>5
<1>6. Head(mailbox[c]).realm \in Realms /\ Head(mailbox[c]).call \in Call
  BY <1>4 DEF Message
<1>7. QED
  BY <1>1, <1>2, <1>3, <1>5, <1>6

(* Sending appends a message stamped with the clock.                       *)
LEMMA Sent ==
  ASSUME LimiterTypeOK, NEW c \in Callers, NEW r \in Realms, Send(c, r)
  PROVE  /\ \A d \in Callers \ {c} : mailbox'[d] = mailbox[d]
         /\ Len(mailbox[c]) \in Nat /\ Len(mailbox'[c]) = Len(mailbox[c]) + 1
         /\ \A i \in 1 .. Len(mailbox[c]) : mailbox'[c][i] = mailbox[c][i]
         /\ mailbox'[c][Len(mailbox[c]) + 1].call.at = clock
         /\ clock' = clock
<1> DEFINE m == [realm |-> r, call |-> [number |-> calls + 1, at |-> clock]]
<1>1. mailbox[c] \in Seq(Message) /\ m \in Message
  <2>1. m \in Message
    BY DEF LimiterTypeOK, Message, Call
  <2>2. QED
    BY <2>1 DEF LimiterTypeOK
<1>2. mailbox' = [mailbox EXCEPT ![c] = Append(@, m)] /\ clock' = clock
  BY DEF Send
<1>3. mailbox'[c] = Append(mailbox[c], m) /\ \A d \in Callers \ {c} : mailbox'[d] = mailbox[d]
  BY <1>2 DEF LimiterTypeOK
<1>4. m.call.at = clock
  OBVIOUS
<1>5. ASSUME NEW q \in Seq(Message), NEW e \in Message
      PROVE  /\ Len(q) \in Nat /\ Len(Append(q, e)) = Len(q) + 1
             /\ \A i \in 1 .. Len(q) : Append(q, e)[i] = q[i]
             /\ Append(q, e)[Len(q) + 1] = e
  OBVIOUS
<1>6. QED
  <2> HIDE DEF m
  <2> QED BY <1>1, <1>2, <1>3, <1>4, <1>5

LEMMA StampsTyped ==
  ASSUME LimiterTypeOK, NEW c \in Callers, NEW i \in 1 .. Len(mailbox[c])
  PROVE  mailbox[c][i].call.at \in Nat /\ Len(mailbox[c]) \in Nat
<1>1. mailbox[c] \in Seq(Message)
  BY DEF LimiterTypeOK
<1>2. mailbox[c][i] \in Message
  BY <1>1
<1>3. QED
  BY <1>1, <1>2 DEF Message, Call

(* Time only goes on: no step brings back a stamp before t.                *)
LEMMA NotBeforeStays ==
  ASSUME LimiterTypeOK, [LimiterNext]_limiterVars, NEW t \in Int, NotBefore(t)
  PROVE  NotBefore(t)'
<1>1. CASE UNCHANGED limiterVars
  BY <1>1 DEF limiterVars, NotBefore
<1>2. CASE Tick
  BY <1>2 DEF Tick, NotBefore, LimiterTypeOK
<1>3. ASSUME NEW c \in Callers, CheckAllow(c) PROVE NotBefore(t)'
  <2>1. ASSUME NEW d \in Callers, NEW i \in 1 .. Len(mailbox'[d])
        PROVE  t <= mailbox'[d][i].call.at
    <3>1. CASE d # c
      <4>1. mailbox'[d] = mailbox[d]
        BY <1>3, <3>1, Handled
      <4>2. QED
        BY <2>1, <4>1 DEF NotBefore
    <3>2. CASE d = c
      <4>1. i + 1 \in 1 .. Len(mailbox[c]) /\ mailbox'[c][i] = mailbox[c][i + 1]
        BY <1>3, <2>1, <3>2, Handled
      <4>2. t <= mailbox[c][i + 1].call.at
        BY <4>1 DEF NotBefore
      <4>3. QED
        BY <3>2, <4>1, <4>2
    <3>3. QED
      BY <3>1, <3>2
  <2>2. QED
    BY <1>3, <2>1 DEF NotBefore, CheckAllow
<1>4. ASSUME NEW c \in Callers, NEW r \in Realms, Send(c, r) PROVE NotBefore(t)'
  <2>1. ASSUME NEW d \in Callers, NEW i \in 1 .. Len(mailbox'[d])
        PROVE  t <= mailbox'[d][i].call.at
    <3>1. CASE d # c
      BY <1>4, <2>1, <3>1, Sent DEF NotBefore
    <3>2. CASE d = c /\ i \in 1 .. Len(mailbox[c])
      BY <1>4, <2>1, <3>2, Sent DEF NotBefore
    <3>3. CASE d = c /\ i = Len(mailbox[c]) + 1
      BY <1>4, <2>1, <3>3, Sent DEF NotBefore
    <3>4. QED
      BY <1>4, <2>1, <3>1, <3>2, <3>3, Sent
  <2>2. QED
    BY <1>4, <2>1, Sent DEF NotBefore
<1>5. ASSUME NEW r \in Realms, Reset(r) PROVE NotBefore(t)'
  BY <1>5 DEF Reset, NotBefore
<1>6. CASE Restart
  BY <1>6 DEF Restart, NotBefore
<1>7. QED
  BY <1>1, <1>2, <1>3, <1>4, <1>5, <1>6 DEF LimiterNext

LEMMA InOrderStep == LimiterTypeOK /\ InOrder /\ [LimiterNext]_limiterVars => InOrder'
<1> SUFFICES ASSUME LimiterTypeOK, InOrder, [LimiterNext]_limiterVars PROVE InOrder'
  OBVIOUS
<1>1. CASE UNCHANGED limiterVars
  BY <1>1 DEF limiterVars, InOrder
<1>2. CASE Tick
  <2>1. \A c \in Callers : \A i \in 1 .. Len(mailbox[c]) : mailbox[c][i].call.at \in Nat
    BY StampsTyped
  <2>2. QED
    BY <1>2, <2>1 DEF Tick, InOrder, LimiterTypeOK
<1>3. ASSUME NEW c \in Callers, CheckAllow(c) PROVE InOrder'
  <2>1. ASSUME NEW d \in Callers, NEW i \in 1 .. Len(mailbox'[d]), NEW j \in 1 .. Len(mailbox'[d])
        PROVE  /\ i <= j => mailbox'[d][i].call.at <= mailbox'[d][j].call.at
               /\ mailbox'[d][i].call.at <= clock'
    <3>1. CASE d # c
      BY <1>3, <2>1, <3>1, Handled DEF InOrder
    <3>2. CASE d = c
      <4>1. /\ i \in Nat /\ j \in Nat
            /\ i + 1 \in 1 .. Len(mailbox[c]) /\ mailbox'[c][i] = mailbox[c][i + 1]
            /\ j + 1 \in 1 .. Len(mailbox[c]) /\ mailbox'[c][j] = mailbox[c][j + 1]
            /\ clock' = clock
        BY <1>3, <2>1, <3>2, Handled
      <4>2. /\ i + 1 <= j + 1 => mailbox[c][i + 1].call.at <= mailbox[c][j + 1].call.at
            /\ mailbox[c][i + 1].call.at <= clock
        BY <4>1 DEF InOrder
      <4>3. i <= j => i + 1 <= j + 1
        BY <4>1
      <4>4. QED
        BY <3>2, <4>1, <4>2, <4>3
    <3>3. QED
      BY <3>1, <3>2
  <2>2. QED
    BY <2>1 DEF InOrder
<1>4. ASSUME NEW c \in Callers, NEW r \in Realms, Send(c, r) PROVE InOrder'
  <2>1. ASSUME NEW d \in Callers, NEW i \in 1 .. Len(mailbox'[d]), NEW j \in 1 .. Len(mailbox'[d])
        PROVE  /\ i <= j => mailbox'[d][i].call.at <= mailbox'[d][j].call.at
               /\ mailbox'[d][i].call.at <= clock'
    <3>1. CASE d # c
      BY <1>4, <2>1, <3>1, Sent DEF InOrder
    <3>2. CASE d = c /\ i \in 1 .. Len(mailbox[c]) /\ j \in 1 .. Len(mailbox[c])
      BY <1>4, <2>1, <3>2, Sent DEF InOrder
    <3>3. CASE d = c /\ i \in 1 .. Len(mailbox[c]) /\ j = Len(mailbox[c]) + 1
      BY <1>4, <2>1, <3>3, Sent DEF InOrder
    <3>4. CASE d = c /\ i = Len(mailbox[c]) + 1
      BY <1>4, <2>1, <3>4, Sent DEF InOrder, LimiterTypeOK
    <3>5. QED
      BY <1>4, <2>1, <3>1, <3>2, <3>3, <3>4, Sent
  <2>2. QED
    BY <2>1 DEF InOrder
<1>5. ASSUME NEW r \in Realms, Reset(r) PROVE InOrder'
  BY <1>5 DEF Reset, InOrder
<1>6. CASE Restart
  BY <1>6 DEF Restart, InOrder
<1>7. QED
  BY <1>1, <1>2, <1>3, <1>4, <1>5, <1>6 DEF LimiterNext

-----------------------------------------------------------------------------
(* What CheckAllow does to the window and the history of the realm.        *)
LEMMA Decision ==
  ASSUME LimiterTypeOK, NEW c \in Callers, CheckAllow(c)
  PROVE  \E r \in Realms, call \in Call :
           /\ call = mailbox[c][1].call
           /\ \A q \in Realms \ {r} : windows'[q] = windows[q] /\ allowed'[q] = allowed[q]
           /\ \/ /\ windows'[r] = Pruned(windows[r], call.at)
                 /\ allowed'[r] = allowed[r]
              \/ /\ ~Full(windows[r], call.at)
                 /\ windows'[r] = Pruned(windows[r], call.at) \cup {call}
                 /\ allowed'[r] = allowed[r] \cup {call}
<1> DEFINE m == Head(mailbox[c])
<1>1. m = mailbox[c][1] /\ m.realm \in Realms /\ m.call \in Call
  BY Handled
<1>2. \/ /\ windows' = [windows EXCEPT ![m.realm] = Pruned(@, m.call.at)]
         /\ allowed' = allowed
      \/ /\ ~Full(windows[m.realm], m.call.at)
         /\ windows' = [windows EXCEPT ![m.realm] = Pruned(@, m.call.at) \cup {m.call}]
         /\ allowed' = [allowed EXCEPT ![m.realm] = @ \cup {m.call}]
  BY DEF CheckAllow, Allow, Throttle
<1> HIDE DEF m
<1>3. QED
  BY <1>1, <1>2 DEF LimiterTypeOK

LEMMA PrunedSubset == \A w, now : Pruned(w, now) \subseteq w
BY DEF Pruned

-----------------------------------------------------------------------------
(* A window never outgrows the limit, whoever calls in whatever order.     *)
LEMMA SmallWindowsHold == LimiterSpec => [](LimiterTypeOK /\ SmallWindows)
<1>1. LimiterInit => SmallWindows
  BY FS_EmptySet, LimitAssumption DEF LimiterInit, SmallWindows
<1>2. LimiterTypeOK /\ SmallWindows /\ [LimiterNext]_limiterVars => SmallWindows'
  <2> SUFFICES ASSUME LimiterTypeOK, SmallWindows, [LimiterNext]_limiterVars PROVE SmallWindows'
    OBVIOUS
  <2>1. CASE UNCHANGED limiterVars \/ Tick \/ \E c \in Callers, r \in Realms : Send(c, r)
    BY <2>1 DEF limiterVars, Tick, Send, SmallWindows
  <2>2. ASSUME NEW c \in Callers, CheckAllow(c) PROVE SmallWindows'
    <3>1. PICK r \in Realms, call \in Call :
            /\ \A q \in Realms \ {r} : windows'[q] = windows[q]
            /\ \/ windows'[r] = Pruned(windows[r], call.at)
               \/ /\ ~Full(windows[r], call.at)
                  /\ windows'[r] = Pruned(windows[r], call.at) \cup {call}
      BY <2>2, Decision
    <3> DEFINE P == Pruned(windows[r], call.at)
    <3>2. IsFiniteSet(windows[r]) /\ Cardinality(windows[r]) <= RpmLimit
      BY DEF SmallWindows
    <3>3. /\ IsFiniteSet(P) /\ Cardinality(P) \in Nat /\ Cardinality(windows[r]) \in Nat
          /\ Cardinality(P) <= Cardinality(windows[r])
      BY <3>2, PrunedSubset, FS_Subset, FS_CardinalityType
    <3>4. IsFiniteSet(windows'[r]) /\ Cardinality(windows'[r]) <= RpmLimit
      <4>1. CASE windows'[r] = P
        BY <3>2, <3>3, <4>1, LimitAssumption
      <4>2. CASE ~Full(windows[r], call.at) /\ windows'[r] = P \cup {call}
        <5>1. Cardinality(P) < RpmLimit
          BY <3>3, <4>2, LimitAssumption DEF Full
        <5> HIDE DEF P
        <5>2. /\ IsFiniteSet(P \cup {call})
              /\ \/ Cardinality(P \cup {call}) = Cardinality(P)
                 \/ Cardinality(P \cup {call}) = Cardinality(P) + 1
          BY <3>3, FS_AddElement
        <5>3. Cardinality(P \cup {call}) \in Nat
          BY <5>2, FS_CardinalityType
        <5>4. QED
          BY <3>3, <4>2, <5>1, <5>2, <5>3, LimitAssumption
      <4>3. QED
        BY <3>1, <4>1, <4>2
    <3>5. QED
      BY <3>1, <3>4 DEF SmallWindows
  <2>3. ASSUME NEW r \in Realms, Reset(r) PROVE SmallWindows'
    BY <2>3, FS_EmptySet, LimitAssumption DEF Reset, SmallWindows, LimiterTypeOK
  <2>4. CASE Restart
    BY <2>4, FS_EmptySet, LimitAssumption DEF Restart, SmallWindows
  <2>5. QED
    BY <2>1, <2>2, <2>3, <2>4 DEF LimiterNext
<1>3. QED
  BY <1>1, <1>2, TypeInit, TypeStep, PTL DEF LimiterSpec

(* A throttled caller is told exactly how long to wait: the least delay    *)
(* after which the same question would be answered Allowed.                *)
THEOREM RetryExactHolds == LimiterSpec => []RetryExact
<1>1. LimiterTypeOK /\ SmallWindows => RetryExact
  <2> SUFFICES ASSUME LimiterTypeOK, SmallWindows, NEW r \in Realms, NEW now \in 0 .. clock,
                      Full(windows[r], now)
               PROVE  LET later == now + RetryAfter(windows[r], now)
                      IN  /\ later > now
                          /\ ~Full(windows[r], later)
                          /\ Full(windows[r], later - 1)
    BY DEF RetryExact
  <2> DEFINE w == windows[r]
             P == Pruned(w, now)
             T == {k.at : k \in P}
             later == now + RetryAfter(w, now)
  <2>1. /\ IsFiniteSet(w) /\ Cardinality(w) \in Nat /\ Cardinality(w) <= RpmLimit
        /\ w \subseteq Call /\ now \in Nat /\ WindowMs \in Nat /\ RpmLimit \in Nat \ {0}
    BY FS_CardinalityType, LimitAssumption, WindowAssumption DEF SmallWindows, LimiterTypeOK
  <2>2. P \subseteq w /\ IsFiniteSet(P) /\ Cardinality(P) \in Nat /\ Cardinality(P) >= RpmLimit
    BY <2>1, PrunedSubset, FS_Subset, FS_CardinalityType DEF Full
  <2>3. P # {}
    BY <2>1, <2>2, FS_EmptySet
  <2>4. T \in SUBSET Nat /\ T # {}
    BY <2>1, <2>2, <2>3 DEF Call
  <2>5. Oldest(P) \in T /\ \A k \in P : Oldest(P) <= k.at
    <3>1. \E t \in T : \A x \in T : t <= x
      BY <2>4, NatSetHasMin
    <3>2. \E t \in T : \A k \in P : t <= k.at
      BY <3>1
    <3>3. QED
      BY <3>2 DEF Oldest
  <2>6. PICK old \in P : old.at = Oldest(P)
    BY <2>5
  <2>7. old.at \in Nat /\ old.at > now - WindowMs /\ later = old.at + WindowMs /\ later > now
    <3>1. old.at \in Nat
      BY <2>4, <2>5, <2>6
    <3>2. old.at > now - WindowMs
      BY DEF Pruned
    <3>3. later = now + (old.at + WindowMs - now)
      BY <2>6 DEF RetryAfter
    <3>4. QED
      BY <2>1, <3>1, <3>2, <3>3
  <2>8. \A k \in w : k.at \in Nat
    BY <2>1 DEF Call
  <2> HIDE DEF later, P, T
  <2>9. ~Full(w, later)
    <3> DEFINE L == Pruned(w, later)
    <3>1. later - WindowMs = old.at
      BY <2>1, <2>7
    <3>2. L \subseteq w \ {old}
      BY <2>8, <3>1, <2>7 DEF Pruned
    <3>3. IsFiniteSet(w \ {old}) /\ Cardinality(w \ {old}) = Cardinality(w) - 1
      BY <2>1, <2>2, FS_RemoveElement
    <3>4. Cardinality(L) <= Cardinality(w) - 1 /\ IsFiniteSet(L)
      BY <3>2, <3>3, FS_Subset
    <3>5. Cardinality(L) \in Nat
      BY <3>4, FS_CardinalityType
    <3>6. QED
      BY <2>1, <3>4, <3>5 DEF Full
  <2>10. Full(w, later - 1)
    <3> DEFINE L == Pruned(w, later - 1)
    <3>1. \A k \in P : k.at > later - 1 - WindowMs
      BY <2>1, <2>2, <2>5, <2>6, <2>7, <2>8
    <3>2. P \subseteq L
      BY <2>2, <3>1 DEF Pruned
    <3>3. IsFiniteSet(L)
      BY <2>1, PrunedSubset, FS_Subset
    <3>4. Cardinality(P) <= Cardinality(L) /\ Cardinality(L) \in Nat
      BY <3>2, <3>3, FS_Subset, FS_CardinalityType
    <3>5. QED
      BY <2>1, <2>2, <3>4 DEF Full
  <2>11. QED
    BY <2>7, <2>9, <2>10 DEF later
<1>2. QED
  BY <1>1, SmallWindowsHold, PTL

-----------------------------------------------------------------------------
(* With one caller the stamp at hand is before none still to come.         *)
LEMMA HeadIsOldest ==
  ASSUME LimiterTypeOK, InOrder, NEW c \in Callers, CheckAllow(c), \A d \in Callers : d = c,
         NEW t \in Int, t <= mailbox[c][1].call.at
  PROVE  NotBefore(t)'
<1>1. /\ 1 \in 1 .. Len(mailbox[c]) /\ clock' = clock /\ clock \in Int
      /\ mailbox[c][1].call.at \in Int
  BY Handled, StampsTyped DEF LimiterTypeOK
<1>2. t <= clock'
  BY <1>1 DEF InOrder
<1>3. ASSUME NEW d \in Callers, NEW i \in 1 .. Len(mailbox'[d])
      PROVE  t <= mailbox'[d][i].call.at
  <2>1. d = c
    OBVIOUS
  <2>2. i + 1 \in 1 .. Len(mailbox[c]) /\ mailbox'[c][i] = mailbox[c][i + 1] /\ 1 <= i + 1
    BY <1>3, <2>1, Handled
  <2>3. mailbox[c][1].call.at <= mailbox[c][i + 1].call.at
    BY <1>1, <2>2 DEF InOrder
  <2>4. mailbox[c][i + 1].call.at \in Int
    BY <2>2, StampsTyped
  <2>5. QED
    BY <1>1, <2>1, <2>2, <2>3, <2>4
<1>4. QED
  BY <1>2, <1>3 DEF NotBefore

(* What a handled call may do to the window of its realm when no stamp     *)
(* still to come is before its own.                                        *)
LEMMA HandleKeepsWindow ==
  ASSUME WindowInv, NEW c \in Callers, CheckAllow(c), \A d \in Callers : d = c
  PROVE  (FiniteHistory /\ Past /\ Forgotten /\ WindowRespected)'
<1>1. PICK r \in Realms, call \in Call :
        /\ call = mailbox[c][1].call
        /\ \A q \in Realms \ {r} : windows'[q] = windows[q] /\ allowed'[q] = allowed[q]
        /\ \/ /\ windows'[r] = Pruned(windows[r], call.at)
              /\ allowed'[r] = allowed[r]
           \/ /\ ~Full(windows[r], call.at)
              /\ windows'[r] = Pruned(windows[r], call.at) \cup {call}
              /\ allowed'[r] = allowed[r] \cup {call}
  BY Decision DEF WindowInv
<1>2. /\ call.at \in Nat /\ WindowMs \in Nat /\ RpmLimit \in Nat \ {0}
      /\ \A q \in Realms : \A k \in allowed[q] : k.at \in Nat
      /\ \A q \in Realms : \A k \in windows[q] : k.at \in Nat
  BY WindowAssumption, LimitAssumption DEF WindowInv, LimiterTypeOK, Call
<1>3. \A t \in Int : NotBefore(t) => t <= call.at
  BY <1>1, Handled DEF NotBefore, WindowInv
<1>4. \A t \in Int : t <= call.at => NotBefore(t)'
  BY <1>1, HeadIsOldest DEF WindowInv
<1>5. \A t \in Int : NotBefore(t) => NotBefore(t)'
  BY <1>3, <1>4
<1>6. FiniteHistory'
  <2>1. IsFiniteSet(allowed[r]) /\ windows[r] \subseteq allowed[r]
    BY DEF WindowInv, FiniteHistory
  <2>2. IsFiniteSet(allowed[r] \cup {call})
    BY <2>1, FS_AddElement
  <2>3. Pruned(windows[r], call.at) \subseteq allowed[r]
    BY <2>1, PrunedSubset
  <2>4. IsFiniteSet(allowed'[r]) /\ windows'[r] \subseteq allowed'[r]
    BY <1>1, <2>1, <2>2, <2>3
  <2>5. QED
    BY <1>1, <2>4 DEF WindowInv, FiniteHistory
<1>7. Past'
  <2>1. ASSUME NEW q \in Realms, NEW k \in allowed'[q] PROVE NotBefore(k.at)'
    <3>1. CASE k \in allowed[q]
      BY <1>2, <1>5, <3>1 DEF WindowInv, Past
    <3>2. CASE k = call
      BY <1>2, <1>4, <3>2
    <3>3. QED
      BY <1>1, <2>1, <3>1, <3>2
  <2>2. QED
    BY <2>1 DEF Past
<1>8. Forgotten'
  <2>1. ASSUME NEW q \in Realms, NEW k \in allowed'[q], k \notin windows'[q]
        PROVE  NotBefore(k.at + WindowMs)'
    <3>1. k \in allowed[q]
      BY <1>1, <2>1
    <3>2. k.at + WindowMs \in Int
      BY <1>2, <3>1
    <3>3. CASE k \notin windows[q]
      BY <1>5, <3>1, <3>2, <3>3 DEF WindowInv, Forgotten
    <3>4. CASE k \in windows[q]
      <4>1. q = r /\ k \notin Pruned(windows[r], call.at)
        BY <1>1, <2>1, <3>4
      <4>2. ~(k.at > call.at - WindowMs)
        BY <3>4, <4>1 DEF Pruned
      <4>3. k.at + WindowMs <= call.at
        BY <1>2, <3>1, <4>2
      <4>4. QED
        BY <1>4, <3>2, <4>3
    <3>5. QED
      BY <3>3, <3>4
  <2>2. QED
    BY <2>1 DEF Forgotten
<1>9. WindowRespected'
  <2> DEFINE Span(s, t) == {k \in s : t - WindowMs < k.at /\ k.at <= t}
  <2>1. ASSUME NEW q \in Realms, NEW k \in allowed[q]
        PROVE  /\ Cardinality(Span(allowed[q], k.at)) <= RpmLimit
               /\ IsFiniteSet(Span(allowed[q], k.at))
    <3>1. Cardinality(During(q, k.at)) <= RpmLimit
      BY DEF WindowInv, WindowRespected
    <3>2. IsFiniteSet(allowed[q])
      BY DEF WindowInv, FiniteHistory
    <3>3. Span(allowed[q], k.at) \subseteq allowed[q]
      OBVIOUS
    <3>4. IsFiniteSet(Span(allowed[q], k.at))
      BY <3>2, <3>3, FS_Subset
    <3>5. QED
      BY <3>1, <3>4 DEF During
  <2>2. ASSUME NEW q \in Realms, NEW k \in allowed'[q]
        PROVE  Cardinality(Span(allowed'[q], k.at)) <= RpmLimit
    <3>1. CASE allowed'[q] = allowed[q]
      BY <2>1, <2>2, <3>1
    <3>2. CASE q = r /\ ~Full(windows[r], call.at) /\ allowed'[r] = allowed[r] \cup {call}
      <4> DEFINE P == Pruned(windows[r], call.at)
      <4>1. CASE k.at = call.at
        <5>1. ASSUME NEW x \in allowed[r], x.at > call.at - WindowMs PROVE x \in P
          <6>1. CASE x \notin windows[r]
            <7>1. NotBefore(x.at + WindowMs) /\ x.at + WindowMs \in Int
              BY <1>2, <6>1 DEF WindowInv, Forgotten
            <7>2. x.at + WindowMs <= call.at
              BY <1>3, <7>1
            <7>3. QED
              BY <1>2, <5>1, <7>2
          <6>2. QED
            BY <5>1, <6>1 DEF Pruned
        <5>2. Span(allowed'[r], k.at) \subseteq P \cup {call}
          BY <1>2, <3>2, <4>1, <5>1
        <5>3. /\ IsFiniteSet(P) /\ Cardinality(P) \in Nat
          <6>1. IsFiniteSet(allowed[r]) /\ windows[r] \subseteq allowed[r]
            BY DEF WindowInv, FiniteHistory
          <6>2. QED
            BY <6>1, PrunedSubset, FS_Subset, FS_CardinalityType
        <5>4. Cardinality(P) < RpmLimit
          BY <1>2, <3>2, <5>3 DEF Full
        <5> HIDE DEF P, Span
        <5>5. /\ IsFiniteSet(P \cup {call})
              /\ \/ Cardinality(P \cup {call}) = Cardinality(P)
                 \/ Cardinality(P \cup {call}) = Cardinality(P) + 1
          BY <5>3, FS_AddElement
        <5>6. /\ Cardinality(Span(allowed'[r], k.at)) <= Cardinality(P \cup {call})
              /\ Cardinality(Span(allowed'[r], k.at)) \in Nat
          BY <5>2, <5>5, FS_Subset, FS_CardinalityType
        <5>7. QED
          BY <1>2, <3>2, <5>3, <5>4, <5>5, <5>6
      <4>2. CASE k.at # call.at
        <5>1. k \in allowed[r]
          BY <2>2, <3>2, <4>2
        <5>2. k.at \in Nat /\ NotBefore(k.at)
          BY <1>2, <5>1 DEF WindowInv, Past
        <5>3. k.at < call.at
          BY <1>2, <1>3, <4>2, <5>2
        <5>4. Span(allowed'[r], k.at) = Span(allowed[r], k.at)
          BY <1>2, <3>2, <5>2, <5>3
        <5>5. QED
          BY <2>1, <3>2, <5>1, <5>4
      <4>3. QED
        BY <4>1, <4>2
    <3>3. QED
      BY <1>1, <3>1, <3>2
  <2>3. QED
    BY <2>2 DEF WindowRespected, During
<1>10. QED
  BY <1>6, <1>7, <1>8, <1>9

LEMMA WindowStep ==
  ASSUME \A c, d \in Callers : c = d, WindowInv, [LimiterNext]_limiterVars
  PROVE  WindowInv'
<1>1. LimiterTypeOK' /\ InOrder'
  BY TypeStep, InOrderStep DEF WindowInv
<1>2. ASSUME NEW t \in Int, NotBefore(t) PROVE NotBefore(t)'
  BY <1>2, NotBeforeStays DEF WindowInv
<1>3. CASE windows' = windows /\ allowed' = allowed
  <2>1. FiniteHistory' /\ WindowRespected'
    BY <1>3 DEF WindowInv, FiniteHistory, WindowRespected, During
  <2>2. \A r \in Realms : \A k \in allowed[r] : k.at \in Int /\ k.at + WindowMs \in Int
    BY WindowAssumption DEF WindowInv, LimiterTypeOK, Call
  <2>3. Past' /\ Forgotten'
    BY <1>2, <1>3, <2>2 DEF WindowInv, Past, Forgotten
  <2>4. QED
    BY <1>1, <2>1, <2>3 DEF WindowInv
<1>4. ASSUME NEW c \in Callers, CheckAllow(c) PROVE WindowInv'
  BY <1>1, <1>4, HandleKeepsWindow DEF WindowInv
<1>5. ASSUME NEW r \in Realms, Reset(r) PROVE WindowInv'
  <2>1. /\ \A q \in Realms : windows'[q] = IF q = r THEN {} ELSE windows[q]
        /\ \A q \in Realms : allowed'[q] = IF q = r THEN {} ELSE allowed[q]
    BY <1>5 DEF Reset, WindowInv, LimiterTypeOK
  <2>2. FiniteHistory'
    BY <2>1, FS_EmptySet DEF WindowInv, FiniteHistory
  <2>3. \A q \in Realms : \A k \in allowed[q] : k.at \in Int /\ k.at + WindowMs \in Int
    BY WindowAssumption DEF WindowInv, LimiterTypeOK, Call
  <2>4. Past' /\ Forgotten'
    BY <1>2, <2>1, <2>3 DEF WindowInv, Past, Forgotten
  <2>5. WindowRespected'
    BY <2>1 DEF WindowInv, WindowRespected, During
  <2>6. QED
    BY <1>1, <2>2, <2>4, <2>5 DEF WindowInv
<1>6. CASE Restart
  <2>1. \A q \in Realms : windows'[q] = {} /\ allowed'[q] = {}
    BY <1>6 DEF Restart
  <2>2. QED
    BY <1>1, <2>1, FS_EmptySet DEF WindowInv, FiniteHistory, Past, Forgotten, WindowRespected
<1>7. QED
  BY <1>3, <1>4, <1>5, <1>6 DEF LimiterNext, limiterVars, Tick, Send

(* With one caller no span of WindowMs holds more than RpmLimit calls      *)
(* answered Allowed, for any limit and any window.                         *)
THEOREM WindowRespectedHolds ==
  ASSUME \A c, d \in Callers : c = d
  PROVE  LimiterSpec => []WindowRespected
<1>1. LimiterInit => WindowInv
  <2> SUFFICES ASSUME LimiterInit PROVE WindowInv
    OBVIOUS
  <2>1. \A r \in Realms : windows[r] = {} /\ allowed[r] = {}
    BY DEF LimiterInit
  <2>2. \A c \in Callers : Len(mailbox[c]) = 0
    BY DEF LimiterInit
  <2>3. InOrder
    BY <2>2 DEF InOrder
  <2>4. FiniteHistory /\ Past /\ Forgotten /\ WindowRespected
    BY <2>1, FS_EmptySet DEF FiniteHistory, Past, Forgotten, WindowRespected
  <2>5. QED
    BY <2>3, <2>4, TypeInit DEF WindowInv
<1>2. WindowInv /\ [LimiterNext]_limiterVars => WindowInv'
  BY WindowStep
<1>3. WindowInv => WindowRespected
  BY DEF WindowInv
<1>4. QED
  BY <1>1, <1>2, <1>3, PTL DEF LimiterSpec

(* The actor's state is well typed, and what it answers is exact.          *)
THEOREM LimiterOKHolds == LimiterSpec => []LimiterOK
<1>1. LimiterTypeOK /\ RetryExact => LimiterOK
  BY DEF LimiterOK
<1>2. QED
  BY <1>1, LimiterTypeCorrect, RetryExactHolds, PTL

-----------------------------------------------------------------------------
(*************************************************************************)
(* OrSet.                                                                *)
(*                                                                       *)
(* What a set shows is determined by its history only if its tombstones  *)
(* are too, if a remove was made by someone whose history contains what  *)
(* it observed, and if a tag names one add wherever it has travelled:    *)
(* Sound and TagsIdentify, which every step keeps.                       *)
(*************************************************************************)

Dead(h) == {a \in h.adds : \E observed \in h.removes : a \in observed}

Sound(s) ==
  /\ s.set.elements = Live(s.seen)
  /\ s.set.tombstones = TagsOf(Dead(s.seen))
  /\ \A observed \in s.seen.removes : observed \subseteq s.seen.adds

AllAdds == UNION {s.seen.adds : s \in Snapshots}
TagsIdentify == \A a, b \in AllAdds : a.tag = b.tag => a = b
TagsBelowCounter == \A a \in AllAdds : a.tag[2] <= counter[a.tag[1]]

OrSetInv ==
  /\ OrSetTypeOK
  /\ \A s \in Snapshots : Sound(s)
  /\ TagsIdentify
  /\ TagsBelowCounter

-----------------------------------------------------------------------------
(* Merging is commutative and associative for any two values, and a value  *)
(* merged with itself is itself as long as it lists no tag it has          *)
(* tombstoned (crdt.gleam, "Lattice proof").                               *)
THEOREM MergeCommutes ==
  ASSUME NEW a \in ORSet, NEW b \in ORSet
  PROVE  orset_merge(a, b) = orset_merge(b, a)
BY DEF orset_merge, ORSet

THEOREM MergeAssociates ==
  ASSUME NEW a \in ORSet, NEW b \in ORSet, NEW c \in ORSet
  PROVE  orset_merge(orset_merge(a, b), c) = orset_merge(a, orset_merge(b, c))
<1> DEFINE l == orset_merge(orset_merge(a, b), c)
           r == orset_merge(a, orset_merge(b, c))
<1>1. l.tombstones = r.tombstones
  BY DEF orset_merge
<1>2. l.elements = r.elements
  BY DEF orset_merge
<1>3. QED
  BY <1>1, <1>2 DEF orset_merge

LEMMA MergeIdempotent ==
  ASSUME NEW a \in ORSet, \A e \in a.elements : e.tag \notin a.tombstones
  PROVE  orset_merge(a, a) = a
BY DEF orset_merge, ORSet

LEMMA MergeTyped ==
  ASSUME NEW a \in ORSet, NEW b \in ORSet
  PROVE  orset_merge(a, b) \in ORSet
BY DEF orset_merge, ORSet

(* A sound value lists no tag it has tombstoned.                           *)
LEMMA SoundIsClean ==
  ASSUME NEW s \in Snapshot, Sound(s),
         \A a, b \in s.seen.adds : a.tag = b.tag => a = b
  PROVE  \A e \in s.set.elements : e.tag \notin s.set.tombstones
BY DEF Sound, Live, Dead, TagsOf

(* Merging two sound values whose tags agree is sound.                     *)
LEMMA JoinedSound ==
  ASSUME NEW s \in Snapshot, NEW t \in Snapshot, Sound(s), Sound(t),
         \A a, b \in s.seen.adds \cup t.seen.adds : a.tag = b.tag => a = b
  PROVE  Joined(s, t) \in Snapshot /\ Sound(Joined(s, t))
<1> DEFINE j == Joined(s, t)
<1>1. j \in Snapshot
  BY MergeTyped DEF Joined, Snapshot, History
<1>2. j.seen.adds = s.seen.adds \cup t.seen.adds /\ j.seen.removes = s.seen.removes \cup t.seen.removes
  BY DEF Joined
<1>3. Dead(j.seen) = Dead(s.seen) \cup Dead(t.seen)
  BY <1>2 DEF Dead, Sound
<1>4. j.set.tombstones = TagsOf(Dead(j.seen))
  <2>1. j.set.tombstones = s.set.tombstones \cup t.set.tombstones
    BY DEF Joined, orset_merge
  <2>2. TagsOf(Dead(j.seen)) = TagsOf(Dead(s.seen)) \cup TagsOf(Dead(t.seen))
    BY <1>3 DEF TagsOf
  <2>3. QED
    BY <2>1, <2>2 DEF Sound
<1>5. j.set.elements = Live(j.seen)
  <2>1. j.set.elements = {e \in Live(s.seen) \cup Live(t.seen) : e.tag \notin j.set.tombstones}
    BY DEF Joined, orset_merge, Sound
  <2>2. Live(j.seen) = j.seen.adds \ Dead(j.seen)
    BY DEF Live, Dead
  <2>3. ASSUME NEW e \in j.set.elements PROVE e \in Live(j.seen)
    BY <1>2, <1>4, <2>1, <2>2, <2>3 DEF Live, Dead, TagsOf
  <2>4. ASSUME NEW e \in Live(j.seen) PROVE e \in j.set.elements
    <3>1. e \in Live(s.seen) \cup Live(t.seen)
      BY <1>2, <2>4 DEF Live
    <3>2. e \in j.seen.adds /\ e \notin Dead(j.seen)
      BY <2>2, <2>4
    <3>3. \A d \in Dead(j.seen) : d.tag # e.tag
      BY <1>2, <3>2 DEF Dead
    <3>4. QED
      BY <1>4, <2>1, <3>1, <3>3 DEF TagsOf
  <2>5. QED
    BY <2>3, <2>4
<1>6. \A observed \in j.seen.removes : observed \subseteq j.seen.adds
  BY <1>2 DEF Sound
<1>7. QED
  BY <1>1, <1>4, <1>5, <1>6 DEF Sound

-----------------------------------------------------------------------------
(* Adding under a fresh tag, and removing, keep a snapshot sound.          *)
LEMMA AddSound ==
  ASSUME NEW s \in Snapshot, Sound(s), NEW v \in Values, NEW tag \in Tags,
         \A a \in s.seen.adds : a.tag # tag
  PROVE  Added(s, v, tag) \in Snapshot /\ Sound(Added(s, v, tag))
<1> DEFINE e == [value |-> v, tag |-> tag]
           x == Added(s, v, tag)
<1>1. e \in Element /\ e \notin s.seen.adds /\ e.tag = tag
  BY DEF Element
<1>2. tag \notin s.set.tombstones
  BY DEF Sound, TagsOf, Dead
<1>3. x.set = [elements |-> s.set.elements \cup {e}, tombstones |-> s.set.tombstones]
  BY <1>2 DEF Added, orset_add, Snapshot, ORSet
<1>4. x.seen = [adds |-> s.seen.adds \cup {e}, removes |-> s.seen.removes]
  BY DEF Added
<1>5. x \in Snapshot
  <2>1. x = [set |-> x.set, seen |-> x.seen]
    BY DEF Added
  <2>2. x.set \in ORSet /\ x.seen \in History
    BY <1>1, <1>3, <1>4 DEF Snapshot, ORSet, History
  <2>3. QED
    BY <2>1, <2>2 DEF Snapshot
<1>6. \A observed \in s.seen.removes : e \notin observed
  BY <1>1 DEF Sound
<1>7. Live(x.seen) = Live(s.seen) \cup {e} /\ Dead(x.seen) = Dead(s.seen)
  BY <1>4, <1>6 DEF Live, Dead
<1>8. \A observed \in x.seen.removes : observed \subseteq x.seen.adds
  BY <1>4 DEF Sound
<1>9. x.set.elements = Live(x.seen) /\ x.set.tombstones = TagsOf(Dead(x.seen))
  BY <1>3, <1>7 DEF Sound
<1>10. QED
  BY <1>5, <1>8, <1>9 DEF Sound

LEMMA RemoveSound ==
  ASSUME NEW s \in Snapshot, Sound(s), NEW v \in Values,
         \A a, b \in s.seen.adds : a.tag = b.tag => a = b
  PROVE  Removed(s, v) \in Snapshot /\ Sound(Removed(s, v))
<1> DEFINE observed == {a \in s.seen.adds : a.value = v}
           x == Removed(s, v)
<1>1. x.set = [elements   |-> s.set.elements \ Having(s.set, v),
               tombstones |-> s.set.tombstones \cup TagsOf(Having(s.set, v))]
  BY DEF Removed, orset_remove
<1>2. x.seen = [adds |-> s.seen.adds, removes |-> s.seen.removes \cup ({observed} \ {{}})]
  BY DEF Removed
<1>3. observed \subseteq s.seen.adds /\ observed \subseteq Element /\ s.seen \in History /\ s.set \in ORSet
  BY DEF Snapshot, History
<1>4. x \in Snapshot
  <2>1. x = [set |-> x.set, seen |-> x.seen]
    BY DEF Removed
  <2>2. x.set \in ORSet
    BY <1>1, <1>3 DEF ORSet, Having, TagsOf, Element
  <2>3. x.seen \in History
    BY <1>2, <1>3 DEF History
  <2>4. QED
    BY <2>1, <2>2, <2>3 DEF Snapshot
<1>5. \A a : (\E o \in x.seen.removes : a \in o)
                <=> (\E o \in s.seen.removes : a \in o) \/ a \in observed
  <2> HIDE DEF observed
  <2>1. \A o : o \in x.seen.removes <=> o \in s.seen.removes \/ (o = observed /\ o # {})
    BY <1>2
  <2>2. QED
    BY <2>1
<1>6. Dead(x.seen) = Dead(s.seen) \cup observed
  <2> HIDE DEF observed
  <2>1. \A a : a \in Dead(x.seen) <=> a \in s.seen.adds /\ \E o \in x.seen.removes : a \in o
    BY <1>2 DEF Dead
  <2>2. QED
    BY <1>5, <1>3, <2>1 DEF Dead
<1>7. Live(x.seen) = Live(s.seen) \ observed
  <2> HIDE DEF observed
  <2>1. \A a : a \in Live(x.seen) <=> a \in s.seen.adds /\ ~ \E o \in x.seen.removes : a \in o
    BY <1>2 DEF Live
  <2>2. QED
    BY <1>5, <2>1 DEF Live
<1>8. Having(s.set, v) = Live(s.seen) \cap observed
  BY DEF Having, Sound, Live
<1>9. x.set.elements = Live(x.seen)
  BY <1>1, <1>7, <1>8 DEF Sound
<1>10. x.set.tombstones = TagsOf(Dead(x.seen))
  <2>1. Dead(s.seen) \cup observed = Dead(s.seen) \cup (Live(s.seen) \cap observed)
    BY DEF Dead, Live
  <2>2. TagsOf(Dead(s.seen) \cup (Live(s.seen) \cap observed))
          = TagsOf(Dead(s.seen)) \cup TagsOf(Live(s.seen) \cap observed)
    BY DEF TagsOf
  <2>3. QED
    BY <1>1, <1>6, <1>8, <2>1, <2>2 DEF Sound
<1>11. QED
  BY <1>2, <1>3, <1>4, <1>9, <1>10 DEF Sound

-----------------------------------------------------------------------------
(* One replica's snapshot is replaced, the others and the published ones   *)
(* stay: every snapshot is an old one or the new one.                      *)
LEMMA ReplicaStep ==
  ASSUME OrSetTypeOK, NEW n \in Nodes, NEW x \in Snapshot,
         replica' = [replica EXCEPT ![n] = x], published' = published
  PROVE  /\ Snapshots' \subseteq Snapshots \cup {x}
         /\ AllAdds' \subseteq AllAdds \cup x.seen.adds
         /\ replica' \in [Nodes -> Snapshot]
<1>1. Snapshots' \subseteq Snapshots \cup {x}
  BY DEF Snapshots, OrSetTypeOK
<1>2. QED
  BY <1>1 DEF AllAdds, OrSetTypeOK

(* A snapshot whose adds are all old ones changes nothing about the tags.  *)
LEMMA OldAddsStep ==
  ASSUME OrSetInv, NEW n \in Nodes, NEW x \in Snapshot, Sound(x),
         x.seen.adds \subseteq AllAdds,
         replica' = [replica EXCEPT ![n] = x], published' = published,
         counter' = counter, losses' \in Nat
  PROVE  OrSetInv'
<1>1. /\ Snapshots' \subseteq Snapshots \cup {x}
      /\ AllAdds' \subseteq AllAdds
      /\ replica' \in [Nodes -> Snapshot]
  BY ReplicaStep DEF OrSetInv
<1>2. OrSetTypeOK'
  BY <1>1 DEF OrSetInv, OrSetTypeOK
<1>3. \A s \in Snapshots' : Sound(s)
  BY <1>1 DEF OrSetInv
<1>4. TagsIdentify' /\ TagsBelowCounter'
  BY <1>1 DEF OrSetInv, TagsIdentify, TagsBelowCounter
<1>5. QED
  BY <1>2, <1>3, <1>4 DEF OrSetInv, Sound, Live, Dead, TagsOf

LEMMA SnapshotFacts ==
  ASSUME OrSetInv, NEW s \in Snapshots
  PROVE  /\ s \in Snapshot /\ Sound(s)
         /\ s.seen.adds \subseteq AllAdds
         /\ \A a, b \in s.seen.adds : a.tag = b.tag => a = b
<1>1. s \in Snapshot /\ Sound(s)
  BY DEF OrSetInv, OrSetTypeOK, Snapshots
<1>2. s.seen.adds \subseteq AllAdds
  BY DEF AllAdds
<1>3. QED
  BY <1>1, <1>2 DEF OrSetInv, TagsIdentify

LEMMA AddsTyped ==
  ASSUME OrSetInv
  PROVE  AllAdds \subseteq Element
BY DEF OrSetInv, OrSetTypeOK, Snapshots, AllAdds, Snapshot, History

LEMMA OrSetInvInit == OrSetInit => OrSetInv
<1> SUFFICES ASSUME OrSetInit PROVE OrSetInv
  OBVIOUS
<1> DEFINE s0 == [set |-> orset_new, seen |-> Unborn]
<1>1. s0 \in Snapshot /\ Sound(s0) /\ s0.seen.adds = {}
  BY DEF orset_new, Unborn, Snapshot, ORSet, History, Sound, Live, Dead, TagsOf
<1>2. Snapshots \subseteq {s0}
  BY DEF OrSetInit, Snapshots
<1>3. OrSetTypeOK
  BY <1>1 DEF OrSetInit, OrSetTypeOK
<1>4. AllAdds = {}
  BY <1>1, <1>2 DEF AllAdds
<1>5. QED
  BY <1>1, <1>2, <1>3, <1>4 DEF OrSetInv, TagsIdentify, TagsBelowCounter

LEMMA AddStep ==
  ASSUME OrSetInv, NEW n \in Nodes, NEW v \in Values, Add(n, v)
  PROVE  OrSetInv'
<1> DEFINE tag == <<n, counter[n] + 1>>
           e == [value |-> v, tag |-> tag]
           s == replica[n]
           x == Added(s, v, tag)
<1>1. s \in Snapshots /\ counter[n] \in Nat
  BY DEF Snapshots, OrSetInv, OrSetTypeOK
<1>2. s \in Snapshot /\ Sound(s) /\ s.seen.adds \subseteq AllAdds
  BY <1>1, SnapshotFacts
<1>3. tag \in Tags
  BY <1>1 DEF Tags
<1>4. \A a \in AllAdds : a.tag # tag
  BY <1>1 DEF OrSetInv, TagsBelowCounter
<1>5. x \in Snapshot /\ Sound(x)
  <2> HIDE DEF tag
  <2> QED BY <1>2, <1>3, <1>4, AddSound
<1>6. replica' = [replica EXCEPT ![n] = x] /\ published' = published
  BY DEF Add
<1>7. /\ Snapshots' \subseteq Snapshots \cup {x}
      /\ AllAdds' \subseteq AllAdds \cup x.seen.adds
      /\ replica' \in [Nodes -> Snapshot]
  BY <1>5, <1>6, ReplicaStep DEF OrSetInv
<1>8. AllAdds' \subseteq AllAdds \cup {e}
  BY <1>2, <1>7 DEF Added
<1>9. counter' = [counter EXCEPT ![n] = @ + 1] /\ losses' = losses
  BY DEF Add
<1>10. OrSetTypeOK'
  BY <1>6, <1>7, <1>9 DEF OrSetInv, OrSetTypeOK
<1>11. TagsIdentify'
  BY <1>4, <1>8 DEF OrSetInv, TagsIdentify
<1>12. TagsBelowCounter'
  <2>1. \A m \in Nodes : counter[m] \in Nat /\ counter[m] <= counter'[m]
    BY <1>9 DEF OrSetInv, OrSetTypeOK
  <2>2. \A a \in AllAdds : a.tag[1] \in Nodes /\ a.tag[2] \in Nat
    BY AddsTyped DEF Element, Tags
  <2>3. \A a \in AllAdds : a.tag[2] <= counter'[a.tag[1]]
    BY <2>1, <2>2, <1>9 DEF OrSetInv, TagsBelowCounter, OrSetTypeOK
  <2>4. e.tag[2] <= counter'[e.tag[1]]
    BY <1>1, <1>9 DEF OrSetInv, OrSetTypeOK
  <2>5. QED
    BY <1>8, <2>3, <2>4 DEF TagsBelowCounter
<1>13. \A y \in Snapshots' : Sound(y)
  BY <1>5, <1>7 DEF OrSetInv
<1>14. QED
  BY <1>10, <1>11, <1>12, <1>13 DEF OrSetInv, Sound, Live, Dead, TagsOf

LEMMA OrSetInvNext == OrSetInv /\ [OrSetNext]_orsetVars => OrSetInv'
<1> SUFFICES ASSUME OrSetInv, [OrSetNext]_orsetVars PROVE OrSetInv'
  OBVIOUS
<1>1. CASE UNCHANGED orsetVars
  BY <1>1 DEF orsetVars, OrSetInv, OrSetTypeOK, Snapshots, Sound, Live, Dead, TagsOf, AllAdds,
     TagsIdentify, TagsBelowCounter
<1>2. ASSUME NEW n \in Nodes, NEW v \in Values, Add(n, v) PROVE OrSetInv'
  BY <1>2, AddStep
<1>3. ASSUME NEW n \in Nodes, NEW v \in Values, RemoveValue(n, v) PROVE OrSetInv'
  <2> DEFINE s == replica[n]
             x == Removed(s, v)
  <2>1. s \in Snapshots
    BY DEF Snapshots
  <2>2. s \in Snapshot /\ s.seen.adds \subseteq AllAdds
    BY <2>1, SnapshotFacts
  <2>3. x \in Snapshot /\ Sound(x)
    BY <2>1, SnapshotFacts, RemoveSound
  <2>4. replica' = [replica EXCEPT ![n] = x] /\ published' = published
    BY <1>3 DEF RemoveValue
  <2>5. x.seen.adds \subseteq AllAdds
    BY <2>2 DEF Removed
  <2>6. counter' = counter /\ losses' \in Nat
    BY <1>3 DEF RemoveValue, OrSetInv, OrSetTypeOK
  <2>7. QED
    BY <2>3, <2>4, <2>5, <2>6, OldAddsStep
<1>4. ASSUME NEW n \in Nodes, Publish(n) PROVE OrSetInv'
  <2>1. Snapshots' = Snapshots /\ AllAdds' = AllAdds
    BY <1>4 DEF Publish, Snapshots, AllAdds
  <2>2. OrSetTypeOK'
    BY <1>4 DEF Publish, OrSetInv, OrSetTypeOK
  <2>3. counter' = counter
    BY <1>4 DEF Publish
  <2>4. QED
    BY <2>1, <2>2, <2>3 DEF OrSetInv, TagsIdentify, TagsBelowCounter, Sound, Live, Dead, TagsOf
<1>5. ASSUME NEW n \in Nodes, NEW m \in published, Receive(n, m) PROVE OrSetInv'
  <2> DEFINE s == replica[n]
             x == Joined(s, m)
  <2>1. s \in Snapshots /\ m \in Snapshots
    BY DEF Snapshots
  <2>2. /\ s \in Snapshot /\ Sound(s) /\ s.seen.adds \subseteq AllAdds
        /\ m \in Snapshot /\ Sound(m) /\ m.seen.adds \subseteq AllAdds
    BY <2>1, SnapshotFacts
  <2>3. x \in Snapshot /\ Sound(x)
    BY <2>2, JoinedSound DEF OrSetInv, TagsIdentify
  <2>4. replica' = [replica EXCEPT ![n] = x] /\ published' = published
    BY <1>5 DEF Receive
  <2>5. x.seen.adds \subseteq AllAdds
    BY <2>2 DEF Joined
  <2>6. counter' = counter /\ losses' \in Nat
    BY <1>5 DEF Receive, OrSetInv, OrSetTypeOK
  <2>7. QED
    BY <2>3, <2>4, <2>5, <2>6, OldAddsStep
<1>6. ASSUME NEW n \in Nodes, Lose(n) PROVE OrSetInv'
  <2> DEFINE x == [set |-> orset_new, seen |-> Unborn]
  <2>1. x \in Snapshot /\ Sound(x) /\ x.seen.adds = {}
    BY DEF orset_new, Unborn, Snapshot, ORSet, History, Sound, Live, Dead, TagsOf
  <2>2. replica' = [replica EXCEPT ![n] = x] /\ published' = published
    BY <1>6 DEF Lose
  <2>3. counter' = counter /\ losses' \in Nat
    BY <1>6 DEF Lose, OrSetInv, OrSetTypeOK
  <2>4. QED
    BY <2>1, <2>2, <2>3, OldAddsStep
<1>7. QED
  BY <1>1, <1>2, <1>3, <1>4, <1>5, <1>6 DEF OrSetNext

LEMMA OrSetInductive == OrSetSpec => []OrSetInv
BY OrSetInvInit, OrSetInvNext, PTL DEF OrSetSpec

-----------------------------------------------------------------------------
(* Every replica and every value in flight stays well typed.               *)
THEOREM OrSetTypeCorrect == OrSetSpec => []OrSetTypeOK
<1>1. OrSetInv => OrSetTypeOK
  BY DEF OrSetInv
<1>2. QED
  BY <1>1, OrSetInductive, PTL

(* orset_merge delivers add-wins: a value holds exactly the adds of its    *)
(* history that no remove in it had observed, for any number of replicas,  *)
(* deliveries and restarts.                                              *)
THEOREM AddWinsHolds == OrSetSpec => []AddWins
<1>1. OrSetInv => AddWins
  BY DEF OrSetInv, AddWins, Sound
<1>2. QED
  BY <1>1, OrSetInductive, PTL

(* The three laws the module header claims, on every reachable value.      *)
THEOREM MergeLawsHold == OrSetSpec => []MergeLaws
<1>1. OrSetInv => MergeLaws
  <2> SUFFICES ASSUME OrSetInv,
                      NEW r \in Snapshots, NEW s \in Snapshots, NEW t \in Snapshots
               PROVE  /\ orset_merge(r.set, r.set) = r.set
                      /\ orset_merge(r.set, s.set) = orset_merge(s.set, r.set)
                      /\ orset_merge(orset_merge(r.set, s.set), t.set)
                            = orset_merge(r.set, orset_merge(s.set, t.set))
    BY DEF MergeLaws
  <2>1. r.set \in ORSet /\ s.set \in ORSet /\ t.set \in ORSet
    BY SnapshotFacts DEF Snapshot
  <2>2. \A e \in r.set.elements : e.tag \notin r.set.tombstones
    BY SnapshotFacts, SoundIsClean
  <2>3. QED
    BY <2>1, <2>2, MergeIdempotent, MergeCommutes, MergeAssociates
<1>2. QED
  BY <1>1, OrSetInductive, PTL

(* A tombstone outlives every delivery: nothing a replica receives lists   *)
(* again what the replica knows to be removed, until it restarts.        *)
THEOREM NeverReturnsHolds == OrSetSpec => NeverReturns
<1> DEFINE Keeps(n) ==
      \/ replica'[n].set = orset_new
      \/ /\ replica[n].set.tombstones \subseteq replica'[n].set.tombstones
         /\ \A e \in replica'[n].set.elements : e.tag \notin replica[n].set.tombstones
<1>1. OrSetInv /\ OrSetInv' /\ [OrSetNext]_orsetVars => [\A n \in Nodes : Keeps(n)]_orsetVars
  <2> SUFFICES ASSUME OrSetInv, OrSetInv', OrSetNext, NEW n \in Nodes PROVE Keeps(n)
    OBVIOUS
  <2>1. \A e \in replica'[n].set.elements : e.tag \notin replica'[n].set.tombstones
    <3>1. replica'[n] \in Snapshots'
      BY DEF Snapshots
    <3>2. /\ replica'[n] \in Snapshot /\ Sound(replica'[n])
          /\ replica'[n].seen.adds \subseteq AllAdds'
      BY <3>1 DEF OrSetInv, OrSetTypeOK, AllAdds
    <3>3. \A a, b \in replica'[n].seen.adds : a.tag = b.tag => a = b
      BY <3>2 DEF OrSetInv, TagsIdentify
    <3>4. QED
      BY <3>2, <3>3, SoundIsClean
  <2>2. \/ replica'[n].set = orset_new
        \/ replica[n].set.tombstones \subseteq replica'[n].set.tombstones
    <3>1. \A s, m, v, tag :
            /\ s.set.tombstones \subseteq Added(s, v, tag).set.tombstones
            /\ s.set.tombstones \subseteq Removed(s, v).set.tombstones
            /\ s.set.tombstones \subseteq Joined(s, m).set.tombstones
      BY DEF Added, Removed, Joined, orset_add, orset_remove, orset_merge
    <3>2. replica \in [Nodes -> Snapshot]
      BY DEF OrSetInv, OrSetTypeOK
    <3>3. ASSUME NEW o \in Nodes, NEW x, replica' = [replica EXCEPT ![o] = x],
                 \/ x.set = orset_new
                 \/ replica[o].set.tombstones \subseteq x.set.tombstones
          PROVE  \/ replica'[n].set = orset_new
                 \/ replica[n].set.tombstones \subseteq replica'[n].set.tombstones
      <4>1. CASE n = o
        BY <3>2, <3>3, <4>1
      <4>2. CASE n # o
        BY <3>2, <3>3, <4>2
      <4>3. QED
        BY <4>1, <4>2
    <3>4. ASSUME NEW o \in Nodes, NEW v \in Values, Add(o, v) \/ RemoveValue(o, v)
          PROVE  \/ replica'[n].set = orset_new
                 \/ replica[n].set.tombstones \subseteq replica'[n].set.tombstones
      BY <3>1, <3>3, <3>4 DEF Add, RemoveValue
    <3>5. ASSUME NEW o \in Nodes, NEW m \in published, Receive(o, m)
          PROVE  \/ replica'[n].set = orset_new
                 \/ replica[n].set.tombstones \subseteq replica'[n].set.tombstones
      BY <3>1, <3>3, <3>5 DEF Receive
    <3>6. ASSUME NEW o \in Nodes, Lose(o)
          PROVE  \/ replica'[n].set = orset_new
                 \/ replica[n].set.tombstones \subseteq replica'[n].set.tombstones
      BY <3>3, <3>6 DEF Lose
    <3>7. ASSUME NEW o \in Nodes, Publish(o)
          PROVE  replica' = replica
      BY <3>7 DEF Publish
    <3>8. QED
      BY <3>4, <3>5, <3>6, <3>7 DEF OrSetNext
  <2>3. QED
    BY <2>1, <2>2
<1>2. QED
  BY <1>1, OrSetInductive, PTL DEF OrSetSpec, NeverReturns

(* Every replica and snapshot is well typed, and the laws hold of them all. *)
THEOREM ReplicasOKHolds == OrSetSpec => []ReplicasOK
<1>1. OrSetTypeOK /\ MergeLaws => ReplicasOK
  BY DEF ReplicasOK
<1>2. QED
  BY <1>1, OrSetTypeCorrect, MergeLawsHold, PTL
=============================================================================
