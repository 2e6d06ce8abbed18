-------------------------- MODULE RvSealInvariant --------------------------
(* The inductive invariants of RvSeal, for any number of shares, threshold, *)
(* tasks and bounds; RvSeal_proofs proves them.  They are built in three    *)
(* layers: what the tasks have to do and what their steps carry (KeyInv),   *)
(* how barrier and state go together (TrackInv), and the shares that open   *)
(* the vault again (RecoverInv).                                            *)
EXTENDS RvSeal

-----------------------------------------------------------------------------
(* do_unseal and seal have no lock: the proofs are for one task that unseals*)
(* and, where it says so, one that seals.                                   *)
SoleUnsealer == \A p, q \in Unsealers : p = q
SoleSealer == \A p, q \in Sealers : p = q

-----------------------------------------------------------------------------
(* What a task has to do: each step may follow the one before, and carries  *)
(* what storage and memory bear out.                                        *)

IsSeq(w) == w \in Seq({w[i] : i \in DOMAIN w})

(* y was opened with shares of k, or splits k.                              *)
Uses(y, k) == \/ y[1] = "opened" /\ Combined(y[2]) = k
              \/ y[1] = "split" /\ y[2] = k

(* The steps that may come after a step.                                    *)
Follows(x, y) ==
  \/ x[1] \in {"unseal", "decrypt"} /\ Uses(y, x[2])
  \/ x[1] = "open" /\ y[1] \in {"opened", "split"}
  \/ x[1] = "init_cipher" /\ y[1] \in {"decrypt", "put_record"} /\ y[2] = x[2]
  \/ x[1] = "put_record" /\ y[1] = "reset_cipher"
  \/ x[1] = "reset_cipher" /\ y[1] \in {"unseal", "close"}
  \/ x[1] = "load" /\ y[1] = "token_store" /\ y[2] = x[2]
  \/ x[1] = "token_store" /\ y[1] = "handler" /\ y[2] = x[2]
  \/ x[1] = "handler" /\ y[1] = "policy" /\ y[2] = x[2]
  \/ x[1] = "policy" /\ x[2] /\ y[1] = "init_done"
  \/ x[1] = "policy" /\ ~x[2] /\ y[1] \in {"deprecate", "generate"}
  \/ x[1] = "deprecate" /\ y[1] = "generate"
  \/ x[1] = "pre_seal" /\ y[1] = "reset_cipher"

(* The steps that may be the last.                                          *)
Ends(x) ==
  \/ x[1] \in {"do_unseal", "count", "opened", "generate", "put_config", "barrier_init",
               "split", "init_done", "close", "put"}
  \/ x[1] = "policy" /\ ~x[2]

Linked(w) == \A i, j \in DOMAIN w : j = i + 1 => Follows(w[i], w[j])

PostOps == {"load", "token_store", "handler", "policy"}
UnsealOps ==
  {"do_unseal", "count", "unseal", "init_cipher", "decrypt", "open", "opened", "deprecate",
   "generate", "put_config", "barrier_init", "put_record", "reset_cipher", "split", "init_done"}
  \cup PostOps
SealOps == {"pre_seal", "reset_cipher", "close"}
Ops(p) == IF p \in Unsealers THEN UnsealOps ELSE IF p \in Sealers THEN SealOps ELSE {"put"}

(* What the steps of a task rest on.                                        *)
View == [recordKey |-> recordKey, gen |-> gen, handed |-> handed,
         deprecated |-> deprecated, blind |-> blind]

(* None of the shares S has been deprecated, as far as could be read.       *)
Fresh(v, S) == v.blind \/ S \cap v.deprecated = {}

(* What a task may store back as the state: a sealed one has no kek, and    *)
(* its shares were handed out and are too few.                              *)
Copy(v, s) ==
  /\ s \in CoreState /\ ToSet(s.shares) \subseteq v.handed /\ Len(s.shares) < T
  /\ s.sealed => s.kek = None
  /\ Fresh(v, ToSet(s.shares))

(* What step x carries.                                                     *)
Proper(v, x) ==
  /\ x[1] = "do_unseal" => x[2] \in v.handed /\ x[3] \in BOOLEAN
  /\ x[1] = "count" => x[2] \in v.handed /\ x[3] \in BOOLEAN /\ Copy(v, x[4])
  /\ x[1] \in {"unseal", "decrypt"} =>
       x[2] \in Key \cup {Wrong} /\ Copy(v, x[3]) /\ x[3].shares = <<>>
  /\ x[1] = "init_cipher" => x[2] \in Key \cup {Wrong}
  /\ x[1] = "opened" =>
       /\ x[2] \in Seq(Share) /\ x[2] # <<>> /\ ToSet(x[2]) \subseteq v.handed
       /\ Fresh(v, ToSet(x[2])) /\ x[3] \in BOOLEAN /\ x[4] \in BOOLEAN
       /\ v.deprecated \subseteq x[5] /\ x[5] \subseteq v.handed
  /\ x[1] = "deprecate" => v.deprecated \subseteq x[2] /\ x[2] \subseteq v.handed
  /\ x[1] \in PostOps => x[2] \in BOOLEAN
  /\ x[1] \in {"put_record", "split", "init_done"} =>
       x[2] \in Key /\ x[2] = IF v.recordKey = 0 THEN v.gen ELSE v.recordKey
  /\ x[1] \in {"put_config", "barrier_init", "put_record"} => v.recordKey = 0
  /\ x[1] \in {"do_unseal", "count", "decrypt", "open", "opened", "deprecate", "generate",
               "init_done", "pre_seal", "close"} \cup PostOps => v.recordKey # 0

(* w is the beginning of what task p does, or all the rest of it.           *)
Part(v, p, w) ==
  IsSeq(w) /\ Linked(w) /\ \A i \in DOMAIN w : w[i][1] \in Ops(p) /\ Proper(v, w[i])

Fits(v, p, w) == Part(v, p, w) /\ (w # <<>> => Ends(w[Len(w)]))

(* The next step of p is one of O.                                          *)
OpIn(p, O) == work[p] # <<>> /\ work[p][1][1] \in O

-----------------------------------------------------------------------------
(* The first layer: enough for KeysOK and DeprecatedForGood.                *)

Tasks ==
  /\ work = [p \in Proc |-> work[p]]
  /\ \A p \in Proc : Fits(View, p, work[p])

Flags ==
  /\ mounted \in BOOLEAN /\ handler \in BOOLEAN /\ made \in BOOLEAN
  /\ blind \in BOOLEAN /\ cut \in BOOLEAN /\ late \in BOOLEAN /\ faults \in Nat

Shares ==
  /\ recordKey \in Key \cup {0} /\ gen \in 0..MaxGen /\ recordKey <= gen
  /\ deprecated \subseteq handed /\ handed \subseteq Share
  /\ \A x \in handed : x[2] <= gen
  /\ Copy(View, state)

(* Before it is initialised, a vault has nothing and serves nothing.        *)
Blank ==
  recordKey = 0 => handed = {} /\ barrier.sealed /\ ~mounted /\ ~handler /\ state.sealed

(* An open barrier has the data key, or none since a seal reset the cipher. *)
Barrier ==
  /\ barrier \in [sealed : BOOLEAN, key : Cipher]
  /\ written \subseteq {Enc}
  /\ ~barrier.sealed => barrier.key \in {Enc, None}

(* A task at one of these steps has found the barrier sealed; nobody else   *)
(* opens it.                                                                *)
Closed == {"count", "unseal", "init_cipher", "decrypt", "open", "put_record", "reset_cipher"}

(* What the next step of a task that unseals finds.  Shares it is about to  *)
(* deprecate are no longer in the state, or a copy of it would keep them.   *)
Stages ==
  \A p \in Unsealers :
    /\ OpIn(p, Closed) => barrier.sealed
    /\ OpIn(p, {"open"}) => barrier.key \in {Enc, None}
    /\ OpIn(p, {"reset_cipher", "unseal", "split"}) => recordKey # 0
    /\ OpIn(p, {"deprecate"}) => state.shares = <<>>
    /\ OpIn(p, PostOps) /\ ~work[p][1][2] => state.shares = <<>>

KeyInv == Tasks /\ Flags /\ Shares /\ Blank /\ Barrier /\ Stages

-----------------------------------------------------------------------------
(* The second layer: StateTracksBarrier.                                    *)

(* The barrier opens only with the key that the task goes on to keep.       *)
Right ==
  \A p \in Unsealers :
    /\ OpIn(p, {"opened"}) => Uses(work[p][1], recordKey)
    /\ OpIn(p, {"open"}) => Uses(work[p][2], recordKey)

(* The barrier's key, while a seal or an unseal is under way: a seal finds  *)
(* the barrier open and resets the cipher before it closes, an unseal keeps *)
(* a key that does not fit no longer than until it is tried.                *)
Closing ==
  ~late =>
    /\ Sealing => ~barrier.sealed
    /\ \A q \in Sealers : OpIn(q, {"close"}) => barrier.key = None
    /\ \A p \in Unsealers : OpIn(p, {"decrypt", "put_record"}) => barrier.key = work[p][1][2]
    /\ barrier.sealed /\ (\A p \in Unsealers : ~OpIn(p, {"decrypt", "open", "reset_cipher"}))
         => barrier.key \notin {recordKey, Enc} \ {None}

(* No seal has gone further than to begin.                                  *)
Calm == \A q \in Sealers : work[q] = <<>> \/ OpIn(q, {"pre_seal"})

(* The state a task carries to store back is sealed.                        *)
CopySealed(x) ==
  /\ x[1] = "count" => x[4].sealed
  /\ x[1] \in {"unseal", "decrypt"} => x[3].sealed

Copies == \A p \in Unsealers : \A x \in ToSet(work[p]) : CopySealed(x)

(* Steps of a task that may find the state unsealed.                        *)
Serving == {"do_unseal", "deprecate", "generate", "init_done"} \cup PostOps

(* An unsealed state has the barrier open, the key, and all that serves,    *)
(* but for what the task that unseals is still to add.                      *)
Whole ==
  ~late /\ ~cut =>
    /\ Copies
    /\ ~Calm => state.sealed /\ \A p \in Unsealers : work[p] = <<>> \/ OpIn(p, {"do_unseal"})
    /\ ~state.sealed =>
         /\ Readable /\ state.kek = recordKey
         /\ \A p \in Unsealers : work[p] = <<>> \/ OpIn(p, Serving)
         /\ mounted \/ \E p \in Unsealers : OpIn(p, {"load"})
         /\ handler \/ \E p \in Unsealers : OpIn(p, {"load", "token_store", "handler"})

TrackInv == KeyInv /\ Right /\ Closing /\ Whole

-----------------------------------------------------------------------------
(* The third layer: Recoverable.                                            *)

(* w ends in the shares that init makes.                                    *)
Inits(w) == \E x \in ToSet(w) : x[1] \in {"split", "init_done"}
Initing(p) == Inits(work[p])

(* The operators hold polynomial g and none of it is deprecated.            *)
Usable(g) == Polynomial(recordKey, g) \subseteq handed \ deprecated

(* x is of an unseal_once, which makes a polynomial.                        *)
Once(x) == \/ x[1] \in {"do_unseal", "count", "opened"} /\ x[3]
           \/ x[1] \in {"deprecate", "generate"}

(* Nothing stands in the way of init: no seal, no earlier shares, nothing   *)
(* mounted but what init itself mounts.                                     *)
Initialising(p) ==
  /\ Calm /\ handed = {}
  /\ ~OpIn(p, {"policy", "init_done"}) => ~handler
  /\ ~OpIn(p, {"token_store", "handler", "policy", "init_done"}) => ~mounted
  /\ OpIn(p, {"open"}) => barrier.key = Enc
  /\ OpIn(p, {"split", "init_done"} \cup PostOps) => Readable

(* Shares that open the vault are in the operators' hands, or about to be:  *)
(* the task that makes them is at it and cannot fail by itself.             *)
Recovers ==
  faults = 0 /\ ~cut =>
    /\ recordKey # 0 => \/ \E g \in 1..gen : Usable(g)
                        \/ \E p \in Unsealers : Initing(p) \/ OpIn(p, {"generate"})
    /\ \A p \in Unsealers :
         /\ Initing(p) => Initialising(p)
         /\ recordKey = 0 => work[p] = <<>> \/ OpIn(p, {"put_config", "barrier_init"}) \/ Initing(p)
         /\ OpIn(p, {"deprecate", "generate"} \cup PostOps) =>
              ~state.sealed /\ state.kek = recordKey
         /\ \A x \in ToSet(work[p]) : Once(x) => gen < MaxGen

RecoverInv == KeyInv /\ Right /\ Recovers
=============================================================================
