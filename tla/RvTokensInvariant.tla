------------------------- MODULE RvTokensInvariant -------------------------
(* The inductive invariant of RvTokens, in layers; RvTokens_proofs proves   *)
(* it for every set of tokens and secrets and any bounds.  What a task has  *)
(* still to do is a sequence of steps.  Each layer says, for a step         *)
(* wherever it is in such a sequence, what is so now, or which step of the  *)
(* same task that comes earlier will make it so.                            *)
EXTENDS RvTokens

-----------------------------------------------------------------------------
(* Types.  Every id in use was generated before.                           *)

Used == Lease \ fresh
UsedTok == Tok \ fresh
UsedSec == Sec \ fresh
EntryOK(e) == e \in Entry /\ e.parent \notin fresh

OfTok == {"check_token", "lookupParent", "register_auth", "give", "renew_token", "renewed",
          "revoke_tree", "revoke", "delete", "revoke_by_token",
          "putId", "putParent", "deleteParent",
          "register_secret", "create_index", "remove_index"}
OfSec == {"register_secret", "create_index", "remove_index"}
OfLease == {"push", "pop", "revoke_lease_id", "delete_lease_entry"}

StepOK(s) ==
  /\ s[1] \in OfTok => s[2] \in UsedTok
  /\ s[1] \in OfSec => s[3] \in UsedSec
  /\ s[1] \in OfLease => s[2] \in Used
  /\ s[1] \in {"putParent", "deleteParent"} => s[3] \in UsedTok
  /\ s[1] = "putId" => EntryOK(s[3])
  /\ s[1] = "push" => s[3] \in Nat
  /\ s[1] = "revoke_lease_id" => s[3] \in BOOLEAN
  /\ s[1] = "done" => s[2] \subseteq Used

(* The checker does nothing but revoke, and only with the lock; a task that *)
(* stops with an error had nothing to queue or index.                       *)
CheckerOps == {"revoke_lease_id", "pop", "revoke_tree", "revoke", "delete", "deleteParent",
               "revoke_by_token", "done", "delete_lease_entry", "remove_index", "push"}
Refusing == {"check_token", "lookupParent", "renew_token", "renewed"}

Ordered(w) ==
  \A i \in DOMAIN w : w[i][1] \in Refusing =>
    \A j \in DOMAIN w : j > i => w[j][1] \notin {"push", "create_index"}

Threads ==
  /\ \A i \in DOMAIN work[Checker] : work[Checker][i][1] \in CheckerOps
  /\ work[Checker] # <<>> => locked
  /\ \A p \in Callers : Ordered(work[p]) /\ (p > ops => work[p] = <<>>)

Stores ==
  /\ TypeOK
  /\ fresh \subseteq Lease
  /\ ops \in Nat /\ faults \in Nat
  /\ \A t \in Tok : entry[t] # None => t \in UsedTok /\ EntryOK(entry[t])
  /\ children \subseteq UsedTok \X UsedTok /\ index \subseteq UsedTok \X UsedSec
  /\ \A l \in Lease : queue[l] # None => l \in Used
  /\ \A l \in Lease : lease[l] # None => lease[l].expire > 0
  /\ created \cup raced \subseteq Lease

Typed(S) ==
  /\ Stores
  /\ work \in [Proc -> Seq(S)] /\ \A s \in S : StepOK(s)
  /\ Threads

-----------------------------------------------------------------------------
(* Writes of entries: one of an entry without use limit is the only one     *)
(* there will be for its token.                                             *)

Is(s, op, x) == s[1] = op /\ s[2] = x
IsPut(s, x) == s[1] = "putId" /\ s[2] = x

PutOK(p, i) ==
  LET s == work[p][i] IN
    s[1] = "putId" =>
      IF s[3].uses = 0
      THEN /\ entry[s[2]] = None
           /\ \A q \in Proc : \A j \in DOMAIN work[q] :
                IsPut(work[q][j], s[2]) => q = p /\ j = i
      ELSE entry[s[2]] # None => entry[s[2]].uses # 0

Puts == \A p \in Proc : \A i \in DOMAIN work[p] : PutOK(p, i)

-----------------------------------------------------------------------------
(* Tokens with a lease: nobody will write their entry any more, and their   *)
(* lease is deleted only once the entry is.                                 *)

NoPut(x) == \A p \in Proc : \A i \in DOMAIN work[p] : ~IsPut(work[p][i], x)
Final(x) == x \notin fresh /\ NoPut(x) /\ (entry[x] # None => entry[x].uses = 0)

(* Step s is on the way to delete the entry of x. *)
Ends(s, x) == s[1] \in {"revoke_tree", "revoke", "delete"} /\ s[2] = x
Ending(w, i, x) == \E j \in DOMAIN w : j < i /\ Ends(w[j], x)

AuthOK(p, i, m) ==
  Is(work[p][i], "register_auth", m) =>
    /\ entry[m] # None => entry[m].uses = 0
    /\ lease[m] = None
    /\ \A q \in Proc : \A j \in DOMAIN work[q] :
         LET r == work[q][j] IN
           /\ IsPut(r, m) => q = p /\ j < i /\ r[3].uses = 0
           /\ Is(r, "register_auth", m) => q = p /\ j = i
           /\ ~Is(r, "renewed", m) /\ ~Is(r, "push", m)

HasLease(t) == entry[t] # None => lease[t] # None

GiveOK(p, i, m) ==
  Is(work[p][i], "give", m) =>
    \/ \E j \in DOMAIN work[p] : j < i /\ Is(work[p][j], "register_auth", m)
    \/ Final(m) /\ HasLease(m)

LeaseEndOK(p, i, t) ==
  Is(work[p][i], "delete_lease_entry", t) =>
    Final(t) /\ (entry[t] = None \/ Ending(work[p], i, t))

RenewedOK(p, i, t) == Is(work[p][i], "renewed", t) => Final(t)

Leased ==
  /\ \A p \in Proc : \A i \in DOMAIN work[p] : \A t \in Tok :
       AuthOK(p, i, t) /\ GiveOK(p, i, t) /\ LeaseEndOK(p, i, t) /\ RenewedOK(p, i, t)
  /\ \A t \in Tok : lease[t] # None => Final(t)
  /\ \A t \in given : Final(t) /\ HasLease(t)

-----------------------------------------------------------------------------
(* Children: a stored child without use limit is listed under its parent.   *)

Unlimited(c) == entry[c] # None /\ entry[c].uses = 0
OnlyLimited(c) ==
  c \notin fresh /\ \A p \in Proc : \A i \in DOMAIN work[p] :
    IsPut(work[p][i], c) => work[p][i][3].uses # 0

PutLinked(p, i, c) ==
  LET e == work[p][i][3] IN
    IsPut(work[p][i], c) /\ e.uses = 0 /\ e.parent # None =>
      \/ <<e.parent, c>> \in children
      \/ \E j \in DOMAIN work[p] :
           j < i /\ Is(work[p][j], "putParent", e.parent) /\ work[p][j][3] = c

UnlinkOK(p, i, c) ==
  work[p][i][1] = "deleteParent" /\ work[p][i][3] = c =>
    OnlyLimited(c) /\ (Unlimited(c) => Ending(work[p], i, c))

Linked ==
  /\ \A p \in Proc : \A i \in DOMAIN work[p] : \A c \in Tok :
       PutLinked(p, i, c) /\ UnlinkOK(p, i, c)
  /\ \A c \in Tok : Unlimited(c) /\ entry[c].parent # None => <<entry[c].parent, c>> \in children

-----------------------------------------------------------------------------
(* Secrets: a lease is registered once, and is found under its token.       *)

Registers(s, l) == s[1] = "register_secret" /\ s[3] = l
Registered(l) ==
  l \notin fresh /\ \A p \in Proc : \A i \in DOMAIN work[p] : ~Registers(work[p][i], l)
EndingLease(w, i, l) == \E j \in DOMAIN w : j < i /\ w[j][1] = "delete_lease_entry" /\ w[j][2] = l

RegisterOK(p, i, l) ==
  Registers(work[p][i], l) =>
    \A q \in Proc : \A j \in DOMAIN work[q] : Registers(work[q][j], l) => q = p /\ j = i

SecretOK(p, i, l) ==
  LET s == work[p][i] IN
    /\ s[1] = "create_index" /\ s[3] = l => Registered(l)
    /\ (s[1] = "remove_index" /\ s[3] = l) \/ (Is(s, "push", l) /\ s[3] = 0) =>
         Registered(l) /\ (lease[l] = None \/ EndingLease(work[p], i, l))

(* Only a finished revocation of a secret queues its lease once more. *)
AgainOK(p, i) ==
  LET s == work[p][i] IN
    /\ s[1] = "push" /\ s[3] = 0 => s[2] \in Sec
    /\ s[1] = "revoke_lease_id" => IF s[3] THEN s[2] \in Sec ELSE p = Checker

Secrets ==
  /\ \A p \in Proc : \A i \in DOMAIN work[p] :
       AgainOK(p, i) /\ \A l \in Sec : RegisterOK(p, i, l) /\ SecretOK(p, i, l)
  /\ \A s \in Sec : lease[s] # None => Registered(s)
  /\ \A s \in Sec : (\E r \in index : r[2] = s) => Registered(s)
  /\ \A l \in Lease : queue[l] = 0 => l \in Sec /\ Registered(l) /\ lease[l] = None
  /\ LeaseIndexed

-----------------------------------------------------------------------------
(* What revocations promise.                                               *)

(* The lease of x is on the way to be deleted. *)
EndsLease(s, x) ==
  \/ s[1] \in {"revoke_lease_id", "delete_lease_entry"} /\ s[2] = x
  \/ s[1] = "revoke_by_token" /\ <<s[2], x>> \in index
ToEndLease(w, i, x) == \E j \in DOMAIN w : j < i /\ EndsLease(w[j], x)

DoneOK(p, i) ==
  LET s == work[p][i] IN
    s[1] = "done" =>
      /\ \A x \in Tok : x \in s[2] => Final(x) /\ (entry[x] = None \/ Ending(work[p], i, x))
      /\ \A x \in Sec : x \in s[2] => Registered(x) /\ (lease[x] = None \/ ToEndLease(work[p], i, x))

Promises == \A p \in Proc : \A i \in DOMAIN work[p] : DoneOK(p, i)

-----------------------------------------------------------------------------
(* The queue.                                                              *)

(* Step s of the checker revokes or deletes lease l. *)
Drops(s, l) == s[1] \in {"revoke_lease_id", "delete_lease_entry"} /\ s[2] = l

PopOK(i, l) ==
  LET w == work[Checker] IN
    Is(w[i], "pop", l) =>
      \/ lease[l] = None \/ Pending(l) \/ broken
      \/ \E j \in DOMAIN w : j < i /\ Drops(w[j], l)

Watched == LeaseWatched /\ \A i \in DOMAIN work[Checker] : \A l \in Lease : PopOK(i, l)

(* The lease of t is due, or its renewal waits for the lock. *)
Overdue(t) == lease[t] # None => lease[t].expire <= now \/ Pending(t) \/ t \in raced

TimeOK(p, i, t) ==
  LET s == work[p][i] IN
    /\ Is(s, "push", t) =>
         /\ p \in Callers /\ i = 1
         /\ lease[t] # None /\ t \notin raced => s[3] = lease[t].expire
    /\ Drops(s, t) => p = Checker /\ Overdue(t)

Timely ==
  /\ \A p \in Proc : \A i \in DOMAIN work[p] : \A t \in Tok : TimeOK(p, i, t)
  /\ \A t \in Tok : lease[t] # None =>
       queue[t] \in {None, lease[t].expire} \/ Pending(t) \/ t \in raced

-----------------------------------------------------------------------------
IInv == (\E S : Typed(S)) /\ Puts /\ Leased /\ Linked /\ Secrets /\ Promises /\ Watched /\ Timely
=============================================================================
