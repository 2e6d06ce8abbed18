----------------------------- MODULE StsLimiter -----------------------------
(***************************************************************************)
(* The actor that limits STS exchanges per realm                           *)
(* (lib/cepaf_gleam/src/cepaf_gleam/iam/sts_token_cache_actor.gleam).      *)
(*                                                                         *)
(* A caller reads the clock and sends CheckAllow(realm, now_ms).  The      *)
(* actor handles one message at a time; messages of one sender arrive in   *)
(* the order they were sent, those of different senders in any order, so a *)
(* message may be handled after one with a later stamp.  The actor is a    *)
(* child of the IAM supervisor, which restarts all its children when one   *)
(* of them dies (iam/supervisor.gleam, OneForAll): the windows and the     *)
(* mailbox are lost.                                                       *)
(*                                                                         *)
(* A window is a list of stamps of which only the number and the least are *)
(* read: here a set of calls, each with a number of its own.               *)
(***************************************************************************)
EXTENDS Integers, FiniteSets, Sequences

CONSTANTS
  Callers,     \* processes that send CheckAllow; none is in the repository
  Realms,
  RpmLimit,    \* State.rpm_limit, 60
  WindowMs,    \* State.window_ms, 60000
  MaxTime,     \* bound: of the clock
  MaxCalls,    \* bound: CheckAllow messages sent
  MaxQueue,    \* bound: messages of one caller in the mailbox
  MaxRestarts  \* bound: restarts of the IAM supervisor's children

ASSUME LimitAssumption == RpmLimit \in Nat \ {0}
ASSUME WindowAssumption == WindowMs \in Nat \ {0}

VARIABLES
  windows,   \* State.windows
  mailbox,   \* each caller's messages, not handled yet
  clock,     \* what now_ms is read from
  calls,     \* messages sent so far, the number of the last one
  allowed,   \* history: the calls answered Allowed since the window of
             \* their realm was last emptied
  restarts

limiterVars == <<windows, mailbox, clock, calls, allowed, restarts>>

Call == [number : Nat, at : Nat]
Message == [realm : Realms, call : Call]

LimiterInit ==
  /\ windows = [r \in Realms |-> {}]
  /\ mailbox = [c \in Callers |-> <<>>]
  /\ clock = 0 /\ calls = 0 /\ restarts = 0
  /\ allowed = [r \in Realms |-> {}]

Tick ==
  /\ clock < MaxTime
  /\ clock' = clock + 1
  /\ UNCHANGED <<windows, mailbox, calls, allowed, restarts>>

Send(c, r) ==
  /\ calls < MaxCalls /\ Len(mailbox[c]) < MaxQueue
  /\ calls' = calls + 1
  /\ mailbox' = [mailbox EXCEPT
       ![c] = Append(@, [realm |-> r, call |-> [number |-> calls + 1, at |-> clock]])]
  /\ UNCHANGED <<windows, clock, allowed, restarts>>

-----------------------------------------------------------------------------
(* Mutant: an entry exactly as old as the window still counts. *)
PrunedLate(w, now) == {k \in w : k.at >= now - WindowMs}

(* "Drop entries older than the window."                                   *)
Pruned(w, now) == {k \in w : k.at > now - WindowMs}

(* Mutant: one more than the limit. *)
FullPastLimit(w, now) == Cardinality(Pruned(w, now)) > RpmLimit

Full(w, now) == Cardinality(Pruned(w, now)) >= RpmLimit

Oldest(w) == CHOOSE t \in {k.at : k \in w} : \A k \in w : t <= k.at

RetryAfter(w, now) == Oldest(Pruned(w, now)) + WindowMs - now

(* Allowed: the stamp enters the pruned window.                            *)
Allow(r, call) ==
  windows' = [windows EXCEPT ![r] = Pruned(@, call.at) \cup {call}]

(* Throttled: the pruned window is stored and nothing else changes.        *)
Throttle(r, call) ==
  windows' = [windows EXCEPT ![r] = Pruned(@, call.at)]

CheckAllow(c) ==
  /\ mailbox[c] # <<>>
  /\ mailbox' = [mailbox EXCEPT ![c] = Tail(@)]
  /\ LET m == Head(mailbox[c])
     IN  \/ /\ Full(windows[m.realm], m.call.at)
            /\ Throttle(m.realm, m.call)
            /\ UNCHANGED allowed
         \/ /\ ~Full(windows[m.realm], m.call.at)
            /\ Allow(m.realm, m.call)
            /\ allowed' = [allowed EXCEPT ![m.realm] = @ \cup {m.call}]
  /\ UNCHANGED <<clock, calls, restarts>>

(* "Force-clear a realm's window - used during operator emergency          *)
(* overrides."                                                             *)
Reset(r) ==
  /\ windows' = [windows EXCEPT ![r] = {}]
  /\ allowed' = [allowed EXCEPT ![r] = {}]
  /\ UNCHANGED <<mailbox, clock, calls, restarts>>

Restart ==
  /\ restarts < MaxRestarts
  /\ restarts' = restarts + 1
  /\ windows' = [r \in Realms |-> {}]
  /\ mailbox' = [c \in Callers |-> <<>>]
  /\ allowed' = [r \in Realms |-> {}]
  /\ UNCHANGED <<clock, calls>>

LimiterNext ==
  \/ Tick
  \/ \E c \in Callers : CheckAllow(c) \/ \E r \in Realms : Send(c, r)
  \/ \E r \in Realms : Reset(r)
  \/ Restart

LimiterSpec == LimiterInit /\ [][LimiterNext]_limiterVars

-----------------------------------------------------------------------------
LimiterTypeOK ==
  /\ windows \in [Realms -> SUBSET Call]
  /\ mailbox \in [Callers -> Seq(Message)]
  /\ clock \in Nat /\ calls \in Nat /\ restarts \in Nat
  /\ allowed \in [Realms -> SUBSET Call]

(* "a token-bucket limit of 60 rpm/realm": no span of WindowMs holds more  *)
(* than RpmLimit calls answered Allowed.  True while stamps are handled in *)
(* order, as those of a single caller are.                                 *)
During(r, t) == {k \in allowed[r] : t - WindowMs < k.at /\ k.at <= t}
WindowRespected ==
  \A r \in Realms : \A k \in allowed[r] : Cardinality(During(r, k.at)) <= RpmLimit

(* retry_after_ms is exact: asking again that much later succeeds if       *)
(* nobody else asks in between, and asking one ms earlier does not.        *)
RetryExact ==
  \A r \in Realms : \A now \in 0 .. clock :
    Full(windows[r], now) =>
      LET later == now + RetryAfter(windows[r], now)
      IN  /\ later > now
          /\ ~Full(windows[r], later)
          /\ Full(windows[r], later - 1)

(* The actor's state is well typed, and what it answers is exact.           *)
LimiterOK == LimiterTypeOK /\ RetryExact
=============================================================================
