----------------------------- MODULE RateLimits -----------------------------
(***************************************************************************)
(* The in-memory rate limiters: a Map from a key (address and route, user  *)
(* and policy) to the list of its recent attempts, with a sliding window   *)
(* and a bound on the number of keys.  They differ in how a key leaves the *)
(* Map: AuthRateLimitGuard and SocketAuthService put a key whose attempts  *)
(* have all lapsed at the end again, PortalRateLimitGuard leaves it where  *)
(* it is, SocialRateLimitGuard sweeps the whole Map on every admission.    *)
(* All evict in insertion order when the Map is too large.                 *)
(*                                                                         *)
(* One window for all keys: SocialRateLimitGuard takes window and limit of *)
(* a key from the policy in its name, and sweeps a key by its own window.  *)
(***************************************************************************)
EXTENDS Naturals, Sequences, FiniteSets, SequencesExt

CONSTANTS LimitKeys,      \* the keys of the Map
          Window,         \* windowMs, in steps of the clock
          Limit,          \* attempts a key may make in a window
          Capacity,       \* 10_000 keys
          MaxLimitTime    \* bound on the clock

ASSUME LimitAssumption == {Window, Limit, Capacity} \subseteq Nat \ {0}

VARIABLES limiter,        \* which of the limiters this is
          limitNow,       \* Date.now()
          attempts,       \* key -> its attempts, numbered where they share a time
          order,          \* the keys of the Map, in insertion order
          admitted,       \* history: the attempts of each key let through in this window
          forgotten       \* history: keys evicted with attempts in the window

limitVars == <<limiter, limitNow, attempts, order, admitted, forgotten>>

Limiter == {"auth", "portal", "social"}
Attempt == [at : 0..MaxLimitTime, nr : Nat \ {0}]

LimitTypeOK ==
  /\ limiter \in Limiter
  /\ limitNow \in 0..MaxLimitTime
  /\ attempts \in [LimitKeys -> SUBSET Attempt]
  /\ order \in Seq(LimitKeys) /\ IsInjective(order)
  /\ admitted \in [LimitKeys -> SUBSET Attempt]
  /\ forgotten \subseteq LimitKeys

LimitInit ==
  /\ limiter \in Limiter
  /\ limitNow = 0
  /\ attempts = [k \in LimitKeys |-> {}]
  /\ order = <<>>
  /\ admitted = [k \in LimitKeys |-> {}]
  /\ forgotten = {}

InWindow(t) == limitNow - t < Window
Recent(list) == {a \in list : InWindow(a.at)}

\* An attempt made now, by a key that has made those in recent.
Newest(recent) ==
  [at |-> limitNow, nr |-> Cardinality({a \in recent : a.at = limitNow}) + 1]

LimitReachedLate(recent) == Cardinality(recent) > Limit
LimitReached(recent) == Cardinality(recent) >= Limit

\* A key that is in the Map keeps its place when it is set again.
SetKey(keys, k) == IF Contains(keys, k) THEN keys ELSE Append(keys, k)

\* The order after k's list was set.  The auth guard deletes a key without
\* recent attempts first, so that it moves to the end.
OrderAfterSet(k) ==
  IF limiter = "auth" /\ Recent(attempts[k]) = {}
  THEN Append(Remove(order, k), k)
  ELSE SetKey(order, k)

Swept(lists) == [k \in LimitKeys |-> Recent(lists[k])]

\* What remains of the Map: the social guard drops every key without recent
\* attempts, then each guard the keys in front while there are too many (the
\* auth and portal guards one, which is all there can be).
Kept(keys, lists) ==
  LET live == IF limiter = "social"
              THEN SelectSeq(keys, LAMBDA k : Recent(lists[k]) # {}) ELSE keys
  IN IF Len(live) > Capacity
     THEN SubSeq(live, Len(live) - Capacity + 1, Len(live)) ELSE live

\* An attempt that is let through.
AllowAttempt(k) ==
  LET recent == Recent(attempts[k])
      lists  == [attempts EXCEPT ![k] = recent \cup {Newest(recent)}]
      kept   == Kept(OrderAfterSet(k), lists)
  IN /\ ~LimitReached(recent)
     /\ order' = kept
     /\ attempts' = [j \in LimitKeys |->
                       IF ~Contains(kept, j) THEN {}
                       ELSE IF limiter = "social" THEN Swept(lists)[j] ELSE lists[j]]
     /\ admitted' = [admitted EXCEPT ![k] = @ \cup {Newest(recent)}]
     /\ forgotten' = forgotten \cup
          {j \in LimitKeys : ~Contains(kept, j) /\ admitted'[j] # {}}
     /\ UNCHANGED <<limiter, limitNow>>

\* RATE_LIMITED leaves the Map as it is.
RefuseAttempt(k) ==
  /\ LimitReached(Recent(attempts[k]))
  /\ UNCHANGED limitVars

LimitClockTicks ==
  /\ limitNow < MaxLimitTime
  /\ limitNow' = limitNow + 1
  /\ admitted' = [k \in LimitKeys |->
                    {a \in admitted[k] : limitNow + 1 - a.at < Window}]
  /\ forgotten' = {k \in forgotten : admitted'[k] # {}}
  /\ UNCHANGED <<limiter, attempts, order>>

LimitNext ==
  \/ \E k \in LimitKeys : AllowAttempt(k) \/ RefuseAttempt(k)
  \/ LimitClockTicks

LimitSpec == LimitInit /\ [][LimitNext]_limitVars

-----------------------------------------------------------------------------

\* In every window a key is let through at most Limit times, however its
\* attempts straddle the window and however keys are moved, swept and evicted,
\* unless it was itself evicted within that window.
WindowHolds ==
  \A k \in LimitKeys \ forgotten : Cardinality(admitted[k]) <= Limit
=============================================================================
