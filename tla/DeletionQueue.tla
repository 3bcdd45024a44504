--------------------------- MODULE DeletionQueue ---------------------------
(***************************************************************************)
(* The queue of requested account deletions.  deleteAccount makes the      *)
(* request durable, tells the counterparts of the visits it ended and      *)
(* tries the final deletion itself; whatever that leaves is retried by     *)
(* AccountDeletionCleanupService, which takes the oldest due requests, at  *)
(* most PassLimit at a time, once a minute.  An attempt that fails puts    *)
(* its request off for twice as long as the one before.                    *)
(*                                                                         *)
(* Time is counted in minutes to go; what an attempt does to the objects   *)
(* and rows of the account is the subject of AssetPacks.                   *)
(***************************************************************************)
EXTENDS Naturals, FiniteSets

CONSTANTS Leavers,          \* accounts, numbered in the order of their requests
          PassLimit,        \* requests a pass takes
          MaxExponent,      \* ACCOUNT_DELETION_MAX_BACKOFF_EXPONENT
          MaxBackoff,       \* ACCOUNT_DELETION_MAX_BACKOFF_MS, in minutes
          UrlTtl,           \* minutes an upload URL lives
          Patience          \* passes that may leave out a due request

ASSUME QueueAssumption ==
  /\ IsFiniteSet(Leavers) /\ Leavers \subseteq Nat
  /\ {PassLimit, MaxExponent, MaxBackoff} \subseteq Nat \ {0}
  /\ UrlTtl \in 0..MaxBackoff /\ Patience \in Nat
  \* The doubled waits reach the longest one.
  /\ 2 ^ (MaxExponent - 1) >= MaxBackoff
  \* Requests that all keep failing still leave room in some pass.
  /\ Cardinality(Leavers) <= PassLimit * MaxBackoff

VARIABLES leaving,          \* "live", "requested" (to be deleted) or "gone"
          wait,             \* minutes until deletionNextAttemptAt
          failures,         \* deletionAttemptCount
          urlLife,          \* minutes until the last upload URL is dead
          handler,          \* deleteAccount's own attempt: its step
          pass,             \* the accounts the running pass has yet to try, if any
          leftOut           \* history: prompt passes that left out a due request

queueVars == <<leaving, wait, failures, urlLife, handler, pass, leftOut>>

Requested == {a \in Leavers : leaving[a] = "requested"}

QueueTypeOK ==
  /\ leaving \in [Leavers -> {"live", "requested", "gone"}]
  /\ wait \in [Leavers -> 0..MaxBackoff]
  /\ failures \in [Leavers -> 0..MaxExponent]
  /\ urlLife \in [Leavers -> 0..UrlTtl]
  /\ handler \in [Leavers -> {"none", "publishing", "attempting"}]
  /\ pass \subseteq Leavers
  /\ leftOut \in [Leavers -> 0..(Patience + 1)]

QueueInit ==
  /\ leaving = [a \in Leavers |-> "live"]
  /\ wait = [a \in Leavers |-> 0]
  /\ failures = [a \in Leavers |-> 0]
  /\ urlLife = [a \in Leavers |-> 0]
  /\ handler = [a \in Leavers |-> "none"]
  /\ pass = {}
  /\ leftOut = [a \in Leavers |-> 0]

-----------------------------------------------------------------------------
(* An attempt and what it leaves of the request.                            *)

BackoffFlat(n) == 1

\* One minute, doubled with every failure, up to the longest wait.
Backoff(n) ==
  LET attempt == IF n + 1 < MaxExponent THEN n + 1 ELSE MaxExponent
      minutes == 2 ^ (attempt - 1)
  IN IF minutes < MaxBackoff THEN minutes ELSE MaxBackoff

\* The count only matters up to the largest exponent.
CountFailure(n) == IF n < MaxExponent THEN n + 1 ELSE n

\* The final deletion: the account and its request are gone.
Deleted(a) ==
  /\ urlLife[a] = 0
  /\ leaving' = [leaving EXCEPT ![a] = "gone"]
  /\ wait' = [wait EXCEPT ![a] = 0]
  /\ failures' = [failures EXCEPT ![a] = 0]
  /\ leftOut' = [leftOut EXCEPT ![a] = 0]

\* Too early: put off until the last upload URL is dead; not a failure.
Pending(a) ==
  /\ urlLife[a] > 0
  /\ wait' = [wait EXCEPT ![a] = urlLife[a]]
  /\ failures' = [failures EXCEPT ![a] = 0]
  /\ UNCHANGED <<leaving, leftOut>>

\* Storage or the database refuse.
Failed(a) ==
  /\ wait' = [wait EXCEPT ![a] = Backoff(failures[a])]
  /\ failures' = [failures EXCEPT ![a] = CountFailure(@)]
  /\ UNCHANGED <<leaving, leftOut>>

\* The deferral itself fails: the pass swallows it, the handler answers with
\* an error, and the request is due as before.
NotDeferred ==
  /\ leftOut' = [a \in Leavers |-> 0]
  /\ UNCHANGED <<leaving, wait, failures>>

\* The packs are not the ones that were counted: nothing is deleted, and the
\* request is due again at once.
Recounted(a) ==
  /\ urlLife[a] = 0
  /\ wait' = [wait EXCEPT ![a] = 0]
  /\ failures' = [failures EXCEPT ![a] = 0]
  /\ leftOut' = [b \in Leavers |-> 0]
  /\ UNCHANGED leaving

\* Another attempt deleted the account meanwhile: nothing is left to do.
AlreadyGone(a) ==
  /\ a \notin Requested
  /\ UNCHANGED <<leaving, wait, failures, leftOut>>

Attempted(a) ==
  \/ AlreadyGone(a)
  \/ a \in Requested /\ (Deleted(a) \/ Pending(a) \/ Failed(a) \/ Recounted(a))

-----------------------------------------------------------------------------
(* deleteAccount, after its transaction.                                    *)

\* The transaction: the request is durable and due at once.
RequestDeletion(a) ==
  /\ leaving[a] = "live"
  /\ \A b \in Leavers : b < a => leaving[b] # "live"
  /\ leaving' = [leaving EXCEPT ![a] = "requested"]
  /\ wait' = [wait EXCEPT ![a] = 0]
  /\ failures' = [failures EXCEPT ![a] = 0]
  /\ \E life \in {0, UrlTtl} : urlLife' = [urlLife EXCEPT ![a] = life]
  /\ handler' = [handler EXCEPT ![a] = "publishing"]
  /\ UNCHANGED <<pass, leftOut>>

\* A second request that passed the guard before the first one suspended the
\* account: it keeps the time of the first and is due at once again.
RepeatRequest(a) ==
  /\ a \in Requested /\ handler[a] # "none"
  /\ wait' = [wait EXCEPT ![a] = 0]
  /\ failures' = [failures EXCEPT ![a] = 0]
  /\ handler' = [handler EXCEPT ![a] = "publishing"]
  /\ leftOut' = [b \in Leavers |-> 0]
  /\ UNCHANGED <<leaving, urlLife, pass>>

\* publishAccountDeletionTerminalEvents reads the ended visits page by page; a
\* failing query ends the handler and leaves the request to the passes.
PublishTerminalEvents(a) ==
  /\ handler[a] = "publishing"
  /\ \E next \in {"attempting", "none"} : handler' = [handler EXCEPT ![a] = next]
  /\ UNCHANGED <<leaving, wait, failures, urlLife, pass, leftOut>>

HandlerAttempts(a) ==
  /\ handler[a] = "attempting"
  /\ Attempted(a) \/ NotDeferred
  /\ handler' = [handler EXCEPT ![a] = "none"]
  /\ UNCHANGED <<urlLife, pass>>

-----------------------------------------------------------------------------
(* AccountDeletionCleanupService.                                           *)

Later(n) == IF n = 0 THEN 0 ELSE n - 1

\* The oldest requests that are due, given how long each has to wait: fewer
\* than PassLimit are due before each of them.
OldestDue(waits) ==
  LET due == {a \in Requested : waits[a] = 0}
  IN {a \in due : Cardinality({b \in due : b < a}) < PassLimit}

LeavesOut(waits, a) == a \in Requested /\ waits[a] = 0 /\ a \notin OldestDue(waits)

StartPass(waits) ==
  /\ pass' = OldestDue(waits)
  /\ leftOut' = [a \in Leavers |->
       IF ~LeavesOut(waits, a) THEN 0
       ELSE IF leftOut[a] <= Patience THEN leftOut[a] + 1 ELSE leftOut[a]]

\* The query of the due requests fails: the pass is over at once.
QueryFails ==
  /\ leftOut' = [a \in Leavers |-> 0]
  /\ UNCHANGED pass

\* setInterval: a pass every minute, none while the last one is running.
Minute ==
  /\ wait' = [a \in Leavers |-> Later(wait[a])]
  /\ urlLife' = [a \in Leavers |-> Later(urlLife[a])]
  /\ IF pass # {}
     THEN leftOut' = [a \in Leavers |-> 0] /\ UNCHANGED pass
     ELSE StartPass(wait') \/ QueryFails
  /\ UNCHANGED <<leaving, failures, handler>>

\* A pass tries its requests in their order, the oldest first.
FinalizeNext(a) ==
  /\ a \in pass /\ \A b \in pass : a <= b
  /\ Attempted(a) \/ NotDeferred
  /\ pass' = pass \ {a}
  /\ UNCHANGED <<urlLife, handler>>

\* The process dies with everything it was about to do; the requests stay,
\* and onModuleInit starts a pass.
QueueRestart ==
  /\ handler' = [a \in Leavers |-> "none"]
  /\ pass' = OldestDue(wait)
  /\ leftOut' = [a \in Leavers |-> 0]
  /\ UNCHANGED <<leaving, wait, failures, urlLife>>

QueueNext ==
  \/ \E a \in Leavers : \/ RequestDeletion(a) \/ RepeatRequest(a)
                        \/ PublishTerminalEvents(a) \/ HandlerAttempts(a)
                        \/ FinalizeNext(a)
  \/ Minute \/ QueueRestart

QueueSpec == QueueInit /\ [][QueueNext]_queueVars

-----------------------------------------------------------------------------
\* However many older requests fail again and again, a request that is due is
\* taken up within Patience passes: the growing waits of the others make room.
\* Passes are counted while they keep up with the clock: not across a pass
\* that outlasts its minute, a deferral that is lost, packs that were counted
\* differently, a restart or a repeated request.
\* (finalizePendingAccountDeletions, deferAccountDeletion)
DueIsTakenUp == \A a \in Leavers : leftOut[a] <= Patience
=============================================================================
