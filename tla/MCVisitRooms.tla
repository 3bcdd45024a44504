---------------------------- MODULE MCVisitRooms ----------------------------
(***************************************************************************)
(* Bounded instances of VisitRooms. Requests and workers are free; join    *)
(* requests, expiries and time-outs, changes of friendships, accounts and  *)
(* Companions, account deletions and leaking operations are drawn from     *)
(* small budgets, and from MixBudget together: which of them meet in one   *)
(* behaviour is left open, how many is not.                                *)
(***************************************************************************)
EXTENDS VisitRooms, TLC

CONSTANTS JoinBudget, TimeBudget, SocialBudget, DeletionBudget, LeakBudget, MixBudget

VARIABLE budget

Symmetry == Permutations(Users) \cup Permutations(Visits)

Spend(kind) ==
  /\ budget[kind] > 0 /\ budget.mix > 0
  /\ budget' = [budget EXCEPT ![kind] = @ - 1, !.mix = @ - 1]

Budgets(social, deletion, leak) ==
  [join |-> JoinBudget, time |-> TimeBudget, social |-> social,
   deletion |-> deletion, leak |-> leak, mix |-> MixBudget]

\* A behaviour sees social changes, deletions or leaks, not two of them.
MCInit ==
  /\ Init
  /\ budget \in {Budgets(SocialBudget, 0, 0), Budgets(0, DeletionBudget, 0),
                 Budgets(0, 0, LeakBudget)}
  /\ budget.social + budget.deletion + budget.leak = 0 =>
       SocialBudget + DeletionBudget + LeakBudget = 0

MCNext ==
  \/ Service  /\ UNCHANGED budget
  \/ JoinRequests /\ Spend("join")
  \/ Time     /\ Spend("time")
  \/ Social   /\ Spend("social")
  \/ DeletionRequests /\ Spend("deletion")
  \/ DeletionEnds /\ UNCHANGED budget
  \/ Leaks    /\ Spend("leak")
  \/ CleanupConflict /\ UNCHANGED budget

MCSpec == MCInit /\ [][MCNext]_<<vars, budget>>

(* The timer starts a pass every quarter of an hour, and a restarted       *)
(* process starts one at once: only the clean-up is assumed to keep going. *)
MCFairSpec ==
  MCSpec /\ WF_<<vars, budget>>((CleanupPass \/ CleanupConflict) /\ UNCHANGED budget)

=============================================================================
