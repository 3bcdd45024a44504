SPECIFICATION MCFairSpec
CONSTANTS
  Users = {u1, u2, u3}
  Visits = {i1}
  NoUser = NoUser
  NoVisit = NoVisit
  RoomCapacity = 3
  HostVisitors = 2
  JoinBudget = 1
  TimeBudget = 2
  SocialBudget = 1
  DeletionBudget = 0
  LeakBudget = 0
  MixBudget = 4
INVARIANTS
  HostHoldsRoom
PROPERTIES
  LapsedInvitationFreesVisitor
  OverdueSessionEnds
\* every invitation and every budget may be used up: the instance may stop
CHECK_DEADLOCK FALSE
