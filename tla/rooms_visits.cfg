SPECIFICATION MCSpec
CONSTANTS
  Users = {u1, u2, u3}
  Visits = {i1, i2}
  NoUser = NoUser
  NoVisit = NoVisit
  RoomCapacity = 3
  HostVisitors = 2
  JoinBudget = 1
  TimeBudget = 1
  SocialBudget = 0
  DeletionBudget = 1
  LeakBudget = 0
  MixBudget = 2
SYMMETRY Symmetry
INVARIANTS
  ReservationIsCurrent
  VisitorOwnerInOneSession
\* every invitation and every budget may be used up: the instance may stop
CHECK_DEADLOCK FALSE
