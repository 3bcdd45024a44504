SPECIFICATION MCSpec
CONSTANTS
  Users = {u1, u2, u3, u4}
  Visits = {i1}
  NoUser = NoUser
  NoVisit = NoVisit
  RoomCapacity = 3
  HostVisitors = 2
  JoinBudget = 2
  TimeBudget = 2
  SocialBudget = 1
  DeletionBudget = 1
  LeakBudget = 1
  MixBudget = 4
SYMMETRY Symmetry
INVARIANTS
  RoomWithinCapacity
  ReservationHasPart
PROPERTIES
  OnlyForward
\* every invitation and every budget may be used up: the instance may stop
CHECK_DEADLOCK FALSE
