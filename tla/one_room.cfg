SPECIFICATION MCSpec
CONSTANTS
  Users = {u1, u2, u3, u4}
  Visits = {i1, i2}
  NoUser = NoUser
  NoVisit = NoVisit
  RoomCapacity = 3
  HostVisitors = 2
  JoinBudget = 1
  TimeBudget = 0
  SocialBudget = 0
  DeletionBudget = 0
  LeakBudget = 0
  MixBudget = 1
SYMMETRY Symmetry
INVARIANTS
  OneRoomPerParticipant
\* every invitation and every budget may be used up: the instance may stop
CHECK_DEADLOCK FALSE
