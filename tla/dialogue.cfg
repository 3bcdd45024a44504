SPECIFICATION Spec
CONSTANTS
  Visitor = v
  Host = h
  Guests = {g1, g2}
  RoomMaxTurns = 5
  MinimumTurns = 2
  MaximumTurns = 3
  MaxVisits = 1
  MaxSevered = 1
INVARIANTS
  ShareFollowsTopic
  BondCountsMoments
  MomentIsWhole
PROPERTIES
  RoundRobin
CHECK_DEADLOCK FALSE
