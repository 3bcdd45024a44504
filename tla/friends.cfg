SPECIFICATION FriendsSpec
CONSTANTS
  Users = {u1, u2, u3}
  Severers = {"removeFriend", "blockUser", "unpublish"}
INVARIANTS
  OneRelationship
  LeaversAreForgotten
  OnlyMissedSurvives
PROPERTIES
  ImplementsRelationships
  NoBirthAfterSevering
  BlockFreezesSession
\* everybody may leave
CHECK_DEADLOCK FALSE
