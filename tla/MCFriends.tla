----------------------------- MODULE MCFriends -----------------------------
(***************************************************************************)
(* The tables of FriendService and, apart from them, one pair whose        *)
(* friendship is severed while they visit: which says whose behaviours     *)
(* this is, the other stays in its initial state.                          *)
(***************************************************************************)
EXTENDS FriendGraph, VisitSevering

VARIABLE which

FriendsInit == which \in {"friends", "severing"} /\ FriendInit /\ Init

FriendsNext ==
  /\ UNCHANGED which
  /\ \/ which = "friends" /\ FriendNext /\ UNCHANGED vars
     \/ which = "severing" /\ Next /\ UNCHANGED friendVars

FriendsSpec == FriendsInit /\ [][FriendsNext]_<<which, friendVars, vars>>
=============================================================================
