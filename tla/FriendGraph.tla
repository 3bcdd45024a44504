----------------------------- MODULE FriendGraph -----------------------------
(***************************************************************************)
(* Friend requests, friendships and blocks: the tables of FriendService.   *)
(*                                                                         *)
(* Requests are created and settled by transactions that lock both User    *)
(* rows first; the insert of a block needs the same rows for its foreign   *)
(* keys and so waits for them. removeFriend is one delete statement. Each  *)
(* is therefore one action. What removeFriend, blockUser and unblockUser   *)
(* check before they write can be stale, so their callers may by then be   *)
(* suspended or leaving.                                                   *)
(*                                                                         *)
(* There is one FriendRequest row per ordered pair, reused by upsert, and  *)
(* only whether it is pending is ever read again.                          *)
(***************************************************************************)

CONSTANT Users

VARIABLES
  pending,      \* FriendRequest rows with status pending, <<sender, receiver>>
  friendship,   \* Friendship rows, <<userId, friendId>>
  block,        \* BlockedUser rows, <<blockerId, blockedId>>
  account       \* accountStatus and deletionRequestedAt; "gone": row deleted

friendVars == <<pending, friendship, block, account>>

FriendTypeOK ==
  /\ pending \subseteq Users \X Users
  /\ friendship \subseteq Users \X Users
  /\ block \subseteq Users \X Users
  /\ account \in [Users -> {"active", "suspended", "deleting", "gone"}]

-----------------------------------------------------------------------------
(* What the services read and write *)

Both(a, b) == {<<a, b>>, <<b, a>>}

(* lockActiveParticipants *)
ActiveParticipants(a, b) == account[a] = "active" /\ account[b] = "active"

AreFriends(a, b) == <<a, b>> \in friendship \/ <<b, a>> \in friendship
Blocked(a, b)    == <<a, b>> \in block \/ <<b, a>> \in block
Asked(a, b)      == <<a, b>> \in pending \/ <<b, a>> \in pending

(* mutant: the request in the other direction is not looked for *)
ReverseIgnored(a, b) == FALSE

Reverse(a, b) == <<b, a>> \in pending

WithoutFriendship(a, b) == friendship \ Both(a, b)

(* mutant: only the requests the blocker sent are cancelled *)
WithoutSentRequest(a, b) == pending \ {<<a, b>>}

WithoutRequests(a, b) == pending \ Both(a, b)

(* mutant: deleteAccount forgets the requests the user received *)
WithoutRequestsFrom(u) == {p \in pending : p[1] # u}

WithoutRequestsOf(u) == {p \in pending : u \notin {p[1], p[2]}}

(* withRelationship: how a sees b *)
Relationship(a, b) ==
  IF Blocked(a, b) THEN "hidden"
  ELSE IF <<a, b>> \in friendship THEN "friend"
  ELSE IF <<a, b>> \in pending THEN "outgoing"
  ELSE IF <<b, a>> \in pending THEN "incoming"
  ELSE "none"

-----------------------------------------------------------------------------
(* Requests *)

SendFriendRequest(a, b) ==
  /\ a # b
  /\ ActiveParticipants(a, b)
  /\ ~AreFriends(a, b)
  /\ ~Blocked(a, b)
  /\ ~Reverse(a, b)
  /\ <<a, b>> \notin pending
  /\ pending' = pending \cup {<<a, b>>}
  /\ UNCHANGED <<friendship, block, account>>

(* acceptFriendRequestInTransaction. Neither the block table nor, but for  *)
(* its unique index, the friendship table is looked at again.              *)
Accept(receiver, sender) ==
  /\ <<sender, receiver>> \in pending
  /\ ~AreFriends(sender, receiver)
  /\ pending' = pending \ {<<sender, receiver>>}
  /\ friendship' = friendship \cup Both(sender, receiver)
  /\ UNCHANGED <<block, account>>

(* sendFriendRequest when the other one has asked already *)
SendMutualRequest(a, b) ==
  /\ a # b
  /\ ActiveParticipants(a, b)
  /\ ~AreFriends(a, b)
  /\ ~Blocked(a, b)
  /\ Reverse(a, b)
  /\ Accept(a, b)

AcceptFriendRequest(receiver, sender) ==
  /\ ActiveParticipants(receiver, sender)
  /\ Accept(receiver, sender)

(* rejectFriendRequest by the receiver, cancelFriendRequest by the sender *)
SettleFriendRequest(sender, receiver) ==
  /\ ActiveParticipants(sender, receiver)
  /\ <<sender, receiver>> \in pending
  /\ pending' = pending \ {<<sender, receiver>>}
  /\ UNCHANGED <<friendship, block, account>>

RemoveFriend(a, b) ==
  /\ <<a, b>> \in friendship
  /\ friendship' = WithoutFriendship(a, b)
  /\ UNCHANGED <<pending, block, account>>

BlockUser(a, b) ==
  /\ a # b
  /\ "gone" \notin {account[a], account[b]}
  /\ <<a, b>> \notin block
  /\ block' = block \cup {<<a, b>>}
  /\ friendship' = WithoutFriendship(a, b)
  /\ pending' = WithoutRequests(a, b)
  /\ UNCHANGED account

UnblockUser(a, b) ==
  /\ <<a, b>> \in block
  /\ block' = block \ {<<a, b>>}
  /\ UNCHANGED <<pending, friendship, account>>

-----------------------------------------------------------------------------
(* Accounts *)

SuspendAccount(u) ==
  /\ account[u] = "active"
  /\ account' = [account EXCEPT ![u] = "suspended"]
  /\ UNCHANGED <<pending, friendship, block>>

RestoreAccount(u) ==
  /\ account[u] = "suspended"
  /\ account' = [account EXCEPT ![u] = "active"]
  /\ UNCHANGED <<pending, friendship, block>>

(* deleteAccount; friendships and blocks wait for the row to go *)
DeleteAccount(u) ==
  /\ account[u] \in {"active", "suspended"}
  /\ account' = [account EXCEPT ![u] = "deleting"]
  /\ pending' = WithoutRequestsOf(u)
  /\ UNCHANGED <<friendship, block>>

(* user.delete, and the cascades of the schema *)
FinalizeDeletion(u) ==
  /\ account[u] = "deleting"
  /\ account' = [account EXCEPT ![u] = "gone"]
  /\ pending' = WithoutRequestsOf(u)
  /\ friendship' = {p \in friendship : u \notin {p[1], p[2]}}
  /\ block' = {p \in block : u \notin {p[1], p[2]}}

-----------------------------------------------------------------------------
FriendInit ==
  /\ pending = {}
  /\ friendship = {}
  /\ block = {}
  /\ account = [u \in Users |-> "active"]

FriendNext ==
  \/ \E a, b \in Users :
       \/ SendFriendRequest(a, b)
       \/ SendMutualRequest(a, b)
       \/ AcceptFriendRequest(a, b)
       \/ SettleFriendRequest(a, b)
       \/ RemoveFriend(a, b)
       \/ BlockUser(a, b)
       \/ UnblockUser(a, b)
  \/ \E u \in Users :
       \/ SuspendAccount(u)
       \/ RestoreAccount(u)
       \/ DeleteAccount(u)
       \/ FinalizeDeletion(u)

FriendSpec == FriendInit /\ [][FriendNext]_friendVars

-----------------------------------------------------------------------------
(* Properties *)

(* Friendship is mutual: the two rows of a pair come and go together, and  *)
(* nobody befriends themselves. areEligibleFriends and removeFriend look   *)
(* at one row only and rely on it.                                         *)
Mutual == \A a, b \in Users :
            <<a, b>> \in friendship => a # b /\ <<b, a>> \in friendship

(* Two people have at most one relationship: friends have no open request  *)
(* and no block between them, an open request has no counterpart and no    *)
(* block. acceptFriendRequest, which checks neither, relies on it.         *)
OneRelationship ==
  \A a, b \in Users :
    /\ AreFriends(a, b) => ~Asked(a, b) /\ ~Blocked(a, b)
    /\ <<a, b>> \in pending => a # b /\ <<b, a>> \notin pending /\ ~Blocked(a, b)

(* An account that is leaving has no open request in either direction, and *)
(* one that has left is in no row at all.                                  *)
LeaversAreForgotten ==
  \A a, b \in Users :
    /\ account[a] = "deleting" => ~Asked(a, b)
    /\ account[a] = "gone" => ~Asked(a, b) /\ ~AreFriends(a, b) /\ ~Blocked(a, b)

(* The refinement: what withRelationship shows behaves as Relationships    *)
(* says. The order in which it consults the tables hides nothing.          *)
R == INSTANCE Relationships
       WITH view <- [a \in Users |-> [b \in Users |-> Relationship(a, b)]]

ImplementsRelationships == R!Spec

=============================================================================
