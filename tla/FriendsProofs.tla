---------------------------- MODULE FriendsProofs ----------------------------
(***************************************************************************)
(* Theorems about the two sides of a friendship.                           *)
(*                                                                         *)
(* FriendGraph, for any set of users: two people have at most one          *)
(* relationship, and the tables implement Relationships.                   *)
(*                                                                         *)
(* VisitSevering, whichever of the severing requests are under way: what   *)
(* the row locks guarantee to the visit of a friendship that ends.         *)
(***************************************************************************)
EXTENDS FriendGraph, VisitSevering, TLAPS

-----------------------------------------------------------------------------
(* FriendGraph                                                              *)

(* blockUser refuses the caller themselves *)
NoSelfBlock == \A a \in Users : <<a, a>> \notin block

(* The three invariants need one another: a request turned into a          *)
(* friendship must not find a block, which only OneRelationship says.      *)
FriendInv == FriendTypeOK /\ Mutual /\ OneRelationship /\ LeaversAreForgotten /\ NoSelfBlock

(* FriendInit establishes the invariant: every table is empty. *)
LEMMA FriendInitInv == FriendInit => FriendInv
  BY DEF FriendInit, FriendInv, FriendTypeOK, Mutual, OneRelationship, LeaversAreForgotten, NoSelfBlock,
         AreFriends, Blocked, Asked, Both

(* acceptFriendRequest and the mutual sendFriendRequest keep the invariant *)
(* although neither looks for a block once the request is known.           *)
LEMMA FriendAcceptInv ==
  ASSUME FriendInv, NEW r \in Users, NEW s \in Users, ActiveParticipants(r, s), Accept(r, s)
  PROVE  FriendInv'
<1> USE DEF FriendInv, Accept, Both, AreFriends, Blocked, Asked
<1>1. FriendTypeOK'
  BY DEF FriendTypeOK
<1>2. Mutual'
  BY DEF FriendTypeOK, Mutual, OneRelationship
<1>3. OneRelationship'
  BY DEF FriendTypeOK, Mutual, OneRelationship
<1>4. LeaversAreForgotten'
  BY DEF FriendTypeOK, LeaversAreForgotten, ActiveParticipants
<1>5. NoSelfBlock'
  BY DEF NoSelfBlock
<1> QED BY <1>1, <1>2, <1>3, <1>4, <1>5

(* The operations on a pair of users keep the invariant. *)
LEMMA PairInv ==
  ASSUME FriendInv, NEW a \in Users, NEW b \in Users,
         \/ SendFriendRequest(a, b) \/ SendMutualRequest(a, b)
         \/ AcceptFriendRequest(a, b) \/ SettleFriendRequest(a, b)
         \/ RemoveFriend(a, b) \/ BlockUser(a, b) \/ UnblockUser(a, b)
  PROVE  FriendInv'
<1> USE DEF Both, AreFriends, Blocked, Asked
<1>1. CASE SendFriendRequest(a, b)
  <2> USE <1>1 DEF FriendInv, SendFriendRequest
  <2>1. FriendTypeOK'
    BY DEF FriendTypeOK
  <2>2. Mutual' /\ NoSelfBlock'
    BY DEF Mutual, NoSelfBlock
  <2>3. OneRelationship'
    <3> SUFFICES ASSUME NEW c \in Users, NEW d \in Users
                 PROVE  /\ AreFriends(c, d)' => ~Asked(c, d)' /\ ~Blocked(c, d)'
                        /\ <<c, d>> \in pending' =>
                             c # d /\ <<d, c>> \notin pending' /\ ~Blocked(c, d)'
      BY DEF OneRelationship
    <3>1. CASE <<c, d>> \in Both(a, b)
      BY <3>1 DEF OneRelationship, Reverse
    <3>2. CASE <<c, d>> \notin Both(a, b)
      BY <3>2 DEF OneRelationship
    <3> QED BY <3>1, <3>2
  <2>4. LeaversAreForgotten'
    BY DEF LeaversAreForgotten, ActiveParticipants
  <2> QED BY <2>1, <2>2, <2>3, <2>4
<1>2. CASE SendMutualRequest(a, b) \/ AcceptFriendRequest(a, b)
  BY <1>2, FriendAcceptInv DEF SendMutualRequest, AcceptFriendRequest
<1>3. CASE SettleFriendRequest(a, b)
  <2> USE <1>3 DEF FriendInv, SettleFriendRequest
  <2>1. FriendTypeOK' /\ Mutual' /\ NoSelfBlock'
    BY DEF FriendTypeOK, Mutual, NoSelfBlock
  <2>2. OneRelationship'
    BY DEF OneRelationship
  <2>3. LeaversAreForgotten'
    BY DEF LeaversAreForgotten
  <2> QED BY <2>1, <2>2, <2>3
<1>4. CASE RemoveFriend(a, b)
  <2> USE <1>4 DEF FriendInv, RemoveFriend, WithoutFriendship
  <2>1. FriendTypeOK' /\ Mutual' /\ NoSelfBlock'
    BY DEF FriendTypeOK, Mutual, NoSelfBlock
  <2>2. OneRelationship'
    BY DEF OneRelationship
  <2>3. LeaversAreForgotten'
    BY DEF LeaversAreForgotten
  <2> QED BY <2>1, <2>2, <2>3
<1>5. CASE BlockUser(a, b)
  <2> USE <1>5 DEF FriendInv, BlockUser, WithoutFriendship, WithoutRequests
  <2>1. FriendTypeOK' /\ Mutual' /\ NoSelfBlock'
    BY DEF FriendTypeOK, Mutual, NoSelfBlock
  <2>2. OneRelationship'
    BY DEF OneRelationship
  <2>3. LeaversAreForgotten'
    BY DEF LeaversAreForgotten
  <2> QED BY <2>1, <2>2, <2>3
<1>6. CASE UnblockUser(a, b)
  <2> USE <1>6 DEF FriendInv, UnblockUser
  <2>1. FriendTypeOK' /\ Mutual' /\ NoSelfBlock'
    BY DEF FriendTypeOK, Mutual, NoSelfBlock
  <2>2. OneRelationship'
    BY DEF OneRelationship
  <2>3. LeaversAreForgotten'
    BY DEF LeaversAreForgotten
  <2> QED BY <2>1, <2>2, <2>3
<1> QED BY <1>1, <1>2, <1>3, <1>4, <1>5, <1>6

(* The operations on an account keep the invariant. *)
LEMMA AccountInv ==
  ASSUME FriendInv, NEW u \in Users,
         \/ SuspendAccount(u) \/ RestoreAccount(u) \/ DeleteAccount(u) \/ FinalizeDeletion(u)
  PROVE  FriendInv'
<1> USE DEF Both, AreFriends, Blocked, Asked
<1>1. CASE SuspendAccount(u) \/ RestoreAccount(u)
  BY <1>1 DEF SuspendAccount, RestoreAccount, FriendInv, FriendTypeOK, Mutual, OneRelationship,
              LeaversAreForgotten, NoSelfBlock
<1>2. CASE DeleteAccount(u)
  <2> USE <1>2 DEF FriendInv, DeleteAccount, WithoutRequestsOf
  <2>1. FriendTypeOK' /\ Mutual' /\ NoSelfBlock'
    BY DEF FriendTypeOK, Mutual, NoSelfBlock
  <2>2. OneRelationship'
    BY DEF OneRelationship
  <2>3. LeaversAreForgotten'
    BY DEF LeaversAreForgotten, FriendTypeOK
  <2> QED BY <2>1, <2>2, <2>3
<1>3. CASE FinalizeDeletion(u)
  <2> USE <1>3 DEF FriendInv, FinalizeDeletion, WithoutRequestsOf
  <2>1. FriendTypeOK' /\ Mutual' /\ NoSelfBlock'
    BY DEF FriendTypeOK, Mutual, NoSelfBlock
  <2>2. OneRelationship'
    BY DEF OneRelationship
  <2>3. LeaversAreForgotten'
    BY DEF LeaversAreForgotten, FriendTypeOK
  <2> QED BY <2>1, <2>2, <2>3
<1> QED BY <1>1, <1>2, <1>3

(* Every step of the specification keeps the invariant. *)
LEMMA FriendStepInv == FriendInv /\ [FriendNext]_friendVars => FriendInv'
<1> SUFFICES ASSUME FriendInv, [FriendNext]_friendVars PROVE FriendInv'
  OBVIOUS
<1>1. CASE UNCHANGED friendVars
  BY <1>1 DEF friendVars, FriendInv, FriendTypeOK, Mutual, OneRelationship, LeaversAreForgotten, NoSelfBlock,
              AreFriends, Blocked, Asked, Both
<1>2. CASE FriendNext
  BY <1>2, PairInv, AccountInv DEF FriendNext
<1> QED BY <1>1, <1>2

(* The invariant holds in every reachable state, however many users. *)
THEOREM FriendInvariance == FriendSpec => []FriendInv
  BY FriendInitInv, FriendStepInv, PTL DEF FriendSpec

(* Type correctness of the tables. *)
THEOREM FriendTypeCorrectness == FriendSpec => []FriendTypeOK
<1>1. FriendInv => FriendTypeOK
  BY DEF FriendInv
<1> QED BY <1>1, FriendInvariance, PTL

(* Friendship rows always come in pairs: acceptance creates and removal,   *)
(* blocking and deletion delete both.                                      *)
THEOREM FriendshipIsMutual == FriendSpec => []Mutual
<1>1. FriendInv => Mutual
  BY DEF FriendInv
<1> QED BY <1>1, FriendInvariance, PTL

(* No sequence of requests, crossings, blocks, unblocks and deletions      *)
(* leaves two people with a friendship or a request beside a block, or     *)
(* with two open requests.                                                 *)
THEOREM RelationshipsAreExclusive == FriendSpec => []OneRelationship
<1>1. FriendInv => OneRelationship
  BY DEF FriendInv
<1> QED BY <1>1, FriendInvariance, PTL

(* A leaving account is asked by nobody and a deleted one is in no row. *)
THEOREM LeaversStayForgotten == FriendSpec => []LeaversAreForgotten
<1>1. FriendInv => LeaversAreForgotten
  BY DEF FriendInv
<1> QED BY <1>1, FriendInvariance, PTL

-----------------------------------------------------------------------------
(* Refinement *)

Seen == [a \in Users |-> [b \in Users |-> Relationship(a, b)]]

(* A step that leaves everybody but a and b with the relationships they    *)
(* had, and a and b with x and y, is a Become step of the abstract module. *)
LEMMA Becoming ==
  ASSUME NEW a \in Users, NEW b \in Users, NEW x, NEW y,
         Relationship(a, b)' = x,
         a # b => Relationship(b, a)' = y,
         \A c, d \in Users : <<c, d>> \notin Both(a, b) =>
                               Relationship(c, d)' = Relationship(c, d)
  PROVE  R!Become(a, b, x, y)
  BY DEF R!Become, Both

(* An acceptance is seen as an agreement of the one who was asked. *)
LEMMA AcceptRefines ==
  ASSUME FriendInv, NEW r \in Users, NEW s \in Users, Accept(r, s)
  PROVE  R!Agree(r, s)
<1> USE DEF FriendInv, Accept, Both, AreFriends, Blocked, Asked
<1>1. r # s /\ Relationship(r, s) = "incoming"
  BY DEF OneRelationship, Relationship
<1>2. Relationship(r, s)' = "friend" /\ Relationship(s, r)' = "friend"
  BY DEF OneRelationship, Relationship
<1>3. \A c, d \in Users : <<c, d>> \notin Both(r, s) =>
                            Relationship(c, d)' = Relationship(c, d)
  BY DEF Relationship
<1>4. R!Become(r, s, "friend", "friend")
  BY <1>2, <1>3, Becoming
<1> QED BY <1>1, <1>4 DEF R!Agree

(* Every operation on a pair is seen as one abstract step or as none. *)
LEMMA PairRefines ==
  ASSUME FriendInv, NEW a \in Users, NEW b \in Users,
         \/ SendFriendRequest(a, b) \/ SendMutualRequest(a, b)
         \/ AcceptFriendRequest(a, b) \/ SettleFriendRequest(a, b)
         \/ RemoveFriend(a, b) \/ BlockUser(a, b) \/ UnblockUser(a, b)
  PROVE  R!Next \/ UNCHANGED Seen
<1> USE DEF Both, AreFriends, Blocked, Asked
<1>1. CASE SendFriendRequest(a, b)
  <2> USE <1>1 DEF SendFriendRequest, Reverse, Relationship
  <2>1. Relationship(a, b) = "none"
    OBVIOUS
  <2>2. Relationship(a, b)' = "outgoing" /\ Relationship(b, a)' = "incoming"
    OBVIOUS
  <2>3. \A c, d \in Users : <<c, d>> \notin Both(a, b) =>
                              Relationship(c, d)' = Relationship(c, d)
    OBVIOUS
  <2>4. R!Become(a, b, "outgoing", "incoming")
    BY <2>2, <2>3, Becoming
  <2> QED BY <2>1, <2>4 DEF R!Next, R!Ask
<1>2. CASE SendMutualRequest(a, b) \/ AcceptFriendRequest(a, b)
  BY <1>2, AcceptRefines DEF SendMutualRequest, AcceptFriendRequest, R!Next
<1>3. CASE SettleFriendRequest(a, b)
  <2> USE <1>3 DEF SettleFriendRequest, Relationship
  <2>1. a # b /\ Relationship(a, b) = "outgoing"
    BY DEF FriendInv, OneRelationship
  <2>2. Relationship(a, b)' = "none" /\ Relationship(b, a)' = "none"
    BY DEF FriendInv, OneRelationship
  <2>3. \A c, d \in Users : <<c, d>> \notin Both(a, b) =>
                              Relationship(c, d)' = Relationship(c, d)
    OBVIOUS
  <2>4. R!Become(a, b, "none", "none")
    BY <2>2, <2>3, Becoming
  <2> QED BY <2>1, <2>4 DEF R!Next, R!Withdraw
<1>4. CASE RemoveFriend(a, b)
  <2> USE <1>4 DEF RemoveFriend, WithoutFriendship, Relationship
  <2>1. a # b /\ Relationship(a, b) = "friend"
    BY DEF FriendInv, Mutual, OneRelationship
  <2>2. Relationship(a, b)' = "none" /\ Relationship(b, a)' = "none"
    BY DEF FriendInv, Mutual, OneRelationship
  <2>3. \A c, d \in Users : <<c, d>> \notin Both(a, b) =>
                              Relationship(c, d)' = Relationship(c, d)
    OBVIOUS
  <2>4. R!Become(a, b, "none", "none")
    BY <2>2, <2>3, Becoming
  <2> QED BY <2>1, <2>4 DEF R!Next, R!Part
<1>5. CASE BlockUser(a, b)
  <2> USE <1>5 DEF BlockUser, WithoutFriendship, WithoutRequests, Relationship
  <2>1. a # b /\ Relationship(a, b)' = "hidden" /\ Relationship(b, a)' = "hidden"
    OBVIOUS
  <2>2. \A c, d \in Users : <<c, d>> \notin Both(a, b) =>
                              Relationship(c, d)' = Relationship(c, d)
    OBVIOUS
  <2>3. R!Become(a, b, "hidden", "hidden")
    BY <2>1, <2>2, Becoming
  <2> QED BY <2>1, <2>3 DEF R!Next, R!Hide
<1>6. CASE UnblockUser(a, b)
  <2> USE <1>6 DEF UnblockUser, Relationship
  <2>1. a # b /\ Relationship(a, b) = "hidden"
    BY DEF FriendInv, NoSelfBlock
  <2>2. \A c, d \in Users : <<c, d>> \notin Both(a, b) =>
                              Relationship(c, d)' = Relationship(c, d)
    OBVIOUS
  <2>3. CASE <<b, a>> \in block
    <3>1. \A c, d \in Users : Relationship(c, d)' = Relationship(c, d)
      BY <2>1, <2>2, <2>3
    <3> QED BY <3>1 DEF Seen
  <2>4. CASE <<b, a>> \notin block
    <3>1. Relationship(a, b)' = "none" /\ Relationship(b, a)' = "none"
      BY <2>1, <2>4 DEF FriendInv, OneRelationship
    <3>2. R!Become(a, b, "none", "none")
      BY <2>2, <3>1, Becoming
    <3> QED BY <2>1, <3>2 DEF R!Next, R!Reveal
  <2> QED BY <2>3, <2>4
<1> QED BY <1>1, <1>2, <1>3, <1>4, <1>5, <1>6

(* Suspending is not seen; deleting an account withdraws its requests, and *)
(* its end makes it vanish.                                                *)
LEMMA AccountRefines ==
  ASSUME FriendInv, NEW u \in Users,
         \/ SuspendAccount(u) \/ RestoreAccount(u) \/ DeleteAccount(u) \/ FinalizeDeletion(u)
  PROVE  R!Next \/ UNCHANGED Seen
<1> USE DEF Both, AreFriends, Blocked, Asked
<1>1. CASE SuspendAccount(u) \/ RestoreAccount(u)
  BY <1>1 DEF SuspendAccount, RestoreAccount, Seen, Relationship
<1>2. CASE DeleteAccount(u)
  <2>1. \A c, d \in Users :
          Relationship(c, d)' =
            IF u \in {c, d} /\ Relationship(c, d) \in {"outgoing", "incoming"}
            THEN "none" ELSE Relationship(c, d)
    BY <1>2 DEF DeleteAccount, WithoutRequestsOf, Relationship, FriendInv, OneRelationship
  <2>2. R!Retire(u)
    BY <2>1 DEF R!Retire
  <2> QED BY <2>2 DEF R!Next
<1>3. CASE FinalizeDeletion(u)
  <2>1. \A c, d \in Users :
          Relationship(c, d)' = IF u \in {c, d} THEN "none" ELSE Relationship(c, d)
    BY <1>3 DEF FinalizeDeletion, WithoutRequestsOf, Relationship
  <2>2. R!Vanish(u)
    BY <2>1 DEF R!Vanish
  <2> QED BY <2>2 DEF R!Next
<1> QED BY <1>1, <1>2, <1>3

(* The tables of FriendService implement Relationships: what two people    *)
(* see of each other is always mirrored, a friendship always comes from a  *)
(* request one of them sent and no block intervened, and blocking hides    *)
(* until it is undone by everyone who blocked.                             *)
THEOREM Implementation == FriendSpec => ImplementsRelationships
<1>1. FriendInit => R!Init
  BY DEF FriendInit, R!Init, Relationship, Blocked, Both
<1>2. FriendInv /\ [FriendNext]_friendVars => [R!Next]_Seen
  <2> SUFFICES ASSUME FriendInv, [FriendNext]_friendVars PROVE R!Next \/ UNCHANGED Seen
    OBVIOUS
  <2>1. CASE UNCHANGED friendVars
    BY <2>1 DEF friendVars, Seen, Relationship, Blocked, Both
  <2>2. CASE FriendNext
    BY <2>2, PairRefines, AccountRefines DEF FriendNext
  <2> QED BY <2>1, <2>2
<1> QED BY <1>1, <1>2, FriendInvariance, PTL DEF FriendSpec, ImplementsRelationships, R!Spec, Seen

-----------------------------------------------------------------------------
(* VisitSevering                                                            *)

(* A request on the session holds its row, so the session stays in the     *)
(* state the request checked until it commits, and only one is under way.  *)
SessionHeld ==
  \A r \in SessionTx :
    /\ tx[r] # "eligible"
    /\ tx[r] = "checked" => /\ session = IF r = "start" THEN "ready" ELSE "preparing"
                            /\ \A q \in SessionTx : q # r => tx[q] = "idle"

(* An acceptance holds the User and invitation rows and, once past its     *)
(* last check, the Companion: it is still right when it commits.           *)
AcceptanceHeld ==
  /\ tx["accept"] # "idle" => ~blocked /\ invitation = "pending"
  /\ tx["accept"] = "checked" => published
  /\ session # "none" => invitation = "accepted"

(* The transaction of a severing request comes before its sweep. *)
SeveringDone ==
  \A s \in Severers : sever[s] \in {"severed", "found"} \cup Answered =>
    /\ s = "blockUser" => blocked
    /\ s = "unpublish" => ~published

(* A sweep that found nothing live cannot be overtaken by a birth. *)
NothingFoundIsTrue ==
  \A s \in Severers \cap {"blockUser", "unpublish"} :
    sever[s] = "found" /\ seen[s] = "none" => ~Live

(* When blockUser returns no request on the session is half way through. *)
NothingHalfway ==
  "blockUser" \in Severers /\ sever["blockUser"] \in Answered =>
    \A r \in SessionTx : tx[r] = "idle"

SeveringInv ==
  /\ TypeOK /\ SessionHeld /\ AcceptanceHeld /\ SeveringDone
  /\ NothingFoundIsTrue /\ NothingHalfway /\ OnlyMissedSurvives

(* Nothing is under way in the beginning. *)
LEMMA SeveringInitInv == Init => SeveringInv
  BY SeverersAssumption
  DEF Init, SeveringInv, TypeOK, SessionHeld, AcceptanceHeld, SeveringDone, NothingFoundIsTrue,
      NothingHalfway, OnlyMissedSurvives, Live, LiveState, SessionTx, Answered

(* The steps of acceptInvitation keep the invariant. *)
LEMMA SeveringAcceptInv ==
  ASSUME SeveringInv, AcceptEligible \/ AcceptChecked \/ AcceptCommits
  PROVE  SeveringInv'
<1> USE DEF SeveringInv, AcceptEligible, AcceptChecked, AcceptCommits, Eligible
<1>1. TypeOK'
  BY DEF TypeOK, LiveState, SessionTx
<1>2. SessionHeld'
  BY DEF TypeOK, SessionHeld, AcceptanceHeld, SessionTx
<1>3. AcceptanceHeld'
  BY DEF TypeOK, AcceptanceHeld, SessionTx
<1>4. SeveringDone'
  BY DEF SeveringDone
<1>5. NothingFoundIsTrue' /\ OnlyMissedSurvives'
  BY DEF NothingFoundIsTrue, OnlyMissedSurvives, AcceptanceHeld, SeveringDone, Answered,
         Live, LiveState
<1>6. NothingHalfway'
  BY DEF TypeOK, NothingHalfway, SessionTx
<1> QED BY <1>1, <1>2, <1>3, <1>4, <1>5, <1>6

(* The requests on the session keep the invariant. *)
LEMMA SessionInv ==
  ASSUME SeveringInv,
         \/ \E r \in SessionTx : SessionChecked(r)
         \/ \E role \in {"owner", "host"} : ReadyCommits(role)
         \/ StartCommits \/ EndSession
  PROVE  SeveringInv'
<1> USE DEF SeveringInv, SessionChecked, ReadyCommits, StartCommits, EndSession, Eligible, Live,
            SessionLocked, LiveState, SessionTx, Ended
<1>1. TypeOK'
  <2>1. acks' \subseteq {"owner", "host"}
    BY DEF TypeOK
  <2>2. session' \in LiveState \cup {"none", "ended", "cancelled"}
    BY DEF TypeOK
  <2>3. tx' \in [SessionTx \cup {"accept"} -> {"idle", "eligible", "checked"}]
    BY DEF TypeOK
  <2> QED BY <2>1, <2>2, <2>3 DEF TypeOK
<1>2. SessionHeld'
  BY DEF TypeOK, SessionHeld
<1>3. AcceptanceHeld'
  BY DEF TypeOK, AcceptanceHeld, SessionHeld
<1>4. SeveringDone'
  BY DEF SeveringDone
<1>5. NothingFoundIsTrue' /\ OnlyMissedSurvives'
  BY DEF NothingFoundIsTrue, OnlyMissedSurvives, SessionHeld
<1>6. NothingHalfway'
  BY DEF TypeOK, NothingHalfway, SeveringDone, Answered
<1> QED BY <1>1, <1>2, <1>3, <1>4, <1>5, <1>6

(* The steps of removeFriend, blockUser and unpublish keep the invariant. *)
LEMMA SeverInv ==
  ASSUME SeveringInv,
         \/ \E s \in Severers : Ask(s) \/ FindSessions(s) \/ ClaimSessions(s)
         \/ RemoveFriendship \/ CreateBlock \/ Unpublish
  PROVE  SeveringInv'
<1> USE SeverersAssumption DEF SeveringInv, Severing, Live, LiveState, SessionTx, Answered
<1>1. CASE \E s \in Severers : Ask(s)
  BY <1>1 DEF Ask, TypeOK, SessionHeld, AcceptanceHeld, SeveringDone, NothingFoundIsTrue,
              NothingHalfway, OnlyMissedSurvives
<1>2. CASE \E s \in Severers : FindSessions(s)
  BY <1>2 DEF FindSessions, TypeOK, SessionHeld, AcceptanceHeld, SeveringDone,
              NothingFoundIsTrue, NothingHalfway, OnlyMissedSurvives
<1>3. CASE \E s \in Severers : ClaimSessions(s)
  <2> USE <1>3 DEF ClaimSessions, StillAsSeen, SessionLocked, InvitationLocked, Ended
  <2>1. TypeOK'
    BY DEF TypeOK
  <2>2. SessionHeld'
    BY DEF TypeOK, SessionHeld
  <2>3. AcceptanceHeld'
    BY DEF TypeOK, AcceptanceHeld
  <2>4. SeveringDone'
    BY DEF TypeOK, SeveringDone
  <2>5. NothingFoundIsTrue' /\ OnlyMissedSurvives'
    BY DEF TypeOK, NothingFoundIsTrue, OnlyMissedSurvives
  <2>6. NothingHalfway'
    BY DEF TypeOK, NothingHalfway, NothingFoundIsTrue, SessionHeld
  <2> QED BY <2>1, <2>2, <2>3, <2>4, <2>5, <2>6
<1>4. CASE RemoveFriendship \/ CreateBlock \/ Unpublish
  <2> USE <1>4 DEF RemoveFriendship, CreateBlock, Unpublish, UsersLocked, CompanionLocked
  <2>1. TypeOK'
    BY DEF TypeOK
  <2>2. SessionHeld' /\ AcceptanceHeld'
    BY DEF TypeOK, SessionHeld, AcceptanceHeld
  <2>3. SeveringDone'
    BY DEF TypeOK, SeveringDone
  <2>4. NothingFoundIsTrue' /\ OnlyMissedSurvives' /\ NothingHalfway'
    BY DEF TypeOK, NothingFoundIsTrue, OnlyMissedSurvives, NothingHalfway
  <2> QED BY <2>1, <2>2, <2>3, <2>4
<1> QED BY <1>1, <1>2, <1>3, <1>4

(* A crash gives the locks back and loses the sweeps. *)
LEMMA CrashInv == ASSUME SeveringInv, Crash PROVE SeveringInv'
  BY DEF Crash, SeveringInv, TypeOK, SessionHeld, AcceptanceHeld, SeveringDone, NothingFoundIsTrue,
         NothingHalfway, OnlyMissedSurvives, Live, LiveState, SessionTx, Answered

(* Every step keeps the invariant. *)
LEMMA SeveringStepInv == SeveringInv /\ [Next]_vars => SeveringInv'
<1> SUFFICES ASSUME SeveringInv, [Next]_vars PROVE SeveringInv'
  OBVIOUS
<1>1. CASE UNCHANGED vars
  BY <1>1 DEF vars, SeveringInv, TypeOK, SessionHeld, AcceptanceHeld, SeveringDone,
              NothingFoundIsTrue, NothingHalfway, OnlyMissedSurvives, Live
<1>2. CASE Next
  BY <1>2, SeveringAcceptInv, SessionInv, SeverInv, CrashInv DEF Next
<1> QED BY <1>1, <1>2

(* The invariant holds in every reachable state. *)
THEOREM SeveringInvariance == Spec => []SeveringInv
  BY SeveringInitInv, SeveringStepInv, PTL DEF Spec

(* After blockUser or unpublish returned, a live session is one its sweep  *)
(* missed: requests that committed between its read and its claim changed  *)
(* the state.                                                              *)
THEOREM OnlyMissedSessionsSurvive == Spec => []OnlyMissedSurvives
<1>1. SeveringInv => OnlyMissedSurvives
  BY DEF SeveringInv
<1> QED BY <1>1, SeveringInvariance, PTL

(* The row locks of acceptInvitation keep a block and an unpublishing from *)
(* falling between its checks and its commit.                              *)
THEOREM NoSessionIsBornSevered == Spec => NoBirthAfterSevering
<1>1. SeveringInv /\ [Next]_vars => [session = "none" /\ session' # "none" => ~blocked /\ published]_vars
  <2> SUFFICES ASSUME SeveringInv, Next, session = "none", session' # "none"
               PROVE  ~blocked /\ published
    BY DEF vars
  <2>1. AcceptCommits
    <3> USE DEF SeveringInv, SessionHeld, TypeOK, Live, LiveState, SessionTx
    <3>1. CASE \E r \in SessionTx : SessionChecked(r)
      BY <3>1 DEF SessionChecked
    <3>2. CASE \E role \in {"owner", "host"} : ReadyCommits(role)
      BY <3>2 DEF ReadyCommits
    <3>3. CASE StartCommits \/ EndSession
      BY <3>3 DEF StartCommits, EndSession
    <3>4. CASE \E s \in Severers : Ask(s) \/ FindSessions(s) \/ ClaimSessions(s)
      BY <3>4 DEF Ask, FindSessions, ClaimSessions, StillAsSeen
    <3>5. CASE RemoveFriendship \/ CreateBlock \/ Unpublish \/ Crash
      BY <3>5 DEF RemoveFriendship, CreateBlock, Unpublish, Crash
    <3>6. CASE AcceptEligible \/ AcceptChecked
      BY <3>6 DEF AcceptEligible, AcceptChecked
    <3> QED BY <3>1, <3>2, <3>3, <3>4, <3>5, <3>6 DEF Next
  <2> QED BY <2>1 DEF AcceptCommits, SeveringInv, AcceptanceHeld
<1> QED BY <1>1, SeveringInvariance, PTL DEF Spec, NoBirthAfterSevering

(* Once blockUser returned, a session it missed can only be ended: no      *)
(* request whose checks had passed is left, and none can pass them.        *)
THEOREM BlockedSessionsAreFrozen == Spec => BlockFreezesSession
<1> DEFINE Returned == "blockUser" \in Severers /\ sever["blockUser"] \in Answered
           OnlyEnded == session' = session \/ session' \in {"ended", "cancelled"}
<1>1. SeveringInv /\ [Next]_vars => [Returned => OnlyEnded]_vars
  <2> SUFFICES ASSUME SeveringInv, Next, Returned PROVE OnlyEnded
    BY DEF vars
  <2> USE DEF SeveringInv, NothingHalfway, SessionTx
  <2>1. CASE \E r \in SessionTx : SessionChecked(r)
    BY <2>1 DEF SessionChecked
  <2>2. CASE \E role \in {"owner", "host"} : ReadyCommits(role)
    BY <2>2 DEF ReadyCommits
  <2>3. CASE StartCommits \/ EndSession
    BY <2>3 DEF StartCommits, EndSession, Ended
  <2>4. CASE \E s \in Severers : Ask(s) \/ FindSessions(s) \/ ClaimSessions(s)
    BY <2>4 DEF Ask, FindSessions, ClaimSessions, Ended
  <2>5. CASE RemoveFriendship \/ CreateBlock \/ Unpublish \/ Crash
    BY <2>5 DEF RemoveFriendship, CreateBlock, Unpublish, Crash
  <2>6. CASE AcceptEligible \/ AcceptChecked \/ AcceptCommits
    BY <2>6 DEF AcceptEligible, AcceptChecked, AcceptCommits, AcceptanceHeld, SeveringDone
  <2> QED BY <2>1, <2>2, <2>3, <2>4, <2>5, <2>6 DEF Next
<1> QED BY <1>1, SeveringInvariance, PTL DEF Spec, BlockFreezesSession
=============================================================================
