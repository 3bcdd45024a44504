----------------------------- MODULE VisitRooms -----------------------------
(***************************************************************************)
(* Visit invitations, Visit rooms and the one-per-user reservation that    *)
(* keeps a Companion from being in two places at once.                     *)
(*                                                                         *)
(* Every interactive transaction of VisitService and VisitRoomService      *)
(* takes row locks before it reads, so it is one action here, but for      *)
(* markParticipantReady: see Acknowledging. What the code does as separate *)
(* statements is separate actions: the periodic clean-up pass, the sweep   *)
(* after a friendship is severed and the revocation after a Companion is   *)
(* unpublished can all be interleaved with requests and lost in a crash.   *)
(* deleteAccount locks nothing but the user, so what it reads and what it  *)
(* commits are two actions.                                                *)
(*                                                                         *)
(* A session has a unique invitationId, so a Visit stands both for an      *)
(* invitation and for the session its acceptance created.                  *)
(***************************************************************************)
EXTENDS Naturals, FiniteSets

CONSTANTS
  Users,          \* the accounts
  Visits,         \* identities of invitations (and of their sessions)
  NoUser,         \* "no user" in a work item
  NoVisit,        \* "no visit" in a reservation or a work item
  RoomCapacity,   \* VisitSession.roomCapacity, 3 by default
  HostVisitors    \* MAX_CONCURRENT_HOST_VISITORS, 2

ASSUME NullsAssumption == NoUser \notin Users /\ NoVisit \notin Visits
ASSUME CapacityAssumption == RoomCapacity \in Nat \ {0, 1} /\ HostVisitors \in Nat
ASSUME FiniteUsers == IsFiniteSet(Users)

VARIABLES
  invitation,    \* VisitInvitation.status; a pending row past expiresAt is "lapsed"
  visitor,       \* visitorOwnerUserId of the invitation
  host,          \* hostUserId of the invitation
  session,       \* VisitSession.state, "none" before the invitation is accepted
  acks,          \* which of visitorOwnerReadyAt and hostReadyAt are set
  overdue,       \* the live sessions for which timeoutReason() gives a reason
  participant,   \* VisitSessionParticipant.state by session and user
  joinRequest,   \* statuses of the VisitJoinRequest rows of a session and user
  reservation,   \* VisitReservation, keyed by user
  friends,       \* the friendship rows, each as an ordered pair
  account,       \* accountStatus and deletionRequestedAt of the user
  published,     \* users whose active Companion can be sent on a visit
  revoking,      \* users whose Companion is unpublished and not yet revoked
  phase,         \* where the clean-up pass is
  todo,          \* rows a worker has read and not yet tried to claim
  owed,          \* what a worker still has to release for a row it claimed
  deleting,      \* what the deleteAccount transaction under way has read
  stranded       \* history: by session, guests whose reservation such a one missed

rowVars    == <<invitation, visitor, host, session, acks, overdue>>
roomVars   == <<participant, joinRequest, reservation>>
socialVars == <<friends, account, published>>
workVars   == <<revoking, phase, todo, owed, deleting, stranded>>
vars       == <<rowVars, roomVars, socialVars, workVars>>

-----------------------------------------------------------------------------
(* Types *)

Pending          == {"pending", "lapsed"}
InvitationStatus == Pending \cup {"none", "accepted", "declined", "cancelled", "expired"}
LiveState        == {"preparing", "ready", "active"}
TerminalState    == {"ended", "cancelled"}
SessionState     == LiveState \cup TerminalState \cup {"none"}
PresentState     == {"preparing", "ready", "active"}
ParticipantState == PresentState \cup {"none", "left"}
JoinStatus       == Pending \cup {"accepted", "declined", "cancelled", "expired"}
Workers          == {"cleanup", "request"}

NoReservation == [kind |-> "none", visit |-> NoVisit]
Reservation   == [kind  : {"outgoing", "participant", "join"}, visit : Visits]
                   \cup {NoReservation}

(* A row a worker has read: an invitation, a join request of a user, or a  *)
(* session with the state in which it was seen.                            *)
Item    == [visit : Visits, user : Users \cup {NoUser}, seen : {"lapsed"} \cup LiveState]
NoDebt  == [step |-> "none", visit |-> NoVisit, user |-> NoUser]
Debt    == [step : {"invitation", "join", "reservations", "participants"},
            visit : Visits, user : Users \cup {NoUser}] \cup {NoDebt}

(* affectedInvitations and affectedSessions, and who has asked to join one *)
(* of these since they were read                                           *)
AccountDeletion == [user : Users \cup {NoUser}, sent : SUBSET Visits, rooms : SUBSET Visits,
                    asked : SUBSET Users]
NoDeletion == [user |-> NoUser, sent |-> {}, rooms |-> {}, asked |-> {}]

TypeOK ==
  /\ invitation \in [Visits -> InvitationStatus]
  /\ visitor \in [Visits -> Users \cup {NoUser}]
  /\ host \in [Visits -> Users \cup {NoUser}]
  /\ session \in [Visits -> SessionState]
  /\ acks \in [Visits -> SUBSET {"owner", "host"}]
  /\ overdue \in SUBSET Visits
  /\ participant \in [Visits -> [Users -> ParticipantState]]
  /\ joinRequest \in [Visits -> [Users -> SUBSET JoinStatus]]
  /\ reservation \in [Users -> Reservation]
  /\ friends \in SUBSET (Users \X Users)
  /\ account \in [Users -> {"active", "suspended", "deleting"}]
  /\ published \in SUBSET Users
  /\ revoking \in SUBSET Users
  /\ phase \in {"idle", "invitations", "joins", "sessions"}
  /\ todo \in [Workers -> SUBSET Item]
  /\ owed \in [Workers -> Debt]
  /\ deleting \in AccountDeletion
  /\ stranded \in [Visits -> SUBSET Users]

-----------------------------------------------------------------------------
(* What the transactions look at *)

(* the row lock deleteAccount holds on the user to its end *)
Locked(u) == u = deleting.user

Live(i)    == session[i] \in LiveState
Present(i) == {u \in Users : participant[i][u] \in PresentState}

Joinable(i) == session[i] \in {"ready", "active"}

Outgoing(i)    == [kind |-> "outgoing", visit |-> i]
Participant(i) == [kind |-> "participant", visit |-> i]
Join(i)        == [kind |-> "join", visit |-> i]

(* assertEligible *)
Eligible(a, b) ==
  /\ <<a, b>> \in friends
  /\ <<b, a>> \in friends
  /\ account[a] = "active"
  /\ account[b] = "active"

EligibleWithRoom(u, i) == \A p \in Present(i) \ {u} : Eligible(u, p)

(* assertNoReservation *)
Unreserved(u) == reservation[u] = NoReservation

(* mutant: SESSION_LIVE without the preparing and ready sessions *)
VisitorOwnerNotActive(u) ==
  \A i \in Visits : session[i] = "active" => visitor[i] # u /\ host[i] # u

(* assertVisitorOwnerAvailable *)
VisitorOwnerAvailable(u) ==
  \A i \in Visits : Live(i) => visitor[i] # u /\ host[i] # u

(* assertHostCapacity *)
HostCapacity(u) ==
  /\ \A i \in Visits : Live(i) => visitor[i] # u
  /\ Cardinality({i \in Visits : Live(i) /\ host[i] = u}) < HostVisitors

(* mutant: one Companion too many *)
RoomHasStandingRoom(i) == Cardinality(Present(i)) <= RoomCapacity

RoomHasSeat(i) == Cardinality(Present(i)) < RoomCapacity

(* A session is ended from active and cancelled from any earlier state. *)
Terminated(s) == IF s = "active" THEN "ended" ELSE "cancelled"

(* mutant: the reservation is forgotten *)
DropOutgoingForgotten(S) == [u \in Users |-> reservation[u]]

(* deleteMany({ where: { invitationId } }) over a set of invitations *)
DropOutgoing(S) ==
  [u \in Users |-> IF reservation[u].kind = "outgoing" /\ reservation[u].visit \in S
                   THEN NoReservation ELSE reservation[u]]

(* mutant: only the reservations of join requests go *)
DropSessionJoins(S) ==
  [u \in Users |-> IF reservation[u].kind = "join" /\ reservation[u].visit \in S
                   THEN NoReservation ELSE reservation[u]]

(* deleteMany({ where: { sessionId } }) over a set of sessions *)
DropSession(S) ==
  [u \in Users |-> IF reservation[u].kind # "outgoing" /\ reservation[u].visit \in S
                   THEN NoReservation ELSE reservation[u]]

(* mutant: the reservation is forgotten *)
DropJoinForgotten(u, i) == reservation

(* the join request's reservation: deleteMany({ userId, joinRequestId }) *)
DropJoin(u, i) ==
  IF reservation[u] = Join(i) THEN [reservation EXCEPT ![u] = NoReservation]
                              ELSE reservation

(* every participant that has not left, leaves *)
Emptied(i) ==
  [u \in Users |-> IF participant[i][u] \in PresentState THEN "left" ELSE participant[i][u]]

EmptiedRooms(S) ==
  [i \in Visits |-> IF i \in S THEN Emptied(i) ELSE participant[i]]

(* markParticipantReady reads its participant row under the lock of the    *)
(* session, so one at a time in each room, and then writes "active"        *)
(* whatever has become of the row. Here is who may be waiting to do so in  *)
(* each room of S while a statement that locks no session empties it: that *)
(* row comes back to life behind it.                                       *)
Acknowledging(S) ==
  {back \in [Visits -> Users \cup {NoUser}] :
     \A i \in Visits : \/ back[i] = NoUser
                       \/ i \in S /\ participant[i][back[i]] \in {"preparing", "ready"}}

EmptiedBut(S, back) ==
  [i \in Visits |-> [u \in Users |-> IF u = back[i] THEN "active" ELSE EmptiedRooms(S)[i][u]]]

(* A status update that the unique index (sessionId, requesterUserId,      *)
(* status) admits.                                                         *)
JoinMoves(i, u, status) ==
  /\ joinRequest[i][u] \cap Pending # {}
  /\ status \notin joinRequest[i][u]
  /\ joinRequest' = [joinRequest EXCEPT ![i][u] = (@ \ Pending) \cup {status}]

(* A timestamp the time-out looks at was refreshed: the session may still  *)
(* be overdue for another reason.                                          *)
MayRefresh(i) == overdue' \in {overdue, overdue \ {i}}

-----------------------------------------------------------------------------
(* Requests on invitations *)

CreateInvitation(v, h, i) ==
  /\ invitation[i] = "none"
  /\ v # h
  /\ ~Locked(v) /\ ~Locked(h)
  /\ Eligible(v, h)
  /\ Unreserved(v)
  /\ VisitorOwnerAvailable(v)
  /\ v \in published
  /\ \A j \in Visits : ~(invitation[j] = "pending" /\ visitor[j] = v /\ host[j] = h)
  /\ invitation' = [invitation EXCEPT ![i] = "pending"]
  /\ visitor' = [visitor EXCEPT ![i] = v]
  /\ host' = [host EXCEPT ![i] = h]
  /\ reservation' = [reservation EXCEPT ![v] = Outgoing(i)]
  /\ UNCHANGED <<session, acks, overdue, participant, joinRequest, socialVars, workVars>>

(* the other pending invitations of the host that an acceptance displaces *)
Displaced(i) ==
  {j \in Visits \ {i} : invitation[j] \in Pending /\ host[j] = host[i]}

AcceptInvitation(i) ==
  LET v == visitor[i]
      h == host[i]
  IN  /\ invitation[i] = "pending"
      /\ ~Locked(v) /\ ~Locked(h)
      /\ Eligible(v, h)
      /\ reservation[v] = Outgoing(i)
      /\ Unreserved(h)
      /\ VisitorOwnerAvailable(v)
      /\ HostCapacity(h)
      /\ {v, h} \subseteq published
      /\ invitation' = [j \in Visits |-> IF j = i THEN "accepted"
                                         ELSE IF j \in Displaced(i) THEN "declined"
                                         ELSE invitation[j]]
      /\ session' = [session EXCEPT ![i] = "preparing"]
      /\ participant' = [participant EXCEPT ![i] =
                           [u \in Users |-> IF u \in {v, h} THEN "preparing" ELSE @[u]]]
      /\ reservation' = [u \in Users |-> IF u \in {v, h} THEN Participant(i)
                                         ELSE DropOutgoing(Displaced(i))[u]]
      /\ UNCHANGED <<visitor, host, acks, overdue, joinRequest, socialVars, workVars>>

(* accepting a lapsed invitation commits its expiry and then throws *)
AcceptLapsedInvitation(i) ==
  /\ invitation[i] = "lapsed"
  /\ ~Locked(visitor[i]) /\ ~Locked(host[i])
  /\ invitation' = [invitation EXCEPT ![i] = "expired"]
  /\ reservation' = DropOutgoing({i})
  /\ UNCHANGED <<visitor, host, session, acks, overdue, participant, joinRequest,
                 socialVars, workVars>>

(* declineInvitation and cancelInvitation; neither looks at expiresAt *)
RespondToInvitation(i, status) ==
  /\ invitation[i] \in Pending
  /\ invitation' = [invitation EXCEPT ![i] = status]
  /\ reservation' = DropOutgoing({i})
  /\ UNCHANGED <<visitor, host, session, acks, overdue, participant, joinRequest,
                 socialVars, workVars>>

-----------------------------------------------------------------------------
(* Requests on sessions *)

MarkReady(i, role) ==
  LET u == IF role = "owner" THEN visitor[i] ELSE host[i]
  IN  /\ session[i] = "preparing"
      /\ Eligible(visitor[i], host[i])
      /\ acks' = [acks EXCEPT ![i] = @ \cup {role}]
      /\ participant' = [participant EXCEPT ![i][u] = "ready"]
      /\ session' = IF acks[i] \cup {role} = {"owner", "host"}
                    THEN [session EXCEPT ![i] = "ready"] ELSE session
      /\ MayRefresh(i)
      /\ UNCHANGED <<invitation, visitor, host, joinRequest, reservation, socialVars, workVars>>

StartSession(i) ==
  /\ session[i] = "ready"
  /\ Eligible(visitor[i], host[i])
  /\ session' = [session EXCEPT ![i] = "active"]
  /\ participant' = [participant EXCEPT ![i] =
                       [u \in Users |-> IF @[u] = "ready" THEN "active" ELSE @[u]]]
  /\ MayRefresh(i)
  /\ UNCHANGED <<invitation, visitor, host, acks, joinRequest, reservation,
                 socialVars, workVars>>

(* endSessionInTransaction and then releaseSessionReservations, which runs *)
(* again when the session is already terminal                              *)
EndSession(i) ==
  /\ session[i] # "none"
  /\ session' = IF Live(i) THEN [session EXCEPT ![i] = Terminated(@)] ELSE session
  /\ overdue' = overdue \ {i}
  /\ reservation' = DropSession({i})
  /\ participant' = EmptiedRooms({i})
  /\ UNCHANGED <<invitation, visitor, host, acks, joinRequest, socialVars, workVars>>

(* appendTurn reaching the end of the last topic: VisitSocialService ends  *)
(* the room while all active participants may still talk to each other     *)
CompleteRoom(i) ==
  LET talking == {u \in Users : participant[i][u] = "active"}
  IN  /\ session[i] = "active"
      /\ talking # {}
      /\ \A a, b \in talking : a # b => Eligible(a, b)
      /\ session' = [session EXCEPT ![i] = "ended"]
      /\ overdue' = overdue \ {i}
      /\ reservation' = DropSession({i})
      /\ participant' = EmptiedRooms({i})
      /\ UNCHANGED <<invitation, visitor, host, acks, joinRequest, socialVars, workVars>>

(* only the owner's and the host's heartbeats count for the time-out *)
Heartbeat(i) ==
  /\ Live(i)
  /\ i \in overdue
  /\ \E u \in {visitor[i], host[i]} : EligibleWithRoom(u, i)
  /\ overdue' = overdue \ {i}
  /\ UNCHANGED <<invitation, visitor, host, session, acks, roomVars, socialVars, workVars>>

-----------------------------------------------------------------------------
(* Requests on rooms *)

CreateJoinRequest(u, i) ==
  /\ ~Locked(u)
  /\ Joinable(i)
  /\ u \notin Present(i)
  /\ RoomHasSeat(i)
  /\ Unreserved(u)
  /\ EligibleWithRoom(u, i)
  /\ account[u] = "active"
  /\ u \in published
  /\ joinRequest[i][u] \cap Pending = {}
  /\ joinRequest' = [joinRequest EXCEPT ![i][u] = @ \cup {"pending"}]
  /\ reservation' = [reservation EXCEPT ![u] = Join(i)]
  /\ deleting' = IF i \in deleting.rooms THEN [deleting EXCEPT !.asked = @ \cup {u}] ELSE deleting
  /\ UNCHANGED <<rowVars, participant, socialVars, revoking, phase, todo, owed, stranded>>

(* A participant row is never deleted while its session exists, so the     *)
(* unique index (sessionId, userId) refuses a user that has left. A lapsed *)
(* request is refused too: the branch that expires it throws inside the    *)
(* transaction and is rolled back.                                         *)
AcceptJoinRequest(u, i) ==
  /\ "pending" \in joinRequest[i][u]
  /\ ~Locked(u) /\ ~Locked(host[i])
  /\ Joinable(i)
  /\ RoomHasSeat(i)
  /\ \A p \in Present(i) : Eligible(u, p)
  /\ reservation[u] = Join(i)
  /\ participant[i][u] = "none"
  /\ JoinMoves(i, u, "accepted")
  /\ participant' = [participant EXCEPT ![i][u] = "preparing"]
  /\ reservation' = [reservation EXCEPT ![u] = Participant(i)]
  /\ UNCHANGED <<rowVars, socialVars, workVars>>

RespondJoinRequest(u, i, status) ==
  /\ JoinMoves(i, u, status)
  /\ reservation' = DropJoin(u, i)
  /\ UNCHANGED <<rowVars, participant, socialVars, workVars>>

(* the session's state is not looked at *)
MarkParticipantReady(u, i) ==
  /\ participant[i][u] \in {"preparing", "ready"}
  /\ participant' = [participant EXCEPT ![i][u] = "active"]
  /\ UNCHANGED <<rowVars, joinRequest, reservation, socialVars, workVars>>

(* mutant: VISIT_HOST_MUST_END_ROOM is not raised *)
AnyoneMayLeave(u, i) == TRUE

(* the host must end the room instead *)
MayLeave(u, i) == host[i] # u

LeaveRoom(u, i) ==
  /\ participant[i][u] \in PresentState
  /\ MayLeave(u, i)
  /\ participant' = [participant EXCEPT ![i][u] = "left"]
  /\ reservation' = IF reservation[u] \in {Participant(i), Join(i)}
                    THEN [reservation EXCEPT ![u] = NoReservation] ELSE reservation
  /\ UNCHANGED <<rowVars, joinRequest, socialVars, workVars>>

-----------------------------------------------------------------------------
(* Time: the TTLs and time-outs run out at any moment *)

InvitationLapses(i) ==
  /\ invitation[i] = "pending"
  /\ invitation' = [invitation EXCEPT ![i] = "lapsed"]
  /\ UNCHANGED <<visitor, host, session, acks, overdue, roomVars, socialVars, workVars>>

JoinRequestLapses(u, i) ==
  /\ "pending" \in joinRequest[i][u]
  /\ joinRequest' = [joinRequest EXCEPT ![i][u] = (@ \ {"pending"}) \cup {"lapsed"}]
  /\ UNCHANGED <<rowVars, participant, reservation, socialVars, workVars>>

SessionOverdue(i) ==
  /\ Live(i)
  /\ i \notin overdue
  /\ overdue' = overdue \cup {i}
  /\ UNCHANGED <<invitation, visitor, host, session, acks, roomVars, socialVars, workVars>>

-----------------------------------------------------------------------------
(* The workers: cleanupExpiredAndTimedOut, and endSessionsBetween on       *)
(* behalf of removeFriend and blockUser                                    *)

Idle(w) == todo[w] = {} /\ owed[w] = NoDebt

SeenSessions(S) == {[visit |-> i, user |-> NoUser, seen |-> session[i]] : i \in S}

(* cleanupRunning refuses a second pass *)
CleanupStart ==
  /\ phase = "idle"
  /\ phase' = "invitations"
  /\ todo' = [todo EXCEPT !["cleanup"] =
                {[visit |-> i, user |-> NoUser, seen |-> "lapsed"] :
                   i \in {j \in Visits : invitation[j] = "lapsed"}}]
  /\ UNCHANGED <<rowVars, roomVars, socialVars, revoking, owed, deleting, stranded>>

CleanupInvitation(item) ==
  /\ phase = "invitations"
  /\ owed["cleanup"] = NoDebt
  /\ item \in todo["cleanup"]
  /\ todo' = [todo EXCEPT !["cleanup"] = @ \ {item}]
  /\ IF invitation[item.visit] = "lapsed"
     THEN /\ invitation' = [invitation EXCEPT ![item.visit] = "expired"]
          /\ owed' = [owed EXCEPT !["cleanup"] =
                        [step |-> "invitation", visit |-> item.visit, user |-> NoUser]]
     ELSE UNCHANGED <<invitation, owed>>
  /\ UNCHANGED <<visitor, host, session, acks, overdue, roomVars, socialVars, revoking, phase,
                 deleting, stranded>>

CleanupToJoins ==
  /\ phase = "invitations"
  /\ Idle("cleanup")
  /\ phase' = "joins"
  /\ todo' = [todo EXCEPT !["cleanup"] =
                {[visit |-> p[1], user |-> p[2], seen |-> "lapsed"] :
                   p \in {q \in Visits \X Users : "lapsed" \in joinRequest[q[1]][q[2]]}}]
  /\ UNCHANGED <<rowVars, roomVars, socialVars, revoking, owed, deleting, stranded>>

CleanupJoin(item) ==
  /\ phase = "joins"
  /\ owed["cleanup"] = NoDebt
  /\ item \in todo["cleanup"]
  /\ todo' = [todo EXCEPT !["cleanup"] = @ \ {item}]
  /\ IF "lapsed" \in joinRequest[item.visit][item.user]
     THEN /\ JoinMoves(item.visit, item.user, "expired")
          /\ owed' = [owed EXCEPT !["cleanup"] =
                        [step |-> "join", visit |-> item.visit, user |-> item.user]]
     ELSE UNCHANGED <<joinRequest, owed>>
  /\ UNCHANGED <<rowVars, participant, reservation, socialVars, revoking, phase,
                 deleting, stranded>>

(* mutant: only session_timeout, no preparation_timeout *)
TimedOutActive == {i \in Visits : session[i] = "active" /\ i \in overdue}

(* the live sessions for which timeoutReason() gives a reason *)
TimedOut == {i \in Visits : Live(i) /\ i \in overdue}

CleanupToSessions ==
  /\ phase = "joins"
  /\ Idle("cleanup")
  /\ phase' = "sessions"
  /\ todo' = [todo EXCEPT !["cleanup"] =
                SeenSessions(TimedOut)]
  /\ UNCHANGED <<rowVars, roomVars, socialVars, revoking, owed, deleting, stranded>>

CleanupEnds ==
  /\ phase = "sessions"
  /\ Idle("cleanup")
  /\ phase' = "idle"
  /\ UNCHANGED <<rowVars, roomVars, socialVars, revoking, todo, owed, deleting, stranded>>

(* mutant: the claim does not compare the state *)
ClaimUnconditionally(item) == TRUE

(* updateMany({ where: { id, state: <the state read earlier> } }) *)
StillAsSeen(item) == session[item.visit] = item.seen

ClaimSession(w, item) ==
  /\ w = "cleanup" => phase = "sessions"
  /\ owed[w] = NoDebt
  /\ item \in todo[w]
  /\ todo' = [todo EXCEPT ![w] = @ \ {item}]
  /\ IF StillAsSeen(item)
     THEN /\ session' = [session EXCEPT ![item.visit] = Terminated(@)]
          /\ overdue' = overdue \ {item.visit}
          /\ owed' = [owed EXCEPT ![w] =
                        [step |-> "reservations", visit |-> item.visit, user |-> NoUser]]
     ELSE UNCHANGED <<session, overdue, owed>>
  /\ UNCHANGED <<invitation, visitor, host, acks, roomVars, socialVars, revoking, phase,
                 deleting, stranded>>

(* the statement that follows a successful claim *)
PayDebt(w) ==
  LET d == owed[w]
  IN  /\ d # NoDebt
      /\ reservation' = CASE d.step = "invitation"   -> DropOutgoing({d.visit})
                          [] d.step = "join"         -> DropJoin(d.user, d.visit)
                          [] d.step = "reservations" -> DropSession({d.visit})
                          [] OTHER                   -> reservation
      /\ \/ d.step = "participants" /\ \E back \in Acknowledging({d.visit}) :
                                         participant' = EmptiedBut({d.visit}, back)
         \/ d.step # "participants" /\ UNCHANGED participant
      /\ owed' = [owed EXCEPT ![w] = IF d.step = "reservations"
                                     THEN [d EXCEPT !.step = "participants"] ELSE NoDebt]
      /\ UNCHANGED <<rowVars, joinRequest, socialVars, revoking, phase, todo, deleting, stranded>>

-----------------------------------------------------------------------------
(* What else happens to the people in a visit *)

(* removeFriend and blockUser: the friendship rows go, and the live        *)
(* sessions on the route are read for the request worker to end            *)
SeverFriendship(a, b) ==
  /\ <<a, b>> \in friends
  /\ Idle("request")
  /\ friends' = friends \ {<<a, b>>, <<b, a>>}
  /\ todo' = [todo EXCEPT !["request"] =
                SeenSessions({i \in Visits : Live(i) /\ {visitor[i], host[i]} = {a, b}})]
  /\ UNCHANGED <<rowVars, roomVars, account, published, revoking, phase, owed,
                 deleting, stranded>>

(* acceptFriendRequest creates both rows between active accounts *)
Befriend(a, b) ==
  /\ a # b
  /\ <<a, b>> \notin friends
  /\ ~Locked(a) /\ ~Locked(b)
  /\ account[a] = "active" /\ account[b] = "active"
  /\ friends' = friends \cup {<<a, b>>, <<b, a>>}
  /\ UNCHANGED <<rowVars, roomVars, account, published, workVars>>

(* setAccountStatus; visits are left as they are *)
SuspendAccount(u) ==
  /\ account[u] = "active" /\ ~Locked(u)
  /\ account' = [account EXCEPT ![u] = "suspended"]
  /\ UNCHANGED <<rowVars, roomVars, friends, published, workVars>>

RestoreAccount(u) ==
  /\ account[u] = "suspended" /\ ~Locked(u)
  /\ account' = [account EXCEPT ![u] = "active"]
  /\ UNCHANGED <<rowVars, roomVars, friends, published, workVars>>

Publish(u) ==
  /\ account[u] = "active"
  /\ u \notin published
  /\ published' = published \cup {u}
  /\ UNCHANGED <<rowVars, roomVars, friends, account, workVars>>

(* unpublish by the owner is refused while the Companion is reserved *)
Unpublish(u) ==
  /\ Unreserved(u)
  /\ account[u] = "active"
  /\ published' = published \ {u}
  /\ revoking' = revoking \cup {u}
  /\ UNCHANGED <<rowVars, roomVars, friends, account, phase, todo, owed, deleting, stranded>>

(* unpublish by an administrator is not, nor is one by the owner whose     *)
(* look at the reservation came too early                                  *)
AdminUnpublish(u) ==
  /\ published' = published \ {u}
  /\ revoking' = revoking \cup {u}
  /\ UNCHANGED <<rowVars, roomVars, friends, account, phase, todo, owed, deleting, stranded>>

(* The transaction that follows either of them. Its claims name the state  *)
(* it read, so a request that commits in between makes one miss: that      *)
(* window is the subject of VisitSevering.                                 *)
RevokeCompanionVisits(u) ==
  LET sent  == {i \in Visits : invitation[i] \in Pending /\ visitor[i] = u}
      rooms == {i \in Visits : Live(i) /\ visitor[i] = u}
  IN  /\ u \in revoking
      /\ revoking' = revoking \ {u}
      /\ invitation' = [i \in Visits |-> IF i \in sent THEN "cancelled" ELSE invitation[i]]
      /\ session' = [i \in Visits |-> IF i \in rooms THEN Terminated(session[i])
                                                     ELSE session[i]]
      /\ overdue' = overdue \ rooms
      /\ reservation' = [p \in Users |-> IF DropOutgoing(sent)[p] = NoReservation
                                         THEN NoReservation ELSE DropSession(rooms)[p]]
      /\ participant' = EmptiedRooms(rooms)
      /\ UNCHANGED <<visitor, host, acks, joinRequest, socialVars, phase, todo, owed,
                     deleting, stranded>>

(* deleteAccount locks the user and reads. One deletion at a time.         *)
BeginDeletion(u) ==
  /\ deleting = NoDeletion
  /\ account[u] # "deleting"
  /\ deleting' =
       [user  |-> u,
        sent  |-> {i \in Visits : invitation[i] \in Pending /\ u \in {visitor[i], host[i]}},
        rooms |-> {i \in Visits : Live(i) /\ u \in {visitor[i], host[i]} \cup Present(i)},
        asked |-> {}]
  /\ UNCHANGED <<rowVars, roomVars, socialVars, revoking, phase, todo, owed, stranded>>

(* Rooms in which the user is a guest: nothing in them is locked.          *)
GuestRooms == {i \in deleting.rooms : deleting.user \notin {visitor[i], host[i]}}

(* who has a reservation for such a room that is younger than the reading  *)
Latecomers ==
  {p \in deleting.asked : \E i \in GuestRooms : reservation[p] \in {Join(i), Participant(i)}}

(***************************************************************************)
(* deleteAccount's statements, which take effect when it commits. Sessions *)
(* on which the user is visitor or host are ended; the rooms in which the  *)
(* user was a guest stay live, but everybody leaves them. The statement    *)
(* that deletes the reservations comes before the one that empties the     *)
(* rooms: a guest who asked and was let in between the two (one of late)   *)
(* keeps a reservation for a room it was made to leave. Join requests move *)
(* to "cancelled", which the unique index may refuse.                      *)
(***************************************************************************)
DeleteAccount(late, back) ==
  LET u    == deleting.user
      sent == {i \in Visits : invitation[i] \in Pending /\ u \in {visitor[i], host[i]}}
      own  == {i \in Visits : Live(i) /\ u \in {visitor[i], host[i]}}
  IN  /\ deleting # NoDeletion
      /\ \A i \in Visits : joinRequest[i][u] \cap Pending # {} => "cancelled" \notin joinRequest[i][u]
      /\ account' = [account EXCEPT ![u] = "deleting"]
      /\ published' = published \ {u}
      /\ invitation' = [i \in Visits |-> IF i \in sent THEN "cancelled" ELSE invitation[i]]
      /\ session' = [i \in Visits |-> IF i \in own THEN Terminated(session[i]) ELSE session[i]]
      /\ overdue' = overdue \ own
      /\ reservation' = [p \in Users |->
                           IF p = u \/ DropOutgoing(deleting.sent)[p] = NoReservation
                           THEN NoReservation
                           ELSE IF p \in late THEN reservation[p]
                           ELSE DropSession(deleting.rooms)[p]]
      /\ participant' = EmptiedBut(deleting.rooms, back)
      /\ joinRequest' = [i \in Visits |-> [joinRequest[i] EXCEPT ![u] =
                           IF @ \cap Pending # {} THEN (@ \ Pending) \cup {"cancelled"} ELSE @]]
      /\ stranded' = [i \in Visits |-> stranded[i] \cup
                         {p \in late : /\ i \in GuestRooms
                                       /\ reservation[p] = Participant(i)
                                       /\ back[i] # p}]
      /\ deleting' = NoDeletion
      /\ UNCHANGED <<visitor, host, acks, friends, revoking, phase, todo, owed>>

(* a deadlock, a time-out, the unique index: nothing of it happens         *)
RollBackDeletion ==
  /\ deleting # NoDeletion
  /\ deleting' = NoDeletion
  /\ UNCHANGED <<rowVars, roomVars, socialVars, revoking, phase, todo, owed, stranded>>

-----------------------------------------------------------------------------
(* Interventions that end a row and release nothing *)

(* endVisitSession of the admin API *)
AdminEndSession(i) ==
  /\ Live(i)
  /\ session' = [session EXCEPT ![i] = Terminated(@)]
  /\ overdue' = overdue \ {i}
  /\ UNCHANGED <<invitation, visitor, host, acks, roomVars, socialVars, workVars>>

(* reconcileVisitSession: the same for a session without recent activity *)
AdminReconcileSession(i) == i \in overdue /\ AdminEndSession(i)

(* cancelVisitInvitation of the admin API *)
AdminCancelInvitation(i) ==
  /\ invitation[i] \in Pending
  /\ invitation' = [invitation EXCEPT ![i] = "cancelled"]
  /\ UNCHANGED <<visitor, host, session, acks, overdue, roomVars, socialVars, workVars>>

(* The process dies: rows stay, work in progress is lost. *)
Crash ==
  /\ phase' = "idle"
  /\ todo' = [w \in Workers |-> {}]
  /\ owed' = [w \in Workers |-> NoDebt]
  /\ revoking' = {}
  /\ deleting' = NoDeletion
  /\ UNCHANGED <<rowVars, roomVars, socialVars, stranded>>

(* The clean-up expires a second request of a user for a room: the unique  *)
(* index raises, and the rejection nobody handles ends the process.        *)
CleanupJoinConflict(item) ==
  /\ phase = "joins"
  /\ owed["cleanup"] = NoDebt
  /\ item \in todo["cleanup"]
  /\ {"lapsed", "expired"} \subseteq joinRequest[item.visit][item.user]
  /\ Crash

-----------------------------------------------------------------------------
(* The specification *)

Init ==
  /\ invitation = [i \in Visits |-> "none"]
  /\ visitor = [i \in Visits |-> NoUser]
  /\ host = [i \in Visits |-> NoUser]
  /\ session = [i \in Visits |-> "none"]
  /\ acks = [i \in Visits |-> {}]
  /\ overdue = {}
  /\ participant = [i \in Visits |-> [u \in Users |-> "none"]]
  /\ joinRequest = [i \in Visits |-> [u \in Users |-> {}]]
  /\ reservation = [u \in Users |-> NoReservation]
  /\ friends = {p \in Users \X Users : p[1] # p[2]}
  /\ account = [u \in Users |-> "active"]
  /\ published = Users
  /\ revoking = {}
  /\ phase = "idle"
  /\ todo = [w \in Workers |-> {}]
  /\ owed = [w \in Workers |-> NoDebt]
  /\ deleting = NoDeletion
  /\ stranded = [i \in Visits |-> {}]

InvitationRequests ==
  \E i \in Visits :
    \/ \E v, h \in Users : CreateInvitation(v, h, i)
    \/ AcceptInvitation(i)
    \/ AcceptLapsedInvitation(i)
    \/ \E status \in {"declined", "cancelled"} : RespondToInvitation(i, status)

SessionRequests ==
  \E i \in Visits :
    \/ \E role \in {"owner", "host"} : MarkReady(i, role)
    \/ StartSession(i)
    \/ EndSession(i)
    \/ CompleteRoom(i)
    \/ Heartbeat(i)

JoinRequests == \E i \in Visits, u \in Users : CreateJoinRequest(u, i)

RoomRequests ==
  \E i \in Visits, u \in Users :
    \/ AcceptJoinRequest(u, i)
    \/ \E status \in {"declined", "cancelled"} : RespondJoinRequest(u, i, status)
    \/ MarkParticipantReady(u, i)
    \/ LeaveRoom(u, i)

Time ==
  \E i \in Visits :
    \/ InvitationLapses(i)
    \/ \E u \in Users : JoinRequestLapses(u, i)
    \/ SessionOverdue(i)

CleanupPass ==
  \/ CleanupStart
  \/ \E item \in todo["cleanup"] : CleanupInvitation(item) \/ CleanupJoin(item)
  \/ CleanupToJoins
  \/ CleanupToSessions
  \/ \E item \in todo["cleanup"] : ClaimSession("cleanup", item)
  \/ PayDebt("cleanup")
  \/ CleanupEnds

RequestSweep ==
  \/ \E item \in todo["request"] : ClaimSession("request", item)
  \/ PayDebt("request")

(* what users ask for and what the service does of its own accord *)
Service == InvitationRequests \/ SessionRequests \/ RoomRequests
             \/ CleanupPass \/ RequestSweep \/ \E u \in Users : RevokeCompanionVisits(u)

Everyday == Service \/ JoinRequests \/ Time

(* changes of friendships, accounts and Companions *)
Social ==
  \/ \E a, b \in Users : SeverFriendship(a, b) \/ Befriend(a, b)
  \/ \E u \in Users : \/ SuspendAccount(u) \/ RestoreAccount(u)
                      \/ Publish(u) \/ Unpublish(u) \/ AdminUnpublish(u)

DeletionRequests == \E u \in Users : BeginDeletion(u)

DeletionEnds ==
  \/ \E late \in SUBSET Latecomers, back \in Acknowledging(GuestRooms) : DeleteAccount(late, back)
  \/ RollBackDeletion

Deletion == DeletionRequests \/ DeletionEnds

(* operations that end a row without releasing what it holds *)
Leaks ==
  \/ \E i \in Visits : \/ AdminEndSession(i)
                       \/ AdminReconcileSession(i)
                       \/ AdminCancelInvitation(i)
  \/ Crash

CleanupConflict == \E item \in todo["cleanup"] : CleanupJoinConflict(item)

Next == Everyday \/ Social \/ Deletion \/ Leaks \/ CleanupConflict

Spec == Init /\ [][Next]_vars

(* The same system when no account is deleted, and when nothing leaks. *)
SteadySpec  == Init /\ [][Everyday \/ Social \/ Leaks \/ CleanupConflict]_vars
CarefulSpec == Init /\ [][Everyday \/ Social \/ Deletion]_vars

-----------------------------------------------------------------------------
(* Properties *)

(* Whatever is pending is held: a pending invitation keeps its visitor     *)
(* owner reserved for that very invitation, so a user has at most one      *)
(* invitation out and acceptInvitation finds the reservation it requires.  *)
PendingIsReserved ==
  \A i \in Visits : invitation[i] \in Pending => reservation[visitor[i]] = Outgoing(i)

(* A reservation never points at a visit its user has no part in: an       *)
(* outgoing one belongs to the visitor owner, a participant one to someone *)
(* present in the room. In particular every path that empties a room drops *)
(* the reservations first. The exception is a guest let into a room while  *)
(* another guest's account was deleted, between deleteAccount's statement  *)
(* on the reservations and the one on the participants: it is out of the   *)
(* room and stays reserved for it.                                         *)
ReservationHasPart ==
  \A u \in Users, i \in Visits :
    /\ reservation[u] = Outgoing(i) => visitor[i] = u
    /\ reservation[u] = Participant(i) => u \in Present(i) \cup stranded[i]

(* assertVisitorOwnerAvailable and assertHostCapacity together: the        *)
(* visitor owner of a live session is neither visitor owner nor host of    *)
(* another, in spite of reservations dropped early and of leaks.           *)
VisitorOwnerInOneSession ==
  \A i, j \in Visits : Live(i) /\ Live(j) /\ i # j => visitor[i] \notin {visitor[j], host[j]}

(* The contract's "one non-terminal session per participant": nobody is    *)
(* present in two live rooms.                                              *)
OneRoomPerParticipant ==
  \A i, j \in Visits : Live(i) /\ Live(j) /\ i # j => Present(i) \cap Present(j) = {}

(* A room never holds more Companions than roomCapacity, whatever the      *)
(* order in which guests join and visitors leave and come back.            *)
RoomWithinCapacity ==
  \A i \in Visits : session[i] # "none" => Cardinality(Present(i)) <= RoomCapacity

(* A session exists exactly for an accepted invitation, it is ready only   *)
(* when both sides acknowledged, and guests are in it only from then on.   *)
SessionCoherent ==
  \A i \in Visits :
    /\ session[i] # "none" <=> invitation[i] = "accepted"
    /\ session[i] \in {"ready", "active"} => acks[i] = {"owner", "host"}
    /\ session[i] = "preparing" =>
         \A u \in Users : participant[i][u] # "none" => u \in {visitor[i], host[i]}

(* While a room is live its host sits in it and is reserved for it (as     *)
(* VISIT_HOST_MUST_END_ROOM promises), so a host has one room at a time.   *)
HostHoldsRoom ==
  \A i \in Visits : Live(i) =>
    /\ participant[i][host[i]] \in PresentState
    /\ reservation[host[i]] = Participant(i)

(* Every reservation stands for a pending invitation or request or a live  *)
(* session, or a worker is about to delete it: "one user-keyed reservation *)
(* from invitation creation through room completion".                      *)
Releasing(step, i, u) ==
  \E w \in Workers : owed[w] = [step |-> step, visit |-> i, user |-> u]

Current(u, i) ==
  /\ reservation[u] = Outgoing(i) =>
       invitation[i] \in Pending \/ Releasing("invitation", i, NoUser)
  /\ reservation[u] = Join(i) =>
       joinRequest[i][u] \cap Pending # {} \/ Releasing("join", i, u)
  /\ reservation[u] = Participant(i) =>
       Live(i) \/ Releasing("reservations", i, NoUser)

ReservationIsCurrent == \A u \in Users, i \in Visits : Current(u, i)

(* Sessions and invitations only move forward: no stale claim of a worker  *)
(* and no late request reopens a terminal row or steps a session back.     *)
Rank(s) == CASE s = "none" -> 0 [] s = "preparing" -> 1 [] s = "ready" -> 2
             [] s = "active" -> 3 [] OTHER -> 4

OnlyForward ==
  [][\A i \in Visits :
       /\ session'[i] # session[i] => Rank(session[i]) < Rank(session'[i])
       /\ invitation[i] \notin Pending \cup {"none"} => invitation'[i] = invitation[i]]_vars

(* Nobody enters a room that is over: neither a join request accepted      *)
(* late, nor markReady, which revives a row marked "left", nor             *)
(* markParticipantReady, which does not look at the session.               *)
NoEntryAfterEnd ==
  [][\A i \in Visits : session[i] \in TerminalState =>
       \A u \in Users : u \notin Present(i) => participant'[i][u] = participant[i][u]]_vars

(* Clean-up "expires pending invitations": once an invitation has lapsed,  *)
(* its visitor owner is eventually free of the reservation it held.        *)
LapsedInvitationFreesVisitor ==
  \A i \in Visits :
    invitation[i] = "lapsed" ~>
      /\ invitation[i] \notin Pending
      /\ \A u \in Users : reservation[u] # Outgoing(i)

(* Clean-up "ends timed-out sessions": an overdue session is eventually    *)
(* ended, unless it stops being overdue.                                   *)
OverdueSessionEnds ==
  \A i \in Visits : (Live(i) /\ i \in overdue) ~> ~(Live(i) /\ i \in overdue)

=============================================================================
