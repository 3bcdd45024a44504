------------------------- MODULE VisitRoomsInvariant -------------------------
(***************************************************************************)
(* The inductive invariant of VisitRooms, preserved by every request, by   *)
(* every statement of the workers and by every leak and crash, for any     *)
(* number of users and visits.                                             *)
(* The safety properties are not inductive on their own. They need to know *)
(* who is on the route of an invitation, that a room is empty before its   *)
(* session exists, and above all what the workers have already done when   *)
(* they are interrupted between two statements: a debt for an invitation   *)
(* is due to an expired one, a debt for a session to a terminal one, and   *)
(* by the time participants are sent away nobody holds a reservation for   *)
(* the room.                                                               *)
(***************************************************************************)
EXTENDS VisitRooms, TLAPS

(* The visitor owner and the host are set when the invitation is created   *)
(* and are two different users.                                            *)
RouteKnown ==
  \A i \in Visits :
    IF invitation[i] = "none" THEN visitor[i] = NoUser
    ELSE visitor[i] \in Users /\ host[i] \in Users /\ visitor[i] # host[i]

(* No participant row exists before acceptInvitation creates the session.  *)
EmptyBeforeSession ==
  \A i \in Visits : session[i] = "none" => \A u \in Users : participant[i][u] = "none"

(* What a worker still owes after a successful claim is consistent with    *)
(* the claim it made, however late it comes to pay.                        *)
DebtsAreDue ==
  \A w \in Workers :
    /\ owed[w].step = "invitation" => invitation[owed[w].visit] = "expired"
    /\ owed[w].step \in {"reservations", "participants"} =>
         session[owed[w].visit] \in TerminalState
    /\ owed[w].step = "participants" =>
         \A u \in Users : reservation[u] # Participant(owed[w].visit)

(* What deleteAccount has read stays enough for what it is about to        *)
(* commit: the lock on the user keeps new invitations and sessions with it *)
(* on the route from appearing, so every one still open is among those     *)
(* read, and those read are on its route.                                  *)
DeletionAware ==
  /\ deleting # NoDeletion => deleting.user \in Users
  /\ deleting.user \in Users => \A i \in Visits :
       /\ deleting.user \in {visitor[i], host[i]} =>
            /\ invitation[i] \in Pending => i \in deleting.sent
            /\ Live(i) => i \in deleting.rooms
       /\ i \in deleting.sent =>
            invitation[i] # "none" /\ deleting.user \in {visitor[i], host[i]}

(* The inductive invariant.                                                *)
IInv ==
  /\ TypeOK
  /\ RouteKnown
  /\ EmptyBeforeSession
  /\ SessionCoherent
  /\ VisitorOwnerInOneSession
  /\ PendingIsReserved
  /\ ReservationHasPart
  /\ DebtsAreDue
  /\ DeletionAware

USE DEF rowVars, roomVars, socialVars, workVars,
        Pending, LiveState, TerminalState, PresentState, Workers

(* Reservations of different kinds, or for different visits, differ: the   *)
(* unique userId makes a user hold one of them at most.                    *)
LEMMA Kinds ==
  ASSUME NEW i \in Visits, NEW j \in Visits
  PROVE  /\ NoReservation \notin {Outgoing(i), Participant(i), Join(i)}
         /\ Outgoing(i) \notin {Participant(j), Join(j)}
         /\ Participant(i) # Join(j)
         /\ Outgoing(i) = Outgoing(j) => i = j
         /\ Participant(i) = Participant(j) => i = j
         /\ Join(i) = Join(j) => i = j
  BY DEF Outgoing, Participant, Join, NoReservation

(* What deleteMany by invitationId and by sessionId leave behind.          *)
LEMMA Dropped ==
  ASSUME NEW S, NEW p \in Users, NEW i \in Visits
  PROVE  /\ DropOutgoing(S)[p] \in {reservation[p], NoReservation}
         /\ DropSession(S)[p] \in {reservation[p], NoReservation}
         /\ i \in S => /\ DropOutgoing(S)[p] # Outgoing(i)
                       /\ DropSession(S)[p] \notin {Participant(i), Join(i)}
         /\ i \notin S => /\ reservation[p] = Outgoing(i) => DropOutgoing(S)[p] = reservation[p]
                          /\ reservation[p] \in {Participant(i), Join(i)} =>
                               DropSession(S)[p] = reservation[p]
         /\ reservation[p] = Outgoing(i) => DropSession(S)[p] = reservation[p]
         /\ reservation[p] \in {Participant(i), Join(i)} => DropOutgoing(S)[p] = reservation[p]
  BY Kinds DEF DropOutgoing, DropSession, Outgoing, Participant, Join,
         NoReservation

(* What deleteMany by joinRequestId leaves behind.                         *)
LEMMA DroppedJoin ==
  ASSUME TypeOK, NEW u, NEW i, NEW p \in Users
  PROVE  /\ DropJoin(u, i)[p] \in {reservation[p], NoReservation}
         /\ reservation[p] # Join(i) => DropJoin(u, i)[p] = reservation[p]
         /\ i \in Visits => DropJoin(p, i)[p] # Join(i)
  BY Kinds DEF DropJoin, TypeOK

(* What an emptied room looks like when markParticipantReady is waiting on *)
(* some of its rows: nobody is new in it, and those rows are active.       *)
LEMMA RoomEmptied ==
  ASSUME TypeOK, NEW S \in SUBSET Visits, NEW back \in Acknowledging(S),
         NEW i \in Visits, NEW p \in Users
  PROVE  /\ EmptiedBut(S, back)[i][p] \in ParticipantState
         /\ EmptiedBut(S, back)[i][p] = "none" <=> participant[i][p] = "none"
         /\ EmptiedBut(S, back)[i][p] \in PresentState => participant[i][p] \in PresentState
         /\ p = back[i] => i \in S /\ EmptiedBut(S, back)[i][p] = "active"
         /\ i \notin S => EmptiedBut(S, back)[i][p] = participant[i][p]
<1>1. EmptiedBut(S, back)[i][p] = IF p = back[i] THEN "active" ELSE EmptiedRooms(S)[i][p]
  BY DEF EmptiedBut
<1>2. p = back[i] => i \in S /\ participant[i][p] \in {"preparing", "ready"}
  BY NullsAssumption DEF Acknowledging
<1>3. EmptiedRooms(S)[i][p] = IF i \in S /\ participant[i][p] \in PresentState
                              THEN "left" ELSE participant[i][p]
  BY DEF EmptiedRooms, Emptied, TypeOK
<1>4. participant[i][p] \in ParticipantState
  BY DEF TypeOK
<1> QED
  BY <1>1, <1>2, <1>3, <1>4 DEF ParticipantState

(* When no deletion is under way, deleting is well typed.                  *)
LEMMA NoneIsDeletion == NoDeletion \in AccountDeletion
  BY DEF NoDeletion, AccountDeletion

(* Every step keeps the state well typed.                                  *)
LEMMA TypeStep == TypeOK /\ Next => TypeOK'
<1> SUFFICES ASSUME TypeOK, Next PROVE TypeOK'
  OBVIOUS
<1> USE NullsAssumption
    DEF TypeOK, InvitationStatus, SessionState, ParticipantState, JoinStatus, Reservation,
        Item, Debt, NoDebt,
        NoReservation, Outgoing, Participant, Join, DropOutgoing, DropSession, DropJoin,
        Live, Present, Joinable, Unreserved, Terminated,
        Emptied, EmptiedRooms, JoinMoves, MayRefresh
<1>1. ASSUME NEW v \in Users, NEW h \in Users, NEW i \in Visits, CreateInvitation(v, h, i)
      PROVE  TypeOK'
  BY <1>1 DEF CreateInvitation
<1>2. ASSUME NEW i \in Visits, AcceptInvitation(i) PROVE TypeOK'
  BY <1>2 DEF AcceptInvitation, Displaced
<1>3. ASSUME NEW i \in Visits, AcceptLapsedInvitation(i) PROVE TypeOK'
  BY <1>3 DEF AcceptLapsedInvitation
<1>4. ASSUME NEW i \in Visits, NEW status \in {"declined", "cancelled"}, RespondToInvitation(i, status)
      PROVE  TypeOK'
  BY <1>4 DEF RespondToInvitation
<1>5. ASSUME NEW i \in Visits, NEW role \in {"owner", "host"}, MarkReady(i, role)
      PROVE  TypeOK'
  BY <1>5 DEF MarkReady
<1>6. ASSUME NEW i \in Visits, StartSession(i) PROVE TypeOK'
  BY <1>6 DEF StartSession
<1>7. ASSUME NEW i \in Visits, EndSession(i) PROVE TypeOK'
  BY <1>7 DEF EndSession
<1>8. ASSUME NEW i \in Visits, CompleteRoom(i) PROVE TypeOK'
  BY <1>8 DEF CompleteRoom
<1>9. ASSUME NEW i \in Visits, Heartbeat(i) PROVE TypeOK'
  BY <1>9 DEF Heartbeat
<1>10. ASSUME NEW u \in Users, NEW i \in Visits, CreateJoinRequest(u, i)
       PROVE  TypeOK'
  <2>1. deleting' \in AccountDeletion
    BY <1>10 DEF CreateJoinRequest, AccountDeletion
  <2> QED BY <1>10, <2>1 DEF CreateJoinRequest
<1>11. ASSUME NEW u \in Users, NEW i \in Visits, AcceptJoinRequest(u, i)
       PROVE  TypeOK'
  BY <1>11 DEF AcceptJoinRequest
<1>12. ASSUME NEW u \in Users, NEW i \in Visits, NEW status \in {"declined", "cancelled"}, RespondJoinRequest(u, i, status)
       PROVE  TypeOK'
  BY <1>12 DEF RespondJoinRequest
<1>13. ASSUME NEW u \in Users, NEW i \in Visits, MarkParticipantReady(u, i)
       PROVE  TypeOK'
  BY <1>13 DEF MarkParticipantReady
<1>14. ASSUME NEW u \in Users, NEW i \in Visits, LeaveRoom(u, i) PROVE TypeOK'
  BY <1>14 DEF LeaveRoom
<1>15. ASSUME NEW i \in Visits, InvitationLapses(i) PROVE TypeOK'
  BY <1>15 DEF InvitationLapses
<1>16. ASSUME NEW u \in Users, NEW i \in Visits, JoinRequestLapses(u, i)
       PROVE  TypeOK'
  BY <1>16 DEF JoinRequestLapses
<1>17. ASSUME NEW i \in Visits, SessionOverdue(i) PROVE TypeOK'
  BY <1>17 DEF SessionOverdue
<1>18. ASSUME CleanupStart PROVE TypeOK'
  BY <1>18 DEF CleanupStart
<1>19. ASSUME NEW item \in todo["cleanup"], CleanupInvitation(item) PROVE TypeOK'
  <2>1. item \in Item BY <1>19
  <2>2. item.visit \in Visits /\ item.user \in Users \cup {NoUser} BY <2>1
  <2>3. CASE invitation[item.visit] = "lapsed"
    <3>1. owed' \in [Workers -> Debt]
      BY <1>19, <2>2, <2>3 DEF CleanupInvitation
    <3> QED BY <1>19, <2>2, <2>3, <3>1 DEF CleanupInvitation
  <2>4. CASE ~(invitation[item.visit] = "lapsed")
    BY <1>19, <2>4 DEF CleanupInvitation
  <2> QED BY <2>3, <2>4
<1>20. ASSUME CleanupToJoins PROVE TypeOK'
  BY <1>20 DEF CleanupToJoins
<1>21. ASSUME NEW item \in todo["cleanup"], CleanupJoin(item) PROVE TypeOK'
  <2>1. item \in Item BY <1>21
  <2>2. item.visit \in Visits /\ item.user \in Users \cup {NoUser} BY <2>1
  <2>3. CASE "lapsed" \in joinRequest[item.visit][item.user]
    <3>1. owed' \in [Workers -> Debt]
      BY <1>21, <2>2, <2>3 DEF CleanupJoin
    <3>2. joinRequest' \in [Visits -> [Users -> SUBSET JoinStatus]]
      <4> DEFINE rows == (joinRequest[item.visit][item.user] \ Pending) \cup {"expired"}
      <4> DEFINE inner == [joinRequest[item.visit] EXCEPT ![item.user] = rows]
      <4>1. item.user \in Users => rows \in SUBSET JoinStatus BY <2>2
      <4>2. joinRequest[item.visit] \in [Users -> SUBSET JoinStatus] BY <2>2
      <4>3. joinRequest' = [joinRequest EXCEPT ![item.visit] = inner]
        BY <1>21, <2>2, <2>3 DEF CleanupJoin
      <4> HIDE DEF rows
      <4>4. inner = [x \in Users |-> IF x = item.user THEN rows
                                     ELSE joinRequest[item.visit][x]]
        BY <4>2
      <4> HIDE DEF inner
      <4>5. inner \in [Users -> SUBSET JoinStatus] BY <4>1, <4>2, <4>4
      <4> QED BY <2>2, <4>3, <4>5
    <3> QED BY <1>21, <2>2, <2>3, <3>1, <3>2 DEF CleanupJoin
  <2>4. CASE ~("lapsed" \in joinRequest[item.visit][item.user])
    BY <1>21, <2>4 DEF CleanupJoin
  <2> QED BY <2>3, <2>4
<1>22. ASSUME CleanupToSessions PROVE TypeOK'
  BY <1>22 DEF CleanupToSessions, SeenSessions, TimedOut
<1>23. ASSUME CleanupEnds PROVE TypeOK'
  BY <1>23 DEF CleanupEnds
<1>24. ASSUME NEW w \in Workers, NEW item \in todo[w], ClaimSession(w, item)
       PROVE  TypeOK'
  <2>1. item \in Item BY <1>24
  <2>2. item.visit \in Visits /\ item.user \in Users \cup {NoUser} BY <2>1
  <2>3. CASE StillAsSeen(item)
    <3>1. owed' \in [Workers -> Debt]
      <4> DEFINE d == [step |-> "reservations", visit |-> item.visit, user |-> NoUser]
      <4>1. d \in Debt BY <2>2
      <4>2. owed' = [owed EXCEPT ![w] = d] BY <1>24, <2>3 DEF ClaimSession
      <4> HIDE DEF d
      <4> QED BY <4>1, <4>2
    <3> QED BY <1>24, <2>2, <2>3, <3>1 DEF ClaimSession, StillAsSeen
  <2>4. CASE ~(StillAsSeen(item))
    BY <1>24, <2>4 DEF ClaimSession
  <2> QED BY <2>3, <2>4
<1>25. ASSUME NEW w \in Workers, PayDebt(w) PROVE TypeOK'
  <2>1. owed[w] \in Debt BY <1>25
  <2>2. owed' \in [Workers -> Debt] BY <1>25, <2>1 DEF PayDebt
  <2>3. reservation' \in [Users -> Reservation] BY <1>25, <2>1 DEF PayDebt
  <2>4. participant' \in [Visits -> [Users -> ParticipantState]]
    <3>1. ASSUME NEW back \in Acknowledging({owed[w].visit}), owed[w] # NoDebt
          PROVE  EmptiedBut({owed[w].visit}, back) \in [Visits -> [Users -> ParticipantState]]
      <4>1. {owed[w].visit} \in SUBSET Visits BY <2>1, <3>1
      <4>2. \A i \in Visits, p \in Users :
              EmptiedBut({owed[w].visit}, back)[i][p] \in ParticipantState
        BY <4>1, <3>1, RoomEmptied
      <4> QED BY <4>2 DEF EmptiedBut
    <3>2. CASE owed[w].step = "participants"
      <4>1. PICK back \in Acknowledging({owed[w].visit}) :
              participant' = EmptiedBut({owed[w].visit}, back)
        BY <1>25, <3>2 DEF PayDebt
      <4> QED BY <1>25, <3>1, <4>1 DEF PayDebt
    <3>3. CASE owed[w].step # "participants" BY <1>25, <3>3 DEF PayDebt
    <3> QED BY <3>2, <3>3
  <2> QED BY <1>25, <2>2, <2>3, <2>4 DEF PayDebt
<1>26. ASSUME NEW a \in Users, NEW b \in Users, SeverFriendship(a, b)
       PROVE  TypeOK'
  BY <1>26 DEF SeverFriendship, SeenSessions
<1>27. ASSUME NEW a \in Users, NEW b \in Users, Befriend(a, b) PROVE TypeOK'
  BY <1>27 DEF Befriend
<1>28. ASSUME NEW u \in Users, SuspendAccount(u) PROVE TypeOK'
  BY <1>28 DEF SuspendAccount
<1>29. ASSUME NEW u \in Users, RestoreAccount(u) PROVE TypeOK'
  BY <1>29 DEF RestoreAccount
<1>30. ASSUME NEW u \in Users, Publish(u) PROVE TypeOK'
  BY <1>30 DEF Publish
<1>31. ASSUME NEW u \in Users, Unpublish(u) PROVE TypeOK'
  BY <1>31 DEF Unpublish
<1>32. ASSUME NEW u \in Users, AdminUnpublish(u) PROVE TypeOK'
  BY <1>32 DEF AdminUnpublish
<1>33. ASSUME NEW u \in Users, RevokeCompanionVisits(u) PROVE TypeOK'
  BY <1>33 DEF RevokeCompanionVisits
<1>34. CASE Deletion
  <2>1. ASSUME NEW u \in Users, BeginDeletion(u) PROVE TypeOK'
    <3>1. deleting' \in AccountDeletion
      BY <2>1 DEF BeginDeletion, AccountDeletion
    <3> QED BY <2>1, <3>1 DEF BeginDeletion
  <2>2. ASSUME NEW late \in SUBSET Latecomers, NEW back \in Acknowledging(GuestRooms),
               DeleteAccount(late, back)
        PROVE  TypeOK'
    <3>1. participant' \in [Visits -> [Users -> ParticipantState]]
      <4>1. deleting.rooms \in SUBSET Visits BY DEF AccountDeletion
      <4>2. back \in Acknowledging(deleting.rooms) BY DEF Acknowledging, GuestRooms
      <4>3. \A i \in Visits, p \in Users :
              EmptiedBut(deleting.rooms, back)[i][p] \in ParticipantState
        BY <4>1, <4>2, RoomEmptied
      <4>4. participant' = EmptiedBut(deleting.rooms, back) BY <2>2 DEF DeleteAccount
      <4> QED BY <4>3, <4>4 DEF EmptiedBut
    <3>2. reservation' \in [Users -> Reservation] BY <2>2 DEF DeleteAccount
    <3>3. joinRequest' \in [Visits -> [Users -> SUBSET JoinStatus]]
      <4> DEFINE cancelled(rows) == IF rows \cap Pending # {} THEN (rows \ Pending) \cup {"cancelled"}
                                    ELSE rows
      <4>1. \A i \in Visits : joinRequest'[i] = [joinRequest[i] EXCEPT ![deleting.user] = cancelled(@)]
        BY <2>2 DEF DeleteAccount
      <4>2. \A rows \in SUBSET JoinStatus : cancelled(rows) \in SUBSET JoinStatus OBVIOUS
      <4>3. joinRequest' = [i \in Visits |-> joinRequest'[i]] BY <2>2 DEF DeleteAccount
      <4> HIDE DEF cancelled
      <4>4. ASSUME NEW i \in Visits PROVE joinRequest'[i] \in [Users -> SUBSET JoinStatus]
        <5>1. joinRequest[i] \in [Users -> SUBSET JoinStatus] OBVIOUS
        <5> HIDE DEF TypeOK, JoinStatus
        <5>2. joinRequest'[i] = [x \in Users |-> IF x = deleting.user THEN cancelled(joinRequest[i][x])
                                                 ELSE joinRequest[i][x]]
          BY <4>1, <5>1
        <5> QED BY <4>2, <5>1, <5>2
      <4> QED BY <4>3, <4>4
    <3>4. stranded' \in [Visits -> SUBSET Users]
      BY <2>2 DEF DeleteAccount, GuestRooms, Latecomers, AccountDeletion
    <3>5. deleting' \in AccountDeletion BY <2>2, NoneIsDeletion DEF DeleteAccount
    <3> QED BY <2>2, <3>1, <3>2, <3>3, <3>4, <3>5 DEF DeleteAccount
  <2>3. ASSUME RollBackDeletion PROVE TypeOK'
    BY <2>3, NoneIsDeletion DEF RollBackDeletion
  <2> QED BY <1>34, <2>1, <2>2, <2>3 DEF Deletion, DeletionRequests, DeletionEnds
<1>35. ASSUME NEW i \in Visits, AdminEndSession(i) PROVE TypeOK'
  BY <1>35 DEF AdminEndSession
<1>36. ASSUME NEW i \in Visits, AdminCancelInvitation(i) PROVE TypeOK'
  BY <1>36 DEF AdminCancelInvitation
<1>37. ASSUME Crash PROVE TypeOK'
  BY <1>37, NoneIsDeletion DEF Crash
<1> HIDE DEF TypeOK, JoinMoves, MayRefresh
<1>38. CASE InvitationRequests
  BY <1>38, <1>1, <1>2, <1>3, <1>4 DEF InvitationRequests
<1>39. CASE SessionRequests
  BY <1>39, <1>5, <1>6, <1>7, <1>8, <1>9 DEF SessionRequests
<1>40. CASE JoinRequests \/ RoomRequests
  BY <1>40, <1>10, <1>11, <1>12, <1>13, <1>14 DEF JoinRequests, RoomRequests
<1>41. CASE Time
  BY <1>41, <1>15, <1>16, <1>17 DEF Time
<1>42. CASE CleanupPass \/ RequestSweep
  BY <1>42, <1>18, <1>19, <1>20, <1>21, <1>22, <1>23, <1>24, <1>25 DEF CleanupPass,
         RequestSweep
<1>43. CASE Social
  BY <1>43, <1>26, <1>27, <1>28, <1>29, <1>30, <1>31, <1>32 DEF Social
<1>44. CASE Leaks \/ CleanupConflict
  BY <1>44, <1>35, <1>36, <1>37 DEF Leaks, CleanupConflict,
         AdminReconcileSession, CleanupJoinConflict
<1> QED
  BY <1>33, <1>34, <1>38, <1>39, <1>40, <1>41, <1>42, <1>43, <1>44 DEF Next,
         Everyday, Service

(* The steps that change only accounts, friendships, publication, time-out *)
(* marks and what the workers have read.                                   *)
Quiet ==
  \/ \E i \in Visits : Heartbeat(i) \/ SessionOverdue(i)
  \/ CleanupStart \/ CleanupToJoins \/ CleanupToSessions \/ CleanupEnds
  \/ Social

visitVars == <<invitation, visitor, host, session, acks, participant, reservation, owed,
               deleting, stranded>>

(* Quiet steps leave the visits, their rooms and the debts alone.          *)
LEMMA QuietStep == Quiet => UNCHANGED <<visitVars, joinRequest>>
  BY DEF Quiet, visitVars, Social, Heartbeat, SessionOverdue,
         CleanupStart, CleanupToJoins, CleanupToSessions, CleanupEnds, SeverFriendship,
         Befriend, SuspendAccount, RestoreAccount, Publish, Unpublish, AdminUnpublish

(* A step that leaves the rows of visits, the reservations and the debts   *)
(* alone keeps the invariant.                                              *)
LEMMA Bystander ==
  ASSUME IInv, TypeOK', UNCHANGED visitVars
  PROVE  IInv'
  BY DEF visitVars, IInv, RouteKnown, EmptyBeforeSession, SessionCoherent,
         VisitorOwnerInOneSession, PendingIsReserved, ReservationHasPart, DebtsAreDue,
         DeletionAware, Live, Present

(* A deletion under way stays aware as long as nothing opens on the route  *)
(* of its user.                                                            *)
LEMMA DeletionKept ==
  ASSUME DeletionAware,
         deleting' = deleting \/ deleting' = NoDeletion,
         \A i \in Visits :
           /\ invitation[i] # "none" =>
                invitation'[i] # "none" /\ visitor'[i] = visitor[i] /\ host'[i] = host[i]
           /\ deleting.user \in {visitor'[i], host'[i]} \cap Users =>
                /\ visitor'[i] = visitor[i] /\ host'[i] = host[i]
                /\ invitation'[i] \in Pending => invitation[i] \in Pending
                /\ Live(i)' => Live(i)
  PROVE  DeletionAware'
  BY NullsAssumption DEF DeletionAware, NoDeletion, Live

(* The lock of deleteAccount on its user does its work.                    *)
LEMMA DeletionStep == IInv /\ Next => DeletionAware'
<1> SUFFICES ASSUME IInv, Next PROVE DeletionAware'
  OBVIOUS
<1> DEFINE Mild ==
      /\ deleting' = deleting \/ deleting' = NoDeletion
      /\ UNCHANGED <<visitor, host>>
      /\ \A i \in Visits :
           /\ invitation[i] # "none" => invitation'[i] # "none"
           /\ invitation'[i] \in Pending => invitation[i] \in Pending
           /\ Live(i)' => Live(i)
<1>0. ASSUME Mild PROVE DeletionAware'
  BY <1>0, DeletionKept DEF IInv
<1> USE DEF TypeOK, Terminated, Live
<1>1. ASSUME NEW v \in Users, NEW h \in Users, NEW i \in Visits, CreateInvitation(v, h, i)
      PROVE  DeletionAware'
  BY <1>1, DeletionKept DEF CreateInvitation, IInv, Locked
<1>2. ASSUME NEW i \in Visits, AcceptInvitation(i) PROVE DeletionAware'
  BY <1>2, DeletionKept DEF AcceptInvitation, IInv, Locked, Displaced
<1>3. ASSUME NEW i \in Visits, AcceptLapsedInvitation(i) PROVE Mild
  BY <1>3 DEF AcceptLapsedInvitation, IInv
<1>4. ASSUME NEW i \in Visits, NEW status \in {"declined", "cancelled"}, RespondToInvitation(i, status)
      PROVE  Mild
  BY <1>4 DEF RespondToInvitation, IInv
<1>5. ASSUME NEW i \in Visits, NEW role \in {"owner", "host"}, MarkReady(i, role)
      PROVE  Mild
  BY <1>5 DEF MarkReady, IInv
<1>6. ASSUME NEW i \in Visits, StartSession(i) \/ EndSession(i) \/ CompleteRoom(i) PROVE Mild
  BY <1>6 DEF StartSession, EndSession, CompleteRoom, IInv
<1>7. ASSUME NEW u \in Users, NEW i \in Visits, CreateJoinRequest(u, i)
      PROVE  DeletionAware'
  <2>1. deleting \in AccountDeletion BY DEF IInv
  <2>2. /\ deleting'.user = deleting.user /\ deleting'.sent = deleting.sent
        /\ deleting'.rooms = deleting.rooms
    BY <1>7, <2>1 DEF CreateJoinRequest, AccountDeletion
  <2>3. deleting' # NoDeletion => deleting # NoDeletion
    BY <1>7 DEF CreateJoinRequest, NoDeletion
  <2> QED BY <1>7, <2>2, <2>3 DEF CreateJoinRequest, DeletionAware, IInv
<1>8. ASSUME NEW u \in Users, NEW i \in Visits, RoomRequests PROVE Mild
  BY <1>8 DEF RoomRequests, AcceptJoinRequest, RespondJoinRequest, MarkParticipantReady, LeaveRoom
<1>9. CASE Time
  <2>1. ASSUME NEW i \in Visits, InvitationLapses(i) PROVE Mild
    BY <2>1 DEF InvitationLapses, IInv
  <2>2. ASSUME NEW i \in Visits, SessionOverdue(i) PROVE Mild
    BY <2>2 DEF SessionOverdue
  <2>3. ASSUME NEW i \in Visits, NEW u \in Users, JoinRequestLapses(u, i) PROVE Mild
    BY <2>3 DEF JoinRequestLapses
  <2> QED BY <1>9, <1>0, <2>1, <2>2, <2>3 DEF Time
<1>10. ASSUME NEW item \in todo["cleanup"], CleanupInvitation(item) PROVE Mild
  BY <1>10 DEF CleanupInvitation, IInv
<1>11. ASSUME NEW item \in todo["cleanup"], CleanupJoin(item) PROVE Mild
  BY <1>11 DEF CleanupJoin
<1>12. ASSUME NEW w \in Workers, NEW item \in todo[w], ClaimSession(w, item) PROVE Mild
  BY <1>12 DEF ClaimSession, StillAsSeen, IInv
<1>13. ASSUME NEW w \in Workers, PayDebt(w) PROVE Mild
  BY <1>13 DEF PayDebt
<1>14. ASSUME NEW u \in Users, RevokeCompanionVisits(u) PROVE Mild
  BY <1>14 DEF RevokeCompanionVisits, IInv
<1>15. ASSUME NEW u \in Users, BeginDeletion(u) PROVE DeletionAware'
  BY <1>15, NullsAssumption DEF BeginDeletion, DeletionAware, IInv, RouteKnown
<1>16. ASSUME NEW late, NEW back, DeleteAccount(late, back) PROVE Mild
  BY <1>16 DEF DeleteAccount, IInv
<1>17. ASSUME RollBackDeletion PROVE Mild
  BY <1>17 DEF RollBackDeletion
<1>18. ASSUME NEW i \in Visits, AdminEndSession(i) \/ AdminCancelInvitation(i) PROVE Mild
  BY <1>18 DEF AdminEndSession, AdminCancelInvitation, IInv
<1>19. ASSUME Crash PROVE Mild
  BY <1>19 DEF Crash
<1>20. ASSUME Quiet PROVE Mild
  BY <1>20, QuietStep DEF visitVars
<1> HIDE DEF Mild
<1>21. CASE InvitationRequests
  BY <1>21, <1>0, <1>1, <1>2, <1>3, <1>4 DEF InvitationRequests
<1>22. CASE SessionRequests
  BY <1>22, <1>0, <1>5, <1>6, <1>20 DEF SessionRequests, Quiet
<1>23. CASE JoinRequests \/ RoomRequests
  BY <1>23, <1>0, <1>7, <1>8 DEF JoinRequests, RoomRequests
<1>24. CASE CleanupPass \/ RequestSweep
  BY <1>24, <1>0, <1>10, <1>11, <1>12, <1>13, <1>20 DEF CleanupPass, RequestSweep, Quiet
<1>25. CASE Social
  BY <1>25, <1>0, <1>20 DEF Quiet
<1>26. CASE Deletion
  BY <1>26, <1>0, <1>15, <1>16, <1>17 DEF Deletion, DeletionRequests, DeletionEnds
<1>27. CASE Leaks \/ CleanupConflict
  BY <1>27, <1>0, <1>18, <1>19 DEF Leaks, CleanupConflict, AdminReconcileSession,
         CleanupJoinConflict
<1> QED
  BY <1>0, <1>9, <1>14, <1>21, <1>22, <1>23, <1>24, <1>25, <1>26, <1>27 DEF Next, Everyday, Service

(* The statement a worker owes keeps the invariant, although a late        *)
(* markParticipantReady may keep somebody in the room it empties.          *)
LEMMA PayDebtInv ==
  ASSUME IInv, TypeOK', DeletionAware', NEW w \in Workers, PayDebt(w)
  PROVE  IInv'
<1> USE NullsAssumption DEF IInv
<1>0. owed[w] \in Debt /\ owed[w] # NoDebt BY DEF TypeOK, PayDebt
<1>1. owed[w].visit \in Visits BY <1>0 DEF Debt
<1>2. \A i \in Visits, p \in Users :
        /\ participant'[i][p] = "none" <=> participant[i][p] = "none"
        /\ reservation[p] = Participant(i) => participant'[i][p] = participant[i][p]
  <2>1. CASE owed[w].step # "participants"
    BY <2>1 DEF PayDebt
  <2>2. CASE owed[w].step = "participants"
    <3>1. PICK back \in Acknowledging({owed[w].visit}) :
            participant' = EmptiedBut({owed[w].visit}, back)
      BY <2>2 DEF PayDebt
    <3>2. {owed[w].visit} \in SUBSET Visits BY <1>1
    <3>3. \A p \in Users : reservation[p] # Participant(owed[w].visit)
      BY <2>2 DEF DebtsAreDue
    <3>4. \A i \in Visits, p \in Users :
            /\ participant'[i][p] = "none" <=> participant[i][p] = "none"
            /\ i # owed[w].visit => participant'[i][p] = participant[i][p]
      BY <3>1, <3>2, RoomEmptied
    <3> QED BY <3>3, <3>4
  <2> QED BY <2>1, <2>2
<1>3. \A p \in Users : reservation'[p] \in {reservation[p], NoReservation}
  <2>1. CASE owed[w].step = "join" BY <2>1, DroppedJoin DEF PayDebt
  <2>2. CASE owed[w].step # "join" BY <2>2, <1>1, Dropped DEF PayDebt
  <2> QED BY <2>1, <2>2
<1>4. UNCHANGED <<invitation, visitor, host, session, acks, deleting, stranded>>
  BY DEF PayDebt
<1>5. EmptyBeforeSession'
  BY <1>2, <1>4 DEF EmptyBeforeSession
<1>6. SessionCoherent'
  BY <1>2, <1>4 DEF SessionCoherent
<1>7. PendingIsReserved'
  <2> SUFFICES ASSUME NEW i \in Visits, invitation[i] \in Pending
               PROVE  reservation'[visitor[i]] = Outgoing(i)
    BY <1>4 DEF PendingIsReserved
  <2>1. visitor[i] \in Users /\ reservation[visitor[i]] = Outgoing(i)
    BY DEF PendingIsReserved, RouteKnown
  <2>2. CASE owed[w].step = "join"
    BY <2>1, <2>2, DroppedJoin, <1>1, Kinds DEF PayDebt
  <2>3. CASE owed[w].step = "invitation"
    <3>1. i # owed[w].visit BY <2>3 DEF DebtsAreDue
    <3> QED BY <2>1, <2>3, <3>1, Dropped DEF PayDebt
  <2>4. CASE owed[w].step \notin {"join", "invitation"}
    BY <2>1, <2>4, Dropped DEF PayDebt
  <2> QED BY <2>2, <2>3, <2>4
<1>8. ReservationHasPart'
  <2> SUFFICES ASSUME NEW p \in Users, NEW i \in Visits
               PROVE  /\ reservation'[p] = Outgoing(i) => visitor[i] = p
                      /\ reservation'[p] = Participant(i) =>
                           participant'[i][p] \in PresentState \/ p \in stranded[i]
    BY <1>4 DEF ReservationHasPart, Present
  <2>1. reservation'[p] \in {Outgoing(i), Participant(i)} => reservation'[p] = reservation[p]
    BY <1>3, Kinds
  <2> QED BY <1>2, <2>1 DEF ReservationHasPart, Present
<1>9. DebtsAreDue'
  <2>1. CASE owed[w].step = "reservations"
    <3>1. owed' = [owed EXCEPT ![w] = [@ EXCEPT !.step = "participants"]]
      BY <2>1 DEF PayDebt
    <3>2. owed'[w].step = "participants" /\ owed'[w].visit = owed[w].visit
      BY <1>0, <3>1 DEF TypeOK, Debt, NoDebt
    <3>3. \A p \in Users : reservation'[p] # Participant(owed[w].visit)
      BY <1>1, <2>1, Dropped DEF PayDebt
    <3>4. \A x \in Workers : x # w => owed'[x] = owed[x] BY <3>1 DEF TypeOK
    <3>5. owed[w].visit \in Visits /\ session[owed[w].visit] \in TerminalState
      BY <1>1, <2>1 DEF DebtsAreDue
    <3>6. ASSUME NEW x \in Workers, owed[x].step = "participants", NEW p \in Users
          PROVE  reservation'[p] # Participant(owed[x].visit)
      <4>1. owed[x].visit \in Visits BY <3>6 DEF TypeOK, Debt, NoDebt
      <4> QED BY <1>3, <3>6, <4>1, Kinds DEF DebtsAreDue
    <3> QED BY <1>4, <3>2, <3>3, <3>4, <3>5, <3>6 DEF DebtsAreDue
  <2>2. CASE owed[w].step # "reservations"
    <3>1. owed' = [owed EXCEPT ![w] = NoDebt] BY <2>2 DEF PayDebt
    <3>2. \A x \in Workers : owed'[x] = owed[x] \/ owed'[x].step = "none"
      BY <3>1 DEF TypeOK, NoDebt
    <3>3. ASSUME NEW x \in Workers, owed[x].step = "participants", NEW p \in Users
          PROVE  reservation'[p] # Participant(owed[x].visit)
      <4>1. owed[x].visit \in Visits BY <3>3 DEF TypeOK, Debt, NoDebt
      <4> QED BY <1>3, <3>3, <4>1, Kinds DEF DebtsAreDue
    <3> QED BY <1>4, <3>2, <3>3 DEF DebtsAreDue
  <2> QED BY <2>1, <2>2
<1> QED
  BY <1>4, <1>5, <1>6, <1>7, <1>8, <1>9 DEF RouteKnown, VisitorOwnerInOneSession, Live

(* The commit of deleteAccount keeps the invariant: no pending invitation  *)
(* loses its reservation, and whoever is left with a reservation for a     *)
(* room it had to leave is on record.                                      *)
LEMMA DeleteAccountInv ==
  ASSUME IInv, TypeOK', DeletionAware', NEW late \in SUBSET Latecomers,
         NEW back \in Acknowledging(GuestRooms), DeleteAccount(late, back)
  PROVE  IInv'
<1> USE NullsAssumption DEF IInv
<1> DEFINE u == deleting.user
<1>1. /\ UNCHANGED <<visitor, host, acks, owed>>
      /\ \A i \in Visits :
           /\ invitation'[i] = IF invitation[i] \in Pending /\ u \in {visitor[i], host[i]}
                               THEN "cancelled" ELSE invitation[i]
           /\ session'[i] = IF Live(i) /\ u \in {visitor[i], host[i]}
                            THEN Terminated(session[i]) ELSE session[i]
  BY DEF DeleteAccount
<1>2. u \in Users
  BY DEF DeleteAccount, DeletionAware
<1>3. \A p \in Users :
        reservation'[p] = IF p = u \/ DropOutgoing(deleting.sent)[p] = NoReservation
                          THEN NoReservation
                          ELSE IF p \in late THEN reservation[p]
                          ELSE DropSession(deleting.rooms)[p]
  BY DEF DeleteAccount
<1>4. /\ back \in Acknowledging(deleting.rooms)
      /\ deleting.rooms \in SUBSET Visits
  BY DEF Acknowledging, GuestRooms, AccountDeletion, TypeOK
<1>5. participant' = EmptiedBut(deleting.rooms, back)
  BY DEF DeleteAccount
<1>6. \A i \in Visits, p \in Users :
        /\ participant'[i][p] = "none" <=> participant[i][p] = "none"
        /\ p = back[i] => participant'[i][p] \in PresentState
        /\ i \notin deleting.rooms => participant'[i][p] = participant[i][p]
  BY <1>4, <1>5, RoomEmptied
<1>7. \A p \in Users : reservation'[p] \in {reservation[p], NoReservation}
  BY <1>3 DEF DropOutgoing, DropSession
<1>8. RouteKnown'
  BY <1>1 DEF RouteKnown
<1>9. EmptyBeforeSession'
  BY <1>1, <1>6 DEF EmptyBeforeSession, Terminated
<1>10. SessionCoherent'
  BY <1>1, <1>6 DEF SessionCoherent, Live, Terminated
<1>11. VisitorOwnerInOneSession'
  BY <1>1 DEF VisitorOwnerInOneSession, Live, Terminated
<1>12. PendingIsReserved'
  <2> SUFFICES ASSUME NEW i \in Visits, invitation'[i] \in Pending
               PROVE  reservation'[visitor[i]] = Outgoing(i)
    BY <1>1 DEF PendingIsReserved
  <2>1. invitation[i] \in Pending /\ u \notin {visitor[i], host[i]}
    BY <1>1
  <2>2. visitor[i] \in Users /\ reservation[visitor[i]] = Outgoing(i)
    BY <2>1 DEF PendingIsReserved, RouteKnown
  <2>3. i \notin deleting.sent
    BY <1>2, <2>1 DEF DeletionAware
  <2> QED BY <1>3, <2>1, <2>2, <2>3, Dropped, Kinds
<1>13. ReservationHasPart'
  <2> SUFFICES ASSUME NEW p \in Users, NEW i \in Visits
               PROVE  /\ reservation'[p] = Outgoing(i) => visitor'[i] = p
                      /\ reservation'[p] = Participant(i) =>
                           participant'[i][p] \in PresentState \/ p \in stranded'[i]
    BY DEF ReservationHasPart, Present
  <2>1. reservation'[p] = Outgoing(i) => visitor'[i] = p
    BY <1>1, <1>7, Kinds DEF ReservationHasPart
  <2>2. stranded'[i] = stranded[i] \cup {q \in late : /\ i \in GuestRooms
                                                     /\ reservation[q] = Participant(i)
                                                     /\ back[i] # q}
    BY DEF DeleteAccount
  <2>3. ASSUME reservation'[p] = Participant(i), p \in late
        PROVE  participant'[i][p] \in PresentState \/ p \in stranded'[i]
    <3>1. reservation[p] = Participant(i) BY <1>7, <2>3, Kinds
    <3>2. PICK k \in GuestRooms : reservation[p] \in {Join(k), Participant(k)}
      BY <2>3 DEF Latecomers
    <3>3. k \in Visits BY <1>4 DEF GuestRooms
    <3>4. i \in GuestRooms BY <3>1, <3>2, <3>3, Kinds
    <3> QED BY <1>6, <2>2, <2>3, <3>1, <3>4
  <2>4. ASSUME reservation'[p] = Participant(i), p \notin late
        PROVE  participant'[i][p] \in PresentState \/ p \in stranded'[i]
    <3>1. DropSession(deleting.rooms)[p] = Participant(i) BY <1>3, <2>4, Kinds
    <3>2. i \notin deleting.rooms BY <3>1, Dropped
    <3>3. reservation[p] = Participant(i) BY <1>7, <2>4, Kinds
    <3> QED BY <1>6, <2>2, <3>2, <3>3 DEF ReservationHasPart, Present
  <2> QED BY <2>1, <2>3, <2>4
<1>14. DebtsAreDue'
  <2>1. ASSUME NEW x \in Workers, owed[x].step \in {"invitation", "reservations", "participants"}
        PROVE  owed[x].visit \in Visits
    BY <2>1 DEF TypeOK, Debt, NoDebt
  <2>2. \A i \in Visits : /\ invitation[i] = "expired" => invitation'[i] = "expired"
                          /\ session[i] \in TerminalState => session'[i] \in TerminalState
    BY <1>1 DEF Live
  <2>3. ASSUME NEW i \in Visits, NEW p \in Users, reservation[p] # Participant(i)
        PROVE  reservation'[p] # Participant(i)
    BY <1>7, <2>3, Kinds
  <2> QED BY <1>1, <2>1, <2>2, <2>3 DEF DebtsAreDue
<1> QED
  BY <1>8, <1>9, <1>10, <1>11, <1>12, <1>13, <1>14

(* Every step of the system keeps the invariant.                           *)
LEMMA StepInv == IInv /\ Next => IInv'
<1> SUFFICES ASSUME IInv, Next PROVE IInv'
  OBVIOUS
<1>0. TypeOK' /\ DeletionAware' BY TypeStep, DeletionStep DEF IInv
<1> USE <1>0, NullsAssumption
    DEF IInv, TypeOK, InvitationStatus, SessionState, ParticipantState, JoinStatus, Reservation,
        Item, Debt, NoDebt,
        Live, Present, Joinable, Unreserved, Terminated,
        Emptied, EmptiedRooms, JoinMoves, MayRefresh
<1>1. ASSUME NEW v \in Users, NEW h \in Users, NEW i \in Visits, CreateInvitation(v, h, i)
      PROVE  IInv'
  <2> USE <1>1 DEF CreateInvitation
  <2>1. RouteKnown'
    BY DEF RouteKnown
  <2>2. SessionCoherent'
    BY DEF SessionCoherent, EmptyBeforeSession, RouteKnown
  <2>3. VisitorOwnerInOneSession'
    <3>1. \A j \in Visits : Live(j)' => Live(j) /\ visitor'[j] = visitor[j] /\ host'[j] = host[j]
      <4>1. session' = session OBVIOUS
      <4>2. \A j \in Visits : Live(j) => j # i BY DEF SessionCoherent
      <4>3. \A j \in Visits : j # i => visitor'[j] = visitor[j] /\ host'[j] = host[j] OBVIOUS
      <4> QED BY <4>1, <4>2, <4>3
    <3> QED BY <3>1 DEF VisitorOwnerInOneSession
  <2>4. PendingIsReserved'
    BY Kinds, Dropped DEF PendingIsReserved, RouteKnown, DebtsAreDue
  <2>5. ReservationHasPart'
    BY Kinds, Dropped DEF ReservationHasPart, RouteKnown, SessionCoherent,
           EmptyBeforeSession, DebtsAreDue, PendingIsReserved
  <2>6. DebtsAreDue'
    BY Kinds, Dropped DEF DebtsAreDue, SessionCoherent
  <2> QED
    BY <2>1, <2>2, <2>3, <2>4, <2>5, <2>6 DEF EmptyBeforeSession
<1>2. ASSUME NEW i \in Visits, AcceptInvitation(i) PROVE IInv'
  <2> USE <1>2 DEF AcceptInvitation, Displaced
  <2>1. RouteKnown'
    BY DEF RouteKnown
  <2>2. EmptyBeforeSession'
    BY DEF EmptyBeforeSession
  <2>3. SessionCoherent'
    BY DEF SessionCoherent, EmptyBeforeSession, RouteKnown
  <2>4. VisitorOwnerInOneSession'
    BY DEF VisitorOwnerInOneSession, SessionCoherent, RouteKnown,
           VisitorOwnerAvailable, HostCapacity
  <2>5. PendingIsReserved'
    BY Kinds, Dropped DEF PendingIsReserved, RouteKnown, DebtsAreDue
  <2>6. ReservationHasPart'
    BY Kinds, Dropped DEF ReservationHasPart, RouteKnown, SessionCoherent,
           EmptyBeforeSession, DebtsAreDue, PendingIsReserved
  <2>7. DebtsAreDue'
    <3>1. session[i] = "none" BY DEF SessionCoherent
    <3>2. \A w \in Workers : owed[w].step \in {"reservations", "participants"} =>
            owed[w].visit \in Visits \ {i}
      BY <3>1 DEF DebtsAreDue
    <3>3. \A u \in Users, j \in Visits \ {i} :
            reservation[u] # Participant(j) => reservation'[u] # Participant(j)
      BY Kinds, Dropped
    <3>4. \A w \in Workers : owed[w].step = "invitation" =>
            /\ owed[w].visit \in Visits
            /\ invitation'[owed[w].visit] = "expired"
      BY DEF DebtsAreDue
    <3>5. \A w \in Workers : owed[w].step \in {"reservations", "participants"} =>
            session'[owed[w].visit] \in TerminalState
      BY <3>2 DEF DebtsAreDue
    <3>6. ASSUME NEW w \in Workers, owed[w].step = "participants", NEW u \in Users
          PROVE  reservation'[u] # Participant(owed[w].visit)
      <4>1. reservation[u] # Participant(owed[w].visit) BY <3>6 DEF DebtsAreDue
      <4> QED BY <3>2, <3>3, <3>6, <4>1
    <3>7. owed' = owed OBVIOUS
    <3> HIDE <1>0, <1>2 DEF IInv, TypeOK, AcceptInvitation
    <3> QED BY <3>4, <3>5, <3>6, <3>7 DEF DebtsAreDue
  <2> QED
    BY <2>1, <2>2, <2>3, <2>4, <2>5, <2>6, <2>7 DEF IInv
<1>3. ASSUME NEW i \in Visits, AcceptLapsedInvitation(i) PROVE IInv'
  <2> USE <1>3 DEF AcceptLapsedInvitation
  <2>1. RouteKnown'
    BY DEF RouteKnown
  <2>2. SessionCoherent'
    BY DEF SessionCoherent, EmptyBeforeSession, RouteKnown
  <2>3. PendingIsReserved'
    BY Kinds, Dropped DEF PendingIsReserved, RouteKnown, DebtsAreDue
  <2>4. ReservationHasPart'
    BY Kinds, Dropped DEF ReservationHasPart, RouteKnown, SessionCoherent,
           EmptyBeforeSession, DebtsAreDue, PendingIsReserved
  <2>5. DebtsAreDue'
    BY Kinds, Dropped DEF DebtsAreDue, SessionCoherent
  <2> QED
    BY <2>1, <2>2, <2>3, <2>4, <2>5 DEF EmptyBeforeSession,
           VisitorOwnerInOneSession
<1>4. ASSUME NEW i \in Visits, NEW status \in {"declined", "cancelled"}, RespondToInvitation(i, status)
      PROVE  IInv'
  <2> USE <1>4 DEF RespondToInvitation
  <2>1. RouteKnown'
    BY DEF RouteKnown
  <2>2. SessionCoherent'
    BY DEF SessionCoherent, EmptyBeforeSession, RouteKnown
  <2>3. PendingIsReserved'
    BY Kinds, Dropped DEF PendingIsReserved, RouteKnown, DebtsAreDue
  <2>4. ReservationHasPart'
    BY Kinds, Dropped DEF ReservationHasPart, RouteKnown, SessionCoherent,
           EmptyBeforeSession, DebtsAreDue, PendingIsReserved
  <2>5. DebtsAreDue'
    BY Kinds, Dropped DEF DebtsAreDue, SessionCoherent
  <2> QED
    BY <2>1, <2>2, <2>3, <2>4, <2>5 DEF EmptyBeforeSession,
           VisitorOwnerInOneSession
<1>5. ASSUME NEW i \in Visits, NEW role \in {"owner", "host"}, MarkReady(i, role)
      PROVE  IInv'
  <2> USE <1>5 DEF MarkReady
  <2>1. EmptyBeforeSession'
    BY DEF EmptyBeforeSession
  <2>2. SessionCoherent'
    BY DEF SessionCoherent, EmptyBeforeSession, RouteKnown
  <2>3. VisitorOwnerInOneSession'
    BY DEF VisitorOwnerInOneSession, SessionCoherent, RouteKnown
  <2>4. ReservationHasPart'
    BY DEF ReservationHasPart, RouteKnown, SessionCoherent, EmptyBeforeSession,
           DebtsAreDue, PendingIsReserved
  <2>5. DebtsAreDue'
    BY DEF DebtsAreDue, SessionCoherent
  <2> QED
    BY <2>1, <2>2, <2>3, <2>4, <2>5 DEF RouteKnown, PendingIsReserved
<1>6. ASSUME NEW i \in Visits, StartSession(i) PROVE IInv'
  <2> USE <1>6 DEF StartSession
  <2>1. EmptyBeforeSession'
    BY DEF EmptyBeforeSession
  <2>2. SessionCoherent'
    BY DEF SessionCoherent, EmptyBeforeSession, RouteKnown
  <2>3. VisitorOwnerInOneSession'
    BY DEF VisitorOwnerInOneSession, SessionCoherent, RouteKnown
  <2>4. ReservationHasPart'
    BY DEF ReservationHasPart, RouteKnown, SessionCoherent, EmptyBeforeSession,
           DebtsAreDue, PendingIsReserved
  <2>5. DebtsAreDue'
    BY DEF DebtsAreDue, SessionCoherent
  <2> QED
    BY <2>1, <2>2, <2>3, <2>4, <2>5 DEF RouteKnown, PendingIsReserved
<1>7. ASSUME NEW i \in Visits, EndSession(i) PROVE IInv'
  <2> USE <1>7 DEF EndSession
  <2>1. EmptyBeforeSession'
    BY DEF EmptyBeforeSession
  <2>2. SessionCoherent'
    BY DEF SessionCoherent, EmptyBeforeSession, RouteKnown
  <2>3. VisitorOwnerInOneSession'
    BY DEF VisitorOwnerInOneSession, SessionCoherent, RouteKnown
  <2>4. PendingIsReserved'
    BY Kinds, Dropped DEF PendingIsReserved, RouteKnown, DebtsAreDue
  <2>5. ReservationHasPart'
    BY Kinds, Dropped DEF ReservationHasPart, RouteKnown, SessionCoherent,
           EmptyBeforeSession, DebtsAreDue, PendingIsReserved
  <2>6. DebtsAreDue'
    BY Kinds, Dropped DEF DebtsAreDue, SessionCoherent
  <2> QED
    BY <2>1, <2>2, <2>3, <2>4, <2>5, <2>6 DEF RouteKnown
<1>8. ASSUME NEW i \in Visits, CompleteRoom(i) PROVE IInv'
  <2> USE <1>8 DEF CompleteRoom
  <2>1. EmptyBeforeSession'
    BY DEF EmptyBeforeSession
  <2>2. SessionCoherent'
    BY DEF SessionCoherent, EmptyBeforeSession, RouteKnown
  <2>3. VisitorOwnerInOneSession'
    BY DEF VisitorOwnerInOneSession, SessionCoherent, RouteKnown
  <2>4. PendingIsReserved'
    BY Kinds, Dropped DEF PendingIsReserved, RouteKnown, DebtsAreDue
  <2>5. ReservationHasPart'
    BY Kinds, Dropped DEF ReservationHasPart, RouteKnown, SessionCoherent,
           EmptyBeforeSession, DebtsAreDue, PendingIsReserved
  <2>6. DebtsAreDue'
    BY Kinds, Dropped DEF DebtsAreDue, SessionCoherent
  <2> QED
    BY <2>1, <2>2, <2>3, <2>4, <2>5, <2>6 DEF RouteKnown
<1>9. ASSUME NEW u \in Users, NEW i \in Visits, CreateJoinRequest(u, i)
       PROVE  IInv'
  <2> USE <1>9 DEF CreateJoinRequest
  <2>1. PendingIsReserved'
    BY Kinds, Dropped DEF PendingIsReserved, RouteKnown, DebtsAreDue
  <2>2. ReservationHasPart'
    BY Kinds, Dropped DEF ReservationHasPart, RouteKnown, SessionCoherent,
           EmptyBeforeSession, DebtsAreDue, PendingIsReserved
  <2>3. DebtsAreDue'
    BY Kinds, Dropped DEF DebtsAreDue, SessionCoherent
  <2> QED
    BY <2>1, <2>2, <2>3 DEF RouteKnown, EmptyBeforeSession, SessionCoherent,
           VisitorOwnerInOneSession
<1>10. ASSUME NEW u \in Users, NEW i \in Visits, AcceptJoinRequest(u, i)
       PROVE  IInv'
  <2> USE <1>10 DEF AcceptJoinRequest
  <2>1. EmptyBeforeSession'
    BY DEF EmptyBeforeSession
  <2>2. SessionCoherent'
    BY DEF SessionCoherent, EmptyBeforeSession, RouteKnown
  <2>3. PendingIsReserved'
    BY Kinds, Dropped DEF PendingIsReserved, RouteKnown, DebtsAreDue
  <2>4. ReservationHasPart'
    BY Kinds, Dropped DEF ReservationHasPart, RouteKnown, SessionCoherent,
           EmptyBeforeSession, DebtsAreDue, PendingIsReserved
  <2>5. DebtsAreDue'
    BY Kinds, Dropped DEF DebtsAreDue, SessionCoherent
  <2> QED
    BY <2>1, <2>2, <2>3, <2>4, <2>5 DEF RouteKnown, VisitorOwnerInOneSession
<1>11. ASSUME NEW u \in Users, NEW i \in Visits, NEW status \in {"declined", "cancelled"}, RespondJoinRequest(u, i, status)
       PROVE  IInv'
  <2> USE <1>11 DEF RespondJoinRequest
  <2>1. PendingIsReserved'
    BY Kinds, Dropped, DroppedJoin DEF PendingIsReserved, RouteKnown, DebtsAreDue
  <2>2. ReservationHasPart'
    BY Kinds, Dropped, DroppedJoin DEF ReservationHasPart, RouteKnown,
           SessionCoherent, EmptyBeforeSession, DebtsAreDue, PendingIsReserved
  <2>3. DebtsAreDue'
    BY Kinds, Dropped, DroppedJoin DEF DebtsAreDue, SessionCoherent
  <2> QED
    BY <2>1, <2>2, <2>3 DEF RouteKnown, EmptyBeforeSession, SessionCoherent,
           VisitorOwnerInOneSession
<1>12. ASSUME NEW u \in Users, NEW i \in Visits, MarkParticipantReady(u, i)
       PROVE  IInv'
  <2> USE <1>12 DEF MarkParticipantReady
  <2>1. EmptyBeforeSession'
    BY DEF EmptyBeforeSession
  <2>2. SessionCoherent'
    BY DEF SessionCoherent, EmptyBeforeSession, RouteKnown
  <2>3. ReservationHasPart'
    BY DEF ReservationHasPart, RouteKnown, SessionCoherent, EmptyBeforeSession,
           DebtsAreDue, PendingIsReserved
  <2> QED
    BY <2>1, <2>2, <2>3 DEF RouteKnown, VisitorOwnerInOneSession,
           PendingIsReserved, DebtsAreDue
<1>13. ASSUME NEW u \in Users, NEW i \in Visits, LeaveRoom(u, i) PROVE IInv'
  <2> USE <1>13 DEF LeaveRoom
  <2>1. EmptyBeforeSession'
    BY DEF EmptyBeforeSession
  <2>2. SessionCoherent'
    BY DEF SessionCoherent, EmptyBeforeSession, RouteKnown
  <2>3. PendingIsReserved'
    BY Kinds, Dropped DEF PendingIsReserved, RouteKnown, DebtsAreDue
  <2>4. ReservationHasPart'
    BY Kinds, Dropped DEF ReservationHasPart, RouteKnown, SessionCoherent,
           EmptyBeforeSession, DebtsAreDue, PendingIsReserved
  <2>5. DebtsAreDue'
    BY Kinds, Dropped DEF DebtsAreDue, SessionCoherent
  <2> QED
    BY <2>1, <2>2, <2>3, <2>4, <2>5 DEF RouteKnown, VisitorOwnerInOneSession
<1>14. ASSUME NEW i \in Visits, InvitationLapses(i) PROVE IInv'
  <2> USE <1>14 DEF InvitationLapses
  <2>1. RouteKnown'
    BY DEF RouteKnown
  <2>2. SessionCoherent'
    BY DEF SessionCoherent, EmptyBeforeSession, RouteKnown
  <2>3. PendingIsReserved'
    BY DEF PendingIsReserved, RouteKnown, DebtsAreDue
  <2>4. DebtsAreDue'
    BY DEF DebtsAreDue, SessionCoherent
  <2> QED
    BY <2>1, <2>2, <2>3, <2>4 DEF EmptyBeforeSession, VisitorOwnerInOneSession,
           ReservationHasPart
<1>15. ASSUME NEW item \in todo["cleanup"], CleanupInvitation(item) PROVE IInv'
  <2> USE <1>15 DEF CleanupInvitation
  <2>1. RouteKnown'
    BY DEF RouteKnown
  <2>2. SessionCoherent'
    BY DEF SessionCoherent, EmptyBeforeSession, RouteKnown
  <2>3. PendingIsReserved'
    BY DEF PendingIsReserved, RouteKnown, DebtsAreDue
  <2>4. DebtsAreDue'
    BY DEF DebtsAreDue, SessionCoherent
  <2> QED
    BY <2>1, <2>2, <2>3, <2>4 DEF EmptyBeforeSession, VisitorOwnerInOneSession,
           ReservationHasPart
<1>16. ASSUME NEW item \in todo["cleanup"], CleanupJoin(item) PROVE IInv'
  <2> USE <1>16 DEF CleanupJoin
  <2>1. DebtsAreDue'
    BY DEF DebtsAreDue, SessionCoherent
  <2> QED
    BY <2>1 DEF RouteKnown, EmptyBeforeSession, SessionCoherent,
           VisitorOwnerInOneSession, PendingIsReserved, ReservationHasPart
<1>17. ASSUME NEW w \in Workers, NEW item \in todo[w], ClaimSession(w, item)
       PROVE  IInv'
  <2> USE <1>17 DEF ClaimSession, StillAsSeen
  <2>1. EmptyBeforeSession'
    <3>1. \A j \in Visits : session'[j] = "none" => session[j] = "none" OBVIOUS
    <3> QED BY <3>1 DEF EmptyBeforeSession
  <2>2. SessionCoherent'
    BY DEF SessionCoherent, EmptyBeforeSession, RouteKnown
  <2>3. VisitorOwnerInOneSession'
    <3>1. \A j \in Visits : Live(j)' => Live(j) OBVIOUS
    <3> QED BY <3>1 DEF VisitorOwnerInOneSession
  <2>4. DebtsAreDue'
    BY DEF DebtsAreDue, SessionCoherent
  <2> QED
    BY <2>1, <2>2, <2>3, <2>4 DEF RouteKnown, PendingIsReserved,
           ReservationHasPart
<1>18. ASSUME NEW w \in Workers, PayDebt(w) PROVE IInv'
  BY <1>18, PayDebtInv
<1>19. ASSUME NEW u \in Users, RevokeCompanionVisits(u) PROVE IInv'
  <2> USE <1>19 DEF RevokeCompanionVisits
  <2>1. RouteKnown'
    BY DEF RouteKnown
  <2>2. EmptyBeforeSession'
    BY DEF EmptyBeforeSession
  <2>3. SessionCoherent'
    BY DEF SessionCoherent, EmptyBeforeSession, RouteKnown
  <2>4. VisitorOwnerInOneSession'
    BY DEF VisitorOwnerInOneSession, SessionCoherent, RouteKnown
  <2>5. PendingIsReserved'
    BY Kinds, Dropped DEF PendingIsReserved, RouteKnown, DebtsAreDue
  <2>6. ReservationHasPart'
    BY Kinds, Dropped DEF ReservationHasPart, RouteKnown, SessionCoherent,
           EmptyBeforeSession, DebtsAreDue, PendingIsReserved
  <2>7. DebtsAreDue'
    BY Kinds, Dropped DEF DebtsAreDue, SessionCoherent
  <2> QED
    BY <2>1, <2>2, <2>3, <2>4, <2>5, <2>6, <2>7 DEF IInv
<1>20. ASSUME NEW late \in SUBSET Latecomers, NEW back \in Acknowledging(GuestRooms),
              DeleteAccount(late, back)
       PROVE  IInv'
  BY <1>20, DeleteAccountInv
<1>33. ASSUME NEW u \in Users, BeginDeletion(u) PROVE IInv'
  BY <1>33 DEF BeginDeletion, RouteKnown, EmptyBeforeSession, SessionCoherent,
         VisitorOwnerInOneSession, PendingIsReserved, ReservationHasPart, DebtsAreDue
<1>34. ASSUME RollBackDeletion PROVE IInv'
  BY <1>34 DEF RollBackDeletion, RouteKnown, EmptyBeforeSession, SessionCoherent,
         VisitorOwnerInOneSession, PendingIsReserved, ReservationHasPart, DebtsAreDue
<1>21. ASSUME NEW i \in Visits, AdminEndSession(i) PROVE IInv'
  <2> USE <1>21 DEF AdminEndSession
  <2>1. EmptyBeforeSession'
    BY DEF EmptyBeforeSession
  <2>2. SessionCoherent'
    BY DEF SessionCoherent, EmptyBeforeSession, RouteKnown
  <2>3. VisitorOwnerInOneSession'
    BY DEF VisitorOwnerInOneSession, SessionCoherent, RouteKnown
  <2>4. DebtsAreDue'
    BY DEF DebtsAreDue, SessionCoherent
  <2> QED
    BY <2>1, <2>2, <2>3, <2>4 DEF RouteKnown, PendingIsReserved,
           ReservationHasPart
<1>22. ASSUME NEW i \in Visits, AdminCancelInvitation(i) PROVE IInv'
  <2> USE <1>22 DEF AdminCancelInvitation
  <2>1. RouteKnown'
    BY DEF RouteKnown
  <2>2. SessionCoherent'
    BY DEF SessionCoherent, EmptyBeforeSession, RouteKnown
  <2>3. PendingIsReserved'
    BY DEF PendingIsReserved, RouteKnown, DebtsAreDue
  <2>4. DebtsAreDue'
    BY DEF DebtsAreDue, SessionCoherent
  <2> QED
    BY <2>1, <2>2, <2>3, <2>4 DEF EmptyBeforeSession, VisitorOwnerInOneSession,
           ReservationHasPart
<1>23. ASSUME Crash PROVE IInv'
  <2> USE <1>23 DEF Crash
  <2>1. DebtsAreDue'
    BY DEF DebtsAreDue, SessionCoherent
  <2> QED
    BY <2>1 DEF RouteKnown, EmptyBeforeSession, SessionCoherent,
           VisitorOwnerInOneSession, PendingIsReserved, ReservationHasPart
<1>24. ASSUME NEW u \in Users, NEW i \in Visits, JoinRequestLapses(u, i) PROVE IInv'
  BY <1>24, Bystander DEF JoinRequestLapses, visitVars
<1>25. CASE Quiet
  BY <1>25, QuietStep, Bystander
<1>26. CASE InvitationRequests
  BY <1>26, <1>1, <1>2, <1>3, <1>4 DEF InvitationRequests
<1>27. CASE SessionRequests
  BY <1>27, <1>5, <1>6, <1>7, <1>8, <1>25 DEF Quiet, SessionRequests
<1>28. CASE JoinRequests \/ RoomRequests
  BY <1>28, <1>9, <1>10, <1>11, <1>12, <1>13 DEF JoinRequests, RoomRequests
<1>29. CASE Time
  BY <1>29, <1>14, <1>25, <1>24 DEF Quiet, Time
<1>30. CASE CleanupPass \/ RequestSweep
  BY <1>30, <1>15, <1>16, <1>25, <1>17, <1>18 DEF Quiet, CleanupPass,
         RequestSweep
<1>31. CASE Social
  BY <1>31, <1>25 DEF Quiet, Social
<1>32. CASE Leaks \/ CleanupConflict
  BY <1>32, <1>21, <1>22, <1>23 DEF Leaks, CleanupConflict,
         AdminReconcileSession, CleanupJoinConflict
<1>35. CASE Deletion
  BY <1>35, <1>20, <1>33, <1>34 DEF Deletion, DeletionRequests, DeletionEnds
<1> QED
  BY <1>19, <1>26, <1>27, <1>28, <1>29, <1>30, <1>31, <1>32, <1>35 DEF Next, Everyday, Service

-----------------------------------------------------------------------------
(* The invariant holds of the whole system, leaks and crashes included.    *)
THEOREM Invariance == Spec => []IInv
<1>1. Init => IInv
  BY NullsAssumption
     DEF Init, IInv, TypeOK, InvitationStatus, SessionState, ParticipantState, JoinStatus,
         Reservation, NoReservation, Outgoing, Participant, Item, Debt, NoDebt, Live, Present,
         RouteKnown, EmptyBeforeSession, SessionCoherent, VisitorOwnerInOneSession,
         PendingIsReserved, ReservationHasPart, DebtsAreDue, DeletionAware, NoDeletion, AccountDeletion
<1>2. IInv /\ [Next]_vars => IInv'
  <2> SUFFICES ASSUME IInv, [Next]_vars PROVE IInv'
    OBVIOUS
  <2>1. CASE Next BY <2>1, StepInv
  <2>2. CASE UNCHANGED vars
    <3>1. TypeOK' BY <2>2 DEF IInv, TypeOK, vars
    <3> QED BY <2>2, <3>1, Bystander DEF vars, visitVars
  <2> QED BY <2>1, <2>2
<1> QED BY <1>1, <1>2, PTL DEF Spec

(* Rows keep the statuses the code knows, and workers hold only rows they  *)
(* have read.                                                              *)
THEOREM TypeCorrectness == Spec => []TypeOK
  BY Invariance, PTL DEF IInv

(* A pending invitation holds its visitor owner's reservation: the check   *)
(* of acceptInvitation on the owner's reservation never fails for a        *)
(* pending invitation.                                                     *)
THEOREM PendingInvitationsAreReserved == Spec => []PendingIsReserved
  BY Invariance, PTL DEF IInv

(* A reservation belongs to the visitor owner of the invitation or to a    *)
(* participant who has not left, whatever is interrupted or leaks, but for *)
(* the guests a deleteAccount under way has stranded.                      *)
THEOREM ReservationsHavePart == Spec => []ReservationHasPart
  BY Invariance, PTL DEF IInv

(* The visitor owner of a live session takes part in no other session, as  *)
(* visitor owner or as host, for any number of sessions.                   *)
THEOREM VisitorOwnersAreExclusive == Spec => []VisitorOwnerInOneSession
  BY Invariance, PTL DEF IInv

(* A session exists exactly for an accepted invitation, is ready only when *)
(* both sides acknowledged, and admits guests only from then on.           *)
THEOREM SessionsAreCoherent == Spec => []SessionCoherent
  BY Invariance, PTL DEF IInv

=============================================================================
