-------------------------- MODULE VisitRoomsProofs --------------------------
(***************************************************************************)
(* What follows from the inductive invariant: which steps rows and rooms   *)
(* may take, the capacity of rooms, and, under the two restricted          *)
(* specifications, that a host keeps its room and that no reservation      *)
(* outlives what it stands for.                                            *)
(***************************************************************************)
EXTENDS VisitRoomsInvariant, FiniteSetTheorems

USE DEF rowVars, roomVars, socialVars, workVars,
        Pending, LiveState, TerminalState, PresentState, Workers

-----------------------------------------------------------------------------

(* A step of OnlyForward.                                                  *)
Forward ==
  \A i \in Visits :
    /\ session'[i] # session[i] => Rank(session[i]) < Rank(session'[i])
    /\ invitation[i] \notin Pending \cup {"none"} => invitation'[i] = invitation[i]

(* A step of NoEntryAfterEnd.                                              *)
NoEntry ==
  \A i \in Visits : session[i] \in TerminalState =>
    \A u \in Users : u \notin Present(i) => participant'[i][u] = participant[i][u]

(* How a room may fill: with the two people of the route, not at all, or   *)
(* by one guest while a seat is free.                                      *)
Seating ==
  \A k \in Visits : session'[k] # "none" =>
    \/ Present(k)' \subseteq {visitor[k], host[k]}
    \/ /\ session[k] # "none"
       /\ Present(k)' \subseteq Present(k)
    \/ /\ session[k] # "none"
       /\ RoomHasSeat(k)
       /\ \E u \in Users : Present(k)' \subseteq Present(k) \cup {u}

(* What every step respects.                                               *)
Lawful == Forward /\ NoEntry /\ Seating

(* A step that leaves invitations, sessions and participants alone         *)
(* respects it.                                                            *)
LEMMA LawfulUntouched ==
  ASSUME TypeOK, UNCHANGED <<session, invitation, participant>>
  PROVE  Lawful
  BY DEF Lawful, Forward, NoEntry, Seating, Present, RoomHasSeat

(* Emptying a room lets nobody in, whoever stays behind in it.             *)
LEMMA EmptyingIsLawful ==
  ASSUME IInv, NEW S \in SUBSET Visits, NEW back \in Acknowledging(S),
         participant' = EmptiedBut(S, back),
         \A i \in Visits : session[i] = "none" => session'[i] = "none"
  PROVE  NoEntry /\ Seating
<1>1. \A i \in Visits, p \in Users :
        /\ participant'[i][p] = "none" <=> participant[i][p] = "none"
        /\ participant'[i][p] \in PresentState => participant[i][p] \in PresentState
  BY RoomEmptied DEF IInv
<1>2. \A i \in Visits, p \in Users :
        participant[i][p] \notin PresentState => participant'[i][p] = participant[i][p]
  <2> SUFFICES ASSUME NEW i \in Visits, NEW p \in Users, participant[i][p] \notin PresentState
               PROVE  participant'[i][p] = participant[i][p]
    OBVIOUS
  <2>1. participant[i][p] \in {"none", "left"} /\ participant'[i][p] \in ParticipantState
    BY RoomEmptied DEF IInv, TypeOK, ParticipantState
  <2> QED BY <1>1, <2>1 DEF ParticipantState
<1> QED BY <1>1, <1>2 DEF NoEntry, Seating, Present

(* Every step of the system respects it.                                   *)
LEMMA LawfulStep ==
  IInv /\ Next => Lawful
<1> SUFFICES ASSUME IInv, Next PROVE Lawful
  OBVIOUS
<1>01. TypeOK /\ SessionCoherent /\ EmptyBeforeSession
  BY DEF IInv
<1> USE <1>01
    DEF TypeOK, InvitationStatus, SessionState, ParticipantState, JoinStatus, Item, Debt,
        NoDebt, Live, Present, Terminated, Emptied, EmptiedRooms, JoinMoves, MayRefresh,
        SessionCoherent, EmptyBeforeSession
<1>1. ASSUME NEW v \in Users, NEW h \in Users, NEW i \in Visits, CreateInvitation(v, h, i)
      PROVE  Lawful
  BY <1>1 DEF Lawful, Forward, Rank, NoEntry, Seating, CreateInvitation, Unreserved
<1>2. ASSUME NEW i \in Visits, AcceptInvitation(i) PROVE Lawful
  <2>1. invitation[i] = "pending" /\ session[i] = "none" BY <1>2 DEF AcceptInvitation
  <2>2. Forward BY <1>2, <2>1 DEF Forward, Rank, AcceptInvitation, Displaced
  <2>3. NoEntry BY <1>2, <2>1 DEF NoEntry, AcceptInvitation
  <2>4. Seating BY <1>2, <2>1 DEF Seating, AcceptInvitation
  <2> QED BY <2>2, <2>3, <2>4 DEF Lawful
<1>3. ASSUME NEW i \in Visits, AcceptLapsedInvitation(i) PROVE Lawful
  BY <1>3 DEF Lawful, Forward, Rank, NoEntry, Seating, AcceptLapsedInvitation
<1>4. ASSUME NEW i \in Visits, NEW status \in {"declined", "cancelled"}, RespondToInvitation(i, status)
      PROVE  Lawful
  BY <1>4 DEF Lawful, Forward, Rank, NoEntry, Seating, RespondToInvitation
<1>5. ASSUME NEW i \in Visits, NEW role \in {"owner", "host"}, MarkReady(i, role)
      PROVE  Lawful
  BY <1>5 DEF Lawful, Forward, Rank, NoEntry, Seating, MarkReady
<1>6. ASSUME NEW i \in Visits, StartSession(i) PROVE Lawful
  BY <1>6 DEF Lawful, Forward, Rank, NoEntry, Seating, StartSession
<1>7. ASSUME NEW i \in Visits, EndSession(i) PROVE Lawful
  BY <1>7 DEF Lawful, Forward, Rank, NoEntry, Seating, EndSession
<1>8. ASSUME NEW i \in Visits, CompleteRoom(i) PROVE Lawful
  BY <1>8 DEF Lawful, Forward, Rank, NoEntry, Seating, CompleteRoom
<1>9. ASSUME NEW u \in Users, NEW i \in Visits, AcceptJoinRequest(u, i) PROVE Lawful
  BY <1>9 DEF Lawful, Forward, Rank, NoEntry, Seating, AcceptJoinRequest, Joinable
<1>10. ASSUME NEW u \in Users, NEW i \in Visits, MarkParticipantReady(u, i)
       PROVE  Lawful
  BY <1>10 DEF Lawful, Forward, Rank, NoEntry, Seating, MarkParticipantReady
<1>11. ASSUME NEW u \in Users, NEW i \in Visits, LeaveRoom(u, i) PROVE Lawful
  BY <1>11 DEF Lawful, Forward, Rank, NoEntry, Seating, LeaveRoom, MayLeave
<1>12. ASSUME NEW i \in Visits, InvitationLapses(i) PROVE Lawful
  BY <1>12 DEF Lawful, Forward, Rank, NoEntry, Seating, InvitationLapses
<1>13. ASSUME NEW item \in todo["cleanup"], CleanupInvitation(item) PROVE Lawful
  BY <1>13 DEF Lawful, Forward, Rank, NoEntry, Seating, CleanupInvitation
<1>14. ASSUME NEW w \in Workers, NEW item \in todo[w], ClaimSession(w, item)
       PROVE  Lawful
  BY <1>14 DEF Lawful, Forward, Rank, NoEntry, Seating, ClaimSession, StillAsSeen
<1>15. ASSUME NEW w \in Workers, PayDebt(w) PROVE Lawful
  <2>1. CASE owed[w].step # "participants"
    BY <1>15, <2>1, LawfulUntouched DEF PayDebt
  <2>2. CASE owed[w].step = "participants"
    <3>1. PICK back \in Acknowledging({owed[w].visit}) :
            participant' = EmptiedBut({owed[w].visit}, back)
      BY <1>15, <2>2 DEF PayDebt
    <3>2. UNCHANGED <<invitation, session>> /\ {owed[w].visit} \in SUBSET Visits
      BY <1>15, <2>2 DEF PayDebt
    <3>3. NoEntry /\ Seating BY <3>1, <3>2, EmptyingIsLawful
    <3> QED BY <3>2, <3>3 DEF Lawful, Forward
  <2> QED BY <2>1, <2>2
<1>16. ASSUME NEW u \in Users, RevokeCompanionVisits(u) PROVE Lawful
  BY <1>16 DEF Lawful, Forward, Rank, NoEntry, Seating, RevokeCompanionVisits
<1>17. ASSUME NEW late, NEW back \in Acknowledging(GuestRooms), DeleteAccount(late, back)
       PROVE  Lawful
  <2>1. Forward BY <1>17 DEF Forward, Rank, DeleteAccount
  <2>2. back \in Acknowledging(deleting.rooms) /\ deleting.rooms \in SUBSET Visits
    BY <1>17 DEF Acknowledging, GuestRooms, AccountDeletion
  <2>3. participant' = EmptiedBut(deleting.rooms, back)
    BY <1>17 DEF DeleteAccount
  <2>4. \A i \in Visits : session[i] = "none" => session'[i] = "none"
    BY <1>17 DEF DeleteAccount
  <2>5. NoEntry /\ Seating BY <2>2, <2>3, <2>4, EmptyingIsLawful
  <2> QED BY <2>1, <2>5 DEF Lawful
<1>18. ASSUME NEW i \in Visits, AdminEndSession(i) PROVE Lawful
  BY <1>18 DEF Lawful, Forward, Rank, NoEntry, Seating, AdminEndSession
<1>19. ASSUME NEW i \in Visits, AdminCancelInvitation(i) PROVE Lawful
  BY <1>19 DEF Lawful, Forward, Rank, NoEntry, Seating, AdminCancelInvitation
<1>20. CASE Quiet
  BY <1>20, QuietStep, LawfulUntouched DEF visitVars
<1>21. ASSUME NEW u \in Users, NEW i \in Visits, CreateJoinRequest(u, i)
       PROVE  Lawful
  BY <1>21, LawfulUntouched DEF CreateJoinRequest
<1>22. ASSUME NEW u \in Users, NEW i \in Visits, NEW status \in {"declined", "cancelled"}, RespondJoinRequest(u, i, status)
       PROVE  Lawful
  BY <1>22, LawfulUntouched DEF RespondJoinRequest
<1>23. ASSUME NEW u \in Users, NEW i \in Visits, JoinRequestLapses(u, i)
       PROVE  Lawful
  BY <1>23, LawfulUntouched DEF JoinRequestLapses
<1>24. ASSUME NEW item \in todo["cleanup"], CleanupJoin(item) PROVE Lawful
  BY <1>24, LawfulUntouched DEF CleanupJoin
<1>25. ASSUME Crash PROVE Lawful
  BY <1>25, LawfulUntouched DEF Crash
<1>26. CASE InvitationRequests
  BY <1>26, <1>1, <1>2, <1>3, <1>4 DEF InvitationRequests
<1>27. CASE SessionRequests
  BY <1>27, <1>5, <1>6, <1>7, <1>8, <1>20 DEF Quiet, SessionRequests
<1>28. CASE JoinRequests \/ RoomRequests
  BY <1>28, <1>21, <1>9, <1>22, <1>10, <1>11 DEF JoinRequests, RoomRequests
<1>29. CASE Time
  BY <1>29, <1>12, <1>23, <1>20 DEF Quiet, Time
<1>30. CASE CleanupPass \/ RequestSweep
  BY <1>30, <1>20, <1>13, <1>24, <1>14, <1>15 DEF Quiet, CleanupPass, RequestSweep
<1>31. CASE Social
  BY <1>31, <1>20 DEF Quiet, Social
<1>32. CASE Deletion
  <2>1. ASSUME RollBackDeletion \/ \E u \in Users : BeginDeletion(u) PROVE Lawful
    BY <2>1, LawfulUntouched DEF RollBackDeletion, BeginDeletion
  <2> QED BY <1>32, <1>17, <2>1 DEF Deletion, DeletionRequests, DeletionEnds
<1>33. CASE Leaks \/ CleanupConflict
  BY <1>33, <1>18, <1>19, <1>25 DEF Leaks, CleanupConflict, AdminReconcileSession,
         CleanupJoinConflict
<1> QED
  BY <1>26, <1>27, <1>28, <1>29, <1>30, <1>31, <1>16, <1>32, <1>33 DEF Next,
         Everyday, Service

(* A room that fills that way stays within its capacity.                   *)
LEMMA CapacityStep == IInv /\ RoomWithinCapacity /\ Seating => RoomWithinCapacity'
<1> SUFFICES ASSUME IInv, RoomWithinCapacity, Seating, NEW k \in Visits, session'[k] # "none"
             PROVE  Cardinality(Present(k)') <= RoomCapacity
  BY DEF RoomWithinCapacity
<1>1. IsFiniteSet(Present(k)) /\ IsFiniteSet(Present(k)')
  <2>1. Present(k) \subseteq Users /\ Present(k)' \subseteq Users BY DEF Present
  <2> QED BY <2>1, FiniteUsers, FS_Subset
<1>2. Cardinality(Present(k)) \in Nat /\ Cardinality(Present(k)') \in Nat
  BY <1>1, FS_CardinalityType
<1>3. CASE Present(k)' \subseteq {visitor[k], host[k]}
  <2>1. /\ IsFiniteSet({visitor[k], host[k]})
        /\ Cardinality({visitor[k], host[k]}) <= 2
    <3>1. IsFiniteSet({visitor[k]}) /\ Cardinality({visitor[k]}) = 1
      BY FS_Singleton
    <3> HIDE DEF IInv
    <3>2. /\ IsFiniteSet({visitor[k]} \cup {host[k]})
          /\ Cardinality({visitor[k]} \cup {host[k]}) \in {1, 2}
      BY <3>1, FS_AddElement
    <3> QED BY <3>2, {visitor[k], host[k]} = {visitor[k]} \cup {host[k]}
  <2>2. Cardinality(Present(k)') <= Cardinality({visitor[k], host[k]})
    BY <1>3, <2>1, FS_Subset
  <2> QED BY <1>2, <2>1, <2>2, CapacityAssumption, FS_CardinalityType
<1>4. CASE session[k] # "none" /\ Present(k)' \subseteq Present(k)
  <2>1. Cardinality(Present(k)') <= Cardinality(Present(k)) BY <1>1, <1>4, FS_Subset
  <2> QED BY <1>2, <1>4, <2>1, CapacityAssumption DEF RoomWithinCapacity
<1>5. ASSUME RoomHasSeat(k), NEW u \in Users, Present(k)' \subseteq Present(k) \cup {u}
      PROVE  Cardinality(Present(k)') <= RoomCapacity
  <2>1. /\ IsFiniteSet(Present(k) \cup {u})
        /\ Cardinality(Present(k) \cup {u}) \in {Cardinality(Present(k)), Cardinality(Present(k)) + 1}
    BY <1>1, FS_AddElement
  <2>2. Cardinality(Present(k)') <= Cardinality(Present(k) \cup {u})
    BY <1>5, <2>1, FS_Subset
  <2> QED BY <1>2, <1>5, <2>1, <2>2, CapacityAssumption DEF RoomHasSeat
<1> QED BY <1>3, <1>4, <1>5 DEF Seating

(* Sessions and invitations only move forward, whatever a stale worker or  *)
(* a late request tries.                                                   *)
THEOREM RowsMoveForward == Spec => OnlyForward
<1>1. IInv /\ [Next]_vars => [Forward]_vars
  BY LawfulStep DEF Lawful
<1>2. Spec => [][Forward]_vars
  BY <1>1, Invariance, PTL DEF Spec
<1> QED BY <1>2 DEF OnlyForward, Forward

(* Nobody enters a room that is over.                                      *)
THEOREM ClosedRoomsStayClosed == Spec => NoEntryAfterEnd
<1>1. IInv /\ [Next]_vars => [NoEntry]_vars
  BY LawfulStep DEF Lawful
<1>2. Spec => [][NoEntry]_vars
  BY <1>1, Invariance, PTL DEF Spec
<1> QED BY <1>2 DEF NoEntryAfterEnd, NoEntry

(* A room never exceeds roomCapacity, for any capacity of at least the two *)
(* people of the route and any number of users.                            *)
THEOREM RoomsStayWithinCapacity == Spec => []RoomWithinCapacity
<1>1. Init => RoomWithinCapacity
  BY DEF Init, RoomWithinCapacity
<1>2. IInv /\ RoomWithinCapacity /\ [Next]_vars => RoomWithinCapacity'
  <2>1. IInv /\ RoomWithinCapacity /\ Next => RoomWithinCapacity'
    BY LawfulStep, CapacityStep DEF Lawful
  <2>2. RoomWithinCapacity /\ UNCHANGED vars => RoomWithinCapacity'
    BY DEF RoomWithinCapacity, Present, vars
  <2> QED BY <2>1, <2>2
<1> QED BY <1>1, <1>2, Invariance, PTL DEF Spec

-----------------------------------------------------------------------------

(* A step that leaves sessions, participants and reservations alone takes  *)
(* no host out of a room.                                                  *)
LEMMA HostUntouched ==
  ASSUME HostHoldsRoom, UNCHANGED <<session, host, participant, reservation>>
  PROVE  HostHoldsRoom'
  BY DEF HostHoldsRoom, Live

(* Without account deletions, no step takes a host out of a live room or   *)
(* frees a host's reservation.                                             *)
LEMMA HostStep ==
  IInv /\ HostHoldsRoom /\ (Everyday \/ Social \/ Leaks \/ CleanupConflict) => HostHoldsRoom'
<1> SUFFICES ASSUME IInv, HostHoldsRoom, Everyday \/ Social \/ Leaks \/ CleanupConflict
             PROVE  HostHoldsRoom'
  OBVIOUS
<1>01. \A k \in Visits : Live(k) => host[k] \in Users
  BY DEF IInv, SessionCoherent, RouteKnown, Live, TypeOK, SessionState
<1>02. TypeOK /\ DebtsAreDue /\ SessionCoherent
  BY DEF IInv
<1> USE <1>01, <1>02
    DEF TypeOK, InvitationStatus, SessionState, ParticipantState, JoinStatus, Item, Debt,
        NoDebt, Live, Present, Terminated, Emptied, EmptiedRooms, JoinMoves, MayRefresh

<1>1. ASSUME NEW v \in Users, NEW h \in Users, NEW i \in Visits, CreateInvitation(v, h, i)
      PROVE  HostHoldsRoom'
  <2>1. ~Live(i) BY <1>1 DEF CreateInvitation, SessionCoherent
  <2> QED BY <1>1, <2>1, Kinds DEF HostHoldsRoom, CreateInvitation, Unreserved
<1>2. ASSUME NEW i \in Visits, AcceptInvitation(i) PROVE HostHoldsRoom'
  BY <1>2, Kinds, Dropped DEF HostHoldsRoom, AcceptInvitation, Unreserved, Displaced
<1>3. ASSUME NEW i \in Visits, AcceptLapsedInvitation(i) PROVE HostHoldsRoom'
  BY <1>3, Kinds, Dropped DEF HostHoldsRoom, AcceptLapsedInvitation
<1>4. ASSUME NEW i \in Visits, NEW status \in {"declined", "cancelled"}, RespondToInvitation(i, status)
      PROVE  HostHoldsRoom'
  BY <1>4, Kinds, Dropped DEF HostHoldsRoom, RespondToInvitation
<1>5. ASSUME NEW i \in Visits, NEW role \in {"owner", "host"}, MarkReady(i, role)
      PROVE  HostHoldsRoom'
  BY <1>5, Kinds DEF HostHoldsRoom, MarkReady
<1>6. ASSUME NEW i \in Visits, StartSession(i) PROVE HostHoldsRoom'
  BY <1>6, Kinds DEF HostHoldsRoom, StartSession
<1>7. ASSUME NEW i \in Visits, EndSession(i) PROVE HostHoldsRoom'
  BY <1>7, Kinds, Dropped DEF HostHoldsRoom, EndSession
<1>8. ASSUME NEW i \in Visits, CompleteRoom(i) PROVE HostHoldsRoom'
  BY <1>8, Kinds, Dropped DEF HostHoldsRoom, CompleteRoom
<1>9. ASSUME NEW u \in Users, NEW i \in Visits, CreateJoinRequest(u, i)
      PROVE  HostHoldsRoom'
  BY <1>9, Kinds DEF HostHoldsRoom, CreateJoinRequest, Joinable, Unreserved
<1>10. ASSUME NEW u \in Users, NEW i \in Visits, AcceptJoinRequest(u, i)
       PROVE  HostHoldsRoom'
  BY <1>10, Kinds DEF HostHoldsRoom, AcceptJoinRequest, Joinable
<1>11. ASSUME NEW u \in Users, NEW i \in Visits, NEW status \in {"declined", "cancelled"}, RespondJoinRequest(u, i, status)
       PROVE  HostHoldsRoom'
  BY <1>11, Kinds, DroppedJoin DEF HostHoldsRoom, RespondJoinRequest
<1>12. ASSUME NEW u \in Users, NEW i \in Visits, MarkParticipantReady(u, i)
       PROVE  HostHoldsRoom'
  BY <1>12, Kinds DEF HostHoldsRoom, MarkParticipantReady
<1>13. ASSUME NEW u \in Users, NEW i \in Visits, LeaveRoom(u, i)
       PROVE  HostHoldsRoom'
  BY <1>13, Kinds DEF HostHoldsRoom, LeaveRoom, MayLeave
<1>14. ASSUME NEW w \in Workers, NEW item \in todo[w], ClaimSession(w, item)
       PROVE  HostHoldsRoom'
  BY <1>14, Kinds DEF HostHoldsRoom, ClaimSession, StillAsSeen
<1>15. ASSUME NEW w \in Workers, PayDebt(w) PROVE HostHoldsRoom'
  <2>1. session' = session /\ host' = host BY <1>15 DEF PayDebt
  <2>2. ASSUME NEW k \in Visits, Live(k)
        PROVE  /\ reservation'[host[k]] = reservation[host[k]]
               /\ participant'[k][host[k]] = participant[k][host[k]]
    <3>1. /\ host[k] \in Users /\ reservation[host[k]] = Participant(k)
          /\ owed[w].step \in {"reservations", "participants"} => owed[w].visit # k
      BY <2>2 DEF HostHoldsRoom, DebtsAreDue
    <3>2. reservation'[host[k]] = reservation[host[k]]
      BY <1>15, <2>2, <3>1, Kinds, Dropped, DroppedJoin DEF PayDebt
    <3>3. participant'[k][host[k]] = participant[k][host[k]]
      <4>1. CASE owed[w].step # "participants" BY <1>15, <4>1 DEF PayDebt
      <4>2. CASE owed[w].step = "participants"
        <5>1. PICK back \in Acknowledging({owed[w].visit}) :
                participant' = EmptiedBut({owed[w].visit}, back)
          BY <1>15, <4>2 DEF PayDebt
        <5>2. {owed[w].visit} \in SUBSET Visits /\ k \notin {owed[w].visit}
          BY <1>15, <3>1, <4>2 DEF PayDebt
        <5> HIDE DEF TypeOK, ParticipantState, Debt, NoDebt, Item
        <5> QED BY <1>02, <3>1, <5>1, <5>2, RoomEmptied
      <4> QED BY <4>1, <4>2
    <3> QED BY <3>2, <3>3
  <2> QED BY <2>1, <2>2 DEF HostHoldsRoom
<1>16. ASSUME NEW u \in Users, RevokeCompanionVisits(u) PROVE HostHoldsRoom'
  BY <1>16, Kinds, Dropped DEF HostHoldsRoom, RevokeCompanionVisits
<1>17. ASSUME NEW i \in Visits, AdminEndSession(i) PROVE HostHoldsRoom'
  BY <1>17, Kinds DEF HostHoldsRoom, AdminEndSession
<1>18. CASE Quiet
  BY <1>18, QuietStep, HostUntouched DEF visitVars
<1>19. ASSUME NEW i \in Visits, InvitationLapses(i) PROVE HostHoldsRoom'
  BY <1>19, HostUntouched DEF InvitationLapses
<1>20. ASSUME NEW u \in Users, NEW i \in Visits, JoinRequestLapses(u, i)
       PROVE  HostHoldsRoom'
  BY <1>20, HostUntouched DEF JoinRequestLapses
<1>21. ASSUME NEW item \in todo["cleanup"], CleanupInvitation(item)
       PROVE  HostHoldsRoom'
  BY <1>21, HostUntouched DEF CleanupInvitation
<1>22. ASSUME NEW item \in todo["cleanup"], CleanupJoin(item) PROVE HostHoldsRoom'
  BY <1>22, HostUntouched DEF CleanupJoin
<1>23. ASSUME NEW i \in Visits, AdminCancelInvitation(i) PROVE HostHoldsRoom'
  BY <1>23, HostUntouched DEF AdminCancelInvitation
<1>24. ASSUME Crash PROVE HostHoldsRoom'
  BY <1>24, HostUntouched DEF Crash
<1>25. CASE InvitationRequests
  BY <1>25, <1>1, <1>2, <1>3, <1>4 DEF InvitationRequests
<1>26. CASE SessionRequests
  BY <1>26, <1>5, <1>6, <1>7, <1>8, <1>18 DEF Quiet, SessionRequests
<1>27. CASE JoinRequests \/ RoomRequests
  BY <1>27, <1>9, <1>10, <1>11, <1>12, <1>13 DEF JoinRequests, RoomRequests
<1>28. CASE Time
  BY <1>28, <1>19, <1>20, <1>18 DEF Quiet, Time
<1>29. CASE CleanupPass \/ RequestSweep
  BY <1>29, <1>18, <1>21, <1>22, <1>14, <1>15 DEF Quiet, CleanupPass, RequestSweep
<1>30. CASE Social
  BY <1>30, <1>18 DEF Quiet, Social
<1>31. CASE Leaks \/ CleanupConflict
  BY <1>31, <1>17, <1>23, <1>24 DEF Leaks, CleanupConflict, AdminReconcileSession,
         CleanupJoinConflict
<1> QED
  BY <1>25, <1>26, <1>27, <1>28, <1>29, <1>30, <1>16, <1>31 DEF Everyday, Service

(* As long as no account is deleted, the host of a live room is in it and  *)
(* reserved for it, through crashes, leaks and stale workers.              *)
THEOREM HostsHoldTheirRooms == SteadySpec => []HostHoldsRoom
<1> DEFINE Allowed == Everyday \/ Social \/ Leaks \/ CleanupConflict
<1>1. Init => HostHoldsRoom
  BY DEF Init, HostHoldsRoom, Live
<1>2. Allowed => Next
  BY DEF Next
<1>3. IInv /\ HostHoldsRoom /\ [Allowed]_vars => HostHoldsRoom'
  <2>1. HostHoldsRoom /\ UNCHANGED vars => HostHoldsRoom'
    BY HostUntouched DEF vars
  <2> QED BY <2>1, HostStep
<1>4. SteadySpec => Spec
  <2>1. [Allowed]_vars => [Next]_vars BY <1>2
  <2> QED BY <2>1, PTL DEF SteadySpec, Spec
<1> QED BY <1>1, <1>3, <1>4, Invariance, PTL DEF SteadySpec

-----------------------------------------------------------------------------

(* A step that leaves visits, requests, reservations and debts alone       *)
(* leaves no reservation behind.                                           *)
LEMMA CurrentUntouched ==
  ASSUME ReservationIsCurrent, UNCHANGED <<invitation, session, joinRequest, reservation, owed>>
  PROVE  ReservationIsCurrent'
  BY DEF ReservationIsCurrent, Current, Live, Releasing

(* deleteAccount deletes the reservations for what it read before, which   *)
(* is all it cancels or ends when it commits.                              *)
LEMMA DeletionKeepsCurrent ==
  ASSUME IInv, ReservationIsCurrent, NEW late \in SUBSET Latecomers, NEW back,
         DeleteAccount(late, back)
  PROVE  ReservationIsCurrent'
<1> DEFINE u == deleting.user
<1>1. u \in Users /\ deleting.rooms \in SUBSET Visits
  BY DEF DeleteAccount, IInv, DeletionAware, TypeOK, AccountDeletion
<1>2. \A i \in Visits :
        /\ invitation[i] \in Pending /\ i \notin deleting.sent => invitation'[i] = invitation[i]
        /\ Live(i) /\ ~(u \in {visitor[i], host[i]} /\ i \in deleting.rooms) =>
             session'[i] = session[i]
  BY <1>1 DEF DeleteAccount, IInv, DeletionAware
<1>3. \A p \in Users :
        reservation'[p] = IF p = u \/ DropOutgoing(deleting.sent)[p] = NoReservation
                          THEN NoReservation
                          ELSE IF p \in late THEN reservation[p]
                          ELSE DropSession(deleting.rooms)[p]
  BY DEF DeleteAccount
<1>4. \A p \in Users : reservation'[p] \in {reservation[p], NoReservation}
  BY <1>3 DEF DropOutgoing, DropSession
<1>5. \A i \in Visits, p \in Users : p # u => joinRequest'[i][p] = joinRequest[i][p]
  BY DEF DeleteAccount, IInv, TypeOK
<1>6. owed' = owed
  BY DEF DeleteAccount
<1> SUFFICES ASSUME NEW p \in Users, NEW i \in Visits PROVE Current(p, i)'
  BY DEF ReservationIsCurrent
<1>7. Current(p, i) BY DEF ReservationIsCurrent
<1>8. ASSUME reservation'[p] = Outgoing(i)
      PROVE  invitation'[i] \in Pending \/ Releasing("invitation", i, NoUser)'
  <2>1. reservation[p] = Outgoing(i) BY <1>4, <1>8, Kinds
  <2>2. i \notin deleting.sent BY <1>3, <1>8, <2>1, Dropped, Kinds
  <2> QED BY <1>2, <1>6, <1>7, <2>1, <2>2 DEF Current, Releasing
<1>9. ASSUME reservation'[p] = Join(i)
      PROVE  joinRequest'[i][p] \cap Pending # {} \/ Releasing("join", i, p)'
  <2>1. reservation[p] = Join(i) /\ p # u BY <1>3, <1>4, <1>9, Kinds
  <2> QED BY <1>5, <1>6, <1>7, <2>1 DEF Current, Releasing
<1>10. ASSUME reservation'[p] = Participant(i)
       PROVE  Live(i)' \/ Releasing("reservations", i, NoUser)'
  <2>1. reservation[p] = Participant(i) BY <1>4, <1>10, Kinds
  <2>2. ~(u \in {visitor[i], host[i]} /\ i \in deleting.rooms)
    <3>1. CASE p \in late
      <4>1. PICK k \in GuestRooms : reservation[p] \in {Join(k), Participant(k)}
        BY <3>1 DEF Latecomers
      <4>2. k \in Visits /\ u \notin {visitor[k], host[k]} BY <1>1 DEF GuestRooms
      <4> QED BY <2>1, <4>1, <4>2, Kinds
    <3>2. CASE p \notin late
      <4>1. DropSession(deleting.rooms)[p] = Participant(i) BY <1>3, <1>10, <3>2, Kinds
      <4> QED BY <4>1, Dropped
    <3> QED BY <3>1, <3>2
  <2> QED BY <1>2, <1>6, <1>7, <2>1, <2>2 DEF Current, Releasing, Live
<1> QED BY <1>8, <1>9, <1>10 DEF Current

(* Unless an operation leaks, no step leaves a reservation behind.         *)
LEMMA CurrentStep ==
  IInv /\ ReservationIsCurrent /\ (Everyday \/ Social \/ Deletion) => ReservationIsCurrent'
<1> SUFFICES ASSUME IInv, ReservationIsCurrent, Everyday \/ Social \/ Deletion
             PROVE  ReservationIsCurrent'
  OBVIOUS
<1>02. TypeOK
  BY DEF IInv
<1>03. \A p \in Users, k \in Visits : reservation[p] = Outgoing(k) => visitor[k] = p
  BY DEF IInv, ReservationHasPart
<1> USE <1>02
    DEF TypeOK, InvitationStatus, SessionState, ParticipantState, JoinStatus, Item, Debt,
        NoDebt, Live, Present, Terminated, Emptied, EmptiedRooms, JoinMoves, MayRefresh

<1>1. ASSUME NEW v \in Users, NEW h \in Users, NEW i \in Visits, CreateInvitation(v, h, i)
      PROVE  ReservationIsCurrent'
  BY <1>1, Kinds DEF ReservationIsCurrent, Current, Releasing, CreateInvitation,
         Unreserved
<1>2. ASSUME NEW i \in Visits, AcceptInvitation(i) PROVE ReservationIsCurrent'
  <2>1. ASSUME NEW p \in Users, NEW k \in Visits, reservation'[p] = Outgoing(k)
        PROVE  k # i /\ k \notin Displaced(i) /\ reservation[p] = Outgoing(k)
    BY <1>2, <2>1, Kinds, Dropped, <1>03 DEF AcceptInvitation
  <2>2. ASSUME NEW p \in Users, NEW k \in Visits, reservation'[p] = Join(k)
        PROVE  reservation[p] = Join(k)
    BY <1>2, <2>2, Kinds, Dropped DEF AcceptInvitation
  <2>3. ASSUME NEW p \in Users, NEW k \in Visits, reservation'[p] = Participant(k)
        PROVE  k = i \/ reservation[p] = Participant(k)
    BY <1>2, <2>3, Kinds, Dropped DEF AcceptInvitation
  <2> QED BY <1>2, <2>1, <2>2, <2>3 DEF ReservationIsCurrent, Current, Releasing, AcceptInvitation
<1>3. ASSUME NEW i \in Visits, AcceptLapsedInvitation(i) PROVE ReservationIsCurrent'
  BY <1>3, Kinds, Dropped DEF ReservationIsCurrent, Current, Releasing,
         AcceptLapsedInvitation
<1>4. ASSUME NEW i \in Visits, NEW status \in {"declined", "cancelled"}, RespondToInvitation(i, status)
      PROVE  ReservationIsCurrent'
  BY <1>4, Kinds, Dropped DEF ReservationIsCurrent, Current, Releasing,
         RespondToInvitation
<1>5. ASSUME NEW i \in Visits, NEW role \in {"owner", "host"}, MarkReady(i, role)
      PROVE  ReservationIsCurrent'
  BY <1>5, Kinds DEF ReservationIsCurrent, Current, Releasing, MarkReady
<1>6. ASSUME NEW i \in Visits, StartSession(i) PROVE ReservationIsCurrent'
  BY <1>6, Kinds DEF ReservationIsCurrent, Current, Releasing, StartSession
<1>7. ASSUME NEW i \in Visits, EndSession(i) PROVE ReservationIsCurrent'
  BY <1>7, Kinds, Dropped DEF ReservationIsCurrent, Current, Releasing, EndSession
<1>8. ASSUME NEW i \in Visits, CompleteRoom(i) PROVE ReservationIsCurrent'
  BY <1>8, Kinds, Dropped DEF ReservationIsCurrent, Current, Releasing, CompleteRoom
<1>9. ASSUME NEW u \in Users, NEW i \in Visits, CreateJoinRequest(u, i)
      PROVE  ReservationIsCurrent'
  <2>1. \A p \in Users, k \in Visits : joinRequest[k][p] \subseteq joinRequest'[k][p]
    BY <1>9 DEF CreateJoinRequest
  <2>2. "pending" \in joinRequest'[i][u] BY <1>9 DEF CreateJoinRequest
  <2>3. \A p \in Users \ {u} : reservation'[p] = reservation[p]
    BY <1>9 DEF CreateJoinRequest
  <2>4. reservation'[u] = Join(i) BY <1>9 DEF CreateJoinRequest
  <2>5. UNCHANGED <<invitation, session, owed>> BY <1>9 DEF CreateJoinRequest
  <2> HIDE <1>02 DEF TypeOK, Pending, LiveState
  <2>6. joinRequest'[i][u] \cap Pending # {} BY <2>2 DEF Pending
  <2>7. \A p \in Users, k \in Visits :
          joinRequest[k][p] \cap Pending # {} => joinRequest'[k][p] \cap Pending # {}
    BY <2>1
  <2>8. \A k \in Visits : reservation'[u] \notin {Outgoing(k), Participant(k)}
    BY <2>4, Kinds
  <2>9. \A k \in Visits : reservation'[u] = Join(k) => joinRequest'[k][u] \cap Pending # {}
    BY <2>4, <2>6, Kinds
  <2> HIDE <1>9
  <2>10. \A k \in Visits : Current(u, k)' BY <2>8, <2>9 DEF Current
  <2>11. \A p \in Users \ {u}, k \in Visits : Current(p, k) => Current(p, k)'
    BY <2>3, <2>5, <2>7 DEF Current, Releasing
  <2> QED BY <2>10, <2>11 DEF ReservationIsCurrent
<1>10. ASSUME NEW u \in Users, NEW i \in Visits, AcceptJoinRequest(u, i)
       PROVE  ReservationIsCurrent'
  BY <1>10, Kinds DEF ReservationIsCurrent, Current, Releasing, AcceptJoinRequest,
         Joinable
<1>11. ASSUME NEW u \in Users, NEW i \in Visits, NEW status \in {"declined", "cancelled"}, RespondJoinRequest(u, i, status)
       PROVE  ReservationIsCurrent'
  BY <1>11, Kinds, DroppedJoin DEF ReservationIsCurrent, Current, Releasing,
         RespondJoinRequest
<1>12. ASSUME NEW u \in Users, NEW i \in Visits, LeaveRoom(u, i)
       PROVE  ReservationIsCurrent'
  BY <1>12, Kinds DEF ReservationIsCurrent, Current, Releasing, LeaveRoom, MayLeave
<1>13. ASSUME NEW i \in Visits, InvitationLapses(i) PROVE ReservationIsCurrent'
  BY <1>13, Kinds DEF ReservationIsCurrent, Current, Releasing, InvitationLapses
<1>14. ASSUME NEW u \in Users, NEW i \in Visits, JoinRequestLapses(u, i)
       PROVE  ReservationIsCurrent'
  <2>1. \A p \in Users, k \in Visits :
          joinRequest[k][p] \cap Pending # {} => joinRequest'[k][p] \cap Pending # {}
    BY <1>14 DEF JoinRequestLapses
  <2>2. UNCHANGED <<invitation, session, owed, reservation>> BY <1>14 DEF JoinRequestLapses
  <2> HIDE <1>02 DEF TypeOK, Pending, LiveState
  <2> QED BY <2>1, <2>2 DEF ReservationIsCurrent, Current, Releasing
<1>15. ASSUME NEW item \in todo["cleanup"], CleanupInvitation(item)
       PROVE  ReservationIsCurrent'
  BY <1>15, Kinds DEF ReservationIsCurrent, Current, Releasing, CleanupInvitation
<1>16. ASSUME NEW item \in todo["cleanup"], CleanupJoin(item)
       PROVE  ReservationIsCurrent'
  <2>1. CASE "lapsed" \in joinRequest[item.visit][item.user]
    <3>1. \A p \in Users, k \in Visits : p # item.user \/ k # item.visit =>
            joinRequest'[k][p] = joinRequest[k][p]
      BY <1>16, <2>1 DEF CleanupJoin
    <3>2. /\ owed["cleanup"] = NoDebt
          /\ owed'["cleanup"] = [step |-> "join", visit |-> item.visit, user |-> item.user]
          /\ owed'["request"] = owed["request"]
      BY <1>16, <2>1 DEF CleanupJoin
    <3>3. ASSUME NEW step \in {"invitation", "join", "reservations"}, NEW k, NEW p
          PROVE  (\E w \in Workers : owed[w] = [step |-> step, visit |-> k, user |-> p])
                   => \E w \in Workers : owed'[w] = [step |-> step, visit |-> k, user |-> p]
      BY <3>2
    <3>4. \E w \in Workers : owed'[w] = [step |-> "join", visit |-> item.visit, user |-> item.user]
      BY <3>2
    <3>5. UNCHANGED <<invitation, session, reservation>> BY <1>16 DEF CleanupJoin
    <3> HIDE <1>02, <1>16, <2>1 DEF TypeOK, Pending, LiveState
    <3>6. ASSUME NEW p \in Users, NEW k \in Visits, Current(p, k)
          PROVE  Current(p, k)'
      <4> HIDE DEF Workers
      <4>1. CASE p = item.user /\ k = item.visit
        BY <3>3, <3>4, <3>5, <3>6, <4>1 DEF Current, Releasing
      <4>2. CASE p # item.user \/ k # item.visit
        BY <3>1, <3>3, <3>5, <3>6, <4>2 DEF Current, Releasing
      <4> QED BY <4>1, <4>2
    <3> QED BY <3>6 DEF ReservationIsCurrent
  <2>2. CASE "lapsed" \notin joinRequest[item.visit][item.user]
    BY <1>16, <2>2, CurrentUntouched DEF CleanupJoin
  <2> QED BY <2>1, <2>2
<1>17. ASSUME NEW w \in Workers, NEW item \in todo[w], ClaimSession(w, item)
       PROVE  ReservationIsCurrent'
  BY <1>17, Kinds DEF ReservationIsCurrent, Current, Releasing, ClaimSession,
         StillAsSeen
<1>18. ASSUME NEW w \in Workers, PayDebt(w) PROVE ReservationIsCurrent'
  BY <1>18, Kinds, Dropped, DroppedJoin DEF ReservationIsCurrent, Current,
         Releasing, PayDebt
<1>19. ASSUME NEW u \in Users, RevokeCompanionVisits(u) PROVE ReservationIsCurrent'
  BY <1>19, Kinds, Dropped DEF ReservationIsCurrent, Current, Releasing,
         RevokeCompanionVisits
<1>20. ASSUME NEW late \in SUBSET Latecomers, NEW back, DeleteAccount(late, back)
       PROVE  ReservationIsCurrent'
  BY <1>20, DeletionKeepsCurrent
<1>21. CASE Quiet
  BY <1>21, QuietStep, CurrentUntouched DEF visitVars
<1>22. ASSUME NEW u \in Users, NEW i \in Visits, MarkParticipantReady(u, i)
       PROVE  ReservationIsCurrent'
  BY <1>22, CurrentUntouched DEF MarkParticipantReady
<1>23. CASE InvitationRequests
  BY <1>23, <1>1, <1>2, <1>3, <1>4 DEF InvitationRequests
<1>24. CASE SessionRequests
  BY <1>24, <1>5, <1>6, <1>7, <1>8, <1>21 DEF Quiet, SessionRequests
<1>25. CASE JoinRequests \/ RoomRequests
  BY <1>25, <1>9, <1>10, <1>11, <1>22, <1>12 DEF JoinRequests, RoomRequests
<1>26. CASE Time
  BY <1>26, <1>13, <1>14, <1>21 DEF Quiet, Time
<1>27. CASE CleanupPass \/ RequestSweep
  BY <1>27, <1>21, <1>15, <1>16, <1>17, <1>18 DEF Quiet, CleanupPass, RequestSweep
<1>28. CASE Social
  BY <1>28, <1>21 DEF Quiet, Social
<1>29. CASE Deletion
  <2>1. ASSUME RollBackDeletion \/ \E u \in Users : BeginDeletion(u) PROVE ReservationIsCurrent'
    BY <2>1, CurrentUntouched DEF RollBackDeletion, BeginDeletion
  <2> QED BY <1>29, <1>20, <2>1 DEF Deletion, DeletionRequests, DeletionEnds
<1> QED
  BY <1>23, <1>24, <1>25, <1>26, <1>27, <1>28, <1>19, <1>29 DEF Everyday, Service

(* As long as the process does not die and no administrator ends a row,    *)
(* every reservation stands for something pending or live, or is about to  *)
(* be deleted by a worker.                                                 *)
THEOREM ReservationsStayCurrent == CarefulSpec => []ReservationIsCurrent
<1> DEFINE Allowed == Everyday \/ Social \/ Deletion
<1>1. Init => ReservationIsCurrent
  BY DEF Init, ReservationIsCurrent, Live, Current, NoReservation, Outgoing,
         Participant, Join
<1>2. Allowed => Next
  BY DEF Next
<1>3. IInv /\ ReservationIsCurrent /\ [Allowed]_vars => ReservationIsCurrent'
  <2>1. ReservationIsCurrent /\ UNCHANGED vars => ReservationIsCurrent'
    BY CurrentUntouched DEF vars
  <2> QED BY <2>1, CurrentStep
<1>4. CarefulSpec => Spec
  <2>1. [Allowed]_vars => [Next]_vars BY <1>2
  <2> QED BY <2>1, PTL DEF CarefulSpec, Spec
<1> QED BY <1>1, <1>3, <1>4, Invariance, PTL DEF CarefulSpec

=============================================================================
