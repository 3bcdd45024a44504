--------------------------- MODULE VisitSevering ---------------------------
(***************************************************************************)
(* What removeFriend, blockUser and unpublish do to the visit between two  *)
(* people while requests on that visit are half way through.               *)
(*                                                                         *)
(* VisitRooms takes every locking transaction as one step. Severing needs  *)
(* a closer look: it reads and writes other rows than the visit requests   *)
(* do, so which row locks make one wait for the other decides the outcome. *)
(* Here a visit request is split into "its checks passed, its locks are    *)
(* held" and "it commits", and severing into its transaction, the read of  *)
(* the live session, and the conditional update that claims it.            *)
(*                                                                         *)
(* One route and one invitation are enough: a pair has at most one live    *)
(* session. PostgreSQL runs at READ COMMITTED: a statement sees what was   *)
(* committed when it started, and an update that waited for a row lock     *)
(* evaluates its condition again. Nobody befriends, unblocks or publishes  *)
(* again within the window the module looks at.                            *)
(***************************************************************************)

CONSTANT Severers   \* the severing requests under way in an instance

Severing == {"removeFriend", "blockUser", "unpublish"}

ASSUME SeverersAssumption == Severers \subseteq Severing

VARIABLES
  friends,      \* both friendship rows exist
  blocked,      \* a BlockedUser row exists
  published,    \* NetworkCompanion.published of the visitor's Companion
  invitation,   \* VisitInvitation.status
  session,      \* VisitSession.state, "none" before the acceptance commits
  acks,         \* which of visitorOwnerReadyAt and hostReadyAt are set
  tx,           \* how far each visit request has got
  sever,        \* how far each severing request has got
  seen          \* the session state its sweep read

vars == <<friends, blocked, published, invitation, session, acks, tx, sever, seen>>

LiveState == {"preparing", "ready", "active"}
SessionTx == {"owner", "host", "start"}   \* markReady by either side, startSession
Answered  == {"done", "missed"}           \* the severing request returned

TypeOK ==
  /\ {friends, blocked, published} \subseteq BOOLEAN
  /\ invitation \in {"pending", "accepted", "cancelled"}
  /\ session \in LiveState \cup {"none", "ended", "cancelled"}
  /\ acks \subseteq {"owner", "host"}
  /\ tx \in [SessionTx \cup {"accept"} -> {"idle", "eligible", "checked"}]
  /\ sever \in [Severers -> {"idle", "asked", "severed", "found", "lost"} \cup Answered]
  /\ seen \in [Severers -> LiveState \cup {"none"}]

Live     == session \in LiveState
Eligible == friends /\ ~blocked   \* assertEligible

Ended(s) == IF s = "active" THEN "ended" ELSE "cancelled"

-----------------------------------------------------------------------------
(* Row locks held by requests that have not committed *)

(* mutant: the foreign-key check of the new block waits for nobody *)
UsersNeverLocked == FALSE

(* lockParticipants: both User rows, until the acceptance ends *)
UsersLocked == tx["accept"] # "idle"

(* SELECT ... FROM "VisitInvitation" ... FOR UPDATE, for as long *)
InvitationLocked == tx["accept"] # "idle"

(* mutant: lockCompanion is missing from the acceptance *)
CompanionNeverLocked == FALSE

(* lockCompanion: taken by the acceptance after its eligibility check *)
CompanionLocked == tx["accept"] = "checked"

(* mutant: the claim overtakes a request in progress *)
SessionNeverLocked == FALSE

(* SELECT ... FROM "VisitSession" ... FOR UPDATE *)
SessionLocked == \E r \in SessionTx : tx[r] # "idle"

-----------------------------------------------------------------------------
(* acceptInvitation *)

AcceptEligible ==
  /\ tx["accept"] = "idle"
  /\ invitation = "pending"
  /\ Eligible
  /\ tx' = [tx EXCEPT !["accept"] = "eligible"]
  /\ UNCHANGED <<friends, blocked, published, invitation, session, acks, sever, seen>>

(* the Companion is locked and must still be published *)
AcceptChecked ==
  /\ tx["accept"] = "eligible"
  /\ tx' = [tx EXCEPT !["accept"] = IF published THEN "checked" ELSE "idle"]
  /\ UNCHANGED <<friends, blocked, published, invitation, session, acks, sever, seen>>

AcceptCommits ==
  /\ tx["accept"] = "checked"
  /\ tx' = [tx EXCEPT !["accept"] = "idle"]
  /\ invitation' = "accepted"
  /\ session' = "preparing"
  /\ UNCHANGED <<friends, blocked, published, acks, sever, seen>>

-----------------------------------------------------------------------------
(* markReady, startSession and endSession *)

SessionChecked(r) ==
  /\ session = IF r = "start" THEN "ready" ELSE "preparing"
  /\ ~SessionLocked
  /\ Eligible
  /\ tx' = [tx EXCEPT ![r] = "checked"]
  /\ UNCHANGED <<friends, blocked, published, invitation, session, acks, sever, seen>>

ReadyCommits(role) ==
  /\ tx[role] = "checked"
  /\ tx' = [tx EXCEPT ![role] = "idle"]
  /\ acks' = acks \cup {role}
  /\ session' = IF acks \cup {role} = {"owner", "host"} THEN "ready" ELSE session
  /\ UNCHANGED <<friends, blocked, published, invitation, sever, seen>>

StartCommits ==
  /\ tx["start"] = "checked"
  /\ tx' = [tx EXCEPT !["start"] = "idle"]
  /\ session' = "active"
  /\ UNCHANGED <<friends, blocked, published, invitation, acks, sever, seen>>

(* no eligibility check, so nothing can come between check and commit *)
EndSession ==
  /\ Live
  /\ ~SessionLocked
  /\ session' = Ended(session)
  /\ UNCHANGED <<friends, blocked, published, invitation, acks, tx, sever, seen>>

-----------------------------------------------------------------------------
(* removeFriend, blockUser, unpublish *)

(* What they look at before their transaction. Unpublishing is the         *)
(* administrator's: the owner's is refused while the Companion is reserved.*)
Ask(s) ==
  /\ sever[s] = "idle"
  /\ s = "removeFriend" => friends
  /\ s = "blockUser" => ~blocked
  /\ sever' = [sever EXCEPT ![s] = "asked"]
  /\ UNCHANGED <<friends, blocked, published, invitation, session, acks, tx, seen>>

(* the friendship rows are deleted; no row the visit requests lock *)
RemoveFriendship ==
  /\ "removeFriend" \in Severers
  /\ sever["removeFriend"] = "asked"
  /\ friends' = FALSE
  /\ sever' = [sever EXCEPT !["removeFriend"] = "severed"]
  /\ UNCHANGED <<blocked, published, invitation, session, acks, tx, seen>>

(* the insert's foreign keys need the two User rows *)
CreateBlock ==
  /\ "blockUser" \in Severers
  /\ sever["blockUser"] = "asked"
  /\ ~UsersLocked
  /\ blocked' = TRUE
  /\ friends' = FALSE
  /\ sever' = [sever EXCEPT !["blockUser"] = "severed"]
  /\ UNCHANGED <<published, invitation, session, acks, tx, seen>>

Unpublish ==
  /\ "unpublish" \in Severers
  /\ sever["unpublish"] = "asked"
  /\ ~CompanionLocked
  /\ published' = FALSE
  /\ sever' = [sever EXCEPT !["unpublish"] = "severed"]
  /\ UNCHANGED <<friends, blocked, invitation, session, acks, tx, seen>>

(* endSessionsBetween and revokeCompanionVisits read the live sessions *)
FindSessions(s) ==
  /\ sever[s] = "severed"
  /\ seen' = [seen EXCEPT ![s] = IF Live THEN session ELSE "none"]
  /\ sever' = [sever EXCEPT ![s] = "found"]
  /\ UNCHANGED <<friends, blocked, published, invitation, session, acks, tx>>

(* where: { id, state: session.state } *)
StillAsSeen(s) == session = seen[s]

(* revokeCompanionVisits also cancels the invitation, for which it waits   *)
(* for an acceptance that holds the row                                    *)
ClaimSessions(s) ==
  /\ sever[s] = "found"
  /\ seen[s] # "none" => ~SessionLocked
  /\ s = "unpublish" => ~InvitationLocked
  /\ session' = IF seen[s] # "none" /\ StillAsSeen(s) THEN Ended(session) ELSE session
  /\ invitation' = IF s = "unpublish" /\ invitation = "pending"
                   THEN "cancelled" ELSE invitation
  /\ sever' = [sever EXCEPT ![s] = IF seen[s] = "none" \/ StillAsSeen(s) \/ ~Live
                                   THEN "done" ELSE "missed"]
  /\ UNCHANGED <<friends, blocked, published, acks, tx, seen>>

(* the process dies: open transactions are rolled back, sweeps are lost *)
Crash ==
  /\ tx' = [r \in DOMAIN tx |-> "idle"]
  /\ sever' = [s \in Severers |-> IF sever[s] = "asked" THEN "idle"
                                  ELSE IF sever[s] \in {"severed", "found"} THEN "lost"
                                  ELSE sever[s]]
  /\ UNCHANGED <<friends, blocked, published, invitation, session, acks, seen>>

-----------------------------------------------------------------------------
Init ==
  /\ friends = TRUE
  /\ blocked = FALSE
  /\ published = TRUE
  /\ invitation = "pending"
  /\ session = "none"
  /\ acks = {}
  /\ tx = [r \in SessionTx \cup {"accept"} |-> "idle"]
  /\ sever = [s \in Severers |-> "idle"]
  /\ seen = [s \in Severers |-> "none"]

Next ==
  \/ AcceptEligible \/ AcceptChecked \/ AcceptCommits
  \/ \E r \in SessionTx : SessionChecked(r)
  \/ \E role \in {"owner", "host"} : ReadyCommits(role)
  \/ StartCommits
  \/ EndSession
  \/ \E s \in Severers : Ask(s) \/ FindSessions(s) \/ ClaimSessions(s)
  \/ RemoveFriendship \/ CreateBlock \/ Unpublish
  \/ Crash

Spec == Init /\ [][Next]_vars

-----------------------------------------------------------------------------
(* Properties *)

(* A block and an unpublishing are serialised with acceptance by the User  *)
(* and Companion rows: a session is never born after either.               *)
NoBirthAfterSevering ==
  [][session = "none" /\ session' # "none" => ~blocked /\ published]_vars

(* After a block or an unpublishing the only live session left is one      *)
(* whose state changed between the sweep's read and its claim, or whose    *)
(* sweep was lost in a crash.                                              *)
OnlyMissedSurvives ==
  \A s \in Severers \cap {"blockUser", "unpublish"} : sever[s] = "done" => ~Live

(* A survivor is frozen: once blockUser has returned, no visit request,    *)
(* not even one whose checks had passed before the block, moves the        *)
(* session on; it can only be ended.                                       *)
BlockFreezesSession ==
  [][("blockUser" \in Severers /\ sever["blockUser"] \in Answered) =>
       session' = session \/ session' \in {"ended", "cancelled"}]_vars

=============================================================================
