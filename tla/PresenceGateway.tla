--------------------------- MODULE PresenceGateway ---------------------------
(***************************************************************************)
(* The presence of one user: PresenceGateway's socket maps and timers, and *)
(* the Presence row it writes. All its maps are keyed by user, so users do *)
(* not meet.                                                               *)
(*                                                                         *)
(* JavaScript runs without interruption between two awaits. An activation  *)
(* that is waiting for the database is a task; its query is answered       *)
(* (Answer, Land) before the code behind the await runs, and queries of    *)
(* different tasks are answered in any order. socket.disconnect puts the   *)
(* socket in closing; handleDisconnect takes it from there.                *)
(*                                                                         *)
(* A write may fail. Where somebody catches the rejection the process goes *)
(* on (LandFails): the callers of disconnectUser do, and Nest does for     *)
(* presence.activity. Everywhere else nobody handles the promise, which    *)
(* ends the process: see Crash.                                            *)
(***************************************************************************)
EXTENDS Naturals, FiniteSets

CONSTANTS
  Sockets,
  Devices,
  NoSocket,    \* a task that is about no socket in particular
  DeviceOf,    \* client.data.deviceId of each socket
  Tasks,       \* activations that may be waiting at the same time
  MaxLogins    \* bound on the sessions that become active again

ASSUME PresenceAssumption ==
  /\ DeviceOf \in [Sockets -> Devices]
  /\ NoSocket \notin Sockets
  /\ MaxLogins \in Nat

Status == {"online", "idle", "offline"}

Kind == {"free",
         "connect", "published", "recheck",     \* handleConnection, by its awaits
         "write",                               \* publishPresence
         "aggregate", "aggregated", "returned", \* publishAggregatePresence
         "validate", "activity"}                \* validateClientSession

(***************************************************************************)
(* asked: the sockets whose session query has no answer yet; bad: those    *)
(* answered with false; then: what follows the write of status out;        *)
(* revoked: userRevocationGeneration is no longer the one it captured;     *)
(* caught: somebody handles the rejection when its write fails.            *)
(***************************************************************************)
Task ==
  [kind : Kind, socket : Sockets \union {NoSocket}, revoked : BOOLEAN, asked : SUBSET Sockets,
   bad : SUBSET Sockets, out : Status, then : {"free", "published", "aggregated", "returned"},
   caught : BOOLEAN]

VARIABLES
  active,       \* devices whose durable session isSessionActive accepts
  status,       \* Presence.status
  connected,    \* sockets with client.connected
  closing,      \* disconnected sockets whose handleDisconnect has not run
  registered,   \* userSockets
  pending,      \* pendingSockets that are not invalidated
  recent,       \* sockets whose socketActivity is younger than the idle time
  offlineTimer, \* offlineTimers has the user
  idleTimer,    \* activityTimers has the user
  validation,   \* sockets with a validation timer
  task,
  calls,        \* revocations committed whose disconnectUser/Device is to come
  logins,
  refused       \* history: the last write of all failed, and the user is still shown

memory == <<connected, closing, registered, pending, recent, offlineTimer, idleTimer,
            validation>>
vars == <<active, status, memory, task, calls, logins, refused>>

Free ==
  [kind |-> "free", socket |-> NoSocket, revoked |-> FALSE,
   asked |-> {}, bad |-> {}, out |-> "offline", then |-> "free", caught |-> FALSE]

TypeOK ==
  /\ active \subseteq Devices
  /\ status \in Status
  /\ connected \subseteq Sockets /\ closing \subseteq Sockets
  /\ registered \subseteq Sockets /\ pending \subseteq Sockets /\ recent \subseteq Sockets
  /\ validation \subseteq Sockets
  /\ offlineTimer \in BOOLEAN /\ idleTimer \in BOOLEAN
  /\ task \in [Tasks -> Task]
  /\ calls \subseteq Devices \union {"user"}
  /\ logins \in 0 .. MaxLogins
  /\ refused \in BOOLEAN

-----------------------------------------------------------------------------
(* Tasks *)

FreeTasks == {t \in Tasks : task[t].kind = "free"}

Asking(kind, s, S) ==
  [Free EXCEPT !.kind = kind, !.socket = s, !.asked = S]

(* publishPresence: the upsert is sent; the answers t had are used *)
Writing(out, then, t) == [t EXCEPT !.kind = "write", !.out = out, !.then = then, !.bad = {}]

(* publishAggregatePresence up to its first await *)
Aggregating == Asking("aggregate", NoSocket, registered)

WritingOffline == \E t \in Tasks : task[t].kind = "write" /\ task[t].out = "offline"

(* the code behind the await of kind k runs: every answer is there *)
Resumes(t, k) == task[t].kind = k /\ task[t].asked = {}

Becomes(t, new) == task' = [task EXCEPT ![t] = new]

-----------------------------------------------------------------------------
(* The maps *)

(***************************************************************************)
(* canPromotePendingConnection. Whoever bumps a generation drops the       *)
(* entries that captured it in the same breath, so an entry that is still  *)
(* there has the current generations.                                      *)
(***************************************************************************)
CanPromote(s) == s \in pending /\ s \in connected

(* dropPendingConnection(_, true), socket.disconnect(true) *)
Close(S) ==
  /\ connected' = connected \ S
  /\ closing' = closing \union (S \intersect connected)

(* mutant: the idle check is never scheduled *)
NoIdleCheck(R, A) == FALSE

(* scheduleIdleCheck with the sockets R and the activity A *)
IdleCheck(R, A) == R \intersect A # {}

(***************************************************************************)
(* The abort path of handleConnection: removeRegisteredSocket,             *)
(* dropPendingConnection and reconcilePresenceAfterAbort.                  *)
(***************************************************************************)
Abort(t, s) ==
  LET left == registered \ {s} IN
  /\ registered' = left
  /\ pending' = pending \ {s}
  /\ recent' = recent \ {s}
  /\ validation' = validation \ {s}
  /\ Close({s})
  /\ IF left # {}
       THEN /\ Becomes(t, [Asking("aggregate", NoSocket, left) EXCEPT !.then = "free"])
            /\ UNCHANGED <<offlineTimer, idleTimer>>
       ELSE /\ offlineTimer' = FALSE /\ idleTimer' = FALSE
            /\ Becomes(t, Writing("offline", "free", Free))

-----------------------------------------------------------------------------
(* handleConnection *)

(* a socket that passed the handshake: registerPendingConnection *)
Connect(s, t) ==
  /\ s \notin connected \union closing \union registered
  /\ \A u \in Tasks : task[u].kind # "free" => s # task[u].socket /\ s \notin task[u].asked
  /\ task[t].kind = "free"
  /\ connected' = connected \union {s}
  /\ pending' = pending \union {s}
  /\ Becomes(t, Asking("connect", s, {s}))
  /\ UNCHANGED <<active, status, closing, registered, recent, offlineTimer, idleTimer,
                 validation, calls, logins, refused>>

(* the session is active and nothing was revoked meanwhile: register, go online *)
Promote(t) ==
  LET s == task[t].socket IN
  /\ Resumes(t, "connect")
  /\ IF task[t].bad = {} /\ CanPromote(s)
       THEN /\ offlineTimer' = FALSE
            /\ registered' = registered \union {s}
            /\ recent' = recent \union {s}
            /\ Becomes(t, Writing("online", "published", task[t]))
            /\ UNCHANGED <<connected, closing, pending>>
       ELSE /\ pending' = pending \ {s}
            /\ Close({s})
            /\ Becomes(t, Free)
            /\ UNCHANGED <<offlineTimer, registered, recent>>
  /\ UNCHANGED <<active, status, idleTimer, validation, calls, logins, refused>>

(* canPromotePendingConnection, and userSockets has the socket *)
InPlace(s) == CanPromote(s) /\ s \in registered

(* online is written: check again, then ask for the session again *)
Published(t) ==
  LET s == task[t].socket IN
  /\ task[t].kind = "published"
  /\ IF InPlace(s)
       THEN Becomes(t, Asking("recheck", s, {s})) /\ UNCHANGED memory
       ELSE Abort(t, s)
  /\ UNCHANGED <<active, status, calls, logins, refused>>

Settle(t) ==
  LET s == task[t].socket IN
  /\ Resumes(t, "recheck")
  /\ IF task[t].bad = {} /\ InPlace(s)
       THEN /\ pending' = pending \ {s}
            /\ idleTimer' = IdleCheck(registered, recent)
            /\ validation' = validation \union {s}
            /\ Becomes(t, Free)
            /\ UNCHANGED <<connected, closing, registered, recent, offlineTimer>>
       ELSE Abort(t, s)
  /\ UNCHANGED <<active, status, calls, logins, refused>>

-----------------------------------------------------------------------------
(* handleDisconnect *)

Hangup(s) ==
  /\ s \in connected
  /\ Close({s})
  /\ UNCHANGED <<active, status, registered, pending, recent, offlineTimer, idleTimer,
                 validation, task, calls, logins, refused>>

(* setTimeout for PRESENCE_DISCONNECT_GRACE_SECONDS, 45 by default *)
Grace == TRUE

HandleDisconnect(s, t) ==
  LET left == registered \ {s} IN
  /\ s \in closing
  /\ closing' = closing \ {s}
  /\ pending' = pending \ {s}
  /\ registered' = left
  /\ recent' = IF registered = {} THEN recent ELSE recent \ {s}
  /\ validation' = IF registered = {} THEN validation ELSE validation \ {s}
  /\ \/ /\ registered = {}
        /\ UNCHANGED <<offlineTimer, idleTimer, task>>
     \/ /\ left # {} /\ task[t].kind = "free"
        /\ Becomes(t, [Asking("aggregate", NoSocket, left) EXCEPT !.then = "free"])
        /\ UNCHANGED <<offlineTimer, idleTimer>>
     \/ /\ registered # {} /\ left = {}
        /\ idleTimer' = FALSE
        /\ offlineTimer' = Grace
        /\ UNCHANGED task
  /\ UNCHANGED <<active, status, connected, calls, logins, refused>>

(* the grace period ends *)
GraceEnds(t) ==
  /\ offlineTimer
  /\ offlineTimer' = FALSE
  /\ \/ registered # {} /\ UNCHANGED task
     \/ registered = {} /\ task[t].kind = "free" /\ Becomes(t, Writing("offline", "free", Free))
  /\ UNCHANGED <<active, status, connected, closing, registered, pending, recent, idleTimer,
                 validation, calls, logins, refused>>

-----------------------------------------------------------------------------
(* publishAggregatePresence *)

(* the idle time of some socket is over; a write is much shorter than it *)
IdleTimeEnds(t) ==
  /\ idleTimer /\ ~WritingOffline /\ task[t].kind = "free"
  /\ idleTimer' = FALSE
  /\ Becomes(t, Aggregating)
  /\ UNCHANGED <<active, status, connected, closing, registered, pending, recent,
                 offlineTimer, validation, calls, logins, refused>>

(* ... and so is every other activation *)
GoStale(s) ==
  /\ s \in recent /\ FreeTasks = Tasks
  /\ recent' = recent \ {s}
  /\ UNCHANGED <<active, status, connected, closing, registered, pending, offlineTimer,
                 idleTimer, validation, task, calls, logins, refused>>

(* isPresencePublicationCurrent *)
Current(t) == ~task[t].revoked /\ registered # {}

(* the callers run scheduleIdleCheck once this has returned *)
Returned(t, R) ==
  /\ idleTimer' = IF R = {} THEN idleTimer ELSE IdleCheck(R, recent')
  /\ Becomes(t, Free)

(* revalidateUserSockets is answered; the rest up to the write *)
Revalidated(t) ==
  LET left == registered \ task[t].bad
      out == IF left \intersect recent # {} THEN "online" ELSE "idle"
  IN
  /\ Resumes(t, "aggregate")
  /\ registered' = left
  /\ recent' = recent \ task[t].bad
  /\ validation' = validation \ task[t].bad
  /\ Close(task[t].bad)
  /\ \/ /\ left # {} /\ ~task[t].revoked
        /\ Becomes(t, Writing(out, "aggregated", task[t]))
        /\ UNCHANGED <<offlineTimer, idleTimer>>
     \/ /\ left # {} /\ task[t].revoked
        /\ Returned(t, left)
        /\ UNCHANGED offlineTimer
     \/ /\ left = {} /\ task[t].bad # {}
        /\ offlineTimer' = FALSE /\ idleTimer' = FALSE
        /\ Becomes(t, Writing("offline", "returned", [Free EXCEPT !.caught = task[t].caught]))
     \/ /\ left = {} /\ task[t].bad = {}
        /\ Returned(t, left)
        /\ UNCHANGED offlineTimer
  /\ UNCHANGED <<active, status, pending, calls, logins, refused>>

(* publishAggregatePresence has captured a generation it will look at again *)
Captured(t) ==
  \/ task[t].kind \in {"aggregate", "aggregated"}
  \/ task[t].kind = "write" /\ task[t].then = "aggregated"

(* mutant: the late online or idle write is left as it is *)
NotReconciled(t) == FALSE

(* reconcilePresencePublication has something to correct *)
Overtaken(t) == ~Current(t) /\ registered = {}

Reconcile(t) ==
  /\ task[t].kind = "aggregated"
  /\ IF Overtaken(t)
       THEN /\ offlineTimer' = FALSE /\ idleTimer' = FALSE
            /\ Becomes(t, Writing("offline", "returned", [Free EXCEPT !.caught = task[t].caught]))
            /\ UNCHANGED recent
       ELSE UNCHANGED <<offlineTimer, recent>> /\ Returned(t, registered)
  /\ UNCHANGED <<active, status, connected, closing, registered, pending, validation, calls,
                 logins, refused>>

(* the caller's scheduleIdleCheck after the offline write *)
Return(t) ==
  /\ task[t].kind = "returned"
  /\ UNCHANGED recent
  /\ Returned(t, registered)
  /\ UNCHANGED <<active, status, connected, closing, registered, pending, offlineTimer,
                 validation, calls, logins, refused>>

-----------------------------------------------------------------------------
(* validateClientSession: the validation timer, and presence.activity *)

ValidationDue(s, t) ==
  /\ s \in validation /\ task[t].kind = "free"
  /\ validation' = validation \ {s}
  /\ Becomes(t, Asking("validate", s, {s}))
  /\ UNCHANGED <<active, status, connected, closing, registered, pending, recent,
                 offlineTimer, idleTimer, calls, logins, refused>>

(* mutant: a session found active is not validated again *)
ValidatedOnce(s) == validation

(* scheduleSessionValidation again *)
ValidatedAgain(s) == validation \union {s}

Validated(t) ==
  LET s == task[t].socket IN
  /\ Resumes(t, "validate")
  /\ IF task[t].bad # {} THEN Close({s}) ELSE UNCHANGED <<connected, closing>>
  /\ validation' = IF task[t].bad = {} /\ s \in connected \intersect registered
                     THEN ValidatedAgain(s) ELSE validation
  /\ Becomes(t, Free)
  /\ UNCHANGED <<active, status, registered, pending, recent, offlineTimer, idleTimer, calls,
                 logins, refused>>

(* presence.activity, or a notification command of the same socket *)
Activity(s, t) ==
  /\ s \in connected /\ task[t].kind = "free"
  /\ Becomes(t, Asking("activity", s, {s}))
  /\ UNCHANGED <<active, status, memory, calls, logins, refused>>

(* ... which counts unless the last one is less than 15 seconds old *)
HandleActivity(t) ==
  LET s == task[t].socket IN
  /\ Resumes(t, "activity")
  /\ IF task[t].bad # {} THEN Close({s}) ELSE UNCHANGED <<connected, closing>>
  /\ \/ /\ task[t].bad = {} /\ s \in connected \intersect registered
        /\ recent' = recent \union {s}
        /\ Becomes(t, [Aggregating EXCEPT !.caught = TRUE])
     \/ UNCHANGED recent /\ Becomes(t, Free)
  /\ UNCHANGED <<active, status, registered, pending, offlineTimer, idleTimer, validation, calls,
                 logins, refused>>

-----------------------------------------------------------------------------
(* The database answers *)

(* isSessionActive for one socket; a failing query counts as inactive *)
Answer(t, s) ==
  /\ s \in task[t].asked
  /\ task' = [task EXCEPT ![t].asked = @ \ {s},
                          ![t].bad = IF DeviceOf[s] \in active THEN @ ELSE @ \union {s}]
  /\ UNCHANGED <<active, status, memory, calls, logins, refused>>

(* setOnline, setIdle, setOffline: the upsert takes effect *)
Land(t) ==
  /\ task[t].kind = "write"
  /\ status' = task[t].out
  /\ Becomes(t, IF task[t].then = "free" THEN Free
                ELSE [task[t] EXCEPT !.kind = task[t].then, !.out = "offline", !.then = "free"])
  /\ refused' = FALSE
  /\ UNCHANGED <<active, memory, calls, logins>>

(***************************************************************************)
(* publishPresence rejects and somebody catches it: the upsert failed, or  *)
(* it took effect and getFriendIds failed. Nothing behind the await runs.  *)
(***************************************************************************)
LandFails(t) ==
  /\ task[t].kind = "write" /\ task[t].caught
  /\ status' \in {status, task[t].out}
  /\ refused' = (status' # "offline")
  /\ Becomes(t, Free)
  /\ UNCHANGED <<active, memory, calls, logins>>

-----------------------------------------------------------------------------
(* Revocations *)

(* expiresAt passes: no one calls the gateway *)
Expire(d) ==
  /\ d \in active
  /\ active' = active \ {d}
  /\ UNCHANGED <<status, memory, task, calls, logins, refused>>

(* logout, revokeDevice, reuse: committed before disconnectDevice *)
RevokeDevice(d) ==
  /\ d \in active
  /\ active' = active \ {d}
  /\ calls' = calls \union {d}
  /\ UNCHANGED <<status, memory, task, logins, refused>>

(* suspension, account deletion: committed before disconnectUser *)
RevokeUser ==
  /\ active # {}
  /\ active' = {}
  /\ calls' = calls \union {"user"}
  /\ UNCHANGED <<status, memory, task, logins, refused>>

LogIn(d) ==
  /\ d \notin active /\ logins < MaxLogins
  /\ active' = active \union {d}
  /\ logins' = logins + 1
  /\ UNCHANGED <<status, memory, task, calls, refused>>

DisconnectDevice(d) ==
  LET mine == {s \in Sockets : DeviceOf[s] = d} IN
  /\ d \in calls
  /\ calls' = calls \ {d}
  /\ pending' = pending \ mine
  /\ Close(mine \intersect (pending \union registered))
  /\ UNCHANGED <<active, status, registered, recent, offlineTimer, idleTimer, validation, task,
                 logins, refused>>

DisconnectUser(t) ==
  /\ "user" \in calls /\ task[t].kind = "free"
  /\ calls' = calls \ {"user"}
  /\ pending' = {}
  /\ registered' = {}
  /\ recent' = recent \ registered
  /\ validation' = validation \ registered
  /\ offlineTimer' = FALSE /\ idleTimer' = FALSE
  /\ Close(pending \union registered)
  /\ task' = [u \in Tasks |->
                IF u = t THEN [Writing("offline", "free", Free) EXCEPT !.caught = TRUE]
                ELSE [task[u] EXCEPT !.revoked = Captured(u)]]
  /\ UNCHANGED <<active, status, logins, refused>>

(* the process ends; PresenceService.onModuleInit marks everyone offline *)
Crash ==
  /\ connected' = {} /\ closing' = {} /\ registered' = {} /\ pending' = {} /\ recent' = {}
  /\ offlineTimer' = FALSE /\ idleTimer' = FALSE /\ validation' = {}
  /\ task' = [t \in Tasks |-> Free]
  /\ calls' = {}
  /\ status' = "offline"
  /\ refused' = FALSE
  /\ UNCHANGED <<active, logins>>

-----------------------------------------------------------------------------
Init ==
  /\ connected = {} /\ closing = {} /\ registered = {} /\ pending = {} /\ recent = {}
  /\ offlineTimer = FALSE /\ idleTimer = FALSE /\ validation = {}
  /\ task = [t \in Tasks |-> Free]
  /\ calls = {}
  /\ active = Devices
  /\ status = "offline"
  /\ logins = 0
  /\ refused = FALSE

Resume(t) ==
  \/ Promote(t) \/ Published(t) \/ Settle(t) \/ Revalidated(t) \/ Reconcile(t) \/ Return(t)
  \/ Validated(t) \/ HandleActivity(t) \/ Land(t) \/ DisconnectUser(t)
  \/ \E s \in Sockets : Answer(t, s) \/ HandleDisconnect(s, t)

Next ==
  \/ \E t \in Tasks : Resume(t) \/ LandFails(t) \/ GraceEnds(t) \/ IdleTimeEnds(t)
  \/ \E s \in Sockets, t \in Tasks : Connect(s, t) \/ ValidationDue(s, t) \/ Activity(s, t)
  \/ \E s \in Sockets : Hangup(s) \/ GoStale(s)
  \/ \E d \in Devices : Expire(d) \/ RevokeDevice(d) \/ LogIn(d) \/ DisconnectDevice(d)
  \/ RevokeUser \/ Crash

Spec == Init /\ [][Next]_vars

(***************************************************************************)
(* The event loop runs every callback whose await is over, PostgreSQL      *)
(* answers every query, and every timer that is not cleared fires. Strong  *)
(* fairness of the timers makes up for the bound on tasks: a timer needs   *)
(* no free task in the program.                                            *)
(***************************************************************************)
Fairness ==
  /\ \A t \in Tasks : WF_vars(Resume(t))
  /\ SF_vars(\E t \in Tasks : GraceEnds(t))
  /\ SF_vars(\E t \in Tasks : IdleTimeEnds(t))
  /\ \A s \in Sockets : SF_vars(\E t \in Tasks : ValidationDue(s, t))
  /\ \A d \in Devices : WF_vars(DisconnectDevice(d))

FairSpec == Spec /\ Fairness

-----------------------------------------------------------------------------
(* Properties *)

Quiet ==
  /\ \A t \in Tasks : task[t].kind = "free"
  /\ closing = {} /\ ~offlineTimer

(***************************************************************************)
(* A user with no socket is shown offline once nothing is under way: an    *)
(* online or idle write that lands after the offline one of disconnectUser,*)
(* of the grace timer or of a revalidation is always corrected. The one    *)
(* exception is a write that failed after every other one and was given    *)
(* up, because disconnectUser's callers and Nest catch the rejection and   *)
(* nobody tries again; it is over with the next write that lands.          *)
(***************************************************************************)
NoGhostPresence == Quiet /\ registered = {} /\ ~refused => status = "offline"

(***************************************************************************)
(* A user with a settled socket does not stay offline: the offline write   *)
(* of a grace timer may land after the online write of a reconnection, and *)
(* the idle check repairs it.                                              *)
(***************************************************************************)
ConnectedIsSeen ==
  (registered # {} /\ status = "offline") ~> (registered = {} \/ status # "offline")

(***************************************************************************)
(* A socket whose session is over is dropped, also when it merely expired  *)
(* and nobody calls disconnectDevice.                                      *)
(***************************************************************************)
ExpiredSocketIsDropped ==
  \A s \in Sockets :
    (s \in registered /\ DeviceOf[s] \notin active)
      ~> (s \notin registered \/ DeviceOf[s] \in active)
=============================================================================
