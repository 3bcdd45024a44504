------------------------ MODULE PresenceGatewayProofs ------------------------
(***************************************************************************)
(* What the gateway of PresenceGateway keeps for every number of sockets,  *)
(* devices and activations.                                                *)
(*                                                                         *)
(* Quiet says nothing of a state in which something is under way, so       *)
(* NoGhostPresence is not inductive.  GhostIsHunted says what must be      *)
(* under way while a user without sockets is shown online: the grace       *)
(* timer, or an activation that writes or looks again after its write; or  *)
(* else the last write failed and was given up.                            *)
(* It rests on WritesAreChecked: no online or idle write is the last thing *)
(* its activation does.                                                    *)
(***************************************************************************)
EXTENDS PresenceGateway, TLAPS

(* the activations that write, or look again once their write has landed *)
Hunting == {"write", "published", "aggregated", "recheck"}

Hunted == offlineTimer \/ \E t \in Tasks : task[t].kind \in Hunting

GhostIsHunted == registered = {} /\ status # "offline" /\ ~refused => Hunted

WritesAreChecked ==
  \A t \in Tasks :
    task[t].kind = "write" /\ task[t].out # "offline"
      => task[t].then \in {"published", "aggregated"}

IInv == TypeOK /\ WritesAreChecked /\ GhostIsHunted

-----------------------------------------------------------------------------
(* Tasks: what the constructors of a task build                             *)

LEMMA FreeIsTask == Free \in Task
BY PresenceAssumption DEF Free, Task, Kind, Status

(* ... about one socket, ... *)
LEMMA AskingIsTask ==
  ASSUME NEW kind \in Kind, NEW s \in Sockets
  PROVE  Asking(kind, s, {s}) \in Task /\ Asking(kind, s, {s}).kind = kind
BY PresenceAssumption DEF Asking, Free, Task, Kind, Status

(* ... or about all those registered. *)
LEMMA AggregatingIsTask ==
  ASSUME NEW S \in SUBSET Sockets
  PROVE  LET new == Asking("aggregate", NoSocket, S)
         IN  /\ new \in Task /\ new.kind = "aggregate"
             /\ [new EXCEPT !.then = "free"] \in Task
             /\ [new EXCEPT !.then = "free"].kind = "aggregate"
BY PresenceAssumption DEF Asking, Free, Task, Kind, Status

LEMMA WritingIsTask ==
  ASSUME NEW out \in Status, NEW then \in {"free", "published", "aggregated", "returned"},
         NEW t \in Task
  PROVE  /\ Writing(out, then, t) \in Task
         /\ Writing(out, then, t).kind = "write"
         /\ Writing(out, then, t).out = out
         /\ Writing(out, then, t).then = then
BY DEF Writing, Task, Kind, Status

LEMMA FreeIsFree == Free.kind = "free"
BY DEF Free

LEMMA TaskFields ==
  ASSUME NEW w \in Task
  PROVE  /\ w.caught \in BOOLEAN
         /\ w.kind \in Kind /\ w.socket \in Sockets \union {NoSocket}
         /\ w.asked \subseteq Sockets /\ w.bad \subseteq Sockets
         /\ w.out \in Status /\ w.then \in {"free", "published", "aggregated", "returned"}
BY DEF Task

(* Whether somebody catches its rejection is not what the invariant is about. *)
LEMMA CaughtIsTask ==
  ASSUME NEW w \in Task, NEW b \in BOOLEAN
  PROVE  LET new == [w EXCEPT !.caught = b]
         IN  new \in Task /\ new.kind = w.kind /\ new.out = w.out /\ new.then = w.then
BY DEF Task

(* One activation takes a step: what is left to show of the others. *)
LEMMA BecomesInv ==
  ASSUME IInv, NEW t \in Tasks, NEW new \in Task, Becomes(t, new),
         new.kind = "write" /\ new.out # "offline" => new.then \in {"published", "aggregated"}
  PROVE  /\ task' \in [Tasks -> Task]
         /\ WritesAreChecked'
         /\ task'[t] = new
         /\ \A u \in Tasks : u # t => task'[u] = task[u]
<1>1. task \in [Tasks -> Task]
  BY DEF IInv, TypeOK
<1>2. task' = [task EXCEPT ![t] = new]
  BY DEF Becomes
<1>3. task' \in [Tasks -> Task] /\ task'[t] = new /\ \A u \in Tasks : u # t => task'[u] = task[u]
  BY <1>1, <1>2
<1>4. WritesAreChecked'
  <2> SUFFICES ASSUME NEW u \in Tasks, task'[u].kind = "write", task'[u].out # "offline"
               PROVE  task'[u].then \in {"published", "aggregated"}
    BY DEF WritesAreChecked
  <2>1. CASE u = t
    BY <2>1, <1>3
  <2>2. CASE u # t
    BY <2>2, <1>3 DEF IInv, WritesAreChecked
  <2> QED BY <2>1, <2>2
<1> QED BY <1>3, <1>4

(* The hunt goes on: nobody who hunts has stopped, nor has the timer. *)
LEMMA HuntGoesOn ==
  ASSUME IInv, registered' = {} => registered = {}, status' # "offline" => status # "offline",
         refused' = refused,
         offlineTimer => offlineTimer',
         \A u \in Tasks : task[u].kind \in Hunting => task'[u].kind \in Hunting
  PROVE  GhostIsHunted'
BY DEF IInv, GhostIsHunted, Hunted

(* ... and whoever now hunts is enough. *)
LEMMA HunterIsEnough ==
  ASSUME NEW t \in Tasks, task'[t].kind \in Hunting
  PROVE  GhostIsHunted'
BY DEF GhostIsHunted, Hunted

-----------------------------------------------------------------------------
(* handleConnection                                                         *)

LEMMA AbortInv ==
  ASSUME IInv, NEW t \in Tasks, NEW s, Abort(t, s), UNCHANGED <<active, status, calls, logins, refused>>
  PROVE  IInv'
<1> DEFINE left == registered \ {s}
<1>1. left \in SUBSET Sockets
  BY DEF IInv, TypeOK
<1>2. CASE left # {}
  <2> DEFINE new == [Asking("aggregate", NoSocket, left) EXCEPT !.then = "free"]
  <2>1. new \in Task /\ new.kind = "aggregate"
    BY <1>1, AggregatingIsTask
  <2>2. Becomes(t, new) /\ offlineTimer' = offlineTimer /\ idleTimer' = idleTimer
    BY <1>2 DEF Abort
  <2> HIDE DEF new
  <2>3. task' \in [Tasks -> Task] /\ WritesAreChecked'
    BY <2>1, <2>2, BecomesInv
  <2>4. TypeOK'
    BY <2>2, <2>3 DEF IInv, TypeOK, Abort, Close
  <2>5. GhostIsHunted'
    BY <1>2 DEF Abort, GhostIsHunted
  <2> QED BY <2>3, <2>4, <2>5 DEF IInv
<1>3. CASE left = {}
  <2> DEFINE new == Writing("offline", "free", Free)
  <2>1. new \in Task /\ new.kind = "write" /\ new.out = "offline"
    BY FreeIsTask, WritingIsTask DEF Status
  <2>2. Becomes(t, new) /\ offlineTimer' = FALSE /\ idleTimer' = FALSE
    BY <1>3 DEF Abort
  <2> HIDE DEF new
  <2>3. task' \in [Tasks -> Task] /\ WritesAreChecked' /\ task'[t] = new
    BY <2>1, <2>2, BecomesInv
  <2>4. TypeOK'
    BY <2>2, <2>3 DEF IInv, TypeOK, Abort, Close
  <2>5. GhostIsHunted'
    BY <2>1, <2>3, HunterIsEnough DEF Hunting
  <2> QED BY <2>3, <2>4, <2>5 DEF IInv
<1> QED BY <1>2, <1>3

LEMMA ConnectInv ==
  ASSUME IInv, NEW s \in Sockets, NEW t \in Tasks, Connect(s, t)
  PROVE  IInv'
<1> DEFINE new == Asking("connect", s, {s})
<1>1. new \in Task /\ new.kind = "connect"
  BY AskingIsTask DEF Kind
<1>2. Becomes(t, new)
  BY DEF Connect
<1> HIDE DEF new
<1>3. /\ task' \in [Tasks -> Task] /\ WritesAreChecked'
      /\ task'[t] = new /\ \A u \in Tasks : u # t => task'[u] = task[u]
  BY <1>1, <1>2, BecomesInv
<1>4. TypeOK'
  BY <1>3 DEF IInv, TypeOK, Connect
<1>5. GhostIsHunted'
  BY <1>3, HuntGoesOn DEF Connect, Hunting
<1> QED BY <1>3, <1>4, <1>5 DEF IInv

LEMMA PromoteInv ==
  ASSUME IInv, NEW t \in Tasks, Promote(t)
  PROVE  IInv'
<1> DEFINE s == task[t].socket
<1>0. task[t] \in Task /\ task[t].kind = "connect"
  BY DEF IInv, TypeOK, Promote, Resumes
<1>1. CASE task[t].bad = {} /\ CanPromote(s)
  <2> DEFINE new == Writing("online", "published", task[t])
  <2>1. new \in Task /\ new.kind = "write" /\ new.then = "published"
    BY <1>0, WritingIsTask DEF Status
  <2>2. Becomes(t, new)
    BY <1>1 DEF Promote
  <2> HIDE DEF new
  <2>3. task' \in [Tasks -> Task] /\ WritesAreChecked' /\ task'[t] = new
    BY <2>1, <2>2, BecomesInv
  <2>4. TypeOK'
    BY <1>1, <2>3 DEF IInv, TypeOK, Promote, CanPromote
  <2>5. GhostIsHunted'
    BY <2>1, <2>3, HunterIsEnough DEF Hunting
  <2> QED BY <2>3, <2>4, <2>5 DEF IInv
<1>2. CASE ~(task[t].bad = {} /\ CanPromote(s))
  <2>1. Becomes(t, Free)
    BY <1>2 DEF Promote
  <2>2. /\ task' \in [Tasks -> Task] /\ WritesAreChecked'
        /\ task'[t] = Free /\ \A u \in Tasks : u # t => task'[u] = task[u]
    BY <2>1, FreeIsTask, FreeIsFree, BecomesInv
  <2>3. TypeOK'
    BY <1>2, <2>2 DEF IInv, TypeOK, Promote, Close
  <2>4. /\ registered' = registered /\ status' = status /\ offlineTimer' = offlineTimer
        /\ refused' = refused
        /\ \A u \in Tasks : task[u].kind \in Hunting => task'[u].kind \in Hunting
    BY <1>0, <1>2, <2>2 DEF Promote, Hunting
  <2>5. GhostIsHunted'
    BY <2>4, HuntGoesOn
  <2> QED BY <2>2, <2>3, <2>5 DEF IInv
<1> QED BY <1>1, <1>2

LEMMA PublishedInv ==
  ASSUME IInv, NEW t \in Tasks, Published(t)
  PROVE  IInv'
<1> DEFINE s == task[t].socket
<1>0. task[t] \in Task /\ UNCHANGED <<active, status, calls, logins, refused>>
  BY DEF IInv, TypeOK, Published
<1>1. CASE InPlace(s)
  <2> DEFINE new == Asking("recheck", s, {s})
  <2>1. s \in Sockets
    BY <1>1 DEF IInv, TypeOK, InPlace
  <2>2. new \in Task /\ new.kind = "recheck"
    BY <2>1, AskingIsTask DEF Kind
  <2>3. Becomes(t, new) /\ UNCHANGED memory
    BY <1>1 DEF Published
  <2> HIDE DEF new
  <2>4. task' \in [Tasks -> Task] /\ WritesAreChecked' /\ task'[t] = new
    BY <2>2, <2>3, BecomesInv
  <2>5. TypeOK'
    BY <1>0, <2>3, <2>4 DEF IInv, TypeOK, memory
  <2>6. GhostIsHunted'
    BY <2>2, <2>4, HunterIsEnough DEF Hunting
  <2> QED BY <2>4, <2>5, <2>6 DEF IInv
<1>2. CASE ~InPlace(s)
  <2>1. Abort(t, s)
    BY <1>2 DEF Published
  <2> QED BY <1>0, <2>1, AbortInv
<1> QED BY <1>1, <1>2

LEMMA SettleInv ==
  ASSUME IInv, NEW t \in Tasks, Settle(t)
  PROVE  IInv'
<1> DEFINE s == task[t].socket
<1>0. task[t] \in Task /\ UNCHANGED <<active, status, calls, logins, refused>>
  BY DEF IInv, TypeOK, Settle
<1>1. CASE task[t].bad = {} /\ InPlace(s)
  <2>1. Becomes(t, Free)
    BY <1>1 DEF Settle
  <2>2. task' \in [Tasks -> Task] /\ WritesAreChecked'
    BY <2>1, FreeIsTask, FreeIsFree, BecomesInv
  <2>3. registered' # {}
    BY <1>1 DEF Settle, InPlace
  <2>4. TypeOK'
    BY <1>0, <1>1, <2>2 DEF IInv, TypeOK, Settle, InPlace, IdleCheck
  <2> QED BY <2>2, <2>3, <2>4 DEF IInv, GhostIsHunted
<1>2. CASE ~(task[t].bad = {} /\ InPlace(s))
  <2>1. Abort(t, s)
    BY <1>2 DEF Settle
  <2> QED BY <1>0, <2>1, AbortInv
<1> QED BY <1>1, <1>2

-----------------------------------------------------------------------------
(* handleDisconnect                                                         *)

LEMMA HangupInv ==
  ASSUME IInv, NEW s \in Sockets, Hangup(s)
  PROVE  IInv'
BY DEF IInv, TypeOK, WritesAreChecked, GhostIsHunted, Hunted, Hangup, Close

LEMMA HandleDisconnectInv ==
  ASSUME IInv, NEW s \in Sockets, NEW t \in Tasks, HandleDisconnect(s, t)
  PROVE  IInv'
<1> DEFINE left == registered \ {s}
<1>1. left \in SUBSET Sockets
  BY DEF IInv, TypeOK
<1>2. CASE registered = {} /\ UNCHANGED <<offlineTimer, idleTimer, task>>
  <2>1. TypeOK' /\ WritesAreChecked'
    BY <1>2 DEF IInv, TypeOK, WritesAreChecked, HandleDisconnect
  <2>2. GhostIsHunted'
    BY <1>2, HuntGoesOn DEF HandleDisconnect
  <2> QED BY <2>1, <2>2 DEF IInv
<1>3. CASE /\ left # {} /\ task[t].kind = "free"
           /\ Becomes(t, [Asking("aggregate", NoSocket, left) EXCEPT !.then = "free"])
           /\ UNCHANGED <<offlineTimer, idleTimer>>
  <2> DEFINE new == [Asking("aggregate", NoSocket, left) EXCEPT !.then = "free"]
  <2>1. new \in Task /\ new.kind = "aggregate"
    BY <1>1, AggregatingIsTask
  <2> HIDE DEF new
  <2>2. task' \in [Tasks -> Task] /\ WritesAreChecked'
    BY <1>3, <2>1, BecomesInv DEF new
  <2>3. TypeOK'
    BY <1>3, <2>2 DEF IInv, TypeOK, HandleDisconnect
  <2>4. GhostIsHunted'
    BY <1>3 DEF HandleDisconnect, GhostIsHunted
  <2> QED BY <2>2, <2>3, <2>4 DEF IInv
<1>4. CASE /\ registered # {} /\ left = {}
           /\ idleTimer' = FALSE /\ offlineTimer' = Grace /\ UNCHANGED task
  <2>1. TypeOK' /\ WritesAreChecked'
    BY <1>4 DEF IInv, TypeOK, WritesAreChecked, HandleDisconnect, Grace
  <2>2. GhostIsHunted'
    BY <1>4 DEF GhostIsHunted, Hunted, Grace
  <2> QED BY <2>1, <2>2 DEF IInv
<1> QED BY <1>2, <1>3, <1>4 DEF HandleDisconnect

LEMMA GraceEndsInv ==
  ASSUME IInv, NEW t \in Tasks, GraceEnds(t)
  PROVE  IInv'
<1> DEFINE new == Writing("offline", "free", Free)
<1>1. new \in Task /\ new.kind = "write" /\ new.out = "offline"
  BY FreeIsTask, WritingIsTask DEF Status
<1> HIDE DEF new
<1>2. CASE registered # {} /\ UNCHANGED task
  BY <1>2 DEF IInv, TypeOK, WritesAreChecked, GhostIsHunted, GraceEnds
<1>3. CASE Becomes(t, new)
  <2>1. task' \in [Tasks -> Task] /\ WritesAreChecked' /\ task'[t] = new
    BY <1>1, <1>3, BecomesInv
  <2>2. TypeOK'
    BY <2>1 DEF IInv, TypeOK, GraceEnds
  <2>3. GhostIsHunted'
    BY <1>1, <2>1, HunterIsEnough DEF Hunting
  <2> QED BY <2>1, <2>2, <2>3 DEF IInv
<1> QED BY <1>2, <1>3 DEF GraceEnds, new

-----------------------------------------------------------------------------
(* publishAggregatePresence                                                 *)

LEMMA IdleTimeEndsInv ==
  ASSUME IInv, NEW t \in Tasks, IdleTimeEnds(t)
  PROVE  IInv'
<1> DEFINE new == Asking("aggregate", NoSocket, registered)
<1>1. new \in Task /\ new.kind = "aggregate"
  BY AggregatingIsTask DEF IInv, TypeOK
<1>2. Becomes(t, new)
  BY DEF IdleTimeEnds, Aggregating
<1> HIDE DEF new
<1>3. /\ task' \in [Tasks -> Task] /\ WritesAreChecked'
      /\ task'[t] = new /\ \A u \in Tasks : u # t => task'[u] = task[u]
  BY <1>1, <1>2, BecomesInv
<1>4. TypeOK'
  BY <1>3 DEF IInv, TypeOK, IdleTimeEnds
<1>5. GhostIsHunted'
  BY <1>3, HuntGoesOn DEF IdleTimeEnds, Hunting
<1> QED BY <1>3, <1>4, <1>5 DEF IInv

LEMMA GoStaleInv ==
  ASSUME IInv, NEW s \in Sockets, GoStale(s)
  PROVE  IInv'
BY DEF IInv, TypeOK, WritesAreChecked, GhostIsHunted, Hunted, GoStale

(* An activation that hunted nobody ends. *)
LEMMA EndsInv ==
  ASSUME IInv, NEW t \in Tasks, task[t].kind \notin Hunting, Becomes(t, Free)
  PROVE  /\ task' \in [Tasks -> Task] /\ WritesAreChecked'
         /\ \A u \in Tasks : task[u].kind \in Hunting => task'[u].kind \in Hunting
<1>1. /\ task' \in [Tasks -> Task] /\ WritesAreChecked'
      /\ task'[t] = Free /\ \A u \in Tasks : u # t => task'[u] = task[u]
  BY FreeIsTask, FreeIsFree, BecomesInv
<1> QED BY <1>1

LEMMA RevalidatedInv ==
  ASSUME IInv, NEW t \in Tasks, Revalidated(t)
  PROVE  IInv'
<1> DEFINE left == registered \ task[t].bad
           out == IF left \intersect recent # {} THEN "online" ELSE "idle"
<1>0. /\ task[t] \in Task /\ task[t].kind = "aggregate" /\ task[t].bad \subseteq Sockets
      /\ registered' = left
  BY TaskFields DEF IInv, TypeOK, Revalidated, Resumes
<1>1. task[t].kind \notin Hunting
  BY <1>0 DEF Hunting
<1>t. ASSUME task' \in [Tasks -> Task], offlineTimer' \in BOOLEAN, idleTimer' \in BOOLEAN
      PROVE  TypeOK'
  BY <1>0, <1>t DEF IInv, TypeOK, Revalidated, Close
<1>2. CASE /\ left # {} /\ Becomes(t, Writing(out, "aggregated", task[t]))
           /\ UNCHANGED <<offlineTimer, idleTimer>>
  <2> DEFINE new == Writing(out, "aggregated", task[t])
  <2>1. out \in Status
    BY DEF Status
  <2>2. new \in Task /\ new.kind = "write" /\ new.then = "aggregated"
    BY <1>0, <2>1, WritingIsTask
  <2> HIDE DEF new
  <2>3. task' \in [Tasks -> Task] /\ WritesAreChecked' /\ task'[t] = new
    BY <1>2, <2>2, BecomesInv DEF new
  <2>4. GhostIsHunted'
    BY <2>2, <2>3, HunterIsEnough DEF Hunting
  <2>5. offlineTimer' \in BOOLEAN /\ idleTimer' \in BOOLEAN
    BY <1>2 DEF IInv, TypeOK
  <2> QED BY <1>t, <2>3, <2>4, <2>5 DEF IInv
<1>3. CASE left # {} /\ Returned(t, left) /\ UNCHANGED offlineTimer
  <2>1. task' \in [Tasks -> Task] /\ WritesAreChecked'
    BY <1>1, <1>3, EndsInv DEF Returned
  <2>2. offlineTimer' \in BOOLEAN /\ idleTimer' \in BOOLEAN
    BY <1>3 DEF IInv, TypeOK, Returned, IdleCheck
  <2>3. GhostIsHunted'
    BY <1>0, <1>3 DEF GhostIsHunted
  <2> QED BY <1>t, <2>1, <2>2, <2>3 DEF IInv
<1>4. CASE /\ offlineTimer' = FALSE /\ idleTimer' = FALSE
           /\ Becomes(t, Writing("offline", "returned", [Free EXCEPT !.caught = task[t].caught]))
  <2> DEFINE new == Writing("offline", "returned", [Free EXCEPT !.caught = task[t].caught])
  <2>1. new \in Task /\ new.kind = "write" /\ new.out = "offline"
    BY <1>0, TaskFields, CaughtIsTask, FreeIsTask, WritingIsTask DEF Status
  <2> HIDE DEF new
  <2>2. task' \in [Tasks -> Task] /\ WritesAreChecked' /\ task'[t] = new
    BY <1>4, <2>1, BecomesInv DEF new
  <2>3. GhostIsHunted'
    BY <2>1, <2>2, HunterIsEnough DEF Hunting
  <2> QED BY <1>t, <1>4, <2>2, <2>3 DEF IInv
<1>5. CASE /\ left = {} /\ task[t].bad = {} /\ Returned(t, left) /\ UNCHANGED offlineTimer
  <2>1. /\ task' \in [Tasks -> Task] /\ WritesAreChecked'
        /\ \A u \in Tasks : task[u].kind \in Hunting => task'[u].kind \in Hunting
    BY <1>1, <1>5, EndsInv DEF Returned
  <2>2. offlineTimer' \in BOOLEAN /\ idleTimer' \in BOOLEAN
    BY <1>5 DEF IInv, TypeOK, Returned
  <2>3. registered = {} /\ status' = status /\ offlineTimer' = offlineTimer /\ refused' = refused
    BY <1>5 DEF Revalidated
  <2>4. GhostIsHunted'
    BY <2>1, <2>3, HuntGoesOn
  <2> QED BY <1>t, <2>1, <2>2, <2>4 DEF IInv
<1> QED BY <1>2, <1>3, <1>4, <1>5 DEF Revalidated

LEMMA ReconcileInv ==
  ASSUME IInv, NEW t \in Tasks, Reconcile(t)
  PROVE  IInv'
<1>1. CASE Overtaken(t)
  <2> DEFINE new == Writing("offline", "returned", [Free EXCEPT !.caught = task[t].caught])
  <2>0. task[t].caught \in BOOLEAN
    BY TaskFields DEF IInv, TypeOK
  <2>1. new \in Task /\ new.kind = "write" /\ new.out = "offline"
    BY <2>0, CaughtIsTask, FreeIsTask, WritingIsTask DEF Status
  <2>2. Becomes(t, new)
    BY <1>1 DEF Reconcile
  <2> HIDE DEF new
  <2>3. task' \in [Tasks -> Task] /\ WritesAreChecked' /\ task'[t] = new
    BY <2>1, <2>2, BecomesInv
  <2>4. TypeOK'
    BY <1>1, <2>3 DEF IInv, TypeOK, Reconcile
  <2>5. GhostIsHunted'
    BY <2>1, <2>3, HunterIsEnough DEF Hunting
  <2> QED BY <2>3, <2>4, <2>5 DEF IInv
<1>2. CASE ~Overtaken(t)
  <2>1. registered # {} /\ registered' = registered
    BY <1>2 DEF Reconcile, Overtaken, Current
  <2>2. Becomes(t, Free)
    BY <1>2 DEF Reconcile, Returned
  <2>3. task' \in [Tasks -> Task] /\ WritesAreChecked'
    BY <2>2, FreeIsTask, FreeIsFree, BecomesInv
  <2>4. idleTimer' \in BOOLEAN
    BY <1>2 DEF IInv, TypeOK, Reconcile, Returned, IdleCheck
  <2>5. TypeOK'
    BY <1>2, <2>3, <2>4 DEF IInv, TypeOK, Reconcile
  <2> QED BY <2>1, <2>3, <2>5 DEF IInv, GhostIsHunted
<1> QED BY <1>1, <1>2

LEMMA ReturnInv ==
  ASSUME IInv, NEW t \in Tasks, Return(t)
  PROVE  IInv'
<1>1. task[t].kind \notin Hunting
  BY DEF Return, Hunting
<1>2. /\ task' \in [Tasks -> Task] /\ WritesAreChecked'
      /\ \A u \in Tasks : task[u].kind \in Hunting => task'[u].kind \in Hunting
  BY <1>1, EndsInv DEF Return, Returned
<1>3. idleTimer' \in BOOLEAN
  BY DEF IInv, TypeOK, Return, Returned, IdleCheck
<1>4. TypeOK'
  BY <1>2, <1>3 DEF IInv, TypeOK, Return
<1>5. GhostIsHunted'
  BY <1>2, HuntGoesOn DEF Return
<1> QED BY <1>2, <1>4, <1>5 DEF IInv

-----------------------------------------------------------------------------
(* validateClientSession                                                    *)

LEMMA ValidationDueInv ==
  ASSUME IInv, NEW s \in Sockets, NEW t \in Tasks, ValidationDue(s, t)
  PROVE  IInv'
<1> DEFINE new == Asking("validate", s, {s})
<1>1. new \in Task /\ new.kind = "validate"
  BY AskingIsTask DEF Kind
<1>2. Becomes(t, new)
  BY DEF ValidationDue
<1> HIDE DEF new
<1>3. /\ task' \in [Tasks -> Task] /\ WritesAreChecked'
      /\ task'[t] = new /\ \A u \in Tasks : u # t => task'[u] = task[u]
  BY <1>1, <1>2, BecomesInv
<1>4. TypeOK'
  BY <1>3 DEF IInv, TypeOK, ValidationDue
<1>5. GhostIsHunted'
  BY <1>3, HuntGoesOn DEF ValidationDue, Hunting
<1> QED BY <1>3, <1>4, <1>5 DEF IInv

LEMMA ValidatedInv ==
  ASSUME IInv, NEW t \in Tasks, Validated(t)
  PROVE  IInv'
<1>1. task[t].kind \notin Hunting
  BY DEF Validated, Resumes, Hunting
<1>2. /\ task' \in [Tasks -> Task] /\ WritesAreChecked'
      /\ \A u \in Tasks : task[u].kind \in Hunting => task'[u].kind \in Hunting
  BY <1>1, EndsInv DEF Validated
<1>3. validation' \subseteq Sockets /\ connected' \subseteq Sockets /\ closing' \subseteq Sockets
  BY DEF IInv, TypeOK, Validated, ValidatedAgain, Close
<1>4. TypeOK'
  BY <1>2, <1>3 DEF IInv, TypeOK, Validated
<1>5. GhostIsHunted'
  BY <1>2, HuntGoesOn DEF Validated
<1> QED BY <1>2, <1>4, <1>5 DEF IInv

LEMMA ActivityInv ==
  ASSUME IInv, NEW s \in Sockets, NEW t \in Tasks, Activity(s, t)
  PROVE  IInv'
<1> DEFINE new == Asking("activity", s, {s})
<1>1. new \in Task /\ new.kind = "activity"
  BY AskingIsTask DEF Kind
<1>2. Becomes(t, new)
  BY DEF Activity
<1> HIDE DEF new
<1>3. /\ task' \in [Tasks -> Task] /\ WritesAreChecked'
      /\ task'[t] = new /\ \A u \in Tasks : u # t => task'[u] = task[u]
  BY <1>1, <1>2, BecomesInv
<1>4. TypeOK'
  BY <1>3 DEF IInv, TypeOK, Activity, memory
<1>5. GhostIsHunted'
  BY <1>3, HuntGoesOn DEF Activity, memory, Hunting
<1> QED BY <1>3, <1>4, <1>5 DEF IInv

LEMMA HandleActivityInv ==
  ASSUME IInv, NEW t \in Tasks, HandleActivity(t)
  PROVE  IInv'
<1> DEFINE s == task[t].socket
           new == [Asking("aggregate", NoSocket, registered) EXCEPT !.caught = TRUE]
<1>0. new \in Task /\ new.kind = "aggregate"
  BY AggregatingIsTask, CaughtIsTask DEF IInv, TypeOK
<1>1. task[t].kind \notin Hunting
  BY DEF HandleActivity, Resumes, Hunting
<1>2. connected' \subseteq Sockets /\ closing' \subseteq Sockets
  BY DEF IInv, TypeOK, HandleActivity, Close
<1>3. /\ task' \in [Tasks -> Task] /\ WritesAreChecked'
      /\ \A u \in Tasks : task[u].kind \in Hunting => task'[u].kind \in Hunting
  <2> HIDE DEF new
  <2>1. CASE Becomes(t, new)
    BY <1>0, <1>1, <2>1, BecomesInv
  <2>2. CASE Becomes(t, Free)
    BY <1>1, <2>2, EndsInv
  <2> QED BY <2>1, <2>2 DEF HandleActivity, Aggregating, new
<1>4. recent' \subseteq Sockets
  BY DEF IInv, TypeOK, HandleActivity
<1>5. TypeOK'
  BY <1>2, <1>3, <1>4 DEF IInv, TypeOK, HandleActivity
<1>6. GhostIsHunted'
  BY <1>3, HuntGoesOn DEF HandleActivity
<1> QED BY <1>3, <1>5, <1>6 DEF IInv

-----------------------------------------------------------------------------
(* The database answers                                                     *)

LEMMA AnswerInv ==
  ASSUME IInv, NEW t \in Tasks, NEW s \in Sockets, Answer(t, s)
  PROVE  IInv'
<1> DEFINE new == [task[t] EXCEPT !.asked = @ \ {s},
                                  !.bad = IF DeviceOf[s] \in active THEN @ ELSE @ \union {s}]
<1>0. task \in [Tasks -> Task] /\ task[t] \in Task
  BY DEF IInv, TypeOK
<1>1. task[t].asked \ {s} \in SUBSET Sockets /\ task[t].bad \union {s} \in SUBSET Sockets
  BY <1>0, TaskFields
<1>2. /\ new \in Task /\ new.kind = task[t].kind /\ new.out = task[t].out
      /\ new.then = task[t].then
  BY <1>0, <1>1 DEF Task
<1>3. Becomes(t, new)
  BY <1>0 DEF Answer, Becomes, Task
<1> HIDE DEF new
<1>4. new.kind = "write" /\ new.out # "offline" => new.then \in {"published", "aggregated"}
  BY <1>2 DEF IInv, WritesAreChecked
<1>5. /\ task' \in [Tasks -> Task] /\ WritesAreChecked'
      /\ task'[t] = new /\ \A u \in Tasks : u # t => task'[u] = task[u]
  BY <1>2, <1>3, <1>4, BecomesInv
<1>6. TypeOK'
  BY <1>5 DEF IInv, TypeOK, Answer, memory
<1>7. \A u \in Tasks : task[u].kind \in Hunting => task'[u].kind \in Hunting
  BY <1>2, <1>5
<1>8. GhostIsHunted'
  BY <1>7, HuntGoesOn DEF Answer, memory
<1> QED BY <1>5, <1>6, <1>8 DEF IInv

LEMMA LandFailsInv ==
  ASSUME IInv, NEW t \in Tasks, LandFails(t)
  PROVE  IInv'
<1>1. Becomes(t, Free) /\ status' \in Status /\ refused' = (status' # "offline")
  BY TaskFields DEF IInv, TypeOK, LandFails
<1>2. task' \in [Tasks -> Task] /\ WritesAreChecked'
  BY <1>1, FreeIsTask, FreeIsFree, BecomesInv
<1>3. TypeOK'
  BY <1>1, <1>2 DEF IInv, TypeOK, LandFails, memory
<1>4. GhostIsHunted'
  BY <1>1 DEF GhostIsHunted
<1> QED BY <1>2, <1>3, <1>4 DEF IInv

LEMMA LandInv ==
  ASSUME IInv, NEW t \in Tasks, Land(t)
  PROVE  IInv'
<1> DEFINE new == IF task[t].then = "free" THEN Free
                  ELSE [task[t] EXCEPT !.kind = task[t].then, !.out = "offline", !.then = "free"]
<1>0. task[t] \in Task /\ task[t].kind = "write" /\ status' = task[t].out
  BY DEF IInv, TypeOK, Land
<1>1. new \in Task
  <2>1. [task[t] EXCEPT !.kind = task[t].then, !.out = "offline", !.then = "free"] \in Task
    BY <1>0 DEF Task, Kind, Status
  <2> QED BY <2>1, FreeIsTask
<1>2. /\ new.kind # "write"
      /\ task[t].then \in {"published", "aggregated"} => new.kind \in Hunting
  BY <1>0, FreeIsFree DEF Task, Hunting
<1>3. Becomes(t, new)
  BY DEF Land
<1> HIDE DEF new
<1>4. task' \in [Tasks -> Task] /\ WritesAreChecked' /\ task'[t] = new
  BY <1>1, <1>2, <1>3, BecomesInv
<1>5. status' \in Status
  BY <1>0, TaskFields
<1>6. TypeOK'
  BY <1>4, <1>5 DEF IInv, TypeOK, Land, memory
<1>7. GhostIsHunted'
  <2>1. CASE task[t].out = "offline"
    BY <1>0, <2>1 DEF GhostIsHunted
  <2>2. CASE task[t].out # "offline"
    <3>1. task[t].then \in {"published", "aggregated"}
      BY <1>0, <2>2 DEF IInv, WritesAreChecked
    <3> QED BY <1>2, <1>4, <3>1, HunterIsEnough
  <2> QED BY <2>1, <2>2
<1> QED BY <1>4, <1>6, <1>7 DEF IInv

-----------------------------------------------------------------------------
(* Revocations, and the end of the process                                  *)

LEMMA SessionsInv ==
  ASSUME IInv, \/ \E d \in Devices : Expire(d) \/ RevokeDevice(d)
               \/ RevokeUser
  PROVE  IInv'
BY DEF IInv, TypeOK, WritesAreChecked, GhostIsHunted, Hunted, Expire, RevokeDevice,
       RevokeUser, memory

LEMMA LogInInv ==
  ASSUME IInv, NEW d \in Devices, LogIn(d)
  PROVE  IInv'
<1>1. logins' \in 0 .. MaxLogins
  BY PresenceAssumption DEF IInv, TypeOK, LogIn
<1> QED BY <1>1 DEF IInv, TypeOK, WritesAreChecked, GhostIsHunted, Hunted, LogIn, memory

LEMMA DisconnectDeviceInv ==
  ASSUME IInv, NEW d \in Devices, DisconnectDevice(d)
  PROVE  IInv'
BY DEF IInv, TypeOK, WritesAreChecked, GhostIsHunted, Hunted, DisconnectDevice, Close

LEMMA DisconnectUserInv ==
  ASSUME IInv, NEW t \in Tasks, DisconnectUser(t)
  PROVE  IInv'
<1> DEFINE new == [Writing("offline", "free", Free) EXCEPT !.caught = TRUE]
           told(u) == [task[u] EXCEPT !.revoked = Captured(u)]
<1>1. new \in Task /\ new.kind = "write" /\ new.out = "offline"
  <2> DEFINE w == Writing("offline", "free", Free)
  <2>1. w \in Task /\ w.kind = "write" /\ w.out = "offline"
    BY FreeIsTask, WritingIsTask DEF Status
  <2> HIDE DEF w
  <2>2. LET n == [w EXCEPT !.caught = TRUE]
        IN  n \in Task /\ n.kind = w.kind /\ n.out = w.out /\ n.then = w.then
    BY <2>1, CaughtIsTask
  <2> QED BY <2>1, <2>2 DEF w
<1>2. \A u \in Tasks : /\ told(u) \in Task /\ told(u).kind = task[u].kind
                       /\ told(u).out = task[u].out /\ told(u).then = task[u].then
  <2>1. \A u \in Tasks : Captured(u) \in BOOLEAN
    BY DEF Captured
  <2> QED BY <2>1 DEF IInv, TypeOK, Task
<1>3. task' = [u \in Tasks |-> IF u = t THEN new ELSE told(u)]
  BY DEF DisconnectUser
<1> HIDE DEF new, told
<1>4. task' \in [Tasks -> Task] /\ task'[t] = new /\ \A u \in Tasks : u # t => task'[u] = told(u)
  BY <1>1, <1>2, <1>3
<1>5. WritesAreChecked'
  BY <1>1, <1>2, <1>4 DEF IInv, WritesAreChecked
<1>6. TypeOK'
  BY <1>4 DEF IInv, TypeOK, DisconnectUser, Close
<1>7. GhostIsHunted'
  BY <1>1, <1>4, HunterIsEnough DEF Hunting
<1> QED BY <1>5, <1>6, <1>7 DEF IInv

LEMMA CrashInv ==
  ASSUME IInv, Crash
  PROVE  IInv'
<1>1. task' \in [Tasks -> Task] /\ \A t \in Tasks : task'[t] = Free
  BY FreeIsTask DEF Crash
<1>2. WritesAreChecked'
  BY <1>1, FreeIsFree DEF WritesAreChecked
<1>3. TypeOK'
  BY <1>1 DEF IInv, TypeOK, Crash, Status
<1> QED BY <1>2, <1>3 DEF IInv, GhostIsHunted, Crash

-----------------------------------------------------------------------------
LEMMA InitInv ==
  ASSUME Init
  PROVE  IInv
<1>1. task \in [Tasks -> Task] /\ \A t \in Tasks : task[t] = Free
  BY FreeIsTask DEF Init
<1>2. WritesAreChecked
  BY <1>1, FreeIsFree DEF WritesAreChecked
<1>3. logins \in 0 .. MaxLogins
  BY PresenceAssumption DEF Init
<1>4. TypeOK
  BY <1>1, <1>3 DEF TypeOK, Init, Status
<1> QED BY <1>2, <1>4 DEF IInv, GhostIsHunted, Init

LEMMA ResumeInv ==
  ASSUME IInv, NEW t \in Tasks, Resume(t)
  PROVE  IInv'
BY PromoteInv, PublishedInv, SettleInv, RevalidatedInv, ReconcileInv, ReturnInv, ValidatedInv,
   HandleActivityInv, LandInv, DisconnectUserInv, AnswerInv, HandleDisconnectInv, Zenon
   DEF Resume

LEMMA NextInv ==
  ASSUME IInv, Next
  PROVE  IInv'
<1>1. CASE \E t \in Tasks : Resume(t) \/ LandFails(t) \/ GraceEnds(t) \/ IdleTimeEnds(t)
  BY <1>1, ResumeInv, LandFailsInv, GraceEndsInv, IdleTimeEndsInv, Zenon
<1>2. CASE \E s \in Sockets, t \in Tasks : Connect(s, t) \/ ValidationDue(s, t) \/ Activity(s, t)
  BY <1>2, ConnectInv, ValidationDueInv, ActivityInv, Zenon
<1>3. CASE \E s \in Sockets : Hangup(s) \/ GoStale(s)
  BY <1>3, HangupInv, GoStaleInv, Zenon
<1>4. CASE \E d \in Devices : Expire(d) \/ RevokeDevice(d) \/ LogIn(d) \/ DisconnectDevice(d)
  BY <1>4, SessionsInv, LogInInv, DisconnectDeviceInv, Zenon
<1>5. CASE RevokeUser \/ Crash
  BY <1>5, SessionsInv, CrashInv, Zenon
<1> QED BY <1>1, <1>2, <1>3, <1>4, <1>5, Zenon DEF Next

LEMMA StutterInv ==
  ASSUME IInv, UNCHANGED vars
  PROVE  IInv'
BY DEF IInv, TypeOK, WritesAreChecked, GhostIsHunted, Hunted, vars, memory

(***************************************************************************)
(* The gateway keeps its inductive invariant.                              *)
(***************************************************************************)
THEOREM Invariance == Spec => []IInv
<1>1. Init => IInv
  BY InitInv
<1>2. IInv /\ [Next]_vars => IInv'
  BY NextInv, StutterInv
<1> QED BY <1>1, <1>2, PTL DEF Spec

(***************************************************************************)
(* The maps, timers, activations and the row of the gateway keep their     *)
(* types.                                                                  *)
(***************************************************************************)
THEOREM TypeCorrectness == Spec => []TypeOK
<1>1. IInv => TypeOK
  BY DEF IInv
<1> QED BY <1>1, Invariance, PTL

(***************************************************************************)
(* However many sockets come and go, and in whatever order PostgreSQL      *)
(* answers, a user without a socket is shown offline once the gateway has  *)
(* nothing under way: every late online or idle write is corrected by the  *)
(* activation that sent it (reconcilePresencePublication, the checks of    *)
(* handleConnection after publishPresence). Excepted is the time after a   *)
(* write that failed, was caught and given up, until some write lands.     *)
(***************************************************************************)
THEOREM NoGhostsRemain == Spec => []NoGhostPresence
<1>1. IInv => NoGhostPresence
  BY DEF IInv, GhostIsHunted, Hunted, Hunting, NoGhostPresence, Quiet
<1> QED BY <1>1, Invariance, PTL
=============================================================================
