------------------------ MODULE DeviceSessionsProofs ------------------------
(***************************************************************************)
(* Theorems about DeviceSessions, for any devices and any number of        *)
(* requests at the same time: what a revocation guarantees although        *)
(* rotateSessionTokens clears revokedAt.                                   *)
(***************************************************************************)
EXTENDS DeviceSessions, TLAPS

RefreshSteps == {"refreshing", "reused", "rotating", "rotated"}

(* A quietly revoked device is not being rotated: no refresh passes the    *)
(* check on a revoked row.                                                 *)
FinalIsNotRotated == \A d \in final : ~Rotating(d)

(* A browser's device is known to one request while it logs in: nobody     *)
(* else can have its id before the row exists, and nobody refreshes it     *)
(* before its CSRF token is bound.                                         *)
LoginIsAlone ==
  \A r \in Requests : LET d == req[r].device IN
    /\ req[r].step = "registering" => d \notin Browsers
    /\ req[r].step = "creating" /\ d \in Browsers =>
         /\ ~Exists(d)
         /\ \A q \in Requests : q # r /\ req[q].device = d =>
              req[q].step \in {"idle", "disconnecting"}
    /\ req[r].step = "binding" =>
         /\ d \in Browsers /\ ~session[d].csrf
         /\ d \in revoked => d \in final
         /\ \A q \in Requests : q # r /\ req[q].device = d =>
              req[q].step \notin {"creating", "binding"} \cup RefreshSteps

(* A revoked browser row that still has a CSRF hash was revoked before the *)
(* hash was bound, when nothing could race with it.                        *)
RevokedCsrfIsFinal ==
  \A d \in revoked \intersect Browsers : session[d].csrf => d \in final

(* Revocation times are distinct: a row bears the time of the revokeOthers *)
(* request that is collecting only if that request revoked it.             *)
StampsAreOwn ==
  /\ \A d \in Devices : session[d].revokedAt <= clock
  /\ \A r \in Requests : req[r].step = "collecting" =>
       /\ req[r].stamp \in 1 .. clock
       /\ session[req[r].device].revokedAt # req[r].stamp

IInv ==
  /\ TypeOK
  /\ QuietRevocationIsFinal /\ FinalIsNotRotated
  /\ LoginIsAlone /\ RevokedCsrfIsFinal
  /\ StampsAreOwn /\ RevokedSocketWillDrop

-----------------------------------------------------------------------------
(* Types *)

(* The null records have the types of the records they stand for. *)
LEMMA NullTypes == NoSession \in Session /\ Idle \in Request
<1>1. AnyDevice \in Devices
  BY DeviceAssumption DEF AnyDevice
<1> QED BY <1>1, DeviceAssumption
        DEF NoSession, Session, Idle, Started, Request, Step, Token, Stamp, NoToken, NotRevoked

(* A revocation writes rows of their type. *)
LEMMA RevokeTypes ==
  ASSUME TypeOK, NEW D \in SUBSET Devices, Revoke(D)
  PROVE  /\ session' \in [Devices -> Session] /\ clock' \in Stamp
         /\ revoked' \subseteq Devices /\ final' \subseteq Devices
<1>1. clock' \in Stamp
  BY DeviceAssumption DEF TypeOK, Revoke, Stamp
<1>2. \A d \in Devices : RevokedRow(session[d]) \in Session
  BY <1>1 DEF TypeOK, Revoke, RevokedRow, Session
<1> QED BY <1>1, <1>2 DEF TypeOK, Revoke

(* A request that starts has its type. *)
LEMMA StartTypes ==
  ASSUME TypeOK, NEW r \in Requests, NEW d \in Devices, NEW step \in Step, NEW token \in Token,
         Start(r, d, step, token)
  PROVE  TypeOK'
  BY DeviceAssumption DEF TypeOK, Start, Started, Request, Token, Stamp, NoToken, NotRevoked

(* The calls of the clients keep the types. *)
LEMMA CallTypes ==
  ASSUME TypeOK, NEW r \in Requests, NEW d \in Devices, Call(r, d)
  PROVE  TypeOK'
<1>1. client[d] \in Token /\ NoToken \in Token
  BY DeviceAssumption DEF TypeOK, Token, NoToken
<1> QED BY <1>1, StartTypes
        DEF Call, Register, Login, Refresh, Logout, RevokeDevice, RevokeOthers,
            ChangePassword, Step

(* The steps of the handlers keep the types. *)
LEMMA HandlerTypes ==
  ASSUME TypeOK, NEW r \in Requests, Handler(r)
  PROVE  TypeOK'
<1> USE NullTypes, DeviceAssumption
<1>1. CASE CreateUser(r) \/ PasswordRefused(r) \/ Disconnect(r)
  BY <1>1 DEF CreateUser, PasswordRefused, Disconnect, NextStep, Finish, TypeOK, Request, Step
<1>2. CASE CreateSession(r)
  <2>1. req[r].device \in Devices /\ issued' \in Token
    BY <1>2 DEF CreateSession, TypeOK, Request, Token
  <2>2. [NoSession EXCEPT !.hash = issued'] \in Session
    BY <2>1 DEF Session, NoSession
  <2>3. session' \in [Devices -> Session]
    BY <1>2, <2>1, <2>2 DEF CreateSession, TypeOK
  <2>4. req' \in [Requests -> Request]
    BY <1>2, <2>1 DEF CreateSession, Finish, TypeOK, Request, Step
  <2>5. client' \in [Devices -> Token]
    BY <1>2, <2>1 DEF CreateSession, Respond, TypeOK
  <2> QED BY <1>2, <2>1, <2>3, <2>4, <2>5 DEF CreateSession, TypeOK
<1>3. CASE BindCsrfToken(r)
  BY <1>3 DEF BindCsrfToken, Respond, Finish, TypeOK, Request, Session
<1>4. CASE RefreshToken(r) \/ RotateRead(r) \/ CollectRevoked(r)
  BY <1>4 DEF RefreshToken, RotateRead, CollectRevoked, Collected, NextStep, Finish, TypeOK,
              Request, Step, Session
<1>5. CASE RotateWrite(r)
  <2>1. req[r].device \in Devices /\ issued' \in Token /\ req[r].seen \in Token
    BY <1>5 DEF RotateWrite, TypeOK, Request, Token
  <2>2. Rotated(session[req[r].device], issued', req[r].seen) \in Session
    <3>1. session[req[r].device] \in Session /\ 0 \in Stamp
      BY <2>1 DEF TypeOK, Stamp
    <3> QED BY <2>1, <3>1 DEF Rotated, Session, NotRevoked
  <2>3. client' \in [Devices -> Token]
    BY <1>5, <2>1 DEF RotateWrite, Respond, TypeOK
  <2> QED BY <1>5, <2>1, <2>2, <2>3 DEF RotateWrite, Finish, TypeOK
<1>6. CASE RevokeReused(r) \/ RevokeDeviceWrite(r)
  <2>1. req[r].device \in Devices /\ Revoke({req[r].device})
    BY <1>6 DEF RevokeReused, RevokeDeviceWrite, TypeOK, Request
  <2>2. req' \in [Requests -> Request]
    <3>1. req' = [req EXCEPT ![r].step = "disconnecting", ![r].drop = {req[r].device}]
      BY <1>6 DEF RevokeReused, RevokeDeviceWrite
    <3> QED BY <2>1, <3>1 DEF TypeOK, Request, Step
  <2> QED BY <1>6, <2>1, <2>2, RevokeTypes DEF RevokeReused, RevokeDeviceWrite, TypeOK
<1>7. CASE LogoutWrite(r)
  <2>1. req[r].device \in Devices /\ Revoke(Unrevoked({req[r].device}))
    BY <1>7 DEF LogoutWrite, TypeOK, Request
  <2>2. Unrevoked({req[r].device}) \in SUBSET Devices
    BY <2>1 DEF Unrevoked
  <2>3. req' \in [Requests -> Request]
    <3>1. req' = [req EXCEPT ![r].step = "disconnecting", ![r].drop = {req[r].device}]
      BY <1>7 DEF LogoutWrite
    <3> QED BY <2>1, <3>1 DEF TypeOK, Request, Step
  <2>4. client' \in [Devices -> Token]
    <3>1. client' = [client EXCEPT ![req[r].device] = NoToken] /\ NoToken \in Token
      BY <1>7 DEF LogoutWrite, Token, NoToken
    <3> QED BY <3>1 DEF TypeOK
  <2> QED BY <1>7, <2>1, <2>2, <2>3, <2>4, RevokeTypes DEF LogoutWrite, TypeOK
<1>8. CASE RevokeOthersWrite(r)
  <2>1. Unrevoked(Devices \ {req[r].device}) \in SUBSET Devices
    BY DEF Unrevoked
  <2>2. req' \in [Requests -> Request]
    <3>1. clock + 1 \in Stamp
      BY <1>8 DEF RevokeOthersWrite, Revoke, TypeOK, Stamp
    <3>2. req' = [req EXCEPT ![r].step = "collecting", ![r].stamp = clock + 1]
      BY <1>8 DEF RevokeOthersWrite
    <3> QED BY <3>1, <3>2 DEF TypeOK, Request, Step
  <2> QED BY <1>8, <2>1, <2>2, RevokeTypes DEF RevokeOthersWrite, TypeOK
<1> QED BY <1>1, <1>2, <1>3, <1>4, <1>5, <1>6, <1>7, <1>8 DEF Handler

(* So do the account's and the environment's. *)
LEMMA AccountTypes ==
  ASSUME TypeOK,
         \/ \E r \in Requests : SuspendAccount(r) \/ DeleteAccount(r)
         \/ RestoreAccount
         \/ \E d \in Devices : Expire(d) \/ Connect(d) \/ Hangup(d)
  PROVE  TypeOK'
<1>1. CASE \E r \in Requests : SuspendAccount(r) \/ DeleteAccount(r)
  <2>1. PICK r \in Requests, status \in {"suspended", "deleting"} : CloseAccount(r, status)
    BY <1>1 DEF SuspendAccount, DeleteAccount
  <2>2. Unrevoked(Devices) \in SUBSET Devices
    BY DEF Unrevoked
  <2>3. req' \in [Requests -> Request]
    BY <2>1, NullTypes DEF CloseAccount, TypeOK, Request, Step
  <2> QED BY <2>1, <2>2, <2>3, RevokeTypes DEF CloseAccount, TypeOK
<1>2. CASE RestoreAccount \/ \E d \in Devices : Expire(d) \/ Connect(d) \/ Hangup(d)
  BY <1>2 DEF RestoreAccount, Expire, Connect, Hangup, TypeOK, Session
<1> QED BY <1>1, <1>2

-----------------------------------------------------------------------------
(* The inductive invariant *)

LEMMA InitInv == Init => IInv
<1> SUFFICES ASSUME Init PROVE IInv
  OBVIOUS
<1>1. TypeOK
  <2>1. 0 \in Token /\ 0 \in Stamp
    BY DeviceAssumption DEF Token, Stamp
  <2> QED BY <2>1, NullTypes DEF Init, TypeOK, NoToken
<1>2. /\ \A r \in Requests : req[r].step = "idle"
      /\ \A d \in Devices : session[d].revokedAt = 0
      /\ clock = 0 /\ sockets = {} /\ revoked = {} /\ final = {}
  BY DEF Init, Idle, Started, NoSession, NotRevoked
<1> QED BY <1>1, <1>2
        DEF IInv, QuietRevocationIsFinal, FinalIsNotRotated, LoginIsAlone, RevokedCsrfIsFinal,
            StampsAreOwn, RevokedSocketWillDrop, NotRevoked

(* The parts of the invariant speak of the handler's step, device, drop    *)
(* and stamp: this is all that a step needs to say of the requests.        *)
OthersUnchanged(r) == \A q \in Requests \ {r} : req'[q] = req[q]

RowsUnchanged == UNCHANGED <<session, clock, revoked, final>>

LEMMA FinishFacts ==
  ASSUME TypeOK, NEW r \in Requests, Finish(r)
  PROVE  OthersUnchanged(r) /\ req'[r].step = "idle"
  BY DEF Finish, OthersUnchanged, TypeOK, Idle, Started

(* A request may start on a device that is logging in only if it could not *)
(* know the device: by the guards of the calls, it does not.               *)
LEMMA CallInv ==
  ASSUME IInv, NEW r \in Requests, NEW d \in Devices, Call(r, d)
  PROVE  IInv'
<1> USE DEF IInv
<1>1. TypeOK'
  BY CallTypes
<1>2. /\ req[r].step = "idle" /\ OthersUnchanged(r) /\ RowsUnchanged /\ sockets' = sockets
      /\ req'[r].device = d
      /\ req'[r].step \in {"registering", "creating", "refreshing", "logout", "revoke",
                            "others", "password"}
  BY DEF Call, Register, Login, Refresh, Logout, RevokeDevice, RevokeOthers, ChangePassword,
         Start, Started, OthersUnchanged, RowsUnchanged, TypeOK
<1>3. /\ req'[r].step = "registering" => d \notin Browsers
      /\ req'[r].step = "creating" /\ d \in Browsers =>
           /\ ~Exists(d)
           /\ \A q \in Requests : req[q].step # "idle" => req[q].device # d
      /\ req'[r].step = "refreshing" /\ d \in Browsers => Exists(d) /\ session[d].csrf
      /\ req'[r].step \in {"logout", "revoke", "others", "password"} => Exists(d)
  BY DEF Call, Register, Login, Refresh, Logout, RevokeDevice, RevokeOthers, ChangePassword,
         Start, Started, TypeOK, CsrfAccepted, Live, Admitted, Authenticated
<1>4. QuietRevocationIsFinal' /\ RevokedCsrfIsFinal'
  BY <1>2 DEF QuietRevocationIsFinal, RevokedCsrfIsFinal, RowsUnchanged
<1>5. FinalIsNotRotated'
  BY <1>2 DEF FinalIsNotRotated, Rotating, RowsUnchanged, OthersUnchanged
<1>6. LoginIsAlone'
  <2>1. \A e \in Devices : Exists(e)' <=> Exists(e)
    BY <1>2 DEF Exists, RowsUnchanged
  <2>2. \A q \in Requests : req[q].device \in Devices
    BY DEF TypeOK, Request
  <2> QED BY <1>2, <1>3, <2>1, <2>2 DEF LoginIsAlone, RowsUnchanged, OthersUnchanged, RefreshSteps
<1>7. StampsAreOwn'
  BY <1>2 DEF StampsAreOwn, RowsUnchanged, OthersUnchanged
<1>8. RevokedSocketWillDrop'
  BY <1>2 DEF RevokedSocketWillDrop, RowsUnchanged, OthersUnchanged
<1> QED BY <1>1, <1>4, <1>5, <1>6, <1>7, <1>8

(* The handler steps that touch no row. A refresh passes its check only on *)
(* an unrevoked row; a device revoked by the request that collects is not  *)
(* its own.                                                                *)
LEMMA ReadingInv ==
  ASSUME IInv, NEW r \in Requests,
         \/ CreateUser(r) \/ RefreshToken(r) \/ RotateRead(r)
         \/ PasswordRefused(r) \/ CollectRevoked(r) \/ Disconnect(r)
  PROVE  IInv'
<1> USE DEF IInv
<1>1. TypeOK'
  BY HandlerTypes DEF Handler
<1>2. RowsUnchanged /\ OthersUnchanged(r)
  BY DEF CreateUser, RefreshToken, RotateRead, PasswordRefused, CollectRevoked, Disconnect,
         NextStep, Finish, RowsUnchanged, OthersUnchanged, TypeOK
<1> DEFINE
  Moves ==
    \/ /\ req'[r].step = "idle"
       /\ req[r].step \in {"registering", "refreshing", "password", "disconnecting"}
    \/ /\ req'[r].device = req[r].device
       /\ \/ req[r].step = "registering" /\ req'[r].step = "creating"
          \/ /\ req[r].step = "refreshing" /\ req'[r].step = "rotating"
             /\ session[req[r].device].revokedAt = NotRevoked
          \/ req[r].step = "refreshing" /\ req'[r].step = "reused"
          \/ req[r].step = "rotating" /\ req'[r].step = "rotated"
          \/ /\ req[r].step = "collecting" /\ req'[r].step = "disconnecting"
             /\ req'[r].drop = Collected(r)
  Drops == /\ sockets' \subseteq sockets
           /\ req[r].step = "disconnecting" => sockets' = sockets \ req[r].drop
<1>3. req \in [Requests -> Request] /\ Idle.step = "idle"
  BY DEF TypeOK, Idle, Started
<1>4. Moves /\ Drops
  <2>1. CASE CreateUser(r) \/ PasswordRefused(r) \/ Disconnect(r)
    BY <1>3, <2>1 DEF CreateUser, PasswordRefused, Disconnect, NextStep, Finish, Request
  <2>2. CASE RefreshToken(r)
    BY <1>3, <2>2 DEF RefreshToken, NextStep, Finish, Request, Refreshable, Live
  <2>3. CASE RotateRead(r)
    BY <1>3, <2>3 DEF RotateRead, Request
  <2>4. CASE CollectRevoked(r)
    <3>1. req' = [req EXCEPT ![r].step = "disconnecting", ![r].drop = Collected(r)]
      BY <2>4 DEF CollectRevoked
    <3> QED BY <1>3, <2>4, <3>1 DEF CollectRevoked, Request
  <2> QED BY <2>1, <2>2, <2>3, <2>4
<1>5. QuietRevocationIsFinal' /\ RevokedCsrfIsFinal'
  BY <1>2 DEF QuietRevocationIsFinal, RevokedCsrfIsFinal, RowsUnchanged
<1>6. FinalIsNotRotated'
  BY <1>2, <1>4
  DEF FinalIsNotRotated, QuietRevocationIsFinal, Rotating, RowsUnchanged, OthersUnchanged
<1>7. LoginIsAlone'
  <2>1. \A e \in Devices : Exists(e)' <=> Exists(e)
    BY <1>2 DEF Exists, RowsUnchanged
  <2>2. \A q \in Requests : req[q].device \in Devices
    BY DEF TypeOK, Request
  <2> QED BY <1>2, <1>4, <2>1, <2>2 DEF LoginIsAlone, RowsUnchanged, OthersUnchanged, RefreshSteps
<1>8. StampsAreOwn'
  BY <1>2, <1>4 DEF StampsAreOwn, RowsUnchanged, OthersUnchanged
<1>9. RevokedSocketWillDrop'
  <2> SUFFICES ASSUME NEW d \in sockets', session'[d].revokedAt # NotRevoked
               PROVE  \E q \in Requests :
                        \/ req'[q].step = "disconnecting" /\ d \in req'[q].drop
                        \/ req'[q].step = "collecting" /\ session'[d].revokedAt = req'[q].stamp
    BY DEF RevokedSocketWillDrop
  <2>1. d \in sockets /\ d \in Devices /\ session' = session
    BY <1>2, <1>4 DEF RowsUnchanged, TypeOK
  <2>2. PICK q \in Requests : \/ req[q].step = "disconnecting" /\ d \in req[q].drop
                              \/ /\ req[q].step = "collecting"
                                 /\ session[d].revokedAt = req[q].stamp
    BY <2>1 DEF RevokedSocketWillDrop
  <2>3. CASE q # r
    BY <1>2, <2>1, <2>2, <2>3 DEF OthersUnchanged
  <2>4. CASE q = r
    <3>1. req[r].step = "collecting" /\ session[d].revokedAt = req[r].stamp
      BY <1>4, <2>2, <2>4
    <3>2. d \in Collected(r)
      BY <2>1, <3>1 DEF Collected, StampsAreOwn
    <3> QED BY <1>4, <3>1, <3>2
  <2> QED BY <2>3, <2>4
<1> QED BY <1>1, <1>5, <1>6, <1>7, <1>8, <1>9

(* createSessionTokens writes a fresh row over whatever was there. *)
LEMMA CreateSessionInv ==
  ASSUME IInv, NEW r \in Requests, CreateSession(r)
  PROVE  IInv'
<1> USE DEF IInv
<1> DEFINE d == req[r].device
<1>1. TypeOK'
  BY HandlerTypes DEF Handler
<1>2. /\ OthersUnchanged(r) /\ d \in Devices /\ req[r].step = "creating"
      /\ clock' = clock /\ sockets' = sockets /\ revoked' = revoked \ {d} /\ final' = final \ {d}
  BY DEF CreateSession, Finish, OthersUnchanged, TypeOK, Request
<1>3. IF d \in Browsers THEN req'[r].step = "binding" /\ req'[r].device = d
                        ELSE req'[r].step = "idle"
  <2>1. req \in [Requests -> Request] /\ Idle.step = "idle"
    BY DEF TypeOK, Idle, Started
  <2>2. IF d \in Browsers
          THEN req' = [req EXCEPT ![r].step = "binding", ![r].token = issued']
          ELSE req' = [req EXCEPT ![r] = Idle]
    BY DEF CreateSession, Finish
  <2> QED BY <2>1, <2>2 DEF Request
<1>4. /\ \A e \in Devices \ {d} : session'[e] = session[e]
      /\ session'[d].revokedAt = 0 /\ session'[d].csrf = FALSE
  BY DEF CreateSession, NoSession, NotRevoked, TypeOK, Request
<1>5. \A q \in Requests : req[q].device \in Devices
  BY DEF TypeOK, Request
<1>6. QuietRevocationIsFinal' /\ RevokedCsrfIsFinal'
  BY <1>2, <1>4 DEF QuietRevocationIsFinal, RevokedCsrfIsFinal, TypeOK
<1>7. FinalIsNotRotated'
  BY <1>2, <1>3 DEF FinalIsNotRotated, Rotating, OthersUnchanged
<1>8. LoginIsAlone'
  BY <1>2, <1>3, <1>4, <1>5 DEF LoginIsAlone, OthersUnchanged, RefreshSteps, Exists
<1>9. StampsAreOwn'
  BY <1>2, <1>3, <1>4, <1>5 DEF StampsAreOwn, OthersUnchanged, TypeOK, Stamp
<1>10. RevokedSocketWillDrop'
  BY <1>2, <1>4 DEF RevokedSocketWillDrop, OthersUnchanged, TypeOK, NotRevoked
<1> QED BY <1>1, <1>6, <1>7, <1>8, <1>9, <1>10

(* A row revoked before its CSRF token is bound was revoked quietly. *)
LEMMA BindCsrfTokenInv ==
  ASSUME IInv, NEW r \in Requests, BindCsrfToken(r)
  PROVE  IInv'
<1> USE DEF IInv
<1> DEFINE d == req[r].device
<1>1. TypeOK'
  BY HandlerTypes DEF Handler
<1>2. /\ OthersUnchanged(r) /\ req'[r].step = "idle" /\ req[r].step = "binding"
      /\ d \in Devices /\ UNCHANGED <<sockets, clock, revoked, final>>
  BY FinishFacts DEF BindCsrfToken, TypeOK, Request
<1>3. /\ \A e \in Devices : session'[e].hash = session[e].hash
                          /\ session'[e].revokedAt = session[e].revokedAt
      /\ \A e \in Devices \ {d} : session'[e].csrf = session[e].csrf
  <2>1. session' = [session EXCEPT ![d].csrf = TRUE] /\ session \in [Devices -> Session]
    BY DEF BindCsrfToken, TypeOK
  <2> QED BY <1>2, <2>1 DEF Session
<1>4. \A q \in Requests : req[q].device \in Devices
  BY DEF TypeOK, Request
<1>5. QuietRevocationIsFinal'
  BY <1>2, <1>3 DEF QuietRevocationIsFinal, TypeOK
<1>6. RevokedCsrfIsFinal'
  BY <1>2, <1>3 DEF RevokedCsrfIsFinal, LoginIsAlone, TypeOK
<1>7. FinalIsNotRotated'
  BY <1>2 DEF FinalIsNotRotated, Rotating, OthersUnchanged
<1>8. LoginIsAlone'
  BY <1>2, <1>3, <1>4 DEF LoginIsAlone, OthersUnchanged, RefreshSteps, Exists
<1>9. StampsAreOwn'
  BY <1>2, <1>3, <1>4 DEF StampsAreOwn, OthersUnchanged
<1>10. RevokedSocketWillDrop'
  BY <1>2, <1>3 DEF RevokedSocketWillDrop, OthersUnchanged, TypeOK
<1> QED BY <1>1, <1>5, <1>6, <1>7, <1>8, <1>9, <1>10

(* rotateSessionTokens clears revokedAt: of a device not quietly revoked. *)
LEMMA RotateWriteInv ==
  ASSUME IInv, NEW r \in Requests, RotateWrite(r)
  PROVE  IInv'
<1> USE DEF IInv
<1> DEFINE d == req[r].device
<1>1. TypeOK'
  BY HandlerTypes DEF Handler
<1>2. /\ OthersUnchanged(r) /\ req'[r].step = "idle" /\ req[r].step = "rotated"
      /\ d \in Devices /\ UNCHANGED <<sockets, clock, revoked, final>>
  BY FinishFacts DEF RotateWrite, TypeOK, Request
<1>3. /\ \A e \in Devices \ {d} : session'[e] = session[e]
      /\ session'[d].revokedAt = 0 /\ session'[d].csrf = session[d].csrf
  <2>1. session' = [session EXCEPT ![d] = Rotated(session[d], issued', req[r].seen)]
    BY DEF RotateWrite
  <2>2. session \in [Devices -> Session] /\ session[d] \in Session
    BY <1>2 DEF TypeOK
  <2> QED BY <1>2, <2>1, <2>2 DEF Session, Rotated, NotRevoked
<1>4. \A q \in Requests : req[q].device \in Devices
  BY DEF TypeOK, Request
<1>5. d \notin final
  BY <1>2 DEF FinalIsNotRotated, Rotating
<1>6. QuietRevocationIsFinal' /\ RevokedCsrfIsFinal'
  BY <1>2, <1>3, <1>5 DEF QuietRevocationIsFinal, RevokedCsrfIsFinal, TypeOK
<1>7. FinalIsNotRotated'
  BY <1>2 DEF FinalIsNotRotated, Rotating, OthersUnchanged
<1>8. LoginIsAlone'
  BY <1>2, <1>3, <1>4 DEF LoginIsAlone, OthersUnchanged, RefreshSteps, Exists
<1>9. StampsAreOwn'
  BY <1>2, <1>3, <1>4 DEF StampsAreOwn, OthersUnchanged, TypeOK, Stamp
<1>10. RevokedSocketWillDrop'
  BY <1>2, <1>3 DEF RevokedSocketWillDrop, OthersUnchanged, TypeOK, NotRevoked
<1> QED BY <1>1, <1>6, <1>7, <1>8, <1>9, <1>10

(* A revocation: the devices it revokes are dropped by the request that    *)
(* made it, at once or when it has collected them by its own time.         *)
LEMMA RevokeInv ==
  ASSUME IInv, TypeOK', NEW r \in Requests, NEW D \in SUBSET Devices,
         Revoke(D), sockets' = sockets, OthersUnchanged(r),
         req[r].step \in {"reused", "logout", "revoke", "others", "password", "idle"},
         \/ req'[r].step = "disconnecting" /\ D \subseteq req'[r].drop
         \/ /\ req'[r].step = "collecting" /\ req'[r].stamp = clock + 1
            /\ req'[r].device = req[r].device /\ req[r].device \notin D
            /\ req[r].step # "idle"
  PROVE  IInv'
<1> USE DEF IInv
<1>1. /\ clock \in Nat /\ clock' = clock + 1 /\ revoked' = revoked \cup D
      /\ final' = final \cup {d \in D : ~Rotating(d)}
  BY DeviceAssumption DEF Revoke, TypeOK, Stamp
<1>2. /\ \A d \in Devices : session'[d].hash = session[d].hash
      /\ \A d \in Devices \ D : session'[d] = session[d]
      /\ \A d \in D : session'[d].revokedAt = clock + 1 /\ session'[d].csrf = FALSE
  <2>1. session \in [Devices -> Session]
    BY DEF TypeOK
  <2>2. session' = [d \in Devices |-> IF d \in D THEN RevokedRow(session[d]) ELSE session[d]]
    BY DEF Revoke
  <2> QED BY <2>1, <2>2 DEF RevokedRow, Session
<1>3. /\ \A d \in Devices : session[d].revokedAt \in Nat
      /\ \A q \in Requests : req[q].device \in Devices
      /\ final \subseteq Devices /\ revoked \subseteq Devices /\ sockets \subseteq Devices
  BY DeviceAssumption DEF TypeOK, Request, Session, Stamp
<1>4. QuietRevocationIsFinal'
  BY <1>1, <1>2, <1>3 DEF QuietRevocationIsFinal, NotRevoked
<1>5. FinalIsNotRotated'
  BY <1>1 DEF FinalIsNotRotated, Rotating, OthersUnchanged
<1>6. RevokedCsrfIsFinal'
  BY <1>1, <1>2, <1>3 DEF RevokedCsrfIsFinal
<1>7. LoginIsAlone'
  <2>1. \A d \in Devices : Exists(d)' <=> Exists(d)
    BY <1>2 DEF Exists
  <2>2. \A q \in Requests : req[q].step = "binding" => ~Rotating(req[q].device)
    BY DEF LoginIsAlone, Rotating, RefreshSteps
  <2>3. \A q \in Requests : req[q].step = "binding" /\ req[q].device \in revoked'
                             => req[q].device \in final'
    BY <1>1, <2>2 DEF LoginIsAlone
  <2>4. \A d \in Devices : ~session[d].csrf => ~session'[d].csrf
    BY <1>2
  <2> QED BY <1>3, <2>1, <2>3, <2>4 DEF LoginIsAlone, OthersUnchanged, RefreshSteps
<1>8. StampsAreOwn'
  <2>1. \A d \in Devices : session'[d].revokedAt <= clock'
    BY <1>1, <1>2, <1>3 DEF StampsAreOwn
  <2>2. ASSUME NEW q \in Requests, req'[q].step = "collecting"
        PROVE  req'[q].stamp \in 1 .. clock' /\ session'[req'[q].device].revokedAt # req'[q].stamp
    <3>1. CASE q = r
      BY <1>1, <1>2, <1>3, <2>2, <3>1 DEF StampsAreOwn
    <3>2. CASE q # r
      BY <1>1, <1>2, <1>3, <2>2, <3>2 DEF StampsAreOwn, OthersUnchanged
    <3> QED BY <3>1, <3>2
  <2> QED BY <2>1, <2>2 DEF StampsAreOwn
<1>9. RevokedSocketWillDrop'
  BY <1>1, <1>2, <1>3 DEF RevokedSocketWillDrop, OthersUnchanged
<1> QED BY <1>4, <1>5, <1>6, <1>7, <1>8, <1>9

(* The requests that revoke, each with the devices it then disconnects. *)
LEMMA RevokingInv ==
  ASSUME IInv, NEW r \in Requests,
         \/ RevokeReused(r) \/ RevokeDeviceWrite(r) \/ LogoutWrite(r) \/ RevokeOthersWrite(r)
         \/ SuspendAccount(r) \/ DeleteAccount(r)
  PROVE  IInv'
<1>1. TypeOK'
  BY HandlerTypes, AccountTypes DEF Handler, IInv
<1>2. req \in [Requests -> Request] /\ req[r].device \in Devices
  BY DEF IInv, TypeOK, Request
<1>3. CASE RevokeReused(r) \/ RevokeDeviceWrite(r) \/ LogoutWrite(r)
  <2>1. /\ req' = [req EXCEPT ![r].step = "disconnecting", ![r].drop = {req[r].device}]
        /\ sockets' = sockets /\ req[r].step \in {"reused", "revoke", "logout"}
    BY <1>3 DEF RevokeReused, RevokeDeviceWrite, LogoutWrite
  <2>2. /\ OthersUnchanged(r)
        /\ req'[r].step = "disconnecting" /\ req'[r].drop = {req[r].device}
    BY <1>2, <2>1 DEF OthersUnchanged, Request
  <2>3. PICK D \in SUBSET {req[r].device} : Revoke(D)
    BY <1>3 DEF RevokeReused, RevokeDeviceWrite, LogoutWrite, Unrevoked
  <2> QED BY <1>1, <1>2, <2>1, <2>2, <2>3, RevokeInv
<1>4. CASE RevokeOthersWrite(r)
  <2> DEFINE D == Unrevoked(Devices \ {req[r].device})
  <2>1. req' = [req EXCEPT ![r].step = "collecting", ![r].stamp = clock + 1]
    BY <1>4 DEF RevokeOthersWrite
  <2>2. /\ OthersUnchanged(r) /\ req'[r].step = "collecting" /\ req'[r].stamp = clock + 1
        /\ req'[r].device = req[r].device
    BY <1>2, <2>1 DEF OthersUnchanged, Request
  <2>3. /\ Revoke(D) /\ sockets' = sockets /\ D \in SUBSET Devices /\ req[r].device \notin D
        /\ req[r].step \in {"others", "password"}
    BY <1>4 DEF RevokeOthersWrite, Unrevoked
  <2> HIDE DEF D
  <2> QED BY <1>1, <2>2, <2>3, RevokeInv
<1>5. CASE SuspendAccount(r) \/ DeleteAccount(r)
  <2>1. PICK status \in {"suspended", "deleting"} : CloseAccount(r, status)
    BY <1>5 DEF SuspendAccount, DeleteAccount
  <2>2. /\ OthersUnchanged(r) /\ req'[r].step = "disconnecting" /\ req'[r].drop = Devices
    BY <1>2, <2>1 DEF CloseAccount, OthersUnchanged, Idle, Started
  <2>3. /\ Revoke(Unrevoked(Devices)) /\ sockets' = sockets /\ req[r].step = "idle"
        /\ Unrevoked(Devices) \in SUBSET Devices
    BY <2>1 DEF CloseAccount, Unrevoked
  <2> QED BY <1>1, <2>2, <2>3, RevokeInv
<1> QED BY <1>3, <1>4, <1>5

(* Restoring the account, expiry and the sockets leave the rows' revocations alone. *)
LEMMA EnvironmentInv ==
  ASSUME IInv, RestoreAccount \/ \E d \in Devices : Expire(d) \/ Connect(d) \/ Hangup(d)
  PROVE  IInv'
<1> USE DEF IInv
<1>1. TypeOK'
  BY AccountTypes
<1>2. UNCHANGED <<req, clock, revoked, final>>
  BY DEF RestoreAccount, Expire, Connect, Hangup
<1>3. \A d \in Devices : /\ session'[d].hash = session[d].hash
                        /\ session'[d].csrf = session[d].csrf
                        /\ session'[d].revokedAt = session[d].revokedAt
  BY DEF RestoreAccount, Expire, Connect, Hangup, TypeOK, Session
<1>4. \A d \in sockets' : d \in sockets \/ session[d].revokedAt = NotRevoked
  BY DEF RestoreAccount, Expire, Connect, Hangup, Authenticated, Live
<1>5. \A q \in Requests : req[q].device \in Devices
  BY DEF TypeOK, Request
<1>6. QuietRevocationIsFinal' /\ FinalIsNotRotated' /\ RevokedCsrfIsFinal'
  BY <1>2, <1>3 DEF QuietRevocationIsFinal, FinalIsNotRotated, Rotating, RevokedCsrfIsFinal, TypeOK
<1>7. LoginIsAlone' /\ StampsAreOwn'
  BY <1>2, <1>3, <1>5 DEF LoginIsAlone, StampsAreOwn, Exists
<1>8. RevokedSocketWillDrop'
  BY <1>1, <1>2, <1>3, <1>4 DEF RevokedSocketWillDrop, TypeOK
<1> QED BY <1>1, <1>6, <1>7, <1>8

LEMMA StepInv == IInv /\ [Next]_vars => IInv'
<1> SUFFICES ASSUME IInv, [Next]_vars PROVE IInv'
  OBVIOUS
<1>1. ASSUME NEW r \in Requests, Handler(r) \/ SuspendAccount(r) \/ DeleteAccount(r)
      PROVE  IInv'
  BY <1>1, ReadingInv, CreateSessionInv, BindCsrfTokenInv, RotateWriteInv, RevokingInv DEF Handler
<1>2. CASE UNCHANGED vars
  BY <1>2
  DEF vars, IInv, TypeOK, QuietRevocationIsFinal, FinalIsNotRotated, Rotating, LoginIsAlone,
      Exists, RevokedCsrfIsFinal, StampsAreOwn, RevokedSocketWillDrop
<1>3. CASE Next
  BY <1>1, <1>3, CallInv, EnvironmentInv DEF Next
<1> QED BY <1>2, <1>3

(* The invariant holds of every state that DeviceSessions reaches. *)
THEOREM Invariance == Spec => []IInv
<1> QED BY InitInv, StepInv, PTL DEF Spec

-----------------------------------------------------------------------------

(* The rows, the tokens and the requests of DeviceSessions keep their types. *)
THEOREM TypeCorrectness == Spec => []TypeOK
<1>1. IInv => TypeOK
  BY DEF IInv
<1> QED BY Invariance, <1>1, PTL

(* A revocation that no checked refresh was racing with is final until the *)
(* next login, although rotateSessionTokens sets revokedAt to null.        *)
THEOREM QuietRevocationsAreFinal == Spec => []QuietRevocationIsFinal
<1>1. IInv => QuietRevocationIsFinal
  BY DEF IInv
<1> QED BY Invariance, <1>1, PTL

(* requireCsrf refuses a browser whose session was revoked once, even when *)
(* a racing refresh gave the row back: either the revocation cleared       *)
(* csrfTokenHash or nothing raced with it.                                 *)
THEOREM RevokedBrowsersAreReadOnly == Spec => []RevokedBrowserIsReadOnly
<1>1. IInv => RevokedBrowserIsReadOnly
  <2> SUFFICES ASSUME IInv, NEW d \in revoked \intersect Browsers, Admitted(d) PROVE FALSE
    BY DEF RevokedBrowserIsReadOnly
  <2>1. session[d].csrf /\ session[d].revokedAt = NotRevoked
    BY DEF Admitted, CsrfAccepted, Live
  <2> QED BY <2>1 DEF IInv, RevokedCsrfIsFinal, QuietRevocationIsFinal
<1> QED BY Invariance, <1>1, PTL

(* No revocation forgets a socket: the device of a connected socket has an *)
(* unrevoked row, or some handler is about to disconnect it.               *)
THEOREM RevokedSocketsWillDrop == Spec => []RevokedSocketWillDrop
<1>1. IInv => RevokedSocketWillDrop
  BY DEF IInv
<1> QED BY Invariance, <1>1, PTL
=============================================================================
