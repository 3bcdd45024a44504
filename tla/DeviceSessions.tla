--------------------------- MODULE DeviceSessions ---------------------------
(***************************************************************************)
(* The device sessions of one account: IdentityService, BrowserAuthService *)
(* with its CSRF binding, the portal's and the administrator's revocations *)
(* and the two guards that admit a request (JwtStrategy.validate and       *)
(* requireCsrf).                                                           *)
(*                                                                         *)
(* A handler is a request that awaits the database and bcrypt between its  *)
(* reads and its writes; req[r].step says what it does next. A response    *)
(* may be lost, so the client may keep the token it had.                   *)
(*                                                                         *)
(* Rows of other accounts with the same deviceId play no part: see         *)
(* Matches. A browser login draws a random deviceId, so a browser device   *)
(* has at most one login; a desktop keeps its id and may log in again.     *)
(***************************************************************************)
EXTENDS Naturals, FiniteSets

CONSTANTS
  Devices,
  Browsers,        \* the devices whose id was drawn by BrowserAuthService.login
  Requests,        \* handlers that may be in progress at the same time
  MaxTokens,       \* bound on the refresh tokens issued
  MaxRevocations   \* bound on the revocation times

ASSUME DeviceAssumption ==
  /\ Devices # {} /\ Browsers \subseteq Devices
  /\ MaxTokens \in Nat
  /\ MaxRevocations \in Nat

NoToken == 0      \* no hash in the column, no token in the client
NotRevoked == 0   \* revokedAt IS NULL

Token == 0 .. MaxTokens
Stamp == 0 .. MaxRevocations

(* hash = NoToken: there is no row. csrf: csrfTokenHash IS NOT NULL *)
Session ==
  [hash : Token, previous : Token, csrf : BOOLEAN, expired : BOOLEAN, revokedAt : Stamp]

NoSession ==
  [hash |-> NoToken, previous |-> NoToken, csrf |-> FALSE, expired |-> FALSE,
   revokedAt |-> NotRevoked]

Step == {"idle", "registering", "creating", "binding", "refreshing", "reused", "rotating",
         "rotated", "logout", "revoke", "others", "password", "collecting",
         "disconnecting"}

(* token: sent or issued; seen: what a read returned; drop: to disconnect *)
Request ==
  [step : Step, device : Devices, token : Token, seen : Token, stamp : Stamp,
   drop : SUBSET Devices]

VARIABLES
  account,   \* "none", "active", "suspended", or "deleting": deletionRequestedAt set
  session,   \* DeviceSession rows by deviceId
  client,    \* the refresh token each device holds (cookie or desktop storage)
  sockets,   \* the devices with a Socket.IO connection (PresenceGateway)
  req,       \* handlers in progress
  issued,    \* refresh tokens issued so far
  clock,     \* time of the last revocation
  revoked,   \* history: devices revoked at least once since their login
  final      \* history: revoked while no checked refresh of theirs was under way

vars == <<account, session, client, sockets, req, issued, clock, revoked, final>>

TypeOK ==
  /\ account \in {"none", "active", "suspended", "deleting"}
  /\ session \in [Devices -> Session]
  /\ client \in [Devices -> Token]
  /\ sockets \subseteq Devices
  /\ req \in [Requests -> Request]
  /\ issued \in Token
  /\ clock \in Stamp
  /\ revoked \subseteq Devices
  /\ final \subseteq Devices

AnyDevice == CHOOSE d \in Devices : TRUE

Started(d, step, token) ==
  [step |-> step, device |-> d, token |-> token, seen |-> NoToken,
   stamp |-> NotRevoked, drop |-> {}]

Idle == Started(AnyDevice, "idle", NoToken)

-----------------------------------------------------------------------------
(* What the guards and the handlers read *)

Exists(d) == session[d].hash # NoToken
Live(d)   == Exists(d) /\ session[d].revokedAt = NotRevoked /\ ~session[d].expired

(* JwtStrategy.validate; the same conditions make isSessionActive *)
Authenticated(d) == Live(d) /\ account = "active"

(* requireCsrf; a browser sends the token of its cookie, drawn once at login *)
CsrfAccepted(d) == Live(d) /\ session[d].csrf

(* BrowserCsrfGuard asks for the token only when the access cookie is there *)
Admitted(d) == Authenticated(d) /\ (d \in Browsers => CsrfAccepted(d))

(***************************************************************************)
(* bcrypt reads 72 bytes of its input. The header of a refresh token takes *)
(* 37 of them and the payload begins with the user's id, so the hash of    *)
(* any token of the account matches every token of the account, and never  *)
(* one of another account.                                                 *)
(***************************************************************************)
Matches(token, hash) == token # NoToken /\ hash # NoToken

(* mutant: the revocation of the matching row is not looked at *)
RefreshableUnlessExpired(d, token) ==
  Matches(token, session[d].hash) /\ ~session[d].expired /\ account = "active"

(* the active session refreshToken rotates *)
Refreshable(d, token) ==
  Matches(token, session[d].hash) /\ Live(d) /\ account = "active"

Reused(d, token) == Matches(token, session[d].previous)

(* refreshes past their check: they write whatever happens in between *)
Rotating(d) == \E r \in Requests : req[r].device = d /\ req[r].step \in {"rotating", "rotated"}

-----------------------------------------------------------------------------
(* What they write *)

NextStep(r, step) == req' = [req EXCEPT ![r].step = step]
Finish(r)         == req' = [req EXCEPT ![r] = Idle]

(* mutant: a revocation leaves the CSRF hash in the row *)
RevokedRowKeepsCsrf(s) == [s EXCEPT !.revokedAt = clock + 1]

RevokedRow(s) == [s EXCEPT !.revokedAt = clock + 1, !.csrf = FALSE]

(* one statement that revokes the rows of D *)
Revoke(D) ==
  /\ clock < MaxRevocations
  /\ clock' = clock + 1
  /\ session' = [d \in Devices |-> IF d \in D THEN RevokedRow(session[d]) ELSE session[d]]
  /\ revoked' = revoked \union D
  /\ final' = final \union {d \in D : ~Rotating(d)}

(* updateMany ... where revokedAt is null *)
Unrevoked(D) == {d \in D : Exists(d) /\ session[d].revokedAt = NotRevoked}

(* the response reaches the client or is lost *)
Respond(d, token) == client' \in {client, [client EXCEPT ![d] = token]}

Start(r, d, step, token) ==
  /\ req[r].step = "idle"
  /\ req' = [req EXCEPT ![r] = Started(d, step, token)]
  /\ UNCHANGED <<account, session, client, sockets, issued, clock, revoked, final>>

-----------------------------------------------------------------------------
(* Registration and login *)

(* register: the e-mail is free; then bcrypt *)
Register(r, d) ==
  /\ account = "none" /\ d \notin Browsers
  /\ Start(r, d, "registering", NoToken)

(***************************************************************************)
(* createUserWithUniquePublicIdentity: the row is inserted, or the unique  *)
(* index on the e-mail refuses it, or five identities in a row were taken. *)
(***************************************************************************)
CreateUser(r) ==
  /\ req[r].step = "registering"
  /\ \/ account = "none" /\ account' = "active" /\ NextStep(r, "creating")
     \/ UNCHANGED account /\ Finish(r)
  /\ UNCHANGED <<session, client, sockets, issued, clock, revoked, final>>

(* login: the password matches and the account is active; then bcrypt *)
Login(r, d) ==
  /\ account = "active"
  /\ d \in Browsers => /\ ~Exists(d)
                       /\ \A q \in Requests : req[q].step # "idle" => req[q].device # d
  /\ Start(r, d, "creating", NoToken)

(* createSessionTokens: issue and upsert; a desktop has its answer *)
CreateSession(r) ==
  LET d == req[r].device IN
  /\ req[r].step = "creating"
  /\ issued < MaxTokens /\ issued' = issued + 1
  /\ session' = [session EXCEPT ![d] = [NoSession EXCEPT !.hash = issued']]
  /\ revoked' = revoked \ {d}
  /\ final' = final \ {d}
  /\ IF d \in Browsers
       THEN /\ req' = [req EXCEPT ![r].step = "binding", ![r].token = issued']
            /\ UNCHANGED client
       ELSE Respond(d, issued') /\ Finish(r)
  /\ UNCHANGED <<account, sockets, clock>>

(* BrowserAuthService.login: bindCsrfToken, then the cookies *)
BindCsrfToken(r) ==
  /\ req[r].step = "binding"
  /\ session' = [session EXCEPT ![req[r].device].csrf = TRUE]
  /\ Respond(req[r].device, req[r].token)
  /\ Finish(r)
  /\ UNCHANGED <<account, sockets, issued, clock, revoked, final>>

-----------------------------------------------------------------------------
(* Refresh *)

(* a desktop sends its token; a browser must also pass requireCsrf *)
Refresh(r, d) ==
  /\ client[d] # NoToken
  /\ d \in Browsers => CsrfAccepted(d)
  /\ Start(r, d, "refreshing", client[d])

(* refreshToken reads the rows: reuse first, then the active session *)
RefreshToken(r) ==
  LET d == req[r].device IN
  /\ req[r].step = "refreshing"
  /\ \/ /\ Reused(d, req[r].token)
        /\ req' = [req EXCEPT ![r].step = "reused", ![r].seen = session[d].hash]
     \/ /\ ~Reused(d, req[r].token)
        /\ Refreshable(d, req[r].token)
        /\ NextStep(r, "rotating")
     \/ /\ ~Reused(d, req[r].token)
        /\ ~Refreshable(d, req[r].token)
        /\ Finish(r)
  /\ UNCHANGED <<account, session, client, sockets, issued, clock, revoked, final>>

(* a consumed token: the row is revoked, then the device disconnected *)
RevokeReused(r) ==
  LET d == req[r].device IN
  /\ req[r].step = "reused"
  /\ Revoke({d})
  /\ req' = [req EXCEPT ![r].step = "disconnecting", ![r].drop = {d}]
  /\ UNCHANGED <<account, client, sockets, issued>>

(* rotateSessionTokens: after bcrypt the row is read again for its hash *)
RotateRead(r) ==
  /\ req[r].step = "rotating"
  /\ req' = [req EXCEPT ![r].step = "rotated", ![r].seen = session[req[r].device].hash]
  /\ UNCHANGED <<account, session, client, sockets, issued, clock, revoked, final>>

Rotated(s, hash, previous) ==
  [s EXCEPT !.hash = hash, !.previous = previous, !.expired = FALSE,
            !.revokedAt = NotRevoked]

(* ... and written whatever it says by now: revokedAt becomes null *)
RotateWrite(r) ==
  LET d == req[r].device IN
  /\ req[r].step = "rotated"
  /\ issued < MaxTokens /\ issued' = issued + 1
  /\ session' = [session EXCEPT ![d] = Rotated(session[d], issued', req[r].seen)]
  /\ Respond(d, issued')
  /\ Finish(r)
  /\ UNCHANGED <<account, sockets, clock, revoked, final>>

-----------------------------------------------------------------------------
(* Logout and revocations; the request was admitted before it writes *)

Logout(r, d)         == Admitted(d) /\ Start(r, d, "logout", NoToken)
RevokeOthers(r, d)   == Admitted(d) /\ Start(r, d, "others", NoToken)
ChangePassword(r, d) == Admitted(d) /\ Start(r, d, "password", NoToken)

(* portal or admin revokeDevice of the session of device d *)
RevokeDevice(r, d) ==
  /\ Exists(d)
  /\ Start(r, d, "revoke", NoToken)

(* identity.logout; a browser's cookies are cleared *)
LogoutWrite(r) ==
  LET d == req[r].device IN
  /\ req[r].step = "logout"
  /\ Revoke(Unrevoked({d}))
  /\ req' = [req EXCEPT ![r].step = "disconnecting", ![r].drop = {d}]
  /\ client' = [client EXCEPT ![d] = NoToken]
  /\ UNCHANGED <<account, sockets, issued>>

(* revokeDevice, of the portal and of the admin: the update is unconditional *)
RevokeDeviceWrite(r) ==
  LET d == req[r].device IN
  /\ req[r].step = "revoke"
  /\ Revoke({d})
  /\ req' = [req EXCEPT ![r].step = "disconnecting", ![r].drop = {d}]
  /\ UNCHANGED <<account, client, sockets, issued>>

(* revokeOtherDevices, changePassword *)
RevokeOthersWrite(r) ==
  /\ req[r].step \in {"others", "password"}
  /\ Revoke(Unrevoked(Devices \ {req[r].device}))
  /\ req' = [req EXCEPT ![r].step = "collecting", ![r].stamp = clock + 1]
  /\ UNCHANGED <<account, client, sockets, issued>>

(* changePassword: the old one is wrong, or the new one is the same *)
PasswordRefused(r) ==
  /\ req[r].step = "password"
  /\ Finish(r)
  /\ UNCHANGED <<account, session, client, sockets, issued, clock, revoked, final>>

(* mutant: only sessions that are still live are disconnected *)
CollectedIfLive(r) ==
  {d \in Devices \ {req[r].device} : Live(d)}

(* the rows that still bear the time of this revocation *)
Collected(r) ==
  {d \in Devices \ {req[r].device} : session[d].revokedAt = req[r].stamp}

(* The query is taken to answer.  If it throws after the revocation was    *)
(* committed nobody is disconnected, and the sockets last until their next *)
(* validation, 30 s at most.                                               *)
CollectRevoked(r) ==
  /\ req[r].step = "collecting"
  /\ req' = [req EXCEPT ![r].step = "disconnecting", ![r].drop = Collected(r)]
  /\ UNCHANGED <<account, session, client, sockets, issued, clock, revoked, final>>

(* disconnectDevice for each of them, disconnectUser for all *)
Disconnect(r) ==
  /\ req[r].step = "disconnecting"
  /\ sockets' = sockets \ req[r].drop
  /\ Finish(r)
  /\ UNCHANGED <<account, session, client, issued, clock, revoked, final>>

(* setAccountStatus: SUSPENDED, and deleteAccount: one transaction *)
CloseAccount(r, status) ==
  /\ req[r].step = "idle" /\ account \in {"active", "suspended"}
  /\ account' = status
  /\ Revoke(Unrevoked(Devices))
  /\ req' = [req EXCEPT ![r] = [Idle EXCEPT !.step = "disconnecting", !.drop = Devices]]
  /\ UNCHANGED <<client, sockets, issued>>

SuspendAccount(r) == CloseAccount(r, "suspended")
DeleteAccount(r)  == account = "active" /\ CloseAccount(r, "deleting")

(* setAccountStatus: ACTIVE; refused once deletion was requested *)
RestoreAccount ==
  /\ account = "suspended"
  /\ account' = "active"
  /\ UNCHANGED <<session, client, sockets, req, issued, clock, revoked, final>>

-----------------------------------------------------------------------------
(* The environment *)

(* expiresAt passes *)
Expire(d) ==
  /\ Exists(d) /\ ~session[d].expired
  /\ session' = [session EXCEPT ![d].expired = TRUE]
  /\ UNCHANGED <<account, client, sockets, req, issued, clock, revoked, final>>

(* a socket passes SocketAuthService; PresenceGateway follows it from there *)
Connect(d) ==
  /\ Authenticated(d) /\ d \notin sockets
  /\ sockets' = sockets \union {d}
  /\ UNCHANGED <<account, session, client, req, issued, clock, revoked, final>>

Hangup(d) ==
  /\ d \in sockets
  /\ sockets' = sockets \ {d}
  /\ UNCHANGED <<account, session, client, req, issued, clock, revoked, final>>

Init ==
  /\ account = "none"
  /\ session = [d \in Devices |-> NoSession]
  /\ client = [d \in Devices |-> NoToken]
  /\ sockets = {}
  /\ req = [r \in Requests |-> Idle]
  /\ issued = 0
  /\ clock = 0
  /\ revoked = {}
  /\ final = {}

Handler(r) ==
  \/ CreateUser(r) \/ CreateSession(r) \/ BindCsrfToken(r)
  \/ RefreshToken(r) \/ RevokeReused(r) \/ RotateRead(r) \/ RotateWrite(r)
  \/ LogoutWrite(r) \/ RevokeDeviceWrite(r) \/ RevokeOthersWrite(r)
  \/ PasswordRefused(r) \/ CollectRevoked(r) \/ Disconnect(r)

Call(r, d) ==
  \/ Register(r, d) \/ Login(r, d) \/ Refresh(r, d) \/ Logout(r, d)
  \/ RevokeDevice(r, d) \/ RevokeOthers(r, d) \/ ChangePassword(r, d)

Next ==
  \/ \E r \in Requests : Handler(r) \/ SuspendAccount(r) \/ DeleteAccount(r)
  \/ \E r \in Requests, d \in Devices : Call(r, d)
  \/ RestoreAccount
  \/ \E d \in Devices : Expire(d) \/ Connect(d) \/ Hangup(d)

Spec == Init /\ [][Next]_vars

-----------------------------------------------------------------------------
(* Properties *)

(***************************************************************************)
(* A revocation that no checked refresh was racing with is final until the *)
(* next login: whatever refreshes, logouts, revocations and suspensions    *)
(* come later, rotateSessionTokens, which clears revokedAt, does not give  *)
(* the session back.                                                       *)
(***************************************************************************)
QuietRevocationIsFinal ==
  \A d \in final : session[d].revokedAt # NotRevoked

(***************************************************************************)
(* A browser session revoked once admits no CSRF-protected request ever    *)
(* again, not even when a racing refresh cleared its revokedAt: every      *)
(* revocation clears csrfTokenHash, only a login binds one, and a login    *)
(* draws a new device.                                                     *)
(***************************************************************************)
RevokedBrowserIsReadOnly ==
  \A d \in revoked \intersect Browsers : ~Admitted(d)

(***************************************************************************)
(* A connected socket belongs to a session that is not revoked, or some    *)
(* handler is still about to disconnect it. revokeOtherDevices finds the   *)
(* devices to disconnect by the time it wrote, after a second query: a     *)
(* row revoked again in between is another handler's to disconnect.        *)
(***************************************************************************)
RevokedSocketWillDrop ==
  \A d \in sockets :
    \/ session[d].revokedAt = NotRevoked
    \/ \E r \in Requests :
         \/ req[r].step = "disconnecting" /\ d \in req[r].drop
         \/ req[r].step = "collecting" /\ session[d].revokedAt = req[r].stamp

(***************************************************************************)
(* docs/architecture-overview.md: the session is revoked on the reuse of   *)
(* the previous refresh token; a token that is not reused gets a new pair. *)
(***************************************************************************)
OnlyConsumedTokenRevokes ==
  \A r \in Requests : req[r].step = "reused" => req[r].token # req[r].seen
=============================================================================
