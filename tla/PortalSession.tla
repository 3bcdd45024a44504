---------------------------- MODULE PortalSession ----------------------------
(***************************************************************************)
(* The portal in one browser: api (portal/src/lib/api.ts), which answers a *)
(* 401 with a refresh and one retry, and the logins and logouts of         *)
(* AuthProvider.  The calls of a tab share its refresh; the tabs share the *)
(* cookies and nothing else.  A request carries the cookies of the moment  *)
(* it is sent; its answer arrives later or is lost, and any two requests   *)
(* overtake each other.                                                    *)
(*                                                                         *)
(* What the server does with a refresh token is the subject of             *)
(* DeviceSessions: here it rotates the token or refuses it, and a refusal  *)
(* may end the session.  A session the browser had before is not told      *)
(* apart from the one it has.  Tokens are numbers, 0 for no cookie.        *)
(*                                                                         *)
(* AuthProvider's user is left out: it decides which requests a tab        *)
(* offers, and as each tab learns of a login or logout of another only     *)
(* when it is loaded again, any tab may offer either at any time.          *)
(***************************************************************************)
EXTENDS Naturals

CONSTANTS Tabs,            \* pages of the portal open in the browser
          AuthTabs,        \* those in which somebody logs in or out
          Calls,           \* calls of api that change something on the server
          MaxTokens        \* bound: refresh tokens issued

ASSUME TokensAssumption == MaxTokens \in Nat \ {0}

ASSUME TabsAssumption == AuthTabs \subseteq Tabs

VARIABLES calls,           \* each call of api
          effects,         \* how often the server carried it out
          refreshes,       \* refresh requests, under way or answered
          refreshPromise,  \* the module's variable of each tab, as a Boolean
          login, logout,   \* each tab's request of that kind
          access,          \* the access cookie: "none", "live" or "expired"
          token,           \* the refresh cookie
          issued,          \* tokens issued so far
          sessionLive,     \* the DeviceSession row
          spent            \* history: tokens the browser got a successor for

portalVars == <<calls, effects, refreshes, refreshPromise, login, logout,
                access, token, issued, sessionLive, spent>>

Cookie == {"none", "live", "expired"}
Answer == {"open", "ok", "401", "lost"}

Call == [tab : Tabs, phase : {"idle", "sent", "waiting", "done"}, retry : BOOLEAN,
         access : Cookie, answer : Answer]
NotCalled == {[tab |-> t, phase |-> "idle", retry |-> FALSE, access |-> "none",
               answer |-> "open"] : t \in Tabs}

Refresh == [by : Calls, tab : Tabs, token : 0..MaxTokens, answer : Answer,
            new : 0..MaxTokens]

\* A login's answer brings a token, a logout is sent with the access cookie.
Login == [answer : {"none"} \cup Answer, token : 0..MaxTokens]
Logout == [answer : {"none"} \cup Answer, access : Cookie]
NoLogin == [answer |-> "none", token |-> 0]
NoLogout == [answer |-> "none", access |-> "none"]

PortalTypeOK ==
  /\ calls \in [Calls -> Call]
  /\ effects \in [Calls -> 0..2]
  /\ refreshes \subseteq Refresh
  /\ refreshPromise \in [Tabs -> BOOLEAN]
  /\ login \in [AuthTabs -> Login] /\ logout \in [AuthTabs -> Logout]
  /\ access \in Cookie
  /\ token \in 0..MaxTokens /\ issued \in 0..MaxTokens
  /\ sessionLive \in BOOLEAN
  /\ spent \subseteq 1..MaxTokens

\* The portal is opened with the cookies an earlier visit left; each call
\* will be made in one of the tabs.
PortalInit ==
  /\ calls \in [Calls -> NotCalled]
  /\ effects = [c \in Calls |-> 0]
  /\ refreshes = {}
  /\ refreshPromise = [t \in Tabs |-> FALSE]
  /\ login = [t \in AuthTabs |-> NoLogin] /\ logout = [t \in AuthTabs |-> NoLogout]
  /\ access \in {"none", "live"}
  /\ token \in {0, 1}
  /\ access = "live" => token = 1
  /\ issued = 1
  /\ sessionLive = (token = 1)
  /\ spent = {}

-----------------------------------------------------------------------------
(* api                                                                      *)

StartCall(c) ==
  /\ calls[c].phase = "idle"
  /\ calls' = [calls EXCEPT ![c].phase = "sent", ![c].access = access]
  /\ UNCHANGED <<effects, refreshes, refreshPromise, login, logout, access,
                 token, issued, sessionLive, spent>>

Authorized(c) == calls[c].access = "live" /\ sessionLive

\* The server carries a call out or answers 401; either answer may be lost.
ServeCall(c) ==
  /\ calls[c].phase = "sent" /\ calls[c].answer = "open"
  /\ \E answer \in {"lost", IF Authorized(c) THEN "ok" ELSE "401"} :
       calls' = [calls EXCEPT ![c].answer = answer]
  /\ effects' = [effects EXCEPT ![c] = IF Authorized(c) THEN @ + 1 ELSE @]
  /\ UNCHANGED <<refreshes, refreshPromise, login, logout, access, token,
                 issued, sessionLive, spent>>

\* A retry after any failure, the lost answer included.
MayRefreshAfterAny(c) == calls[c].answer # "ok" /\ ~calls[c].retry

MayRefresh(c) == calls[c].answer = "401" /\ ~calls[c].retry

\* Every caller starts a refresh of its own.
Unshared(t) == TRUE

\* if (!refreshPromise)
NoRefreshUnderWay(t) == ~refreshPromise[t]

\* The answer arrives: api returns, throws, or waits for its tab's refresh,
\* which it starts unless one is under way.
CallAnswered(c) ==
  LET t == calls[c].tab IN
  /\ calls[c].phase = "sent" /\ calls[c].answer # "open"
  /\ IF MayRefresh(c)
     THEN /\ calls' = [calls EXCEPT ![c].phase = "waiting"]
          /\ IF NoRefreshUnderWay(t)
             THEN /\ refreshPromise' = [refreshPromise EXCEPT ![t] = TRUE]
                  /\ refreshes' = refreshes \cup
                       {[by |-> c, tab |-> t, token |-> token, answer |-> "open",
                         new |-> 0]}
             ELSE UNCHANGED <<refreshPromise, refreshes>>
     ELSE /\ calls' = [calls EXCEPT ![c].phase = "done"]
          /\ UNCHANGED <<refreshPromise, refreshes>>
  /\ UNCHANGED <<effects, login, logout, access, token, issued, sessionLive, spent>>

\* The server rotates the token or refuses it; a refusal may revoke the
\* session.  The answer may be lost after the rotation.
ServeRefresh(r) ==
  /\ r.answer = "open"
  /\ \/ /\ sessionLive /\ r.token # 0 /\ issued < MaxTokens
        /\ issued' = issued + 1
        /\ \E answer \in {"ok", "lost"} :
             refreshes' = (refreshes \ {r}) \cup
                            {[r EXCEPT !.answer = answer, !.new = issued + 1]}
        /\ UNCHANGED sessionLive
     \/ /\ refreshes' = (refreshes \ {r}) \cup {[r EXCEPT !.answer = "401"]}
        /\ sessionLive' \in {sessionLive, FALSE}
        /\ UNCHANGED issued
  /\ UNCHANGED <<calls, effects, refreshPromise, login, logout, access, token, spent>>

\* finally clears refreshPromise; then every caller of this tab that waited
\* goes on: with a true answer it sends its request again, with a false one it
\* throws.
RefreshAnswered(r) ==
  LET waits(c) == calls[c].tab = r.tab /\ calls[c].phase = "waiting" IN
  /\ r.answer # "open"
  /\ refreshes' = refreshes \ {r}
  /\ refreshPromise' = [refreshPromise EXCEPT ![r.tab] = FALSE]
  /\ IF r.answer = "ok"
     THEN /\ access' = "live" /\ token' = r.new
          /\ calls' = [c \in Calls |->
               IF waits(c)
               THEN [tab |-> r.tab, phase |-> "sent", retry |-> TRUE,
                     access |-> "live", answer |-> "open"]
               ELSE calls[c]]
          /\ spent' = spent \cup {r.token}
     ELSE /\ calls' = [c \in Calls |->
               IF waits(c) THEN [calls[c] EXCEPT !.phase = "done"] ELSE calls[c]]
          /\ UNCHANGED <<access, token, spent>>
  /\ UNCHANGED <<effects, login, logout, issued, sessionLive>>

-----------------------------------------------------------------------------
(* AuthProvider: these paths never refresh and are never sent again.        *)

AskLogin(t) ==
  /\ login[t].answer = "none"
  /\ login' = [login EXCEPT ![t].answer = "open"]
  /\ UNCHANGED <<calls, effects, refreshes, refreshPromise, logout, access,
                 token, issued, sessionLive, spent>>

\* A new session with new cookies; the wrong password is a 401.
ServeLogin(t) ==
  /\ login[t].answer = "open"
  /\ \/ /\ issued < MaxTokens
        /\ issued' = issued + 1
        /\ sessionLive' = TRUE
        /\ \E answer \in {"ok", "lost"} :
             login' = [login EXCEPT ![t] = [answer |-> answer, token |-> issued + 1]]
     \/ /\ login' = [login EXCEPT ![t].answer = "401"]
        /\ UNCHANGED <<issued, sessionLive>>
  /\ UNCHANGED <<calls, effects, refreshes, refreshPromise, logout, access,
                 token, spent>>

LoginAnswered(t) ==
  /\ login[t].answer \in {"ok", "401", "lost"}
  /\ login' = [login EXCEPT ![t] = NoLogin]
  /\ IF login[t].answer = "ok"
     THEN access' = "live" /\ token' = login[t].token
     ELSE UNCHANGED <<access, token>>
  /\ UNCHANGED <<calls, effects, refreshes, refreshPromise, logout, issued,
                 sessionLive, spent>>

AskLogout(t) ==
  /\ logout[t].answer = "none"
  /\ logout' = [logout EXCEPT ![t] = [answer |-> "open", access |-> access]]
  /\ UNCHANGED <<calls, effects, refreshes, refreshPromise, login, access,
                 token, issued, sessionLive, spent>>

\* Without a live access cookie the guard refuses and the session stays.
ServeLogout(t) ==
  /\ logout[t].answer = "open"
  /\ IF logout[t].access = "live" /\ sessionLive
     THEN /\ sessionLive' = FALSE
          /\ \E answer \in {"ok", "lost"} : logout' = [logout EXCEPT ![t].answer = answer]
     ELSE /\ logout' = [logout EXCEPT ![t].answer = "401"]
          /\ UNCHANGED sessionLive
  /\ UNCHANGED <<calls, effects, refreshes, refreshPromise, login, access,
                 token, issued, spent>>

\* Only the answer clears the cookies; the tab forgets its user in any case.
LogoutAnswered(t) ==
  /\ logout[t].answer \in {"ok", "401", "lost"}
  /\ logout' = [logout EXCEPT ![t] = NoLogout]
  /\ IF logout[t].answer = "ok"
     THEN access' = "none" /\ token' = 0
     ELSE UNCHANGED <<access, token>>
  /\ UNCHANGED <<calls, effects, refreshes, refreshPromise, login, issued,
                 sessionLive, spent>>

-----------------------------------------------------------------------------
(* Time, and the other places a session is revoked from.                    *)

Expired(cookie) == IF cookie = "live" THEN "expired" ELSE cookie

AccessExpires ==
  /\ access = "live"
  /\ access' = "expired"
  /\ calls' = [c \in Calls |-> [calls[c] EXCEPT !.access = Expired(@)]]
  /\ logout' = [t \in AuthTabs |-> [logout[t] EXCEPT !.access = Expired(@)]]
  /\ UNCHANGED <<effects, refreshes, refreshPromise, login, token, issued,
                 sessionLive, spent>>

SessionRevoked ==
  /\ sessionLive
  /\ sessionLive' = FALSE
  /\ UNCHANGED <<calls, effects, refreshes, refreshPromise, login, logout,
                 access, token, issued, spent>>

PortalNext ==
  \/ \E c \in Calls : StartCall(c) \/ ServeCall(c) \/ CallAnswered(c)
  \/ \E r \in refreshes : ServeRefresh(r) \/ RefreshAnswered(r)
  \/ \E t \in AuthTabs : \/ AskLogin(t) \/ ServeLogin(t) \/ LoginAnswered(t)
                         \/ AskLogout(t) \/ ServeLogout(t) \/ LogoutAnswered(t)
  \/ AccessExpires \/ SessionRevoked

PortalSpec == PortalInit /\ [][PortalNext]_portalVars

-----------------------------------------------------------------------------
\* What api reports is what happened: a call that returned was carried out
\* once, one that threw a 401 was not, and one whose answer was lost was
\* carried out at most once, whatever was refreshed and retried meanwhile.
\* (api, portal/src/lib/api.ts:57-101)
ReportsWhatHappened ==
  \A c \in Calls :
    /\ effects[c] <= 1
    /\ calls[c].phase = "done" /\ calls[c].answer = "ok" => effects[c] = 1
    /\ calls[c].phase = "done" /\ calls[c].answer = "401" => effects[c] = 0

\* The server takes a second use of a refresh token for theft and ends the
\* session.  A tab sends no token that it has sent and awaits the answer for,
\* and no tab sends one that the browser already has the successor of.  What
\* the application does not rule out is named by what is left open: another
\* tab may send the same token meanwhile, and one whose answer was lost or was
\* a refusal may be sent again.  (refreshSession, portal/src/lib/api.ts:129-140)
RefreshIsShared ==
  [][\A r \in refreshes' \ refreshes : r.answer = "open" =>
       /\ r.token \notin spent
       /\ \A q \in refreshes : q.tab = r.tab => q.token # r.token]_portalVars
=============================================================================
