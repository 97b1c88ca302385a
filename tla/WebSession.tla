------------------------------ MODULE WebSession ------------------------------
(***************************************************************************)
(* The console's sign-in state: the tabs of one browser, the two cookies   *)
(* they share, and the backend's session rows.  A tab keeps what it knows  *)
(* of the session in memory (store/auth.ts), routes by it (App, Layout,    *)
(* Login) and repairs an expired access cookie through the response        *)
(* interceptor of api/client.ts, at most one refresh at a time per tab.    *)
(* Every change of its path sends a session check (GET /auth/me): App's    *)
(* effect depends on navigate, which under BrowserRouter is a new function *)
(* for every pathname.  So the checks of one tab may overlap.              *)
(*                                                                         *)
(* A request carries the access cookie of the moment it is sent; serving   *)
(* it and receiving its answer are one later step, because nothing else    *)
(* depends on the time between them.  A refresh is different: its answer   *)
(* replaces cookies the other tabs use, so it is sent, served and received *)
(* in three steps.  The refresh token is abstracted to whether its jti is  *)
(* the one its session row holds ("current").                              *)
(***************************************************************************)
EXTENDS Naturals, FiniteSets

CONSTANTS Tabs,         \* the tabs of the browser
          Slots,        \* the concurrent queries of one tab
          Invitations,  \* what the invitation may be at first: "open" or "used"
          MaxSessions,  \* bound: how many sign-ins the backend accepts
          MaxChecks,    \* bound: a tab's unanswered checks with one cookie
          MaxEvents     \* bound: choices of users, clock and network

ASSUME SessionConstants ==
  /\ Invitations \subseteq {"open", "used"}
  /\ MaxSessions \in Nat \ {0} /\ MaxChecks \in Nat \ {0} /\ MaxEvents \in Nat

VARIABLES
  live,        \* backend: the sessions neither revoked nor past expires_at
  issued,      \* backend: how many sessions were created
  invite,      \* backend: "open" or "used", the invitation of the invite page
  jar,         \* the browser's cookies, shared by the tabs
  lost,        \* whether the answer of a successful refresh was ever lost
  auth,        \* per tab: "loading", "in" or "out" (store/auth.ts)
  setup,       \* per tab: user.must_change_password or mfa_setup_required
  route,       \* per tab: the page of the address bar
  from,        \* per tab: location.state.from of the login page
  step,        \* per tab: the step of Login or AcceptInvite
  query,       \* per tab and slot: a page's request
  refresh,     \* per tab and slot: the refresh that slot's 401 started
  refreshing,  \* per tab: the slot whose refresh the tab shares (_refreshing)
  me,          \* per tab and cookie: the unanswered checks (restoreSession)
  call,        \* per tab: the sign-in, sign-out or invitation call
  events       \* how many choices were made

backend == <<live, issued, invite>>
tabMemory == <<auth, setup, route, from, step>>
requests == <<query, refresh, refreshing>>
vars == <<backend, jar, lost, tabMemory, requests, me, call, events>>

Sessions == 1..MaxSessions
NoSession == 0
None == "none"
ASSUME NoSlotIsNone == None \notin Slots
PublicPaths == {"login", "invite", "ssomfa"}
Pages == {"dashboard", "settings", "other"}

Idle == [st |-> "idle", tok |-> NoSession, retried |-> FALSE, purpose |-> "page"]
NoRefresh == [st |-> None, sid |-> NoSession, current |-> FALSE]
NoChecks == [s \in 0..MaxSessions |-> 0]
NoCall == [kind |-> None, tok |-> NoSession]
NoCookies == [access |-> NoSession, sid |-> NoSession, current |-> FALSE]
CookiesOf(s) == [access |-> s, sid |-> s, current |-> TRUE]

Steps == {"credentials", "totp", "loading", "set-password", "setup-2fa", "success", "error"}
Jar == [access: 0..MaxSessions, sid: 0..MaxSessions, current: BOOLEAN]
Query == [st: {"idle", "sent", "waiting"}, tok: 0..MaxSessions, retried: BOOLEAN,
          purpose: {"page", "mfasetup", "credential"}]
Refresh == [st: {None, "sent", "ok"}, sid: 0..MaxSessions, current: BOOLEAN]
AuthCall == [kind: {None, "login", "ssomfa", "logout", "signout", "invite", "accept"},
             tok: 0..MaxSessions]
Checks == [0..MaxSessions -> 0..MaxChecks]

TypeOK ==
  /\ live \subseteq Sessions /\ issued \in 0..MaxSessions
  /\ invite \in {"open", "used"} /\ lost \in BOOLEAN
  /\ jar \in Jar
  /\ auth \in [Tabs -> {"loading", "in", "out"}]
  /\ setup \in [Tabs -> BOOLEAN]
  /\ route \in [Tabs -> PublicPaths \cup Pages]
  /\ from \in [Tabs -> Pages \cup {None}]
  /\ step \in [Tabs -> Steps]
  /\ query \in [Tabs -> [Slots -> Query]]
  /\ refresh \in [Tabs -> [Slots -> Refresh]]
  /\ refreshing \in [Tabs -> Slots \cup {None}]
  /\ me \in [Tabs -> Checks]
  /\ call \in [Tabs -> AuthCall]
  /\ events \in 0..MaxEvents

(* The login form is on the screen: Login renders it unless isAuthenticated. *)
LoginFormShown(t) == route[t] = "login" /\ auth[t] # "in"

Init ==
  /\ live = {1} /\ issued = 1 /\ invite \in Invitations
  /\ jar = CookiesOf(1) /\ lost = FALSE
  /\ auth = [t \in Tabs |-> "in"] /\ setup = [t \in Tabs |-> FALSE]
  /\ route = [t \in Tabs |-> "other"] /\ from = [t \in Tabs |-> None]
  /\ step = [t \in Tabs |-> "credentials"]
  /\ query = [t \in Tabs |-> [q \in Slots |-> Idle]]
  /\ refresh = [t \in Tabs |-> [q \in Slots |-> NoRefresh]]
  /\ refreshing = [t \in Tabs |-> None]
  /\ me = [t \in Tabs |-> NoChecks] /\ call = [t \in Tabs |-> NoCall]
  /\ events = 0

-----------------------------------------------------------------------------
(* Time and the backend's other clients.                                    *)

(* The access cookie's max_age is the access token's lifetime.              *)
AccessExpires ==
  /\ jar.access # NoSession
  /\ jar' = [jar EXCEPT !.access = NoSession]
  /\ UNCHANGED <<backend, lost, tabMemory, requests, me, call>>

(* A session expires, or is revoked by an administrator or elsewhere.       *)
SessionEnds ==
  /\ \E s \in live : live' = live \ {s}
  /\ UNCHANGED <<issued, invite, jar, lost, tabMemory, requests, me, call>>

-----------------------------------------------------------------------------
(* The tab's address.                                                       *)

\* Mutant: the effect runs on the first load only.
CheckOnLoadOnly(t, tok) == UNCHANGED me

(* restoreSession: GET /auth/me goes out with the cookie of this moment.    *)
CheckSession(t, tok) ==
  /\ me[t][tok] < MaxChecks
  /\ me' = [me EXCEPT ![t][tok] = @ + 1]

(* React Router shows another page; if the path is a new one, App's effect  *)
(* checks the session.                                                      *)
GoTo(t, p, tok) ==
  /\ route' = [route EXCEPT ![t] = p]
  /\ IF p = route[t] THEN UNCHANGED me ELSE CheckSession(t, tok)

-----------------------------------------------------------------------------
(* Requests of a page, and the silent refresh of the response interceptor.  *)

Send(t, q, purpose) ==
  /\ query[t][q].st = "idle"
  /\ query' = [query EXCEPT ![t][q] =
       [st |-> "sent", tok |-> jar.access, retried |-> FALSE, purpose |-> purpose]]
  /\ UNCHANGED <<backend, jar, lost, tabMemory, refresh, refreshing, me, call>>

(* A mounted page's query is fetched: on mount, on a poll, on invalidation. *)
SendQuery(t, q) ==
  /\ auth[t] = "in" /\ route[t] \in Pages
  /\ Send(t, q, "page")

(* changePw, enableMfa and disableMfa of the account tab, and               *)
(* handleSetup2FA of the invitation page.                                   *)
ChangeCredential(t, q) ==
  /\ \/ route[t] = "settings" /\ auth[t] = "in"
     \/ route[t] = "invite" /\ step[t] = "setup-2fa"
  /\ \A p \in Slots : query[t][p].purpose = "page"
  /\ call[t] = NoCall
  /\ Send(t, q, "credential")

(* get_current_user: the token's session must still be a live row.          *)
Authorised(tok) == tok \in live

(* An answer that is not a 401, or no answer.  A changed credential has     *)
(* revoked the user's sessions, and its handler awaits logout(); the        *)
(* invitation page goes on to its code step.                                *)
Answered(t, q) ==
  /\ query[t][q].st = "sent" /\ Authorised(query[t][q].tok)
  /\ query' = [query EXCEPT ![t][q] = Idle]
  /\ live' = IF query[t][q].purpose = "credential" THEN {} ELSE live
  /\ step' = [step EXCEPT ![t] =
       IF query[t][q].purpose = "mfasetup" THEN "setup-2fa" ELSE @]
  /\ call' = [call EXCEPT ![t] =
       IF query[t][q].purpose = "credential"
         THEN [kind |-> "signout", tok |-> jar.access] ELSE @]
  /\ UNCHANGED <<issued, invite, jar, lost, auth, setup, route, from,
                 refresh, refreshing, me>>

(* The request is refused (a wrong password or code) or lost: an error.     *)
Refused(t, q) ==
  /\ query[t][q].st = "sent"
  /\ query' = [query EXCEPT ![t][q] = Idle]
  /\ UNCHANGED <<backend, jar, lost, tabMemory, refresh, refreshing, me, call>>

\* Mutant: every denied query starts a refresh of its own.
RefreshEachTime(t, q) ==
  /\ refresh' = [refresh EXCEPT ![t][q] =
       [st |-> "sent", sid |-> jar.sid, current |-> jar.current]]
  /\ refreshing' = [refreshing EXCEPT ![t] = q]

(* tryRefresh: join the refresh in flight, or send one with the cookie of   *)
(* this moment.                                                             *)
TryRefresh(t, q) ==
  IF refreshing[t] # None
    THEN UNCHANGED <<refresh, refreshing>>
    ELSE /\ refresh' = [refresh EXCEPT ![t][q] =
              [st |-> "sent", sid |-> jar.sid, current |-> jar.current]]
         /\ refreshing' = [refreshing EXCEPT ![t] = q]

(* The interceptor: a first 401 waits for a refresh, a second one is        *)
(* rejected without an event.                                               *)
Denied(t, q) ==
  /\ query[t][q].st = "sent" /\ ~Authorised(query[t][q].tok)
  /\ IF query[t][q].retried
       THEN /\ query' = [query EXCEPT ![t][q] = Idle]
            /\ UNCHANGED <<refresh, refreshing>>
       ELSE /\ query' = [query EXCEPT ![t][q].st = "waiting", ![t][q].retried = TRUE]
            /\ TryRefresh(t, q)
  /\ UNCHANGED <<backend, jar, lost, tabMemory, me, call>>

\* Mutant: the token's jti is not compared with the row's.
AnyRefreshOfLive(r) == r.sid \in live

(* The refresh route's test: the session is live and the token's jti is the *)
(* one its row holds.                                                       *)
RefreshAccepted(r) == r.sid \in live /\ r.current

(* Accepted: the row's jti is replaced, so every other copy of the token,   *)
(* in the jar or on its way, is spent.  The row is locked: one step.        *)
RotateRefresh(t, q) ==
  /\ refresh[t][q].st = "sent" /\ RefreshAccepted(refresh[t][q])
  /\ LET s == refresh[t][q].sid
         spent(r) == IF r.sid = s THEN [r EXCEPT !.current = FALSE] ELSE r
     IN /\ refresh' = [u \in Tabs |-> [p \in Slots |->
             IF u = t /\ p = q THEN [refresh[t][q] EXCEPT !.st = "ok", !.current = TRUE]
                               ELSE spent(refresh[u][p])]]
        /\ jar' = spent(jar)
  /\ UNCHANGED <<backend, lost, tabMemory, query, refreshing, me, call>>

\* Mutant: only the query that started the refresh goes on.
SettleStarter(t, q, resumed) ==
  /\ query' = [query EXCEPT ![t][q] = resumed[q]]
  /\ refresh' = [refresh EXCEPT ![t][q] = NoRefresh]
  /\ refreshing' = [refreshing EXCEPT ![t] = None]

(* _refreshing is cleared, and the queries that awaited it go on.           *)
SettleRefresh(t, q, resumed) ==
  /\ query' = [query EXCEPT ![t] = [p \in Slots |->
       IF query[t][p].st = "waiting" THEN resumed[p] ELSE query[t][p]]]
  /\ refresh' = [refresh EXCEPT ![t][q] = NoRefresh]
  /\ refreshing' = [refreshing EXCEPT ![t] = None]

(* The rotated cookies arrive: each waiting query is sent again.            *)
Refreshed(t, q) ==
  /\ refresh[t][q].st = "ok"
  /\ jar' = [access |-> refresh[t][q].sid, sid |-> refresh[t][q].sid,
             current |-> refresh[t][q].current]
  /\ SettleRefresh(t, q, [p \in Slots |->
       [query[t][p] EXCEPT !.st = "sent", !.tok = refresh[t][q].sid]])
  /\ UNCHANGED <<backend, lost, tabMemory, me, call>>

\* Mutant: the handler also clears the auth store.
OnUnauthorizedClears(t) ==
  /\ GoTo(t, IF route[t] \in PublicPaths THEN route[t] ELSE "login", jar.access)
  /\ auth' = [auth EXCEPT ![t] = "out"]
  /\ UNCHANGED <<setup, from, step>>

(* auth:unauthorized: every page but the public ones is left for /login.    *)
(* Neither this handler nor the interceptor touches the auth store; the     *)
(* check that the new path sends may.                                       *)
OnUnauthorized(t) ==
  /\ GoTo(t, IF route[t] \in PublicPaths THEN route[t] ELSE "login", jar.access)
  /\ from' = [from EXCEPT ![t] = IF route[t] \in PublicPaths THEN @ ELSE None]
  /\ UNCHANGED <<auth, setup, step>>

(* The refresh is refused: the waiting queries are rejected, with the event. *)
RefreshFailed(t, q) ==
  /\ refresh[t][q].st = "sent" /\ ~RefreshAccepted(refresh[t][q])
  /\ SettleRefresh(t, q, [p \in Slots |-> Idle])
  /\ OnUnauthorized(t)
  /\ UNCHANGED <<backend, jar, lost, call>>

(* The refresh or its answer is lost: axios rejects, with the same outcome. *)
RefreshLost(t, q) ==
  /\ refresh[t][q].st # None
  /\ lost' = (lost \/ refresh[t][q].st = "ok")
  /\ SettleRefresh(t, q, [p \in Slots |-> Idle])
  /\ OnUnauthorized(t)
  /\ UNCHANGED <<backend, jar, call>>

-----------------------------------------------------------------------------
(* Routing: what React renders from the store and the address.              *)

\* Mutant: without a remembered page there is nowhere to go.
LoginRedirectNoDefault(t) ==
  /\ route[t] = "login" /\ auth[t] = "in"
  /\ GoTo(t, from[t], jar.access)
  /\ from' = [from EXCEPT ![t] = None]
  /\ step' = [step EXCEPT ![t] = "credentials"]
  /\ UNCHANGED <<backend, jar, lost, auth, setup, requests, call>>

(* Login renders <Navigate to={from}> while isAuthenticated.                *)
LoginRedirect(t) ==
  /\ route[t] = "login" /\ auth[t] = "in"
  /\ GoTo(t, IF from[t] = None THEN "dashboard" ELSE from[t], jar.access)
  /\ from' = [from EXCEPT ![t] = None]
  /\ step' = [step EXCEPT ![t] = "credentials"]
  /\ UNCHANGED <<backend, jar, lost, auth, setup, requests, call>>

(* Layout renders nothing while sessionLoading, then sends a tab without a  *)
(* user to /login, and one that must set up its account to /settings.       *)
LayoutRedirect(t) ==
  /\ route[t] \in Pages
  /\ \/ /\ auth[t] = "out"
        /\ GoTo(t, "login", jar.access)
        /\ from' = [from EXCEPT ![t] = route[t]]
     \/ /\ auth[t] = "in" /\ setup[t] /\ route[t] # "settings"
        /\ GoTo(t, "settings", jar.access)
        /\ UNCHANGED from
  /\ UNCHANGED <<backend, jar, lost, auth, setup, step, requests, call>>

(* The user follows a link; "other" stands for several pages.               *)
Navigate(t, p) ==
  /\ auth[t] = "in" /\ route[t] \in Pages
  /\ p # route[t] \/ p = "other"
  /\ route' = [route EXCEPT ![t] = p]
  /\ CheckSession(t, jar.access)
  /\ UNCHANGED <<backend, jar, lost, auth, setup, from, step, requests, call>>

(* A reload, or an address opened directly (an SSO return, an invitation    *)
(* link): the tab's memory is gone and restoreSession sends GET /auth/me.   *)
(* A refresh the tab had sent is settled at the backend first; its answer   *)
(* is dropped.                                                              *)
Load(t, p) ==
  /\ \A q \in Slots : refresh[t][q].st # "sent"
  /\ p \in PublicPaths \cup {route[t]}
  /\ route' = [route EXCEPT ![t] = p]
  /\ auth' = [auth EXCEPT ![t] = "loading"]
  /\ setup' = [setup EXCEPT ![t] = FALSE]
  /\ from' = [from EXCEPT ![t] = None]
  /\ step' = [step EXCEPT ![t] = IF p = "invite" THEN "loading" ELSE "credentials"]
  /\ me' = [me EXCEPT ![t] = [NoChecks EXCEPT ![jar.access] = 1]]
  /\ query' = [query EXCEPT ![t] = [q \in Slots |-> Idle]]
  /\ lost' = (lost \/ \E q \in Slots : refresh[t][q].st = "ok")
  /\ refresh' = [refresh EXCEPT ![t] = [q \in Slots |-> NoRefresh]]
  /\ refreshing' = [refreshing EXCEPT ![t] = None]
  /\ call' = [call EXCEPT ![t] =
       IF p = "invite" THEN [NoCall EXCEPT !.kind = "invite"] ELSE NoCall]
  /\ UNCHANGED <<backend, jar>>

(* A check is answered, whatever happened since it was sent.                *)
RestoreSession(t, tok) ==
  /\ me[t][tok] > 0 /\ Authorised(tok)
  /\ me' = [me EXCEPT ![t][tok] = @ - 1]
  /\ auth' = [auth EXCEPT ![t] = "in"]
  /\ \E must \in BOOLEAN : setup' = [setup EXCEPT ![t] = must]
  /\ UNCHANGED <<backend, jar, lost, route, from, step, requests, call>>

(* A check is refused: a 401 of an /auth/ address is not refreshed, the     *)
(* event is sent and the store cleared.  A page that is left is remembered  *)
(* if Layout renders before the handler's navigation does.                  *)
CheckRefused(t, tok) ==
  /\ me[t][tok] > 0 /\ ~Authorised(tok)
  /\ auth' = [auth EXCEPT ![t] = "out"]
  /\ setup' = [setup EXCEPT ![t] = FALSE]
  /\ LET rest == [me[t] EXCEPT ![tok] = @ - 1]
     IN IF route[t] \in PublicPaths
          THEN /\ me' = [me EXCEPT ![t] = rest]
               /\ UNCHANGED <<route, from>>
          ELSE /\ rest[jar.access] < MaxChecks
               /\ me' = [me EXCEPT ![t] = [rest EXCEPT ![jar.access] = @ + 1]]
               /\ route' = [route EXCEPT ![t] = "login"]
               /\ \E page \in {None, route[t]} : from' = [from EXCEPT ![t] = page]
  /\ UNCHANGED <<backend, jar, lost, step, requests, call>>

(* A check, or its answer, is lost: the store is cleared without an event.  *)
CheckLost(t, tok) ==
  /\ me[t][tok] > 0
  /\ me' = [me EXCEPT ![t][tok] = @ - 1]
  /\ auth' = [auth EXCEPT ![t] = "out"]
  /\ setup' = [setup EXCEPT ![t] = FALSE]
  /\ UNCHANGED <<backend, jar, lost, route, from, step, requests, call>>

-----------------------------------------------------------------------------
(* Signing in and out.                                                      *)

Call(t, kind, tok) ==
  /\ call[t] = NoCall
  /\ call' = [call EXCEPT ![t] = [kind |-> kind, tok |-> tok]]
  /\ UNCHANGED <<backend, jar, lost, tabMemory, requests, me>>

(* handleCredentials and handleTotp of Login.                               *)
SubmitLogin(t) == LoginFormShown(t) /\ Call(t, "login", NoSession)

(* handleSubmit of SsoMfa.                                                  *)
SubmitSsoCode(t) == route[t] = "ssomfa" /\ Call(t, "ssomfa", NoSession)

(* A new session row, and its two cookies in the jar; the store has the user. *)
CreateSession(t) ==
  /\ issued < MaxSessions
  /\ issued' = issued + 1
  /\ live' = live \cup {issued + 1}
  /\ jar' = CookiesOf(issued + 1)
  /\ auth' = [auth EXCEPT ![t] = "in"]

(* The sign-in worked: useAuth or SsoMfa navigates.                         *)
SignedIn(t) ==
  /\ call[t].kind \in {"login", "ssomfa"}
  /\ CreateSession(t)
  /\ call' = [call EXCEPT ![t] = NoCall]
  /\ \E must \in BOOLEAN : setup' = [setup EXCEPT ![t] = must]
  /\ GoTo(t, IF call[t].kind = "ssomfa" \/ from[t] = None THEN "dashboard" ELSE from[t],
          issued + 1)
  /\ from' = [from EXCEPT ![t] = None]
  /\ step' = [step EXCEPT ![t] = "credentials"]
  /\ UNCHANGED <<invite, lost, requests>>

(* "mfa_required" moves the form to the code step; a refusal or no answer   *)
(* leaves it with its error.                                                *)
NotSignedIn(t) ==
  /\ call[t].kind \in {"login", "ssomfa"}
  /\ call' = [call EXCEPT ![t] = NoCall]
  /\ \/ UNCHANGED step
     \/ /\ call[t].kind = "login" /\ step[t] = "credentials"
        /\ step' = [step EXCEPT ![t] = "totp"]
  /\ UNCHANGED <<backend, jar, lost, auth, setup, route, from, requests, me>>

(* "Back to sign in" of the code step.                                      *)
BackToSignIn(t) ==
  /\ LoginFormShown(t) /\ step[t] = "totp" /\ call[t] = NoCall
  /\ step' = [step EXCEPT ![t] = "credentials"]
  /\ UNCHANGED <<backend, jar, lost, auth, setup, route, from, requests, me, call>>

(* handleLogout of Sidebar, MobileNavigation and useAuth.                   *)
Logout(t) ==
  /\ auth[t] = "in" /\ route[t] \in Pages
  /\ \A q \in Slots : query[t][q].purpose = "page"
  /\ Call(t, "logout", jar.access)

(* logout() is best effort: answered, refused or lost, the store is         *)
(* cleared.  Without a valid access token nothing is revoked, and the 401   *)
(* sends the event; handleLogout then navigates, the account forms leave    *)
(* that to Layout, and the invitation page shows success.                   *)
LogoutDone(t) ==
  /\ call[t].kind \in {"logout", "signout"}
  /\ \/ /\ Authorised(call[t].tok)
        /\ live' = live \ {call[t].tok}
        /\ jar' = NoCookies
     \/ UNCHANGED <<live, jar>>
  /\ auth' = [auth EXCEPT ![t] = "out"]
  /\ setup' = [setup EXCEPT ![t] = FALSE]
  /\ call' = [call EXCEPT ![t] = NoCall]
  /\ IF \/ call[t].kind = "logout"
        \/ ~Authorised(call[t].tok) /\ route[t] \in Pages
       THEN /\ GoTo(t, "login", jar'.access)
            /\ from' = [from EXCEPT ![t] = None]
       ELSE UNCHANGED <<route, from, me>>
  /\ step' = [step EXCEPT ![t] =
       IF @ = "setup-2fa" /\ call[t].kind = "signout" THEN "success" ELSE @]
  /\ UNCHANGED <<issued, invite, lost, requests>>

-----------------------------------------------------------------------------
(* The invitation page: validate, set the password, set up 2FA, sign out.   *)

(* GET /auth/invite/<token> is answered: is the invitation still open?      *)
InviteChecked(t) ==
  /\ call[t].kind = "invite"
  /\ step' = [step EXCEPT ![t] = IF invite = "open" THEN "set-password" ELSE "error"]
  /\ call' = [call EXCEPT ![t] = NoCall]
  /\ UNCHANGED <<backend, jar, lost, auth, setup, route, from, requests, me>>

(* handleSetPassword: the first of its two calls.                           *)
SetPassword(t) ==
  /\ route[t] = "invite" /\ step[t] = "set-password"
  /\ \A q \in Slots : query[t][q] = Idle
  /\ Call(t, "accept", NoSession)

(* accept_invite: the token is single use, and the account gets a session.  *)
(* Accepted: setAuth, then GET mfa/setup in the same handler.               *)
InviteAccepted(t) ==
  /\ call[t].kind = "accept" /\ invite = "open"
  /\ invite' = "used"
  /\ CreateSession(t)
  /\ call' = [call EXCEPT ![t] = NoCall]
  /\ \E q \in Slots : query' = [query EXCEPT ![t][q] =
       [st |-> "sent", tok |-> issued + 1, retried |-> FALSE, purpose |-> "mfasetup"]]
  /\ UNCHANGED <<lost, setup, route, from, step, refresh, refreshing, me>>

(* Refused or lost: the step stays, with an error.                          *)
InviteRefused(t) ==
  /\ call[t].kind = "accept"
  /\ call' = [call EXCEPT ![t] = NoCall]
  /\ UNCHANGED <<backend, jar, lost, tabMemory, requests, me>>

LeaveInvite(t) ==
  /\ GoTo(t, "login", jar.access)
  /\ from' = [from EXCEPT ![t] = None]
  /\ step' = [step EXCEPT ![t] = "credentials"]
  /\ UNCHANGED <<backend, jar, lost, auth, setup, requests, call>>

(* The button of the error step.                                            *)
GoToLogin(t) == route[t] = "invite" /\ step[t] = "error" /\ LeaveInvite(t)

(* The timer of the success step.                                           *)
InviteDone(t) == route[t] = "invite" /\ step[t] = "success" /\ LeaveInvite(t)

-----------------------------------------------------------------------------
(* What the code does without being asked.                                  *)
SlotProgress(t, q) ==
  \/ Answered(t, q) \/ Denied(t, q)
  \/ RotateRefresh(t, q) \/ Refreshed(t, q) \/ RefreshFailed(t, q)

CheckProgress(t, tok) == RestoreSession(t, tok) \/ CheckRefused(t, tok)

Rerenders(t) == LoginRedirect(t) \/ LayoutRedirect(t)

CallProgress(t) ==
  \/ SignedIn(t) \/ NotSignedIn(t) \/ LogoutDone(t)
  \/ InviteChecked(t) \/ InviteAccepted(t) \/ InviteRefused(t)
  \/ InviteDone(t)

TabProgress(t) ==
  \/ Rerenders(t) \/ CallProgress(t)
  \/ \E tok \in 0..MaxSessions : CheckProgress(t, tok)

(* What users, the clock and the network choose; MaxEvents of them.         *)
Choice ==
  /\ events < MaxEvents /\ events' = events + 1
  /\ \/ AccessExpires \/ SessionEnds
     \/ \E t \in Tabs :
          \/ \E q \in Slots : ChangeCredential(t, q) \/ Refused(t, q) \/ RefreshLost(t, q)
          \/ \E tok \in 0..MaxSessions : CheckLost(t, tok)
          \/ \E p \in Pages : Navigate(t, p)
          \/ \E p \in PublicPaths \cup Pages : Load(t, p)
          \/ SubmitLogin(t) \/ SubmitSsoCode(t) \/ BackToSignIn(t) \/ Logout(t)
          \/ SetPassword(t) \/ GoToLogin(t)

Next ==
  \/ Choice
  \/ /\ UNCHANGED events
     /\ \E t \in Tabs :
          \/ TabProgress(t)
          \/ \E q \in Slots : SlotProgress(t, q) \/ SendQuery(t, q)

(* The browser and the backend go on, and mounted pages poll.               *)
Fairness == \A t \in Tabs :
  /\ WF_vars(Rerenders(t) /\ UNCHANGED events)
  /\ WF_vars(CallProgress(t) /\ UNCHANGED events)
  /\ \A tok \in 0..MaxSessions : WF_vars(CheckProgress(t, tok) /\ UNCHANGED events)
  /\ \A q \in Slots :
       /\ WF_vars(SlotProgress(t, q) /\ UNCHANGED events)
       /\ WF_vars(SendQuery(t, q) /\ UNCHANGED events)

Spec == Init /\ [][Next]_vars /\ Fairness

-----------------------------------------------------------------------------
(* Safety: a tab has at most one refresh in flight, however many of its     *)
(* queries are denied together.  A second one would carry the token the     *)
(* first one spends.                                                        *)
OneRefreshPerTab ==
  \A t \in Tabs : \A q \in Slots :
    refresh[t][q].st # None => refreshing[t] = q

Waiting == [t \in Tabs |-> {q \in Slots : query[t][q].st = "waiting"}]
InFlight == [t \in Tabs |-> {q \in Slots : refresh[t][q].st # None}]

Shared == INSTANCE SingleFlight WITH waiting <- Waiting, flights <- InFlight

(* The interceptor implements a single flight: a denied query joins the     *)
(* tab's refresh or starts it, none waits where no refresh is under way,    *)
(* and the refresh takes all of them with it when it ends, whether it is    *)
(* accepted, refused or lost, the page is loaded again, or the invitation   *)
(* page sends a request of its own.                                         *)
SharesOneRefresh == Shared!Spec

(* Safety: the browser is never left with a spent refresh token of a        *)
(* session that still lives, unless the token that replaced it is on its    *)
(* way back, or its answer was lost.  Rotation in one tab, requests of the  *)
(* other and the shared cookie jar may interleave in any order.             *)
TokenNotStranded ==
  jar.sid \in live =>
    \/ jar.current \/ lost
    \/ \E t \in Tabs, q \in Slots :
         refresh[t][q].st = "ok" /\ refresh[t][q].sid = jar.sid /\ refresh[t][q].current

(* Safety: a tab that is signed in stays so until it is loaded again, signs *)
(* out, or one of its checks is refused or lost; queries and refreshes that *)
(* fail, in this tab or another, do not touch the store.  And a refusal     *)
(* that takes the tab off a page is not the last word: a check with the     *)
(* cookie of that moment is on its way, so that a refusal which comes late, *)
(* after a new sign-in or refresh, is followed by an answer to those.       *)
OnlyOwnCallsSignOut ==
  [][\A t \in Tabs : auth[t] = "in" /\ auth'[t] # "in" =>
       \/ auth'[t] = "loading"
       \/ call[t].kind \in {"logout", "signout"} /\ call'[t] = NoCall
       \/ \E tok \in 0..MaxSessions :
            \/ CheckLost(t, tok)
            \/ /\ CheckRefused(t, tok)
               /\ route[t] \in PublicPaths \/ me'[t][jar.access] > 0]_vars

(* Liveness: a denied query does not hang on the shared refresh: it is      *)
(* sent again or rejected, whichever slot of the tab started the refresh    *)
(* and however that refresh ends.                                           *)
DeniedQueriesSettle ==
  \A t \in Tabs, q \in Slots :
    query[t][q].st = "waiting" ~> query[t][q].st # "waiting"

(* Liveness: a tab does not go on believing in a session that is over.  A   *)
(* page polls, its refresh is refused and the tab goes to /login, which     *)
(* sends it back as long as the store says it is signed in; the checks that *)
(* these moves send end that.                                               *)
ExpiredTabReachesLogin ==
  \A t \in Tabs :
    live = {} /\ auth[t] = "in" /\ route[t] \in Pages
      ~> \/ route[t] \in PublicPaths /\ auth[t] # "in"
         \/ live # {}

(* What client.ts says of an access token that has expired: "Before giving  *)
(* up we attempt one silent refresh".  A signed-in tab whose browser holds  *)
(* a refresh token the backend accepts is not given up by a refused check.  *)
SilentRefreshFirst ==
  [][\A t \in Tabs, tok \in 0..MaxSessions :
       CheckRefused(t, tok) /\ auth[t] = "in" => ~RefreshAccepted(jar)]_vars

=============================================================================
