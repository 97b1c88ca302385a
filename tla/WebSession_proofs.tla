---------------------------- MODULE WebSession_proofs ----------------------------
(***************************************************************************)
(* The sign-in state of the console, for every number of tabs, concurrent  *)
(* queries, sign-ins and events.                                           *)
(***************************************************************************)
EXTENDS WebSession, TLAPS

USE SessionConstants, NoSlotIsNone

-----------------------------------------------------------------------------
\* A check that is sent is one more with its cookie.
LEMMA CheckIsSent ==
  ASSUME TypeOK, NEW t \in Tabs, NEW tok \in 0..MaxSessions, CheckSession(t, tok)
  PROVE  me' \in [Tabs -> Checks]
<1>1. me \in [Tabs -> Checks]
  BY DEF TypeOK
<1>2. me[t][tok] + 1 \in 0..MaxChecks
  BY <1>1 DEF CheckSession, Checks
<1>. QED  BY <1>1, <1>2 DEF CheckSession, Checks

\* The tab is on the page it was sent to.
LEMMA PageIsShown ==
  ASSUME TypeOK, NEW t \in Tabs, NEW p \in PublicPaths \cup Pages, NEW tok \in 0..MaxSessions,
         GoTo(t, p, tok)
  PROVE  /\ route' \in [Tabs -> PublicPaths \cup Pages]
         /\ me' \in [Tabs -> Checks]
<1>1. route' \in [Tabs -> PublicPaths \cup Pages]
  BY DEF TypeOK, GoTo
<1>2. me' \in [Tabs -> Checks]
  BY CheckIsSent DEF GoTo, TypeOK
<1>. QED  BY <1>1, <1>2

\* The handler of auth:unauthorized keeps the types.
LEMMA Unauthorized ==
  ASSUME TypeOK, NEW t \in Tabs, OnUnauthorized(t)
  PROVE  /\ route' \in [Tabs -> PublicPaths \cup Pages] /\ from' \in [Tabs -> Pages \cup {None}]
         /\ me' \in [Tabs -> Checks]
         /\ UNCHANGED <<auth, setup, step>>
<1>1. jar.access \in 0..MaxSessions /\ route[t] \in PublicPaths \cup Pages
  BY DEF TypeOK, Jar
<1>2. (IF route[t] \in PublicPaths THEN route[t] ELSE "login") \in PublicPaths \cup Pages
  BY <1>1 DEF PublicPaths
<1>3. from' \in [Tabs -> Pages \cup {None}]
  BY DEF OnUnauthorized, TypeOK
<1>. QED  BY <1>1, <1>2, <1>3, PageIsShown DEF OnUnauthorized

\* Every cookie, tab and request has the types of api/client.ts and store/auth.ts.
THEOREM TypeCorrect == Spec => []TypeOK
<1>1. Init => TypeOK
  <2>. SUFFICES ASSUME Init PROVE TypeOK
    OBVIOUS
  <2>1. NoRefresh \in Refresh /\ Idle \in Query /\ NoCall \in AuthCall /\ CookiesOf(1) \in Jar
    BY DEF NoRefresh, Refresh, Idle, Query, NoCall, AuthCall, CookiesOf, Jar, None, NoSession
  <2>2. /\ {1} \subseteq Sessions /\ 1 \in 0..MaxSessions
        /\ NoChecks \in Checks
    BY DEF NoChecks, Checks, Sessions
  <2>4. 0 \in 0..MaxEvents
    OBVIOUS
  <2>3. "credentials" \in Steps /\ "other" \in Pages
    BY DEF Steps, Pages
  <2>5. invite \in {"open", "used"}
    BY DEF Init
  <2>. QED  BY <2>1, <2>2, <2>3, <2>4, <2>5, Zenon DEF Init, TypeOK, None
<1>2. TypeOK /\ [Next]_vars => TypeOK'
  <2>. SUFFICES ASSUME TypeOK, [Next]_vars PROVE TypeOK'
    OBVIOUS
  <2>. USE DEF backend, tabMemory, requests, Steps, Jar, Query, Refresh, AuthCall
  <2>0. jar.access \in 0..MaxSessions
    BY DEF TypeOK
  <2>1. CASE UNCHANGED vars
    BY <2>1 DEF vars, TypeOK
  <2>a. ASSUME events' \in 0..MaxEvents, AccessExpires PROVE TypeOK'
    <3>1. jar \in Jar
      BY DEF TypeOK
    <3>2. [jar EXCEPT !.access = NoSession] \in Jar
      BY <3>1 DEF NoSession
    <3>. QED  BY <2>a, <3>2 DEF AccessExpires, TypeOK
  <2>b. ASSUME events' \in 0..MaxEvents, SessionEnds PROVE TypeOK'
    BY <2>b DEF SessionEnds, TypeOK
  <2>c. ASSUME events' \in 0..MaxEvents, NEW t \in Tabs, NEW q \in Slots, ChangeCredential(t, q)
        PROVE TypeOK'
    <3>1. jar.access \in 0..MaxSessions
      BY DEF TypeOK
    <3>2. query' \in [Tabs -> [Slots -> Query]]
      BY <2>c, <3>1 DEF ChangeCredential, Send, TypeOK
    <3>. QED  BY <2>c, <3>2 DEF ChangeCredential, Send, TypeOK
  <2>d. ASSUME events' \in 0..MaxEvents, NEW t \in Tabs, NEW q \in Slots, Refused(t, q)
        PROVE TypeOK'
    BY <2>d DEF Refused, TypeOK, Idle, NoSession
  <2>e. ASSUME events' \in 0..MaxEvents, NEW t \in Tabs, NEW q \in Slots, RefreshLost(t, q)
        PROVE TypeOK'
    BY <2>e, Unauthorized DEF RefreshLost, SettleRefresh, TypeOK, Idle, NoSession, NoRefresh, None
  <2>f. ASSUME events' \in 0..MaxEvents, NEW t \in Tabs, NEW p \in Pages, Navigate(t, p)
        PROVE TypeOK'
    <3>1. me' \in [Tabs -> Checks]
      BY <2>f, CheckIsSent DEF Navigate, TypeOK
    <3>. QED  BY <2>f, <3>1 DEF Navigate, TypeOK
  <2>g. ASSUME events' \in 0..MaxEvents, NEW t \in Tabs, NEW p \in PublicPaths \cup Pages, Load(t, p)
        PROVE TypeOK'
    <3>1. lost' \in BOOLEAN
      BY <2>g DEF Load, TypeOK
    <3>2. NoRefresh \in Refresh /\ Idle \in Query /\ NoCall \in AuthCall
          /\ [NoCall EXCEPT !.kind = "invite"] \in AuthCall
      BY DEF NoRefresh, Idle, NoCall, None, NoSession
    <3>3. query' \in [Tabs -> [Slots -> Query]] /\ refresh' \in [Tabs -> [Slots -> Refresh]]
      BY <2>g, <3>2, Zenon DEF Load, TypeOK
    <3>4. call' \in [Tabs -> AuthCall] /\ refreshing' \in [Tabs -> Slots \cup {None}]
      BY <2>g, <3>2, Zenon DEF Load, TypeOK
    <3>5. me' \in [Tabs -> Checks]
      <4>1. me' = [me EXCEPT ![t] = [NoChecks EXCEPT ![jar.access] = 1]]
        BY <2>g DEF Load
      <4>2. [NoChecks EXCEPT ![jar.access] = 1] \in Checks
        <5>1. 0 \in 0..MaxChecks /\ 1 \in 0..MaxChecks
          OBVIOUS
        <5>2. NoChecks \in Checks
          BY <5>1, Zenon DEF NoChecks, Checks
        <5>. QED  BY <5>1, <5>2, Zenon DEF Checks
      <4>3. me \in [Tabs -> Checks]
        BY DEF TypeOK
      <4>. QED  BY <4>1, <4>2, <4>3, Zenon
    <3>. QED  BY <2>g, <3>1, <3>3, <3>4, <3>5 DEF Load, TypeOK, None
  <2>h. ASSUME events' \in 0..MaxEvents, NEW t \in Tabs,
               SubmitLogin(t) \/ SubmitSsoCode(t) \/ SetPassword(t) \/ Logout(t)
        PROVE TypeOK'
    <3>1. PICK kind \in {"login", "ssomfa", "accept", "logout"}, tok \in 0..MaxSessions :
             Call(t, kind, tok)
      <4>1. jar.access \in 0..MaxSessions /\ NoSession \in 0..MaxSessions
        BY DEF TypeOK, NoSession
      <4>. QED  BY <2>h, <4>1 DEF SubmitLogin, SubmitSsoCode, SetPassword, Logout
    <3>2. [kind |-> kind, tok |-> tok] \in AuthCall
      OBVIOUS
    <3>3. call' \in [Tabs -> AuthCall]
      BY <3>1, <3>2, Zenon DEF Call, TypeOK
    <3>. QED  BY <2>h, <3>1, <3>3, Zenon DEF Call, TypeOK
  <2>i. ASSUME events' \in 0..MaxEvents, NEW t \in Tabs, BackToSignIn(t)
        PROVE TypeOK'
    BY <2>i DEF BackToSignIn, TypeOK
  <2>j. ASSUME events' \in 0..MaxEvents, NEW t \in Tabs, GoToLogin(t) \/ InviteDone(t)
        PROVE TypeOK'
    <3>1. LeaveInvite(t)
      BY <2>j DEF GoToLogin, InviteDone
    <3>2. GoTo(t, "login", jar.access) /\ "login" \in PublicPaths \cup Pages
      BY <3>1 DEF LeaveInvite, PublicPaths
    <3>. QED  BY <2>0, <2>j, <3>1, <3>2, PageIsShown DEF LeaveInvite, TypeOK, None
  <2>k. ASSUME events' \in 0..MaxEvents, NEW t \in Tabs, LoginRedirect(t)
        PROVE TypeOK'
    <3>1. PICK p \in Pages : GoTo(t, p, jar.access)
      BY <2>k DEF LoginRedirect, TypeOK, Pages
    <3>. QED  BY <2>0, <2>k, <3>1, PageIsShown DEF LoginRedirect, TypeOK, None
  <2>l. ASSUME events' \in 0..MaxEvents, NEW t \in Tabs, LayoutRedirect(t)
        PROVE TypeOK'
    <3>1. PICK p \in PublicPaths \cup Pages : GoTo(t, p, jar.access)
      BY <2>l DEF LayoutRedirect, PublicPaths, Pages
    <3>2. from' \in [Tabs -> Pages \cup {None}]
      BY <2>l DEF LayoutRedirect, TypeOK
    <3>. QED  BY <2>0, <2>l, <3>1, <3>2, PageIsShown DEF LayoutRedirect, TypeOK
  <2>m. ASSUME events' \in 0..MaxEvents, NEW t \in Tabs, NEW tok \in 0..MaxSessions,
               RestoreSession(t, tok) \/ CheckRefused(t, tok) \/ CheckLost(t, tok)
        PROVE TypeOK'
    <3>. DEFINE rest == [me[t] EXCEPT ![tok] = @ - 1]
    <3>1. me \in [Tabs -> Checks] /\ me[t][tok] > 0
      BY <2>m DEF RestoreSession, CheckRefused, CheckLost, TypeOK
    <3>2. rest \in Checks
      <4>1. me[t][tok] - 1 \in 0..MaxChecks
        BY <3>1 DEF Checks
      <4>. QED  BY <3>1, <4>1 DEF Checks
    <3>3. me' = [me EXCEPT ![t] = rest]
          \/ (rest[jar.access] < MaxChecks
              /\ me' = [me EXCEPT ![t] = [rest EXCEPT ![jar.access] = @ + 1]])
      BY <2>m, <3>1 DEF RestoreSession, CheckRefused, CheckLost
    <3>4. rest[jar.access] < MaxChecks =>
            [rest EXCEPT ![jar.access] = @ + 1] \in Checks
      <4>. HIDE DEF rest
      <4>. SUFFICES ASSUME rest[jar.access] < MaxChecks
                    PROVE  [rest EXCEPT ![jar.access] = @ + 1] \in Checks
        OBVIOUS
      <4>1. rest[jar.access] + 1 \in 0..MaxChecks
        BY <2>0, <3>2 DEF Checks
      <4>. QED  BY <2>0, <3>2, <4>1 DEF Checks
    <3>5. me' \in [Tabs -> Checks]
      <4>. HIDE DEF rest
      <4>. QED  BY <3>1, <3>2, <3>3, <3>4, Zenon
    <3>6. auth' \in [Tabs -> {"loading", "in", "out"}] /\ setup' \in [Tabs -> BOOLEAN]
      <4>0. auth \in [Tabs -> {"loading", "in", "out"}] /\ setup \in [Tabs -> BOOLEAN]
        BY DEF TypeOK
      <4>1. auth' = [auth EXCEPT ![t] = "in"] \/ auth' = [auth EXCEPT ![t] = "out"]
        BY <2>m, Zenon DEF RestoreSession, CheckRefused, CheckLost
      <4>2. PICK must \in BOOLEAN : setup' = [setup EXCEPT ![t] = must]
        BY <2>m, Zenon DEF RestoreSession, CheckRefused, CheckLost
      <4>3. auth' \in [Tabs -> {"loading", "in", "out"}]
        BY <4>0, <4>1
      <4>4. setup' \in [Tabs -> BOOLEAN]
        BY <4>0, <4>2
      <4>. QED  BY <4>3, <4>4
    <3>7. route' \in [Tabs -> PublicPaths \cup Pages]
      BY <2>m DEF RestoreSession, CheckRefused, CheckLost, TypeOK, PublicPaths
    <3>8. from' \in [Tabs -> Pages \cup {None}]
      <4>1. from \in [Tabs -> Pages \cup {None}] /\ route \in [Tabs -> PublicPaths \cup Pages]
        BY DEF TypeOK
      <4>2. from' = from \/ \E page \in Pages \cup {None} : from' = [from EXCEPT ![t] = page]
        BY <2>m, <4>1 DEF RestoreSession, CheckRefused, CheckLost
      <4>. QED  BY <4>1, <4>2
    <3>. QED  BY <2>m, <3>5, <3>6, <3>7, <3>8 DEF RestoreSession, CheckRefused, CheckLost, TypeOK
  <2>n. ASSUME events' \in 0..MaxEvents, NEW t \in Tabs, SignedIn(t)
        PROVE TypeOK'
    <3>1. issued + 1 \in 0..MaxSessions
      BY <2>n DEF SignedIn, CreateSession, TypeOK
    <3>2. PICK p \in Pages : GoTo(t, p, issued + 1)
      BY <2>n DEF SignedIn, TypeOK, Pages
    <3>3. /\ route' \in [Tabs -> PublicPaths \cup Pages]
          /\ me' \in [Tabs -> Checks]
      BY <3>1, <3>2, PageIsShown
    <3>4. NoCall \in AuthCall /\ CookiesOf(issued + 1) \in Jar
      BY <3>1 DEF NoCall, CookiesOf, NoSession
    <3>5. live' \subseteq Sessions /\ issued' \in 0..MaxSessions
      BY <2>n, <3>1 DEF SignedIn, CreateSession, Sessions, TypeOK
    <3>6. jar' \in Jar /\ call' \in [Tabs -> AuthCall]
      BY <2>n, <3>4, Zenon DEF SignedIn, CreateSession, TypeOK
    <3>7. auth' \in [Tabs -> {"loading", "in", "out"}] /\ setup' \in [Tabs -> BOOLEAN]
      BY <2>n, Zenon DEF SignedIn, CreateSession, TypeOK
    <3>8. from' \in [Tabs -> Pages \cup {None}] /\ step' \in [Tabs -> Steps]
      BY <2>n DEF SignedIn, TypeOK
    <3>. QED  BY <2>n, <3>3, <3>5, <3>6, <3>7, <3>8 DEF SignedIn, CreateSession, TypeOK
  <2>o. ASSUME events' \in 0..MaxEvents, NEW t \in Tabs, NotSignedIn(t)
        PROVE TypeOK'
    BY <2>o DEF NotSignedIn, NoCall, NoSession, TypeOK
  <2>p. ASSUME events' \in 0..MaxEvents, NEW t \in Tabs, LogoutDone(t)
        PROVE TypeOK'
    <3>0. NoCookies \in Jar
      BY DEF NoCookies, NoSession
    <3>1. jar' \in Jar /\ live' \subseteq Sessions
      BY <2>p, <3>0, Zenon DEF LogoutDone, TypeOK
    <3>2. NoCall \in AuthCall
      BY DEF NoCall, None, NoSession
    <3>3. /\ route' \in [Tabs -> PublicPaths \cup Pages]
          /\ me' \in [Tabs -> Checks]
      <4>1. CASE UNCHANGED <<route, me>>
        BY <4>1 DEF TypeOK
      <4>2. CASE ~UNCHANGED <<route, me>>
        <5>1. GoTo(t, "login", jar'.access)
          BY <2>p, <4>2 DEF LogoutDone
        <5>2. PICK tok \in 0..MaxSessions : GoTo(t, "login", tok)
          BY <3>1, <5>1 DEF GoTo, CheckSession
        <5>. QED  BY <5>2, PageIsShown DEF PublicPaths
      <4>. QED  BY <4>1, <4>2
    <3>6. from' \in [Tabs -> Pages \cup {None}]
      BY <2>p DEF LogoutDone, TypeOK
    <3>4. step' \in [Tabs -> Steps] /\ call' \in [Tabs -> AuthCall]
      BY <2>p, <3>2 DEF LogoutDone, TypeOK
    <3>5. auth' \in [Tabs -> {"loading", "in", "out"}] /\ setup' \in [Tabs -> BOOLEAN]
      BY <2>p DEF LogoutDone, TypeOK
    <3>. QED  BY <2>p, <3>1, <3>3, <3>4, <3>5, <3>6 DEF LogoutDone, TypeOK
  <2>q. ASSUME events' \in 0..MaxEvents, NEW t \in Tabs, InviteChecked(t) \/ InviteRefused(t)
        PROVE TypeOK'
    <3>1. NoCall \in AuthCall
      BY DEF NoCall, None, NoSession
    <3>2. step' \in [Tabs -> Steps]
      BY <2>q DEF InviteChecked, InviteRefused, TypeOK
    <3>3. call' \in [Tabs -> AuthCall]
      BY <2>q, <3>1 DEF InviteChecked, InviteRefused, TypeOK
    <3>. QED  BY <2>q, <3>2, <3>3 DEF InviteChecked, InviteRefused, TypeOK
  <2>r. ASSUME events' \in 0..MaxEvents, NEW t \in Tabs, InviteAccepted(t)
        PROVE TypeOK'
    BY <2>r DEF InviteAccepted, CreateSession, CookiesOf, Sessions, NoCall, NoSession, TypeOK
  <2>s. ASSUME events' \in 0..MaxEvents, NEW t \in Tabs, NEW q \in Slots, Answered(t, q)
        PROVE TypeOK'
    BY <2>s DEF Answered, Idle, NoSession, TypeOK
  <2>t. ASSUME events' \in 0..MaxEvents, NEW t \in Tabs, NEW q \in Slots, Denied(t, q)
        PROVE TypeOK'
    <3>1. query' \in [Tabs -> [Slots -> Query]]
      <4>1. query[t][q] \in Query /\ query \in [Tabs -> [Slots -> Query]] /\ Idle \in Query
        BY DEF TypeOK, Idle, NoSession
      <4>2. [query[t][q] EXCEPT !.st = "waiting", !.retried = TRUE] \in Query
        BY <4>1
      <4>3. query' = [query EXCEPT ![t][q] = Idle]
            \/ query' = [query EXCEPT ![t][q].st = "waiting", ![t][q].retried = TRUE]
        BY <2>t DEF Denied
      <4>4. query' = [query EXCEPT ![t][q] = Idle]
            \/ query' = [query EXCEPT ![t][q] = [query[t][q] EXCEPT !.st = "waiting", !.retried = TRUE]]
        BY <4>1, <4>3
      <4>5. PICK cell \in Query : query' = [query EXCEPT ![t][q] = cell]
        BY <4>1, <4>2, <4>4, Zenon
      <4>. HIDE DEF Query
      <4>. QED  BY <4>1, <4>5
    <3>2. [st |-> "sent", sid |-> jar.sid, current |-> jar.current] \in Refresh
      BY DEF TypeOK
    <3>3. refresh' \in [Tabs -> [Slots -> Refresh]] /\ refreshing' \in [Tabs -> Slots \cup {None}]
      <4>1. refresh' = refresh
            \/ refresh' = [refresh EXCEPT ![t][q] = [st |-> "sent", sid |-> jar.sid, current |-> jar.current]]
        BY <2>t, Zenon DEF Denied, TryRefresh
      <4>2. refreshing' = refreshing \/ refreshing' = [refreshing EXCEPT ![t] = q]
        BY <2>t, Zenon DEF Denied, TryRefresh
      <4>3. refresh' \in [Tabs -> [Slots -> Refresh]]
        <5>1. refresh \in [Tabs -> [Slots -> Refresh]]
          BY DEF TypeOK
        <5>2. CASE refresh' = refresh
          BY <5>1, <5>2
        <5>3. CASE refresh' # refresh
          <6>1. PICK cell \in Refresh : refresh' = [refresh EXCEPT ![t][q] = cell]
            BY <3>2, <4>1, <5>3, Zenon
          <6>. HIDE DEF Refresh
          <6>. QED  BY <5>1, <6>1
        <5>. QED  BY <5>2, <5>3
      <4>4. refreshing' \in [Tabs -> Slots \cup {None}]
        <5>1. refreshing \in [Tabs -> Slots \cup {None}]
          BY DEF TypeOK
        <5>. QED  BY <4>2, <5>1
      <4>. QED  BY <4>3, <4>4
    <3>. QED  BY <2>t, <3>1, <3>3 DEF Denied, TypeOK
  <2>u. ASSUME events' \in 0..MaxEvents, NEW t \in Tabs, NEW q \in Slots, RotateRefresh(t, q)
        PROVE TypeOK'
    <3>. DEFINE spent(r) == IF r.sid = refresh[t][q].sid THEN [r EXCEPT !.current = FALSE] ELSE r
    <3>1. refresh[t][q] \in Refresh
      BY DEF TypeOK
    <3>2. [refresh[t][q] EXCEPT !.st = "ok", !.current = TRUE] \in Refresh
      BY <3>1
    <3>3. \A u \in Tabs, p \in Slots : spent(refresh[u][p]) \in Refresh
      <4>1. \A r \in Refresh : [r EXCEPT !.current = FALSE] \in Refresh
        OBVIOUS
      <4>2. \A u \in Tabs, p \in Slots : refresh[u][p] \in Refresh
        BY DEF TypeOK
      <4>. QED  BY <4>1, <4>2, Zenon
    <3>4. refresh' = [u \in Tabs |-> [p \in Slots |->
             IF u = t /\ p = q THEN [refresh[t][q] EXCEPT !.st = "ok", !.current = TRUE]
                               ELSE spent(refresh[u][p])]]
      BY <2>u DEF RotateRefresh
    <3>5. refresh' \in [Tabs -> [Slots -> Refresh]]
      BY <3>2, <3>3, <3>4, Zenon
    <3>6. jar' \in Jar
      BY <2>u DEF RotateRefresh, TypeOK
    <3>. QED  BY <2>u, <3>5, <3>6 DEF RotateRefresh, TypeOK
  <2>v. ASSUME events' \in 0..MaxEvents, NEW t \in Tabs, NEW q \in Slots, Refreshed(t, q)
        PROVE TypeOK'
    <3>. DEFINE resumed(p) == [query[t][p] EXCEPT !.st = "sent", !.tok = refresh[t][q].sid]
    <3>1. refresh[t][q] \in Refresh /\ \A p \in Slots : query[t][p] \in Query
      BY DEF TypeOK
    <3>2. \A p \in Slots : resumed(p) \in Query
      BY <3>1
    <3>3. jar' \in Jar
      BY <2>v, <3>1 DEF Refreshed
    <3>4. [p \in Slots |-> IF query[t][p].st = "waiting" THEN resumed(p) ELSE query[t][p]]
             \in [Slots -> Query]
      BY <3>1, <3>2, Zenon
    <3>5. query' = [query EXCEPT ![t] = [p \in Slots |->
             IF query[t][p].st = "waiting" THEN resumed(p) ELSE query[t][p]]]
      BY <2>v DEF Refreshed, SettleRefresh
    <3>6. query' \in [Tabs -> [Slots -> Query]]
      BY <3>4, <3>5, Zenon DEF TypeOK
    <3>7. NoRefresh \in Refresh
      BY DEF NoRefresh, NoSession
    <3>8. refresh' \in [Tabs -> [Slots -> Refresh]] /\ refreshing' \in [Tabs -> Slots \cup {None}]
      BY <2>v, <3>7 DEF Refreshed, SettleRefresh, TypeOK
    <3>. QED  BY <2>v, <3>3, <3>6, <3>8 DEF Refreshed, TypeOK
  <2>w. ASSUME events' \in 0..MaxEvents, NEW t \in Tabs, NEW q \in Slots, RefreshFailed(t, q)
        PROVE TypeOK'
    BY <2>w, Unauthorized DEF RefreshFailed, SettleRefresh, Idle, NoRefresh, NoSession, None, TypeOK
  <2>x. ASSUME events' \in 0..MaxEvents, NEW t \in Tabs, NEW q \in Slots, SendQuery(t, q)
        PROVE TypeOK'
    BY <2>x DEF SendQuery, Send, TypeOK
  <2>2. CASE Choice
    <3>1. events' \in 0..MaxEvents
      BY <2>2 DEF Choice, TypeOK
    <3>. QED  BY <2>2, <3>1, <2>a, <2>b, <2>c, <2>d, <2>e, <2>f, <2>g, <2>h, <2>i, <2>j, <2>m DEF Choice
  <2>3. CASE Next /\ ~Choice
    <3>1. events' \in 0..MaxEvents
      BY <2>3 DEF Next, TypeOK
    <3>2. CASE \E t \in Tabs : TabProgress(t)
      BY <3>1, <3>2, <2>j, <2>k, <2>l, <2>m, <2>n, <2>o, <2>p, <2>q, <2>r
      DEF TabProgress, Rerenders, CallProgress, CheckProgress
    <3>3. CASE \E t \in Tabs, q \in Slots : SlotProgress(t, q) \/ SendQuery(t, q)
      BY <3>1, <3>3, <2>s, <2>t, <2>u, <2>v, <2>w, <2>x DEF SlotProgress
    <3>. QED  BY <2>3, <3>2, <3>3 DEF Next
  <2>. QED  BY <2>1, <2>2, <2>3
<1>. QED  BY <1>1, <1>2, PTL DEF Spec

-----------------------------------------------------------------------------
\* A step that leaves the refreshes alone: the cookies keep their refresh token,
\* are cleared, or are those of a new session.
Quiet ==
  /\ UNCHANGED <<refresh, refreshing>>
  /\ \/ /\ jar'.sid = jar.sid /\ jar'.current = jar.current
        /\ live' \subseteq live /\ UNCHANGED <<issued, lost>>
     \/ /\ jar' = NoCookies
        /\ live' \subseteq live /\ UNCHANGED <<issued, lost>>
     \/ /\ jar' = CookiesOf(issued + 1) /\ issued' = issued + 1
        /\ live' = live \cup {issued + 1} /\ UNCHANGED lost

\* A denied query starts the refresh of its tab (tryRefresh).
Starts(t, q) ==
  /\ refreshing[t] = None /\ TryRefresh(t, q)
  /\ UNCHANGED <<jar, live, issued, lost>>

\* What a step can do to the refreshes in flight.
LEMMA RefreshSteps ==
  ASSUME TypeOK, [Next]_vars
  PROVE  \/ Quiet
         \/ \E t \in Tabs, q \in Slots :
              \/ Starts(t, q) \/ RotateRefresh(t, q) \/ Refreshed(t, q)
              \/ RefreshFailed(t, q) \/ RefreshLost(t, q)
         \/ \E t \in Tabs, p \in PublicPaths \cup Pages : Load(t, p)
<1>. USE DEF backend, tabMemory, requests
<1>1. CASE UNCHANGED vars
  BY <1>1 DEF vars, Quiet
<1>2. CASE AccessExpires \/ SessionEnds
  BY <1>2 DEF AccessExpires, SessionEnds, Quiet, TypeOK, Jar
<1>3. ASSUME NEW t \in Tabs, NEW q \in Slots,
             ChangeCredential(t, q) \/ Refused(t, q) \/ SendQuery(t, q) \/ Answered(t, q)
      PROVE  Quiet
  BY <1>3 DEF ChangeCredential, Refused, SendQuery, Answered, Send, Quiet
<1>4. ASSUME NEW t \in Tabs, NEW p \in Pages, Navigate(t, p)
      PROVE  Quiet
  BY <1>4 DEF Navigate, Quiet
<1>5. ASSUME NEW t \in Tabs,
             SubmitLogin(t) \/ SubmitSsoCode(t) \/ SetPassword(t) \/ Logout(t) \/ BackToSignIn(t)
               \/ GoToLogin(t) \/ InviteDone(t) \/ LoginRedirect(t) \/ LayoutRedirect(t)
               \/ NotSignedIn(t) \/ InviteChecked(t) \/ InviteRefused(t)
      PROVE  Quiet
  BY <1>5 DEF SubmitLogin, SubmitSsoCode, SetPassword, Logout, Call, BackToSignIn, GoToLogin,
              InviteDone, LeaveInvite, LoginRedirect, LayoutRedirect, NotSignedIn, InviteChecked,
              InviteRefused, Quiet
<1>11. ASSUME NEW t \in Tabs, NEW tok \in 0..MaxSessions,
              RestoreSession(t, tok) \/ CheckRefused(t, tok) \/ CheckLost(t, tok)
       PROVE  Quiet
  BY <1>11 DEF RestoreSession, CheckRefused, CheckLost, Quiet
<1>6. ASSUME NEW t \in Tabs, SignedIn(t) \/ InviteAccepted(t)
      PROVE  Quiet
  BY <1>6 DEF SignedIn, InviteAccepted, CreateSession, Quiet
<1>7. ASSUME NEW t \in Tabs, LogoutDone(t)
      PROVE  Quiet
  BY <1>7 DEF LogoutDone, Quiet
<1>8. ASSUME NEW t \in Tabs, NEW q \in Slots, Denied(t, q)
      PROVE  Quiet \/ Starts(t, q)
  BY <1>8 DEF Denied, TryRefresh, Quiet, Starts
<1>9. CASE Choice
  BY <1>9, <1>2, <1>3, <1>4, <1>5, <1>11 DEF Choice
<1>10. CASE \E t \in Tabs : TabProgress(t) \/ \E q \in Slots : SlotProgress(t, q) \/ SendQuery(t, q)
  BY <1>10, <1>3, <1>5, <1>6, <1>7, <1>8, <1>11
  DEF TabProgress, Rerenders, CallProgress, CheckProgress, SlotProgress
<1>. QED  BY <1>1, <1>9, <1>10 DEF Next

\* A tab never has two refreshes in flight (_refreshing of client.ts).
THEOREM OneRefresh == Spec => []OneRefreshPerTab
<1>1. Init => OneRefreshPerTab
  BY DEF Init, OneRefreshPerTab, NoRefresh
<1>2. TypeOK /\ OneRefreshPerTab /\ [Next]_vars => OneRefreshPerTab'
  <2>. SUFFICES ASSUME TypeOK, OneRefreshPerTab, [Next]_vars PROVE OneRefreshPerTab'
    OBVIOUS
  <2>0. refresh \in [Tabs -> [Slots -> Refresh]] /\ refreshing \in [Tabs -> Slots \cup {None}]
    BY DEF TypeOK
  <2>1. CASE Quiet
    BY <2>1 DEF Quiet, OneRefreshPerTab
  <2>2. ASSUME NEW t \in Tabs, NEW q \in Slots, Starts(t, q) PROVE OneRefreshPerTab'
    <3>1. \A p \in Slots : refresh[t][p].st = None
      BY <2>2 DEF Starts, OneRefreshPerTab
    <3>2. \A u \in Tabs, p \in Slots : u # t \/ p # q => refresh'[u][p] = refresh[u][p]
      BY <2>0, <2>2 DEF Starts, TryRefresh
    <3>3. refreshing' = [refreshing EXCEPT ![t] = q]
      BY <2>2 DEF Starts, TryRefresh
    <3>. QED  BY <2>0, <3>1, <3>2, <3>3 DEF OneRefreshPerTab
  <2>3. ASSUME NEW t \in Tabs, NEW q \in Slots, RotateRefresh(t, q) PROVE OneRefreshPerTab'
    <3>1. \A u \in Tabs, p \in Slots : refresh'[u][p].st # None => refresh[u][p].st # None
      BY <2>0, <2>3 DEF RotateRefresh, Refresh, None
    <3>. QED  BY <2>3, <3>1 DEF RotateRefresh, requests, OneRefreshPerTab
  <2>4. ASSUME NEW t \in Tabs, NEW q \in Slots, refresh[t][q].st # None,
               refresh' = [refresh EXCEPT ![t][q] = NoRefresh],
               refreshing' = [refreshing EXCEPT ![t] = None]
        PROVE  OneRefreshPerTab'
    <3>1. \A u \in Tabs, p \in Slots : u # t \/ p # q => refresh'[u][p] = refresh[u][p]
      BY <2>0, <2>4
    <3>2. refresh'[t][q].st = None /\ refreshing[t] = q
      BY <2>0, <2>4 DEF NoRefresh, OneRefreshPerTab
    <3>. QED  BY <2>0, <2>4, <3>1, <3>2 DEF OneRefreshPerTab
  <2>5. ASSUME NEW t \in Tabs, NEW q \in Slots,
               Refreshed(t, q) \/ RefreshFailed(t, q) \/ RefreshLost(t, q)
        PROVE  OneRefreshPerTab'
    <3>1. refresh[t][q].st # None
      BY <2>5 DEF Refreshed, RefreshFailed, RefreshLost, None
    <3>2. refresh' = [refresh EXCEPT ![t][q] = NoRefresh]
          /\ refreshing' = [refreshing EXCEPT ![t] = None]
      BY <2>5, Zenon DEF Refreshed, RefreshFailed, RefreshLost, SettleRefresh
    <3>. QED  BY <3>1, <3>2, <2>4
  <2>6. ASSUME NEW t \in Tabs, NEW p \in PublicPaths \cup Pages, Load(t, p)
        PROVE  OneRefreshPerTab'
    BY <2>0, <2>6 DEF Load, NoRefresh, OneRefreshPerTab
  <2>. QED  BY <2>1, <2>2, <2>3, <2>5, <2>6, RefreshSteps
<1>. QED  BY <1>1, <1>2, TypeCorrect, PTL DEF Spec

-----------------------------------------------------------------------------
\* Sessions are numbered from 1 to issued, and tokens are of such sessions.
NumbersInv ==
  /\ live \subseteq 1..issued /\ jar.sid <= issued
  /\ \A t \in Tabs, q \in Slots : refresh[t][q].sid <= issued

\* The token that an accepted refresh brings is the only current one of its
\* session: the rotation has spent every other copy of it.
RotationInv ==
  \A t \in Tabs, q \in Slots : refresh[t][q].st = "ok" =>
    /\ refresh[t][q].current
    /\ jar.sid = refresh[t][q].sid => ~jar.current
    /\ \A u \in Tabs, p \in Slots :
         /\ refresh[u][p].st # None /\ refresh[u][p].sid = refresh[t][q].sid
         /\ refresh[u][p].current
         => u = t /\ p = q

TokenInv == NumbersInv /\ RotationInv /\ TokenNotStranded

\* The browser is not left with a spent token of a live session: the inductive
\* step, for rotation in one tab beside any steps of the others.
LEMMA TokenStep ==
  ASSUME TypeOK, OneRefreshPerTab, TokenInv, [Next]_vars
  PROVE  TokenInv'
<1>0. /\ refresh \in [Tabs -> [Slots -> Refresh]] /\ refreshing \in [Tabs -> Slots \cup {None}]
      /\ jar \in Jar /\ issued \in Nat /\ jar.sid \in Nat /\ lost \in BOOLEAN
      /\ \A t \in Tabs, q \in Slots : refresh[t][q] \in Refresh /\ refresh[t][q].sid \in Nat
  BY DEF TypeOK, Refresh, Jar
<1>1. CASE Quiet
  <2>1. NumbersInv'
    <3>1. live' \subseteq 1..issued'
      <4>1. 1..issued \subseteq 1..(issued + 1) /\ {issued + 1} \subseteq 1..(issued + 1)
        BY <1>0
      <4>2. live \subseteq 1..issued
        BY DEF TokenInv, NumbersInv
      <4>3. CASE live' \subseteq live /\ issued' = issued
        BY <4>2, <4>3, Zenon
      <4>4. CASE live' = live \cup {issued + 1} /\ issued' = issued + 1
        <5>1. live \cup {issued + 1} \subseteq 1..(issued + 1)
          BY <4>1, <4>2, Zenon
        <5>. QED  BY <4>4, <5>1
      <4>. QED  BY <1>1, <4>3, <4>4 DEF Quiet
    <3>2. jar'.sid <= issued' /\ issued <= issued'
      BY <1>0, <1>1 DEF Quiet, TokenInv, NumbersInv, NoCookies, NoSession, CookiesOf
    <3>3. \A t \in Tabs, q \in Slots : refresh'[t][q].sid <= issued'
      <4>1. refresh' = refresh /\ issued' \in Nat
        BY <1>0, <1>1 DEF Quiet
      <4>. QED  BY <1>0, <3>2, <4>1 DEF TokenInv, NumbersInv
    <3>. QED  BY <3>1, <3>2, <3>3 DEF NumbersInv
  <2>2. RotationInv'
    BY <1>0, <1>1 DEF Quiet, TokenInv, RotationInv, NumbersInv, NoCookies, NoSession, CookiesOf
  <2>3. TokenNotStranded'
    BY <1>0, <1>1 DEF Quiet, TokenInv, TokenNotStranded, NumbersInv, NoCookies, NoSession, CookiesOf
  <2>. QED  BY <2>1, <2>2, <2>3 DEF TokenInv
<1>2. ASSUME NEW t \in Tabs, NEW q \in Slots, Starts(t, q) PROVE TokenInv'
  <2>1. refresh[t][q].st = None
    BY <1>2 DEF Starts, OneRefreshPerTab
  <2>2. /\ refresh'[t][q] = [st |-> "sent", sid |-> jar.sid, current |-> jar.current]
        /\ \A u \in Tabs, p \in Slots : u # t \/ p # q => refresh'[u][p] = refresh[u][p]
    BY <1>0, <1>2 DEF Starts, TryRefresh
  <2>3. UNCHANGED <<jar, live, issued, lost>>
    BY <1>2 DEF Starts
  <2>4. NumbersInv'
    BY <1>0, <2>2, <2>3 DEF TokenInv, NumbersInv
  <2>5. RotationInv'
    <3>. SUFFICES ASSUME NEW u \in Tabs, NEW p \in Slots, refresh'[u][p].st = "ok"
                  PROVE  /\ refresh'[u][p].current
                         /\ jar'.sid = refresh'[u][p].sid => ~jar'.current
                         /\ \A v \in Tabs, r \in Slots :
                              /\ refresh'[v][r].st # None /\ refresh'[v][r].sid = refresh'[u][p].sid
                              /\ refresh'[v][r].current
                              => v = u /\ r = p
      BY DEF RotationInv
    <3>1. (u # t \/ p # q) /\ refresh'[u][p] = refresh[u][p]
      BY <2>2
    <3>2. refresh'[u][p].current /\ (jar'.sid = refresh'[u][p].sid => ~jar'.current)
      BY <3>1, <2>3 DEF TokenInv, RotationInv
    <3>3. ASSUME NEW v \in Tabs, NEW r \in Slots, refresh'[v][r].st # None,
                 refresh'[v][r].sid = refresh'[u][p].sid, refresh'[v][r].current
          PROVE  v = u /\ r = p
      <4>1. v # t \/ r # q
        BY <2>2, <2>3, <3>2, <3>3
      <4>2. refresh'[v][r] = refresh[v][r]
        BY <2>2, <4>1
      <4>. QED  BY <3>1, <3>3, <4>2 DEF TokenInv, RotationInv
    <3>. QED  BY <3>2, <3>3
  <2>6. TokenNotStranded'
    BY <1>0, <2>1, <2>2, <2>3 DEF TokenInv, TokenNotStranded, None
  <2>. QED  BY <2>4, <2>5, <2>6 DEF TokenInv
<1>3. ASSUME NEW t \in Tabs, NEW q \in Slots, RotateRefresh(t, q) PROVE TokenInv'
  <2>. DEFINE s == refresh[t][q].sid
  <2>1. /\ refresh[t][q].st = "sent" /\ s \in live /\ refresh[t][q].current
        /\ UNCHANGED <<live, issued, lost>>
    BY <1>3 DEF RotateRefresh, RefreshAccepted, backend
  <2>2. /\ refresh'[t][q] = [refresh[t][q] EXCEPT !.st = "ok", !.current = TRUE]
        /\ \A u \in Tabs, p \in Slots : u # t \/ p # q =>
             refresh'[u][p] = IF refresh[u][p].sid = s
                                THEN [refresh[u][p] EXCEPT !.current = FALSE] ELSE refresh[u][p]
        /\ jar' = IF jar.sid = s THEN [jar EXCEPT !.current = FALSE] ELSE jar
    BY <1>3 DEF RotateRefresh
  <2>3. /\ refresh'[t][q].st = "ok" /\ refresh'[t][q].sid = s /\ refresh'[t][q].current
        /\ jar'.sid = jar.sid /\ (jar.sid = s => ~jar'.current) /\ (jar.sid # s => jar' = jar)
    BY <1>0, <2>2 DEF Refresh, Jar
  <2>4. \A u \in Tabs, p \in Slots : u # t \/ p # q =>
          /\ refresh'[u][p].st = refresh[u][p].st /\ refresh'[u][p].sid = refresh[u][p].sid
          /\ refresh[u][p].sid = s => ~refresh'[u][p].current
          /\ refresh[u][p].sid # s => refresh'[u][p].current = refresh[u][p].current
    <3>1. \A c \in Refresh : LET d == [c EXCEPT !.current = FALSE]
                              IN d.st = c.st /\ d.sid = c.sid /\ ~d.current
      BY DEF Refresh
    <3>2. \A u \in Tabs, p \in Slots : refresh[u][p] \in Refresh
      BY <1>0
    <3>3. \A u \in Tabs, p \in Slots : u # t \/ p # q =>
            \/ refresh[u][p].sid = s /\ refresh'[u][p] = [refresh[u][p] EXCEPT !.current = FALSE]
            \/ refresh[u][p].sid # s /\ refresh'[u][p] = refresh[u][p]
      BY <2>2
    <3>4. ASSUME NEW u \in Tabs, NEW p \in Slots, u # t \/ p # q
          PROVE  /\ refresh'[u][p].st = refresh[u][p].st /\ refresh'[u][p].sid = refresh[u][p].sid
                 /\ refresh[u][p].sid = s => ~refresh'[u][p].current
                 /\ refresh[u][p].sid # s => refresh'[u][p].current = refresh[u][p].current
      <4>1. CASE refresh[u][p].sid # s
        BY <3>3, <3>4, <4>1
      <4>2. CASE refresh[u][p].sid = s
        <5>1. refresh'[u][p] = [refresh[u][p] EXCEPT !.current = FALSE] /\ refresh[u][p] \in Refresh
          BY <3>2, <3>3, <3>4, <4>2
        <5>2. /\ refresh'[u][p].st = refresh[u][p].st /\ refresh'[u][p].sid = refresh[u][p].sid
              /\ ~refresh'[u][p].current
          BY <3>1, <5>1, Zenon
        <5>. QED  BY <4>2, <5>2, Zenon
      <4>. QED  BY <4>1, <4>2
    <3>. QED  BY <3>4
  <2>5. \A u \in Tabs, p \in Slots : refresh[u][p].st = "ok" => refresh[u][p].sid # s
    BY <2>1 DEF TokenInv, RotationInv, None
  <2>6. NumbersInv'
    BY <1>0, <2>1, <2>3, <2>4 DEF TokenInv, NumbersInv
  <2>7. RotationInv'
    <3>. SUFFICES ASSUME NEW u \in Tabs, NEW p \in Slots, refresh'[u][p].st = "ok"
                  PROVE  /\ refresh'[u][p].current
                         /\ jar'.sid = refresh'[u][p].sid => ~jar'.current
                         /\ \A v \in Tabs, r \in Slots :
                              /\ refresh'[v][r].st # None /\ refresh'[v][r].sid = refresh'[u][p].sid
                              /\ refresh'[v][r].current
                              => v = u /\ r = p
      BY DEF RotationInv
    <3>1. CASE u = t /\ p = q
      BY <3>1, <2>3, <2>4
    <3>2. CASE u # t \/ p # q
      <4>1. refresh[u][p].st = "ok" /\ refresh[u][p].sid # s /\ refresh'[u][p].sid = refresh[u][p].sid
        BY <3>2, <2>4, <2>5
      <4>2. refresh'[u][p].current /\ (jar'.sid = refresh'[u][p].sid => ~jar'.current)
        BY <3>2, <4>1, <2>3, <2>4 DEF TokenInv, RotationInv
      <4>3. ASSUME NEW v \in Tabs, NEW r \in Slots, refresh'[v][r].st # None,
                   refresh'[v][r].sid = refresh'[u][p].sid, refresh'[v][r].current
            PROVE  v = u /\ r = p
        <5>1. v # t \/ r # q
          BY <4>1, <4>3, <2>3
        <5>2. refresh[v][r].st # None /\ refresh[v][r].sid = refresh[u][p].sid /\ refresh[v][r].current
          BY <4>1, <4>3, <5>1, <2>4
        <5>. QED  BY <4>1, <5>2 DEF TokenInv, RotationInv
      <4>. QED  BY <4>2, <4>3
    <3>. QED  BY <3>1, <3>2
  <2>8. TokenNotStranded'
    <3>. SUFFICES ASSUME jar'.sid \in live', ~jar'.current, ~lost'
                  PROVE  \E u \in Tabs, p \in Slots :
                           /\ refresh'[u][p].st = "ok" /\ refresh'[u][p].sid = jar'.sid
                           /\ refresh'[u][p].current
      BY DEF TokenNotStranded
    <3>1. CASE jar.sid = s
      BY <3>1, <2>3
    <3>2. CASE jar.sid # s
      <4>1. PICK u \in Tabs, p \in Slots :
               refresh[u][p].st = "ok" /\ refresh[u][p].sid = jar.sid /\ refresh[u][p].current
        BY <3>2, <2>1, <2>3 DEF TokenInv, TokenNotStranded
      <4>2. u # t \/ p # q
        BY <4>1, <2>1
      <4>. QED  BY <3>2, <4>1, <4>2, <2>3, <2>4
    <3>. QED  BY <3>1, <3>2
  <2>. QED  BY <2>6, <2>7, <2>8 DEF TokenInv
<1>4. ASSUME NEW t \in Tabs, NEW q \in Slots, Refreshed(t, q) PROVE TokenInv'
  <2>1. /\ refresh[t][q].st = "ok" /\ refresh' = [refresh EXCEPT ![t][q] = NoRefresh]
        /\ jar' = [access |-> refresh[t][q].sid, sid |-> refresh[t][q].sid,
                   current |-> refresh[t][q].current]
        /\ UNCHANGED <<live, issued, lost>>
    BY <1>4, Zenon DEF Refreshed, SettleRefresh, backend
  <2>2. /\ refresh'[t][q].st = None /\ refresh'[t][q].sid = 0
        /\ \A u \in Tabs, p \in Slots : u # t \/ p # q => refresh'[u][p] = refresh[u][p]
    BY <1>0, <2>1 DEF NoRefresh, NoSession
  <2>3. refresh[t][q].current
    BY <2>1 DEF TokenInv, RotationInv
  <2>4. NumbersInv'
    BY <1>0, <2>1, <2>2 DEF TokenInv, NumbersInv
  <2>5. RotationInv'
    BY <1>0, <2>1, <2>2, <2>3 DEF TokenInv, RotationInv, None
  <2>. QED  BY <2>1, <2>3, <2>4, <2>5 DEF TokenInv, TokenNotStranded
<1>5. ASSUME NEW t \in Tabs, NEW q \in Slots, RefreshFailed(t, q) \/ RefreshLost(t, q)
      PROVE  TokenInv'
  <2>1. /\ refresh' = [refresh EXCEPT ![t][q] = NoRefresh]
        /\ UNCHANGED <<jar, live, issued>>
        /\ (lost \/ refresh[t][q].st = "ok") => lost'
    <3>1. refresh' = [refresh EXCEPT ![t][q] = NoRefresh]
      BY <1>5, Zenon DEF RefreshFailed, RefreshLost, SettleRefresh
    <3>2. UNCHANGED <<jar, live, issued>>
      BY <1>5 DEF RefreshFailed, RefreshLost, backend
    <3>3. (lost \/ refresh[t][q].st = "ok") => lost'
      BY <1>0, <1>5 DEF RefreshFailed, RefreshLost
    <3>. QED  BY <3>1, <3>2, <3>3
  <2>2. /\ refresh'[t][q].st = None /\ refresh'[t][q].sid = 0
        /\ \A u \in Tabs, p \in Slots : u # t \/ p # q => refresh'[u][p] = refresh[u][p]
    BY <1>0, <2>1 DEF NoRefresh, NoSession
  <2>3. NumbersInv'
    BY <1>0, <2>1, <2>2 DEF TokenInv, NumbersInv
  <2>4. RotationInv'
    BY <1>0, <2>1, <2>2 DEF TokenInv, RotationInv, None
  <2>5. TokenNotStranded'
    BY <1>0, <2>1, <2>2 DEF TokenInv, TokenNotStranded, None
  <2>. QED  BY <2>3, <2>4, <2>5 DEF TokenInv
<1>6. ASSUME NEW t \in Tabs, NEW p \in PublicPaths \cup Pages, Load(t, p) PROVE TokenInv'
  <2>1. /\ \A q \in Slots : refresh'[t][q].st = None /\ refresh'[t][q].sid = 0
        /\ \A u \in Tabs, q \in Slots : u # t => refresh'[u][q] = refresh[u][q]
        /\ UNCHANGED <<jar, live, issued>>
        /\ lost' = (lost \/ \E q \in Slots : refresh[t][q].st = "ok")
    BY <1>0, <1>6 DEF Load, NoRefresh, NoSession, backend
  <2>2. \A u \in Tabs, q \in Slots : refresh'[u][q].st # None => u # t
    BY <2>1
  <2>3. NumbersInv'
    BY <1>0, <2>1 DEF TokenInv, NumbersInv
  <2>4. RotationInv'
    <3>1. \A u \in Tabs, q \in Slots : refresh'[u][q].st = "ok" => refresh'[u][q].st # None
      BY DEF None
    <3>. QED  BY <2>1, <2>2, <3>1 DEF TokenInv, RotationInv
  <2>5. TokenNotStranded'
    <3>. SUFFICES ASSUME jar'.sid \in live', ~jar'.current, ~lost'
                  PROVE  \E u \in Tabs, r \in Slots :
                           /\ refresh'[u][r].st = "ok" /\ refresh'[u][r].sid = jar'.sid
                           /\ refresh'[u][r].current
      BY DEF TokenNotStranded
    <3>1. PICK u \in Tabs, r \in Slots :
             refresh[u][r].st = "ok" /\ refresh[u][r].sid = jar.sid /\ refresh[u][r].current
      BY <1>0, <2>1 DEF TokenInv, TokenNotStranded
    <3>2. u # t
      BY <1>0, <2>1, <3>1
    <3>. QED  BY <2>1, <3>1, <3>2
  <2>. QED  BY <2>3, <2>4, <2>5 DEF TokenInv
<1>. QED  BY <1>1, <1>2, <1>3, <1>4, <1>5, <1>6, RefreshSteps

\* A browser whose session lives can always refresh it, unless an answer was lost
\* (the rotation of refresh_token in auth.py against the cookies of the tabs).
THEOREM NeverStranded == Spec => []TokenNotStranded
<1>1. Init => TokenInv
  BY DEF Init, TokenInv, NumbersInv, RotationInv, TokenNotStranded, CookiesOf, NoRefresh,
         NoSession, None
<1>2. TypeOK /\ OneRefreshPerTab /\ TokenInv /\ [Next]_vars => TokenInv'
  BY TokenStep
<1>3. TokenInv => TokenNotStranded
  BY DEF TokenInv
<1>. QED  BY <1>1, <1>2, <1>3, TypeCorrect, OneRefresh, PTL DEF Spec

-----------------------------------------------------------------------------
\* A tab leaves the signed-in state by its own calls only: refreshes that fail, in this
\* tab or another, do not touch the store; a check that is refused, of the load or of any
\* later path, does, and one that takes the tab off a page has been sent again (App.tsx,
\* store/auth.ts).
THEOREM SignedOutByOwnCalls == Spec => OnlyOwnCallsSignOut
<1>. DEFINE Kept(t) == auth[t] = "in" /\ auth'[t] # "in" =>
       \/ auth'[t] = "loading"
       \/ call[t].kind \in {"logout", "signout"} /\ call'[t] = NoCall
       \/ \E tok \in 0..MaxSessions :
            \/ CheckLost(t, tok)
            \/ /\ CheckRefused(t, tok)
               /\ route[t] \in PublicPaths \/ me'[t][jar.access] > 0
<1>1. ASSUME TypeOK, [Next]_vars PROVE \A t \in Tabs : Kept(t)
  <2>. SUFFICES ASSUME NEW u \in Tabs PROVE Kept(u)
    OBVIOUS
  <2>0. /\ auth \in [Tabs -> {"loading", "in", "out"}] /\ call \in [Tabs -> AuthCall]
        /\ me \in [Tabs -> Checks] /\ jar.access \in 0..MaxSessions
    <3>1. jar \in Jar
      BY <1>1 DEF TypeOK
    <3>2. jar.access \in 0..MaxSessions
      BY <3>1 DEF Jar
    <3>. QED  BY <1>1, <3>2 DEF TypeOK
  <2>. USE DEF backend, tabMemory, requests
  <2>1. CASE auth' = auth
    BY <2>1
  <2>2. ASSUME NEW t \in Tabs, NEW p \in PublicPaths \cup Pages, Load(t, p) PROVE Kept(u)
    BY <2>0, <2>2 DEF Load
  <2>3. ASSUME NEW t \in Tabs, NEW tok \in 0..MaxSessions, RestoreSession(t, tok) PROVE Kept(u)
    BY <2>0, <2>3 DEF RestoreSession
  <2>4. ASSUME NEW t \in Tabs, NEW tok \in 0..MaxSessions, CheckLost(t, tok) PROVE Kept(u)
    <3>1. u # t => auth'[u] = auth[u]
      BY <2>0, <2>4 DEF CheckLost
    <3>. QED  BY <2>4, <3>1
  <2>11. ASSUME NEW t \in Tabs, NEW tok \in 0..MaxSessions, CheckRefused(t, tok) PROVE Kept(u)
    <3>1. u # t => auth'[u] = auth[u]
      BY <2>0, <2>11 DEF CheckRefused
    <3>2. route[t] \notin PublicPaths => me'[t][jar.access] > 0
      <4>. SUFFICES ASSUME route[t] \notin PublicPaths PROVE me'[t][jar.access] > 0
        OBVIOUS
      <4>. DEFINE rest == [me[t] EXCEPT ![tok] = @ - 1]
      <4>1. me' = [me EXCEPT ![t] = [rest EXCEPT ![jar.access] = @ + 1]] /\ me[t][tok] > 0
        BY <2>11 DEF CheckRefused
      <4>2. me[t] \in [0..MaxSessions -> 0..MaxChecks] /\ me[t][tok] \in Nat
        BY <2>0 DEF Checks
      <4>3. rest[jar.access] \in Nat /\ rest \in [0..MaxSessions -> Nat]
        BY <2>0, <4>1, <4>2
      <4>. HIDE DEF rest
      <4>4. me'[t][jar.access] = rest[jar.access] + 1
        BY <2>0, <4>1, <4>3
      <4>. QED  BY <4>3, <4>4
    <3>. QED  BY <2>11, <3>1, <3>2
  <2>12. ASSUME NEW t \in Tabs, SignedIn(t) \/ InviteAccepted(t) PROVE Kept(u)
    BY <2>0, <2>12 DEF SignedIn, InviteAccepted, CreateSession
  <2>5. ASSUME NEW t \in Tabs, LogoutDone(t) PROVE Kept(u)
    BY <2>0, <2>5 DEF LogoutDone
  <2>6. ASSUME NEW t \in Tabs, NEW q \in Slots,
               ChangeCredential(t, q) \/ Refused(t, q) \/ SendQuery(t, q) \/ Answered(t, q)
                 \/ Denied(t, q) \/ RotateRefresh(t, q) \/ Refreshed(t, q)
                 \/ RefreshFailed(t, q) \/ RefreshLost(t, q)
        PROVE  auth' = auth
    BY <2>6 DEF ChangeCredential, Refused, SendQuery, Answered, Send, Denied, RotateRefresh,
                Refreshed, RefreshFailed, RefreshLost, OnUnauthorized
  <2>7. ASSUME NEW t \in Tabs,
               SubmitLogin(t) \/ SubmitSsoCode(t) \/ SetPassword(t) \/ Logout(t) \/ BackToSignIn(t)
                 \/ GoToLogin(t) \/ InviteDone(t) \/ LoginRedirect(t) \/ LayoutRedirect(t)
                 \/ NotSignedIn(t) \/ InviteChecked(t) \/ InviteRefused(t)
                 \/ (\E p \in Pages : Navigate(t, p))
        PROVE  auth' = auth
    BY <2>7 DEF SubmitLogin, SubmitSsoCode, SetPassword, Logout, Call, BackToSignIn, GoToLogin,
                InviteDone, LeaveInvite, LoginRedirect, LayoutRedirect, NotSignedIn, InviteChecked,
                InviteRefused, Navigate
  <2>8. ASSUME UNCHANGED vars \/ AccessExpires \/ SessionEnds PROVE auth' = auth
    BY <2>8 DEF vars, AccessExpires, SessionEnds
  <2>. HIDE DEF Kept, tabMemory
  <2>9. CASE Choice
    BY <2>9, <2>1, <2>2, <2>4, <2>6, <2>7, <2>8 DEF Choice
  <2>10. CASE \E t \in Tabs : TabProgress(t)
    BY <2>10, <2>1, <2>3, <2>5, <2>7, <2>11, <2>12
    DEF TabProgress, Rerenders, CallProgress, CheckProgress
  <2>13. CASE \E t \in Tabs, q \in Slots : SlotProgress(t, q) \/ SendQuery(t, q)
    BY <2>13, <2>1, <2>6 DEF SlotProgress
  <2>. QED  BY <1>1, <2>1, <2>8, <2>9, <2>10, <2>13 DEF Next
<1>2. TypeOK /\ [Next]_vars => [\A t \in Tabs : Kept(t)]_vars
  BY <1>1
<1>. QED  BY <1>2, TypeCorrect, PTL DEF Spec, OnlyOwnCallsSignOut

-----------------------------------------------------------------------------
(* The interceptor implements SingleFlight.                                 *)

\* While the invitation page waits for the answer to its password nothing else of the
\* tab moves, so that what it sends next takes a free slot.
AcceptInv ==
  \A t \in Tabs : call[t].kind = "accept" =>
    /\ route[t] = "invite" /\ step[t] = "set-password"
    /\ \A q \in Slots : query[t][q] = Idle

\* The shared refresh of a tab is under way, and where one waits there is one.
FlightInv ==
  /\ OneRefreshPerTab
  /\ \A t \in Tabs : refreshing[t] # None => refresh[t][refreshing[t]].st # None
  /\ \A t \in Tabs, q \in Slots : query[t][q].st = "waiting" => refreshing[t] # None

\* A step of one tab leaves the others as they are.
Elsewhere(t) ==
  \A u \in Tabs \ {t} :
    /\ call'[u] = call[u] /\ route'[u] = route[u] /\ step'[u] = step[u]
    /\ query'[u] = query[u]

LEMMA AcceptKept ==
  ASSUME AcceptInv, NEW t \in Tabs, Elsewhere(t),
         call'[t].kind = "accept" =>
           /\ route'[t] = "invite" /\ step'[t] = "set-password"
           /\ \A q \in Slots : query'[t][q] = Idle
  PROVE  AcceptInv'
BY DEF AcceptInv, Elsewhere

\* Only handleSetPassword sends the call, and no query, redirect, late answer or
\* second call comes in between.
LEMMA AcceptStep ==
  ASSUME TypeOK, AcceptInv, [Next]_vars
  PROVE  AcceptInv'
<1>0. /\ query \in [Tabs -> [Slots -> Query]] /\ call \in [Tabs -> AuthCall]
      /\ route \in [Tabs -> PublicPaths \cup Pages] /\ step \in [Tabs -> Steps]
  BY DEF TypeOK
<1>. USE DEF tabMemory
<1>1. CASE UNCHANGED <<query, call, route, step>>
  BY <1>1 DEF AcceptInv
<1>2. ASSUME NEW t \in Tabs, NEW q \in Slots,
             SendQuery(t, q) \/ ChangeCredential(t, q) \/ Answered(t, q) \/ Refused(t, q)
               \/ Denied(t, q)
      PROVE  AcceptInv'
  <2>1. Elsewhere(t)
    BY <1>0, <1>2 DEF SendQuery, ChangeCredential, Send, Answered, Refused, Denied, Elsewhere
  <2>2. call[t].kind # "accept"
    BY <1>2 DEF SendQuery, ChangeCredential, NoCall, Answered, Refused, Denied, AcceptInv, Idle,
                Pages, None
  <2>3. call'[t].kind # "accept"
    BY <1>0, <1>2, <2>2 DEF SendQuery, ChangeCredential, Send, Answered, Refused, Denied
  <2>. QED  BY <2>1, <2>3, AcceptKept
<1>3. ASSUME NEW t \in Tabs, NEW q \in Slots,
             Refreshed(t, q) \/ RefreshFailed(t, q) \/ RefreshLost(t, q)
      PROVE  AcceptInv'
  <2>1. Elsewhere(t) /\ call' = call /\ step' = step
    BY <1>0, <1>3 DEF Refreshed, RefreshFailed, RefreshLost, SettleRefresh, OnUnauthorized, GoTo,
                      Elsewhere
  <2>2. route[t] = "invite" => route'[t] = "invite"
    BY <1>0, <1>3 DEF Refreshed, RefreshFailed, RefreshLost, OnUnauthorized, GoTo, PublicPaths
  <2>3. ASSUME NEW p \in Slots, query[t][p] = Idle PROVE query'[t][p] = Idle
    <3>1. ASSUME NEW resumed, SettleRefresh(t, q, resumed) PROVE query'[t][p] = Idle
      <4>1. query[t][p].st # "waiting"
        BY <2>3 DEF Idle
      <4>2. query'[t][p] = query[t][p]
        BY <1>0, <3>1, <4>1 DEF SettleRefresh
      <4>. QED  BY <2>3, <4>2
    <3>. QED  BY <1>3, <3>1 DEF Refreshed, RefreshFailed, RefreshLost
  <2>. QED  BY <2>1, <2>2, <2>3, AcceptKept DEF AcceptInv
<1>4. ASSUME NEW t \in Tabs, NEW p \in PublicPaths \cup Pages, Load(t, p) PROVE AcceptInv'
  <2>1. Elsewhere(t) /\ call'[t].kind # "accept"
    BY <1>0, <1>4 DEF Load, Elsewhere, NoCall, None
  <2>. QED  BY <2>1, AcceptKept
<1>5. ASSUME NEW t \in Tabs, SetPassword(t) PROVE AcceptInv'
  <2>1. Elsewhere(t) /\ UNCHANGED <<query, route, step>>
    BY <1>0, <1>5 DEF SetPassword, Call, Elsewhere, requests
  <2>. QED  BY <1>5, <2>1, AcceptKept DEF SetPassword
<1>6. ASSUME NEW t \in Tabs,
             SubmitLogin(t) \/ SubmitSsoCode(t) \/ Logout(t) \/ SignedIn(t) \/ NotSignedIn(t)
               \/ LogoutDone(t) \/ InviteChecked(t) \/ InviteAccepted(t) \/ InviteRefused(t)
      PROVE  AcceptInv'
  <2>1. Elsewhere(t)
    BY <1>0, <1>6 DEF SubmitLogin, SubmitSsoCode, Logout, Call, SignedIn, NotSignedIn, LogoutDone,
                      InviteChecked, InviteAccepted, InviteRefused, GoTo, requests, Elsewhere
  <2>2. call'[t].kind # "accept"
    BY <1>0, <1>6 DEF SubmitLogin, SubmitSsoCode, Logout, Call, SignedIn, NotSignedIn, LogoutDone,
                      InviteChecked, InviteAccepted, InviteRefused, NoCall, None
  <2>. QED  BY <2>1, <2>2, AcceptKept
<1>7. ASSUME NEW t \in Tabs,
             LoginRedirect(t) \/ LayoutRedirect(t) \/ BackToSignIn(t) \/ GoToLogin(t)
               \/ InviteDone(t) \/ (\E p \in Pages : Navigate(t, p))
      PROVE  AcceptInv'
  <2>1. Elsewhere(t) /\ call' = call
    BY <1>0, <1>7 DEF LoginRedirect, LayoutRedirect, BackToSignIn, GoToLogin, InviteDone,
                      LeaveInvite, Navigate, GoTo, requests, Elsewhere
  <2>2. route[t] # "invite" \/ step[t] # "set-password"
    BY <1>7 DEF LoginRedirect, LayoutRedirect, BackToSignIn, GoToLogin, InviteDone, Navigate,
                Pages, LoginFormShown
  <2>3. call[t].kind # "accept"
    BY <2>2 DEF AcceptInv
  <2>. QED  BY <2>1, <2>3, AcceptKept
<1>8. ASSUME NEW t \in Tabs, NEW tok \in 0..MaxSessions,
             RestoreSession(t, tok) \/ CheckRefused(t, tok) \/ CheckLost(t, tok)
      PROVE  AcceptInv'
  <2>1. UNCHANGED <<query, call, step>> /\ Elsewhere(t)
    BY <1>0, <1>8 DEF RestoreSession, CheckRefused, CheckLost, requests, Elsewhere
  <2>2. route[t] = "invite" => route'[t] = "invite"
    BY <1>0, <1>8 DEF RestoreSession, CheckRefused, CheckLost, PublicPaths
  <2>. QED  BY <2>1, <2>2, AcceptKept DEF AcceptInv
<1>9. ASSUME NEW t \in Tabs, NEW q \in Slots, RotateRefresh(t, q)
      PROVE  UNCHANGED <<query, call, route, step>>
  BY <1>9 DEF RotateRefresh
<1>10. ASSUME AccessExpires \/ SessionEnds \/ UNCHANGED vars
       PROVE  UNCHANGED <<query, call, route, step>>
  BY <1>10 DEF AccessExpires, SessionEnds, requests, vars
<1>11. CASE Choice
  BY <1>11, <1>1, <1>2, <1>3, <1>4, <1>5, <1>6, <1>7, <1>8, <1>10 DEF Choice
<1>12. CASE \E t \in Tabs : TabProgress(t)
  BY <1>12, <1>6, <1>7, <1>8 DEF TabProgress, Rerenders, CallProgress, CheckProgress
<1>13. CASE \E t \in Tabs, q \in Slots : SlotProgress(t, q) \/ SendQuery(t, q)
  BY <1>13, <1>1, <1>2, <1>3, <1>9 DEF SlotProgress
<1>. QED  BY <1>1, <1>10, <1>11, <1>12, <1>13 DEF Next

\* A step that no one who waits for a refresh, and no refresh, can tell from none.
Calm ==
  /\ \A t \in Tabs, q \in Slots : query'[t][q].st = "waiting" <=> query[t][q].st = "waiting"
  /\ \A t \in Tabs, q \in Slots : refresh'[t][q].st # None <=> refresh[t][q].st # None
  /\ refreshing' = refreshing

\* A denied query that is not yet retried: it waits.
Waits(t, q) == ~query[t][q].retried /\ Denied(t, q)

\* The end of a refresh, however it ends.
Ends(t, q) == Refreshed(t, q) \/ RefreshFailed(t, q) \/ RefreshLost(t, q)

\* A query that takes a free slot, or leaves one, was not waiting and is not.
LEMMA CalmQuery ==
  ASSUME TypeOK, NEW t \in Tabs, NEW q \in Slots, NEW cell,
         cell.st # "waiting", query[t][q].st # "waiting",
         query' = [query EXCEPT ![t][q] = cell], UNCHANGED <<refresh, refreshing>>
  PROVE  Calm
BY DEF TypeOK, Calm

\* What a step can do to those who wait.
LEMMA WaitSteps ==
  ASSUME TypeOK, AcceptInv, [Next]_vars
  PROVE  \/ Calm
         \/ \E t \in Tabs, q \in Slots : Waits(t, q) \/ Ends(t, q)
         \/ \E t \in Tabs, p \in PublicPaths \cup Pages : Load(t, p)
<1>0. /\ query \in [Tabs -> [Slots -> Query]] /\ refresh \in [Tabs -> [Slots -> Refresh]]
  BY DEF TypeOK
<1>1. ASSUME UNCHANGED <<query, refresh, refreshing>> PROVE Calm
  BY <1>1 DEF Calm
<1>2. ASSUME NEW t \in Tabs, NEW q \in Slots, NEW purpose, Send(t, q, purpose) PROVE Calm
  <2>. DEFINE cell == [st |-> "sent", tok |-> jar.access, retried |-> FALSE, purpose |-> purpose]
  <2>1. query[t][q].st # "waiting" /\ cell.st # "waiting"
    BY <1>2 DEF Send
  <2>2. query' = [query EXCEPT ![t][q] = cell] /\ UNCHANGED <<refresh, refreshing>>
    BY <1>2 DEF Send
  <2>. HIDE DEF cell
  <2>. QED  BY <2>1, <2>2, CalmQuery
<1>3. ASSUME NEW t \in Tabs, NEW q \in Slots,
             Answered(t, q) \/ Refused(t, q) \/ (Denied(t, q) /\ query[t][q].retried)
      PROVE  Calm
  <2>1. query[t][q].st # "waiting" /\ Idle.st # "waiting"
    BY <1>3 DEF Answered, Refused, Denied, Idle
  <2>2. query' = [query EXCEPT ![t][q] = Idle] /\ UNCHANGED <<refresh, refreshing>>
    BY <1>3 DEF Answered, Refused, Denied
  <2>. QED  BY <2>1, <2>2, CalmQuery
<1>4. ASSUME NEW t \in Tabs, InviteAccepted(t) PROVE Calm
  <2>. DEFINE cell == [st |-> "sent", tok |-> issued + 1, retried |-> FALSE, purpose |-> "mfasetup"]
  <2>1. PICK q \in Slots : query' = [query EXCEPT ![t][q] = cell]
    BY <1>4 DEF InviteAccepted
  <2>2. query[t][q].st # "waiting" /\ cell.st # "waiting"
    BY <1>4 DEF InviteAccepted, AcceptInv, Idle
  <2>3. UNCHANGED <<refresh, refreshing>>
    BY <1>4 DEF InviteAccepted
  <2>. HIDE DEF cell
  <2>. QED  BY <2>1, <2>2, <2>3, CalmQuery
<1>5. ASSUME NEW t \in Tabs, NEW q \in Slots, RotateRefresh(t, q) PROVE Calm
  <2>1. query' = query /\ refreshing' = refreshing
    BY <1>5 DEF RotateRefresh
  <2>2. \A u \in Tabs, p \in Slots : refresh'[u][p].st # None <=> refresh[u][p].st # None
    BY <1>0, <1>5 DEF RotateRefresh, Refresh, None
  <2>. QED  BY <2>1, <2>2 DEF Calm
<1>6. ASSUME NEW t \in Tabs,
             SubmitLogin(t) \/ SubmitSsoCode(t) \/ SetPassword(t) \/ Logout(t) \/ BackToSignIn(t)
               \/ GoToLogin(t) \/ InviteDone(t) \/ LoginRedirect(t) \/ LayoutRedirect(t)
               \/ (\E tok \in 0..MaxSessions :
                     RestoreSession(t, tok) \/ CheckRefused(t, tok) \/ CheckLost(t, tok))
               \/ SignedIn(t) \/ NotSignedIn(t) \/ LogoutDone(t) \/ InviteChecked(t)
               \/ InviteRefused(t) \/ (\E p \in Pages : Navigate(t, p))
      PROVE  Calm
  <2>1. UNCHANGED requests
    BY <1>6 DEF SubmitLogin, SubmitSsoCode, SetPassword, Logout, Call, BackToSignIn, GoToLogin,
                InviteDone, LeaveInvite, LoginRedirect, LayoutRedirect, RestoreSession, CheckRefused,
                CheckLost, SignedIn, NotSignedIn, LogoutDone, InviteChecked, InviteRefused, Navigate
  <2>. QED  BY <2>1, <1>1 DEF requests
<1>7. ASSUME AccessExpires \/ SessionEnds \/ UNCHANGED vars PROVE Calm
  BY <1>1, <1>7 DEF AccessExpires, SessionEnds, vars, requests
<1>8. ASSUME NEW t \in Tabs, NEW q \in Slots, SendQuery(t, q) \/ ChangeCredential(t, q) PROVE Calm
  <2>1. CASE SendQuery(t, q)
    BY <1>2, <2>1 DEF SendQuery
  <2>2. CASE ChangeCredential(t, q)
    BY <1>2, <2>2 DEF ChangeCredential
  <2>. QED  BY <1>8, <2>1, <2>2
<1>9. ASSUME NEW t \in Tabs, NEW q \in Slots, SlotProgress(t, q)
      PROVE  Calm \/ Waits(t, q) \/ Ends(t, q)
  <2>1. CASE Denied(t, q)
    BY <2>1, <1>3 DEF Waits
  <2>2. ASSUME Answered(t, q) PROVE Calm
    BY <2>2, <1>3
  <2>3. CASE RotateRefresh(t, q)
    BY <2>3, <1>5
  <2>. QED  BY <1>9, <2>1, <2>2, <2>3 DEF SlotProgress, Ends
<1>10. ASSUME NEW t \in Tabs, TabProgress(t) PROVE Calm
  BY <1>4, <1>6, <1>10 DEF TabProgress, Rerenders, CallProgress, CheckProgress
<1>11. CASE Choice
  <2>1. CASE AccessExpires \/ SessionEnds
    BY <2>1, <1>7
  <2>2. ASSUME NEW t \in Tabs, NEW q \in Slots, RefreshLost(t, q) PROVE Ends(t, q)
    BY <2>2 DEF Ends
  <2>3. ASSUME NEW t \in Tabs, NEW q \in Slots, Refused(t, q) PROVE Calm
    BY <2>3, <1>3
  <2>4. ASSUME NEW t \in Tabs,
               \/ \E p \in Pages : Navigate(t, p)
               \/ \E tok \in 0..MaxSessions : CheckLost(t, tok)
               \/ SubmitLogin(t) \/ SubmitSsoCode(t) \/ BackToSignIn(t) \/ Logout(t)
               \/ SetPassword(t) \/ GoToLogin(t)
        PROVE  Calm
    BY <2>4, <1>6
  <2>. QED  BY <1>11, <2>1, <2>2, <2>3, <2>4, <1>8 DEF Choice
<1>. QED  BY <1>7, <1>8, <1>9, <1>10, <1>11 DEF Next

\* The end of a refresh leaves nobody of its tab behind.
LEMMA EndsAll ==
  ASSUME TypeOK, FlightInv, NEW t \in Tabs,
         \/ \E q \in Slots : Ends(t, q)
         \/ \E p \in PublicPaths \cup Pages : Load(t, p)
  PROVE  /\ refreshing'[t] = None
         /\ \A q \in Slots : refresh'[t][q].st = None /\ query'[t][q].st # "waiting"
         /\ \A u \in Tabs \ {t} :
              query'[u] = query[u] /\ refresh'[u] = refresh[u] /\ refreshing'[u] = refreshing[u]
<1>0. /\ query \in [Tabs -> [Slots -> Query]] /\ refresh \in [Tabs -> [Slots -> Refresh]]
      /\ refreshing \in [Tabs -> Slots \cup {None}]
  BY DEF TypeOK
<1>1. ASSUME NEW p \in PublicPaths \cup Pages, Load(t, p)
      PROVE  /\ refreshing'[t] = None
             /\ \A q \in Slots : refresh'[t][q].st = None /\ query'[t][q].st # "waiting"
             /\ \A u \in Tabs \ {t} :
                  query'[u] = query[u] /\ refresh'[u] = refresh[u] /\ refreshing'[u] = refreshing[u]
  BY <1>0, <1>1 DEF Load, NoRefresh, Idle
<1>2. ASSUME NEW q \in Slots, Ends(t, q)
      PROVE  /\ refreshing'[t] = None
             /\ \A p \in Slots : refresh'[t][p].st = None /\ query'[t][p].st # "waiting"
             /\ \A u \in Tabs \ {t} :
                  query'[u] = query[u] /\ refresh'[u] = refresh[u] /\ refreshing'[u] = refreshing[u]
  <2>1. refresh[t][q].st # None
    BY <1>2 DEF Ends, Refreshed, RefreshFailed, RefreshLost, None
  <2>2. \A p \in Slots \ {q} : refresh[t][p].st = None
    BY <2>1 DEF FlightInv, OneRefreshPerTab
  <2>3. /\ refresh' = [refresh EXCEPT ![t][q] = NoRefresh]
        /\ refreshing' = [refreshing EXCEPT ![t] = None]
    BY <1>2, Zenon DEF Ends, Refreshed, RefreshFailed, RefreshLost, SettleRefresh
  <2>4. PICK resumed \in [Slots -> Query] :
          /\ \A p \in Slots : resumed[p].st # "waiting"
          /\ query' = [query EXCEPT ![t] = [p \in Slots |->
               IF query[t][p].st = "waiting" THEN resumed[p] ELSE query[t][p]]]
    <3>1. CASE Refreshed(t, q)
      <4>. DEFINE sent == [p \in Slots |->
                    [query[t][p] EXCEPT !.st = "sent", !.tok = refresh[t][q].sid]]
      <4>1. sent \in [Slots -> Query] /\ \A p \in Slots : sent[p].st # "waiting"
        <5>1. refresh[t][q].sid \in 0..MaxSessions
          BY <1>0 DEF Refresh
        <5>2. ASSUME NEW p \in Slots
              PROVE  /\ [query[t][p] EXCEPT !.st = "sent", !.tok = refresh[t][q].sid] \in Query
                     /\ [query[t][p] EXCEPT !.st = "sent", !.tok = refresh[t][q].sid].st = "sent"
          <6>1. query[t][p] \in Query
            BY <1>0
          <6>. QED  BY <5>1, <6>1 DEF Query
        <5>. QED  BY <5>2, Zenon
      <4>2. query' = [query EXCEPT ![t] = [p \in Slots |->
               IF query[t][p].st = "waiting" THEN sent[p] ELSE query[t][p]]]
        BY <3>1 DEF Refreshed, SettleRefresh
      <4>. QED  BY <4>1, <4>2
    <3>2. CASE RefreshFailed(t, q) \/ RefreshLost(t, q)
      <4>. DEFINE idle == [p \in Slots |-> Idle]
      <4>1. idle \in [Slots -> Query] /\ \A p \in Slots : idle[p].st # "waiting"
        BY DEF Query, Idle, NoSession
      <4>2. query' = [query EXCEPT ![t] = [p \in Slots |->
               IF query[t][p].st = "waiting" THEN idle[p] ELSE query[t][p]]]
        BY <3>2 DEF RefreshFailed, RefreshLost, SettleRefresh
      <4>. QED  BY <4>1, <4>2
    <3>. QED  BY <1>2, <3>1, <3>2 DEF Ends
  <2>5. \A p \in Slots : query'[t][p].st # "waiting"
    BY <1>0, <2>4
  <2>6. \A p \in Slots : refresh'[t][p].st = None
    BY <1>0, <2>2, <2>3 DEF NoRefresh
  <2>. QED  BY <1>0, <2>3, <2>4, <2>5, <2>6
<1>. QED  BY <1>1, <1>2

\* A query that waits is the first one, and starts the refresh, or joins it.
LEMMA WaitsOrStarts ==
  ASSUME TypeOK, FlightInv, NEW t \in Tabs, NEW q \in Slots, Waits(t, q)
  PROVE  /\ query[t][q].st = "sent" /\ query'[t][q].st = "waiting"
         /\ \A u \in Tabs, p \in Slots : u # t \/ p # q => query'[u][p] = query[u][p]
         /\ \/ refreshing[t] # None /\ UNCHANGED <<refresh, refreshing>>
            \/ /\ \A p \in Slots : refresh[t][p].st = None
               /\ refreshing' = [refreshing EXCEPT ![t] = q]
               /\ refresh'[t][q].st = "sent"
               /\ \A u \in Tabs, p \in Slots : u # t \/ p # q => refresh'[u][p] = refresh[u][p]
<1>0. /\ query \in [Tabs -> [Slots -> Query]] /\ refresh \in [Tabs -> [Slots -> Refresh]]
  BY DEF TypeOK
<1>1. query[t][q].st = "sent"
      /\ query' = [query EXCEPT ![t][q].st = "waiting", ![t][q].retried = TRUE]
  BY DEF Waits, Denied
<1>2. query'[t][q].st = "waiting"
      /\ \A u \in Tabs, p \in Slots : u # t \/ p # q => query'[u][p] = query[u][p]
  BY <1>0, <1>1 DEF Query
<1>3. CASE refreshing[t] # None
  BY <1>1, <1>2, <1>3 DEF Waits, Denied, TryRefresh
<1>4. CASE refreshing[t] = None
  <2>1. /\ refresh' = [refresh EXCEPT ![t][q] =
              [st |-> "sent", sid |-> jar.sid, current |-> jar.current]]
        /\ refreshing' = [refreshing EXCEPT ![t] = q]
    BY <1>4 DEF Waits, Denied, TryRefresh
  <2>2. \A p \in Slots : refresh[t][p].st = None
    BY <1>4 DEF FlightInv, OneRefreshPerTab
  <2>3. refresh'[t][q].st = "sent"
        /\ \A u \in Tabs, p \in Slots : u # t \/ p # q => refresh'[u][p] = refresh[u][p]
    BY <1>0, <2>1
  <2>. QED  BY <1>1, <1>2, <2>1, <2>2, <2>3
<1>. QED  BY <1>3, <1>4

LEMMA FlightStep ==
  ASSUME TypeOK, AcceptInv, FlightInv, [Next]_vars
  PROVE  FlightInv'
<1>0. refreshing \in [Tabs -> Slots \cup {None}]
  BY DEF TypeOK
<1>1. CASE Calm
  BY <1>0, <1>1 DEF Calm, FlightInv, OneRefreshPerTab
<1>2. ASSUME NEW t \in Tabs, NEW q \in Slots, Waits(t, q) PROVE FlightInv'
  <2>1. CASE refreshing[t] # None /\ UNCHANGED <<refresh, refreshing>>
    BY <1>2, <2>1, WaitsOrStarts DEF FlightInv, OneRefreshPerTab
  <2>2. CASE ~(refreshing[t] # None /\ UNCHANGED <<refresh, refreshing>>)
    <3>1. /\ \A p \in Slots : refresh[t][p].st = None
          /\ refreshing' = [refreshing EXCEPT ![t] = q] /\ refresh'[t][q].st = "sent"
          /\ \A u \in Tabs, p \in Slots : u # t \/ p # q => refresh'[u][p] = refresh[u][p]
      BY <1>2, <2>2, WaitsOrStarts
    <3>2. refreshing'[t] = q /\ \A u \in Tabs \ {t} : refreshing'[u] = refreshing[u]
      BY <1>0, <3>1
    <3>3. OneRefreshPerTab'
      BY <3>1, <3>2 DEF FlightInv, OneRefreshPerTab
    <3>4. \A u \in Tabs : refreshing'[u] # None => refresh'[u][refreshing'[u]].st # None
      BY <1>0, <3>1, <3>2 DEF FlightInv, None
    <3>5. \A u \in Tabs, p \in Slots : query'[u][p].st = "waiting" => refreshing'[u] # None
      BY <1>2, <3>2, WaitsOrStarts DEF FlightInv
    <3>. QED  BY <3>3, <3>4, <3>5 DEF FlightInv
  <2>. QED  BY <2>1, <2>2
<1>3. ASSUME NEW t \in Tabs,
             \/ \E q \in Slots : Ends(t, q)
             \/ \E p \in PublicPaths \cup Pages : Load(t, p)
      PROVE  FlightInv'
  BY <1>3, EndsAll DEF FlightInv, OneRefreshPerTab
<1>. QED  BY <1>1, <1>2, <1>3, WaitSteps

\* Every step is one of SingleFlight, or nothing it can see.
LEMMA FlightMaps ==
  ASSUME TypeOK, AcceptInv, FlightInv, [Next]_vars
  PROVE  [Shared!Next]_Shared!vars
<1>. USE DEF Waiting, InFlight, Shared!vars
<1>1. CASE Calm
  <2>1. Waiting' = Waiting /\ InFlight' = InFlight
    BY <1>1 DEF Calm
  <2>. QED  BY <2>1
<1>2. ASSUME NEW t \in Tabs, NEW q \in Slots, Waits(t, q) PROVE Shared!Next
  <2>1. q \notin Waiting[t] /\ Waiting' = [Waiting EXCEPT ![t] = @ \cup {q}]
    <3>1. q \notin Waiting[t]
      BY <1>2, WaitsOrStarts
    <3>2. Waiting'[t] = Waiting[t] \cup {q}
      BY <1>2, WaitsOrStarts
    <3>3. \A u \in Tabs \ {t} : Waiting'[u] = Waiting[u]
      BY <1>2, WaitsOrStarts
    <3>. QED  BY <3>1, <3>2, <3>3
  <2>2. InFlight' = [InFlight EXCEPT ![t] = IF @ = {} THEN {q} ELSE @]
    <3>1. CASE refreshing[t] # None /\ UNCHANGED <<refresh, refreshing>>
      <4>1. refreshing[t] \in InFlight[t]
        BY <3>1 DEF FlightInv, TypeOK
      <4>. QED  BY <3>1, <4>1
    <3>2. CASE ~(refreshing[t] # None /\ UNCHANGED <<refresh, refreshing>>)
      <4>1. InFlight[t] = {}
        BY <1>2, <3>2, WaitsOrStarts
      <4>2. InFlight'[t] = {q} /\ \A u \in Tabs \ {t} : InFlight'[u] = InFlight[u]
        BY <1>2, <3>2, WaitsOrStarts DEF None
      <4>. QED  BY <4>1, <4>2
    <3>. QED  BY <3>1, <3>2
  <2>. QED  BY <2>1, <2>2 DEF Shared!Next, Shared!Join
<1>3. ASSUME NEW t \in Tabs,
             \/ \E q \in Slots : Ends(t, q)
             \/ \E p \in PublicPaths \cup Pages : Load(t, p)
      PROVE  [Shared!Next]_Shared!vars
  <2>1. Waiting' = [Waiting EXCEPT ![t] = {}] /\ InFlight' = [InFlight EXCEPT ![t] = {}]
    <3>1. Waiting'[t] = {} /\ InFlight'[t] = {}
      BY <1>3, EndsAll
    <3>2. \A u \in Tabs \ {t} : Waiting'[u] = Waiting[u] /\ InFlight'[u] = InFlight[u]
      BY <1>3, EndsAll
    <3>. QED  BY <3>1, <3>2
  <2>2. CASE InFlight[t] # {}
    BY <2>1, <2>2 DEF Shared!Next, Shared!Settle
  <2>3. CASE InFlight[t] = {}
    <3>1. refreshing[t] = None
      BY <2>3 DEF FlightInv, TypeOK
    <3>2. Waiting[t] = {}
      BY <3>1 DEF FlightInv
    <3>. QED  BY <2>1, <2>3, <3>2
  <2>. QED  BY <2>2, <2>3
<1>. QED  BY <1>1, <1>2, <1>3, WaitSteps

\* However many queries of however many tabs are denied, in whatever order: those of a
\* tab share one refresh, whose end, of whatever kind, lets all of them go on (the
\* response interceptor and tryRefresh of api/client.ts).
THEOREM RefreshIsShared == Spec => SharesOneRefresh
<1>1. Init => AcceptInv /\ FlightInv
  BY DEF Init, AcceptInv, FlightInv, OneRefreshPerTab, NoRefresh, NoCall, Idle, None
<1>2. Init => Shared!Init
  BY DEF Init, Shared!Init, Waiting, InFlight, NoRefresh, Idle
<1>. QED
  BY <1>1, <1>2, AcceptStep, FlightStep, FlightMaps, TypeCorrect, PTL
  DEF Spec, SharesOneRefresh, Shared!Spec

=============================================================================
