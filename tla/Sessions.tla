------------------------------ MODULE Sessions -----------------------------
(***************************************************************************)
(* Sessions: the tabs of one browser, which share its localStorage, the    *)
(* log in by password and through Cognito, and the users table that a log  *)
(* in through Cognito keeps in step with the groups of its directory.      *)
(*                                                                         *)
(* A session is a user and the role that was answered with its token,      *)
(* which only names the user.  Email, password, code and redirect URI are  *)
(* that user; the history buttons of the browser are left out.             *)
(***************************************************************************)
EXTENDS Integers, FiniteSets

CONSTANTS
  Users,        \* emails
  Tabs,         \* tabs of the browser
  NoUser,       \* no session
  NoTab,        \* a document that is gone
  App,          \* the routes behind RequireAuth
  Seeded,       \* the users that have a row from the start
  GroupSets,    \* what the directory may say of a user
  Providers,    \* AUTH_PROVIDER, and whether Cognito is configured
  MaxLogins,    \* bound: log ins
  MaxChanges,   \* bound: changes of groups
  MaxFaults     \* bound: calls that fail

ASSUME SessionsAssumption ==
  /\ NoUser \notin Users /\ NoTab \notin Tabs /\ Seeded \subseteq Users
  /\ "tickets" \in App /\ App \subseteq {"tickets", "sla", "reports"}
  /\ GroupSets \subseteq SUBSET {"agente", "administrador", "otro"}
  /\ Providers \subseteq [provider : {"mock", "cognito"}, cognito : BOOLEAN]
  /\ MaxLogins \in Nat /\ MaxChanges \in Nat /\ MaxFaults \in Nat

VARIABLES
  accounts,   \* users table: the role of a user, or "none" without a row
  groups,     \* the groups of a user in Cognito
  server,     \* AUTH_PROVIDER and the Cognito configuration of the API
  storage,    \* the session in localStorage
  tab,        \* the state of every tab
  logins,     \* log ins, by number
  used,       \* the log ins so far
  call,       \* the other call a tab has under way
  issued,     \* the role in the newest ID token of a user
  crossed,    \* tokens of a user were held by two log ins, or lost
  changes,    \* changes of groups so far
  faults      \* failures so far

vars == <<accounts, groups, server, storage, tab, logins, used, call, issued,
          crossed, changes, faults>>

Roles == {"reportante", "agente", "administrador"}
Paths == App \cup {"login", "callback"}

NoSession == [user |-> NoUser, role |-> "reportante"]
SessionType == [user : Users \cup {NoUser}, role : Roles]

(* What RequireRole asks of the roles of a session. *)
RolesOf(path) ==
  CASE path = "sla"     -> {"agente", "administrador"}
    [] path = "reports" -> {"administrador"}
    [] OTHER            -> Roles

mapGroupsToRole(list) ==
  IF "administrador" \in list THEN "administrador"
  ELSE IF "agente" \in list THEN "agente" ELSE "reportante"

(* What a document holds, a log in, and a call. *)
TabType ==
  [path : Paths, from : Paths, session : SessionType, behind : BOOLEAN]

LoginType ==
  [pc : {"unused", "sent", "token", "ok", "refused", "over"},
   kind : {"password", "exchange"}, tab : Tabs \cup {NoTab},
   user : Users \cup {NoUser}, role : Roles]

CallType ==
  [on : BOOLEAN, user : Users \cup {NoUser}, code : {0, 200, 401},
   download : BOOLEAN]

NoLogin == [pc |-> "unused", kind |-> "password", tab |-> NoTab,
            user |-> NoUser, role |-> "reportante"]

NoCall == [on |-> FALSE, user |-> NoUser, code |-> 0, download |-> FALSE]

(* A document just loaded: AuthProvider takes the session of localStorage. *)
Loaded(path) ==
  [path |-> path, from |-> "tickets", session |-> storage, behind |-> FALSE]

Init ==
  /\ server \in Providers
  /\ groups \in [Users -> GroupSets]
  /\ accounts = [u \in Users |->
       IF u \in Seeded THEN mapGroupsToRole(groups[u]) ELSE "none"]
  /\ storage = NoSession
  /\ tab = [t \in Tabs |->
       [path |-> "login", from |-> "tickets", session |-> NoSession,
        behind |-> FALSE]]
  /\ logins = [l \in 1 .. MaxLogins |-> NoLogin]
  /\ used = 0
  /\ call = [t \in Tabs |-> NoCall]
  /\ issued = accounts
  /\ crossed = [u \in Users |-> FALSE]
  /\ changes = 0 /\ faults = 0

directory == <<groups, server, issued, crossed, changes>>
browser == <<storage, tab, call>>

-----------------------------------------------------------------------------
(* Documents and routes *)

(* The log in whose answer the page waits for. *)
Waiting(t) == \E l \in 1 .. MaxLogins : logins[l].tab = t

SignedIn(t) == tab[t].session # NoSession

(* A page the routes lead away from. *)
Misplaced(t) ==
  \/ tab[t].path \in App /\ ~SignedIn(t)
  \/ SignedIn(t) /\ tab[t].session.role \notin RolesOf(tab[t].path)
  \/ tab[t].path = "login" /\ SignedIn(t)

(* RequireAuth, LoginPage and RequireRole, each by a Navigate. *)
Redirect(t) ==
  /\ Misplaced(t)
  /\ tab' = [tab EXCEPT ![t] =
       IF ~SignedIn(t) THEN [@ EXCEPT !.path = "login", !.from = tab[t].path]
       ELSE [@ EXCEPT !.path =
               IF tab[t].path = "login" THEN tab[t].from ELSE "tickets"]]
  /\ UNCHANGED <<accounts, directory, storage, call, logins, used, faults>>

(* The items of the side bar. *)
GoTo(t, path) ==
  /\ tab[t].path \in App /\ ~Misplaced(t)
  /\ path # tab[t].path /\ tab[t].session.role \in RolesOf(path)
  /\ tab' = [tab EXCEPT ![t].path = path]
  /\ UNCHANGED <<accounts, directory, storage, call, logins, used, faults>>

(* Nobody waits for the answers to a document that is gone. *)
Forgotten(t) ==
  [l \in 1 .. MaxLogins |->
     IF logins[l].tab = t THEN [logins[l] EXCEPT !.tab = NoTab] ELSE logins[l]]

(* An address is typed, or the page reloaded. *)
Load(t, path) ==
  /\ tab' = [tab EXCEPT ![t] = Loaded(path)]
  /\ logins' = Forgotten(t)
  /\ call' = [call EXCEPT ![t] = NoCall]
  /\ UNCHANGED <<accounts, directory, storage, used, faults>>

(* A tab writes localStorage, and the other tabs go on with what they had. *)
Write(t, session, state) ==
  /\ storage' = session
  /\ tab' = [o \in Tabs |->
       IF o = t THEN state
       ELSE [tab[o] EXCEPT !.behind = @ \/ tab[o].session # NoSession]]

-----------------------------------------------------------------------------
(* Log in *)

Begin(t, u, kind) ==
  /\ used < MaxLogins /\ used' = used + 1
  /\ logins' = [Forgotten(t) EXCEPT ![used + 1] =
       [NoLogin EXCEPT !.pc = "sent", !.kind = kind, !.tab = t, !.user = u]]

(* The button of LoginPage, once GET /auth/config has answered. *)
SsoOffered == server.cognito

(* handleSubmit: not while one is under way.  The form is also on show in  *)
(* front of an API that refuses it, until GET /auth/config has answered.   *)
HandleSubmit(t, u) ==
  /\ tab[t].path = "login" /\ ~SignedIn(t) /\ ~Waiting(t)
  /\ Begin(t, u, "password")
  /\ UNCHANGED <<accounts, directory, browser, faults>>

(* The user comes back from Cognito with a code, which is sent at once. *)
Callback(t, u) ==
  /\ tab[t].path = "login" /\ ~SignedIn(t) /\ SsoOffered
  /\ Begin(t, u, "exchange")
  /\ tab' = [tab EXCEPT ![t] = Loaded("callback")]
  /\ call' = [call EXCEPT ![t] = NoCall]
  /\ UNCHANGED <<accounts, directory, storage, faults>>

(* The user comes back with an error. *)
CallbackWithError(t) ==
  /\ tab[t].path = "login" /\ ~SignedIn(t) /\ SsoOffered
  /\ Load(t, "callback")

BackToLogin(t) ==
  /\ tab[t].path = "callback" /\ ~Waiting(t)
  /\ tab' = [tab EXCEPT ![t].path = "login"]
  /\ UNCHANGED <<accounts, directory, storage, call, logins, used, faults>>

At(l, pc) == logins[l].pc = pc

Refuse(l) == logins' = [logins EXCEPT ![l].pc = "refused"]
Fault == faults < MaxFaults /\ faults' = faults + 1

(* AuthController.login: no other row is read, and none is written. *)
ServeLogin(l) ==
  LET u == logins[l].user
  IN /\ At(l, "sent") /\ logins[l].kind = "password"
     /\ IF server.provider = "cognito" \/ accounts[u] = "none" THEN Refuse(l)
        ELSE logins' =
               [logins EXCEPT ![l] = [@ EXCEPT !.pc = "ok", !.role = accounts[u]]]
     /\ UNCHANGED <<accounts, directory, browser, used, faults>>

Holds(u) == {l \in 1 .. MaxLogins : At(l, "token") /\ logins[l].user = u}

(* fetchIdToken: Cognito issues a token with the groups of this moment. *)
FetchIdToken(l) ==
  LET u == logins[l].user
      role == mapGroupsToRole(groups[u])
  IN /\ At(l, "sent") /\ logins[l].kind = "exchange" /\ server.cognito
     /\ logins' =
          [logins EXCEPT ![l] = [@ EXCEPT !.pc = "token", !.role = role]]
     /\ issued' = [issued EXCEPT ![u] = role]
     /\ crossed' = [crossed EXCEPT ![u] = Holds(u) # {}]
     /\ UNCHANGED <<accounts, groups, server, changes, browser, used, faults>>

(* An upsert that only creates. *)
UpsertByEmailOnce(l) ==
  LET u == logins[l].user
  IN /\ At(l, "token")
     /\ accounts' = [accounts EXCEPT ![u] =
                       IF @ = "none" THEN logins[l].role ELSE @]
     /\ logins' = [logins EXCEPT ![l].pc = "ok"]
     /\ UNCHANGED <<directory, browser, used, faults>>

(* upsertByEmail: one statement, INSERT ... ON CONFLICT. *)
UpsertByEmail(l) ==
  LET u == logins[l].user
  IN /\ At(l, "token")
     /\ accounts' = [accounts EXCEPT ![u] = logins[l].role]
     /\ logins' = [logins EXCEPT ![l].pc = "ok"]
     /\ UNCHANGED <<directory, browser, used, faults>>

(* Any step of a log in fails; the row may have been written. *)
LoginFails(l) ==
  LET u == logins[l].user
  IN /\ At(l, "sent") \/ At(l, "token")
     /\ Fault
     /\ Refuse(l)
     /\ \/ At(l, "token") /\ accounts' = [accounts EXCEPT ![u] = logins[l].role]
        \/ UNCHANGED accounts
     /\ crossed' = [crossed EXCEPT ![u] = @ \/ At(l, "token")]
     /\ UNCHANGED <<groups, server, issued, changes, browser, used>>

Over(l) == logins' = [logins EXCEPT ![l] = [NoLogin EXCEPT !.pc = "over"]]

(* setSession without localStorage. *)
SignsInHere(l) ==
  LET t == logins[l].tab
      session == [user |-> logins[l].user, role |-> logins[l].role]
  IN /\ At(l, "ok") /\ t # NoTab
     /\ Write(t, storage,
          [tab[t] EXCEPT !.session = session, !.behind = FALSE, !.path =
             IF logins[l].kind = "password" THEN tab[t].from ELSE "tickets"])
     /\ Over(l)
     /\ UNCHANGED <<accounts, directory, call, used, faults>>

(* setSession and navigate. *)
SignsIn(l) ==
  LET t == logins[l].tab
      session == [user |-> logins[l].user, role |-> logins[l].role]
  IN /\ At(l, "ok") /\ t # NoTab
     /\ Write(t, session,
          [tab[t] EXCEPT !.session = session, !.behind = FALSE, !.path =
             IF logins[l].kind = "password" THEN tab[t].from ELSE "tickets"])
     /\ Over(l)
     /\ UNCHANGED <<accounts, directory, call, used, faults>>

(* An error on the page, or an answer nobody waits for. *)
LoginEnds(l) ==
  /\ At(l, "refused") \/ (At(l, "ok") /\ logins[l].tab = NoTab)
  /\ Over(l)
  /\ UNCHANGED <<accounts, directory, browser, used, faults>>

-----------------------------------------------------------------------------
(* The session in use *)

(* handleLogout of the top bar. *)
Logout(t) ==
  /\ tab[t].path \in App /\ ~Misplaced(t)
  /\ Write(t, NoSession,
       [tab[t] EXCEPT !.session = NoSession, !.behind = FALSE, !.path = "login",
                      !.from = "tickets"])
  /\ UNCHANGED <<accounts, directory, call, logins, used, faults>>

(* A page calls the API: the token is the one in localStorage by now. *)
Call(t) ==
  /\ tab[t].path \in App /\ ~Misplaced(t) /\ ~call[t].on
  /\ call' = [call EXCEPT ![t] =
       [on |-> TRUE, user |-> storage.user, code |-> 0, download |-> FALSE]]
  /\ UNCHANGED <<accounts, directory, storage, tab, logins, used, faults>>

(* handleDownloadCsv: a fetch of its own, with the token of the tab.       *)
Download(t) ==
  /\ tab[t].path = "reports" /\ ~Misplaced(t) /\ ~call[t].on
  /\ call' = [call EXCEPT ![t] =
       [on |-> TRUE, user |-> tab[t].session.user, code |-> 0, download |-> TRUE]]
  /\ UNCHANGED <<accounts, directory, storage, tab, logins, used, faults>>

(* JwtAuthGuard: 401 without a token, or with one that names no row; 200  *)
(* stands for any other answer, and for none.                              *)
ServeCall(t) ==
  LET u == call[t].user
  IN /\ call[t].on /\ call[t].code = 0
     /\ call' = [call EXCEPT ![t].code =
          IF u = NoUser THEN 401 ELSE IF accounts[u] = "none" THEN 401 ELSE 200]
     /\ UNCHANGED <<accounts, directory, storage, tab, logins, used, faults>>

(* Whatever was answered but a 401 leaves the session alone, and a refused *)
(* download does, too. *)
CallArrives(t) ==
  /\ call[t].code = 200 \/ (call[t].code = 401 /\ call[t].download)
  /\ call' = [call EXCEPT ![t] = NoCall]
  /\ UNCHANGED <<accounts, directory, storage, tab, logins, used, faults>>

(* clearSession and no more. *)
UnauthorizedStays(t) ==
  /\ call[t].code = 401 /\ ~call[t].download
  /\ Write(t, NoSession, tab[t])
  /\ call' = [call EXCEPT ![t] = NoCall]
  /\ UNCHANGED <<accounts, directory, logins, used, faults>>

(* A 401 clears the session, whichever it is by now, and loads the log in  *)
(* unless it is on show.                                                   *)
Unauthorized(t) ==
  /\ call[t].code = 401 /\ ~call[t].download
  /\ call' = [call EXCEPT ![t] = NoCall]
  /\ IF tab[t].path = "login"
     THEN Write(t, NoSession, tab[t]) /\ UNCHANGED logins
     ELSE /\ Write(t, NoSession, [Loaded("login") EXCEPT !.session = NoSession])
          /\ logins' = Forgotten(t)
  /\ UNCHANGED <<accounts, directory, used, faults>>

(* The directory is edited. *)
ChangeGroups(u) ==
  /\ changes < MaxChanges /\ changes' = changes + 1
  /\ \E list \in GroupSets \ {groups[u]} : groups' = [groups EXCEPT ![u] = list]
  /\ UNCHANGED <<accounts, server, issued, crossed, browser, logins, used, faults>>

-----------------------------------------------------------------------------
Route(t) ==
  \/ Redirect(t) \/ BackToLogin(t) \/ CallbackWithError(t)
  \/ \E path \in App : GoTo(t, path)
  \/ \E path \in App \cup {"login"} : Load(t, path)

Session(t) ==
  \/ Logout(t) \/ Call(t) \/ Download(t) \/ ServeCall(t) \/ CallArrives(t)
  \/ Unauthorized(t)
  \/ \E u \in Users : HandleSubmit(t, u) \/ Callback(t, u)

Answered(l) == SignsIn(l) \/ LoginEnds(l)

Login(l) ==
  ServeLogin(l) \/ FetchIdToken(l) \/ UpsertByEmail(l) \/ LoginFails(l) \/ Answered(l)

Next ==
  \/ \E t \in Tabs : Route(t) \/ Session(t)
  \/ \E l \in 1 .. MaxLogins : Login(l)
  \/ \E u \in Users : ChangeGroups(u)

Spec == Init /\ [][Next]_vars

(***************************************************************************)
(* What is asked of the scheduling: a Navigate that is rendered navigates, *)
(* calls are answered and answers handled, and the interval of the board   *)
(* goes off (SlaPage.tsx, 96-100).  Nothing is asked of the user.          *)
(***************************************************************************)
Interval(t) == tab[t].path = "sla" /\ Call(t)

GoesOn(t) ==
  Redirect(t) \/ Interval(t) \/ ServeCall(t) \/ CallArrives(t) \/ Unauthorized(t)

FairSpec ==
  /\ Spec
  /\ \A t \in Tabs : WF_vars(GoesOn(t))
  /\ \A l \in 1 .. MaxLogins : WF_vars(Login(l))

-----------------------------------------------------------------------------
(* Properties *)

(* The shape of every variable. *)
TypeOK ==
  /\ accounts \in [Users -> Roles \cup {"none"}]
  /\ groups \in [Users -> GroupSets]
  /\ server \in Providers
  /\ storage \in SessionType
  /\ tab \in [Tabs -> TabType]
  /\ logins \in [1 .. MaxLogins -> LoginType]
  /\ used \in 0 .. MaxLogins
  /\ call \in [Tabs -> CallType]
  /\ issued \in [Users -> Roles \cup {"none"}]
  /\ crossed \in [Users -> BOOLEAN]
  /\ changes \in Nat /\ faults \in Nat

(* The session a tab shows is the one its calls carry, until another tab   *)
(* logs in or out: late answers of log ins, 401s of calls sent under a     *)
(* former session, reloads and redirects never part the two.               *)
SessionsAgree ==
  \A t \in Tabs : SignedIn(t) /\ ~tab[t].behind => storage = tab[t].session

(* Once no log in of a user is between its ID token and the upsert, the    *)
(* role in the table is that of the newest token, unless two log ins held  *)
(* tokens of the user at once, or one of them failed (cognito.service.ts,  *)
(* 113-122: the last upsert wins, not the last token).                     *)
RolesFollowTheDirectory ==
  \A u \in Users : Holds(u) = {} /\ ~crossed[u] => accounts[u] = issued[u]

(* The board is on show, and the session it refreshes itself with is gone. *)
DeadBoard(t) ==
  tab[t].path = "sla" /\ SignedIn(t) /\ storage = NoSession

(* Redirects come to rest, no page waits for a log in for ever, and a      *)
(* board whose session another tab ended finds out.                        *)
TabsSettle ==
  \A t \in Tabs :
    /\ []<>~Misplaced(t)
    /\ []<>~Waiting(t)
    /\ []<>~DeadBoard(t)
=============================================================================
