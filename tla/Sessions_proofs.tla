--------------------------- MODULE Sessions_proofs --------------------------
(***************************************************************************)
(* Proofs about Sessions, for any users, tabs, log ins and failures: the   *)
(* types, that a tab and the calls it makes agree on the session, and that *)
(* the users table follows the newest token.                               *)
(***************************************************************************)
EXTENDS Sessions, TLAPS

(* Log ins are numbered in the order they begin, and one that is under way *)
(* is some user's.                                                         *)
LoginsAreNumbered ==
  \A l \in 1 .. MaxLogins :
    /\ l > used => logins[l].pc = "unused"
    /\ logins[l].pc \notin {"unused", "over"} => logins[l].user \in Users

(* A log in leads back to a page of the app; where the app is not on show, *)
(* a tab that is signed in has no call under way.                          *)
PublicPagesAreSilent ==
  \A t \in Tabs :
    /\ tab[t].from \in App
    /\ tab[t].path \in {"login", "callback"} /\ SignedIn(t) => ~call[t].on

(* A call that was answered is still under way.                            *)
AnswersAreCalls == \A t \in Tabs : call[t].code # 0 => call[t].on

(* While no two log ins of a user overlap, the one between its token and   *)
(* the upsert holds the newest token.                                      *)
HolderIsNewest ==
  \A u \in Users : ~crossed[u] =>
    \A l \in Holds(u) : Holds(u) = {l} /\ logins[l].role = issued[u]

IInv ==
  /\ TypeOK /\ LoginsAreNumbered /\ PublicPagesAreSilent /\ AnswersAreCalls
  /\ SessionsAgree /\ HolderIsNewest /\ RolesFollowTheDirectory

-----------------------------------------------------------------------------
(* Roles of groups are roles. *)
LEMMA MapGroups == \A list : mapGroupsToRole(list) \in Roles
BY DEF mapGroupsToRole, Roles

LEMMA NothingTyped ==
  NoSession \in SessionType /\ NoCall \in CallType /\ NoLogin \in LoginType
BY DEF NoSession, SessionType, NoCall, CallType, NoLogin, LoginType, Roles

LEMMA LoadedTyped ==
  ASSUME TypeOK, NEW path \in Paths PROVE Loaded(path) \in TabType
BY SessionsAssumption DEF TypeOK, Loaded, TabType, Paths

LEMMA ForgottenTyped ==
  ASSUME TypeOK, NEW t \in Tabs
  PROVE  Forgotten(t) \in [1 .. MaxLogins -> LoginType]
<1>1. ASSUME NEW l \in 1 .. MaxLogins
      PROVE  [logins[l] EXCEPT !.tab = NoTab] \in LoginType
      BY DEF TypeOK, LoginType
<1> QED
  BY <1>1 DEF TypeOK, Forgotten

LEMMA WriteTyped ==
  ASSUME TypeOK, NEW t \in Tabs, NEW session \in SessionType,
         NEW state \in TabType, Write(t, session, state)
  PROVE  storage' \in SessionType /\ tab' \in [Tabs -> TabType]
<1>1. ASSUME NEW o \in Tabs
      PROVE  [tab[o] EXCEPT !.behind = @ \/ tab[o].session # NoSession] \in TabType
      BY DEF TypeOK, TabType
<1> QED
  BY <1>1 DEF Write

LEMMA BeginTyped ==
  ASSUME TypeOK, NEW t \in Tabs, NEW u \in Users,
         NEW kind \in {"password", "exchange"}, Begin(t, u, kind)
  PROVE  used' \in 0 .. MaxLogins /\ logins' \in [1 .. MaxLogins -> LoginType]
<1>1. used + 1 \in 1 .. MaxLogins
      BY SessionsAssumption DEF TypeOK, Begin
<1>2. [NoLogin EXCEPT !.pc = "sent", !.kind = kind, !.tab = t, !.user = u]
        \in LoginType
      BY NothingTyped DEF LoginType
<1> QED
  BY <1>1, <1>2, ForgottenTyped DEF Begin

LEMMA InitIInv == Init => IInv
<1> SUFFICES ASSUME Init PROVE IInv
    OBVIOUS
<1>1. TypeOK
      BY MapGroups, NothingTyped, SessionsAssumption
      DEF Init, TypeOK, Roles, Paths, TabType
<1>2. LoginsAreNumbered /\ PublicPagesAreSilent /\ AnswersAreCalls
      BY SessionsAssumption
      DEF Init, LoginsAreNumbered, PublicPagesAreSilent, AnswersAreCalls,
          NoLogin, NoCall, SignedIn, NoSession
<1>3. SessionsAgree
      BY DEF Init, SessionsAgree, SignedIn
<1>4. HolderIsNewest /\ RolesFollowTheDirectory
      BY DEF Init, HolderIsNewest, RolesFollowTheDirectory, Holds, At, NoLogin
<1> QED
  BY <1>1, <1>2, <1>3, <1>4 DEF IInv

-----------------------------------------------------------------------------
(* Types *)

(* Every step by the part of the state it writes. *)
LEMMA RouteTyped == ASSUME IInv, NEW t \in Tabs, Route(t) PROVE TypeOK'
<1> USE SessionsAssumption DEF IInv
<1>0. tab[t] \in TabType /\ "tickets" \in Paths
      BY DEF TypeOK, Paths
<1>1. CASE Redirect(t)
  <2>1. tab' \in [Tabs -> TabType]
    <3>1. [tab[t] EXCEPT !.path = "login", !.from = tab[t].path] \in TabType
          BY <1>0 DEF TabType, Paths
    <3>2. [tab[t] EXCEPT !.path =
             IF tab[t].path = "login" THEN tab[t].from ELSE "tickets"] \in TabType
          BY <1>0 DEF TabType
    <3> QED
      BY <1>1, <3>1, <3>2 DEF Redirect, TypeOK
  <2> QED
    BY <1>1, <2>1 DEF Redirect, TypeOK, directory
<1>2. CASE BackToLogin(t)
  <2>1. [tab[t] EXCEPT !.path = "login"] \in TabType
        BY <1>0 DEF TabType, Paths
  <2>2. tab' \in [Tabs -> TabType]
        BY <1>2, <2>1 DEF BackToLogin, TypeOK
  <2> QED
    BY <1>2, <2>2 DEF BackToLogin, TypeOK, directory
<1>3. ASSUME NEW path \in Paths, Load(t, path) PROVE TypeOK'
      BY <1>3, LoadedTyped, ForgottenTyped, NothingTyped
      DEF Load, TypeOK, directory
<1>4. CASE CallbackWithError(t)
      BY <1>4, <1>3 DEF CallbackWithError, Paths
<1>5. ASSUME NEW path \in App, GoTo(t, path) PROVE TypeOK'
  <2>1. [tab[t] EXCEPT !.path = path] \in TabType
        BY <1>0 DEF TabType, Paths
  <2>2. tab' \in [Tabs -> TabType]
        BY <1>5, <2>1 DEF GoTo, TypeOK
  <2> QED
    BY <1>5, <2>2 DEF GoTo, TypeOK, directory
<1> QED
  BY <1>1, <1>2, <1>3, <1>4, <1>5 DEF Route, Paths

LEMMA SessionTyped == ASSUME IInv, NEW t \in Tabs, Session(t) PROVE TypeOK'
<1> USE SessionsAssumption DEF IInv
<1>0. tab[t] \in TabType /\ "tickets" \in Paths
      BY DEF TypeOK, Paths
<1>1. CASE Logout(t)
  <2>1. [tab[t] EXCEPT !.session = NoSession, !.behind = FALSE, !.path = "login",
                       !.from = "tickets"] \in TabType
        BY <1>0, NothingTyped DEF TabType, Paths
  <2>2. storage' \in SessionType /\ tab' \in [Tabs -> TabType]
        BY <1>1, <2>1, NothingTyped, WriteTyped DEF Logout
  <2> QED
    BY <1>1, <2>2 DEF Logout, TypeOK, directory
<1>2. CASE Call(t)
  <2>1. storage.user \in Users \cup {NoUser}
        BY DEF TypeOK, SessionType
  <2>2. [on |-> TRUE, user |-> storage.user, code |-> 0, download |-> FALSE]
          \in CallType
        BY <2>1 DEF CallType
  <2> QED
    BY <1>2, <2>2 DEF Call, TypeOK, directory
<1>8. CASE Download(t)
  <2>1. [on |-> TRUE, user |-> tab[t].session.user, code |-> 0, download |-> TRUE]
          \in CallType
        BY <1>0 DEF TabType, SessionType, CallType
  <2> QED
    BY <1>8, <2>1 DEF Download, TypeOK, directory
<1>3. CASE ServeCall(t)
  <2> DEFINE n == IF call[t].user = NoUser THEN 401
                  ELSE IF accounts[call[t].user] = "none" THEN 401 ELSE 200
  <2>1. PICK c \in CallType : c = call[t]
        BY DEF TypeOK
  <2>2. [c EXCEPT !.code = n] \in CallType
        BY DEF CallType
  <2>3. call' = [call EXCEPT ![t] = [c EXCEPT !.code = n]]
        BY <1>3, <2>1 DEF ServeCall
  <2>4. call' \in [Tabs -> CallType]
        BY <2>2, <2>3 DEF TypeOK
  <2> QED
    BY <1>3, <2>4 DEF ServeCall, TypeOK, directory
<1>4. CASE CallArrives(t)
      BY <1>4, NothingTyped DEF CallArrives, TypeOK, directory
<1>5. CASE Unauthorized(t)
  <2>1. [Loaded("login") EXCEPT !.session = NoSession] \in TabType
        BY NothingTyped, LoadedTyped DEF TabType, Paths
  <2>2. storage' \in SessionType /\ tab' \in [Tabs -> TabType]
        BY <1>5, <2>1, NothingTyped, WriteTyped DEF Unauthorized, TypeOK
  <2>3. logins' \in [1 .. MaxLogins -> LoginType]
        BY <1>5, ForgottenTyped DEF Unauthorized, TypeOK
  <2> QED
    BY <1>5, <2>2, <2>3, NothingTyped DEF Unauthorized, TypeOK, directory
<1>6. ASSUME NEW u \in Users, HandleSubmit(t, u) PROVE TypeOK'
      BY <1>6, BeginTyped DEF HandleSubmit, TypeOK, directory, browser
<1>7. ASSUME NEW u \in Users, Callback(t, u) PROVE TypeOK'
      BY <1>7, BeginTyped, LoadedTyped, NothingTyped
      DEF Callback, TypeOK, Paths, directory
<1> QED
  BY <1>1, <1>2, <1>3, <1>4, <1>5, <1>6, <1>7, <1>8 DEF Session

LEMMA LoginTyped ==
  ASSUME IInv, NEW l \in 1 .. MaxLogins, Login(l) PROVE TypeOK'
<1> USE SessionsAssumption DEF IInv
<1>1. logins[l] \in LoginType
      BY DEF TypeOK
<1>2. \A pc \in {"token", "ok", "refused"} :
        /\ [logins[l] EXCEPT !.pc = pc] \in LoginType
        /\ \A role \in Roles :
             [logins[l] EXCEPT !.pc = pc, !.role = role] \in LoginType
      BY <1>1 DEF LoginType
<1>3. [NoLogin EXCEPT !.pc = "over"] \in LoginType
      BY NothingTyped DEF LoginType
<1>4. At(l, "sent") \/ At(l, "token") \/ At(l, "ok") => logins[l].user \in Users
      BY DEF LoginsAreNumbered, At
<1>5. CASE ServeLogin(l)
  <2>1. logins' \in [1 .. MaxLogins -> LoginType]
    <3>1. CASE server.provider = "cognito" \/ accounts[logins[l].user] = "none"
      <4>1. Refuse(l)
            BY <1>5, <3>1 DEF ServeLogin
      <4> QED
        BY <1>2, <4>1 DEF Refuse, TypeOK
    <3>2. CASE ~(server.provider = "cognito" \/ accounts[logins[l].user] = "none")
      <4>1. accounts[logins[l].user] \in Roles
            BY <1>4, <1>5, <3>2 DEF ServeLogin, TypeOK
      <4>2. logins' = [logins EXCEPT ![l] =
              [@ EXCEPT !.pc = "ok", !.role = accounts[logins[l].user]]]
            BY <1>5, <3>2 DEF ServeLogin
      <4> QED
        BY <1>2, <4>1, <4>2 DEF TypeOK
    <3> QED
      BY <3>1, <3>2
  <2> QED
    BY <1>5, <2>1 DEF ServeLogin, TypeOK, directory, browser
<1>6. CASE FetchIdToken(l)
      BY <1>6, <1>2, MapGroups DEF FetchIdToken, TypeOK, browser
<1>7. CASE UpsertByEmail(l)
  <2>1. logins[l].role \in Roles
        BY <1>1 DEF LoginType
  <2>2. logins' \in [1 .. MaxLogins -> LoginType]
        BY <1>7, <1>2, <2>1 DEF UpsertByEmail, TypeOK
  <2> QED
    BY <1>7, <2>1, <2>2 DEF UpsertByEmail, TypeOK, directory, browser
<1>8. CASE LoginFails(l)
  <2>1. logins[l].role \in Roles
        BY <1>1 DEF LoginType
  <2>2. logins' \in [1 .. MaxLogins -> LoginType]
        BY <1>8, <1>2, <2>1 DEF LoginFails, Refuse, TypeOK
  <2>3. accounts' \in [Users -> Roles \cup {"none"}]
        BY <1>8, <2>1 DEF LoginFails, TypeOK
  <2>4. crossed' \in [Users -> BOOLEAN]
    <3>1. (crossed[logins[l].user] \/ At(l, "token")) \in BOOLEAN
          OBVIOUS
    <3> QED
      BY <1>8, <3>1 DEF LoginFails, TypeOK
  <2> QED
    BY <1>8, <2>2, <2>3, <2>4 DEF LoginFails, Fault, TypeOK, browser
<1>9. CASE SignsIn(l)
  <2> DEFINE session == [user |-> logins[l].user, role |-> logins[l].role]
             t == logins[l].tab
             path == IF logins[l].kind = "password" THEN tab[t].from ELSE "tickets"
  <2>1. session \in SessionType /\ t \in Tabs
        BY <1>1, <1>9 DEF SignsIn, LoginType, SessionType
  <2>2. [tab[t] EXCEPT !.session = session, !.behind = FALSE, !.path = path]
          \in TabType
    <3>1. tab[t] \in TabType /\ path \in Paths
          BY <2>1 DEF TypeOK, TabType, Paths
    <3> HIDE DEF session, path, t
    <3> QED
      BY <2>1, <3>1 DEF TabType
  <2>3. storage' \in SessionType /\ tab' \in [Tabs -> TabType]
        BY <1>9, <2>1, <2>2, WriteTyped DEF SignsIn
  <2> QED
    BY <1>3, <1>9, <2>3 DEF SignsIn, Over, TypeOK, directory
<1>10. CASE LoginEnds(l)
      BY <1>3, <1>10 DEF LoginEnds, Over, TypeOK, directory, browser
<1> QED
  BY <1>5, <1>6, <1>7, <1>8, <1>9, <1>10 DEF Login, Answered

LEMMA TypeStep == ASSUME IInv, Next PROVE TypeOK'
<1>1. ASSUME NEW u \in Users, ChangeGroups(u) PROVE TypeOK'
      BY <1>1 DEF IInv, ChangeGroups, TypeOK, browser
<1> QED
  BY <1>1, RouteTyped, SessionTyped, LoginTyped DEF Next

-----------------------------------------------------------------------------
(* The half of the state that log ins write *)

LoginHalf == LoginsAreNumbered /\ HolderIsNewest /\ RolesFollowTheDirectory

(* Log ins that are forgotten keep their place, user and role. *)
LEMMA LoginsKept ==
  ASSUME LoginHalf, TypeOK, UNCHANGED <<accounts, issued, crossed, used>>,
         logins' = logins \/ \E t \in Tabs : logins' = Forgotten(t)
  PROVE  LoginHalf'
<1>1. ASSUME NEW l \in 1 .. MaxLogins
      PROVE  /\ logins'[l].pc = logins[l].pc
             /\ logins'[l].user = logins[l].user
             /\ logins'[l].role = logins[l].role
  <2>1. PICK q \in LoginType : q = logins[l]
        BY DEF TypeOK
  <2>2. logins'[l] \in {q, [q EXCEPT !.tab = NoTab]}
        BY <2>1 DEF Forgotten
  <2>3. LET p == [q EXCEPT !.tab = NoTab]
        IN  p.pc = q.pc /\ p.user = q.user /\ p.role = q.role
        BY DEF LoginType
  <2> QED
    BY <2>1, <2>2, <2>3
<1>2. \A u \in Users : Holds(u)' = Holds(u)
      BY <1>1 DEF Holds, At
<1>3. LoginsAreNumbered'
      BY <1>1 DEF LoginHalf, LoginsAreNumbered
<1>4. HolderIsNewest' /\ RolesFollowTheDirectory'
      BY <1>1, <1>2 DEF LoginHalf, HolderIsNewest, RolesFollowTheDirectory, Holds
<1> QED
  BY <1>3, <1>4 DEF LoginHalf

(* A log in that held no token, and holds none now, disturbs nobody. *)
LEMMA NoTokenTouched ==
  ASSUME LoginHalf, TypeOK, UNCHANGED <<accounts, issued, crossed, used>>,
         NEW l \in 1 .. MaxLogins, logins[l].pc \notin {"token", "unused"},
         NEW x, logins' = [logins EXCEPT ![l] = x],
         x.pc # "token", x.pc = "over" \/ x.user = logins[l].user,
         logins[l].pc = "over" => x.pc = "over"
  PROVE  LoginHalf'
<1>1. \A k \in 1 .. MaxLogins : k # l => logins'[k] = logins[k]
      BY DEF TypeOK
<1>2. logins'[l] = x
      BY DEF TypeOK
<1>3. \A u \in Users : Holds(u)' = Holds(u)
      BY <1>1, <1>2 DEF Holds, At
<1>4. LoginsAreNumbered'
  <2> SUFFICES ASSUME NEW k \in 1 .. MaxLogins
               PROVE  /\ k > used => logins'[k].pc = "unused"
                      /\ logins'[k].pc \notin {"unused", "over"} =>
                           logins'[k].user \in Users
      BY DEF LoginsAreNumbered
  <2>1. CASE k = l
        BY <2>1, <1>2 DEF LoginHalf, LoginsAreNumbered
  <2>2. CASE k # l
        BY <2>2, <1>1 DEF LoginHalf, LoginsAreNumbered
  <2> QED
    BY <2>1, <2>2
<1>5. ASSUME NEW u \in Users
      PROVE  \A k \in Holds(u) : logins'[k].role = logins[k].role
      BY <1>1 DEF Holds, At
<1>6. HolderIsNewest' /\ RolesFollowTheDirectory'
      BY <1>3, <1>5 DEF LoginHalf, HolderIsNewest, RolesFollowTheDirectory
<1> QED
  BY <1>4, <1>6 DEF LoginHalf

(* A log in begins under a number that none had. *)
LEMMA Begun ==
  ASSUME LoginHalf, TypeOK, UNCHANGED <<accounts, issued, crossed>>,
         NEW t \in Tabs, NEW u \in Users, NEW kind, Begin(t, u, kind)
  PROVE  LoginHalf'
<1>1. used + 1 \in 1 .. MaxLogins /\ used \in Nat
      BY SessionsAssumption DEF TypeOK, Begin
<1>2. /\ logins'[used + 1].pc = "sent"
      /\ logins'[used + 1].user = u
      /\ logins[used + 1].pc = "unused"
  <2>1. logins[used + 1].pc = "unused"
        BY <1>1 DEF LoginHalf, LoginsAreNumbered
  <2>2. logins'[used + 1] =
          [NoLogin EXCEPT !.pc = "sent", !.kind = kind, !.tab = t, !.user = u]
        BY <1>1 DEF Begin, Forgotten
  <2> QED
    BY <2>1, <2>2 DEF NoLogin
<1>3. ASSUME NEW l \in 1 .. MaxLogins, l # used + 1
      PROVE  /\ logins'[l].pc = logins[l].pc
             /\ logins'[l].user = logins[l].user
             /\ logins'[l].role = logins[l].role
  <2>1. logins[l] \in LoginType
        BY DEF TypeOK
  <2> QED
    BY <1>1, <1>3, <2>1 DEF Begin, Forgotten, LoginType
<1>4. \A o \in Users : Holds(o)' = Holds(o)
      BY <1>2, <1>3 DEF Holds, At
<1>5. LoginsAreNumbered'
  <2> SUFFICES ASSUME NEW k \in 1 .. MaxLogins
               PROVE  /\ k > used' => logins'[k].pc = "unused"
                      /\ logins'[k].pc \notin {"unused", "over"} =>
                           logins'[k].user \in Users
      BY DEF LoginsAreNumbered
  <2>1. CASE k = used + 1
        BY <2>1, <1>1, <1>2 DEF Begin
  <2>2. CASE k # used + 1
        BY <2>2, <1>1, <1>3 DEF Begin, LoginHalf, LoginsAreNumbered
  <2> QED
    BY <2>1, <2>2
<1>6. ASSUME NEW o \in Users
      PROVE  \A k \in Holds(o) : logins'[k].role = logins[k].role
      BY <1>2, <1>3 DEF Holds, At
<1>7. HolderIsNewest' /\ RolesFollowTheDirectory'
      BY <1>4, <1>6 DEF LoginHalf, HolderIsNewest, RolesFollowTheDirectory
<1> QED
  BY <1>5, <1>7 DEF LoginHalf

(* Cognito issues a token: its holder is the newest, and the only one      *)
(* unless the user's log ins cross from now on.                            *)
LEMMA TokenFetched ==
  ASSUME LoginHalf, TypeOK, NEW l \in 1 .. MaxLogins, FetchIdToken(l)
  PROVE  LoginHalf'
<1> DEFINE me == logins[l].user
<1>1. \A k \in 1 .. MaxLogins : k # l => logins'[k] = logins[k]
      BY DEF TypeOK, FetchIdToken
<1>2. /\ logins[l].pc = "sent" /\ me \in Users
      /\ logins'[l].pc = "token" /\ logins'[l].user = me
      /\ logins'[l].role = issued'[me]
  <2>1. logins[l] \in LoginType
        BY DEF TypeOK
  <2>2. me \in Users
        BY DEF FetchIdToken, At, LoginHalf, LoginsAreNumbered
  <2> QED
    BY <2>1, <2>2 DEF FetchIdToken, At, TypeOK, LoginType
<1>3. \A o \in Users : o # me => Holds(o)' = Holds(o)
      BY <1>1, <1>2 DEF Holds, At
<1>4. Holds(me)' = Holds(me) \cup {l} /\ l \notin Holds(me)
      BY <1>1, <1>2 DEF Holds, At
<1>5. LoginsAreNumbered'
  <2> SUFFICES ASSUME NEW k \in 1 .. MaxLogins
               PROVE  /\ k > used => logins'[k].pc = "unused"
                      /\ logins'[k].pc \notin {"unused", "over"} =>
                           logins'[k].user \in Users
      BY DEF LoginsAreNumbered, FetchIdToken
  <2>1. CASE k = l
        BY <2>1, <1>2 DEF LoginHalf, LoginsAreNumbered
  <2>2. CASE k # l
        BY <2>2, <1>1 DEF LoginHalf, LoginsAreNumbered
  <2> QED
    BY <2>1, <2>2
<1>6. ASSUME NEW o \in Users, ~crossed'[o]
      PROVE  /\ \A k \in Holds(o)' :
                  Holds(o)' = {k} /\ logins'[k].role = issued'[o]
             /\ Holds(o)' = {} => accounts'[o] = issued'[o]
  <2>1. CASE o = me
    <3>1. Holds(me) = {}
          BY <1>6, <2>1 DEF FetchIdToken, TypeOK
    <3> QED
      BY <2>1, <3>1, <1>2, <1>4
  <2>2. CASE o # me
    <3>1. /\ issued'[o] = issued[o] /\ ~crossed[o] /\ accounts' = accounts
          /\ Holds(o)' = Holds(o)
          BY <1>2, <1>3, <1>6, <2>2 DEF FetchIdToken, TypeOK
    <3>2. \A k \in Holds(o) : logins'[k] = logins[k]
          BY <1>1, <1>2, <2>2 DEF Holds
    <3> QED
      BY <3>1, <3>2 DEF LoginHalf, HolderIsNewest, RolesFollowTheDirectory
  <2> QED
    BY <2>1, <2>2
<1>7. HolderIsNewest' /\ RolesFollowTheDirectory'
      BY <1>6 DEF HolderIsNewest, RolesFollowTheDirectory
<1> QED
  BY <1>5, <1>7 DEF LoginHalf

(* A token is let go: by the upsert, which writes its role, or by a        *)
(* failure, which crosses the log ins of its user.                         *)
LEMMA TokenLetGo ==
  ASSUME LoginHalf, TypeOK, NEW l \in 1 .. MaxLogins, At(l, "token"),
         NEW pc \in {"ok", "refused"}, logins' = [logins EXCEPT ![l].pc = pc],
         UNCHANGED <<issued, used>>,
         \/ /\ accounts' = [accounts EXCEPT ![logins[l].user] = logins[l].role]
            /\ UNCHANGED crossed
         \/ /\ crossed' = [crossed EXCEPT ![logins[l].user] = TRUE]
            /\ \/ UNCHANGED accounts
               \/ accounts' = [accounts EXCEPT ![logins[l].user] = logins[l].role]
  PROVE  LoginHalf'
<1> DEFINE me == logins[l].user
<1>1. \A k \in 1 .. MaxLogins : k # l => logins'[k] = logins[k]
      BY DEF TypeOK
<1>2. me \in Users /\ logins'[l].pc = pc /\ logins'[l].user = me
  <2>1. logins[l] \in LoginType
        BY DEF TypeOK
  <2>2. me \in Users
        BY DEF At, LoginHalf, LoginsAreNumbered
  <2> QED
    BY <2>1, <2>2 DEF TypeOK, LoginType
<1>3. \A o \in Users : o # me => Holds(o)' = Holds(o)
      BY <1>1, <1>2 DEF Holds, At
<1>4. Holds(me)' = Holds(me) \ {l} /\ l \in Holds(me)
      BY <1>1, <1>2 DEF Holds, At
<1>5. LoginsAreNumbered'
  <2> SUFFICES ASSUME NEW k \in 1 .. MaxLogins
               PROVE  /\ k > used => logins'[k].pc = "unused"
                      /\ logins'[k].pc \notin {"unused", "over"} =>
                           logins'[k].user \in Users
      BY DEF LoginsAreNumbered
  <2>1. CASE k = l
        BY <2>1, <1>2 DEF LoginHalf, LoginsAreNumbered, At
  <2>2. CASE k # l
        BY <2>2, <1>1 DEF LoginHalf, LoginsAreNumbered
  <2> QED
    BY <2>1, <2>2
<1>6. ASSUME NEW o \in Users, ~crossed'[o]
      PROVE  /\ \A k \in Holds(o)' :
                  Holds(o)' = {k} /\ logins'[k].role = issued'[o]
             /\ Holds(o)' = {} => accounts'[o] = issued'[o]
  <2>1. CASE o = me
    <3>1. crossed' = crossed /\ accounts'[me] = logins[l].role
          BY <1>2, <1>6, <2>1 DEF TypeOK
    <3>2. Holds(me) = {l} /\ logins[l].role = issued[me]
          BY <1>2, <1>4, <1>6, <2>1, <3>1 DEF LoginHalf, HolderIsNewest
    <3> QED
      BY <2>1, <1>4, <3>1, <3>2
  <2>2. CASE o # me
    <3>1. /\ ~crossed[o] /\ accounts'[o] = accounts[o]
          /\ Holds(o)' = Holds(o)
          BY <1>2, <1>3, <1>6, <2>2 DEF TypeOK
    <3>2. \A k \in Holds(o) : logins'[k] = logins[k]
          BY <1>1, <1>2, <2>2 DEF Holds
    <3> QED
      BY <3>1, <3>2 DEF LoginHalf, HolderIsNewest, RolesFollowTheDirectory
  <2> QED
    BY <2>1, <2>2
<1>7. HolderIsNewest' /\ RolesFollowTheDirectory'
      BY <1>6 DEF HolderIsNewest, RolesFollowTheDirectory
<1> QED
  BY <1>5, <1>7 DEF LoginHalf

LEMMA LoginHalfStep == ASSUME IInv, Next PROVE LoginHalf'
<1>0. LoginHalf /\ TypeOK
      BY DEF IInv, LoginHalf
<1>1. ASSUME NEW t \in Tabs, Route(t) PROVE LoginHalf'
  <2>1. UNCHANGED <<accounts, issued, crossed, used>>
        BY <1>1 DEF Route, Redirect, BackToLogin, CallbackWithError, GoTo, Load,
                    directory
  <2>2. logins' = logins \/ logins' = Forgotten(t)
        BY <1>1 DEF Route, Redirect, BackToLogin, CallbackWithError, GoTo, Load
  <2> QED
    BY <1>0, <2>1, <2>2, LoginsKept
<1>2. ASSUME NEW t \in Tabs, Session(t) PROVE LoginHalf'
  <2>1. ASSUME NEW u \in Users, HandleSubmit(t, u) \/ Callback(t, u)
        PROVE  LoginHalf'
    <3>1. UNCHANGED <<accounts, issued, crossed>>
          BY <2>1 DEF HandleSubmit, Callback, directory
    <3>2. Begin(t, u, "password") \/ Begin(t, u, "exchange")
          BY <2>1 DEF HandleSubmit, Callback
    <3> QED
      BY <1>0, <3>1, <3>2, Begun
  <2>2. CASE \/ Logout(t) \/ Call(t) \/ Download(t)
             \/ ServeCall(t) \/ CallArrives(t) \/ Unauthorized(t)
    <3>1. UNCHANGED <<accounts, issued, crossed, used>>
          BY <2>2 DEF Logout, Call, Download, ServeCall, CallArrives, Unauthorized,
                      directory
    <3>2. logins' = logins \/ logins' = Forgotten(t)
          BY <2>2 DEF Logout, Call, Download, ServeCall, CallArrives, Unauthorized
    <3> QED
      BY <1>0, <3>1, <3>2, LoginsKept
  <2> QED
    BY <1>2, <2>1, <2>2 DEF Session
<1>3. ASSUME NEW l \in 1 .. MaxLogins, Login(l) PROVE LoginHalf'
  <2>0. logins[l] \in LoginType
        BY <1>0 DEF TypeOK
  <2>1. CASE ServeLogin(l)
    <3>1. PICK pc \in {"ok", "refused"},
               role \in {logins[l].role, accounts[logins[l].user]} :
            logins' = [logins EXCEPT ![l] =
                         [logins[l] EXCEPT !.pc = pc, !.role = role]]
      <4>1. CASE Refuse(l)
        <5>1. [logins[l] EXCEPT !.pc = "refused"] =
                [logins[l] EXCEPT !.pc = "refused", !.role = logins[l].role]
              BY <2>0 DEF LoginType
        <5> QED
          BY <4>1, <5>1 DEF Refuse
      <4>2. CASE ~Refuse(l)
            BY <2>1, <4>2 DEF ServeLogin
      <4> QED
        BY <4>1, <4>2
    <3>2. logins[l].pc = "sent" /\ UNCHANGED <<accounts, issued, crossed, used>>
          BY <2>1 DEF ServeLogin, At, directory
    <3> DEFINE x == [logins[l] EXCEPT !.pc = pc, !.role = role]
    <3>3. x.pc = pc /\ x.user = logins[l].user
          BY <2>0 DEF LoginType
    <3> HIDE DEF x
    <3> QED
      BY <1>0, <3>1, <3>2, <3>3, NoTokenTouched DEF x
  <2>2. CASE FetchIdToken(l)
        BY <2>2, <1>0, TokenFetched
  <2>3. CASE UpsertByEmail(l)
        BY <2>3, <1>0, TokenLetGo DEF UpsertByEmail, directory
  <2>4. CASE LoginFails(l)
    <3>1. CASE At(l, "token")
      <4>1. crossed' = [crossed EXCEPT ![logins[l].user] = TRUE]
            BY <2>4, <3>1 DEF LoginFails
      <4>2. \/ UNCHANGED accounts
            \/ accounts' = [accounts EXCEPT ![logins[l].user] = logins[l].role]
            BY <2>4 DEF LoginFails
      <4> QED
        BY <2>4, <3>1, <4>1, <4>2, <1>0, TokenLetGo DEF LoginFails, Refuse
    <3>2. CASE ~At(l, "token")
      <4>1. logins[l].pc = "sent" /\ UNCHANGED <<accounts, issued, used>>
            BY <2>4, <3>2 DEF LoginFails, At
      <4>2. crossed' = crossed
            BY <2>4, <3>2, <1>0 DEF LoginFails, TypeOK
      <4> DEFINE x == [logins[l] EXCEPT !.pc = "refused"]
      <4>3. x.pc = "refused" /\ x.user = logins[l].user
            BY <2>0 DEF LoginType
      <4>4. logins' = [logins EXCEPT ![l] = x]
            BY <2>4 DEF LoginFails, Refuse
      <4> HIDE DEF x
      <4> QED
        BY <1>0, <4>1, <4>2, <4>3, <4>4, NoTokenTouched
    <3> QED
      BY <3>1, <3>2
  <2>5. CASE SignsIn(l) \/ LoginEnds(l)
    <3>1. /\ logins[l].pc \in {"ok", "refused"}
          /\ UNCHANGED <<accounts, issued, crossed, used>>
          /\ logins' = [logins EXCEPT ![l] = [NoLogin EXCEPT !.pc = "over"]]
          BY <2>5 DEF SignsIn, LoginEnds, Over, At, directory
    <3>2. [NoLogin EXCEPT !.pc = "over"].pc = "over"
          BY DEF NoLogin
    <3> QED
      BY <1>0, <3>1, <3>2, NoTokenTouched
  <2> QED
    BY <1>3, <2>1, <2>2, <2>3, <2>4, <2>5 DEF Login, Answered
<1>4. ASSUME NEW u \in Users, ChangeGroups(u) PROVE LoginHalf'
      BY <1>0, <1>4, LoginsKept DEF ChangeGroups
<1> QED
  BY <1>1, <1>2, <1>3, <1>4 DEF Next

-----------------------------------------------------------------------------
(* The half of the state that tabs and calls write *)

TabHalf == PublicPagesAreSilent /\ AnswersAreCalls /\ SessionsAgree

LEMMA TabsKept == ASSUME TabHalf, UNCHANGED browser PROVE TabHalf'
BY DEF TabHalf, browser, PublicPagesAreSilent, AnswersAreCalls, SessionsAgree,
       SignedIn

(* A document may be replaced by one that agrees with the storage.         *)
LEMMA DocumentReplaced ==
  ASSUME TabHalf, TypeOK, NEW t \in Tabs, NEW x,
         tab' = [tab EXCEPT ![t] = x], UNCHANGED storage,
         call' = call \/ call' = [call EXCEPT ![t] = NoCall],
         x.from \in App,
         x.session # NoSession /\ ~x.behind => storage = x.session,
         x.path \in {"login", "callback"} /\ x.session # NoSession => ~call'[t].on
  PROVE  TabHalf'
<1>1. tab'[t] = x /\ \A o \in Tabs : o # t => tab'[o] = tab[o] /\ call'[o] = call[o]
      BY DEF TypeOK
<1>2. call'[t] = call[t] \/ call'[t] = NoCall
      BY DEF TypeOK
<1>3. PublicPagesAreSilent'
      BY <1>1 DEF TabHalf, PublicPagesAreSilent, SignedIn
<1>4. AnswersAreCalls'
      BY <1>1, <1>2 DEF TabHalf, AnswersAreCalls, NoCall
<1>5. SessionsAgree'
      BY <1>1 DEF TabHalf, SessionsAgree, SignedIn
<1> QED
  BY <1>3, <1>4, <1>5 DEF TabHalf

(* When a tab writes the storage, the others that are signed in are behind *)
(* it.                                                                     *)
LEMMA StorageWritten ==
  ASSUME TabHalf, TypeOK, NEW t \in Tabs, NEW session, NEW x,
         Write(t, session, x),
         call' = call \/ call' = [call EXCEPT ![t] = NoCall],
         x.from \in App,
         x.session # NoSession /\ ~x.behind => session = x.session,
         x.path \in {"login", "callback"} /\ x.session # NoSession => ~call'[t].on
  PROVE  TabHalf'
<1>1. tab'[t] = x /\ storage' = session
      BY DEF Write
<1>2. ASSUME NEW o \in Tabs, o # t
      PROVE  /\ tab'[o].path = tab[o].path /\ tab'[o].from = tab[o].from
             /\ tab'[o].session = tab[o].session
             /\ tab[o].session # NoSession => tab'[o].behind
             /\ call'[o] = call[o]
  <2>1. tab[o] \in TabType
        BY DEF TypeOK
  <2>2. tab'[o] = [tab[o] EXCEPT !.behind = @ \/ tab[o].session # NoSession]
        BY <1>2 DEF Write
  <2> QED
    BY <1>2, <2>1, <2>2 DEF TabType, TypeOK
<1>3. call'[t] = call[t] \/ call'[t] = NoCall
      BY DEF TypeOK
<1>4. PublicPagesAreSilent'
      BY <1>1, <1>2 DEF TabHalf, PublicPagesAreSilent, SignedIn
<1>5. AnswersAreCalls'
      BY <1>2, <1>3 DEF TabHalf, AnswersAreCalls, NoCall
<1>6. SessionsAgree'
      BY <1>1, <1>2 DEF TabHalf, SessionsAgree, SignedIn
<1> QED
  BY <1>4, <1>5, <1>6 DEF TabHalf

(* Calls come and go while the app is on show.                             *)
LEMMA CallWritten ==
  ASSUME TabHalf, TypeOK, UNCHANGED <<storage, tab>>, NEW t \in Tabs,
         NEW x \in CallType, call' = [call EXCEPT ![t] = x],
         x.code # 0 => x.on,
         x.on => call[t].on \/ tab[t].path \notin {"login", "callback"}
  PROVE  TabHalf'
<1>1. call'[t] = x /\ \A o \in Tabs : o # t => call'[o] = call[o]
      BY DEF TypeOK
<1> QED
  BY <1>1 DEF TabHalf, PublicPagesAreSilent, AnswersAreCalls, SessionsAgree, SignedIn

LEMMA TabHalfRoute ==
  ASSUME IInv, NEW t \in Tabs, Route(t) PROVE TabHalf'
<1> USE SessionsAssumption
<1>0. TabHalf /\ TypeOK /\ tab[t] \in TabType
      BY DEF IInv, TabHalf, TypeOK
<1>1. "login" \notin App /\ "callback" \notin App /\ tab[t].from \in App
      BY <1>0 DEF TabHalf, PublicPagesAreSilent
<1>2. CASE Redirect(t)
  <2>1. CASE SignedIn(t)
    <3> DEFINE x == [tab[t] EXCEPT !.path =
                       IF tab[t].path = "login" THEN tab[t].from ELSE "tickets"]
    <3>1. tab' = [tab EXCEPT ![t] = x]
          BY <1>2, <2>1 DEF Redirect
    <3>2. /\ x.from = tab[t].from /\ x.session = tab[t].session
          /\ x.behind = tab[t].behind /\ x.path \in App
          BY <1>0, <1>1 DEF TabType
    <3>3. x.session # NoSession /\ ~x.behind => storage = x.session
          BY <1>0, <3>2 DEF TabHalf, SessionsAgree, SignedIn
    <3>4. x.path \notin {"login", "callback"} /\ UNCHANGED <<storage, call>>
          BY <1>1, <1>2, <3>2 DEF Redirect
    <3> HIDE DEF x
    <3> QED
      BY <1>0, <1>1, <3>1, <3>2, <3>3, <3>4, DocumentReplaced
  <2>2. CASE ~SignedIn(t)
    <3> DEFINE x == [tab[t] EXCEPT !.path = "login", !.from = tab[t].path]
    <3>1. tab' = [tab EXCEPT ![t] = x]
          BY <1>2, <2>2 DEF Redirect
    <3>2. tab[t].path \in App
          BY <1>2, <2>2 DEF Redirect, Misplaced
    <3>3. x.from \in App /\ x.session = NoSession
          BY <1>0, <2>2, <3>2 DEF TabType, SignedIn
    <3> HIDE DEF x
    <3> QED
      BY <1>0, <1>2, <3>1, <3>3, DocumentReplaced DEF Redirect
  <2> QED
    BY <2>1, <2>2
<1>3. CASE BackToLogin(t)
  <2> DEFINE x == [tab[t] EXCEPT !.path = "login"]
  <2>1. tab' = [tab EXCEPT ![t] = x] /\ tab[t].path = "callback"
        BY <1>3 DEF BackToLogin
  <2>2. /\ x.from = tab[t].from /\ x.session = tab[t].session
        /\ x.behind = tab[t].behind
        BY <1>0 DEF TabType
  <2>3. x.session # NoSession => ~call[t].on
        BY <1>0, <2>1, <2>2 DEF TabHalf, PublicPagesAreSilent, SignedIn
  <2>4. x.session # NoSession /\ ~x.behind => storage = x.session
        BY <1>0, <2>2 DEF TabHalf, SessionsAgree, SignedIn
  <2> HIDE DEF x
  <2> QED
    BY <1>0, <1>1, <1>3, <2>1, <2>2, <2>3, <2>4, DocumentReplaced DEF BackToLogin
<1>4. ASSUME NEW path \in Paths, Load(t, path) PROVE TabHalf'
  <2>1. ~call'[t].on /\ call' = [call EXCEPT ![t] = NoCall]
        BY <1>0, <1>4 DEF Load, TypeOK, NoCall
  <2> DEFINE x == Loaded(path)
  <2>2. x.from \in App /\ x.session = storage
        BY DEF Loaded
  <2>3. tab' = [tab EXCEPT ![t] = x] /\ UNCHANGED storage
        BY <1>4 DEF Load
  <2> HIDE DEF x
  <2> QED
    BY <1>0, <2>1, <2>2, <2>3, DocumentReplaced
<1>5. CASE CallbackWithError(t)
      BY <1>5, <1>4 DEF CallbackWithError, Paths
<1>6. ASSUME NEW path \in App, GoTo(t, path) PROVE TabHalf'
  <2> DEFINE x == [tab[t] EXCEPT !.path = path]
  <2>1. tab' = [tab EXCEPT ![t] = x]
        BY <1>6 DEF GoTo
  <2>2. /\ x.from = tab[t].from /\ x.session = tab[t].session
        /\ x.behind = tab[t].behind /\ x.path = path
        BY <1>0 DEF TabType
  <2>3. x.session # NoSession /\ ~x.behind => storage = x.session
        BY <1>0, <2>2 DEF TabHalf, SessionsAgree, SignedIn
  <2> HIDE DEF x
  <2> QED
    BY <1>0, <1>1, <1>6, <2>1, <2>2, <2>3, DocumentReplaced DEF GoTo
<1> QED
  BY <1>2, <1>3, <1>4, <1>5, <1>6 DEF Route, Paths

LEMMA TabHalfSession ==
  ASSUME IInv, NEW t \in Tabs, Session(t) PROVE TabHalf'
<1> USE SessionsAssumption
<1>0. TabHalf /\ TypeOK /\ tab[t] \in TabType /\ call[t] \in CallType
      BY DEF IInv, TabHalf, TypeOK
<1>1. "login" \notin App /\ "callback" \notin App /\ tab[t].from \in App
      BY <1>0 DEF TabHalf, PublicPagesAreSilent
<1>2. CASE Logout(t)
  <2> DEFINE x == [tab[t] EXCEPT !.session = NoSession, !.behind = FALSE,
                                 !.path = "login", !.from = "tickets"]
  <2>1. Write(t, NoSession, x) /\ UNCHANGED call
        BY <1>2 DEF Logout
  <2>2. x.from = "tickets" /\ x.session = NoSession
        BY <1>0 DEF TabType
  <2> HIDE DEF x
  <2> QED
    BY <1>0, <2>1, <2>2, StorageWritten
<1>3. CASE Call(t)
  <2> DEFINE x == [on |-> TRUE, user |-> storage.user, code |-> 0,
                   download |-> FALSE]
  <2>0. storage.user \in Users \cup {NoUser}
        BY <1>0 DEF TypeOK, SessionType
  <2>1. x \in CallType /\ x.code = 0
        BY <2>0 DEF CallType
  <2>2. call' = [call EXCEPT ![t] = x] /\ UNCHANGED <<storage, tab>>
        BY <1>3 DEF Call
  <2>3. tab[t].path \notin {"login", "callback"}
        BY <1>1, <1>3 DEF Call
  <2> HIDE DEF x
  <2> QED
    BY <1>0, <2>1, <2>2, <2>3, CallWritten
<1>9. CASE Download(t)
  <2> DEFINE x == [on |-> TRUE, user |-> tab[t].session.user, code |-> 0,
                   download |-> TRUE]
  <2>1. x \in CallType /\ x.code = 0
        BY <1>0 DEF TabType, SessionType, CallType
  <2>2. call' = [call EXCEPT ![t] = x] /\ UNCHANGED <<storage, tab>>
        BY <1>9 DEF Download
  <2>3. tab[t].path \notin {"login", "callback"}
        BY <1>9 DEF Download
  <2> HIDE DEF x
  <2> QED
    BY <1>0, <2>1, <2>2, <2>3, CallWritten
<1>4. CASE ServeCall(t)
  <2> DEFINE n == IF call[t].user = NoUser THEN 401
                  ELSE IF accounts[call[t].user] = "none" THEN 401 ELSE 200
             x == [call[t] EXCEPT !.code = n]
  <2>1. x \in CallType /\ x.on = call[t].on
        BY <1>0 DEF CallType
  <2>2. call' = [call EXCEPT ![t] = x] /\ call[t].on /\ UNCHANGED <<storage, tab>>
        BY <1>4 DEF ServeCall
  <2> HIDE DEF x
  <2> QED
    BY <1>0, <2>1, <2>2, CallWritten
<1>5. CASE CallArrives(t)
  <2>1. NoCall \in CallType /\ NoCall.code = 0 /\ ~NoCall.on
        BY NothingTyped DEF NoCall
  <2>2. call' = [call EXCEPT ![t] = NoCall] /\ UNCHANGED <<storage, tab>>
        BY <1>5 DEF CallArrives
  <2> QED
    BY <1>0, <2>1, <2>2, CallWritten
<1>6. CASE Unauthorized(t)
  <2>1. call[t].on /\ call' = [call EXCEPT ![t] = NoCall]
        BY <1>0, <1>6 DEF Unauthorized, TabHalf, AnswersAreCalls
  <2>2. ~call'[t].on
        BY <1>0, <2>1 DEF TypeOK, NoCall
  <2>3. CASE tab[t].path = "login"
    <3>1. tab[t].session = NoSession
          BY <1>0, <2>1, <2>3 DEF TabHalf, PublicPagesAreSilent, SignedIn
    <3>2. Write(t, NoSession, tab[t])
          BY <1>6, <2>3 DEF Unauthorized
    <3> QED
      BY <1>0, <1>1, <2>1, <2>2, <3>1, <3>2, StorageWritten
  <2>4. CASE tab[t].path # "login"
    <3> DEFINE x == [Loaded("login") EXCEPT !.session = NoSession]
    <3>1. x.from \in App /\ x.session = NoSession
          BY DEF Loaded
    <3>2. Write(t, NoSession, x)
          BY <1>6, <2>4 DEF Unauthorized
    <3> HIDE DEF x
    <3>3. x.session # NoSession /\ ~x.behind => NoSession = x.session
          BY <3>1
    <3>4. call' = [call EXCEPT ![t] = NoCall]
          BY <2>1
    <3> QED
      BY <1>0, <2>2, <3>1, <3>2, <3>3, <3>4, StorageWritten
  <2> QED
    BY <2>3, <2>4
<1>7. ASSUME NEW u \in Users, HandleSubmit(t, u) PROVE TabHalf'
      BY <1>0, <1>7, TabsKept DEF HandleSubmit
<1>8. ASSUME NEW u \in Users, Callback(t, u) PROVE TabHalf'
  <2>1. ~call'[t].on /\ call' = [call EXCEPT ![t] = NoCall]
        BY <1>0, <1>8 DEF Callback, TypeOK, NoCall
  <2> DEFINE x == Loaded("callback")
  <2>2. x.from \in App /\ x.session = storage
        BY DEF Loaded
  <2>3. tab' = [tab EXCEPT ![t] = x] /\ UNCHANGED storage
        BY <1>8 DEF Callback
  <2> HIDE DEF x
  <2> QED
    BY <1>0, <2>1, <2>2, <2>3, DocumentReplaced
<1> QED
  BY <1>2, <1>3, <1>4, <1>5, <1>6, <1>7, <1>8, <1>9 DEF Session

LEMMA TabHalfStep == ASSUME IInv, Next PROVE TabHalf'
<1>0. TabHalf /\ TypeOK
      BY DEF IInv, TabHalf
<1>1. ASSUME NEW l \in 1 .. MaxLogins, SignsIn(l) PROVE TabHalf'
  <2> DEFINE t == logins[l].tab
             session == [user |-> logins[l].user, role |-> logins[l].role]
             path == IF logins[l].kind = "password" THEN tab[t].from ELSE "tickets"
             x == [tab[t] EXCEPT !.session = session, !.behind = FALSE,
                                 !.path = path]
  <2>1. t \in Tabs
        BY <1>0, <1>1 DEF SignsIn, TypeOK, LoginType
  <2>2. tab[t] \in TabType /\ path \in App /\ tab[t].from \in App
        BY <1>0, <2>1, SessionsAssumption DEF TabHalf, TypeOK, PublicPagesAreSilent
  <2>3. Write(t, session, x) /\ UNCHANGED call
        BY <1>1 DEF SignsIn
  <2> HIDE DEF t, session, path
  <2>4. x.session = session /\ x.path = path /\ x.from = tab[t].from
        BY <2>2 DEF TabType
  <2> HIDE DEF x
  <2> QED
    BY <1>0, <2>1, <2>2, <2>3, <2>4, StorageWritten, SessionsAssumption
<1>2. ASSUME NEW l \in 1 .. MaxLogins, Login(l), ~SignsIn(l) PROVE TabHalf'
  <2>1. UNCHANGED browser
        BY <1>2 DEF Login, Answered, ServeLogin, FetchIdToken, UpsertByEmail,
                    LoginFails, LoginEnds
  <2> QED
    BY <1>0, <2>1, TabsKept
<1>3. ASSUME NEW u \in Users, ChangeGroups(u) PROVE TabHalf'
      BY <1>0, <1>3, TabsKept DEF ChangeGroups
<1> QED
  BY <1>1, <1>2, <1>3, TabHalfRoute, TabHalfSession DEF Next

-----------------------------------------------------------------------------
(* The invariant, and what follows from it *)

LEMMA Stuttering == ASSUME IInv, UNCHANGED vars PROVE IInv'
<1>1. TypeOK'
      BY DEF IInv, vars, TypeOK
<1>2. LoginHalf'
      BY LoginsKept DEF IInv, LoginHalf, vars
<1>3. TabHalf'
      BY TabsKept DEF IInv, TabHalf, vars, browser
<1> QED
  BY <1>1, <1>2, <1>3 DEF IInv, LoginHalf, TabHalf

(* IInv holds at the start, and no request, answer, failure or redirect    *)
(* ends it.                                                                *)
THEOREM Invariance == Spec => []IInv
<1>1. IInv /\ [Next]_vars => IInv'
      BY TypeStep, LoginHalfStep, TabHalfStep, Stuttering DEF IInv, LoginHalf, TabHalf
<1> QED
  BY InitIInv, <1>1, PTL DEF Spec

(* Every variable keeps its shape, for any users, tabs and log ins.        *)
THEOREM TypeCorrect == Spec => []TypeOK
<1>1. IInv => TypeOK
      BY DEF IInv
<1> QED
  BY <1>1, Invariance, PTL

(* Whatever answers are late, and whichever calls a former session left,   *)
(* a tab shows the session its calls carry until another tab changes it.   *)
THEOREM TabsShowTheirSession == Spec => []SessionsAgree
<1>1. IInv => SessionsAgree
      BY DEF IInv
<1> QED
  BY <1>1, Invariance, PTL

(* The users table holds the role of the newest token of a user, unless    *)
(* two of their log ins overlapped between the token and the upsert.       *)
THEOREM RolesAreCurrent == Spec => []RolesFollowTheDirectory
<1>1. IInv => RolesFollowTheDirectory
      BY DEF IInv
<1> QED
  BY <1>1, Invariance, PTL
=============================================================================
