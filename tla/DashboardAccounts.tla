--------------------------- MODULE DashboardAccounts ---------------------------
(***************************************************************************)
(* The administrators' side of the accounts: dashboard sessions and their  *)
(* CSRF tokens (routes/dashboard_session.py), the administration of users  *)
(* (routes/admin_users.py), the first administrator (db/seed.py,           *)
(* routes/setup.py), and the pages that use them (dashboard/src/session.ts *)
(* and the users and filters pages).                                       *)
(*                                                                         *)
(* Tabs of one browser share its cookies; each tab also remembers a token  *)
(* of its own until it is loaded again.  A tab handles one request at a    *)
(* time, whose phases on the server are phases of the tab.                 *)
(***************************************************************************)
EXTENDS Naturals, FiniteSets, Functions

CONSTANTS Rows, Logins, AdminLogin, Tabs, Browsers, Sessions, Secrets, None, MaxRequests

ASSUME DashboardConstants ==
  /\ MaxRequests \in Nat
  /\ AdminLogin \in Logins
  /\ None \notin Logins \cup Sessions \cup Secrets \cup Rows
  /\ \E f \in [Sessions -> Secrets] : IsInjective(f)

VARIABLES
  user,      \* table users; a row without a login is not there
  session,   \* table dashboard_sessions
  jar,       \* cookies of each browser: the session and the CSRF token
  home,      \* the browser of each tab
  tab,       \* what each tab remembers and the request it has under way
  api,       \* "up", or "failed" when the container could not start
  requests,  \* requests of pages so far, at most MaxRequests
  raced,     \* browsers whose answers were lost or overlapped, or whose user was
             \* no administrator when a token was fetched (history)
  overlap    \* two administrators' changes overlapped (history)

vars == <<user, session, jar, home, tab, api, requests, raced, overlap>>

Absent == [login |-> None, role |-> "USER", status |-> "ACTIVE"]
IsActiveAdmin(row) == row.login # None /\ row.role = "ADMIN" /\ row.status = "ACTIVE"
ActiveAdmins == {r \in Rows : IsActiveAdmin(user[r])}
Admins == {r \in Rows : user[r].login # None /\ user[r].role = "ADMIN"}
RowsOf(login) == {r \in Rows : user[r].login = login}
FreeRows == RowsOf(None)

NoSession == [user |-> None, csrf |-> None, live |-> FALSE]
IdleTab(csrf) == [pc |-> "idle", op |-> "none", csrf |-> csrf, header |-> None, cookie |-> None,
                  answer |-> None, actor |-> None, target |-> None, seen |-> Absent, value |-> "none"]

(* Identifiers nobody holds any more stand for new random ones.            *)
SecretsHeld ==
  {session[s].csrf : s \in Sessions} \cup {jar[b].csrf : b \in Browsers}
    \cup UNION {{tab[t].csrf, tab[t].header, tab[t].answer} : t \in Tabs}
SessionsHeld ==
  {s \in Sessions : session[s].live} \cup {jar[b].session : b \in Browsers}
    \cup UNION {{tab[t].cookie, tab[t].answer} : t \in Tabs}
NewSecret == CHOOSE k \in Secrets : k \notin SecretsHeld
NewSession == CHOOSE s \in Sessions : s \notin SessionsHeld

AccountOps == {"role", "status", "create"}
MovesCookies(t) ==
  tab[t].pc # "idle" /\ (tab[t].op \in {"login", "filter", "logout"} \/ tab[t].pc \in {"fetching", "fetched"})
AtWork(t) == tab[t].pc \in {"authorised", "counting", "ready"}

DefaultAdmin == [login |-> AdminLogin, role |-> "ADMIN", status |-> "ACTIVE"]

(* The table is empty before the first start, holds the administrator, or  *)
(* the administrator and a user somebody has added.  Active administrators *)
(* may be signed in already, each in a browser of their own.               *)
Holders ==
  {h \in [Browsers -> Rows \cup {None}] :
     \A b \in Browsers : h[b] # None =>
       IsActiveAdmin(user[h[b]]) /\ \A c \in Browsers \ {b} : h[c] # h[b]}

Init ==
  /\ \/ user = [x \in Rows |-> Absent]
     \/ \E r \in Rows : user = [[x \in Rows |-> Absent] EXCEPT ![r] = DefaultAdmin]
     \/ \E r \in Rows, role \in {"ADMIN", "USER"}, login \in Logins \ {AdminLogin} :
          \E other \in Rows \ {r} :
            user = [[x \in Rows |-> Absent] EXCEPT
                      ![r] = DefaultAdmin,
                      ![other] = [login |-> login, role |-> role, status |-> "ACTIVE"]]
  /\ \E holder \in Holders, id \in {f \in [Browsers -> Sessions] : IsInjective(f)} :
       LET key == CHOOSE f \in [Sessions -> Secrets] : IsInjective(f)
           signed == {b \in Browsers : holder[b] # None} IN
       /\ session = [s \in Sessions |->
                       IF s \in {id[b] : b \in signed}
                       THEN [user |-> holder[CHOOSE b \in signed : id[b] = s], csrf |-> key[s], live |-> TRUE]
                       ELSE NoSession]
       /\ jar = [b \in Browsers |-> IF b \in signed THEN [session |-> id[b], csrf |-> key[id[b]]]
                                    ELSE [session |-> None, csrf |-> None]]
  /\ home \in [Tabs -> Browsers]
  /\ tab = [t \in Tabs |-> IdleTab(None)]
  /\ api = "up"
  /\ requests = 0
  /\ raced = [b \in Browsers |-> FALSE]
  /\ overlap = FALSE

--------------------------------------------------------------------------------
(* The pages.                                                              *)

Jar(t) == jar[home[t]]

(* Two requests of one browser whose answers set cookies may be answered   *)
(* in another order than they were served.                                 *)
Overtaken(t) == \E o \in Tabs \ {t} : home[o] = home[t] /\ MovesCookies(o)
Note(t, happened) == raced' = [raced EXCEPT ![home[t]] = @ \/ happened]

(* refreshDashboardCsrf(): before every login and every change of a filter *)
(* rule, otherwise only when no token is known.                            *)
Fetch(t, op) ==
  /\ tab[t].pc = "idle"
  /\ \/ op \in {"login", "filter"}
     \/ op \in AccountOps /\ tab[t].csrf = None /\ Jar(t).csrf = None
     \/ op = "logout" /\ tab[t].csrf = None
  /\ tab' = [tab EXCEPT ![t].pc = "fetching", ![t].op = op, ![t].cookie = Jar(t).session]
  /\ Note(t, Overtaken(t))
  /\ requests < MaxRequests /\ requests' = requests + 1
  /\ UNCHANGED <<user, session, jar, home, api, overlap>>

Post(t, op) ==
  /\ tab[t].pc = "idle"
  /\ LET known == IF tab[t].csrf = None /\ op \in AccountOps THEN Jar(t).csrf ELSE tab[t].csrf IN
     /\ op \in AccountOps \cup {"logout"}
     /\ known # None
     /\ tab' = [tab EXCEPT ![t].pc = "sent", ![t].op = op, ![t].header = known,
                           ![t].cookie = Jar(t).session]
  /\ Note(t, op = "logout" /\ Overtaken(t))
  /\ requests < MaxRequests /\ requests' = requests + 1
  /\ UNCHANGED <<user, session, jar, home, api, overlap>>

(* The token arrives, and the request it was fetched for goes out.         *)
TokenArrives(t) ==
  /\ tab[t].pc = "fetched"
  /\ jar' = [jar EXCEPT ![home[t]].csrf = tab[t].answer]
  /\ tab' = [tab EXCEPT ![t].pc = "sent", ![t].csrf = tab[t].answer, ![t].header = tab[t].answer,
                        ![t].answer = None, ![t].cookie = Jar(t).session]
  /\ UNCHANGED <<user, session, home, api, raced, overlap, requests>>

(* The answer to a login or a logout arrives, and another page is loaded.  *)
AnswerArrives(t) ==
  /\ tab[t].pc = "answered"
  /\ jar' = [jar EXCEPT ![home[t]] = [session |-> tab[t].answer, csrf |-> tab[t].header]]
  /\ tab' = [tab EXCEPT ![t] = IdleTab(None)]
  /\ UNCHANGED <<user, session, home, api, raced, overlap, requests>>

(* The network, or the user who closes the page, loses an answer.          *)
AnswerLost(t) ==
  /\ tab[t].pc \in {"fetched", "answered"}
  /\ tab' = [tab EXCEPT ![t] = IdleTab(tab[t].csrf)]
  /\ Note(t, TRUE)
  /\ UNCHANGED <<user, session, jar, home, api, overlap, requests>>

Reload(t) ==
  /\ tab[t].pc = "idle"
  /\ tab[t].csrf # None
  /\ tab' = [tab EXCEPT ![t] = IdleTab(None)]
  /\ requests < MaxRequests /\ requests' = requests + 1
  /\ UNCHANGED <<user, session, jar, home, api, raced, overlap>>

Page(t) ==
  \/ api = "up" /\ \E op \in AccountOps \cup {"login", "filter", "logout"} : Fetch(t, op) \/ Post(t, op)
  \/ TokenArrives(t) \/ AnswerArrives(t) \/ AnswerLost(t) \/ Reload(t)

--------------------------------------------------------------------------------
(* Sessions.                                                               *)

(* _load_dashboard_session(): 401 without a live session, 403 unless it    *)
(* belongs to an active administrator.                                     *)
Loads(s) == s # None /\ session[s].live /\ IsActiveAdmin(user[session[s].user])

(* Only the answers to a login and a logout set cookies; with any other    *)
(* answer the tab is as it was, whether it arrives or not.                 *)
SetCookies(t, answer, csrf) ==
  tab' = [tab EXCEPT ![t] = [IdleTab(tab[t].csrf) EXCEPT
                               !.pc = "answered", !.op = tab[t].op, !.answer = answer, !.header = csrf]]
Settle(t) == tab' = [tab EXCEPT ![t] = IdleTab(tab[t].csrf)]
Refuse(t) == Settle(t) /\ UNCHANGED <<user, session>>

ServeCsrfKeepsRow(t) ==
  /\ tab[t].pc = "fetching"
  /\ Secrets \ SecretsHeld # {}
  /\ tab' = [tab EXCEPT ![t].pc = "fetched", ![t].answer = NewSecret]
  /\ UNCHANGED <<user, session>>
ServeCsrf(t) ==
  /\ tab[t].pc = "fetching"
  /\ Secrets \ SecretsHeld # {}
  /\ tab' = [tab EXCEPT ![t].pc = "fetched", ![t].answer = NewSecret]
  /\ session' = IF Loads(tab[t].cookie) THEN [session EXCEPT ![tab[t].cookie].csrf = NewSecret]
                ELSE session
  /\ UNCHANGED user

(* The header repeats the cookie that the page has just been given.        *)
ServeLogin(t) ==
  /\ tab[t].pc = "sent"
  /\ tab[t].op = "login"
  /\ \E r \in Rows \ FreeRows :
       IF ~IsActiveAdmin(user[r]) THEN Refuse(t)
       ELSE /\ Sessions \ SessionsHeld # {}
            /\ session' = [session EXCEPT ![NewSession] =
                             [user |-> r, csrf |-> tab[t].header, live |-> TRUE]]
            /\ SetCookies(t, NewSession, tab[t].header)
            /\ UNCHANGED user

(* require_dashboard_admin_mutation commits a transaction of its own; the  *)
(* handler goes on with the user it returned.                              *)
Admitted(t) == Loads(tab[t].cookie) /\ session[tab[t].cookie].csrf = tab[t].header

Authorise(t) ==
  /\ tab[t].pc = "sent"
  /\ tab[t].op # "login"
  /\ IF ~Admitted(t) THEN Refuse(t)
     ELSE CASE tab[t].op = "logout" ->
                 /\ session' = [session EXCEPT ![tab[t].cookie] = NoSession]
                 /\ SetCookies(t, None, None)
                 /\ UNCHANGED user
            [] tab[t].op = "filter" -> Settle(t) /\ UNCHANGED <<user, session>>
            [] OTHER -> /\ tab' = [tab EXCEPT ![t].pc = "authorised",
                                              ![t].actor = session[tab[t].cookie].user]
                        /\ UNCHANGED <<user, session>>

SessionExpires ==
  /\ \E s \in Sessions : session[s].live /\ session' = [session EXCEPT ![s] = NoSession]
  /\ UNCHANGED <<user, jar, home, tab, api, raced, overlap, requests>>

--------------------------------------------------------------------------------
(* Administration of users.                                                *)

Values(op) == IF op = "role" THEN {"ADMIN", "USER"} ELSE {"ACTIVE", "DISABLED"}
RemovalOfStatus(value) == value = "DISABLED"
Removal(value) == value \in {"USER", "DISABLED"}

(* The row of the administrator is still in the identity map of the        *)
(* session, as the authorisation loaded it.                                *)
SeenRow(t, r) == IF r = tab[t].actor THEN [user[r] EXCEPT !.role = "ADMIN", !.status = "ACTIVE"]
                 ELSE user[r]

ReadTarget(t) ==
  /\ tab[t].pc = "authorised"
  /\ tab[t].op \in {"role", "status"}
  /\ UNCHANGED <<user, session>>
  /\ \E r \in Rows \ FreeRows, value \in Values(tab[t].op) :
       \/ /\ Removal(value) /\ r = tab[t].actor
          /\ Settle(t)
       \/ /\ ~(Removal(value) /\ r = tab[t].actor)
          /\ tab' = [tab EXCEPT ![t].pc = IF Removal(value) /\ IsActiveAdmin(SeenRow(t, r))
                                          THEN "counting" ELSE "ready",
                                ![t].target = r, ![t].seen = SeenRow(t, r), ![t].value = value]

(* _ensure_not_removing_last_active_admin()                                *)
CountAdmins(t) ==
  /\ tab[t].pc = "counting"
  /\ IF Cardinality(ActiveAdmins) <= 1 THEN Refuse(t)
     ELSE tab' = [tab EXCEPT ![t].pc = "ready"] /\ UNCHANGED <<user, session>>

(* The UPDATE names the column only when it differs from what was read.    *)
CommitRow(t) ==
  /\ tab[t].pc = "ready"
  /\ tab[t].op \in {"role", "status"}
  /\ user' = IF tab[t].value = tab[t].seen[tab[t].op] THEN user
             ELSE IF tab[t].op = "role" THEN [user EXCEPT ![tab[t].target].role = tab[t].value]
             ELSE [user EXCEPT ![tab[t].target].status = tab[t].value]
  /\ Settle(t)
  /\ UNCHANGED session

FindLogin(t) ==
  /\ tab[t].pc = "authorised"
  /\ tab[t].op = "create"
  /\ UNCHANGED <<user, session>>
  /\ \E login \in Logins, role \in {"ADMIN", "USER"} :
       IF RowsOf(login) # {} THEN Settle(t)
       ELSE tab' = [tab EXCEPT ![t].pc = "ready", ![t].value = role, ![t].seen.login = login]

(* uq_users_login_id_normalized turns a second insert into a 409.          *)
CommitCreate(t) ==
  /\ tab[t].pc = "ready"
  /\ tab[t].op = "create"
  /\ IF RowsOf(tab[t].seen.login) # {} THEN Refuse(t)
     ELSE /\ \E free \in FreeRows :
               user' = [user EXCEPT ![free] = [login |-> tab[t].seen.login,
                                               role |-> tab[t].value, status |-> "ACTIVE"]]
          /\ Settle(t)
          /\ UNCHANGED session

Handler(t) ==
  /\ api = "up"
  /\ \/ ServeCsrf(t) \/ ServeLogin(t) \/ Authorise(t)
     \/ ReadTarget(t) \/ CountAdmins(t) \/ CommitRow(t) \/ FindLogin(t) \/ CommitCreate(t)
  /\ overlap' = (overlap \/ (AtWork(t) /\ \E o \in Tabs \ {t} : AtWork(o)))
  /\ raced' = [raced EXCEPT ![home[t]] =
                 @ \/ (tab[t].pc = "fetching" /\ tab[t].cookie # None
                         /\ session[tab[t].cookie].live /\ ~Loads(tab[t].cookie))]
  /\ UNCHANGED <<jar, home, api, requests>>

--------------------------------------------------------------------------------
(* The first administrator.                                                *)

Bootstrap ==
  /\ api = "up"
  /\ Admins = {} /\ RowsOf(AdminLogin) = {}
  /\ \E free \in FreeRows : user' = [user EXCEPT ![free] = DefaultAdmin]
  /\ UNCHANGED <<session, jar, home, tab, api, raced, overlap, requests>>

(* ensure_default_admin() takes whichever row the database returns first,  *)
(* and fails when it is not the one that has the login already.            *)
SeedKeepsRow ==
  LET found == Admins \cup RowsOf(AdminLogin) IN
  \/ /\ found = {}
     /\ \E free \in FreeRows : user' = [user EXCEPT ![free] = DefaultAdmin]
     /\ api' = "up"
  \/ found # {} /\ UNCHANGED user /\ api' = "up"
Seed ==
  LET found == Admins \cup RowsOf(AdminLogin) IN
  \/ /\ found = {}
     /\ \E free \in FreeRows : user' = [user EXCEPT ![free] = DefaultAdmin]
     /\ api' = "up"
  \/ \E r \in found :
       IF RowsOf(AdminLogin) \subseteq {r}
       THEN user' = [user EXCEPT ![r] = DefaultAdmin] /\ api' = "up"
       ELSE UNCHANGED user /\ api' = "failed"

(* The container restarts; requests under way end with an error.           *)
Restart ==
  /\ Seed
  /\ tab' = [t \in Tabs |-> IdleTab(tab[t].csrf)]
  /\ raced' = [b \in Browsers |-> raced[b] \/ \E t \in Tabs : home[t] = b /\ tab[t].pc # "idle"]
  /\ UNCHANGED <<session, jar, home, overlap, requests>>

Next ==
  \/ \E t \in Tabs : Page(t) \/ Handler(t)
  \/ SessionExpires \/ Bootstrap \/ Restart

Spec == Init /\ [][Next]_vars

--------------------------------------------------------------------------------
(* Properties.                                                             *)

UserRow == [login : Logins \cup {None}, role : {"ADMIN", "USER"}, status : {"ACTIVE", "DISABLED"}]

Phases == {"idle", "fetching", "fetched", "sent", "answered", "authorised", "counting", "ready"}
Operations == AccountOps \cup {"none", "login", "filter", "logout"}
Answers == Sessions \cup Secrets \cup {None}
NewValues == {"none", "ADMIN", "USER", "ACTIVE", "DISABLED"}

TabState ==
  [pc : Phases, op : Operations, csrf : Secrets \cup {None}, header : Secrets \cup {None},
   cookie : Sessions \cup {None}, answer : Answers, actor : Rows \cup {None},
   target : Rows \cup {None}, seen : UserRow, value : NewValues]

TypeOK ==
  /\ user \in [Rows -> UserRow]
  /\ session \in [Sessions -> [user : Rows \cup {None}, csrf : Secrets \cup {None}, live : BOOLEAN]]
  /\ jar \in [Browsers -> [session : Sessions \cup {None}, csrf : Secrets \cup {None}]]
  /\ home \in [Tabs -> Browsers]
  /\ tab \in [Tabs -> TabState]
  /\ api \in {"up", "failed"}
  /\ requests \in 0 .. MaxRequests
  /\ raced \in [Browsers -> BOOLEAN]
  /\ overlap \in BOOLEAN

(* Rotation keeps cookie and row in step: in a browser whose cookie-setting *)
(* answers neither overlapped nor were lost, and whose user was an         *)
(* administrator at every fetch, the CSRF cookie is the token that the row *)
(* of its live session asks for.                              *)
CookieInStep ==
  \A b \in Browsers :
    (/\ ~raced[b] /\ jar[b].session # None /\ session[jar[b].session].live
     /\ \A t \in Tabs : home[t] = b => ~MovesCookies(t))
      => jar[b].csrf = session[jar[b].session].csrf

(* The rules against removing the last administrator hold whatever the     *)
(* administrators ask for, as long as their changes do not overlap.        *)
SerialKeepsAdmin == ~overlap => (ActiveAdmins # {} \/ FreeRows = Rows)

(* A start that succeeds leaves an active administrator, also when the     *)
(* administrators had removed each other.                                  *)
RestartRestores == [][Restart => (api' = "failed" \/ ActiveAdmins' # {})]_vars

(* What the interface promises about changes of roles and states: the last *)
(* active administrator is neither demoted nor disabled.                   *)
AdminRemains == [][ActiveAdmins # {} => ActiveAdmins' # {}]_vars

(* Seeding is idempotent: the container that has started once starts again. *)
StartsAgain == api = "up"
================================================================================
