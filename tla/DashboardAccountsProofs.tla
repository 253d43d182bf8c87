------------------------ MODULE DashboardAccountsProofs ------------------------
(***************************************************************************)
(* DashboardAccounts for any number of browsers, tabs, rows and requests.  *)
(*                                                                         *)
(* Two arguments.  A session is known to one browser only, and a browser   *)
(* whose answers did not race has one request at most that moves its       *)
(* cookies: what that request has reached says which of the row, the jar   *)
(* and the answer under way holds the new token.  And an administrator at  *)
(* work stays one until another change overlaps, so that whoever is        *)
(* removed, the one who removes remains.                                   *)
(*                                                                         *)
(* Then AccountSessions, for any number of users, token pairs, calls and   *)
(* deaths of the background worker.  Everything rests on one fact about    *)
(* refresh_tokens: a committed row stays, keeps its user and its parent,   *)
(* and never goes back from revoked to live.                               *)
(***************************************************************************)
EXTENDS DashboardAccounts, AccountSessions, TLAPS

LEMMA Constants ==
  /\ AdminLogin \in Logins /\ None \notin Logins /\ None \notin Sessions
  /\ None \notin Secrets /\ None \notin Rows /\ MaxRequests \in Nat
BY DashboardConstants

-------------------------------------------------------------------------------
(* What the steps do to a tab and to the history. *)

(* Only tab t changes. *)
TabBecomes(t, state) == /\ state \in TabState
                        /\ tab' \in [Tabs -> TabState]
                        /\ tab'[t] = state
                        /\ \A o \in Tabs : o # t => tab'[o] = tab[o]

LEMMA TabChanges ==
  ASSUME TypeOK, NEW t \in Tabs, NEW state \in TabState, tab' = [tab EXCEPT ![t] = state]
  PROVE  TabBecomes(t, state)
BY DEF TypeOK, TabBecomes

LEMMA TabForm ==
  ASSUME TypeOK, NEW t \in Tabs
  PROVE  /\ tab \in [Tabs -> TabState] /\ tab[t] \in TabState
         /\ home[t] \in Browsers /\ home \in [Tabs -> Browsers]
         /\ jar \in [Browsers -> [session : Sessions \cup {None}, csrf : Secrets \cup {None}]]
         /\ jar[home[t]].session \in Sessions \cup {None} /\ jar[home[t]].csrf \in Secrets \cup {None}
BY DEF TypeOK

LEMMA AbsentRow == Absent \in UserRow /\ DefaultAdmin \in UserRow
BY Constants DEF Absent, DefaultAdmin, UserRow

LEMMA IdleForm ==
  ASSUME NEW csrf \in Secrets \cup {None}
  PROVE  /\ IdleTab(csrf) \in TabState
         /\ IdleTab(csrf).pc = "idle" /\ IdleTab(csrf).op = "none" /\ IdleTab(csrf).csrf = csrf
         /\ IdleTab(csrf).cookie = None /\ IdleTab(csrf).answer = None
<1>1. "idle" \in Phases /\ "none" \in Operations /\ "none" \in NewValues /\ None \in Answers
  BY DEF Phases, Operations, NewValues, Answers
<1> QED
  BY <1>1, AbsentRow DEF IdleTab, TabState

LEMMA Settles ==
  ASSUME TypeOK, NEW t \in Tabs, Settle(t)
  PROVE  /\ TabBecomes(t, IdleTab(tab[t].csrf))
         /\ tab'[t].pc = "idle" /\ tab'[t].op = "none" /\ tab'[t].cookie = None /\ tab'[t].answer = None
<1>1. tab[t].csrf \in Secrets \cup {None}
  BY DEF TypeOK, TabState
<1>2. TabBecomes(t, IdleTab(tab[t].csrf))
  BY <1>1, IdleForm, TabChanges DEF Settle
<1> QED
  BY <1>1, <1>2, IdleForm DEF TabBecomes

LEMMA CookiesSet ==
  ASSUME TypeOK, NEW t \in Tabs, NEW answer \in Sessions \cup {None}, NEW csrf \in Secrets \cup {None},
         SetCookies(t, answer, csrf)
  PROVE  /\ \A o \in Tabs : o # t => tab'[o] = tab[o]
         /\ tab' \in [Tabs -> TabState]
         /\ tab'[t].pc = "answered" /\ tab'[t].op = tab[t].op /\ tab'[t].cookie = None
         /\ tab'[t].answer = answer /\ tab'[t].header = csrf
<1> DEFINE state == [IdleTab(tab[t].csrf) EXCEPT !.pc = "answered", !.op = tab[t].op, !.answer = answer, !.header = csrf]
<1>1. tab[t].csrf \in Secrets \cup {None} /\ tab[t].op \in Operations
  BY DEF TypeOK, TabState
<1>2. IdleTab(tab[t].csrf) \in TabState /\ IdleTab(tab[t].csrf).cookie = None
  BY <1>1, IdleForm
<1>3. /\ state \in TabState
      /\ state.pc = "answered" /\ state.op = tab[t].op /\ state.cookie = None
      /\ state.answer = answer /\ state.header = csrf
  <2>1. ASSUME NEW idle \in TabState, NEW op \in Operations
        PROVE  [idle EXCEPT !.pc = "answered", !.op = op, !.answer = answer, !.header = csrf] \in TabState
    <3>1. answer \in Answers /\ "answered" \in Phases
      BY DEF Answers, Phases
    <3> QED
      BY <3>1 DEF TabState
  <2>2. state \in TabState
    BY <1>1, <1>2, <2>1
  <2> QED
    BY <1>2, <2>2 DEF IdleTab
<1>4. tab' = [tab EXCEPT ![t] = state]
  BY DEF SetCookies
<1> HIDE DEF state
<1>5. TabBecomes(t, state)
  BY <1>3, <1>4, TabChanges
<1> QED
  BY <1>3, <1>5 DEF TabBecomes

LEMMA Noted ==
  ASSUME TypeOK, NEW t \in Tabs, NEW happened \in BOOLEAN,
         raced' = [raced EXCEPT ![home[t]] = raced[home[t]] \/ happened]
  PROVE  /\ raced' \in [Browsers -> BOOLEAN]
         /\ \A b \in Browsers : raced[b] => raced'[b]
         /\ happened => raced'[home[t]]
         /\ \A b \in Browsers : b # home[t] => raced'[b] = raced[b]
<1>1. raced \in [Browsers -> BOOLEAN] /\ home[t] \in Browsers
  BY DEF TypeOK
<1>2. (raced[home[t]] \/ happened) \in BOOLEAN
  OBVIOUS
<1>3. raced'[home[t]] = (raced[home[t]] \/ happened) /\ \A b \in Browsers : b # home[t] => raced'[b] = raced[b]
  BY <1>1
<1> QED
  BY <1>1, <1>2, <1>3

-------------------------------------------------------------------------------
(* The invariant. *)

TabsOf(b) == {t \in Tabs : home[t] = b}

(* What a change of a user that was read carries. *)
Carries(t) ==
  /\ tab[t].op \in {"role", "status"} => tab[t].target \in Rows /\ tab[t].value \in Values(tab[t].op)
  /\ tab[t].op = "create" => tab[t].value \in {"ADMIN", "USER"}

(* What an answer under way holds, and which operations get how far. *)
Stages == \A t \in Tabs :
  /\ tab[t].pc # "idle" => tab[t].op # "none"
  /\ tab[t].pc = "fetched" => tab[t].answer \in Secrets
  /\ tab[t].pc = "answered" => tab[t].answer \in Sessions \cup {None} /\ tab[t].op \in {"login", "logout"}
  /\ AtWork(t) => tab[t].op \in AccountOps
  /\ tab[t].pc = "counting" => tab[t].op \in {"role", "status"}
  /\ tab[t].pc \in {"counting", "ready"} => Carries(t)

SessionsOwned == \A s \in Sessions : session[s].live => session[s].user \in Rows

Holds(b, s) == \/ jar[b].session = s
               \/ \E t \in TabsOf(b) : \/ tab[t].cookie = s
                                       \/ tab[t].pc = "answered" /\ tab[t].answer = s

OneBrowser == \A s \in Sessions : \A b, c \in Browsers : Holds(b, s) /\ Holds(c, s) => b = c

(* One request of the browser moves its cookies.  While it has a new token  *)
(* the row asks for that one, otherwise for the one in the jar; and a new   *)
(* session asks for the token that comes with it.                           *)
Alone(b) == \A t, o \in TabsOf(b) : MovesCookies(t) /\ MovesCookies(o) => t = o
FetchesForJar(b) == \A t \in TabsOf(b) : tab[t].pc = "fetching" => tab[t].cookie = jar[b].session
RowInStep(b) == jar[b].session # None /\ session[jar[b].session].live =>
  /\ \A t \in TabsOf(b) : tab[t].pc = "fetched" => session[jar[b].session].csrf = tab[t].answer
  /\ (\A t \in TabsOf(b) : tab[t].pc # "fetched") => session[jar[b].session].csrf = jar[b].csrf
AnswerInStep(b) == \A t \in TabsOf(b) :
  tab[t].pc = "answered" /\ tab[t].answer # None /\ session[tab[t].answer].live =>
    session[tab[t].answer].csrf = tab[t].header

Rotation(b) == ~raced[b] => Alone(b) /\ FetchesForJar(b) /\ RowInStep(b) /\ AnswerInStep(b)
InStep == \A b \in Browsers : Rotation(b)

(* Until another change overlaps, an administrator at work is one, and does *)
(* not work on the own row to remove it.                                    *)
WorksAsAdmin(t) ==
  /\ tab[t].actor # None /\ IsActiveAdmin(user[tab[t].actor])
  /\ tab[t].pc \in {"counting", "ready"} /\ tab[t].op \in {"role", "status"} /\ Removal(tab[t].value)
       => tab[t].target # tab[t].actor
Working == ~overlap => \A t \in Tabs : AtWork(t) => WorksAsAdmin(t)

Ind == /\ TypeOK /\ Stages /\ SessionsOwned /\ OneBrowser /\ InStep
       /\ Working /\ SerialKeepsAdmin

-------------------------------------------------------------------------------
(* What a step leaves alone. *)

Others(t) == /\ tab' \in [Tabs -> TabState]
             /\ \A o \in Tabs : o # t => tab'[o] = tab[o]

LEMMA StagesKept ==
  ASSUME Stages, NEW t \in Tabs, Others(t),
         /\ tab'[t].pc # "idle" => tab'[t].op # "none"
         /\ tab'[t].pc = "fetched" => tab'[t].answer \in Secrets
         /\ tab'[t].pc = "answered" => tab'[t].answer \in Sessions \cup {None} /\ tab'[t].op \in {"login", "logout"}
         /\ tab'[t].pc \in {"authorised", "counting", "ready"} => tab'[t].op \in AccountOps
         /\ tab'[t].pc = "counting" => tab'[t].op \in {"role", "status"}
         /\ tab'[t].pc \in {"counting", "ready"} => Carries(t)'
  PROVE  Stages'
BY DEF Stages, Others, AtWork, Carries

(* Nobody starts or goes on to administer users. *)
LEMMA WorkKept ==
  ASSUME Working, SerialKeepsAdmin, user' = user, overlap => overlap',
         \A o \in Tabs : tab'[o].pc \in {"authorised", "counting", "ready"} => tab'[o] = tab[o]
  PROVE  Working' /\ SerialKeepsAdmin'
<1>1. ActiveAdmins' = ActiveAdmins /\ FreeRows' = FreeRows
  BY DEF ActiveAdmins, FreeRows, RowsOf
<1>2. SerialKeepsAdmin'
  BY <1>1 DEF SerialKeepsAdmin
<1>3. ASSUME ~overlap', NEW o \in Tabs, AtWork(o)' PROVE WorksAsAdmin(o)'
  <2>1. tab'[o] = tab[o] /\ AtWork(o)
    BY <1>3 DEF AtWork
  <2>2. WorksAsAdmin(o)
    BY <1>3, <2>1 DEF Working
  <2> QED
    BY <2>1, <2>2 DEF WorksAsAdmin
<1> QED
  BY <1>2, <1>3 DEF Working

(* No browser learns of a session that another one knows. *)
LEMMA OneBrowserKept ==
  ASSUME OneBrowser,
         \A s \in Sessions : \A b \in Browsers : Holds(b, s)' => Holds(b, s)
  PROVE  OneBrowser'
BY DEF OneBrowser

LEMMA HoldsKept ==
  ASSUME TypeOK, OneBrowser, NEW t \in Tabs, Others(t), home' = home,
         \A b \in Browsers : b # home[t] => jar'[b] = jar[b],
         jar'[home[t]].session \in {jar[home[t]].session, None}
           \/ (tab[t].pc = "answered" /\ jar'[home[t]].session = tab[t].answer),
         tab'[t].cookie \in {None, tab[t].cookie, jar[home[t]].session},
         tab'[t].pc = "answered" => tab'[t].answer = None
  PROVE  OneBrowser'
<1> SUFFICES ASSUME NEW s \in Sessions, NEW b \in Browsers, Holds(b, s)' PROVE Holds(b, s)
  BY OneBrowserKept
<1>0. s # None
  BY Constants
<1>1. CASE jar'[b].session = s
  BY <1>0, <1>1 DEF Holds, TabsOf
<1>2. ASSUME NEW o \in Tabs, home[o] = b, tab'[o].cookie = s \/ (tab'[o].pc = "answered" /\ tab'[o].answer = s)
      PROVE  Holds(b, s)
  <2>1. CASE o # t
    BY <1>2, <2>1 DEF Holds, TabsOf, Others
  <2>2. CASE o = t
    BY <1>0, <1>2, <2>2 DEF Holds, TabsOf
  <2> QED
    BY <2>1, <2>2
<1> QED
  BY <1>1, <1>2 DEF Holds, TabsOf

(* A browser does not notice what happens to sessions it does not hold, and *)
(* nobody asks a session that has ended.                                    *)
LEMMA OtherBrowser ==
  ASSUME TypeOK, Stages, NEW c \in Browsers, Rotation(c), home' = home,
         raced[c] => raced'[c], jar'[c] = jar[c],
         \A t \in TabsOf(c) : tab'[t] = tab[t],
         \A s \in Sessions : session'[s] = session[s] \/ ~Holds(c, s) \/ ~session'[s].live
  PROVE  Rotation(c)'
<1> SUFFICES ASSUME ~raced[c]
             PROVE  Alone(c)' /\ FetchesForJar(c)' /\ RowInStep(c)' /\ AnswerInStep(c)'
  BY DEF Rotation
<1>0. /\ TabsOf(c)' = TabsOf(c) /\ \A t \in TabsOf(c) : t \in Tabs /\ home[t] = c
      /\ jar[c].session \in Sessions \cup {None}
  BY DEF TabsOf, TypeOK
<1>1. Alone(c) /\ FetchesForJar(c) /\ RowInStep(c) /\ AnswerInStep(c)
  BY DEF Rotation
<1>2. Alone(c)'
  BY <1>0, <1>1 DEF Alone, MovesCookies
<1>3. FetchesForJar(c)'
  BY <1>0, <1>1 DEF FetchesForJar
<1>4. RowInStep(c)'
  <2>1. jar[c].session # None => Holds(c, jar[c].session) /\ jar[c].session \in Sessions
    BY <1>0 DEF Holds
  <2> QED
    BY <1>0, <1>1, <2>1 DEF RowInStep
<1>5. AnswerInStep(c)'
  <2> SUFFICES ASSUME NEW t \in TabsOf(c), tab[t].pc = "answered", tab[t].answer # None, session'[tab[t].answer].live
               PROVE  session'[tab[t].answer].csrf = tab[t].header
    BY <1>0 DEF AnswerInStep
  <2>1. tab[t].answer \in Sessions /\ Holds(c, tab[t].answer)
    BY <1>0 DEF Stages, Holds
  <2>2. session'[tab[t].answer] = session[tab[t].answer]
    BY <2>1
  <2> QED
    BY <1>1, <2>2 DEF AnswerInStep
<1> QED
  BY <1>2, <1>3, <1>4, <1>5

(* Requests that neither fetch a token nor set a cookie. *)
LEMMA QuietTab ==
  ASSUME TypeOK, NEW t \in Tabs, Others(t), InStep, home' = home, jar' = jar, session' = session,
         \A b \in Browsers : raced[b] => raced'[b],
         tab[t].pc \notin {"fetching", "fetched", "answered"},
         tab'[t].pc \notin {"fetching", "fetched", "answered"},
         MovesCookies(t)' => MovesCookies(t)
  PROVE  InStep'
<1> SUFFICES ASSUME NEW b \in Browsers, ~raced[b]
             PROVE  Alone(b)' /\ FetchesForJar(b)' /\ RowInStep(b)' /\ AnswerInStep(b)'
  BY DEF InStep, Rotation
<1>0. TabsOf(b)' = TabsOf(b) /\ TabsOf(b) \subseteq Tabs
  BY DEF TabsOf
<1>1. Alone(b) /\ FetchesForJar(b) /\ RowInStep(b) /\ AnswerInStep(b)
  BY DEF InStep, Rotation
<1>2. \A o \in Tabs : o # t => tab'[o] = tab[o]
  BY DEF Others
<1>3. Alone(b)'
  <2>1. \A o \in Tabs : MovesCookies(o)' => MovesCookies(o)
    BY <1>2 DEF MovesCookies
  <2> QED
    BY <1>0, <1>1, <2>1 DEF Alone
<1>4. FetchesForJar(b)'
  BY <1>0, <1>1, <1>2 DEF FetchesForJar
<1>5. RowInStep(b)'
  BY <1>0, <1>1, <1>2 DEF RowInStep
<1>6. AnswerInStep(b)'
  BY <1>0, <1>1, <1>2 DEF AnswerInStep
<1> QED
  BY <1>3, <1>4, <1>5, <1>6

-------------------------------------------------------------------------------
(* The pages. *)

LEMMA OverInBoolean == \A t \in Tabs : Overtaken(t) \in BOOLEAN
BY DEF Overtaken

LEMMA FetchStep ==
  ASSUME Ind, NEW t \in Tabs, NEW op \in Operations \ {"none"}, Fetch(t, op)
  PROVE  Ind'
<1> DEFINE state == [tab[t] EXCEPT !.pc = "fetching", !.op = op, !.cookie = Jar(t).session]
<1>0. /\ TypeOK /\ tab[t] \in TabState /\ tab[t].pc = "idle" /\ home[t] \in Browsers
      /\ UNCHANGED <<user, session, jar, home, api, overlap>>
      /\ requests < MaxRequests /\ requests' = requests + 1
      /\ raced' = [raced EXCEPT ![home[t]] = raced[home[t]] \/ Overtaken(t)]
  BY TabForm DEF Ind, Fetch, Note
<1>1. TabBecomes(t, state) /\ state.pc = "fetching" /\ state.op = op /\ state.cookie = jar[home[t]].session
  <2>1. "fetching" \in Phases /\ op \in Operations /\ Jar(t).session \in Sessions \cup {None}
    BY <1>0, TabForm DEF Phases, Jar
  <2>2. state \in TabState
    BY <1>0, <2>1 DEF TabState
  <2>3. tab' = [tab EXCEPT ![t] = state]
    BY <1>0, TabForm DEF Fetch
  <2>4. state.pc = "fetching" /\ state.op = op /\ state.cookie = jar[home[t]].session
    BY <1>0 DEF TabState, Jar
  <2> HIDE DEF state
  <2> QED
    BY <1>0, <2>2, <2>3, <2>4, TabChanges
<1> HIDE DEF state
<1>2. /\ Others(t) /\ tab'[t].pc = "fetching" /\ tab'[t].op # "none" /\ tab'[t].cookie = jar[home[t]].session
      /\ raced' \in [Browsers -> BOOLEAN] /\ \A b \in Browsers : raced[b] => raced'[b]
      /\ \A b \in Browsers : b # home[t] => raced'[b] = raced[b]
      /\ Overtaken(t) => raced'[home[t]]
  BY <1>0, <1>1, Noted, OverInBoolean DEF TabBecomes, Others
<1>3. TypeOK'
  BY <1>0, <1>2, Constants DEF TypeOK, Others
<1>4. Stages' /\ SessionsOwned'
  <2>1. Stages'
    BY <1>0, <1>2, StagesKept DEF Ind, AccountOps
  <2> QED
    BY <1>0, <2>1 DEF Ind, SessionsOwned
<1>5. OneBrowser'
  BY <1>0, <1>2, HoldsKept DEF Ind
<1>6. Working' /\ SerialKeepsAdmin'
  BY <1>0, <1>2, WorkKept DEF Ind, Others
<1>7. InStep'
  <2> SUFFICES ASSUME NEW b \in Browsers PROVE Rotation(b)'
    BY DEF InStep
  <2>0. Rotation(b) /\ Stages
    BY DEF Ind, InStep
  <2>1. CASE b # home[t]
    BY <1>0, <1>2, <2>0, <2>1, OtherBrowser DEF TabsOf, Others
  <2>2. CASE b = home[t] /\ ~raced'[b]
    <3>1. /\ Alone(b) /\ FetchesForJar(b) /\ RowInStep(b) /\ AnswerInStep(b)
          /\ TabsOf(b)' = TabsOf(b) /\ \A o \in TabsOf(b) : o \in Tabs /\ home[o] = home[t]
      BY <1>0, <1>2, <2>0, <2>2 DEF Rotation, TabsOf
    <3>2. \A o \in TabsOf(b) : o # t => ~MovesCookies(o) /\ tab'[o] = tab[o]
      BY <1>2, <2>2, <3>1 DEF Overtaken, Others
    <3>3. Alone(b)'
      BY <3>1, <3>2 DEF Alone, MovesCookies
    <3>4. FetchesForJar(b)'
      BY <1>0, <1>2, <2>2, <3>1, <3>2 DEF FetchesForJar
    <3>5. RowInStep(b)'
      BY <1>0, <1>2, <3>1, <3>2 DEF RowInStep
    <3>6. AnswerInStep(b)'
      BY <1>0, <1>2, <3>1, <3>2 DEF AnswerInStep
    <3> QED
      BY <3>3, <3>4, <3>5, <3>6 DEF Rotation
  <2> QED
    BY <2>1, <2>2 DEF Rotation
<1> QED
  BY <1>3, <1>4, <1>5, <1>6, <1>7 DEF Ind

LEMMA PostStep ==
  ASSUME Ind, NEW t \in Tabs, NEW op, Post(t, op)
  PROVE  Ind'
<1> DEFINE known == IF tab[t].csrf = None /\ op \in AccountOps THEN Jar(t).csrf ELSE tab[t].csrf
           state == [tab[t] EXCEPT !.pc = "sent", !.op = op, !.header = known, !.cookie = Jar(t).session]
<1>0. /\ TypeOK /\ tab[t] \in TabState /\ tab[t].pc = "idle" /\ home[t] \in Browsers
      /\ UNCHANGED <<user, session, jar, home, api, overlap>>
      /\ requests < MaxRequests /\ requests' = requests + 1
      /\ op \in AccountOps \cup {"logout"}
      /\ raced' = [raced EXCEPT ![home[t]] = raced[home[t]] \/ (op = "logout" /\ Overtaken(t))]
  BY TabForm DEF Ind, Post, Note
<1>1. TabBecomes(t, state) /\ state.pc = "sent" /\ state.op = op /\ state.cookie = jar[home[t]].session
  <2>1. /\ "sent" \in Phases /\ op \in Operations /\ Jar(t).session \in Sessions \cup {None}
        /\ known \in Secrets \cup {None}
    <3>1. tab[t].csrf \in Secrets \cup {None} /\ Jar(t).csrf \in Secrets \cup {None}
      BY <1>0, TabForm DEF TabState, Jar
    <3> QED
      BY <1>0, <3>1, TabForm DEF Phases, Operations, Jar
  <2>3. tab' = [tab EXCEPT ![t] = state]
    BY <1>0, TabForm DEF Post
  <2> HIDE DEF known
  <2>2. state \in TabState
    BY <1>0, <2>1 DEF TabState
  <2>4. state.pc = "sent" /\ state.op = op /\ state.cookie = jar[home[t]].session
    BY <1>0 DEF TabState, Jar
  <2> HIDE DEF state
  <2> QED
    BY <1>0, <2>2, <2>3, <2>4, TabChanges
<1> HIDE DEF state, known
<1>2. /\ Others(t) /\ tab'[t].pc = "sent" /\ tab'[t].op = op /\ tab'[t].cookie = jar[home[t]].session
      /\ raced' \in [Browsers -> BOOLEAN] /\ \A b \in Browsers : raced[b] => raced'[b]
      /\ \A b \in Browsers : b # home[t] => raced'[b] = raced[b]
      /\ op = "logout" /\ Overtaken(t) => raced'[home[t]]
  <2>1. (op = "logout" /\ Overtaken(t)) \in BOOLEAN
    OBVIOUS
  <2> QED
    BY <1>0, <1>1, <2>1, Noted DEF TabBecomes, Others
<1>3. TypeOK'
  BY <1>0, <1>2, Constants DEF TypeOK, Others
<1>4. Stages' /\ SessionsOwned'
  <2>1. Stages'
    BY <1>0, <1>2, StagesKept DEF Ind, AccountOps
  <2> QED
    BY <1>0, <2>1 DEF Ind, SessionsOwned
<1>5. OneBrowser'
  BY <1>0, <1>2, HoldsKept DEF Ind
<1>6. Working' /\ SerialKeepsAdmin'
  BY <1>0, <1>2, WorkKept DEF Ind, Others
<1>7. InStep'
  <2>1. CASE op # "logout"
    <3>1. ~MovesCookies(t)'
      BY <1>0, <1>2, <2>1 DEF MovesCookies, AccountOps
    <3> QED
      BY <1>0, <1>2, <3>1, QuietTab DEF Ind
  <2>2. CASE op = "logout"
    <3> SUFFICES ASSUME NEW b \in Browsers PROVE Rotation(b)'
      BY DEF InStep
    <3>0. Rotation(b) /\ Stages
      BY DEF Ind, InStep
    <3>1. CASE b # home[t]
      BY <1>0, <1>2, <3>0, <3>1, OtherBrowser DEF TabsOf, Others
    <3>2. CASE b = home[t] /\ ~raced'[b]
      <4>1. /\ Alone(b) /\ FetchesForJar(b) /\ RowInStep(b) /\ AnswerInStep(b)
            /\ TabsOf(b)' = TabsOf(b) /\ \A o \in TabsOf(b) : o \in Tabs /\ home[o] = home[t]
        BY <1>0, <1>2, <3>0, <3>2 DEF Rotation, TabsOf
      <4>2. \A o \in TabsOf(b) : o # t => ~MovesCookies(o) /\ tab'[o] = tab[o]
        BY <1>2, <2>2, <3>2, <4>1 DEF Overtaken, Others
      <4>3. Alone(b)'
        BY <4>1, <4>2 DEF Alone, MovesCookies
      <4>4. FetchesForJar(b)'
        BY <1>0, <1>2, <4>1, <4>2 DEF FetchesForJar
      <4>5. RowInStep(b)'
        BY <1>0, <1>2, <4>1, <4>2 DEF RowInStep
      <4>6. AnswerInStep(b)'
        BY <1>0, <1>2, <4>1, <4>2 DEF AnswerInStep
      <4> QED
        BY <4>3, <4>4, <4>5, <4>6 DEF Rotation
    <3> QED
      BY <3>1, <3>2 DEF Rotation
  <2> QED
    BY <2>1, <2>2
<1> QED
  BY <1>3, <1>4, <1>5, <1>6, <1>7 DEF Ind

LEMMA TokenStep ==
  ASSUME Ind, NEW t \in Tabs, TokenArrives(t)
  PROVE  Ind'
<1> DEFINE state == [tab[t] EXCEPT !.pc = "sent", !.csrf = tab[t].answer, !.header = tab[t].answer,
                                   !.answer = None, !.cookie = Jar(t).session]
<1>0. /\ TypeOK /\ tab[t] \in TabState /\ tab[t].pc = "fetched" /\ home[t] \in Browsers
      /\ tab[t].answer \in Secrets /\ tab[t].op # "none"
      /\ UNCHANGED <<user, session, home, api, raced, overlap, requests>>
      /\ jar' = [jar EXCEPT ![home[t]] = [jar[home[t]] EXCEPT !.csrf = tab[t].answer]]
  BY TabForm DEF Ind, TokenArrives, Stages
<1>1. TabBecomes(t, state) /\ state.pc = "sent" /\ state.op = tab[t].op /\ state.cookie = jar[home[t]].session
  <2>1. "sent" \in Phases /\ None \in Answers /\ Jar(t).session \in Sessions \cup {None}
    BY <1>0, TabForm DEF Phases, Answers, Jar
  <2>2. state \in TabState
    BY <1>0, <2>1 DEF TabState
  <2>3. tab' = [tab EXCEPT ![t] = state]
    BY <1>0, TabForm DEF TokenArrives
  <2>4. state.pc = "sent" /\ state.op = tab[t].op /\ state.cookie = jar[home[t]].session
    BY <1>0 DEF TabState, Jar
  <2> HIDE DEF state
  <2> QED
    BY <1>0, <2>2, <2>3, <2>4, TabChanges
<1> HIDE DEF state
<1>2. /\ Others(t) /\ tab'[t].pc = "sent" /\ tab'[t].op = tab[t].op /\ tab'[t].cookie = jar[home[t]].session
      /\ jar' \in [Browsers -> [session : Sessions \cup {None}, csrf : Secrets \cup {None}]]
      /\ jar'[home[t]].session = jar[home[t]].session /\ jar'[home[t]].csrf = tab[t].answer
      /\ \A b \in Browsers : b # home[t] => jar'[b] = jar[b]
  BY <1>0, <1>1, TabForm DEF TabBecomes, Others
<1>3. TypeOK'
  BY <1>0, <1>2 DEF TypeOK, Others
<1>4. Stages' /\ SessionsOwned'
  <2>1. Stages'
    BY <1>0, <1>2, StagesKept DEF Ind, AccountOps
  <2> QED
    BY <1>0, <2>1 DEF Ind, SessionsOwned
<1>5. OneBrowser'
  BY <1>0, <1>2, HoldsKept DEF Ind
<1>6. Working' /\ SerialKeepsAdmin'
  BY <1>0, <1>2, WorkKept DEF Ind, Others
<1>7. InStep'
  <2> SUFFICES ASSUME NEW b \in Browsers PROVE Rotation(b)'
    BY DEF InStep
  <2>0. Rotation(b) /\ Stages
    BY DEF Ind, InStep
  <2>1. CASE b # home[t]
    BY <1>0, <1>2, <2>0, <2>1, OtherBrowser DEF TabsOf, Others
  <2>2. CASE b = home[t] /\ ~raced[b]
    <3>1. /\ Alone(b) /\ FetchesForJar(b) /\ RowInStep(b) /\ AnswerInStep(b)
          /\ TabsOf(b)' = TabsOf(b) /\ t \in TabsOf(b)
          /\ \A o \in TabsOf(b) : o \in Tabs /\ home[o] = home[t]
      BY <1>0, <2>0, <2>2 DEF Rotation, TabsOf
    <3>2. \A o \in TabsOf(b) : o # t => ~MovesCookies(o) /\ tab'[o] = tab[o]
      <4>1. MovesCookies(t)
        BY <1>0 DEF MovesCookies
      <4> QED
        BY <1>2, <3>1, <4>1 DEF Alone, Others
    <3>3. Alone(b)'
      BY <3>1, <3>2 DEF Alone, MovesCookies
    <3>4. FetchesForJar(b)'
      BY <1>2, <2>2, <3>1, <3>2 DEF FetchesForJar, MovesCookies
    <3>5. RowInStep(b)'
      BY <1>0, <1>2, <2>2, <3>1, <3>2 DEF RowInStep, MovesCookies
    <3>6. AnswerInStep(b)'
      BY <1>0, <1>2, <3>1, <3>2 DEF AnswerInStep
    <3> QED
      BY <3>3, <3>4, <3>5, <3>6 DEF Rotation
  <2> QED
    BY <1>0, <2>1, <2>2 DEF Rotation
<1> QED
  BY <1>3, <1>4, <1>5, <1>6, <1>7 DEF Ind

LEMMA AnswerStep ==
  ASSUME Ind, NEW t \in Tabs, AnswerArrives(t)
  PROVE  Ind'
<1>0. /\ TypeOK /\ tab[t] \in TabState /\ tab[t].pc = "answered" /\ home[t] \in Browsers
      /\ tab[t].answer \in Sessions \cup {None} /\ tab[t].op \in {"login", "logout"}
      /\ UNCHANGED <<user, session, home, api, raced, overlap, requests>>
      /\ jar' = [jar EXCEPT ![home[t]] = [session |-> tab[t].answer, csrf |-> tab[t].header]]
  BY TabForm DEF Ind, AnswerArrives, Stages
<1>1. TabBecomes(t, IdleTab(None)) /\ IdleTab(None).pc = "idle" /\ IdleTab(None).cookie = None
  <2>1. tab' = [tab EXCEPT ![t] = IdleTab(None)]
    BY DEF AnswerArrives
  <2> QED
    BY <1>0, <2>1, IdleForm, TabChanges
<1>2. /\ Others(t) /\ tab'[t].pc = "idle" /\ tab'[t].cookie = None
      /\ jar' \in [Browsers -> [session : Sessions \cup {None}, csrf : Secrets \cup {None}]]
      /\ jar'[home[t]].session = tab[t].answer /\ jar'[home[t]].csrf = tab[t].header
      /\ \A b \in Browsers : b # home[t] => jar'[b] = jar[b]
  BY <1>0, <1>1, TabForm DEF TabBecomes, Others, TabState
<1>3. TypeOK'
  BY <1>0, <1>2 DEF TypeOK, Others
<1>4. Stages' /\ SessionsOwned'
  <2>1. Stages'
    BY <1>0, <1>2, StagesKept DEF Ind, AccountOps
  <2> QED
    BY <1>0, <2>1 DEF Ind, SessionsOwned
<1>5. OneBrowser'
  BY <1>0, <1>2, HoldsKept DEF Ind
<1>6. Working' /\ SerialKeepsAdmin'
  BY <1>0, <1>2, WorkKept DEF Ind, Others
<1>7. InStep'
  <2> SUFFICES ASSUME NEW b \in Browsers PROVE Rotation(b)'
    BY DEF InStep
  <2>0. Rotation(b) /\ Stages
    BY DEF Ind, InStep
  <2>1. CASE b # home[t]
    BY <1>0, <1>2, <2>0, <2>1, OtherBrowser DEF TabsOf, Others
  <2>2. CASE b = home[t] /\ ~raced[b]
    <3>1. /\ Alone(b) /\ FetchesForJar(b) /\ RowInStep(b) /\ AnswerInStep(b)
          /\ TabsOf(b)' = TabsOf(b) /\ t \in TabsOf(b)
          /\ \A o \in TabsOf(b) : o \in Tabs /\ home[o] = home[t]
      BY <1>0, <2>0, <2>2 DEF Rotation, TabsOf
    <3>2. \A o \in TabsOf(b) : o # t => ~MovesCookies(o) /\ tab'[o] = tab[o]
      <4>1. MovesCookies(t)
        BY <1>0 DEF MovesCookies
      <4> QED
        BY <1>2, <3>1, <4>1 DEF Alone, Others
    <3>3. Alone(b)'
      BY <3>1, <3>2 DEF Alone, MovesCookies
    <3>4. FetchesForJar(b)'
      BY <1>2, <2>2, <3>1, <3>2 DEF FetchesForJar, MovesCookies
    <3>5. RowInStep(b)'
      BY <1>0, <1>2, <2>2, <3>1, <3>2 DEF RowInStep, AnswerInStep, MovesCookies
    <3>6. AnswerInStep(b)'
      BY <1>0, <1>2, <3>1, <3>2 DEF AnswerInStep
    <3> QED
      BY <3>3, <3>4, <3>5, <3>6 DEF Rotation
  <2> QED
    BY <1>0, <2>1, <2>2 DEF Rotation
<1> QED
  BY <1>3, <1>4, <1>5, <1>6, <1>7 DEF Ind

(* The answer is lost, which is noted, or the page is loaded again. *)
LEMMA DropStep ==
  ASSUME Ind, NEW t \in Tabs, AnswerLost(t) \/ Reload(t)
  PROVE  Ind'
<1>0. /\ TypeOK /\ tab[t] \in TabState /\ home[t] \in Browsers /\ tab[t].csrf \in Secrets \cup {None}
      /\ requests' = requests \/ (requests < MaxRequests /\ requests' = requests + 1)
      /\ UNCHANGED <<user, session, jar, home, api, overlap>>
      /\ \/ tab[t].pc = "idle" /\ raced' = raced
         \/ raced' = [raced EXCEPT ![home[t]] = raced[home[t]] \/ TRUE]
  BY TabForm DEF Ind, AnswerLost, Reload, Note, TabState
<1>1. /\ Others(t) /\ tab'[t].pc = "idle" /\ tab'[t].cookie = None
  <2>1. PICK csrf \in Secrets \cup {None} : tab' = [tab EXCEPT ![t] = IdleTab(csrf)]
    BY <1>0 DEF AnswerLost, Reload
  <2>2. TabBecomes(t, IdleTab(csrf)) /\ IdleTab(csrf).pc = "idle" /\ IdleTab(csrf).cookie = None
    BY <1>0, <2>1, IdleForm, TabChanges
  <2> QED
    BY <2>2 DEF TabBecomes, Others
<1>2. /\ raced' \in [Browsers -> BOOLEAN] /\ \A b \in Browsers : raced[b] => raced'[b]
      /\ \A b \in Browsers : b # home[t] => raced'[b] = raced[b]
      /\ tab[t].pc = "idle" \/ raced'[home[t]]
  <2>1. CASE tab[t].pc = "idle" /\ raced' = raced
    BY <1>0, <2>1 DEF TypeOK
  <2>2. CASE raced' = [raced EXCEPT ![home[t]] = raced[home[t]] \/ TRUE]
    BY <1>0, <2>2, Noted
  <2> QED
    BY <1>0, <2>1, <2>2
<1>3. TypeOK'
  BY <1>0, <1>1, <1>2, Constants DEF TypeOK, Others
<1>4. Stages' /\ SessionsOwned'
  <2>1. Stages'
    BY <1>1, StagesKept DEF Ind
  <2> QED
    BY <1>0, <2>1 DEF Ind, SessionsOwned
<1>5. OneBrowser'
  BY <1>0, <1>1, HoldsKept DEF Ind
<1>6. Working' /\ SerialKeepsAdmin'
  BY <1>0, <1>1, WorkKept DEF Ind, Others
<1>7. InStep'
  <2>1. CASE tab[t].pc = "idle"
    <3>1. ~MovesCookies(t)'
      BY <1>1 DEF MovesCookies
    <3> QED
      BY <1>0, <1>1, <1>2, <2>1, <3>1, QuietTab DEF Ind
  <2>2. CASE raced'[home[t]]
    <3> SUFFICES ASSUME NEW b \in Browsers, b # home[t] PROVE Rotation(b)'
      BY <2>2 DEF InStep, Rotation
    <3>0. Rotation(b) /\ Stages
      BY DEF Ind, InStep
    <3> QED
      BY <1>0, <1>1, <1>2, <3>0, OtherBrowser DEF TabsOf, Others
  <2> QED
    BY <1>2, <2>1, <2>2
<1> QED
  BY <1>3, <1>4, <1>5, <1>6, <1>7 DEF Ind

-------------------------------------------------------------------------------
(* The handlers. *)

LEMMA HandlerNotes ==
  ASSUME TypeOK, NEW t \in Tabs, Handler(t)
  PROVE  /\ UNCHANGED <<jar, home, api, requests>>
         /\ raced' \in [Browsers -> BOOLEAN]
         /\ \A b \in Browsers : raced[b] => raced'[b]
         /\ \A b \in Browsers : b # home[t] => raced'[b] = raced[b]
         /\ tab[t].pc = "fetching" /\ tab[t].cookie # None /\ session[tab[t].cookie].live /\ ~Loads(tab[t].cookie)
              => raced'[home[t]]
         /\ overlap' \in BOOLEAN /\ (overlap => overlap')
         /\ ~overlap' /\ AtWork(t) => \A o \in Tabs : o # t => ~AtWork(o)
<1> DEFINE happened == tab[t].pc = "fetching" /\ tab[t].cookie # None
                         /\ session[tab[t].cookie].live /\ ~Loads(tab[t].cookie)
<1>1. /\ UNCHANGED <<jar, home, api, requests>> /\ overlap \in BOOLEAN
      /\ raced' = [raced EXCEPT ![home[t]] = raced[home[t]] \/ happened]
      /\ overlap' = (overlap \/ (AtWork(t) /\ \E o \in Tabs \ {t} : AtWork(o)))
  BY DEF Handler, TypeOK
<1>2. happened \in BOOLEAN
  OBVIOUS
<1>3. /\ raced' \in [Browsers -> BOOLEAN]
      /\ \A b \in Browsers : raced[b] => raced'[b]
      /\ happened => raced'[home[t]]
      /\ \A b \in Browsers : b # home[t] => raced'[b] = raced[b]
  <2> HIDE DEF happened
  <2> QED
    BY <1>1, <1>2, Noted
<1>4. /\ overlap' \in BOOLEAN /\ (overlap => overlap')
      /\ ~overlap' /\ AtWork(t) => \A o \in Tabs : o # t => ~AtWork(o)
  BY <1>1
<1> QED
  BY <1>1, <1>3, <1>4

LEMMA CsrfStep ==
  ASSUME Ind, NEW t \in Tabs, Handler(t), ServeCsrf(t)
  PROVE  Ind'
<1> DEFINE state == [tab[t] EXCEPT !.pc = "fetched", !.answer = NewSecret]
<1>0. /\ TypeOK /\ tab[t] \in TabState /\ tab[t].pc = "fetching" /\ home[t] \in Browsers
      /\ tab[t].op # "none" /\ user' = user /\ tab[t].cookie \in Sessions \cup {None}
      /\ UNCHANGED <<jar, home, api, requests>>
  BY TabForm, HandlerNotes DEF Ind, ServeCsrf, Stages, TabState
<1>1. NewSecret \in Secrets
  <2>1. \E k \in Secrets : k \notin SecretsHeld
    BY DEF ServeCsrf
  <2> QED
    BY <2>1 DEF NewSecret
<1>2. TabBecomes(t, state) /\ state.pc = "fetched" /\ state.op = tab[t].op
      /\ state.cookie = tab[t].cookie /\ state.answer = NewSecret
  <2>1. "fetched" \in Phases /\ NewSecret \in Answers
    BY <1>1 DEF Phases, Answers
  <2>2. state \in TabState
    BY <1>0, <2>1 DEF TabState
  <2>3. tab' = [tab EXCEPT ![t] = state]
    BY <1>0, TabForm DEF ServeCsrf
  <2>4. state.pc = "fetched" /\ state.op = tab[t].op /\ state.cookie = tab[t].cookie /\ state.answer = NewSecret
    BY <1>0 DEF TabState
  <2> HIDE DEF state
  <2> QED
    BY <1>0, <2>2, <2>3, <2>4, TabChanges
<1> HIDE DEF state
<1>3. /\ Others(t) /\ tab'[t].pc = "fetched" /\ tab'[t].op = tab[t].op /\ tab'[t].cookie = tab[t].cookie
      /\ tab'[t].answer = NewSecret
      /\ raced' \in [Browsers -> BOOLEAN] /\ \A b \in Browsers : raced[b] => raced'[b]
      /\ \A b \in Browsers : b # home[t] => raced'[b] = raced[b]
      /\ overlap' \in BOOLEAN /\ (overlap => overlap')
  BY <1>0, <1>2, HandlerNotes DEF TabBecomes, Others
<1>4. /\ session' \in [Sessions -> [user : Rows \cup {None}, csrf : Secrets \cup {None}, live : BOOLEAN]]
      /\ \A s \in Sessions : session'[s].live <=> session[s].live
      /\ \A s \in Sessions : session'[s].user = session[s].user
      /\ \A s \in Sessions : s # tab[t].cookie => session'[s] = session[s]
      /\ Loads(tab[t].cookie) => session'[tab[t].cookie].csrf = NewSecret
  <2>0. session \in [Sessions -> [user : Rows \cup {None}, csrf : Secrets \cup {None}, live : BOOLEAN]]
    BY <1>0 DEF TypeOK
  <2>1. CASE Loads(tab[t].cookie)
    <3>1. /\ tab[t].cookie \in Sessions
          /\ session' = [session EXCEPT ![tab[t].cookie] = [session[tab[t].cookie] EXCEPT !.csrf = NewSecret]]
      BY <1>0, <2>0, <2>1 DEF Loads, ServeCsrf
    <3> QED
      BY <1>1, <2>0, <2>1, <3>1
  <2>2. CASE ~Loads(tab[t].cookie)
    <3>1. session' = session
      BY <2>2 DEF ServeCsrf
    <3> QED
      BY <2>0, <2>2, <3>1
  <2> QED
    BY <2>1, <2>2
<1>5. TypeOK'
  BY <1>0, <1>3, <1>4 DEF TypeOK, Others
<1>6. Stages' /\ SessionsOwned'
  <2>1. Stages'
    BY <1>0, <1>1, <1>3, StagesKept DEF Ind
  <2> QED
    BY <1>4, <2>1 DEF Ind, SessionsOwned
<1>7. OneBrowser'
  BY <1>0, <1>3, HoldsKept DEF Ind
<1>8. Working' /\ SerialKeepsAdmin'
  BY <1>0, <1>3, WorkKept DEF Ind, Others
<1>9. InStep'
  <2> SUFFICES ASSUME NEW b \in Browsers PROVE Rotation(b)'
    BY DEF InStep
  <2>0. Rotation(b) /\ Stages
    BY DEF Ind, InStep
  <2>1. CASE b # home[t]
    <3>1. tab[t].cookie \in Sessions => ~Holds(b, tab[t].cookie)
      BY <1>0, <2>1 DEF Ind, OneBrowser, Holds, TabsOf
    <3>2. \A s \in Sessions : session'[s] = session[s] \/ ~Holds(b, s) \/ ~session'[s].live
      BY <1>4, <3>1
    <3> QED
      BY <1>0, <1>3, <2>0, <2>1, <3>2, OtherBrowser DEF TabsOf, Others
  <2>2. CASE b = home[t] /\ ~raced'[b]
    <3>1. /\ Alone(b) /\ FetchesForJar(b) /\ RowInStep(b) /\ AnswerInStep(b)
          /\ TabsOf(b)' = TabsOf(b) /\ t \in TabsOf(b)
          /\ \A o \in TabsOf(b) : o \in Tabs /\ home[o] = home[t]
      BY <1>0, <1>3, <2>0, <2>2 DEF Rotation, TabsOf
    <3>2. \A o \in TabsOf(b) : o # t => ~MovesCookies(o) /\ tab'[o] = tab[o]
      <4>1. MovesCookies(t)
        BY <1>0 DEF MovesCookies
      <4> QED
        BY <1>3, <3>1, <4>1 DEF Alone, Others
    <3>3. Alone(b)'
      BY <3>1, <3>2 DEF Alone, MovesCookies
    <3>4. FetchesForJar(b)'
      BY <1>3, <3>1, <3>2 DEF FetchesForJar, MovesCookies
    <3>5. RowInStep(b)'
      <4>1. tab[t].cookie = jar[b].session
        BY <1>0, <3>1 DEF FetchesForJar
      <4>2. ASSUME tab[t].cookie # None, session'[tab[t].cookie].live PROVE session'[tab[t].cookie].csrf = NewSecret
        <5>1. tab[t].cookie \in Sessions /\ session[tab[t].cookie].live
          BY <1>0, <1>4, <4>2
        <5>2. Loads(tab[t].cookie)
          BY <1>0, <2>2, <4>2, <5>1, HandlerNotes
        <5> QED
          BY <1>4, <5>1, <5>2
      <4>3. \A o \in TabsOf(b) : tab'[o].pc = "fetched" => o = t
        BY <3>2 DEF MovesCookies
      <4> QED
        BY <1>0, <1>3, <3>1, <4>1, <4>2, <4>3 DEF RowInStep
    <3>6. AnswerInStep(b)'
      <4>1. \A o \in TabsOf(b) : tab'[o].pc # "answered"
        BY <1>3, <2>0, <3>1, <3>2 DEF MovesCookies, Stages
      <4> QED
        BY <3>1, <4>1 DEF AnswerInStep
    <3> QED
      BY <3>3, <3>4, <3>5, <3>6 DEF Rotation
  <2> QED
    BY <2>1, <2>2 DEF Rotation
<1> QED
  BY <1>5, <1>6, <1>7, <1>8, <1>9 DEF Ind

(* A request that leaves cookies and sessions alone is answered, or goes on *)
(* to administer users.                                                     *)
LEMMA AccountStep ==
  ASSUME Ind, NEW t \in Tabs, Handler(t), Others(t), session' = session,
         user' \in [Rows -> UserRow],
         tab[t].pc \in {"sent", "authorised", "counting", "ready"},
         tab'[t].pc \in {"idle", "authorised", "counting", "ready"},
         tab'[t].cookie \in {None, tab[t].cookie},
         tab'[t].pc = "idle" \/ tab'[t].op \in AccountOps,
         tab'[t].pc = "counting" => tab'[t].op \in {"role", "status"},
         tab'[t].pc \in {"counting", "ready"} => Carries(t)'
  PROVE  TypeOK' /\ Stages' /\ SessionsOwned' /\ OneBrowser' /\ InStep'
<1>0. /\ TypeOK /\ UNCHANGED <<jar, home, api, requests>>
      /\ raced' \in [Browsers -> BOOLEAN] /\ \A b \in Browsers : raced[b] => raced'[b]
      /\ overlap' \in BOOLEAN
  BY HandlerNotes DEF Ind
<1>1. TypeOK'
  BY <1>0 DEF TypeOK, Others
<1>2. Stages'
  <2>1. tab'[t].pc # "idle" => tab'[t].op # "none"
    BY DEF AccountOps
  <2> QED
    BY <2>1, StagesKept DEF Ind
<1>3. SessionsOwned'
  BY DEF Ind, SessionsOwned
<1>4. OneBrowser'
  BY <1>0, HoldsKept DEF Ind
<1>5. InStep'
  <2>1. ~MovesCookies(t)'
    BY DEF MovesCookies, AccountOps
  <2> QED
    BY <1>0, <2>1, QuietTab DEF Ind
<1> QED
  BY <1>1, <1>2, <1>3, <1>4, <1>5

(* It goes on as an administrator. *)
LEMMA WorkGoesOn ==
  ASSUME Ind, NEW t \in Tabs, Handler(t), Others(t), user' = user, ~overlap' => WorksAsAdmin(t)'
  PROVE  Working' /\ SerialKeepsAdmin'
<1>0. TypeOK /\ Working /\ SerialKeepsAdmin
  BY DEF Ind
<1>1. overlap => overlap'
  BY <1>0, HandlerNotes
<1>2. ActiveAdmins' = ActiveAdmins /\ FreeRows' = FreeRows
  BY DEF ActiveAdmins, FreeRows, RowsOf
<1>3. SerialKeepsAdmin'
  BY <1>0, <1>1, <1>2 DEF SerialKeepsAdmin
<1>4. ASSUME ~overlap', NEW o \in Tabs, AtWork(o)' PROVE WorksAsAdmin(o)'
  <2>1. CASE o = t
    BY <1>4, <2>1
  <2>2. CASE o # t
    <3>1. tab'[o] = tab[o] /\ AtWork(o)
      BY <1>4, <2>2 DEF AtWork, Others
    <3>2. WorksAsAdmin(o)
      BY <1>0, <1>1, <1>4, <3>1 DEF Working
    <3> QED
      BY <3>1, <3>2 DEF WorksAsAdmin
  <2> QED
    BY <2>1, <2>2
<1> QED
  BY <1>3, <1>4 DEF Working

(* A request is refused, or answered without any change. *)
LEMMA SettledStep ==
  ASSUME Ind, NEW t \in Tabs, Handler(t), Settle(t), UNCHANGED <<user, session>>,
         tab[t].pc \in {"sent", "authorised", "counting", "ready"}
  PROVE  Ind'
<1>0. TypeOK /\ user \in [Rows -> UserRow] /\ user' = user /\ session' = session
  BY DEF Ind, TypeOK
<1>1. Others(t) /\ tab'[t].pc = "idle" /\ tab'[t].cookie = None
  BY <1>0, Settles DEF TabBecomes, Others
<1>2. TypeOK' /\ Stages' /\ SessionsOwned' /\ OneBrowser' /\ InStep'
  BY <1>0, <1>1, AccountStep
<1>3. overlap => overlap'
  BY <1>0, HandlerNotes
<1>4. Working' /\ SerialKeepsAdmin'
  BY <1>0, <1>1, <1>3, WorkKept DEF Ind, Others
<1> QED
  BY <1>2, <1>4 DEF Ind

LEMMA LoginStep ==
  ASSUME Ind, NEW t \in Tabs, Handler(t), ServeLogin(t)
  PROVE  Ind'
<1>0. /\ TypeOK /\ tab[t] \in TabState /\ tab[t].pc = "sent" /\ tab[t].op = "login"
      /\ home[t] \in Browsers /\ tab[t].header \in Secrets \cup {None}
      /\ UNCHANGED <<jar, home, api, requests>>
      /\ raced' \in [Browsers -> BOOLEAN] /\ \A b \in Browsers : raced[b] => raced'[b]
      /\ \A b \in Browsers : b # home[t] => raced'[b] = raced[b]
      /\ overlap' \in BOOLEAN /\ (overlap => overlap')
  BY TabForm, HandlerNotes DEF Ind, ServeLogin, TabState
<1>1. CASE Refuse(t)
  BY <1>0, <1>1, SettledStep DEF Refuse
<1>2. ASSUME NEW r \in Rows, Sessions \ SessionsHeld # {}, user' = user,
             session' = [session EXCEPT ![NewSession] = [user |-> r, csrf |-> tab[t].header, live |-> TRUE]],
             SetCookies(t, NewSession, tab[t].header)
      PROVE  Ind'
  <2>1. NewSession \in Sessions /\ NewSession \notin SessionsHeld
    <3>1. \E s \in Sessions : s \notin SessionsHeld
      BY <1>2
    <3> QED
      BY <3>1 DEF NewSession
  <2>2. \A b \in Browsers : ~Holds(b, NewSession)
    BY <2>1 DEF SessionsHeld, Holds, TabsOf
  <2>3. /\ Others(t) /\ tab'[t].pc = "answered" /\ tab'[t].op = "login" /\ tab'[t].cookie = None
        /\ tab'[t].answer = NewSession /\ tab'[t].header = tab[t].header
    BY <1>0, <1>2, <2>1, CookiesSet DEF Others
  <2>4. /\ session' \in [Sessions -> [user : Rows \cup {None}, csrf : Secrets \cup {None}, live : BOOLEAN]]
        /\ \A s \in Sessions : s # NewSession => session'[s] = session[s]
        /\ session'[NewSession].csrf = tab[t].header /\ session'[NewSession].user = r
    BY <1>0, <1>2, <2>1 DEF TypeOK
  <2>5. TypeOK'
    BY <1>0, <1>2, <2>3, <2>4 DEF TypeOK, Others
  <2>6. Stages' /\ SessionsOwned'
    <3>1. Stages'
      BY <2>1, <2>3, StagesKept DEF Ind
    <3> QED
      BY <2>4, <3>1 DEF Ind, SessionsOwned
  <2>7. OneBrowser'
    <3>1. ASSUME NEW s \in Sessions, NEW b \in Browsers, Holds(b, s)', ~Holds(b, s)
          PROVE  s = NewSession /\ b = home[t]
      <4>1. PICK o \in Tabs : home[o] = b /\ (tab'[o].cookie = s \/ (tab'[o].pc = "answered" /\ tab'[o].answer = s))
        BY <1>0, <3>1 DEF Holds, TabsOf
      <4>2. o = t
        BY <2>3, <3>1, <4>1 DEF Holds, TabsOf, Others
      <4> QED
        BY <2>3, <4>1, <4>2, Constants
    <3> QED
      BY <2>2, <3>1 DEF Ind, OneBrowser
  <2>8. Working' /\ SerialKeepsAdmin'
    BY <1>0, <1>2, <2>3, WorkKept DEF Ind, Others
  <2>9. InStep'
    <3> SUFFICES ASSUME NEW b \in Browsers PROVE Rotation(b)'
      BY DEF InStep
    <3>0. Rotation(b) /\ Stages
      BY DEF Ind, InStep
    <3>1. CASE b # home[t]
      <4>1. \A s \in Sessions : session'[s] = session[s] \/ ~Holds(b, s) \/ ~session'[s].live
        BY <2>2, <2>4
      <4> QED
        BY <1>0, <2>3, <3>0, <3>1, <4>1, OtherBrowser DEF TabsOf, Others
    <3>2. CASE b = home[t] /\ ~raced'[b]
      <4>1. /\ Alone(b) /\ FetchesForJar(b) /\ RowInStep(b) /\ AnswerInStep(b)
            /\ TabsOf(b)' = TabsOf(b) /\ t \in TabsOf(b)
            /\ \A o \in TabsOf(b) : o \in Tabs /\ home[o] = home[t]
        BY <1>0, <3>0, <3>2 DEF Rotation, TabsOf
      <4>2. \A o \in TabsOf(b) : o # t => ~MovesCookies(o) /\ tab'[o] = tab[o]
        <5>1. MovesCookies(t)
          BY <1>0 DEF MovesCookies
        <5> QED
          BY <2>3, <4>1, <5>1 DEF Alone, Others
      <4>3. Alone(b)'
        BY <4>1, <4>2 DEF Alone, MovesCookies
      <4>4. FetchesForJar(b)'
        BY <2>3, <4>1, <4>2 DEF FetchesForJar, MovesCookies
      <4>5. RowInStep(b)'
        <5>1. jar[b].session # None => jar[b].session \in Sessions /\ jar[b].session # NewSession
          BY <1>0, <2>2 DEF TypeOK, Holds
        <5>2. \A o \in TabsOf(b) : tab[o].pc # "fetched"
          BY <1>0, <4>2 DEF MovesCookies
        <5>3. jar[b].session # None => session'[jar[b].session] = session[jar[b].session]
          BY <2>4, <5>1
        <5>4. \A o \in TabsOf(b) : tab'[o].pc # "fetched"
          BY <2>3, <4>2 DEF MovesCookies
        <5> QED
          BY <1>0, <4>1, <5>2, <5>3, <5>4 DEF RowInStep
      <4>6. AnswerInStep(b)'
        <5>1. \A o \in TabsOf(b) : tab'[o].pc = "answered" => o = t
          BY <3>0, <4>1, <4>2 DEF MovesCookies, Stages
        <5> QED
          BY <2>3, <2>4, <4>1, <5>1 DEF AnswerInStep
      <4> QED
        BY <4>3, <4>4, <4>5, <4>6 DEF Rotation
    <3> QED
      BY <3>1, <3>2 DEF Rotation
  <2> QED
    BY <2>5, <2>6, <2>7, <2>8, <2>9 DEF Ind
<1> QED
  BY <1>1, <1>2 DEF ServeLogin

LEMMA LogoutStep ==
  ASSUME Ind, NEW t \in Tabs, Handler(t), tab[t].pc = "sent", tab[t].op = "logout", Admitted(t),
         session' = [session EXCEPT ![tab[t].cookie] = NoSession], SetCookies(t, None, None), user' = user
  PROVE  Ind'
<1>0. /\ TypeOK /\ tab[t] \in TabState /\ home[t] \in Browsers
      /\ UNCHANGED <<jar, home, api, requests>>
      /\ raced' \in [Browsers -> BOOLEAN] /\ \A b \in Browsers : raced[b] => raced'[b]
      /\ \A b \in Browsers : b # home[t] => raced'[b] = raced[b]
      /\ overlap' \in BOOLEAN /\ (overlap => overlap')
  BY TabForm, HandlerNotes DEF Ind
<1>1. tab[t].cookie \in Sessions
  BY <1>0 DEF TabState, Admitted, Loads
<1>2. /\ Others(t) /\ tab'[t].pc = "answered" /\ tab'[t].op = "logout" /\ tab'[t].cookie = None
      /\ tab'[t].answer = None
  BY <1>0, CookiesSet DEF Others
<1>3. /\ session' \in [Sessions -> [user : Rows \cup {None}, csrf : Secrets \cup {None}, live : BOOLEAN]]
      /\ \A s \in Sessions : session'[s] = session[s] \/ ~session'[s].live
  <2>1. NoSession \in [user : Rows \cup {None}, csrf : Secrets \cup {None}, live : BOOLEAN] /\ ~NoSession.live
    BY DEF NoSession
  <2> QED
    BY <1>0, <1>1, <2>1 DEF TypeOK
<1>4. TypeOK'
  BY <1>0, <1>2, <1>3 DEF TypeOK, Others
<1>5. Stages' /\ SessionsOwned'
  <2>1. Stages'
    BY <1>2, StagesKept DEF Ind
  <2> QED
    BY <1>3, <2>1 DEF Ind, SessionsOwned
<1>6. OneBrowser'
  BY <1>0, <1>2, HoldsKept DEF Ind
<1>7. Working' /\ SerialKeepsAdmin'
  BY <1>0, <1>2, WorkKept DEF Ind, Others
<1>8. InStep'
  <2> SUFFICES ASSUME NEW b \in Browsers PROVE Rotation(b)'
    BY DEF InStep
  <2>0. Rotation(b) /\ Stages
    BY DEF Ind, InStep
  <2>1. CASE b # home[t]
    BY <1>0, <1>2, <1>3, <2>0, <2>1, OtherBrowser DEF TabsOf, Others
  <2>2. CASE b = home[t] /\ ~raced'[b]
    <3>1. /\ Alone(b) /\ FetchesForJar(b) /\ RowInStep(b) /\ AnswerInStep(b)
          /\ TabsOf(b)' = TabsOf(b) /\ t \in TabsOf(b)
          /\ \A o \in TabsOf(b) : o \in Tabs /\ home[o] = home[t]
      BY <1>0, <2>0, <2>2 DEF Rotation, TabsOf
    <3>2. \A o \in TabsOf(b) : o # t => ~MovesCookies(o) /\ tab'[o] = tab[o]
      <4>1. MovesCookies(t)
        BY DEF MovesCookies
      <4> QED
        BY <1>2, <3>1, <4>1 DEF Alone, Others
    <3>3. Alone(b)'
      BY <3>1, <3>2 DEF Alone, MovesCookies
    <3>4. FetchesForJar(b)'
      BY <1>2, <3>1, <3>2 DEF FetchesForJar, MovesCookies
    <3>5. RowInStep(b)'
      <4>1. jar[b].session # None => jar[b].session \in Sessions
        BY <1>0 DEF TypeOK
      <4>2. \A o \in TabsOf(b) : tab[o].pc # "fetched"
        BY <3>2 DEF MovesCookies
      <4>3. ASSUME jar[b].session # None, session'[jar[b].session].live
            PROVE  session'[jar[b].session] = session[jar[b].session]
        BY <1>3, <4>1, <4>3
      <4>4. \A o \in TabsOf(b) : tab'[o].pc # "fetched"
        BY <1>2, <3>2 DEF MovesCookies
      <4> QED
        BY <1>0, <3>1, <4>2, <4>3, <4>4 DEF RowInStep
    <3>6. AnswerInStep(b)'
      <4>1. \A o \in TabsOf(b) : tab'[o].pc = "answered" => o = t
        BY <2>0, <3>1, <3>2 DEF MovesCookies, Stages
      <4> QED
        BY <1>2, <3>1, <4>1 DEF AnswerInStep
    <3> QED
      BY <3>3, <3>4, <3>5, <3>6 DEF Rotation
  <2> QED
    BY <2>1, <2>2 DEF Rotation
<1> QED
  BY <1>4, <1>5, <1>6, <1>7, <1>8 DEF Ind

LEMMA AuthoriseStep ==
  ASSUME Ind, NEW t \in Tabs, Handler(t), Authorise(t)
  PROVE  Ind'
<1>0. /\ TypeOK /\ tab[t] \in TabState /\ tab[t].pc = "sent" /\ tab[t].op # "login" /\ tab[t].op # "none"
      /\ tab[t].op \in Operations
  BY TabForm DEF Ind, Authorise, Stages, TabState
<1>1. CASE Settle(t) /\ UNCHANGED <<user, session>>
  BY <1>0, <1>1, SettledStep
<1>2. CASE /\ Admitted(t) /\ tab[t].op = "logout"
           /\ session' = [session EXCEPT ![tab[t].cookie] = NoSession] /\ SetCookies(t, None, None) /\ user' = user
  BY <1>0, <1>2, LogoutStep
<1>3. CASE /\ Admitted(t) /\ tab[t].op \notin {"logout", "filter"}
           /\ tab' = [tab EXCEPT ![t].pc = "authorised", ![t].actor = session[tab[t].cookie].user]
           /\ UNCHANGED <<user, session>>
  <2> DEFINE actor == session[tab[t].cookie].user
             state == [tab[t] EXCEPT !.pc = "authorised", !.actor = actor]
  <2>1. actor \in Rows /\ actor # None /\ IsActiveAdmin(user[actor]) /\ tab[t].op \in AccountOps
    <3>1. tab[t].cookie \in Sessions
      BY <1>0, <1>3 DEF TabState, Admitted, Loads
    <3> QED
      BY <1>0, <1>3, <3>1, Constants DEF Admitted, Loads, Ind, SessionsOwned, Operations
  <2>2. TabBecomes(t, state) /\ state.pc = "authorised" /\ state.op = tab[t].op
        /\ state.cookie = tab[t].cookie /\ state.actor = actor
    <3>3. tab' = [tab EXCEPT ![t] = state]
      BY <1>0, <1>3, TabForm
    <3> HIDE DEF actor
    <3>1. "authorised" \in Phases
      BY DEF Phases
    <3>2. state \in TabState
      BY <1>0, <2>1, <3>1 DEF TabState
    <3>4. state.pc = "authorised" /\ state.op = tab[t].op /\ state.cookie = tab[t].cookie /\ state.actor = actor
      BY <1>0 DEF TabState
    <3> HIDE DEF state
    <3> QED
      BY <1>0, <3>2, <3>3, <3>4, TabChanges
  <2> HIDE DEF actor, state
  <2>3. /\ Others(t) /\ tab'[t].pc = "authorised" /\ tab'[t].op = tab[t].op
        /\ tab'[t].cookie = tab[t].cookie /\ tab'[t].actor = actor
    BY <2>2 DEF TabBecomes, Others
  <2>4. user' \in [Rows -> UserRow]
    BY <1>0, <1>3 DEF TypeOK
  <2>5. TypeOK' /\ Stages' /\ SessionsOwned' /\ OneBrowser' /\ InStep'
    BY <1>0, <1>3, <2>1, <2>3, <2>4, AccountStep
  <2>6. WorksAsAdmin(t)'
    BY <1>3, <2>1, <2>3 DEF WorksAsAdmin
  <2>7. Working' /\ SerialKeepsAdmin'
    BY <1>3, <2>3, <2>6, WorkGoesOn
  <2> QED
    BY <2>5, <2>7 DEF Ind
<1> QED
  BY <1>1, <1>2, <1>3 DEF Authorise, Refuse

LEMMA ReadStep ==
  ASSUME Ind, NEW t \in Tabs, Handler(t), ReadTarget(t)
  PROVE  Ind'
<1>0. /\ TypeOK /\ tab[t] \in TabState /\ tab[t].pc = "authorised" /\ tab[t].op \in {"role", "status"}
      /\ UNCHANGED <<user, session>> /\ user \in [Rows -> UserRow]
  BY TabForm DEF Ind, ReadTarget, TypeOK
<1>1. CASE Settle(t)
  BY <1>0, <1>1, SettledStep
<1>2. ASSUME NEW r \in Rows, NEW value \in Values(tab[t].op), NEW pc \in {"counting", "ready"},
             ~(Removal(value) /\ r = tab[t].actor),
             tab' = [tab EXCEPT ![t].pc = pc, ![t].target = r, ![t].seen = SeenRow(t, r), ![t].value = value]
      PROVE  Ind'
  <2> DEFINE seen == SeenRow(t, r)
             state == [tab[t] EXCEPT !.pc = pc, !.target = r, !.seen = seen, !.value = value]
  <2>1. seen \in UserRow /\ value \in NewValues /\ pc \in Phases /\ r # None
    BY <1>0, <1>2, Constants DEF SeenRow, UserRow, Values, NewValues, Phases
  <2>2. TabBecomes(t, state) /\ state.pc = pc /\ state.op = tab[t].op /\ state.cookie = tab[t].cookie
        /\ state.actor = tab[t].actor /\ state.target = r /\ state.value = value
    <3>1. tab' = [tab EXCEPT ![t] = state]
      BY <1>0, <1>2, TabForm
    <3> HIDE DEF seen
    <3>2. state \in TabState
      BY <1>0, <2>1 DEF TabState
    <3>3. state.pc = pc /\ state.op = tab[t].op /\ state.cookie = tab[t].cookie
          /\ state.actor = tab[t].actor /\ state.target = r /\ state.value = value
      BY <1>0 DEF TabState
    <3> HIDE DEF state
    <3> QED
      BY <1>0, <3>1, <3>2, <3>3, TabChanges
  <2> HIDE DEF seen, state
  <2>3. /\ Others(t) /\ tab'[t].pc = pc /\ tab'[t].op = tab[t].op /\ tab'[t].cookie = tab[t].cookie
        /\ tab'[t].actor = tab[t].actor /\ tab'[t].target = r /\ tab'[t].value = value
    BY <2>2 DEF TabBecomes, Others
  <2>4. TypeOK' /\ Stages' /\ SessionsOwned' /\ OneBrowser' /\ InStep'
    <3>1. Carries(t)'
      BY <1>0, <1>2, <2>3 DEF Carries
    <3> QED
      BY <1>0, <2>3, <3>1, AccountStep DEF AccountOps
  <2>5. ~overlap' => WorksAsAdmin(t)'
    <3>1. ~overlap' => WorksAsAdmin(t)
      BY <1>0, HandlerNotes DEF Ind, Working, AtWork
    <3> QED
      BY <1>0, <1>2, <2>1, <2>3, <3>1 DEF WorksAsAdmin
  <2>6. Working' /\ SerialKeepsAdmin'
    BY <1>0, <2>3, <2>5, WorkGoesOn
  <2> QED
    BY <2>4, <2>6 DEF Ind
<1> QED
  BY <1>1, <1>2 DEF ReadTarget

LEMMA CountStep ==
  ASSUME Ind, NEW t \in Tabs, Handler(t), CountAdmins(t)
  PROVE  Ind'
<1>0. /\ TypeOK /\ tab[t] \in TabState /\ tab[t].pc = "counting" /\ tab[t].op \in {"role", "status"}
      /\ UNCHANGED <<user, session>> /\ user \in [Rows -> UserRow]
  BY TabForm DEF Ind, CountAdmins, Refuse, Stages, TypeOK
<1>1. CASE Settle(t)
  BY <1>0, <1>1, SettledStep
<1>2. CASE tab' = [tab EXCEPT ![t].pc = "ready"]
  <2> DEFINE state == [tab[t] EXCEPT !.pc = "ready"]
  <2>1. TabBecomes(t, state) /\ state.pc = "ready" /\ state.op = tab[t].op /\ state.cookie = tab[t].cookie
        /\ state.actor = tab[t].actor /\ state.target = tab[t].target /\ state.value = tab[t].value
    <3>1. tab' = [tab EXCEPT ![t] = state]
      BY <1>0, <1>2, TabForm
    <3>2. "ready" \in Phases
      BY DEF Phases
    <3>3. state \in TabState
      BY <1>0, <3>2 DEF TabState
    <3>4. state.pc = "ready" /\ state.op = tab[t].op /\ state.cookie = tab[t].cookie
          /\ state.actor = tab[t].actor /\ state.target = tab[t].target /\ state.value = tab[t].value
      BY <1>0 DEF TabState
    <3> HIDE DEF state
    <3> QED
      BY <1>0, <3>1, <3>3, <3>4, TabChanges
  <2> HIDE DEF state
  <2>2. /\ Others(t) /\ tab'[t].pc = "ready" /\ tab'[t].op = tab[t].op /\ tab'[t].cookie = tab[t].cookie
        /\ tab'[t].actor = tab[t].actor /\ tab'[t].target = tab[t].target /\ tab'[t].value = tab[t].value
    BY <2>1 DEF TabBecomes, Others
  <2>3. TypeOK' /\ Stages' /\ SessionsOwned' /\ OneBrowser' /\ InStep'
    <3>1. Carries(t)'
      BY <1>0, <2>2 DEF Ind, Stages, Carries
    <3> QED
      BY <1>0, <2>2, <3>1, AccountStep DEF AccountOps
  <2>4. ~overlap' => WorksAsAdmin(t)'
    <3>1. ~overlap' => WorksAsAdmin(t)
      BY <1>0, HandlerNotes DEF Ind, Working, AtWork
    <3> QED
      BY <1>0, <2>2, <3>1 DEF WorksAsAdmin
  <2>5. Working' /\ SerialKeepsAdmin'
    BY <1>0, <2>2, <2>4, WorkGoesOn
  <2> QED
    BY <2>3, <2>5 DEF Ind
<1> QED
  BY <1>1, <1>2 DEF CountAdmins, Refuse

LEMMA FindStep ==
  ASSUME Ind, NEW t \in Tabs, Handler(t), FindLogin(t)
  PROVE  Ind'
<1>0. /\ TypeOK /\ tab[t] \in TabState /\ tab[t].pc = "authorised" /\ tab[t].op = "create"
      /\ UNCHANGED <<user, session>> /\ user \in [Rows -> UserRow]
  BY TabForm DEF Ind, FindLogin, TypeOK
<1>1. CASE Settle(t)
  BY <1>0, <1>1, SettledStep
<1>2. ASSUME NEW login \in Logins, NEW role \in {"ADMIN", "USER"},
             tab' = [tab EXCEPT ![t].pc = "ready", ![t].value = role, ![t].seen.login = login]
      PROVE  Ind'
  <2> DEFINE seen == [tab[t].seen EXCEPT !.login = login]
             state == [tab[t] EXCEPT !.pc = "ready", !.value = role, !.seen = seen]
  <2>1. seen \in UserRow /\ role \in NewValues /\ "ready" \in Phases
    BY <1>0 DEF UserRow, TabState, NewValues, Phases
  <2>2. TabBecomes(t, state) /\ state.pc = "ready" /\ state.op = tab[t].op /\ state.cookie = tab[t].cookie
        /\ state.actor = tab[t].actor /\ state.value = role
    <3>1. tab' = [tab EXCEPT ![t] = state]
      BY <1>0, <1>2, TabForm
    <3> HIDE DEF seen
    <3>2. state \in TabState
      BY <1>0, <2>1 DEF TabState
    <3>3. state.pc = "ready" /\ state.op = tab[t].op /\ state.cookie = tab[t].cookie
          /\ state.actor = tab[t].actor /\ state.value = role
      BY <1>0 DEF TabState
    <3> HIDE DEF state
    <3> QED
      BY <1>0, <3>1, <3>2, <3>3, TabChanges
  <2> HIDE DEF seen, state
  <2>3. /\ Others(t) /\ tab'[t].pc = "ready" /\ tab'[t].op = tab[t].op /\ tab'[t].cookie = tab[t].cookie
        /\ tab'[t].actor = tab[t].actor /\ tab'[t].value = role
    BY <2>2 DEF TabBecomes, Others
  <2>4. TypeOK' /\ Stages' /\ SessionsOwned' /\ OneBrowser' /\ InStep'
    <3>1. Carries(t)'
      BY <1>0, <2>3 DEF Carries
    <3> QED
      BY <1>0, <2>3, <3>1, AccountStep DEF AccountOps
  <2>5. ~overlap' => WorksAsAdmin(t)'
    <3>1. ~overlap' => WorksAsAdmin(t)
      BY <1>0, HandlerNotes DEF Ind, Working, AtWork
    <3> QED
      BY <1>0, <2>3, <3>1 DEF WorksAsAdmin
  <2>6. Working' /\ SerialKeepsAdmin'
    BY <1>0, <2>3, <2>5, WorkGoesOn
  <2> QED
    BY <2>4, <2>6 DEF Ind
<1> QED
  BY <1>1, <1>2 DEF FindLogin

(* Whatever is committed, the one who asked for it stays an administrator   *)
(* if nobody else was at work.                                              *)
LEMMA CommitStep ==
  ASSUME Ind, NEW t \in Tabs, Handler(t), Settle(t), AtWork(t), session' = session,
         user' \in [Rows -> UserRow], WorksAsAdmin(t) => IsActiveAdmin(user'[tab[t].actor])
  PROVE  Ind'
<1>0. /\ TypeOK /\ tab[t] \in TabState /\ tab[t].actor \in Rows \cup {None}
  BY TabForm DEF Ind, TabState
<1>1. Others(t) /\ tab'[t].pc = "idle" /\ tab'[t].cookie = None
  BY <1>0, Settles DEF TabBecomes, Others
<1>2. TypeOK' /\ Stages' /\ SessionsOwned' /\ OneBrowser' /\ InStep'
  BY <1>1, AccountStep DEF AtWork
<1>3. ASSUME ~overlap' PROVE WorksAsAdmin(t) /\ \A o \in Tabs : ~AtWork(o)'
  BY <1>0, <1>1, <1>3, HandlerNotes DEF Ind, Working, AtWork, Others
<1>4. Working' /\ SerialKeepsAdmin'
  <2>1. ASSUME ~overlap' PROVE ActiveAdmins' # {}
    BY <1>0, <1>3, <2>1 DEF ActiveAdmins, WorksAsAdmin
  <2> QED
    BY <1>3, <2>1 DEF Working, SerialKeepsAdmin
<1> QED
  BY <1>2, <1>4 DEF Ind

LEMMA RowCommits ==
  ASSUME Ind, NEW t \in Tabs, Handler(t), CommitRow(t)
  PROVE  Ind'
<1>0. /\ TypeOK /\ tab[t] \in TabState /\ tab[t].pc = "ready" /\ AtWork(t) /\ user \in [Rows -> UserRow]
      /\ tab[t].op \in {"role", "status"} /\ tab[t].target \in Rows /\ tab[t].value \in Values(tab[t].op)
      /\ tab[t].actor \in Rows \cup {None}
  BY TabForm DEF Ind, CommitRow, TabState, AtWork, TypeOK, Stages, Carries
<1>1. /\ user' \in [Rows -> UserRow]
      /\ WorksAsAdmin(t) => IsActiveAdmin(user'[tab[t].actor])
  <2>1. CASE user' = user
    BY <1>0, <2>1 DEF WorksAsAdmin
  <2>2. CASE tab[t].op = "role" /\ user' = [user EXCEPT ![tab[t].target].role = tab[t].value]
    <3>1. [user[tab[t].target] EXCEPT !.role = tab[t].value] \in UserRow /\ tab[t].value \in {"ADMIN", "USER"}
      BY <1>0, <2>2 DEF UserRow, Values
    <3>2. user' = [user EXCEPT ![tab[t].target] = [user[tab[t].target] EXCEPT !.role = tab[t].value]]
      BY <1>0, <2>2
    <3>3. user' \in [Rows -> UserRow]
      BY <1>0, <3>1, <3>2
    <3>4. ASSUME WorksAsAdmin(t) PROVE IsActiveAdmin(user'[tab[t].actor])
      <4>1. tab[t].actor \in Rows /\ IsActiveAdmin(user[tab[t].actor])
            /\ (tab[t].target = tab[t].actor => tab[t].value = "ADMIN")
        BY <1>0, <3>1, <3>4 DEF WorksAsAdmin, Removal
      <4> QED
        BY <1>0, <3>2, <4>1 DEF IsActiveAdmin, UserRow
    <3> QED
      BY <3>3, <3>4
  <2>3. CASE tab[t].op = "status" /\ user' = [user EXCEPT ![tab[t].target].status = tab[t].value]
    <3>1. [user[tab[t].target] EXCEPT !.status = tab[t].value] \in UserRow /\ tab[t].value \in {"ACTIVE", "DISABLED"}
      BY <1>0, <2>3 DEF UserRow, Values
    <3>2. user' = [user EXCEPT ![tab[t].target] = [user[tab[t].target] EXCEPT !.status = tab[t].value]]
      BY <1>0, <2>3
    <3>3. user' \in [Rows -> UserRow]
      BY <1>0, <3>1, <3>2
    <3>4. ASSUME WorksAsAdmin(t) PROVE IsActiveAdmin(user'[tab[t].actor])
      <4>1. tab[t].actor \in Rows /\ IsActiveAdmin(user[tab[t].actor])
            /\ (tab[t].target = tab[t].actor => tab[t].value = "ACTIVE")
        BY <1>0, <3>1, <3>4 DEF WorksAsAdmin, Removal
      <4> QED
        BY <1>0, <3>2, <4>1 DEF IsActiveAdmin, UserRow
    <3> QED
      BY <3>3, <3>4
  <2> QED
    BY <1>0, <2>1, <2>2, <2>3 DEF CommitRow
<1> QED
  BY <1>0, <1>1, CommitStep DEF CommitRow

LEMMA CreateCommits ==
  ASSUME Ind, NEW t \in Tabs, Handler(t), CommitCreate(t)
  PROVE  Ind'
<1>0. /\ TypeOK /\ tab[t] \in TabState /\ tab[t].pc = "ready" /\ AtWork(t) /\ user \in [Rows -> UserRow]
      /\ tab[t].value \in {"ADMIN", "USER"} /\ tab[t].seen.login \in Logins \cup {None}
      /\ tab[t].actor \in Rows \cup {None}
  BY TabForm DEF Ind, CommitCreate, TabState, AtWork, TypeOK, Stages, Carries, UserRow
<1>1. CASE Refuse(t)
  BY <1>0, <1>1, SettledStep DEF Refuse
<1>2. ASSUME NEW free \in FreeRows, Settle(t), session' = session,
             user' = [user EXCEPT ![free] = [login |-> tab[t].seen.login, role |-> tab[t].value, status |-> "ACTIVE"]]
      PROVE  Ind'
  <2>1. free \in Rows /\ user[free].login = None
    BY DEF FreeRows, RowsOf
  <2>2. user' \in [Rows -> UserRow]
    <3>1. [login |-> tab[t].seen.login, role |-> tab[t].value, status |-> "ACTIVE"] \in UserRow
      BY <1>0 DEF UserRow
    <3> QED
      BY <1>0, <1>2, <2>1, <3>1
  <2>3. ASSUME WorksAsAdmin(t) PROVE IsActiveAdmin(user'[tab[t].actor])
    <3>1. tab[t].actor \in Rows /\ IsActiveAdmin(user[tab[t].actor]) /\ tab[t].actor # free
      BY <1>0, <2>1, <2>3 DEF WorksAsAdmin, IsActiveAdmin
    <3> QED
      BY <1>0, <1>2, <3>1
  <2> QED
    BY <1>0, <1>2, <2>2, <2>3, CommitStep
<1> QED
  BY <1>1, <1>2 DEF CommitCreate

-------------------------------------------------------------------------------
(* Expiry, the first administrator and restarts. *)

LEMMA ExpiryStep ==
  ASSUME Ind, SessionExpires
  PROVE  Ind'
<1>1. PICK s \in Sessions : session' = [session EXCEPT ![s] = NoSession]
  BY DEF SessionExpires
<1>0. TypeOK /\ UNCHANGED <<user, jar, home, tab, api, raced, overlap, requests>>
  BY DEF Ind, SessionExpires
<1>2. /\ session' \in [Sessions -> [user : Rows \cup {None}, csrf : Secrets \cup {None}, live : BOOLEAN]]
      /\ \A q \in Sessions : session'[q] = session[q] \/ ~session'[q].live
  <2>1. NoSession \in [user : Rows \cup {None}, csrf : Secrets \cup {None}, live : BOOLEAN] /\ ~NoSession.live
    BY DEF NoSession
  <2> QED
    BY <1>0, <1>1, <2>1 DEF TypeOK
<1>3. TypeOK'
  BY <1>0, <1>2 DEF TypeOK
<1>4. Stages' /\ SessionsOwned'
  BY <1>0, <1>2 DEF Ind, Stages, AtWork, Carries, SessionsOwned
<1>5. OneBrowser'
  BY <1>0 DEF Ind, OneBrowser, Holds, TabsOf
<1>6. Working' /\ SerialKeepsAdmin'
  <2>1. \A o \in Tabs : tab'[o] = tab[o]
    BY <1>0
  <2> QED
    BY <1>0, <2>1, WorkKept DEF Ind
<1>7. InStep'
  <2>1. ASSUME NEW b \in Browsers PROVE Rotation(b)'
    BY <1>0, <1>2, OtherBrowser DEF Ind, InStep
  <2> QED
    BY <2>1 DEF InStep
<1> QED
  BY <1>3, <1>4, <1>5, <1>6, <1>7 DEF Ind

LEMMA BootstrapStep ==
  ASSUME Ind, Bootstrap
  PROVE  Ind'
<1>1. PICK free \in FreeRows : user' = [user EXCEPT ![free] = DefaultAdmin]
  BY DEF Bootstrap
<1>0. TypeOK /\ UNCHANGED <<session, jar, home, tab, api, raced, overlap, requests>> /\ Admins = {}
  BY DEF Ind, Bootstrap
<1>2. user' \in [Rows -> UserRow] /\ free \in Rows /\ user'[free] = DefaultAdmin
  BY <1>0, <1>1, AbsentRow DEF TypeOK, FreeRows, RowsOf
<1>3. TypeOK' /\ Stages' /\ SessionsOwned' /\ OneBrowser'
  BY <1>0, <1>2 DEF Ind, TypeOK, Stages, AtWork, Carries, SessionsOwned, OneBrowser, Holds, TabsOf
<1>4. SerialKeepsAdmin'
  BY <1>2, Constants DEF SerialKeepsAdmin, ActiveAdmins, IsActiveAdmin, DefaultAdmin
<1>5. Working'
  <2>1. ASSUME ~overlap, NEW t \in Tabs, AtWork(t) PROVE FALSE
    <3>1. tab[t].actor \in Rows /\ IsActiveAdmin(user[tab[t].actor])
      BY <1>0, <2>1 DEF Ind, Working, WorksAsAdmin, TypeOK, TabState
    <3> QED
      BY <1>0, <3>1 DEF Admins, IsActiveAdmin
  <2> QED
    BY <1>0, <2>1 DEF Working, AtWork
<1>6. InStep'
  BY <1>0 DEF Ind, InStep, Rotation, Alone, FetchesForJar, RowInStep, AnswerInStep, TabsOf, MovesCookies
<1> QED
  BY <1>3, <1>4, <1>5, <1>6 DEF Ind

(* A start that gets through leaves an active administrator. *)
LEMMA SeedRestores ==
  ASSUME TypeOK, Seed
  PROVE  /\ user' \in [Rows -> UserRow] /\ api' \in {"up", "failed"}
         /\ user' = user \/ ActiveAdmins' # {}
         /\ api' = "failed" \/ ActiveAdmins' # {}
<1>1. ASSUME NEW r \in Rows, user' = [user EXCEPT ![r] = DefaultAdmin]
      PROVE  user' \in [Rows -> UserRow] /\ ActiveAdmins' # {}
  <2>1. user' \in [Rows -> UserRow] /\ user'[r] = DefaultAdmin
    BY <1>1, AbsentRow DEF TypeOK
  <2> QED
    BY <2>1, Constants DEF ActiveAdmins, IsActiveAdmin, DefaultAdmin
<1>2. FreeRows \subseteq Rows /\ Admins \subseteq Rows /\ RowsOf(AdminLogin) \subseteq Rows
  BY DEF FreeRows, Admins, RowsOf
<1>3. user \in [Rows -> UserRow]
  BY DEF TypeOK
<1> QED
  BY <1>1, <1>2, <1>3 DEF Seed

LEMMA RestartStep ==
  ASSUME Ind, Restart
  PROVE  Ind'
<1>0. /\ TypeOK /\ UNCHANGED <<session, jar, home, overlap, requests>>
      /\ tab' = [t \in Tabs |-> IdleTab(tab[t].csrf)]
      /\ raced' = [b \in Browsers |-> raced[b] \/ \E t \in Tabs : home[t] = b /\ tab[t].pc # "idle"]
      /\ user' \in [Rows -> UserRow] /\ api' \in {"up", "failed"} /\ (user' = user \/ ActiveAdmins' # {})
  BY SeedRestores DEF Ind, Restart
<1>1. /\ tab' \in [Tabs -> TabState]
      /\ \A t \in Tabs : tab'[t].pc = "idle" /\ tab'[t].cookie = None
  <2>1. \A t \in Tabs : tab[t].csrf \in Secrets \cup {None}
    BY <1>0, TabForm DEF TabState
  <2> QED
    BY <1>0, <2>1, IdleForm
<1>2. /\ raced' \in [Browsers -> BOOLEAN]
      /\ \A b \in Browsers : ~raced'[b] => ~raced[b] /\ \A t \in TabsOf(b) : tab[t].pc = "idle"
  <2>1. \A b \in Browsers : (raced[b] \/ \E t \in Tabs : home[t] = b /\ tab[t].pc # "idle") \in BOOLEAN
    OBVIOUS
  <2> QED
    BY <1>0, <2>1 DEF TabsOf
<1>3. TypeOK'
  BY <1>0, <1>1, <1>2 DEF TypeOK
<1>4. Stages' /\ SessionsOwned'
  BY <1>0, <1>1 DEF Ind, Stages, AtWork, SessionsOwned
<1>5. OneBrowser'
  <2>1. ASSUME NEW s \in Sessions, NEW b \in Browsers, Holds(b, s)' PROVE Holds(b, s)
    <3>1. s # None
      BY Constants
    <3> QED
      BY <1>0, <1>1, <2>1, <3>1 DEF Holds, TabsOf
  <2> QED
    BY <2>1, OneBrowserKept DEF Ind
<1>6. Working' /\ SerialKeepsAdmin'
  <2>1. Working'
    BY <1>1 DEF Working, AtWork
  <2>2. SerialKeepsAdmin'
    <3>1. CASE user' = user
      <4>1. ActiveAdmins' = ActiveAdmins /\ FreeRows' = FreeRows
        BY <3>1 DEF ActiveAdmins, FreeRows, RowsOf
      <4> QED
        BY <1>0, <4>1 DEF Ind, SerialKeepsAdmin
    <3>2. CASE ActiveAdmins' # {}
      BY <3>2 DEF SerialKeepsAdmin
    <3> QED
      BY <1>0, <3>1, <3>2
  <2> QED
    BY <2>1, <2>2
<1>7. InStep'
  <2> SUFFICES ASSUME NEW b \in Browsers, ~raced'[b]
               PROVE  Alone(b)' /\ FetchesForJar(b)' /\ RowInStep(b)' /\ AnswerInStep(b)'
    BY DEF InStep, Rotation
  <2>1. /\ RowInStep(b) /\ TabsOf(b)' = TabsOf(b) /\ TabsOf(b) \subseteq Tabs
        /\ \A t \in TabsOf(b) : tab[t].pc = "idle"
    BY <1>0, <1>2 DEF Ind, InStep, Rotation, TabsOf
  <2>2. Alone(b)' /\ FetchesForJar(b)' /\ AnswerInStep(b)'
    BY <1>1, <2>1 DEF Alone, FetchesForJar, AnswerInStep, MovesCookies
  <2>3. RowInStep(b)'
    BY <1>0, <1>1, <2>1 DEF RowInStep
  <2> QED
    BY <2>2, <2>3
<1> QED
  BY <1>3, <1>4, <1>5, <1>6, <1>7 DEF Ind

-------------------------------------------------------------------------------
(* The theorems. *)

LEMMA NextStep == Ind /\ [Next]_vars => Ind'
<1> SUFFICES ASSUME Ind, [Next]_vars PROVE Ind'
  OBVIOUS
<1>1. ASSUME NEW t \in Tabs, Page(t) PROVE Ind'
  <2>1. ASSUME NEW op \in AccountOps \cup {"login", "filter", "logout"}, Fetch(t, op) PROVE Ind'
    BY <2>1, FetchStep DEF Operations, AccountOps
  <2> QED
    BY <1>1, <2>1, PostStep, TokenStep, AnswerStep, DropStep DEF Page
<1>2. ASSUME NEW t \in Tabs, Handler(t) PROVE Ind'
  <2>1. \/ ServeCsrf(t) \/ ServeLogin(t) \/ Authorise(t)
        \/ ReadTarget(t) \/ CountAdmins(t) \/ CommitRow(t) \/ FindLogin(t) \/ CommitCreate(t)
    BY <1>2 DEF Handler
  <2> QED
    BY <1>2, <2>1, CsrfStep, LoginStep, AuthoriseStep, ReadStep, CountStep, RowCommits, FindStep, CreateCommits
<1>3. CASE UNCHANGED vars
  BY <1>3 DEF vars, Ind, TypeOK, Stages, AtWork, Carries, SessionsOwned, OneBrowser, Holds, TabsOf,
     InStep, Rotation, Alone, FetchesForJar, RowInStep, AnswerInStep, MovesCookies,
     Working, WorksAsAdmin, SerialKeepsAdmin, ActiveAdmins, FreeRows, RowsOf
<1> QED
  BY <1>1, <1>2, <1>3, ExpiryStep, BootstrapStep, RestartStep DEF Next

(* The initial tables and cookies. *)
LEMMA InitInd == Init => Ind
<1> SUFFICES ASSUME Init PROVE Ind
  OBVIOUS
<1> DEFINE empty == [x \in Rows |-> Absent]
           key == CHOOSE f \in [Sessions -> Secrets] : IsInjective(f)
<1>1. key \in [Sessions -> Secrets]
  BY DashboardConstants
<1>2. user \in [Rows -> UserRow] /\ (FreeRows = Rows \/ ActiveAdmins # {})
  <2>1. empty \in [Rows -> UserRow]
    BY AbsentRow
  <2>2. CASE user = empty
    BY <2>1, <2>2 DEF FreeRows, RowsOf, Absent
  <2>3. CASE \E r \in Rows : user = [empty EXCEPT ![r] = DefaultAdmin]
    <3>1. PICK r \in Rows : user = [empty EXCEPT ![r] = DefaultAdmin]
      BY <2>3
    <3>2. user \in [Rows -> UserRow] /\ user[r] = DefaultAdmin
      BY <2>1, <3>1, AbsentRow
    <3> QED
      BY <3>2, Constants DEF ActiveAdmins, IsActiveAdmin, DefaultAdmin
  <2>4. CASE \E r \in Rows, role \in {"ADMIN", "USER"}, login \in Logins \ {AdminLogin} :
               \E other \in Rows \ {r} :
                 user = [empty EXCEPT ![r] = DefaultAdmin,
                                      ![other] = [login |-> login, role |-> role, status |-> "ACTIVE"]]
    <3>1. PICK r \in Rows, role \in {"ADMIN", "USER"}, login \in Logins \ {AdminLogin} :
                 \E other \in Rows \ {r} :
                   user = [empty EXCEPT ![r] = DefaultAdmin,
                                        ![other] = [login |-> login, role |-> role, status |-> "ACTIVE"]]
      BY <2>4
    <3>2. PICK other \in Rows \ {r} :
                 user = [empty EXCEPT ![r] = DefaultAdmin,
                                      ![other] = [login |-> login, role |-> role, status |-> "ACTIVE"]]
      BY <3>1
    <3>3. [login |-> login, role |-> role, status |-> "ACTIVE"] \in UserRow
      BY DEF UserRow
    <3>4. user \in [Rows -> UserRow] /\ user[r] = DefaultAdmin
      BY <2>1, <3>2, <3>3, AbsentRow
    <3> QED
      BY <3>4, Constants DEF ActiveAdmins, IsActiveAdmin, DefaultAdmin
  <2> QED
    BY <2>2, <2>3, <2>4 DEF Init
<1>3. PICK holder \in Holders, id \in {f \in [Browsers -> Sessions] : IsInjective(f)} :
         LET signed == {b \in Browsers : holder[b] # None} IN
         /\ session = [s \in Sessions |->
                         IF s \in {id[b] : b \in signed}
                         THEN [user |-> holder[CHOOSE b \in signed : id[b] = s], csrf |-> key[s], live |-> TRUE]
                         ELSE NoSession]
         /\ jar = [b \in Browsers |-> IF b \in signed THEN [session |-> id[b], csrf |-> key[id[b]]]
                                      ELSE [session |-> None, csrf |-> None]]
  BY DEF Init
<1> DEFINE signed == {b \in Browsers : holder[b] # None}
           owner(s) == CHOOSE b \in signed : id[b] = s
<1> HIDE DEF key
<1>4. /\ holder \in [Browsers -> Rows \cup {None}] /\ id \in [Browsers -> Sessions]
      /\ \A b, c \in Browsers : id[b] = id[c] => b = c
  BY <1>3 DEF Holders, IsInjective
<1>5. \A s \in Sessions : s \in {id[b] : b \in signed} => owner(s) \in signed /\ holder[owner(s)] \in Rows
  BY <1>4
<1> HIDE DEF owner
<1>6. \A s \in Sessions :
        \/ session[s] = [user |-> holder[owner(s)], csrf |-> key[s], live |-> TRUE] /\ holder[owner(s)] \in Rows
        \/ session[s] = NoSession
  BY <1>3, <1>5 DEF owner
<1>7. /\ session \in [Sessions -> [user : Rows \cup {None}, csrf : Secrets \cup {None}, live : BOOLEAN]]
      /\ SessionsOwned
      /\ \A s \in Sessions : session[s].live => session[s].csrf = key[s]
  <2>1. ASSUME NEW s \in Sessions
        PROVE  /\ session[s] \in [user : Rows \cup {None}, csrf : Secrets \cup {None}, live : BOOLEAN]
               /\ session[s].live => session[s].user \in Rows /\ session[s].csrf = key[s]
    <3>1. CASE session[s] = NoSession
      BY <3>1 DEF NoSession
    <3>2. ASSUME NEW u \in Rows, session[s] = [user |-> u, csrf |-> key[s], live |-> TRUE]
          PROVE  /\ session[s] \in [user : Rows \cup {None}, csrf : Secrets \cup {None}, live : BOOLEAN]
                 /\ session[s].live => session[s].user \in Rows /\ session[s].csrf = key[s]
      <4>1. key[s] \in Secrets
        BY <1>1
      <4> QED
        BY <3>2, <4>1
    <3> QED
      BY <1>6, <3>1, <3>2
  <2>2. session = [s \in Sessions |-> session[s]]
    BY <1>3
  <2> QED
    BY <2>1, <2>2 DEF SessionsOwned
<1>8. /\ jar \in [Browsers -> [session : Sessions \cup {None}, csrf : Secrets \cup {None}]]
      /\ \A b \in Browsers : jar[b].session # None => jar[b].session = id[b] /\ jar[b].csrf = key[id[b]]
  BY <1>1, <1>3, <1>4
<1>9. /\ tab \in [Tabs -> TabState]
      /\ \A t \in Tabs : tab[t].pc = "idle" /\ tab[t].cookie = None
  <2>1. tab = [t \in Tabs |-> IdleTab(None)]
    BY DEF Init
  <2> QED
    BY <2>1, IdleForm
<1>10. TypeOK
  <2>1. /\ home \in [Tabs -> Browsers] /\ api = "up" /\ requests = 0 /\ overlap = FALSE
        /\ raced = [b \in Browsers |-> FALSE]
    BY DEF Init
  <2>2. requests \in 0 .. MaxRequests
    BY <2>1, Constants
  <2>3. raced \in [Browsers -> BOOLEAN] /\ overlap \in BOOLEAN
    BY <2>1
  <2> QED
    BY <1>2, <1>7, <1>8, <1>9, <2>1, <2>2, <2>3 DEF TypeOK
<1>11. Stages
  BY <1>9 DEF Stages, AtWork
<1>12. OneBrowser
  <2>1. ASSUME NEW s \in Sessions, NEW b \in Browsers, Holds(b, s) PROVE s = id[b]
    BY <1>8, <1>9, <2>1, Constants DEF Holds, TabsOf
  <2> QED
    BY <1>4, <2>1 DEF OneBrowser
<1>13. InStep
  <2> SUFFICES ASSUME NEW b \in Browsers PROVE Alone(b) /\ FetchesForJar(b) /\ RowInStep(b) /\ AnswerInStep(b)
    BY DEF InStep, Rotation
  <2>1. TabsOf(b) \subseteq Tabs
    BY DEF TabsOf
  <2>2. Alone(b) /\ FetchesForJar(b) /\ AnswerInStep(b)
    BY <1>9, <2>1 DEF Alone, FetchesForJar, AnswerInStep, MovesCookies
  <2>3. RowInStep(b)
    BY <1>4, <1>7, <1>8, <1>9, <2>1 DEF RowInStep
  <2> QED
    BY <2>2, <2>3
<1>14. Working /\ SerialKeepsAdmin
  BY <1>2, <1>9 DEF Working, AtWork, SerialKeepsAdmin
<1> QED
  BY <1>7, <1>10, <1>11, <1>12, <1>13, <1>14 DEF Ind

(* The inductive invariant: sessions known to one browser, tokens in step   *)
(* where nothing raced, administrators at work who still are administrators. *)
THEOREM Invariant == Spec => []Ind
BY InitInd, NextStep, PTL DEF Spec

(* The tables, the cookies and what every tab is at have their types.       *)
THEOREM TypeCorrect == Spec => []TypeOK
<1>1. Ind => TypeOK
  BY DEF Ind
<1> QED
  BY <1>1, Invariant, PTL

(* A session cookie is never known to a second browser: neither its jar,    *)
(* nor a request or an answer of one of its tabs, holds the identifier.     *)
THEOREM SessionStaysHome == Spec => []OneBrowser
<1>1. Ind => OneBrowser
  BY DEF Ind
<1> QED
  BY <1>1, Invariant, PTL

(* In a browser whose cookie-setting answers neither overlapped nor were    *)
(* lost, the CSRF cookie is the token that the row of its session asks for: *)
(* rotation does not lock a user out of the dashboard.                      *)
THEOREM RotationInStep == Spec => []CookieInStep
<1>1. ASSUME Ind PROVE CookieInStep
  <2> SUFFICES ASSUME NEW b \in Browsers, ~raced[b], jar[b].session # None, session[jar[b].session].live,
                      \A t \in Tabs : home[t] = b => ~MovesCookies(t)
               PROVE  jar[b].csrf = session[jar[b].session].csrf
    BY DEF CookieInStep
  <2>1. RowInStep(b)
    BY <1>1 DEF Ind, InStep, Rotation
  <2>2. \A t \in TabsOf(b) : tab[t].pc # "fetched"
    BY DEF TabsOf, MovesCookies
  <2> QED
    BY <2>1, <2>2 DEF RowInStep
<1> QED
  BY <1>1, Invariant, PTL

(* However many administrators there are, and whatever they ask for: as     *)
(* long as no two changes of users overlap, an active administrator         *)
(* remains.                                                                 *)
THEOREM AdminStays == Spec => []SerialKeepsAdmin
<1>1. Ind => SerialKeepsAdmin
  BY DEF Ind
<1> QED
  BY <1>1, Invariant, PTL

(* A start of the container either fails or leaves an active administrator. *)
THEOREM StartsRestore == Spec => RestartRestores
<1>1. TypeOK /\ [Next]_vars => [Restart => (api' = "failed" \/ ActiveAdmins' # {})]_vars
  BY SeedRestores DEF Restart
<1> QED
  BY <1>1, TypeCorrect, PTL DEF Spec, RestartRestores

-------------------------------------------------------------------------------
(* Sessions of accounts. *)

Kept == \A t \in Committed :
  /\ t \in Committed'
  /\ token'[t].user = token[t].user /\ token'[t].parent = token[t].parent
  /\ token[t].state = "revoked" => token'[t].state = "revoked"

(* A rotation passes its check only while the token it replaces is live.   *)
NewFromLive == \A t \in Tokens :
  /\ t \in Refreshing' =>
       \/ t \in Refreshing /\ token'[t].parent = token[t].parent
       \/ token'[t].parent = NoToken
       \/ token'[t].parent \in Committed /\ token[token'[t].parent].state # "revoked"

(* What a transaction saw was committed; a rotation has revoked the parent *)
(* of its token, and saw no other token of that parent.                    *)
TokenInv == \A t \in Tokens :
  /\ token[t].saw \subseteq Committed
  /\ t \in Committed /\ token[t].parent # NoToken => token[token[t].parent].state = "revoked"
  /\ token[t].state = "checked" /\ token[t].parent # NoToken => token[t].parent \in Committed
  /\ token[t].state \in {"checked"} \cup Born /\ token[t].parent # NoToken =>
       \A s \in token[t].saw : token[s].parent # token[t].parent

(* When it has selected, a change of the password has every token that     *)
(* existed, or has found it revoked; when it is done, no rotation of these *)
(* is under way but those that overlapped it.                              *)
ChangeInv == \A u \in Users :
  /\ change[u].found \subseteq Committed
  /\ change[u].phase \in {"selected", "done"} => change[u].before \subseteq Committed
  /\ change[u].phase = "selected" =>
       \A t \in change[u].before : t \in change[u].found \/ token[t].state = "revoked"
  /\ change[u].phase = "done" =>
       /\ \A t \in change[u].before : token[t].state = "revoked"
       /\ \A t \in Refreshing : token[t].parent \in change[u].before
                                => t \in change[u].before \cup change[u].overlapping

CallInv == \A c \in Calls : call[c].pc \in {"granted", "retried"} => call[c].fresh \in Committed

IInv == SessionsTypeOK /\ TokenInv /\ ChangeInv /\ CallInv /\ PairedTokens

--------------------------------------------------------------------------------
LEMMA CommittedIs ==
  ASSUME SessionsTypeOK
  PROVE  /\ Committed \subseteq Tokens /\ NoToken \notin Committed
         /\ \A t \in Tokens : t \in Committed <=> token[t].state \in Born
         /\ Unborn \cap Committed = {}
         /\ Unborn # {} => NextPair \in Unborn
BY SessionConstants DEF Committed, Unborn, NextPair, Born

States == {"unborn", "asked", "checked", "denied"} \cup Born
TokenRows == [user : Users, parent : Pairs, saw : SUBSET Tokens, state : States]

Changes == [phase : {"none", "read", "selected", "done"}, before : SUBSET Tokens, found : SUBSET Tokens,
             overlapping : SUBSET Tokens]

LEMMA RowsTyped == SessionsTypeOK => token \in [Tokens -> TokenRows] /\ change \in [Users -> Changes]
BY DEF SessionsTypeOK, TokenRows, States, Changes

(* A transaction leaves everything else alone.                             *)
LEMMA WriteTyped ==
  ASSUME SessionsTypeOK, token' \in [Tokens -> TokenRows], change' \in [Users -> Changes],
         UNCHANGED <<active, outdated, client>>
  PROVE  SessionsTypeOK'
BY DEF SessionsTypeOK, TokenRows, States, Changes, client

LEMMA CommittedNext == Committed' \subseteq Tokens /\ \A t \in Tokens : t \in Committed' <=> token'[t].state \in Born
BY DEF Committed

(* The three invariants that only say more of committed tokens survive     *)
(* every step that keeps those.                                            *)
LEMMA ChangeOfOneKept ==
  ASSUME SessionsTypeOK, Kept, NewFromLive, NEW u \in Users, ChangeInv!(u), change'[u] = change[u]
  PROVE  ChangeInv!(u)'
<1>1. NoToken \notin Committed /\ Refreshing' \subseteq Tokens
  BY CommittedIs DEF Refreshing
<1>2. \A t \in change[u].before : change[u].phase \in {"selected", "done"} => t \in Committed
  OBVIOUS
<1>3. CASE change[u].phase = "done"
  <2>1. \A t \in change[u].before : t \in Committed' /\ token'[t].state = "revoked"
    BY <1>2, <1>3 DEF Kept
  <2>2. ASSUME NEW t \in Refreshing', token'[t].parent \in change[u].before
        PROVE  t \in change[u].before \cup change[u].overlapping
    <3>1. token'[t].parent \in Committed /\ token[token'[t].parent].state = "revoked" /\ t \in Tokens
      BY <1>1, <1>2, <1>3, <2>2
    <3>2. t \in Refreshing /\ token'[t].parent = token[t].parent
      BY <1>1, <2>2, <3>1 DEF NewFromLive
    <3>3. QED
      BY <1>3, <2>2, <3>2
  <2>3. QED
    BY <1>3, <2>1, <2>2 DEF Kept
<1>4. CASE change[u].phase # "done"
  BY <1>2, <1>4 DEF Kept
<1>5. QED
  BY <1>3, <1>4

LEMMA ChangeInvKept ==
  ASSUME SessionsTypeOK, ChangeInv, Kept, NewFromLive, UNCHANGED change
  PROVE  ChangeInv'
<1> SUFFICES ASSUME NEW u \in Users PROVE ChangeInv!(u)'
  BY DEF ChangeInv
<1>1. ChangeInv!(u) /\ change'[u] = change[u]
  BY DEF ChangeInv
<1>2. QED
  BY <1>1, ChangeOfOneKept

LEMMA CallInvKept ==
  ASSUME SessionsTypeOK, CallInv, Kept, UNCHANGED call
  PROVE  CallInv'
BY DEF CallInv, Kept

LEMMA PairedKept ==
  ASSUME SessionsTypeOK, PairedTokens, Kept, UNCHANGED store
  PROVE  PairedTokens'
BY DEF PairedTokens, Kept

LEMMA SameTokens ==
  ASSUME SessionsTypeOK, TokenInv, UNCHANGED token
  PROVE  Kept /\ NewFromLive /\ TokenInv'
BY DEF Kept, NewFromLive, Refreshing, TokenInv, Committed
--------------------------------------------------------------------------------
LEMMA InitOK == SessionsInit => IInv
<1> SUFFICES ASSUME SessionsInit PROVE IInv
  OBVIOUS
<1>1. PICK p \in {NoToken, CHOOSE t \in Tokens : TRUE}, u \in Users :
        /\ token = [t \in Tokens |-> [user |-> u, state |-> IF t = p THEN "live" ELSE "unborn",
                                       parent |-> NoToken, saw |-> {}]]
        /\ store = [access |-> p, refresh |-> p]
  BY DEF SessionsInit
<1>2. p \in Pairs
  BY SessionConstants DEF Pairs
<1>3. SessionsTypeOK
  BY <1>1, <1>2, SessionConstants DEF SessionsInit, SessionsTypeOK, Pairs, Born, Kinds, NoCall
<1>4. TokenInv
  BY <1>1 DEF TokenInv
<1>5. ChangeInv /\ CallInv
  BY DEF SessionsInit, ChangeInv, CallInv, NoCall
<1>6. PairedTokens
  BY <1>1, <1>2, SessionConstants DEF PairedTokens, Pairs, Committed, Born
<1>7. QED
  BY <1>3, <1>4, <1>5, <1>6 DEF IInv

(* A transaction for a new pair: nothing of it is committed.               *)
LEMMA AskKeeps ==
  ASSUME IInv, Unborn # {}, NEW u \in Users, NEW p \in Pairs,
         token' = [token EXCEPT ![NextPair] = NewToken(u, p)]
  PROVE  /\ Kept /\ NewFromLive /\ TokenInv'
         /\ token' \in [Tokens -> TokenRows]
<1>1. NextPair \in Tokens /\ token[NextPair].state = "unborn" /\ NextPair \notin Committed
  BY CommittedIs DEF IInv, Unborn
<1>2. Committed' = Committed
  BY <1>1 DEF IInv, SessionsTypeOK, Committed, Born, NewToken
<1>3. \A t \in Tokens \ {NextPair} : token'[t] = token[t]
  BY DEF IInv, SessionsTypeOK
<1>4. token'[NextPair] = NewToken(u, p)
  BY <1>1 DEF IInv, SessionsTypeOK
<1>5. Kept
  BY <1>1, <1>2, <1>3, CommittedIs DEF Kept, IInv
<1>6. ASSUME NEW t \in Tokens PROVE TokenInv!(t)'
  <2>1. CASE t = NextPair
    BY <1>4, <2>1 DEF NewToken, Born, Committed
  <2>2. CASE t # NextPair
    BY <1>1, <1>2, <1>3, <2>2, CommittedIs, SessionConstants DEF IInv, TokenInv, SessionsTypeOK, Pairs, Born
  <2>3. QED
    BY <2>1, <2>2
<1>7. TokenInv'
  BY <1>6 DEF TokenInv
<1>8. token' \in [Tokens -> TokenRows]
  BY <1>1, RowsTyped DEF IInv, TokenRows, States, NewToken
<1>9. NewFromLive
  BY <1>3, <1>4 DEF NewFromLive, Refreshing, NewToken, Born
<1>10. QED
  BY <1>5, <1>7, <1>8, <1>9

(* The check of a rotation finds its parent live, so nothing that it saw   *)
(* has that parent.                                                        *)
LEMMA CheckKeeps ==
  ASSUME IInv, NEW t \in Tokens, Check(t)
  PROVE  SessionsTypeOK' /\ Kept /\ NewFromLive /\ TokenInv'
<1> DEFINE may == IF token[t].parent = NoToken THEN MayLogin(t) ELSE MayRefresh(t)
<1>1. /\ token[t].state = "asked"
      /\ token' = [token EXCEPT ![t].state = IF may THEN "checked" ELSE "denied", ![t].saw = Committed]
  BY DEF Check
<1>2. /\ \A s \in Tokens \ {t} : token'[s] = token[s]
      /\ token'[t].user = token[t].user /\ token'[t].parent = token[t].parent
      /\ token'[t].state = (IF may THEN "checked" ELSE "denied") /\ token'[t].saw = Committed
  BY <1>1 DEF IInv, SessionsTypeOK
<1>3. Committed' = Committed /\ t \notin Committed
  <2>1. t \notin Committed /\ token'[t].state \notin Born
    BY <1>1, <1>2 DEF Committed, Born
  <2>2. \A s \in Tokens : s \in Committed' <=> s \in Committed
    BY <1>2, <2>1, CommittedIs, CommittedNext DEF IInv
  <2>3. QED
    BY <2>1, <2>2, CommittedIs, CommittedNext DEF IInv
<1>4. SessionsTypeOK'
  <2>1. Committed \in SUBSET Tokens
    BY CommittedIs DEF IInv
  <2>2. token' \in [Tokens -> TokenRows]
    <3>1. PICK result \in States : token' = [token EXCEPT ![t].state = result, ![t].saw = Committed]
      BY <1>1 DEF States
    <3>2. token \in [Tokens -> TokenRows]
      BY RowsTyped DEF IInv
    <3>3. QED
      <4>1. token[t] \in TokenRows
        BY <3>2
      <4>2. [token[t] EXCEPT !.state = result, !.saw = Committed] \in TokenRows
        BY <2>1, <3>1, <4>1 DEF TokenRows
      <4>3. token' = [token EXCEPT ![t] = [token[t] EXCEPT !.state = result, !.saw = Committed]]
        BY <3>1, <3>2, <4>1 DEF TokenRows
      <4>4. QED
        BY <3>2, <4>2, <4>3
  <2>3. QED
    BY <2>2, RowsTyped, WriteTyped DEF IInv, Check
<1>5. Kept
  BY <1>2, <1>3, CommittedIs DEF Kept, IInv
<1>6. ASSUME NEW s \in Tokens PROVE TokenInv!(s)'
  <2>1. CASE s = t
    <3>1. token[t].parent # NoToken /\ token'[t].state = "checked" =>
            token[t].parent \in Committed /\ token[token[t].parent].state = "live"
      BY <1>2, SessionConstants DEF MayRefresh, Committed, Born, IInv, SessionsTypeOK, Pairs
    <3>2. token[t].parent # NoToken /\ token'[t].state = "checked" =>
            \A r \in Committed : token'[r].parent # token[t].parent
      BY <1>2, <1>3, <3>1, CommittedIs DEF IInv, TokenInv
    <3>3. QED
      BY <1>2, <1>3, <2>1, <3>1, <3>2 DEF Born
  <2>2. CASE s # t
    <3>1. token'[s] = token[s] /\ TokenInv!(s) /\ token[s].parent \in Tokens \cup {NoToken}
      BY <1>2, <2>2 DEF IInv, TokenInv, SessionsTypeOK, Pairs
    <3>2. \A r \in Tokens : token[r].state = "revoked" => token'[r].state = "revoked"
      BY <1>2, <1>3, CommittedIs DEF IInv, Born
    <3>3. \A r \in Tokens : token'[r].parent = token[r].parent
      BY <1>2
    <3>4. \A r \in token[s].saw : r \in Tokens
      BY <3>1, CommittedIs DEF IInv
    <3>5. s \in Committed' <=> s \in Committed
      BY <1>3
    <3>6. QED
      BY <1>3, <3>1, <3>2, <3>3, <3>4, <3>5
  <2>3. QED
    BY <2>1, <2>2
<1>7. NewFromLive
  <2>1. token[t].parent # NoToken /\ token'[t].state = "checked" =>
          token[t].parent \in Committed /\ token[token[t].parent].state # "revoked"
    BY <1>2, SessionConstants DEF MayRefresh, Committed, Born, IInv, SessionsTypeOK, Pairs
  <2>2. \A s \in Tokens : s \in Refreshing' => (s = t /\ token'[t].state = "checked") \/ (s # t /\ s \in Refreshing)
    BY <1>2, <1>3, CommittedNext DEF Refreshing, Born
  <2>3. QED
    BY <1>2, <2>1, <2>2 DEF NewFromLive
<1>8. QED
  BY <1>4, <1>5, <1>6, <1>7 DEF TokenInv

(* The commit of a rotation revokes the parent.                            *)
LEMMA CommitKeeps ==
  ASSUME IInv, NEW t \in Tokens, Commit(t)
  PROVE  SessionsTypeOK' /\ Kept /\ NewFromLive /\ TokenInv'
<1> DEFINE p == token[t].parent
<1>1. token[t].state = "checked" /\ t \notin Committed
  BY DEF Commit, Committed, Born
<1>2. /\ \A s \in Tokens : /\ token'[s].user = token[s].user /\ token'[s].parent = token[s].parent
                           /\ token'[s].saw = token[s].saw
      /\ \A s \in Tokens \ {t, p} : token'[s].state = token[s].state
      /\ token'[t].state \in Born
      /\ p # NoToken => p \in Committed /\ p # t /\ token'[p].state = "revoked"
      /\ SessionsTypeOK'
  <2>1. CASE CommitLogin(t)
    <3>1. token' = [token EXCEPT ![t].state = "live"] /\ p = NoToken
      BY <2>1 DEF CommitLogin
    <3>2. token \in [Tokens -> TokenRows] /\ token' \in [Tokens -> TokenRows]
      BY <3>1, RowsTyped DEF IInv, TokenRows, States, Born
    <3>3. SessionsTypeOK'
      BY <3>2, RowsTyped, WriteTyped DEF Commit, IInv
    <3>4. QED
      BY <3>1, <3>2, <3>3 DEF TokenRows, Born
  <2>2. CASE CommitRefresh(t)
    <3>1. p \in Committed /\ p \in Tokens /\ p # t
      BY <1>1, <2>2, CommittedIs DEF CommitRefresh, IInv, TokenInv
    <3>2. token' = [token EXCEPT ![t].state = "live", ![p].state = "revoked"]
      BY <2>2 DEF CommitRefresh
    <3>3. token \in [Tokens -> TokenRows] /\ token' \in [Tokens -> TokenRows]
      BY <3>1, <3>2, RowsTyped DEF IInv, TokenRows, States, Born
    <3>4. SessionsTypeOK'
      BY <3>3, RowsTyped, WriteTyped DEF Commit, IInv
    <3>5. QED
      BY <3>1, <3>2, <3>3, <3>4 DEF TokenRows, Born
  <2>3. QED
    BY <2>1, <2>2 DEF Commit
<1>3. Committed' = Committed \cup {t}
  <2>1. p # NoToken => token'[p].state \in Born
    BY <1>2 DEF Born
  <2>2. \A s \in Tokens : s \in Committed' <=> s \in Committed \/ s = t
    BY <1>2, <2>1, CommittedIs, CommittedNext, SessionConstants DEF IInv
  <2>3. QED
    BY <2>2, CommittedIs, CommittedNext DEF IInv
<1>4. \A s \in Tokens : token[s].state = "revoked" => token'[s].state = "revoked"
  <2>1. t \in Committed' /\ token[t].state # "revoked"
    BY <1>1, <1>3
  <2>2. QED
    BY <1>2, <2>1, SessionConstants
<1>5. Kept
  BY <1>2, <1>3, <1>4, CommittedIs DEF Kept, IInv
<1>6. ASSUME NEW s \in Tokens PROVE TokenInv!(s)'
  <2>1. token'[s].saw \subseteq Committed'
    BY <1>2, <1>3 DEF IInv, TokenInv
  <2>2. s \in Committed' /\ token'[s].parent # NoToken => token'[token'[s].parent].state = "revoked"
    BY <1>2, <1>3, <1>4, CommittedIs DEF IInv, TokenInv, SessionsTypeOK, Pairs
  <2>3. token'[s].state = "checked" /\ token'[s].parent # NoToken => token'[s].parent \in Committed'
    <3>1. s \in Committed' => token'[s].state # "checked"
      BY CommittedNext DEF Born
    <3>2. s \notin Committed' => s # t /\ s # p
      BY <1>2, <1>3, SessionConstants
    <3>3. QED
      BY <1>2, <1>3, <3>1, <3>2 DEF IInv, TokenInv
  <2>4. token'[s].state \in {"checked"} \cup Born /\ token'[s].parent # NoToken =>
          \A r \in token'[s].saw : token'[r].parent # token'[s].parent
    <3>1. token'[s].state \in {"checked"} \cup Born => token[s].state \in {"checked"} \cup Born
      <4>1. s \in Committed => token[s].state \in Born
        BY CommittedIs DEF IInv
      <4>2. s \notin Committed /\ s # t => token'[s].state = token[s].state
        BY <1>2, SessionConstants
      <4>3. QED
        BY <1>1, <4>1, <4>2
    <3>2. \A r \in token'[s].saw : r \in Tokens
      BY <1>2, CommittedIs DEF IInv, TokenInv
    <3>3. QED
      BY <1>2, <3>1, <3>2 DEF IInv, TokenInv
  <2>5. QED
    BY <2>1, <2>2, <2>3, <2>4
<1>7. NewFromLive
  <2>1. \A s \in Tokens : s \in Refreshing' => s \in Refreshing
    <3>1. t \in Refreshing /\ (p # NoToken => p \in Refreshing)
      BY <1>1, <1>2, CommittedIs DEF IInv, Refreshing
    <3>2. \A s \in Tokens \ {t, p} : s \in Refreshing' => s \in Refreshing
      BY <1>2 DEF Refreshing
    <3>3. \A s \in Tokens : s # NoToken
      BY SessionConstants
    <3>4. QED
      BY <3>1, <3>2, <3>3
  <2>2. QED
    BY <1>2, <2>1 DEF NewFromLive
<1>8. QED
  BY <1>2, <1>5, <1>6, <1>7 DEF TokenInv

LEMMA OtherChangesKept ==
  ASSUME SessionsTypeOK, TokenInv, ChangeInv, NEW u \in Users, UNCHANGED token,
         \A v \in Users \ {u} : change'[v] = change[v], ChangeInv!(u)'
  PROVE  ChangeInv'
<1>1. Kept /\ NewFromLive
  BY SameTokens
<1>2. ASSUME NEW v \in Users PROVE ChangeInv!(v)'
  <2>1. CASE v # u
    <3>1. ChangeInv!(v) /\ change'[v] = change[v]
      BY <2>1 DEF ChangeInv
    <3>2. QED
      BY <1>1, <3>1, ChangeOfOneKept
  <2>2. QED
    BY <2>1
<1>3. QED
  BY <1>2 DEF ChangeInv

LEMMA ChangeCommitsKeeps ==
  ASSUME IInv, NEW u \in Users, ChangeCommits(u)
  PROVE  SessionsTypeOK' /\ Kept /\ TokenInv' /\ ChangeInv'
<1> DEFINE found == change[u].found
           before == change[u].before
           between == {t \in Refreshing \ before : token[t].parent \in before}
<1>1. /\ token' = [t \in Tokens |-> IF t \in found THEN [token[t] EXCEPT !.state = "revoked"] ELSE token[t]]
      /\ change' = [change EXCEPT ![u].phase = "done", ![u].found = {}, ![u].overlapping = between]
      /\ change[u].phase = "selected"
      /\ UNCHANGED <<active, outdated, client>>
  BY DEF ChangeCommits
<1>2. token \in [Tokens -> TokenRows] /\ found \subseteq Committed
  BY RowsTyped DEF IInv, ChangeInv
<1>3. /\ \A t \in Tokens : /\ token'[t].user = token[t].user /\ token'[t].parent = token[t].parent
                           /\ token'[t].saw = token[t].saw
      /\ \A t \in Tokens \ found : token'[t].state = token[t].state
      /\ \A t \in Tokens : t \in found => token'[t].state = "revoked"
  BY <1>1, <1>2 DEF TokenRows
<1>4. Committed' = Committed
  <2>1. \A t \in Tokens : t \in Committed' <=> t \in Committed
    BY <1>2, <1>3, CommittedIs, CommittedNext DEF IInv, Born
  <2>2. QED
    BY <2>1, CommittedIs, CommittedNext DEF IInv
<1>5. Kept
  BY <1>3, <1>4, CommittedIs DEF Kept, IInv
<1>6. SessionsTypeOK'
  <2>1. token' \in [Tokens -> TokenRows]
    BY <1>1, <1>2 DEF TokenRows, States, Born
  <2>2. change' \in [Users -> Changes]
    <3>1. between \in SUBSET Tokens /\ {} \in SUBSET Tokens
      BY DEF Refreshing
    <3>2. change \in [Users -> Changes]
      BY RowsTyped DEF IInv
    <3>3. QED
      BY <1>1, <3>1, <3>2 DEF Changes
  <2>3. QED
    BY <1>1, <2>1, <2>2, WriteTyped DEF IInv
<1>7. ASSUME NEW t \in Tokens PROVE TokenInv!(t)'
  <2>1. token[t].parent # NoToken => token[t].parent \in Tokens
    BY <1>2 DEF TokenRows, Pairs
  <2>2. \A s \in token[t].saw : s \in Tokens
    BY CommittedIs DEF IInv, TokenInv
  <2>3. token'[t].state \in {"checked"} \cup Born => token[t].state \in {"checked"} \cup Born
    BY <1>2, <1>3, CommittedIs DEF IInv, Born
  <2>4. token'[t].state = "checked" => token[t].state = "checked"
    BY <1>3
  <2>5. QED
    BY <1>3, <1>4, <2>1, <2>2, <2>3, <2>4 DEF IInv, TokenInv
<1>8. NewFromLive
  <2>1. \A t \in Tokens : t \in Refreshing' => t \in Refreshing
    BY <1>2, <1>3, CommittedIs DEF IInv, Refreshing
  <2>2. QED
    BY <1>3, <2>1 DEF NewFromLive
<1>9. ASSUME NEW v \in Users PROVE ChangeInv!(v)'
  <2>1. CASE v = u
    <3>1. /\ change'[u].phase = "done" /\ change'[u].found = {} /\ change'[u].before = before
          /\ change'[u].overlapping = between
      BY <1>1 DEF IInv, SessionsTypeOK
    <3>2. before \subseteq Committed /\ \A t \in before : t \in found \/ token[t].state = "revoked"
      BY <1>1 DEF IInv, ChangeInv
    <3>3. \A t \in before : t \in Committed' /\ token'[t].state = "revoked"
      BY <1>3, <1>4, <3>2, CommittedIs DEF IInv
    <3>4. \A t \in Refreshing' : token'[t].parent \in before => t \in before \cup between
      <4>1. \A t \in Refreshing' : t \in Refreshing /\ token'[t].parent = token[t].parent
        BY <1>2, <1>3, CommittedIs DEF IInv, Refreshing
      <4>2. QED
        BY <4>1
    <3>5. QED
      BY <2>1, <3>1, <3>3, <3>4
  <2>2. CASE v # u
    <3>1. change'[v] = change[v] /\ ChangeInv!(v)
      BY <1>1, <2>2 DEF IInv, SessionsTypeOK, ChangeInv
    <3>2. QED
      BY <1>5, <1>8, <3>1, ChangeOfOneKept DEF IInv
  <2>3. QED
    BY <2>1, <2>2
<1>10. QED
  BY <1>5, <1>6, <1>7, <1>9 DEF TokenInv, ChangeInv

(* A change selects every live token of the user; it starts with none.     *)
LEMMA ChangeKeeps ==
  ASSUME IInv, NEW u \in Users, ChangeStarts(u) \/ ChangeSelects(u)
  PROVE  SessionsTypeOK' /\ ChangeInv'
<1> DEFINE before == {t \in Committed : token[t].user = u}
<1>1. UNCHANGED <<active, token, outdated, client>>
  BY DEF ChangeStarts, ChangeSelects, ChangeFinds
<1>2. /\ LiveTokens(u) \subseteq Committed /\ LiveTokens(u) \subseteq Tokens /\ before \subseteq Tokens
      /\ Committed' = Committed
  BY <1>1, CommittedIs DEF LiveTokens, Committed, IInv
<1>3. change \in [Users -> Changes] /\ ChangeInv!(u)
  BY RowsTyped DEF IInv, ChangeInv
<1>4. CASE ChangeStarts(u)
  <2>1. change' = [change EXCEPT ![u].phase = "read"]
    BY <1>4 DEF ChangeStarts
  <2>2. change' \in [Users -> Changes]
    BY <1>3, <2>1 DEF Changes
  <2>3. change'[u].phase = "read" /\ change'[u].found = change[u].found
    BY <1>3, <2>1 DEF Changes
  <2>4. ChangeInv!(u)'
    BY <1>2, <1>3, <2>3
  <2>5. QED
    BY <1>1, <2>1, <2>2, <2>4, RowsTyped, WriteTyped, OtherChangesKept DEF IInv
<1>5. CASE ChangeSelects(u)
  <2>1. change' = [change EXCEPT ![u].phase = "selected", ![u].found = LiveTokens(u), ![u].before = before]
    BY <1>5 DEF ChangeSelects, ChangeFinds
  <2>2. change' \in [Users -> Changes]
    <3>1. change[u] \in Changes
      BY <1>3
    <3>2. [change[u] EXCEPT !.phase = "selected", !.found = LiveTokens(u), !.before = before] \in Changes
      BY <1>2, <3>1 DEF Changes
    <3>3. change' = [change EXCEPT ![u] = [change[u] EXCEPT !.phase = "selected",
                                             !.found = LiveTokens(u), !.before = before]]
      BY <1>3, <2>1, <3>1 DEF Changes
    <3>4. QED
      BY <1>3, <3>2, <3>3
  <2>3. change'[u].phase = "selected" /\ change'[u].found = LiveTokens(u) /\ change'[u].before = before
    BY <1>3, <2>1 DEF Changes
  <2>4. \A t \in before : t \in LiveTokens(u) \/ token[t].state = "revoked"
    BY DEF LiveTokens, Committed, Born
  <2>5. ChangeInv!(u)'
    BY <1>1, <1>2, <2>3, <2>4
  <2>6. QED
    BY <1>1, <2>1, <2>2, <2>5, RowsTyped, WriteTyped, OtherChangesKept DEF IInv
<1>6. QED
  BY <1>4, <1>5
--------------------------------------------------------------------------------
CallRows == [kind : Kinds \cup {"none"}, access : Pairs, refresh : Pairs, fresh : Pairs, served : BOOLEAN,
             pc : {"idle", "sent", "joined", "granted", "retried", "clearing", "done"}]
Stores == [access : Pairs, refresh : Pairs]
Resumable(row) == row.pc \in {"granted", "retried"} => row.fresh \in Committed

LEMMA CallsTyped == SessionsTypeOK => /\ call \in [Calls -> CallRows] /\ store \in Stores
                              /\ flight \in Pairs /\ deaths \in 0..MaxDeaths
BY DEF SessionsTypeOK, CallRows, Stores

LEMMA ClientTyped ==
  ASSUME SessionsTypeOK, UNCHANGED server, call' \in [Calls -> CallRows], store' \in Stores,
         flight' \in Pairs, deaths' \in 0..MaxDeaths
  PROVE  SessionsTypeOK'
BY DEF SessionsTypeOK, CallRows, Stores, server

LEMMA EndedIs == ASSUME SessionsTypeOK, NEW c \in Calls PROVE Ended(c) \in CallRows /\ Resumable(Ended(c))
<1>1. call[c] \in CallRows
  BY CallsTyped
<1>2. NoCall \in [kind : Kinds \cup {"none"}, access : Pairs, refresh : Pairs, fresh : Pairs, served : BOOLEAN,
                  pc : {"idle"}]
  BY DEF NoCall, Pairs
<1>3. QED
  BY <1>1, <1>2 DEF Ended, CallRows, Resumable

(* One call goes on.                                                       *)
LEMMA OneCall ==
  ASSUME IInv, Kept, NEW c \in Calls, NEW row \in CallRows, Resumable(row), call' = [call EXCEPT ![c] = row]
  PROVE  call' \in [Calls -> CallRows] /\ CallInv'
<1>1. call' \in [Calls -> CallRows] /\ call'[c] = row /\ \A d \in Calls \ {c} : call'[d] = call[d]
  BY CallsTyped DEF IInv
<1>2. \A t \in Committed : t \in Committed'
  BY DEF Kept
<1>3. QED
  BY <1>1, <1>2 DEF IInv, CallInv, Resumable

LEMMA StepIs ==
  ASSUME SessionsTypeOK, NEW c \in Calls, NEW pc \in {"joined", "granted", "retried", "clearing"}, Step(c, pc)
  PROVE  \E row \in CallRows : /\ call' = [call EXCEPT ![c] = row]
                               /\ row.pc = pc /\ row.fresh = call[c].fresh
<1>1. call[c] \in CallRows
  BY CallsTyped
<1>2. [call[c] EXCEPT !.pc = pc] \in CallRows
  BY <1>1 DEF CallRows
<1>3. call' = [call EXCEPT ![c] = [call[c] EXCEPT !.pc = pc]]
  BY DEF Step
<1>4. QED
  BY <1>1, <1>2, <1>3 DEF CallRows

LEMMA EndKeeps ==
  ASSUME IInv, Kept, NEW c \in Calls, End(c)
  PROVE  call' \in [Calls -> CallRows] /\ CallInv'
BY EndedIs, OneCall DEF IInv, End

LEMMA StepKeeps ==
  ASSUME IInv, Kept, NEW c \in Calls, NEW pc \in {"joined", "granted", "retried", "clearing"}, Step(c, pc),
         pc \in {"granted", "retried"} => call[c].fresh \in Committed
  PROVE  call' \in [Calls -> CallRows] /\ CallInv'
<1>1. PICK row \in CallRows : call' = [call EXCEPT ![c] = row] /\ row.pc = pc /\ row.fresh = call[c].fresh
  BY StepIs DEF IInv
<1>2. Resumable(row)
  BY <1>1 DEF Resumable
<1>3. QED
  BY <1>1, <1>2, OneCall

(* A step of a call that asks the server for nothing.                      *)
LEMMA HandlingKeeps ==
  ASSUME IInv, UNCHANGED server, NEW c \in Calls, Handling(c)
  PROVE  SessionsTypeOK' /\ CallInv' /\ PairedTokens'
<1> USE DEF IInv
<1>1. Kept
  BY SameTokens DEF server
<1>2. store \in Stores /\ flight \in Pairs /\ deaths \in 0..MaxDeaths /\ call[c] \in CallRows
  BY CallsTyped
<1>3. CASE Answered(c) \/ RetryRejected(c)
  <2>1. UNCHANGED <<store, flight, deaths>> /\ (End(c) \/ Step(c, "clearing"))
    BY <1>3 DEF Answered, RetryRejected
  <2>2. call' \in [Calls -> CallRows] /\ CallInv'
    BY <1>1, <2>1, EndKeeps, StepKeeps
  <2>3. QED
    BY <1>1, <1>2, <2>1, <2>2, ClientTyped, PairedKept
<1>4. CASE Rejected(c)
  <2>1. UNCHANGED <<store, deaths>> /\ (End(c) \/ Step(c, "joined"))
    BY <1>4 DEF Rejected
  <2>2. call' \in [Calls -> CallRows] /\ CallInv'
    BY <1>1, <2>1, EndKeeps, StepKeeps
  <2>3. flight' \in Pairs
    BY <1>2, <1>4, CommittedIs DEF Rejected, Unborn, Pairs
  <2>4. QED
    BY <1>1, <1>2, <2>1, <2>2, <2>3, ClientTyped, PairedKept
<1>5. CASE Save(c)
  <2>1. /\ store' = [access |-> call[c].fresh, refresh |-> call[c].fresh]
        /\ call[c].fresh \in Committed
        /\ End(c) \/ Step(c, "retried")
        /\ UNCHANGED <<flight, deaths>>
    BY <1>5 DEF Save, CallInv
  <2>2. call' \in [Calls -> CallRows] /\ CallInv'
    BY <1>1, <2>1, EndKeeps, StepKeeps
  <2>3. store' \in Stores
    BY <1>2, <2>1 DEF CallRows, Stores
  <2>4. PairedTokens'
    BY <1>1, <2>1 DEF PairedTokens, Kept
  <2>5. QED
    BY <1>2, <2>1, <2>2, <2>3, <2>4, ClientTyped
<1>6. CASE Clear(c)
  <2>1. store' = [access |-> NoToken, refresh |-> NoToken] /\ End(c) /\ UNCHANGED <<flight, deaths>>
    BY <1>6 DEF Clear
  <2>2. call' \in [Calls -> CallRows] /\ CallInv'
    BY <1>1, <2>1, EndKeeps
  <2>3. store' \in Stores /\ PairedTokens'
    BY <2>1 DEF Stores, Pairs, PairedTokens
  <2>4. QED
    BY <1>2, <2>1, <2>2, <2>3, ClientTyped
<1>7. CASE LoginSettles(c)
  <2>1. UNCHANGED <<store, flight, deaths>> /\ (End(c) \/ (call[c].fresh \in Committed /\ Step(c, "granted")))
    BY <1>7 DEF LoginSettles
  <2>2. call' \in [Calls -> CallRows] /\ CallInv'
    BY <1>1, <2>1, EndKeeps, StepKeeps
  <2>3. QED
    BY <1>1, <1>2, <2>1, <2>2, ClientTyped, PairedKept
<1>8. CASE LogoutSettles(c)
  <2>1. PICK served \in {FALSE} \cup {Authorised(call[c].access) /\ call[c].refresh # NoToken} :
          call' = [call EXCEPT ![c].pc = "clearing", ![c].served = served]
    BY <1>8 DEF LogoutSettles
  <2>2. served \in BOOLEAN
    BY <2>1
  <2>3. [call[c] EXCEPT !.pc = "clearing", !.served = served] \in CallRows
    BY <1>2, <2>2 DEF CallRows
  <2>4. call' = [call EXCEPT ![c] = [call[c] EXCEPT !.pc = "clearing", !.served = served]]
    BY <1>2, <2>1, CallsTyped DEF CallRows
  <2>5. Resumable([call[c] EXCEPT !.pc = "clearing", !.served = served])
    BY <1>2 DEF CallRows, Resumable
  <2>6. call' \in [Calls -> CallRows] /\ CallInv'
    BY <1>1, <2>3, <2>4, <2>5, OneCall
  <2>7. UNCHANGED <<store, flight, deaths>>
    BY <1>8 DEF LogoutSettles
  <2>8. QED
    BY <1>1, <1>2, <2>6, <2>7, ClientTyped, PairedKept
<1>9. QED
  BY <1>3, <1>4, <1>5, <1>6, <1>7, <1>8 DEF Handling

(* A refresh and a login begin a transaction; an expired access token and  *)
(* a click begin a call.                                                   *)
LEMMA AskingKeeps ==
  ASSUME IInv, NEW c \in Calls,
         Rejected(c) \/ (\E u \in Users : BeginLogin(c, u)), ~UNCHANGED server
  PROVE  IInv' /\ Kept
<1> USE DEF IInv
<1>1. call \in [Calls -> CallRows] /\ call[c] \in CallRows /\ store \in Stores
  BY CallsTyped
<1>2. PICK u \in Users, p \in Pairs :
        /\ Unborn # {} /\ token' = [token EXCEPT ![NextPair] = NewToken(u, p)]
        /\ UNCHANGED <<active, outdated, change, store, deaths>>
        /\ flight' \in Pairs
        /\ \/ Step(c, "joined")
           \/ call' = [call EXCEPT ![c] = [NoCall EXCEPT !.kind = "login", !.pc = "sent", !.fresh = NextPair]]
  <2>1. CASE \E u \in Users : BeginLogin(c, u)
    BY <2>1, CallsTyped DEF BeginLogin, Pairs
  <2>2. CASE Rejected(c)
    <3>1. /\ call[c].refresh # NoToken /\ Unborn # {} /\ flight' = NextPair
          /\ token' = [token EXCEPT ![NextPair] = NewToken(token[call[c].refresh].user, call[c].refresh)]
          /\ Step(c, "joined")
          /\ UNCHANGED <<active, outdated, change, store, deaths>>
      BY <2>2 DEF Rejected, server
    <3>2. call[c].refresh \in Tokens
      BY <1>1, <3>1 DEF CallRows, Pairs
    <3>3. token[call[c].refresh].user \in Users
      BY <3>2, RowsTyped DEF TokenRows
    <3>4. NextPair \in Pairs
      BY <3>1, CommittedIs DEF Unborn, Pairs
    <3>5. QED
      BY <3>1, <3>2, <3>3, <3>4 DEF Pairs
  <2>3. QED
    BY <2>1, <2>2
<1>3. Kept /\ NewFromLive /\ TokenInv' /\ token' \in [Tokens -> TokenRows]
  BY <1>2, AskKeeps
<1>4. call' \in [Calls -> CallRows] /\ CallInv'
  <2>1. CASE Step(c, "joined")
    BY <1>3, <2>1, StepKeeps
  <2>2. CASE call' = [call EXCEPT ![c] = [NoCall EXCEPT !.kind = "login", !.pc = "sent", !.fresh = NextPair]]
    <3>1. NextPair \in Pairs
      BY <1>2, CommittedIs DEF Unborn, Pairs
    <3>2. [NoCall EXCEPT !.kind = "login", !.pc = "sent", !.fresh = NextPair] \in CallRows
      BY <3>1 DEF NoCall, CallRows, Kinds, Pairs
    <3>3. Resumable([NoCall EXCEPT !.kind = "login", !.pc = "sent", !.fresh = NextPair])
      BY DEF NoCall, Resumable
    <3>4. QED
      BY <1>3, <2>2, <3>2, <3>3, OneCall
  <2>3. QED
    BY <1>2, <2>1, <2>2
<1>5. SessionsTypeOK'
  BY <1>2, <1>3, <1>4 DEF SessionsTypeOK, TokenRows, States, CallRows
<1>6. QED
  BY <1>2, <1>3, <1>4, <1>5, ChangeInvKept, PairedKept

LEMMA BeginKeeps ==
  ASSUME IInv, NEW c \in Calls, NEW kind \in Kinds, Begin(c, kind)
  PROVE  IInv' /\ Kept
<1> USE DEF IInv
<1> DEFINE row == [NoCall EXCEPT !.kind = kind, !.pc = "sent", !.access = store.access, !.refresh = store.refresh]
<1>1. UNCHANGED <<server, store, flight, deaths>> /\ call' = [call EXCEPT ![c] = row]
  BY DEF Begin
<1>2. row \in CallRows /\ Resumable(row)
  BY CallsTyped DEF NoCall, CallRows, Stores, Pairs, Resumable
<1>3. Kept /\ NewFromLive /\ TokenInv'
  BY <1>1, SameTokens DEF server
<1>4. call' \in [Calls -> CallRows] /\ CallInv'
  BY <1>1, <1>2, <1>3, OneCall
<1>5. SessionsTypeOK'
  BY <1>1, <1>4, CallsTyped, ClientTyped
<1>6. QED
  BY <1>1, <1>3, <1>4, <1>5, ChangeInvKept, PairedKept DEF server

(* All calls that joined a refresh resume with the one pair it made, which *)
(* is committed; when the worker dies no call is left.                     *)
LEMMA AllCallsKeep ==
  ASSUME IInv, FlightSettles \/ WorkerDies
  PROVE  IInv' /\ Kept
<1> USE DEF IInv
<1>1. UNCHANGED <<server, store>>
  BY DEF FlightSettles, WorkerDies
<1>2. Kept /\ NewFromLive /\ TokenInv'
  BY <1>1, SameTokens DEF server
<1>3. ASSUME NEW c \in Calls
      PROVE  \E row \in CallRows : call'[c] = row /\ Resumable(row)
  <2>1. call[c] \in CallRows /\ Resumable(call[c]) /\ Ended(c) \in CallRows /\ Resumable(Ended(c))
    BY CallsTyped, EndedIs DEF CallInv, Resumable
  <2>2. CASE FlightSettles
    <3>1. PICK pair \in Pairs : Resume(pair) /\ (pair # NoToken => pair \in Committed)
      BY <2>2, CallsTyped DEF FlightSettles, Pairs
    <3>2. [call[c] EXCEPT !.pc = "granted", !.fresh = pair] \in CallRows
      BY <2>1 DEF CallRows
    <3>3. pair # NoToken => Resumable([call[c] EXCEPT !.pc = "granted", !.fresh = pair])
      BY <2>1, <3>1 DEF CallRows, Resumable
    <3>4. [call[c] EXCEPT !.pc = "clearing"] \in CallRows
          /\ Resumable([call[c] EXCEPT !.pc = "clearing"])
      BY <2>1 DEF CallRows, Resumable
    <3>5. \/ call'[c] \in {call[c], Ended(c), [call[c] EXCEPT !.pc = "clearing"]}
          \/ pair # NoToken /\ call'[c] = [call[c] EXCEPT !.pc = "granted", !.fresh = pair]
      BY <3>1 DEF Resume
    <3>6. QED
      BY <2>1, <3>2, <3>3, <3>4, <3>5
  <2>3. CASE WorkerDies
    <3>1. call'[c] = call[c] \/ call'[c] = [NoCall EXCEPT !.pc = "done"]
      BY <2>3 DEF WorkerDies
    <3>2. [NoCall EXCEPT !.pc = "done"] \in CallRows /\ Resumable([NoCall EXCEPT !.pc = "done"])
      BY DEF NoCall, CallRows, Pairs, Resumable
    <3>3. QED
      BY <2>1, <3>1, <3>2
  <2>4. QED
    BY <2>2, <2>3
<1>4. call' = [c \in Calls |-> call'[c]]
  BY DEF FlightSettles, Resume, WorkerDies
<1>5. call' \in [Calls -> CallRows]
  BY <1>3, <1>4
<1>6. CallInv'
  BY <1>2, <1>3 DEF CallInv, Resumable, Kept
<1>7. flight' \in Pairs /\ deaths' \in 0..MaxDeaths
  BY CallsTyped, SessionConstants DEF FlightSettles, WorkerDies, Pairs
<1>8. SessionsTypeOK'
  BY <1>1, <1>5, <1>7, CallsTyped, ClientTyped
<1>9. QED
  BY <1>1, <1>2, <1>6, <1>8, ChangeInvKept, PairedKept DEF server

--------------------------------------------------------------------------------
LEMMA ServerKeeps == ASSUME IInv, Server PROVE IInv' /\ Kept
<1> USE DEF IInv
<1>1. UNCHANGED client
  BY DEF Server, Check, Commit, Outdate, ChangeStarts, ChangeSelects, ChangeFinds, ChangeCommits, SetStatus
<1>2. SessionsTypeOK' /\ Kept /\ TokenInv' /\ ChangeInv'
  <2>1. CASE \E t \in Tokens : Check(t) \/ Commit(t)
    <3>1. SessionsTypeOK' /\ Kept /\ NewFromLive /\ TokenInv'
      BY <2>1, CheckKeeps, CommitKeeps
    <3>2. UNCHANGED change
      BY <2>1 DEF Check, Commit
    <3>3. QED
      BY <3>1, <3>2, ChangeInvKept
  <2>2. CASE \E u \in Users : ChangeStarts(u) \/ ChangeSelects(u)
    <3>1. SessionsTypeOK' /\ ChangeInv'
      BY <2>2, ChangeKeeps
    <3>2. UNCHANGED token
      BY <2>2 DEF ChangeStarts, ChangeSelects, ChangeFinds
    <3>3. QED
      BY <3>1, <3>2, SameTokens
  <2>3. CASE \E u \in Users : ChangeCommits(u)
    BY <2>3, ChangeCommitsKeeps
  <2>4. CASE (\E t \in Tokens : Outdate(t)) \/ (\E u \in Users : SetStatus(u))
    <3>1. UNCHANGED <<token, change>>
      BY <2>4 DEF Outdate, SetStatus
    <3>2. SessionsTypeOK'
      <4>1. CASE \E t \in Tokens : Outdate(t)
        BY <1>1, <4>1 DEF Outdate, SessionsTypeOK, client
      <4>2. CASE \E u \in Users : SetStatus(u)
        BY <1>1, <4>2 DEF SetStatus, SessionsTypeOK, client
      <4>3. QED
        BY <2>4, <4>1, <4>2
    <3>3. QED
      BY <3>1, <3>2, SameTokens, ChangeInvKept
  <2>5. QED
    BY <2>1, <2>2, <2>3, <2>4 DEF Server
<1>3. CallInv' /\ PairedTokens'
  BY <1>1, <1>2, CallInvKept, PairedKept DEF client
<1>4. QED
  BY <1>2, <1>3

LEMMA BackgroundKeeps == ASSUME IInv, Background PROVE IInv' /\ Kept
<1>1. CASE \E c \in Calls : Handling(c) /\ UNCHANGED server
  <2>1. SessionsTypeOK' /\ CallInv' /\ PairedTokens'
    BY <1>1, HandlingKeeps
  <2>2. UNCHANGED <<token, change>>
    BY <1>1 DEF server
  <2>3. QED
    BY <2>1, <2>2, SameTokens, ChangeInvKept DEF IInv
<1>2. CASE \E c \in Calls : Rejected(c) /\ ~UNCHANGED server
  BY <1>2, AskingKeeps
<1>3. CASE \E c \in Calls, u \in Users : BeginLogin(c, u)
  <2>1. CASE UNCHANGED server
    <3>1. token' = token /\ Unborn # {}
      BY <1>3, <2>1 DEF BeginLogin, server
    <3>2. token'[NextPair].state = "asked" /\ token[NextPair].state = "unborn"
      BY <1>3, <3>1, CommittedIs, RowsTyped DEF BeginLogin, IInv, Unborn, TokenRows, NewToken
    <3>3. QED
      BY <3>1, <3>2
  <2>2. CASE ~UNCHANGED server
    BY <1>3, <2>2, AskingKeeps
  <2>3. QED
    BY <2>1, <2>2
<1>4. CASE \E c \in Calls : \E kind \in Kinds \ {"login"} : Begin(c, kind)
  BY <1>4, BeginKeeps
<1>5. CASE FlightSettles \/ WorkerDies
  BY <1>5, AllCallsKeep
<1>6. ASSUME NEW c \in Calls, Handling(c) PROVE UNCHANGED server \/ Rejected(c)
  BY <1>6 DEF Handling, Answered, Save, RetryRejected, Clear, LoginSettles, LogoutSettles
<1>7. QED
  BY <1>1, <1>2, <1>3, <1>4, <1>5, <1>6 DEF Background

LEMMA NextKeeps == IInv /\ [SessionsNext]_sessionVars => IInv' /\ Kept
<1>1. ASSUME IInv, UNCHANGED sessionVars PROVE IInv' /\ Kept
  BY <1>1 DEF sessionVars, IInv, SessionsTypeOK, TokenInv, ChangeInv, CallInv, PairedTokens, Committed, Refreshing, Kept
<1>2. QED
  BY <1>1, ServerKeeps, BackgroundKeeps DEF SessionsNext

(* The inductive invariant of the server and the background worker.       *)
THEOREM Inductive == SessionsSpec => []IInv
BY InitOK, NextKeeps, PTL DEF SessionsSpec

(* routes/auth.py and authStore.ts: rows of refresh_tokens, the store and  *)
(* the calls keep their form.                                              *)
THEOREM Types == SessionsSpec => []SessionsTypeOK
<1>1. IInv => SessionsTypeOK
  BY DEF IInv
<1>2. QED
  BY <1>1, Inductive, PTL

(* authStore.ts: the stored tokens come from one committed answer.         *)
THEOREM StoreIsPaired == SessionsSpec => []PairedTokens
<1>1. IInv => PairedTokens
  BY DEF IInv
<1>2. QED
  BY <1>1, Inductive, PTL

(* refresh() in routes/auth.py: two successors of a token come from two    *)
(* transactions of which neither saw the other.                            *)
THEOREM RotationForksOnlyInOverlap == SessionsSpec => []ForksOverlap
<1>1. IInv => ForksOverlap
  BY CommittedIs DEF IInv, TokenInv, ForksOverlap
<1>2. QED
  BY <1>1, Inductive, PTL

(* change_password() in routes/auth.py: every token that existed when it   *)
(* selected is revoked, and only a refresh that overlapped the change has  *)
(* replaced one of them since.                                             *)
THEOREM PasswordChangeRevokes == SessionsSpec => []PasswordChangeHolds
<1>1. IInv => PasswordChangeHolds
  BY CommittedIs DEF IInv, ChangeInv, Refreshing, PasswordChangeHolds
<1>2. QED
  BY <1>1, Inductive, PTL

(* routes/auth.py: no step of the server or of a client takes a committed  *)
(* row away, gives it to another user or undoes its revocation.            *)
THEOREM RowsOnlyAge == SessionsSpec => [][Kept]_sessionVars
BY Inductive, NextKeeps, PTL DEF SessionsSpec
===============================================================================
