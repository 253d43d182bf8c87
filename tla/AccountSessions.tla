---------------------------- MODULE AccountSessions ----------------------------
(***************************************************************************)
(* Refresh tokens of the API (routes/auth.py) and the background worker of *)
(* one browser extension that lives on them (authenticatedApiClient.ts,    *)
(* messageRouter.ts, tempFileUploadClient.ts, authStore.ts).               *)
(*                                                                         *)
(* A token pair is named by one element of Tokens: its refresh token is a  *)
(* row of refresh_tokens, its access token a signed value that no row      *)
(* stands for.  The transaction that mints a pair carries its name, so the *)
(* row goes through the phases of the transaction: asked for by a client,  *)
(* checked (the SELECT), live (the COMMIT), or denied.  A transaction goes *)
(* on when the client that asked for it has given up.                      *)
(***************************************************************************)
EXTENDS Naturals, FiniteSets

CONSTANTS Users, Tokens, Calls, NoToken, MaxDeaths

ASSUME SessionConstants ==
  NoToken \notin Tokens /\ Tokens # {} /\ Calls \subseteq Nat /\ MaxDeaths \in Nat

VARIABLES
  active,    \* users.status = "ACTIVE"
  token,     \* rows of refresh_tokens and the transactions that write them
  outdated,  \* pairs whose access or refresh token is past its time
  change,    \* POST /auth/change-password of each user, with what it found and what overlapped it
  store,     \* chrome.storage.local: the pair whose tokens are kept
  call,      \* messages that the background worker is handling
  flight,    \* refreshInFlight: the pair that is being asked for
  deaths     \* how often the browser stopped the background worker

server == <<active, token, outdated, change>>
client == <<store, call, flight, deaths>>
sessionVars == <<active, token, outdated, change, store, call, flight, deaths>>

Pairs == Tokens \cup {NoToken}
Born == {"live", "revoked"}
Committed == {t \in Tokens : token[t].state \in Born}
LiveTokens(u) == {t \in Committed : token[t].state = "live" /\ token[t].user = u}
Unborn == {t \in Tokens : token[t].state = "unborn"}
NextPair == CHOOSE t \in Unborn : TRUE
Kinds == {"request", "upload", "login", "logout"}

(* What a bearer header is worth: 401 without a valid access token.        *)
Accepted(t) == t # NoToken /\ t \notin outdated.access
Authorised(t) == Accepted(t) /\ active[token[t].user]

NoCall == [kind |-> "none", pc |-> "idle", access |-> NoToken,
           refresh |-> NoToken, fresh |-> NoToken, served |-> FALSE]
NewToken(u, p) == [user |-> u, state |-> "asked", parent |-> p, saw |-> {}]

(* The extension starts signed out, or signed in as some user.             *)
SessionsInit ==
  /\ active = [u \in Users |-> TRUE]
  /\ \E p \in {NoToken, CHOOSE t \in Tokens : TRUE}, u \in Users :
       /\ token = [t \in Tokens |-> [user |-> u, state |-> IF t = p THEN "live" ELSE "unborn",
                                      parent |-> NoToken, saw |-> {}]]
       /\ store = [access |-> p, refresh |-> p]
  /\ outdated = [access |-> {}, refresh |-> {}]
  /\ change = [u \in Users |-> [phase |-> "none", before |-> {}, found |-> {}, overlapping |-> {}]]
  /\ call = [c \in Calls |-> NoCall]
  /\ flight = NoToken
  /\ deaths = 0

--------------------------------------------------------------------------------
(* Transactions of the server.                                             *)

MayRefreshRevoked(t) ==
  LET p == token[t].parent IN p \notin outdated.refresh /\ active[token[p].user]
MayRefresh(t) ==
  LET p == token[t].parent IN
  /\ token[p].state = "live"
  /\ p \notin outdated.refresh
  /\ active[token[p].user]

MayLogin(t) == active[token[t].user]

(* The SELECT of login() or refresh(): later steps use what it returned.   *)
Check(t) ==
  /\ token[t].state = "asked"
  /\ LET may == IF token[t].parent = NoToken THEN MayLogin(t) ELSE MayRefresh(t) IN
     token' = [token EXCEPT ![t].state = IF may THEN "checked" ELSE "denied",
                            ![t].saw = Committed]
  /\ UNCHANGED <<active, outdated, change, client>>

CommitLogin(t) ==
  /\ token[t].parent = NoToken
  /\ token' = [token EXCEPT ![t].state = "live"]

CommitRefresh(t) ==
  /\ token[t].parent # NoToken
  /\ token' = [token EXCEPT ![t].state = "live", ![token[t].parent].state = "revoked"]

Commit(t) ==
  /\ token[t].state = "checked"
  /\ CommitLogin(t) \/ CommitRefresh(t)
  /\ UNCHANGED <<active, outdated, change, client>>

(* change_password() has read the user and verified the old password.      *)
ChangeStarts(u) ==
  /\ change[u].phase = "none"
  /\ \E t \in Committed : token[t].user = u /\ Authorised(t)
  /\ change' = [change EXCEPT ![u].phase = "read"]
  /\ UNCHANGED <<active, token, outdated, client>>

(* The SELECT of the live tokens; before records every token of the user   *)
(* that exists by then.                                                    *)
ChangeFinds(u, found) ==
  /\ change[u].phase = "read"
  /\ change' = [change EXCEPT ![u].phase = "selected", ![u].found = found,
                              ![u].before = {t \in Committed : token[t].user = u}]
  /\ UNCHANGED <<active, token, outdated, client>>

(* Mutant: one live token is found.                                        *)
ChangeSelectsOne(u) == \E t \in LiveTokens(u) : ChangeFinds(u, {t})

ChangeSelects(u) == ChangeFinds(u, LiveTokens(u))

(* A refresh that has passed its check, or has committed.                  *)
Refreshing == {t \in Tokens : token[t].state \in {"checked"} \cup Born}

(* The COMMIT; overlapping records the refreshes that came between.        *)
ChangeCommits(u) ==
  LET before == change[u].before IN
  /\ change[u].phase = "selected"
  /\ change' = [change EXCEPT ![u].phase = "done", ![u].found = {},
                   ![u].overlapping = {t \in Refreshing \ before : token[t].parent \in before}]
  /\ token' = [t \in Tokens |-> IF t \in change[u].found
                                THEN [token[t] EXCEPT !.state = "revoked"] ELSE token[t]]
  /\ UNCHANGED <<active, outdated, client>>

SetStatus(u) ==
  /\ active' = [active EXCEPT ![u] = ~active[u]]
  /\ UNCHANGED <<token, outdated, change, client>>

(* Time: fifteen minutes for an access token, days for a refresh token.    *)
Outdate(t) ==
  /\ t \in Committed
  /\ \/ /\ t \notin outdated.access
        /\ outdated' = [outdated EXCEPT !.access = @ \cup {t}]
     \/ /\ t \in outdated.access \ outdated.refresh
        /\ outdated' = [outdated EXCEPT !.refresh = @ \cup {t}]
  /\ UNCHANGED <<active, token, change, client>>

Server ==
  \/ \E t \in Tokens : Check(t) \/ Commit(t) \/ Outdate(t)
  \/ \E u \in Users : ChangeStarts(u) \/ ChangeSelects(u) \/ ChangeCommits(u) \/ SetStatus(u)

--------------------------------------------------------------------------------
(* The background worker.                                                  *)

Step(c, pc) == call' = [call EXCEPT ![c].pc = pc]
(* Of a call that is over, only a logout that was let in is remembered.    *)
Ended(c) == IF call[c].served THEN [call[c] EXCEPT !.pc = "done"] ELSE [NoCall EXCEPT !.pc = "done"]
End(c) == call' = [call EXCEPT ![c] = Ended(c)]

(* Calls are numbered in the order in which they arrive.                   *)
Arrives(c) == call[c].pc = "idle" /\ \A d \in Calls : call[d].pc = "idle" => c <= d

(* A call reads the store once and goes on with what it read.              *)
Begin(c, kind) ==
  /\ Arrives(c)
  /\ call' = [call EXCEPT ![c] = [NoCall EXCEPT !.kind = kind, !.pc = "sent",
                                  !.access = store.access, !.refresh = store.refresh]]
  /\ UNCHANGED <<server, store, flight, deaths>>

BeginLogin(c, u) ==
  /\ Arrives(c)
  /\ Unborn # {}
  /\ call' = [call EXCEPT ![c] = [NoCall EXCEPT !.kind = "login", !.pc = "sent", !.fresh = NextPair]]
  /\ token' = [token EXCEPT ![NextPair] = NewToken(u, NoToken)]
  /\ UNCHANGED <<active, outdated, change, store, flight, deaths>>

(* Any answer but 401 ends the call, and so does a timeout.                *)
Answered(c) ==
  /\ call[c].kind \in {"request", "upload"}
  /\ call[c].pc \in {"sent", "retried"}
  /\ End(c)
  /\ UNCHANGED <<server, store, flight, deaths>>

Rejected(c) ==
  /\ call[c].kind \in {"request", "upload"}
  /\ call[c].pc = "sent"
  /\ ~Accepted(call[c].access)
  /\ UNCHANGED <<store, deaths>>
  /\ \/ /\ call[c].refresh = NoToken
        /\ End(c)
        /\ UNCHANGED <<server, flight>>
     \/ /\ call[c].refresh # NoToken
        /\ flight # NoToken
        /\ Step(c, "joined")
        /\ UNCHANGED <<server, flight>>
     \/ /\ call[c].refresh # NoToken
        /\ flight = NoToken
        /\ Unborn # {}
        /\ flight' = NextPair
        /\ token' = [token EXCEPT ![NextPair] = NewToken(token[call[c].refresh].user, call[c].refresh)]
        /\ Step(c, "joined")
        /\ UNCHANGED <<active, outdated, change>>

(* refreshInFlight settles: every call that joined resumes with its pair,  *)
(* or with an error when it was denied or timed out.                       *)
ResumeGranted(pair) ==
  call' = [c \in Calls |->
    IF call[c].pc = "joined" /\ pair # NoToken THEN [call[c] EXCEPT !.pc = "granted", !.fresh = pair]
    ELSE call[c]]
Resume(pair) ==
  call' = [c \in Calls |->
    IF call[c].pc # "joined" THEN call[c]
    ELSE IF pair # NoToken THEN [call[c] EXCEPT !.pc = "granted", !.fresh = pair]
    ELSE IF call[c].kind = "request" THEN [call[c] EXCEPT !.pc = "clearing"] ELSE Ended(c)]

FlightSettles ==
  /\ flight # NoToken
  /\ flight' = NoToken
  /\ Resume(NoToken) \/ (flight \in Committed /\ Resume(flight))
  /\ UNCHANGED <<server, store, deaths>>

SaveOldRefresh(c) ==
  /\ call[c].pc = "granted"
  /\ store' = [access |-> call[c].fresh,
               refresh |-> IF call[c].kind = "login" THEN call[c].fresh ELSE call[c].refresh]
  /\ IF call[c].kind = "login" THEN End(c) ELSE Step(c, "retried")
  /\ UNCHANGED <<server, flight, deaths>>
Save(c) ==
  /\ call[c].pc = "granted"
  /\ store' = [access |-> call[c].fresh, refresh |-> call[c].fresh]
  /\ IF call[c].kind = "login" THEN End(c) ELSE Step(c, "retried")
  /\ UNCHANGED <<server, flight, deaths>>

(* Only withAuthRefresh clears the store when the retry meets a 401.       *)
RetryRejected(c) ==
  /\ call[c].kind = "request"
  /\ call[c].pc = "retried"
  /\ ~Accepted(call[c].fresh)
  /\ Step(c, "clearing")
  /\ UNCHANGED <<server, store, flight, deaths>>

Clear(c) ==
  /\ call[c].pc = "clearing"
  /\ store' = [access |-> NoToken, refresh |-> NoToken]
  /\ End(c)
  /\ UNCHANGED <<server, flight, deaths>>

LoginSettles(c) ==
  /\ call[c].kind = "login"
  /\ call[c].pc = "sent"
  /\ End(c) \/ (call[c].fresh \in Committed /\ Step(c, "granted"))
  /\ UNCHANGED <<server, store, flight, deaths>>

(* POST /auth/logout.  require_active_user has begun a transaction on the  *)
(* session of the request, and session.begin() raises on a session that is *)
(* in one: the row keeps its state and the answer is an error.             *)
LogoutSettles(c) ==
  /\ call[c].kind = "logout"
  /\ call[c].pc = "sent"
  /\ \E served \in {FALSE} \cup {Authorised(call[c].access) /\ call[c].refresh # NoToken} :
       call' = [call EXCEPT ![c].pc = "clearing", ![c].served = served]
  /\ UNCHANGED <<server, store, flight, deaths>>

(* The browser stops the worker: what it was handling is gone, the store   *)
(* and the transactions of the server stay.                                *)
WorkerDies ==
  /\ deaths < MaxDeaths
  /\ \E c \in Calls : call[c].pc \notin {"idle", "done"}
  /\ deaths' = deaths + 1
  /\ call' = [c \in Calls |-> IF call[c].pc = "idle" THEN call[c] ELSE [NoCall EXCEPT !.pc = "done"]]
  /\ flight' = NoToken
  /\ UNCHANGED <<server, store>>

Handling(c) ==
  \/ Answered(c) \/ Rejected(c) \/ Save(c) \/ RetryRejected(c) \/ Clear(c)
  \/ LoginSettles(c) \/ LogoutSettles(c)

Background ==
  \/ \E c \in Calls : Handling(c)
  \/ \E c \in Calls : \/ \E kind \in Kinds \ {"login"} : Begin(c, kind)
                      \/ \E u \in Users : BeginLogin(c, u)
  \/ FlightSettles
  \/ WorkerDies

SessionsNext == Server \/ Background

SessionsSpec == SessionsInit /\ [][SessionsNext]_sessionVars

(* Timers bound every request, so what a call waits for settles.  Every    *)
(* step of a call brings it nearer to its end: fairness for all is enough. *)
FairSpec == SessionsSpec /\ WF_sessionVars(FlightSettles \/ \E c \in Calls : Handling(c))

--------------------------------------------------------------------------------
(* Properties.                                                             *)

SessionsTypeOK ==
  /\ active \in [Users -> BOOLEAN]
  /\ token \in [Tokens -> [user : Users, parent : Pairs, saw : SUBSET Tokens,
                           state : {"unborn", "asked", "checked", "denied"} \cup Born]]
  /\ outdated \in [access : SUBSET Tokens, refresh : SUBSET Tokens]
  /\ change \in [Users -> [phase : {"none", "read", "selected", "done"},
                           before : SUBSET Tokens, found : SUBSET Tokens,
                           overlapping : SUBSET Tokens]]
  /\ store \in [access : Pairs, refresh : Pairs]
  /\ call \in [Calls -> [kind : Kinds \cup {"none"}, access : Pairs, refresh : Pairs,
                         fresh : Pairs, served : BOOLEAN,
                         pc : {"idle", "sent", "joined", "granted", "retried", "clearing", "done"}]]
  /\ flight \in Pairs
  /\ deaths \in 0..MaxDeaths

(* The access and the refresh token in the store come from one answer,     *)
(* although several calls that joined one refresh, a login and a logout    *)
(* write the store in any order.                                           *)
PairedTokens == store.access = store.refresh /\ (store.access # NoToken => store.access \in Committed)

(* Rotation: a token has two successors only if the two transactions       *)
(* overlapped, so that neither read what the other committed.              *)
ForksOverlap ==
  \A s, t \in Committed :
    (s # t /\ token[s].parent = token[t].parent /\ token[s].parent # NoToken)
      => s \notin token[t].saw /\ t \notin token[s].saw

(* A change of the password revokes every token that exists when it        *)
(* selects, and from its commit on none of them can be refreshed: a        *)
(* session of before goes on only in a refresh whose check came before the *)
(* commit of the change.                                                   *)
PasswordChangeHolds ==
  \A u \in Users : change[u].phase = "done" =>
    /\ \A t \in change[u].before : token[t].state = "revoked"
    /\ \A t \in Committed : token[t].parent \in change[u].before
                            => t \in change[u].before \cup change[u].overlapping

(* Every message to the background worker is answered.                     *)
EveryCallEnds == <>[](\A c \in Calls : call[c].pc \in {"idle", "done"})

(* What a change of the password is for: no session that was there before  *)
(* it goes on in a new token.                                              *)
NoSessionSurvivesChange ==
  \A u \in Users : change[u].phase = "done" =>
    \A t \in LiveTokens(u) : token[t].parent \notin change[u].before

(* What POST /auth/logout is for: a token that its user handed in is over. *)
LogoutRevokes ==
  \A c \in Calls : (call[c].served /\ call[c].pc = "done") => token[call[c].refresh].state = "revoked"
================================================================================
