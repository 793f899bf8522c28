------------------------------ MODULE Accounts ------------------------------
(***************************************************************************)
(* identity: users, authentication transactions and sessions.  A login is  *)
(* a transaction the user starts, a password that is checked against it,    *)
(* and the session that follows.  Every login is a sequence of statements,  *)
(* and any number of them may be under way on one transaction: each of them *)
(* judges rows that another is about to change.  A login by a one-time code *)
(* ends at the table auth_challenges, which refuses the row SendOTP inserts *)
(* (CreateAuthChallenge); what VerifyOTP does with a challenge it has found *)
(* is never reached.  A session is named by the request that created it, or *)
(* by its user when it is older than the behaviour.                         *)
(***************************************************************************)
EXTENDS ApiRequests

CONSTANTS Users,
          Logins,            \* auth_transactions ids
          ExpiringSessions   \* bound: the sessions whose lifetime may end meanwhile

ASSUME AccountsAssumption == /\ Users \cap Requests = {} /\ ExpiringSessions \subseteq Users
                             /\ NoId \notin Users \cup Logins

VARIABLES user,              \* users
          login,             \* auth_transactions
          session            \* sessions

accountVars == <<user, login, session>>

Sessions == Requests \cup Users

User == [disabled : BOOLEAN, enrolled : BOOLEAN]   \* enrolled: a password
AuthTransaction == [state : {"none", "started", "authenticated", "expired"},
                    user : Users, over : BOOLEAN]                     \* over: expires_at is past
Session == [state : {"none", "live", "revoked", "expired"}, user : Users \cup {NoId},
            login : Logins \cup {NoId}]

NoSession == [state |-> "none", user |-> NoId, login |-> NoId]

Enabled(u) == ~user[u].disabled

-----------------------------------------------------------------------------
\* The statements, on the rows they address.

GetUserByEmail(u) == Returning(Enabled(u), u)
SetUserPassword(u) == Returning(Enabled(u), [user[u] EXCEPT !.enrolled = TRUE])
DisableUser(u) == Returning(Enabled(u), [user[u] EXCEPT !.disabled = TRUE])

CreateAuthTransaction(u) == [state |-> "started", user |-> u, over |-> FALSE]
GetAuthTransactionByID(x) ==
    Returning(~login[x].over /\ login[x].state = "started", login[x])
MarkAuthTransactionAuthenticated(x) ==
    Returning(~login[x].over /\ login[x].state \notin {"none", "expired"},
              [login[x] EXCEPT !.state = "authenticated"])

\* Mutant: relies on what GetAuthTransactionByID saw.
ExpireAnyAuthTransaction(x) == Returning(login[x].state # "none", [login[x] EXCEPT !.state = "expired"])

ExpireAuthTransaction(x) ==
    Returning(login[x].state = "started", [login[x] EXCEPT !.state = "expired"])

\* The INSERT, as the table takes it: one of four purposes, and state NOT NULL.
ChallengePurposes == {"email_otp", "email_verification", "password_reset", "magic_link"}
CreateAuthChallenge(purpose, state) ==
    Returning(purpose \in ChallengePurposes /\ state # NoId, [purpose |-> purpose, state |-> state])

CreateSession(u, x) == Returning(Enabled(u), [state |-> "live", user |-> u, login |-> x])
GetSessionByTokenHash(s) ==
    Returning(session[s].state = "live" /\ Enabled(session[s].user), session[s])
RevokeSession(row, u) == IF row.user = u /\ row.state # "none" THEN [row EXCEPT !.state = "revoked"] ELSE row
RevokeUserSessions(u) == [s \in Sessions |-> RevokeSession(session[s], u)]

-----------------------------------------------------------------------------
\* auth/service.go.  A login request is about transaction request[q].on.

AccountsUnchanged == UNCHANGED <<organization, accountVars>>

SaveLogin(x, rows) == IF NoRows(rows) THEN UNCHANGED login
                      ELSE \E row \in rows : login' = [login EXCEPT ![x] = row]

\* Start: the user, then the transaction, which does not look at the user again.
FindUser(q) ==
    /\ \E u \in Users : ~NoRows(GetUserByEmail(u)) /\ Begin(q, "start", u, {})
    /\ AccountsUnchanged

Start(q) ==
    /\ Begun(q, "start")
    /\ \E x \in Logins : /\ login[x].state = "none"
                         /\ login' = [login EXCEPT ![x] = CreateAuthTransaction(request[q].on)]
    /\ Answer(q) /\ UNCHANGED <<organization, user, session>>

\* getValidTransaction: the read, here; the expiry by the server's own clock
\* and what the handler goes on with, in the step that follows.
getValidTransaction(q) ==
    /\ \E x \in Logins : /\ ~NoRows(GetAuthTransactionByID(x))
                         /\ \E op \in {"send_otp", "password", "verify"} : Begin(q, op, x, {})
    /\ AccountsUnchanged

ExpireTransaction(q) ==
    /\ \E op \in {"send_otp", "password", "verify"} : Begun(q, op)
    /\ login[request[q].on].over
    /\ SaveLogin(request[q].on, ExpireAuthTransaction(request[q].on))
    /\ Answer(q) /\ UNCHANGED <<organization, user, session>>

\* Purpose "otp" and no State: the error is the answer.
SendOTP(q) ==
    /\ Begun(q, "send_otp")
    /\ NoRows(CreateAuthChallenge("otp", NoId))
    /\ Answer(q) /\ AccountsUnchanged

\* GetActiveAuthChallenge: auth_challenges has no row with purpose "otp".
VerifyOTP(q) ==
    /\ Begun(q, "verify")
    /\ "otp" \notin ChallengePurposes
    /\ Answer(q) /\ AccountsUnchanged

LoginWithPassword(q) ==              \* the user's row, and the password against its hash
    /\ Begun(q, "password")
    /\ LET u == login[request[q].on].user
       IN  \/ Enabled(u) /\ user[u].enrolled /\ Goto(q, "mark", {}, {})
           \/ Answer(q)              \* no such user, none enrolled, or the wrong one
    /\ AccountsUnchanged

MarkAuthenticated(q) ==
    /\ At(q, "password", "mark")
    /\ LET rows == MarkAuthTransactionAuthenticated(request[q].on)
       IN  /\ SaveLogin(request[q].on, rows)
           /\ IF NoRows(rows) THEN Answer(q) ELSE Goto(q, "session", {}, {})
    /\ UNCHANGED <<organization, user, session>>

\* handler.go: createSession, the end of the login.
createSession(q) ==
    /\ At(q, "password", "session")
    /\ LET rows == CreateSession(login[request[q].on].user, request[q].on)
       IN  IF NoRows(rows) THEN UNCHANGED session
           ELSE \E row \in rows : session' = [session EXCEPT ![q] = row]
    /\ Answer(q) /\ UNCHANGED <<organization, user, login>>

LoginStep(q) ==
    \/ FindUser(q) \/ Start(q) \/ getValidTransaction(q) \/ ExpireTransaction(q)
    \/ SendOTP(q) \/ VerifyOTP(q)
    \/ LoginWithPassword(q) \/ MarkAuthenticated(q) \/ createSession(q)

-----------------------------------------------------------------------------
\* The requests of a logged-in user about the account: RequireSession, then
\* the one statement of the service.

ResolveSession(q, op) ==
    /\ \E s \in Sessions : ~NoRows(GetSessionByTokenHash(s)) /\ Begin(q, op, session[s].user, {})
    /\ AccountsUnchanged

SaveUser(q, rows) == /\ IF NoRows(rows) THEN UNCHANGED user
                        ELSE \E row \in rows : user' = [user EXCEPT ![request[q].on] = row]
                     /\ Answer(q) /\ UNCHANGED <<organization, login, session>>

SetPassword(q) == Begun(q, "set_password") /\ SaveUser(q, SetUserPassword(request[q].on))
DeleteUser(q) == Begun(q, "delete_user") /\ SaveUser(q, DisableUser(request[q].on))

Revoke(q) ==
    /\ Begun(q, "revoke")
    /\ \E s \in Sessions : session' = [session EXCEPT ![s] = RevokeSession(@, request[q].on)]
    /\ Answer(q) /\ UNCHANGED <<organization, user, login>>

RevokeAll(q) ==
    /\ Begun(q, "revoke_all")
    /\ session' = RevokeUserSessions(request[q].on)
    /\ Answer(q) /\ UNCHANGED <<organization, user, login>>

AccountStep(q) ==
    \/ \E op \in {"set_password", "delete_user", "revoke", "revoke_all"} : ResolveSession(q, op)
    \/ SetPassword(q) \/ DeleteUser(q) \/ Revoke(q) \/ RevokeAll(q)

\* Expiry times pass.
LoginExpires(x) ==
    /\ login[x].state # "none" /\ ~login[x].over /\ login' = [login EXCEPT ![x].over = TRUE]
    /\ UNCHANGED <<request, traffic, organization, user, session>>
SessionExpires(s) ==
    /\ s \in ExpiringSessions /\ session[s].state = "live"
    /\ session' = [session EXCEPT ![s].state = "expired"]
    /\ UNCHANGED <<request, traffic, organization, user, login>>

-----------------------------------------------------------------------------
\* Properties.

\* SessionFollowsLogin: a session is of the user its transaction was started
\* for, and the transaction is authenticated and stays so.  Any number of
\* requests may be at work on one transaction, each on the row it read: one of
\* them may hold it for expired, and expire it, when another has authenticated
\* it meanwhile and made its session (auth/service.go:80, 192-199).
SessionFollowsLogin ==
    \A s \in Sessions :
       LET from == session[s]
       IN  from.login # NoId =>
              login[from.login].state = "authenticated" /\ login[from.login].user = from.user
=============================================================================
