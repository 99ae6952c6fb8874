---------------------------- MODULE SessionStore ----------------------------
(***************************************************************************)
(* The rows of auth.users, auth.sessions and auth.refresh_tokens of one    *)
(* account, and the transactions the API runs on them: login, the rotation *)
(* of a refresh token, logout, logout-all and password recovery            *)
(* (apps/api/src/app/modules/auth/auth.repository.ts).                     *)
(*                                                                         *)
(* PostgreSQL runs them READ COMMITTED: a statement sees what was          *)
(* committed when it began, a row is changed only by the holder of its     *)
(* lock, and a statement that waited for a lock reads that row again but   *)
(* keeps its old view of every other table.  A step here ends where a      *)
(* transaction can wait for a lock; its writes appear at its commit.       *)
(*                                                                         *)
(* A token or session is the number of its issue.  "from" (the token a     *)
(* token replaced) and "opened" (the number of times every session had     *)
(* been ended when the login read the account) are history, read by no     *)
(* action.                                                                 *)
(***************************************************************************)
EXTENDS Naturals, FiniteSets

CONSTANTS
    Requests,       \* requests the API serves at a time
    Nobody,         \* the holder of an unlocked row
    LoginCapacity,  \* MAX_CONCURRENT_LOGIN_REQUESTS
    MaxSessions, MaxTokens, MaxVersion   \* bounds on what is ever inserted

ASSUME SessionAssumption ==
    /\ Nobody \notin Requests
    /\ {LoginCapacity, MaxSessions, MaxTokens, MaxVersion} \subseteq Nat

VARIABLES
    version,        \* auth.users.session_version
    session,        \* auth.sessions
    token,          \* auth.refresh_tokens
    request,        \* what each request is doing
    userHolder, sessionHolder, tokenHolder,   \* row locks
    activeLogins,   \* AuthService.activeLoginRequests
    replayed        \* history: sessions of which a used token was presented

rows == <<version, session, token>>
locks == <<userHolder, sessionHolder, tokenHolder>>
serverVars == <<version, session, token, request, userHolder, sessionHolder,
                tokenHolder, activeLogins, replayed>>

Sessions == 1 .. MaxSessions
Tokens == 1 .. MaxTokens
Holders == Requests \cup {Nobody}

SessionRow == [state : {"absent", "open", "revoked"}, version : Nat, opened : Nat]
TokenRow == [session : Nat, status : {"absent", "current", "used", "revoked"},
             from : Nat]
Request ==
    [op : {"none", "login", "rotate", "logout", "endAll"},
     at : {"idle", "verify", "user", "session", "sessions", "token", "tokens",
           "decide", "done"},
     token : Nat, session : Nat,
     version : Nat, opened : Nat,   \* the account as the request read it
     revoked : BOOLEAN,             \* the session row as it was locked
     left : SUBSET Nat,             \* rows a statement has still to lock
     result : {"none", "ok", "invalid", "reused", "failed"}]

Idle == [op |-> "none", at |-> "idle", token |-> 0, session |-> 0,
         version |-> 0, opened |-> 0, revoked |-> FALSE, left |-> {},
         result |-> "none"]

Present == {s \in Sessions : session[s].state # "absent"}
Issued == {t \in Tokens : token[t].status # "absent"}
CurrentOf(s) == {t \in Issued : token[t].session = s /\ token[t].status = "current"}

\* userForAccess: what AccessJwtGuard asks of every authenticated request
Usable(s, v) ==
    /\ s \in Present
    /\ session[s].state = "open"
    /\ session[s].version = v /\ version = v

ServerInit ==
    /\ version = 0
    /\ session = [s \in Sessions |-> [state |-> "absent", version |-> 0, opened |-> 0]]
    /\ token = [t \in Tokens |-> [session |-> 0, status |-> "absent", from |-> 0]]
    /\ request = [r \in Requests |-> Idle]
    /\ userHolder = Nobody
    /\ sessionHolder = [s \in Sessions |-> Nobody]
    /\ tokenHolder = [t \in Tokens |-> Nobody]
    /\ activeLogins = 0
    /\ replayed = {}

\* Bounds: a request that may insert rows or end every session starts only
\* while rows and versions are left for it and for those already running.
Running(ops) == {r \in Requests : request[r].op \in ops /\ request[r].at # "done"}
TokensLeft == Cardinality(Tokens \ Issued) > Cardinality(Running({"login", "rotate"}))
SessionsLeft == Cardinality(Sessions \ Present) > Cardinality(Running({"login"}))
VersionsLeft == version + Cardinality(Running({"endAll"})) < MaxVersion
-----------------------------------------------------------------------------
\* COMMIT or ROLLBACK: every row lock of the request is released.
Release(r) ==
    /\ userHolder' = IF userHolder = r THEN Nobody ELSE userHolder
    /\ sessionHolder' = [s \in Sessions |->
          IF sessionHolder[s] = r THEN Nobody ELSE sessionHolder[s]]
    /\ tokenHolder' = [t \in Tokens |->
          IF tokenHolder[t] = r THEN Nobody ELSE tokenHolder[t]]

Answer(r, result, t) ==
    request' = [request EXCEPT ![r] =
        [Idle EXCEPT !.op = request[r].op, !.at = "done", !.result = result, !.token = t]]
\* Mutant of LockSession: the row is read without FOR UPDATE.
LockSessionUnlocked(r) ==
    /\ request[r].at = "session"
    /\ request' = [request EXCEPT
          ![r].at = IF request[r].op = "rotate" THEN "token" ELSE "decide",
          ![r].revoked = session[request[r].session].state = "revoked"]
    /\ UNCHANGED <<rows, locks, activeLogins, replayed>>

\* The locks of the single-row statements, and the row as the holder reads it.
LockSession(r) ==
    /\ request[r].at = "session"
    /\ sessionHolder[request[r].session] = Nobody
    /\ sessionHolder' = [sessionHolder EXCEPT ![request[r].session] = r]
    /\ request' = [request EXCEPT
          ![r].at = IF request[r].op = "rotate" THEN "token" ELSE "decide",
          ![r].revoked = session[request[r].session].state = "revoked"]
    /\ UNCHANGED <<rows, userHolder, tokenHolder, activeLogins, replayed>>

LockToken(r) ==
    /\ request[r].at = "token"
    /\ tokenHolder[request[r].token] = Nobody
    /\ tokenHolder' = [tokenHolder EXCEPT ![request[r].token] = r]
    /\ request' = [request EXCEPT ![r].at = "decide"]
    /\ UNCHANGED <<rows, userHolder, sessionHolder, activeLogins, replayed>>

\* UPDATE auth.refresh_tokens SET status='revoked' WHERE status='current':
\* waits for whoever holds such a row.
MayRevokeTokens(r, s) == \A t \in CurrentOf(s) : tokenHolder[t] \in {Nobody, r}
TokensRevoked(ts) ==
    [t \in Tokens |-> IF t \in ts THEN [token[t] EXCEPT !.status = "revoked"]
                                  ELSE token[t]]
-----------------------------------------------------------------------------
\* Mutant of StartRotate: the token row is locked before the session row.
StartRotateTokenFirst(r, t) ==
    /\ request[r].at = "idle"
    /\ t \in Issued
    /\ TokensLeft
    /\ tokenHolder[t] = Nobody
    /\ tokenHolder' = [tokenHolder EXCEPT ![t] = r]
    /\ request' = [request EXCEPT ![r] =
          [Idle EXCEPT !.op = "rotate", !.at = "session", !.token = t,
                       !.session = token[t].session, !.version = version]]
    /\ UNCHANGED <<rows, userHolder, sessionHolder, activeLogins, replayed>>

\* rotateRefreshToken
StartRotate(r, t) ==
    /\ request[r].at = "idle"
    /\ t \in Issued
    /\ TokensLeft
    /\ request' = [request EXCEPT ![r] =
          [Idle EXCEPT !.op = "rotate", !.at = "session", !.token = t,
                       !.session = token[t].session, !.version = version]]
    /\ UNCHANGED <<rows, locks, activeLogins, replayed>>

IsReplay(r) == token[request[r].token].status = "used" /\ ~request[r].revoked

MayRotate(r) ==
    LET s == request[r].session IN
    /\ token[request[r].token].status = "current"
    /\ ~request[r].revoked
    /\ request[r].version = session[s].version

RotateReplay(r) ==
    LET s == request[r].session IN
    /\ request[r].at = "decide" /\ request[r].op = "rotate"
    /\ IsReplay(r)
    /\ MayRevokeTokens(r, s)
    /\ session' = [session EXCEPT ![s].state = "revoked"]
    /\ token' = TokensRevoked(CurrentOf(s))
    /\ replayed' = replayed \cup {s}
    /\ Answer(r, "reused", 0)
    /\ Release(r)
    /\ UNCHANGED <<version, activeLogins>>

\* For a row that does not qualify, or because idle_expires_at,
\* absolute_expires_at or expires_at has passed: time is not modelled, so any
\* rotation may meet an expired session.
RotateRefused(r) ==
    /\ request[r].at = "decide" /\ request[r].op = "rotate"
    /\ ~IsReplay(r)
    /\ Answer(r, "invalid", 0)
    /\ Release(r)
    /\ UNCHANGED <<rows, activeLogins, replayed>>
\* Mutant of Rotate: the token presented is not used up.
RotateKeepingToken(r, next) ==
    LET t == request[r].token IN
    /\ request[r].at = "decide" /\ request[r].op = "rotate"
    /\ ~IsReplay(r) /\ MayRotate(r)
    /\ next \in Tokens \ Issued /\ \A u \in Tokens \ Issued : next <= u
    /\ token' = [token EXCEPT
          ![next] = [session |-> request[r].session, status |-> "current", from |-> t]]
    /\ Answer(r, "ok", next)
    /\ Release(r)
    /\ UNCHANGED <<version, session, activeLogins, replayed>>

\* The used token, the renewed session and the next token, in one commit.
Rotate(r, next) ==
    LET t == request[r].token IN
    /\ request[r].at = "decide" /\ request[r].op = "rotate"
    /\ ~IsReplay(r) /\ MayRotate(r)
    /\ next \in Tokens \ Issued /\ \A u \in Tokens \ Issued : next <= u
    /\ token' = [token EXCEPT
          ![t].status = "used",
          ![next] = [session |-> request[r].session, status |-> "current", from |-> t]]
    /\ Answer(r, "ok", next)
    /\ Release(r)
    /\ UNCHANGED <<version, session, activeLogins, replayed>>
-----------------------------------------------------------------------------
\* login: the account is read before the password hash is computed, the
\* session inserted after it with the version read.
StartLogin(r) ==
    /\ request[r].at = "idle"
    /\ activeLogins < LoginCapacity
    /\ TokensLeft /\ SessionsLeft
    /\ activeLogins' = activeLogins + 1
    /\ request' = [request EXCEPT ![r] =
          [Idle EXCEPT !.op = "login", !.at = "verify", !.version = version,
                       !.opened = version]]
    /\ UNCHANGED <<rows, locks, replayed>>

\* Mutant of VersionOfLogin: the account is read again when the session is inserted.
VersionReadAgain(r) == version

\* The version read with the password (login in auth.service.ts).
VersionOfLogin(r) == request[r].version

CreateSession(r, s, t) ==
    /\ request[r].at = "verify"
    /\ s \in Sessions \ Present /\ \A u \in Sessions \ Present : s <= u
    /\ t \in Tokens \ Issued /\ \A u \in Tokens \ Issued : t <= u
    /\ session' = [session EXCEPT ![s] =
          [state |-> "open", version |-> VersionOfLogin(r), opened |-> request[r].opened]]
    /\ token' = [token EXCEPT ![t] =
          [session |-> s, status |-> "current", from |-> 0]]
    /\ activeLogins' = activeLogins - 1
    /\ Answer(r, "ok", t)
    /\ UNCHANGED <<version, locks, replayed>>
-----------------------------------------------------------------------------
\* revokeSession, for a request whose access token was accepted.
StartLogout(r, s) ==
    /\ request[r].at = "idle"
    /\ Usable(s, version)
    /\ request' = [request EXCEPT ![r] =
          [Idle EXCEPT !.op = "logout", !.at = "session", !.session = s]]
    /\ UNCHANGED <<rows, locks, activeLogins, replayed>>

RevokeSession(r) ==
    LET s == request[r].session IN
    /\ request[r].at = "decide" /\ request[r].op = "logout"
    /\ MayRevokeTokens(r, s)
    /\ session' = [session EXCEPT ![s].state = "revoked"]
    /\ token' = TokensRevoked(CurrentOf(s))
    /\ Answer(r, "ok", 0)
    /\ Release(r)
    /\ UNCHANGED <<version, activeLogins, replayed>>
-----------------------------------------------------------------------------
\* revokeAll (an authenticated logout-all) and recoverPassword (a command run
\* beside the API): users, then sessions, then tokens, in one transaction.
StartEndAll(r) ==
    /\ request[r].at = "idle"
    /\ VersionsLeft
    /\ request' = [request EXCEPT ![r] = [Idle EXCEPT !.op = "endAll", !.at = "user"]]
    /\ UNCHANGED <<rows, locks, activeLogins, replayed>>

LockUser(r) ==
    /\ request[r].at = "user"
    /\ userHolder = Nobody
    /\ userHolder' = r
    /\ request' = [request EXCEPT ![r].at = "sessions", ![r].left = Present]
    /\ UNCHANGED <<rows, sessionHolder, tokenHolder, activeLogins, replayed>>

LockEachSession(r, s) ==
    /\ request[r].at = "sessions"
    /\ s \in request[r].left
    /\ sessionHolder[s] = Nobody
    /\ sessionHolder' = [sessionHolder EXCEPT ![s] = r]
    /\ request' = [request EXCEPT ![r].left = @ \ {s}]
    /\ UNCHANGED <<rows, userHolder, tokenHolder, activeLogins, replayed>>

\* The token statement sees every token committed by now, those of sessions
\* the session statement did not see included.
SelectTokens(r) ==
    /\ request[r].at = "sessions"
    /\ request[r].left = {}
    /\ request' = [request EXCEPT ![r].at = "tokens",
          ![r].left = {t \in Issued : token[t].status = "current"}]
    /\ UNCHANGED <<rows, locks, activeLogins, replayed>>

\* Mutant of LockEachToken: a row that stopped being current is taken all the same.
LockEachTokenAnyway(r, t) ==
    /\ request[r].at = "tokens"
    /\ t \in request[r].left
    /\ tokenHolder[t] = Nobody
    /\ tokenHolder' = [tokenHolder EXCEPT ![t] = r]
    /\ request' = [request EXCEPT ![r].left = @ \ {t}]
    /\ UNCHANGED <<rows, userHolder, sessionHolder, activeLogins, replayed>>

\* A row that stopped being current while the statement waited is skipped.
LockEachToken(r, t) ==
    /\ request[r].at = "tokens"
    /\ t \in request[r].left
    /\ tokenHolder[t] = Nobody
    /\ tokenHolder' = IF token[t].status = "current"
                      THEN [tokenHolder EXCEPT ![t] = r] ELSE tokenHolder
    /\ request' = [request EXCEPT ![r].left = @ \ {t}]
    /\ UNCHANGED <<rows, userHolder, sessionHolder, activeLogins, replayed>>

EndAll(r) ==
    /\ request[r].at = "tokens"
    /\ request[r].left = {}
    /\ version' = version + 1
    /\ session' = [s \in Sessions |->
          IF sessionHolder[s] = r THEN [session[s] EXCEPT !.state = "revoked"]
                                  ELSE session[s]]
    /\ token' = TokensRevoked({t \in Tokens : tokenHolder[t] = r})
    /\ Answer(r, "ok", 0)
    /\ Release(r)
    /\ UNCHANGED <<activeLogins, replayed>>
-----------------------------------------------------------------------------
\* Mutant of Fail: a failed login keeps its slot.
FailKeepingSlot(r) ==
    /\ request[r].at \notin {"idle", "done"}
    /\ Answer(r, "failed", 0)
    /\ Release(r)
    /\ UNCHANGED <<rows, activeLogins, replayed>>

\* A wrong password, a database error, a connection lost before COMMIT: the
\* transaction is rolled back and the request fails; a login gives its slot back.
Fail(r) ==
    /\ request[r].at \notin {"idle", "done"}
    /\ activeLogins' = IF request[r].op = "login" THEN activeLogins - 1 ELSE activeLogins
    /\ Answer(r, "failed", 0)
    /\ Release(r)
    /\ UNCHANGED <<rows, replayed>>

\* COMMIT was applied but its response is lost: the query rejects, the error of
\* the ROLLBACK is swallowed, and the request fails although its rows are written.
CommitUnheard(r) ==
    /\ request[r].at = "done" /\ request[r].result # "failed"
    /\ request' = [request EXCEPT ![r].result = "failed", ![r].token = 0]
    /\ UNCHANGED <<rows, locks, activeLogins, replayed>>

Respond(r) ==
    /\ request[r].at = "done"
    /\ request' = [request EXCEPT ![r] = Idle]
    /\ UNCHANGED <<rows, locks, activeLogins, replayed>>

\* What a request does once it was received, and what starts one.
Step(r) ==
    \/ LockSession(r) \/ LockToken(r)
    \/ RotateReplay(r) \/ RotateRefused(r) \/ \E t \in Tokens : Rotate(r, t)
    \/ \E s \in Sessions, t \in Tokens : CreateSession(r, s, t)
    \/ RevokeSession(r)
    \/ LockUser(r) \/ \E s \in Sessions : LockEachSession(r, s)
    \/ SelectTokens(r) \/ \E t \in Tokens : LockEachToken(r, t)
    \/ EndAll(r)

Start(r) ==
    \/ \E t \in Tokens : StartRotate(r, t)
    \/ StartLogin(r)
    \/ \E s \in Sessions : StartLogout(r, s)
    \/ StartEndAll(r)

ServerNext ==
    \E r \in Requests : Start(r) \/ Step(r) \/ Fail(r) \/ CommitUnheard(r) \/ Respond(r)

ServerSpec == ServerInit /\ [][ServerNext]_serverVars
-----------------------------------------------------------------------------
\* A token is replaced once: two rotations of one token never both succeed,
\* whatever locks they wait for (FOR UPDATE in rotateRefreshToken and the
\* partial unique index auth_one_current_refresh_per_session).
TokenIsRotatedOnce ==
    /\ \A t, u \in Issued : token[t].from = token[u].from /\ token[t].from # 0 => t = u
    /\ \A t, u \in Issued :
          /\ token[t].session = token[u].session
          /\ token[t].status = "current" /\ token[u].status = "current"
          => t = u

\* Revoking a session leaves no current token behind, a token that a
\* concurrent rotation was inserting included (revokeSession, revokeAll,
\* recoverPassword and the reuse branch of rotateRefreshToken).
RevokedHasNoToken ==
    \A s \in Present : session[s].state = "revoked" => CurrentOf(s) = {}

\* Once every session was ended, no session of a login that had read the
\* account before is accepted, even one inserted afterwards (the version in
\* createSession and in userForAccess).
OldLoginIsClosed ==
    \A s \in Present : Usable(s, session[s].version) => session[s].opened = version

\* The requests r cannot go on without: holders of the rows its statement
\* locks, in whatever order it visits them.
BlockedBy(r) ==
    LET q == request[r]
        tokensOf(s) == {tokenHolder[t] : t \in CurrentOf(s)}
    IN CASE q.at = "user" -> {userHolder}
         [] q.at = "session" -> {sessionHolder[q.session]}
         [] q.at = "sessions" -> {sessionHolder[s] : s \in q.left}
         [] q.at = "token" -> {tokenHolder[q.token]}
         [] q.at = "tokens" -> {tokenHolder[t] : t \in q.left}
         [] q.at = "decide" /\ (q.op = "logout" \/ IsReplay(r)) -> tokensOf(q.session)
         [] OTHER -> {}

\* No set of transactions waits for itself: PostgreSQL never has to abort one
\* of them, because all of them lock users, sessions and tokens in that order
\* (every method of auth.repository.ts).
NoDeadlock ==
    \A W \in (SUBSET Requests) \ {{}} :
        \E r \in W : BlockedBy(r) \cap (W \ {r}) = {}
-----------------------------------------------------------------------------
\* The tables read as the sessions of an account.  A session has a token to
\* exchange while one of its tokens is current.
Renewable == {s \in Present : CurrentOf(s) # {}}
TokenOf(s) == CHOOSE t \in CurrentOf(s) : TRUE

Opened == [s \in Present |-> session[s].version]
Ended == {s \in Present : session[s].state = "revoked"}
Owner == [t \in Issued |-> token[t].session]
Current == [s \in Renewable |-> TokenOf(s)]
Exchanged == {t \in Issued : token[t].status = "used"}

Account == INSTANCE AccountSessions WITH
    opened <- Opened, ended <- Ended, owner <- Owner,
    current <- Current, exchanged <- Exchanged

\* Whatever waits of the transactions interleave, each commit is one step of
\* the account: a login, the exchange of the session's only token, or the end
\* of one session or of all of them (every method of auth.repository.ts).
ImplementsAccount == Account!Spec
=============================================================================
