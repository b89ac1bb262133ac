-------------------------- MODULE RefreshSessions ---------------------------
(***************************************************************************)
(* POST /auth/login, /auth/refresh and /auth/logout: Service.Login,        *)
(* Refresh and Logout of the auth service over refresh_sessions, for       *)
(* concurrent requests and tokens that are presented more than once.       *)
(*                                                                         *)
(* A session, its refresh token and the token's hash are identified with   *)
(* the Login or Refresh request that generated them.  tx[r] is r's         *)
(* database session as the server sees it: "open" while it holds the row   *)
(* lock its UPDATE took, "committing" once COMMIT is sent.                 *)
(***************************************************************************)
EXTENDS Naturals

CONSTANTS
    Request,        \* requests to the three routes
    OperationOf,    \* "login", "refresh" or "logout"
    TTL,            \* REFRESH_TOKEN_TTL
    MaxTime,        \* bound of the clock
    None            \* SQL NULL, and a token that was never issued

ASSUME SessionConstants ==
    /\ OperationOf \in [Request -> {"login", "refresh", "logout"}]
    /\ TTL \in Nat \ {0}
    /\ MaxTime \in Nat
    /\ None \notin Request

VARIABLES
    time,       \* the wall clock
    sessions,   \* refresh_sessions
    pc,         \* where each request is
    token,      \* the refresh token it presents
    now,        \* what nowFunc returned to it
    tx,         \* its database session
    answer      \* what the handler answers

vars == <<time, sessions, pc, token, now, tx, answer>>

-----------------------------------------------------------------------------

Session == [state: {"ABSENT", "LIVE", "REVOKED"}, expires: Nat, replacedBy: Request \cup {None}]

NoSession == [state |-> "ABSENT", expires |-> 0, replacedBy |-> None]

\* Mutant: the expiry is computed backwards.
NewSession_BackwardExpiry(r) ==
    [state |-> "LIVE", expires |-> now[r] - TTL, replacedBy |-> None]

NewSession(r) == [state |-> "LIVE", expires |-> now[r] + TTL, replacedBy |-> None]

Code == {"NONE", "TOKENS", "NO_CONTENT", "INVALID_CREDENTIALS", "INVALID_REFRESH_TOKEN", "INTERNAL"}

\* The tokens clients have been given, and one that nobody was.
Presentable == {q \in Request : answer[q] = "TOKENS"} \cup {None}

\* Refresh's test of the session it read, and the WHERE clause of Rotate's UPDATE.
Usable(s, t) == s # None /\ sessions[s].state = "LIVE" /\ sessions[s].expires > t

\* Mutant: expired sessions are left alone.
Revocable_Unexpired(s) == s # None /\ sessions[s].state = "LIVE" /\ sessions[s].expires > time

\* The WHERE clause of RevokeByTokenHash: expired sessions too.
Revocable(s) == s # None /\ sessions[s].state = "LIVE"

\* Some database session holds the row lock of session s.
Locked(s) == \E q \in Request : token[q] = s /\ tx[q] # "none"

-----------------------------------------------------------------------------

Goto(r, l) == pc' = [pc EXCEPT ![r] = l]

Return(r, code) == Goto(r, "done") /\ answer' = [answer EXCEPT ![r] = code]

\* Login: the user is not found or the password does not match.
RejectLogin(r) ==
    /\ pc[r] = "idle" /\ OperationOf[r] = "login"
    /\ Return(r, "INVALID_CREDENTIALS")
    /\ UNCHANGED <<time, sessions, token, now, tx>>

\* Login: the password matches, the clock is read, the access token signed.
Login(r) ==
    /\ pc[r] = "idle" /\ OperationOf[r] = "login"
    /\ now' = [now EXCEPT ![r] = time]
    /\ Goto(r, "create")
    /\ UNCHANGED <<time, sessions, token, tx, answer>>

\* RefreshSessionStore.Create, then COMMIT is sent.  created_at defaults to
\* the server's time, and refresh_sessions_expiry_check compares.
CreateSession(r) ==
    /\ pc[r] = "create"
    /\ time < now[r] + TTL
    /\ tx' = [tx EXCEPT ![r] = "committing"]
    /\ Goto(r, "committing")
    /\ UNCHANGED <<time, sessions, token, now, answer>>

\* Refresh and Logout up to their first statement.
Present(r, s) ==
    /\ pc[r] = "idle" /\ OperationOf[r] \in {"refresh", "logout"}
    /\ token' = [token EXCEPT ![r] = s]
    /\ now' = [now EXCEPT ![r] = time]
    /\ Goto(r, IF OperationOf[r] = "refresh" THEN "find" ELSE "revoke")
    /\ UNCHANGED <<time, sessions, tx, answer>>

\* FindByTokenHash, a plain read, and Refresh's test of what it returned.
FindByTokenHash(r) ==
    /\ pc[r] = "find"
    /\ IF Usable(token[r], now[r]) THEN Goto(r, "user") /\ UNCHANGED answer
                                   ELSE Return(r, "INVALID_REFRESH_TOKEN")
    /\ UNCHANGED <<time, sessions, token, now, tx>>

\* UserStore.FindByID, on another connection.
FindUser(r) ==
    /\ pc[r] = "user"
    /\ Goto(r, "rotate")
    /\ UNCHANGED <<time, sessions, token, now, tx, answer>>

\* Any error of it, a lost connection too, is answered INVALID_REFRESH_TOKEN.
FindUserFails(r) ==
    /\ pc[r] = "user"
    /\ Return(r, "INVALID_REFRESH_TOKEN")
    /\ UNCHANGED <<time, sessions, token, now, tx>>

\* Mutant: the UPDATE matches the token hash alone.
Rotate_AnyState(r) ==
    /\ pc[r] = "rotate"
    /\ ~Locked(token[r])
    /\ tx' = [tx EXCEPT ![r] = "open"]
    /\ Goto(r, "sign")
    /\ UNCHANGED <<time, sessions, token, now, answer>>

\* Mutant: the row is tested by a plain SELECT, and the UPDATE that waits for
\* the lock does not test it again.
Rotate_CheckThenWrite(r) ==
    /\ pc[r] = "rotate"
    /\ Usable(token[r], now[r])
    /\ tx' = [tx EXCEPT ![r] = "open"]
    /\ Goto(r, "sign")
    /\ UNCHANGED <<time, sessions, token, now, answer>>

\* Rotate: the INSERT, and the UPDATE that waits for the row lock if the row
\* it sees matches.  No row updated rolls the INSERT back.
Rotate(r) ==
    /\ pc[r] = "rotate"
    /\ \/ /\ Usable(token[r], now[r]) /\ ~Locked(token[r])
          /\ tx' = [tx EXCEPT ![r] = "open"]
          /\ Goto(r, "sign")
          /\ UNCHANGED answer
       \/ /\ ~Usable(token[r], now[r])
          /\ Return(r, "INVALID_REFRESH_TOKEN")
          /\ UNCHANGED tx
    /\ UNCHANGED <<time, sessions, token, now>>

\* The new access token is signed, then COMMIT is sent.
GenerateAccessToken(r) ==
    /\ pc[r] = "sign"
    /\ tx' = [tx EXCEPT ![r] = "committing"]
    /\ Goto(r, "committing")
    /\ UNCHANGED <<time, sessions, token, now, answer>>

\* RevokeByTokenHash, then COMMIT is sent; no row updated is no error.
Revoke(r) ==
    /\ pc[r] = "revoke"
    /\ \/ /\ Revocable(token[r]) /\ ~Locked(token[r])
          /\ tx' = [tx EXCEPT ![r] = "committing"]
          /\ Goto(r, "committing")
          /\ UNCHANGED answer
       \/ /\ ~Revocable(token[r])
          /\ Return(r, "NO_CONTENT")
          /\ UNCHANGED tx
    /\ UNCHANGED <<time, sessions, token, now>>

\* What a COMMIT makes visible at once.
ApplyWrites(r) ==
    /\ sessions' = [s \in Request |->
          IF s = r /\ OperationOf[r] # "logout" THEN NewSession(r)
          ELSE IF s = token[r] /\ OperationOf[r] = "refresh"
               THEN [sessions[s] EXCEPT !.state = "REVOKED", !.replacedBy = r]
          ELSE IF s = token[r] /\ OperationOf[r] = "logout"
               THEN [sessions[s] EXCEPT !.state = "REVOKED"]
          ELSE sessions[s]]
    /\ tx' = [tx EXCEPT ![r] = "none"]

CommitSucceeds(r) ==
    /\ pc[r] = "committing"
    /\ ApplyWrites(r)
    /\ Return(r, IF OperationOf[r] = "logout" THEN "NO_CONTENT" ELSE "TOKENS")
    /\ UNCHANGED <<time, token, now>>

\* The client gets an error for its COMMIT, whatever the server does with it.
CommitFails(r) ==
    /\ pc[r] = "committing"
    /\ Return(r, "INTERNAL")
    /\ UNCHANGED <<time, sessions, token, now, tx>>

\* A statement or the signing fails.  The rollback reaches the server, or the
\* session is left for the server to find out.
StatementFails(r) ==
    /\ pc[r] \in {"idle", "create", "find", "rotate", "sign", "revoke"}
    /\ Return(r, "INTERNAL")
    /\ \/ UNCHANGED tx
       \/ tx[r] # "none" /\ tx' = [tx EXCEPT ![r] = "none"]
    /\ UNCHANGED <<time, sessions, token, now>>

\* The process dies with the request in it; its session stays.
Crash(r) ==
    /\ pc[r] \notin {"idle", "done", "crashed"}
    /\ Goto(r, "crashed")
    /\ UNCHANGED <<time, sessions, token, now, tx, answer>>

-----------------------------------------------------------------------------
(* PostgreSQL, once the client no longer drives the session.               *)

Abandoned(r) == pc[r] \in {"done", "crashed"}

ServerCommit(r) ==
    /\ tx[r] = "committing" /\ Abandoned(r)
    /\ ApplyWrites(r)
    /\ UNCHANGED <<time, pc, token, now, answer>>

ServerAbort(r) ==
    /\ tx[r] # "none" /\ Abandoned(r)
    /\ tx' = [tx EXCEPT ![r] = "none"]
    /\ UNCHANGED <<time, sessions, pc, token, now, answer>>

Tick ==
    /\ time < MaxTime
    /\ time' = time + 1
    /\ UNCHANGED <<sessions, pc, token, now, tx, answer>>

-----------------------------------------------------------------------------

Init ==
    /\ time = 0
    /\ sessions = [r \in Request |-> NoSession]
    /\ pc = [r \in Request |-> "idle"]
    /\ token = [r \in Request |-> None]
    /\ now = [r \in Request |-> 0]
    /\ tx = [r \in Request |-> "none"]
    /\ answer = [r \in Request |-> "NONE"]

Arrive(r) == RejectLogin(r) \/ Login(r) \/ \E s \in Presentable : Present(r, s)

\* The steps of a request under way that go on, and those that meet an error.
Handle(r) ==
    \/ CreateSession(r) \/ FindByTokenHash(r) \/ FindUser(r) \/ Rotate(r)
    \/ GenerateAccessToken(r) \/ Revoke(r) \/ CommitSucceeds(r)

Fail(r) == FindUserFails(r) \/ CommitFails(r) \/ StatementFails(r) \/ Crash(r)

Server(r) == ServerCommit(r) \/ ServerAbort(r)

Next == Tick \/ \E r \in Request : Arrive(r) \/ Handle(r) \/ Fail(r) \/ Server(r)

Spec == Init /\ [][Next]_vars

-----------------------------------------------------------------------------

\* The variables stay within their types.
TypeOK ==
    /\ time \in 0..MaxTime
    /\ sessions \in [Request -> Session]
    /\ pc \in [Request -> {"idle", "create", "find", "user", "rotate", "sign", "revoke",
                           "committing", "done", "crashed"}]
    /\ token \in [Request -> Request \cup {None}]
    /\ now \in [Request -> 0..MaxTime]
    /\ tx \in [Request -> {"none", "open", "committing"}]
    /\ answer \in [Request -> Code]

\* A refresh token is exchanged at most once: the session of every committed
\* Refresh is the one that replaced the session whose token it presented,
\* whoever else presented the same token meanwhile.
SingleSuccessor ==
    \A r \in Request :
        OperationOf[r] = "refresh" /\ sessions[r].state # "ABSENT" =>
            /\ token[r] # None
            /\ sessions[token[r]].state = "REVOKED"
            /\ sessions[token[r]].replacedBy = r

\* What a COMMIT of Login, Refresh or Logout leaves of refresh_sessions: types,
\* and every rotation linked to the session it replaced.
SessionInvariant == TypeOK /\ SingleSuccessor

\* A session that was rotated or logged out never changes again: neither a
\* refresh nor a logout that raced it revives it or rewrites what replaced it.
RevokedForever ==
    [][\A s \in Request : sessions[s].state = "REVOKED" => sessions'[s] = sessions[s]]_vars

Truthful(r) ==
    /\ answer[r] = "TOKENS" => sessions[r].state # "ABSENT"
    /\ answer[r] = "NO_CONTENT" /\ token[r] # None => sessions[token[r]].state = "REVOKED"
    /\ sessions[r].state # "ABSENT" => answer[r] \in {"TOKENS", "INTERNAL"}

\* What the handlers answer is so: tokens that are handed out have a session,
\* 204 means the presented token is dead for good, also if its logout raced a
\* refresh, and a request refused with 401 has left no session behind.
AnswersTruthful == \A r \in Request : pc[r] = "done" => Truthful(r)

\* The sessions that come from login l: the smallest set that holds l and,
\* with a session, every session some Refresh exchanged its token for.
Family(l) ==
    {s \in Request :
        \A F \in SUBSET Request :
            /\ l \in F
            /\ \A r \in Request :
                  token[r] \in F /\ OperationOf[r] = "refresh" /\ sessions[r].state # "ABSENT"
                      => r \in F
            => s \in F}

\* A login is never good for two live sessions: however often its tokens are
\* presented, in whatever order commits take effect, at most one session of its
\* family can still be refreshed, and after a rotation only the newest.
OneLiveSessionPerLogin ==
    \A l \in Request : OperationOf[l] = "login" =>
        \A s, t \in Family(l) :
            sessions[s].state = "LIVE" /\ sessions[t].state = "LIVE" => s = t

=============================================================================
