----------------------- MODULE RefreshSessions_proofs ------------------------
(***************************************************************************)
(* Proofs about login, refresh and logout for any number of requests that  *)
(* present any issued token any number of times.                           *)
(***************************************************************************)
EXTENDS RefreshSessions, TLAPS

-----------------------------------------------------------------------------
(* The inductive invariant.                                                *)

\* The row lock: at most one database session is past its UPDATE of a session.
RowLockExclusive ==
    \A q, r \in Request :
        tx[q] # "none" /\ tx[r] # "none" /\ token[q] = token[r] /\ token[r] # None => q = r

\* Where a request may be, by its operation, and what it has of the database there.
RequestOK(r) ==
    /\ OperationOf[r] = "login" => token[r] = None
    /\ OperationOf[r] = "login" => pc[r] \in {"idle", "create", "committing", "done", "crashed"}
    /\ OperationOf[r] = "logout" => pc[r] \in {"idle", "revoke", "committing", "done", "crashed"}
    /\ OperationOf[r] = "refresh" => pc[r] \notin {"create", "revoke"}
    /\ pc[r] \in {"idle", "create", "find", "user", "rotate", "revoke"} => tx[r] = "none"
    /\ pc[r] = "sign" => tx[r] = "open"
    /\ pc[r] = "committing" => tx[r] = "committing"

\* A database session that holds a row lock has found the presented session
\* live and has not written its own; a session that exists was written by a
\* request that is over.
LockOK(r) ==
    /\ tx[r] # "none" => sessions[r].state = "ABSENT"
    /\ tx[r] # "none" /\ OperationOf[r] # "login" =>
          token[r] # None /\ sessions[token[r]].state = "LIVE"
    /\ sessions[r].state # "ABSENT" => pc[r] \in {"done", "crashed"}
    /\ OperationOf[r] = "logout" => sessions[r].state = "ABSENT"

\* Clients present tokens of sessions that exist, and a request that got no
\* answer to its COMMIT has answered INTERNAL.
AnswerOK(r) ==
    /\ token[r] # None => sessions[token[r]].state # "ABSENT"
    /\ answer[r] = "TOKENS" => sessions[r].state # "ABSENT"
    /\ pc[r] = "done" /\ tx[r] = "committing" => answer[r] = "INTERNAL"
    /\ pc[r] = "done" => Truthful(r)

Base ==
    /\ TypeOK
    /\ RowLockExclusive
    /\ \A r \in Request : RequestOK(r) /\ LockOK(r) /\ AnswerOK(r)

IInv ==
    /\ Base
    /\ SingleSuccessor
    /\ OneLiveSessionPerLogin

-----------------------------------------------------------------------------
(* Lemmas about what a COMMIT does.                                        *)

\* A new session is a session, and live.
LEMMA NewSessionType ==
    ASSUME TypeOK, NEW r \in Request
    PROVE  NewSession(r) \in Session /\ NewSession(r).state = "LIVE"
    BY SessionConstants DEF NewSession, Session, TypeOK

\* A session is still one after it was revoked, and says what replaced it.
LEMMA RevokedType ==
    ASSUME NEW x \in Session, NEW r \in Request
    PROVE  /\ [x EXCEPT !.state = "REVOKED", !.replacedBy = r] \in Session
           /\ [x EXCEPT !.state = "REVOKED", !.replacedBy = r].state = "REVOKED"
           /\ [x EXCEPT !.state = "REVOKED", !.replacedBy = r].replacedBy = r
           /\ [x EXCEPT !.state = "REVOKED"] \in Session
           /\ [x EXCEPT !.state = "REVOKED"].state = "REVOKED"
<1>1. /\ [x EXCEPT !.state = "REVOKED", !.replacedBy = r] \in Session
      /\ [x EXCEPT !.state = "REVOKED"] \in Session
    BY DEF Session
<1>2. QED
    BY DEF Session

\* A COMMIT writes the request's own session, revokes the one it was exchanged
\* for, which was live until then, and leaves the others alone.
LEMMA CommitEffect ==
    ASSUME Base, NEW r \in Request, tx[r] = "committing", ApplyWrites(r)
    PROVE  /\ sessions[r].state = "ABSENT"
           /\ sessions' \in [Request -> Session]
           /\ OperationOf[r] # "logout" => sessions'[r] = NewSession(r)
           /\ OperationOf[r] = "logout" => sessions'[r] = sessions[r]
           /\ OperationOf[r] # "login" =>
                 /\ token[r] \in Request \ {r}
                 /\ sessions[token[r]].state = "LIVE"
                 /\ sessions'[token[r]].state = "REVOKED"
           /\ OperationOf[r] = "refresh" => sessions'[token[r]].replacedBy = r
           /\ \A s \in Request : s # r /\ s # token[r] => sessions'[s] = sessions[s]
<1> USE SessionConstants
<1>1. TypeOK /\ LockOK(r) /\ RequestOK(r)
    BY DEF Base
<1>2. /\ sessions[r].state = "ABSENT"
      /\ OperationOf[r] # "login" =>
            token[r] \in Request \ {r} /\ sessions[token[r]].state = "LIVE"
    BY <1>1 DEF LockOK, TypeOK
<1>3. NewSession(r) \in Session
    BY <1>1, NewSessionType
<1>4. \A s \in Request :
         /\ [sessions[s] EXCEPT !.state = "REVOKED", !.replacedBy = r] \in Session
         /\ [sessions[s] EXCEPT !.state = "REVOKED", !.replacedBy = r].state = "REVOKED"
         /\ [sessions[s] EXCEPT !.state = "REVOKED", !.replacedBy = r].replacedBy = r
         /\ [sessions[s] EXCEPT !.state = "REVOKED"] \in Session
         /\ [sessions[s] EXCEPT !.state = "REVOKED"].state = "REVOKED"
    BY <1>1, RevokedType DEF TypeOK
<1>5. sessions' \in [Request -> Session]
    BY <1>1, <1>3, <1>4 DEF ApplyWrites, TypeOK
<1>6. OperationOf[r] = "login" => token[r] \notin Request
    BY <1>1 DEF RequestOK
<1>7. QED
    BY <1>1, <1>2, <1>4, <1>5, <1>6 DEF ApplyWrites

\* Every step leaves refresh_sessions alone, or is one request's COMMIT.
LEMMA CommitOrNot ==
    ASSUME [Next]_vars
    PROVE  \/ UNCHANGED sessions
           \/ \E r \in Request :
                 /\ CommitSucceeds(r) \/ ServerCommit(r)
                 /\ ApplyWrites(r)
                 /\ UNCHANGED <<time, token, now>>
    BY DEF Next, vars, Tick, Arrive, Handle, Fail, Server, RejectLogin, Login, Present,
           CreateSession, FindByTokenHash, FindUser, Rotate, GenerateAccessToken, Revoke,
           CommitSucceeds, FindUserFails, CommitFails, StatementFails, Crash, ServerCommit,
           ServerAbort

\* A COMMIT that takes effect was sent.
LEMMA CommitWasSent ==
    ASSUME Base, NEW r \in Request, CommitSucceeds(r) \/ ServerCommit(r)
    PROVE  tx[r] = "committing"
    BY DEF Base, RequestOK, CommitSucceeds, ServerCommit

\* Sessions do not vanish, and a revoked one never changes.
LEMMA SessionsOnlyAge ==
    ASSUME Base, [Next]_vars, NEW s \in Request
    PROVE  /\ sessions[s].state # "ABSENT" => sessions'[s].state # "ABSENT"
           /\ sessions[s].state = "REVOKED" => sessions'[s] = sessions[s]
<1>1. CASE UNCHANGED sessions
    BY <1>1
<1>2. ASSUME NEW r \in Request, CommitSucceeds(r) \/ ServerCommit(r), ApplyWrites(r)
      PROVE  /\ sessions[s].state # "ABSENT" => sessions'[s].state # "ABSENT"
             /\ sessions[s].state = "REVOKED" => sessions'[s] = sessions[s]
  <2>1. tx[r] = "committing"
      BY <1>2, CommitWasSent
  <2>2. OperationOf[r] = "login" => token[r] \notin Request
      BY SessionConstants DEF Base, RequestOK
  <2>3. QED
      BY <1>2, <2>1, <2>2, CommitEffect
<1>3. QED
    BY <1>1, <1>2, CommitOrNot

-----------------------------------------------------------------------------
(* One lemma per conjunct of the inductive invariant, one step per action. *)

\* Every step keeps the variables within their types.
LEMMA TypeStep ==
    ASSUME Base, [Next]_vars
    PROVE  TypeOK'
<1> USE SessionConstants
<1>0. TypeOK
    BY DEF Base
<1>1. CASE UNCHANGED vars
    BY <1>0, <1>1 DEF vars, TypeOK
<1>2. CASE Tick
    BY <1>0, <1>2 DEF Tick, TypeOK
<1>3. ASSUME NEW r \in Request, Arrive(r) \/ Handle(r) \/ Fail(r) \/ Server(r)
      PROVE  TypeOK'
  <2>1. CASE RejectLogin(r) \/ FindUser(r) \/ FindUserFails(r)
      BY <1>0, <2>1 DEF RejectLogin, FindUser, FindUserFails, Return, Goto, TypeOK, Code
  <2>2. CASE Login(r) \/ CreateSession(r) \/ GenerateAccessToken(r)
      BY <1>0, <2>2 DEF Login, CreateSession, GenerateAccessToken, Goto, TypeOK
  <2>3. ASSUME NEW s \in Presentable, Present(r, s)
        PROVE  TypeOK'
    <3>1. s \in Request \cup {None}
        BY DEF Presentable
    <3>2. QED
        BY <1>0, <2>3, <3>1 DEF Present, Goto, TypeOK
  <2>4. CASE FindByTokenHash(r) \/ CommitFails(r) \/ StatementFails(r) \/ Crash(r)
      BY <1>0, <2>4 DEF FindByTokenHash, CommitFails, StatementFails, Crash, Return, Goto, TypeOK, Code
  <2>5. CASE Rotate(r) \/ Revoke(r)
      BY <1>0, <2>5 DEF Rotate, Revoke, Return, Goto, TypeOK, Code
  <2>6. CASE CommitSucceeds(r) \/ ServerCommit(r)
    <3>1. sessions' \in [Request -> Session] /\ tx' = [tx EXCEPT ![r] = "none"]
        BY <2>6, CommitEffect, CommitWasSent DEF CommitSucceeds, ServerCommit, ApplyWrites
    <3>2. CASE CommitSucceeds(r)
        BY <1>0, <3>1, <3>2 DEF CommitSucceeds, Return, Goto, TypeOK, Code
    <3>3. CASE ServerCommit(r)
        BY <1>0, <3>1, <3>3 DEF ServerCommit, TypeOK
    <3>4. QED
        BY <2>6, <3>2, <3>3
  <2>7. CASE ServerAbort(r)
      BY <1>0, <2>7 DEF ServerAbort, TypeOK
  <2>8. QED
      BY <1>3, <2>1, <2>2, <2>3, <2>4, <2>5, <2>6, <2>7 DEF Arrive, Handle, Fail, Server
<1>4. QED
    BY <1>1, <1>2, <1>3 DEF Next

\* What the step of one request leaves alone of another one's.
LEMMA OthersUntouched ==
    ASSUME TypeOK, NEW r \in Request, Arrive(r) \/ Handle(r) \/ Fail(r) \/ Server(r)
    PROVE  \A q \in Request \ {r} :
              UNCHANGED <<pc[q], token[q], now[q], tx[q], answer[q]>>
    BY DEF TypeOK, Arrive, Handle, Fail, Server, RejectLogin, Login, Present,
           CreateSession, FindByTokenHash, FindUser, Rotate, GenerateAccessToken, Revoke,
           CommitSucceeds, FindUserFails, CommitFails, StatementFails, Crash, ServerCommit,
           ServerAbort, ApplyWrites, Return, Goto

\* Every request stays where its operation may be.
LEMMA RequestStep ==
    ASSUME Base, [Next]_vars, NEW q \in Request
    PROVE  RequestOK(q)'
<1> USE SessionConstants
<1>0. TypeOK /\ RequestOK(q)
    BY DEF Base
<1>1. CASE UNCHANGED <<pc[q], token[q], tx[q]>>
    BY <1>0, <1>1 DEF RequestOK
<1>2. ASSUME Arrive(q) \/ Handle(q) \/ Fail(q) \/ Server(q)
      PROVE  RequestOK(q)'
  <2>1. CASE RejectLogin(q) \/ Login(q)
      BY <1>0, <2>1 DEF RejectLogin, Login, Return, Goto, TypeOK, RequestOK
  <2>2. ASSUME NEW s \in Presentable, Present(q, s)
        PROVE  RequestOK(q)'
      BY <1>0, <2>2 DEF Present, Goto, TypeOK, RequestOK
  <2>3. CASE CreateSession(q) \/ GenerateAccessToken(q) \/ FindUser(q)
      BY <1>0, <2>3 DEF CreateSession, GenerateAccessToken, FindUser, Goto, TypeOK, RequestOK
  <2>4. CASE FindByTokenHash(q) \/ FindUserFails(q) \/ CommitFails(q) \/ Crash(q)
      BY <1>0, <2>4 DEF FindByTokenHash, FindUserFails, CommitFails, Crash, Return, Goto, TypeOK,
         RequestOK
  <2>5. CASE Rotate(q) \/ Revoke(q)
      BY <1>0, <2>5 DEF Rotate, Revoke, Return, Goto, TypeOK, RequestOK
  <2>6. CASE StatementFails(q)
      BY <1>0, <2>6 DEF StatementFails, Return, Goto, TypeOK, RequestOK
  <2>7. CASE CommitSucceeds(q)
      BY <1>0, <2>7 DEF CommitSucceeds, ApplyWrites, Return, Goto, TypeOK, RequestOK
  <2>8. CASE ServerCommit(q) \/ ServerAbort(q)
      BY <1>0, <2>8 DEF ServerCommit, ServerAbort, ApplyWrites, Abandoned, TypeOK, RequestOK
  <2>9. QED
      BY <1>2, <2>1, <2>2, <2>3, <2>4, <2>5, <2>6, <2>7, <2>8 DEF Arrive, Handle, Fail, Server
<1>3. QED
    BY <1>0, <1>1, <1>2, OthersUntouched DEF Next, vars, Tick

\* When a step changes who holds a row lock, it takes a free one or gives one up.
LEMMA LockTaken ==
    ASSUME Base, [Next]_vars, NEW q \in Request, tx'[q] # "none"
    PROVE  /\ token'[q] = token[q]
           /\ \/ tx[q] # "none"
              \/ /\ tx[q] = "none" /\ UNCHANGED sessions
                 /\ sessions[q].state = "ABSENT"
                 /\ \A p \in Request \ {q} : UNCHANGED <<tx[p], token[p]>>
                 /\ \/ OperationOf[q] = "login"
                    \/ /\ token[q] # None /\ ~Locked(token[q])
                       /\ sessions[token[q]].state = "LIVE"
<1> USE SessionConstants
<1>0. TypeOK /\ RequestOK(q) /\ LockOK(q)
    BY DEF Base
<1>1. CASE UNCHANGED <<token[q], tx[q]>>
    BY <1>1
<1>2. ASSUME Arrive(q) \/ Handle(q) \/ Fail(q) \/ Server(q), tx[q] = "none"
      PROVE  /\ token'[q] = token[q] /\ UNCHANGED sessions
             /\ sessions[q].state = "ABSENT"
             /\ \/ OperationOf[q] = "login"
                \/ token[q] # None /\ ~Locked(token[q]) /\ sessions[token[q]].state = "LIVE"
  <2>1. CASE CreateSession(q)
      BY <1>0, <2>1 DEF CreateSession, TypeOK, RequestOK, LockOK
  <2>2. CASE Rotate(q)
      BY <1>0, <1>2, <2>2 DEF Rotate, Usable, TypeOK, LockOK
  <2>3. CASE Revoke(q)
      BY <1>0, <1>2, <2>3 DEF Revoke, Revocable, TypeOK, LockOK
  <2>4. CreateSession(q) \/ Rotate(q) \/ Revoke(q)
      BY <1>0, <1>2
         DEF Arrive, Handle, Fail, Server, RejectLogin, Login, Present, FindByTokenHash, FindUser,
             GenerateAccessToken, CommitSucceeds, FindUserFails, CommitFails, StatementFails,
             Crash, ServerCommit, ServerAbort, ApplyWrites, TypeOK, RequestOK
  <2>5. QED
      BY <2>1, <2>2, <2>3, <2>4
<1>3. ASSUME Arrive(q) \/ Handle(q) \/ Fail(q) \/ Server(q), tx[q] # "none"
      PROVE  token'[q] = token[q]
    BY <1>0, <1>3
       DEF Arrive, Handle, Fail, Server, RejectLogin, Login, Present, CreateSession,
           FindByTokenHash, FindUser, Rotate, GenerateAccessToken, Revoke, CommitSucceeds,
           FindUserFails, CommitFails, StatementFails, Crash, ServerCommit, ServerAbort, RequestOK
<1>4. ASSUME NEW r \in Request, Arrive(r) \/ Handle(r) \/ Fail(r) \/ Server(r)
      PROVE  \A p \in Request \ {r} : UNCHANGED <<tx[p], token[p]>>
    BY <1>0, <1>4, OthersUntouched
<1>5. QED
    BY <1>1, <1>2, <1>3, <1>4 DEF Next, vars, Tick

\* The row lock stays exclusive: whoever takes it has found it free.
LEMMA ExclusiveStep ==
    ASSUME Base, [Next]_vars
    PROVE  RowLockExclusive'
<1>1. ASSUME NEW q \in Request, NEW r \in Request, tx'[q] # "none", tx'[r] # "none",
             token'[q] = token'[r], token'[r] # None, q # r
      PROVE  FALSE
  <2>1. token'[q] = token[q] /\ token'[r] = token[r]
      BY <1>1, LockTaken
  <2>2. OperationOf[q] # "login" /\ OperationOf[r] # "login"
      BY <1>1, <2>1 DEF Base, RequestOK
  <2>3. CASE tx[q] # "none" /\ tx[r] # "none"
      BY <1>1, <2>1, <2>3 DEF Base, RowLockExclusive
  <2>4. CASE tx[q] = "none"
    <3>1. ~Locked(token[q]) /\ tx[r] # "none"
        BY <1>1, <2>2, <2>4, LockTaken
    <3>2. QED
        BY <1>1, <2>1, <3>1 DEF Locked
  <2>5. CASE tx[r] = "none"
    <3>1. ~Locked(token[r]) /\ tx[q] # "none"
        BY <1>1, <2>2, <2>5, LockTaken
    <3>2. QED
        BY <1>1, <2>1, <3>1 DEF Locked
  <2>6. QED
      BY <2>3, <2>4, <2>5
<1>2. QED
    BY <1>1 DEF RowLockExclusive

\* A request whose writes a COMMIT applies is over, and its lock is gone.
LEMMA CommitEnds ==
    ASSUME Base, NEW r \in Request, CommitSucceeds(r) \/ ServerCommit(r)
    PROVE  pc'[r] \in {"done", "crashed"} /\ tx'[r] = "none"
    BY DEF Base, TypeOK, CommitSucceeds, ServerCommit, ApplyWrites, Abandoned, Return, Goto

\* A request that is over stays so.
LEMMA OverForever ==
    ASSUME Base, [Next]_vars, NEW q \in Request, pc[q] \in {"done", "crashed"}
    PROVE  pc'[q] = pc[q] /\ UNCHANGED <<token[q], answer[q]>>
<1>0. TypeOK
    BY DEF Base
<1>1. ASSUME Arrive(q) \/ Handle(q) \/ Fail(q) \/ Server(q)
      PROVE  pc'[q] = pc[q] /\ UNCHANGED <<token[q], answer[q]>>
    BY <1>0, <1>1
       DEF Arrive, Handle, Fail, Server, RejectLogin, Login, Present, CreateSession,
           FindByTokenHash, FindUser, Rotate, GenerateAccessToken, Revoke, CommitSucceeds,
           FindUserFails, CommitFails, StatementFails, Crash, ServerCommit, ServerAbort
<1>2. QED
    BY <1>0, <1>1, OthersUntouched DEF Next, vars, Tick

\* A held lock goes on protecting a live session and an unwritten one.
LEMMA LockStep ==
    ASSUME Base, [Next]_vars, NEW q \in Request
    PROVE  LockOK(q)'
<1> USE SessionConstants
<1>0. TypeOK /\ LockOK(q) /\ RequestOK(q)
    BY DEF Base
<1>1. CASE UNCHANGED sessions
  <2>1. ASSUME tx'[q] # "none"
        PROVE  /\ sessions'[q].state = "ABSENT"
               /\ OperationOf[q] # "login" =>
                     token'[q] # None /\ sessions'[token'[q]].state = "LIVE"
      BY <1>0, <1>1, <2>1, LockTaken DEF LockOK
  <2>2. sessions'[q].state # "ABSENT" => pc'[q] \in {"done", "crashed"}
      BY <1>0, <1>1, OverForever DEF LockOK
  <2>3. QED
      BY <1>0, <1>1, <2>1, <2>2 DEF LockOK
<1>2. ASSUME NEW r \in Request, CommitSucceeds(r) \/ ServerCommit(r), ApplyWrites(r)
      PROVE  LockOK(q)'
  <2>1. tx[r] = "committing" /\ tx'[r] = "none" /\ pc'[r] \in {"done", "crashed"}
      BY <1>2, CommitWasSent, CommitEnds
  <2>2. ASSUME tx'[q] # "none"
        PROVE  /\ sessions'[q].state = "ABSENT"
               /\ OperationOf[q] # "login" =>
                     token'[q] # None /\ sessions'[token'[q]].state = "LIVE"
    <3>1. q # r /\ tx[q] # "none" /\ token'[q] = token[q]
      <4>1. q # r
          BY <2>1, <2>2
      <4>2. tx[q] # "none"
          BY <1>0, <1>2, <2>2, <4>1 DEF ApplyWrites, TypeOK
      <4>3. QED
          BY <2>2, <4>1, <4>2, LockTaken
    <3>2. sessions[q].state = "ABSENT" /\ q # token[r]
        BY <1>0, <1>2, <2>1, <3>1, CommitEffect DEF LockOK, Base, RequestOK
    <3>3. sessions'[q] = sessions[q]
        BY <1>2, <2>1, <3>1, <3>2, CommitEffect
    <3>4. ASSUME OperationOf[q] # "login"
          PROVE  token[q] # None /\ sessions'[token[q]].state = "LIVE"
      <4>1. token[q] \in Request /\ sessions[token[q]].state = "LIVE"
          BY <1>0, <3>1, <3>4 DEF LockOK, TypeOK
      <4>2. token[q] # r
          BY <1>2, <2>1, <4>1, CommitEffect
      <4>3. token[q] # token[r]
          BY <2>1, <3>1, <4>1 DEF Base, RowLockExclusive
      <4>4. QED
          BY <1>2, <2>1, <4>1, <4>2, <4>3, CommitEffect
    <3>5. QED
        BY <3>1, <3>2, <3>3, <3>4
  <2>3. sessions'[q].state # "ABSENT" => pc'[q] \in {"done", "crashed"}
    <3>1. CASE q = r
        BY <2>1, <3>1
    <3>2. CASE q # r
      <4>1. sessions'[q].state # "ABSENT" => sessions[q].state # "ABSENT"
          BY <1>2, <2>1, <3>2, CommitEffect DEF Base, RequestOK
      <4>2. QED
          BY <1>0, <4>1, OverForever DEF LockOK
    <3>3. QED
        BY <3>1, <3>2
  <2>4. OperationOf[q] = "logout" => sessions'[q].state = "ABSENT"
      BY <1>0, <1>2, <2>1, CommitEffect DEF LockOK, Base, RequestOK
  <2>5. QED
      BY <2>2, <2>3, <2>4 DEF LockOK
<1>3. QED
    BY <1>1, <1>2, CommitOrNot

\* A client is given a token only with a committed session.
LEMMA TokenStep ==
    ASSUME Base, [Next]_vars, NEW q \in Request
    PROVE  /\ token'[q] # None => sessions'[token'[q]].state # "ABSENT"
           /\ answer'[q] = "TOKENS" => sessions'[q].state # "ABSENT"
<1> USE SessionConstants
<1>0. TypeOK /\ AnswerOK(q) /\ \A s \in Request : AnswerOK(s)
    BY DEF Base
<1>1. CASE token'[q] = token[q] /\ answer'[q] = answer[q]
    BY <1>0, <1>1, SessionsOnlyAge DEF AnswerOK, TypeOK
<1>2. ASSUME Arrive(q) \/ Handle(q) \/ Fail(q) \/ Server(q)
      PROVE  /\ token'[q] # None => sessions'[token'[q]].state # "ABSENT"
             /\ answer'[q] = "TOKENS" => sessions'[q].state # "ABSENT"
  <2>1. ASSUME NEW s \in Presentable, Present(q, s)
        PROVE  /\ token'[q] # None => sessions'[token'[q]].state # "ABSENT"
               /\ answer'[q] = "TOKENS" => sessions'[q].state # "ABSENT"
      BY <1>0, <2>1 DEF Present, Presentable, AnswerOK, TypeOK
  <2>2. CASE CommitSucceeds(q)
    <3>1. token'[q] = token[q] /\ ApplyWrites(q) /\ tx[q] = "committing"
        BY <2>2, CommitWasSent DEF CommitSucceeds
    <3>2. answer'[q] = "TOKENS" => OperationOf[q] # "logout"
        BY <1>0, <2>2 DEF CommitSucceeds, Return, TypeOK
    <3>3. NewSession(q).state = "LIVE"
        BY <1>0, NewSessionType
    <3>4. QED
        BY <1>0, <3>1, <3>2, <3>3, CommitEffect, SessionsOnlyAge DEF AnswerOK, TypeOK
  <2>3. ASSUME token'[q] = token[q], answer'[q] # "TOKENS"
        PROVE  /\ token'[q] # None => sessions'[token'[q]].state # "ABSENT"
               /\ answer'[q] = "TOKENS" => sessions'[q].state # "ABSENT"
      BY <1>0, <2>3, SessionsOnlyAge DEF AnswerOK, TypeOK
  <2>4. \/ \E s \in Presentable : Present(q, s)
        \/ CommitSucceeds(q)
        \/ token'[q] = token[q] /\ answer'[q] # "TOKENS"
        \/ token'[q] = token[q] /\ answer'[q] = answer[q]
      BY <1>0, <1>2
         DEF Arrive, Handle, Fail, Server, RejectLogin, Login, CreateSession,
             FindByTokenHash, FindUser, Rotate, GenerateAccessToken, Revoke, FindUserFails,
             CommitFails, StatementFails, Crash, ServerCommit, ServerAbort, Return, Goto, TypeOK
  <2>5. QED
      BY <1>1, <2>1, <2>2, <2>3, <2>4
<1>3. QED
    BY <1>0, <1>1, <1>2, OthersUntouched DEF Next, vars, Tick

\* What a request that is over has answered stays so, whatever the others commit
\* and the server does with its own COMMIT.
LEMMA TruthStays ==
    ASSUME Base, [Next]_vars, NEW q \in Request, pc[q] = "done"
    PROVE  Truthful(q)'
<1> USE SessionConstants
<1>0. TypeOK /\ Truthful(q) /\ AnswerOK(q) /\ LockOK(q) /\ RequestOK(q)
    BY DEF Base, AnswerOK
<1>1. UNCHANGED <<token[q], answer[q]>>
    BY OverForever
<1>2. answer[q] = "TOKENS" => sessions'[q].state # "ABSENT"
    BY <1>0, SessionsOnlyAge DEF Truthful
<1>3. answer[q] = "NO_CONTENT" /\ token[q] # None => sessions'[token[q]].state = "REVOKED"
    BY <1>0, SessionsOnlyAge DEF Truthful, TypeOK
<1>4. sessions'[q].state # "ABSENT" => answer[q] \in {"TOKENS", "INTERNAL"}
  <2>1. CASE sessions[q].state # "ABSENT"
      BY <1>0, <2>1 DEF Truthful
  <2>2. ASSUME NEW r \in Request, CommitSucceeds(r) \/ ServerCommit(r), ApplyWrites(r),
               sessions[q].state = "ABSENT", sessions'[q].state # "ABSENT"
        PROVE  answer[q] = "INTERNAL"
    <3>1. tx[r] = "committing"
        BY <2>2, CommitWasSent
    <3>2. q = r
        BY <2>2, <3>1, CommitEffect DEF Base, RequestOK
    <3>3. QED
        BY <1>0, <3>1, <3>2 DEF AnswerOK
  <2>3. QED
      BY <2>1, <2>2, CommitOrNot
<1>5. QED
    BY <1>1, <1>2, <1>3, <1>4 DEF Truthful

\* A request that comes to an end answers truthfully.
LEMMA TruthAtReturn ==
    ASSUME Base, NEW q \in Request, Arrive(q) \/ Handle(q) \/ Fail(q) \/ Server(q),
           pc[q] # "done", pc'[q] = "done"
    PROVE  /\ Truthful(q)'
           /\ tx'[q] = "committing" => answer'[q] = "INTERNAL"
<1> USE SessionConstants
<1>0. TypeOK /\ LockOK(q) /\ RequestOK(q) /\ AnswerOK(q)
    BY DEF Base
<1>1. CASE CommitSucceeds(q)
  <2>1. ApplyWrites(q) /\ tx[q] = "committing" /\ tx'[q] = "none" /\ token'[q] = token[q]
      BY <1>1, CommitWasSent, CommitEnds DEF CommitSucceeds
  <2>2. answer'[q] = IF OperationOf[q] = "logout" THEN "NO_CONTENT" ELSE "TOKENS"
      BY <1>0, <1>1 DEF CommitSucceeds, Return, TypeOK
  <2>3. NewSession(q).state = "LIVE"
      BY <1>0, NewSessionType
  <2>4. QED
      BY <2>1, <2>2, <2>3, CommitEffect DEF Truthful
<1>2. CASE Revoke(q)
  <2>1. /\ ~Revocable(token[q]) /\ answer'[q] = "NO_CONTENT"
        /\ UNCHANGED <<sessions, token, tx>> /\ pc[q] = "revoke"
      BY <1>0, <1>2 DEF Revoke, Return, Goto, TypeOK
  <2>2. tx[q] = "none" /\ sessions[q].state = "ABSENT"
      BY <1>0, <2>1 DEF RequestOK, LockOK
  <2>3. token[q] # None => sessions[token[q]].state = "REVOKED"
    <3>1. ASSUME token[q] # None
          PROVE  sessions[token[q]].state \in {"ABSENT", "LIVE", "REVOKED"}
        BY <1>0, <3>1 DEF TypeOK, Session
    <3>2. QED
        BY <1>0, <2>1, <3>1 DEF Revocable, AnswerOK
  <2>4. QED
      BY <2>1, <2>2, <2>3 DEF Truthful
<1>3. ASSUME answer'[q] \in {"INVALID_CREDENTIALS", "INVALID_REFRESH_TOKEN", "INTERNAL"},
             UNCHANGED sessions, tx'[q] = "committing" => answer'[q] = "INTERNAL",
             pc[q] \notin {"done", "crashed"}
      PROVE  /\ Truthful(q)'
             /\ tx'[q] = "committing" => answer'[q] = "INTERNAL"
    BY <1>0, <1>3 DEF Truthful, LockOK
<1>4. \/ CommitSucceeds(q) \/ Revoke(q)
      \/ /\ answer'[q] \in {"INVALID_CREDENTIALS", "INVALID_REFRESH_TOKEN", "INTERNAL"}
         /\ UNCHANGED sessions
         /\ tx'[q] = "committing" => answer'[q] = "INTERNAL"
         /\ pc[q] \notin {"done", "crashed"}
  <2>1. CASE RejectLogin(q)
      BY <1>0, <2>1 DEF RejectLogin, Return, TypeOK, RequestOK
  <2>2. CASE FindByTokenHash(q) \/ FindUserFails(q) \/ Rotate(q)
      BY <1>0, <2>2 DEF FindByTokenHash, FindUserFails, Rotate, Return, Goto, TypeOK, RequestOK
  <2>3. CASE CommitFails(q) \/ StatementFails(q)
      BY <1>0, <2>3 DEF CommitFails, StatementFails, Return, TypeOK, RequestOK
  <2>4. \/ CommitSucceeds(q) \/ Revoke(q)
        \/ RejectLogin(q) \/ FindByTokenHash(q) \/ FindUserFails(q) \/ Rotate(q)
        \/ CommitFails(q) \/ StatementFails(q)
      BY <1>0 DEF Arrive, Handle, Fail, Server, Login, Present, CreateSession, FindUser,
                  GenerateAccessToken, Crash, ServerCommit, ServerAbort, Goto, TypeOK
  <2>5. QED
      BY <2>1, <2>2, <2>3, <2>4
<1>5. QED
    BY <1>1, <1>2, <1>3, <1>4

\* Every answer goes on being so.
LEMMA AnswerStep ==
    ASSUME Base, [Next]_vars, NEW q \in Request
    PROVE  AnswerOK(q)'
<1>0. TypeOK /\ AnswerOK(q)
    BY DEF Base
<1>1. CASE pc[q] = "done"
  <2>1. UNCHANGED <<pc[q], answer[q]>>
      BY <1>1, OverForever
  <2>2. tx'[q] = "committing" => tx[q] = "committing"
    <3>1. ASSUME Arrive(q) \/ Handle(q) \/ Fail(q) \/ Server(q)
          PROVE  tx'[q] = tx[q] \/ tx'[q] = "none"
        BY <1>0, <1>1, <3>1
           DEF Arrive, Handle, Fail, Server, RejectLogin, Login, Present, CreateSession,
               FindByTokenHash, FindUser, Rotate, GenerateAccessToken, Revoke, CommitSucceeds,
               FindUserFails, CommitFails, StatementFails, Crash, ServerCommit, ServerAbort,
               ApplyWrites, TypeOK
    <3>2. QED
        BY <1>0, <3>1, OthersUntouched DEF Next, vars, Tick
  <2>3. QED
      BY <1>0, <1>1, <2>1, <2>2, TruthStays, TokenStep DEF AnswerOK
<1>2. CASE pc[q] # "done" /\ pc'[q] # "done"
    BY <1>2, TokenStep DEF AnswerOK
<1>3. CASE pc[q] # "done" /\ pc'[q] = "done"
  <2>1. Arrive(q) \/ Handle(q) \/ Fail(q) \/ Server(q)
      BY <1>0, <1>3, OthersUntouched DEF Next, vars, Tick
  <2>2. QED
      BY <1>3, <2>1, TruthAtReturn, TokenStep DEF AnswerOK
<1>4. QED
    BY <1>1, <1>2, <1>3

\* The session of a refresh goes on being the one that replaced the session it
\* was exchanged for.
LEMMA SuccessorStep ==
    ASSUME Base, SingleSuccessor, [Next]_vars
    PROVE  SingleSuccessor'
<1> USE SessionConstants
<1>0. TypeOK
    BY DEF Base
<1>1. ASSUME NEW q \in Request, OperationOf[q] = "refresh", sessions'[q].state # "ABSENT"
      PROVE  /\ token'[q] # None
             /\ sessions'[token'[q]].state = "REVOKED"
             /\ sessions'[token'[q]].replacedBy = q
  <2>1. CASE sessions[q].state # "ABSENT"
    <3>1. UNCHANGED token[q]
        BY <2>1, OverForever DEF Base, LockOK
    <3>2. token[q] \in Request /\ sessions[token[q]].state = "REVOKED"
          /\ sessions[token[q]].replacedBy = q
        BY <1>0, <1>1, <2>1 DEF SingleSuccessor, TypeOK
    <3>3. QED
        BY <3>1, <3>2, SessionsOnlyAge
  <2>2. ASSUME NEW r \in Request, CommitSucceeds(r) \/ ServerCommit(r), ApplyWrites(r),
               UNCHANGED token, sessions[q].state = "ABSENT"
        PROVE  /\ token'[q] # None
               /\ sessions'[token'[q]].state = "REVOKED"
               /\ sessions'[token'[q]].replacedBy = q
    <3>1. tx[r] = "committing"
        BY <2>2, CommitWasSent
    <3>2. q = r
        BY <1>1, <2>2, <3>1, CommitEffect DEF Base, RequestOK
    <3>3. QED
        BY <1>1, <2>2, <3>1, <3>2, CommitEffect
  <2>3. QED
      BY <1>1, <2>1, <2>2, CommitOrNot
<1>2. QED
    BY <1>1 DEF SingleSuccessor

-----------------------------------------------------------------------------
(* Families.                                                               *)

\* A session that some Refresh has exchanged a token for.
Child(r) == OperationOf[r] = "refresh" /\ sessions[r].state # "ABSENT"

\* A set with login l that holds the children of its members.
Closed(l, F) == l \in F /\ \A r \in Request : token[r] \in F /\ Child(r) => r \in F

\* A family is the least closed set.
LEMMA FamilyLeast ==
    ASSUME NEW l \in Request
    PROVE  /\ Family(l) \in SUBSET Request
           /\ Closed(l, Family(l))
           /\ \A F \in SUBSET Request : Closed(l, F) => Family(l) \subseteq F
    BY DEF Family, Closed, Child

\* The same of the state after a step.
LEMMA FamilyLeastNext ==
    ASSUME NEW l \in Request, NEW F \in SUBSET Request, Closed(l, F)'
    PROVE  Family(l)' \subseteq F
    BY DEF Family, Closed, Child

\* A step that adds no child leaves no family larger.
LEMMA FamilyKept ==
    ASSUME NEW l \in Request,
           \A r \in Request : Child(r)' => Child(r) /\ token'[r] = token[r]
    PROVE  Family(l)' \subseteq Family(l)
<1>1. PICK F \in SUBSET Request : F = Family(l)
    BY FamilyLeast
<1>2. Closed(l, F)
    BY <1>1, FamilyLeast
<1>3. Closed(l, F)'
    BY <1>2 DEF Closed
<1>4. QED
    BY <1>1, <1>3, FamilyLeastNext

\* A login's COMMIT joins no older family, and begins one of its own.
LEMMA LoginFamilies ==
    ASSUME Base, SingleSuccessor, NEW r \in Request, OperationOf[r] = "login",
           tx[r] = "committing", ApplyWrites(r), UNCHANGED token, NEW l \in Request
    PROVE  Family(l)' \subseteq IF l = r THEN {r} ELSE Family(l) \ {r}
<1>0. sessions[r].state = "ABSENT" /\ token[r] = None
    BY CommitEffect DEF Base, RequestOK
<1>1. \A q \in Request : Child(q)' => Child(q) /\ q # r
    BY CommitEffect, <1>0, SessionConstants DEF Child, Base, TypeOK
<1>2. CASE l = r
  <2>1. \A q \in Request : Child(q) => token[q] # r
      BY <1>0 DEF Child, SingleSuccessor
  <2>2. Closed(r, {r})'
      BY <1>1, <2>1 DEF Closed
  <2>3. {r} \in SUBSET Request
      OBVIOUS
  <2>4. QED
      BY <1>2, <2>2, <2>3, FamilyLeastNext
<1>3. CASE l # r
  <2>1. PICK F \in SUBSET Request : F = Family(l) \ {r}
      BY FamilyLeast
  <2>2. Closed(l, F)'
    <3>1. l \in F
        BY <1>3, <2>1, FamilyLeast DEF Closed
    <3>2. ASSUME NEW q \in Request, token'[q] \in F, Child(q)'
          PROVE  q \in F
        BY <1>1, <2>1, <3>2, FamilyLeast DEF Closed
    <3>3. QED
        BY <3>1, <3>2 DEF Closed
  <2>3. QED
      BY <1>3, <2>1, <2>2, FamilyLeastNext
<1>4. QED
    BY <1>2, <1>3

\* A refresh's COMMIT joins the families of the session it was exchanged for.
LEMMA RefreshFamilies ==
    ASSUME Base, SingleSuccessor, NEW r \in Request, OperationOf[r] = "refresh",
           tx[r] = "committing", ApplyWrites(r), UNCHANGED token, NEW l \in Request, l # r
    PROVE  Family(l)' \subseteq
              IF token[r] \in Family(l) THEN Family(l) \cup {r} ELSE Family(l) \ {r}
<1>0. /\ sessions[r].state = "ABSENT"
      /\ token[r] \in Request \ {r} /\ sessions[token[r]].state = "LIVE"
    BY CommitEffect
<1>1. \A q \in Request \ {r} : Child(q)' => Child(q)
  <2>1. \A q \in Request \ {r} : sessions'[q].state # "ABSENT" => sessions[q].state # "ABSENT"
      BY <1>0, CommitEffect
  <2>2. QED
      BY <2>1 DEF Child
<1>2. \A q \in Request : Child(q) => token[q] # r
    BY <1>0 DEF Child, SingleSuccessor
<1>3. PICK F \in SUBSET Request :
         F = IF token[r] \in Family(l) THEN Family(l) \cup {r} ELSE Family(l) \ {r}
    BY FamilyLeast
<1>4. Closed(l, F)'
  <2>1. l \in F
      BY <1>3, FamilyLeast DEF Closed
  <2>2. ASSUME NEW q \in Request, token'[q] \in F, Child(q)'
        PROVE  q \in F
    <3>1. CASE q = r
        BY <1>0, <1>3, <2>2, <3>1
    <3>2. CASE q # r
      <4>1. Child(q) /\ token[q] \in F /\ token[q] # r
          BY <1>1, <1>2, <2>2, <3>2
      <4>2. token[q] \in Family(l)
          BY <1>3, <4>1
      <4>3. q \in Family(l)
          BY <4>1, <4>2, FamilyLeast DEF Closed
      <4>4. QED
          BY <1>3, <3>2, <4>3
    <3>3. QED
        BY <3>1, <3>2
  <2>3. QED
      BY <2>1, <2>2 DEF Closed
<1>5. QED
    BY <1>3, <1>4, FamilyLeastNext

\* No step gives a family a second live session.
LEMMA FamilyStep ==
    ASSUME Base, SingleSuccessor, OneLiveSessionPerLogin, [Next]_vars
    PROVE  OneLiveSessionPerLogin'
<1> USE SessionConstants
<1> DEFINE Live(s) == sessions[s].state = "LIVE"
<1>0. TypeOK
    BY DEF Base
<1>1. SUFFICES ASSUME NEW l \in Request, OperationOf[l] = "login",
                      NEW s \in Family(l)', NEW t \in Family(l)', Live(s)', Live(t)'
               PROVE  s = t
    BY DEF OneLiveSessionPerLogin
<1>2. s \in Request /\ t \in Request
    BY DEF Family
<1>3. \A u, v \in Family(l) : Live(u) /\ Live(v) => u = v
    BY <1>1 DEF OneLiveSessionPerLogin
<1>4. \A q \in Request : Child(q) => token'[q] = token[q]
    BY OverForever DEF Child, Base, LockOK
<1>5. CASE UNCHANGED sessions
  <2>1. Family(l)' \subseteq Family(l)
      BY <1>4, <1>5, FamilyKept DEF Child
  <2>2. QED
      BY <1>1, <1>3, <1>5, <2>1
<1>6. ASSUME NEW r \in Request, CommitSucceeds(r) \/ ServerCommit(r), ApplyWrites(r),
             UNCHANGED token
      PROVE  s = t
  <2>0. tx[r] = "committing"
      BY <1>6, CommitWasSent
  <2>1. \A u \in Request \ {r} : Live(u)' => Live(u) /\ u # token[r]
    <3>1. ASSUME NEW u \in Request \ {r}, Live(u)'
          PROVE  Live(u) /\ u # token[r]
      <4>1. CASE u = token[r]
          BY <1>6, <2>0, <3>1, <4>1, CommitEffect DEF Base, RequestOK
      <4>2. CASE u # token[r]
          BY <1>6, <2>0, <3>1, <4>2, CommitEffect
      <4>3. QED
          BY <4>1, <4>2
    <3>2. QED
        BY <3>1
  <2> HIDE DEF Live
  <2>2. CASE OperationOf[r] = "logout"
    <3>1. \A q \in Request : sessions'[q].state # "ABSENT" => sessions[q].state # "ABSENT"
        BY <1>6, <2>0, <2>2, CommitEffect
    <3>2. Family(l)' \subseteq Family(l)
      <4>1. \A q \in Request : Child(q)' => Child(q) /\ token'[q] = token[q]
          BY <1>6, <3>1 DEF Child
      <4>2. QED
          BY <4>1, FamilyKept
    <3>3. Live(r)' => Live(r)
        BY <1>6, <2>0, <2>2, CommitEffect DEF Live
    <3>4. QED
        BY <1>1, <1>2, <1>3, <2>1, <3>2, <3>3
  <2>3. CASE OperationOf[r] = "login"
    <3>1. Family(l)' \subseteq IF l = r THEN {r} ELSE Family(l) \ {r}
        BY <1>6, <2>0, <2>3, LoginFamilies
    <3>2. QED
        BY <1>1, <1>2, <1>3, <2>1, <3>1
  <2>4. CASE OperationOf[r] = "refresh"
    <3>1. Family(l)' \subseteq
             IF token[r] \in Family(l) THEN Family(l) \cup {r} ELSE Family(l) \ {r}
        BY <1>1, <1>6, <2>0, <2>4, RefreshFamilies
    <3>2. CASE token[r] \in Family(l)
      <4>1. Live(token[r])
          BY <1>6, <2>0, <2>4, CommitEffect DEF Live
      <4>2. ASSUME NEW u \in Family(l)', Live(u)', u \in Request
            PROVE  u = r
          BY <1>3, <2>1, <3>1, <3>2, <4>1, <4>2
      <4>3. QED
          BY <1>1, <1>2, <4>2
    <3>3. CASE token[r] \notin Family(l)
        BY <1>1, <1>2, <1>3, <2>1, <3>1, <3>3
    <3>4. QED
        BY <3>2, <3>3
  <2>5. QED
      BY <2>2, <2>3, <2>4
<1>7. QED
    BY <1>5, <1>6, CommitOrNot

-----------------------------------------------------------------------------
(* The theorems.                                                           *)

\* The inductive invariant holds before any request.
LEMMA IInvInit ==
    ASSUME Init
    PROVE  IInv
<1> USE SessionConstants
<1>1. TypeOK
    BY DEF Init, TypeOK, Session, NoSession, Code
<1>2. \A r \in Request : sessions[r].state = "ABSENT"
    BY DEF Init, NoSession
<1>3. RowLockExclusive /\ \A r \in Request : RequestOK(r) /\ LockOK(r) /\ AnswerOK(r)
    BY <1>2 DEF Init, RowLockExclusive, RequestOK, LockOK, AnswerOK
<1>4. SingleSuccessor /\ OneLiveSessionPerLogin
    BY <1>2 DEF SingleSuccessor, OneLiveSessionPerLogin, Family
<1>5. QED
    BY <1>1, <1>3, <1>4 DEF IInv, Base

\* The inductive invariant holds in every state.
THEOREM Invariance == Spec => []IInv
<1>1. Init => IInv
    BY IInvInit
<1>2. IInv /\ [Next]_vars => IInv'
  <2> SUFFICES ASSUME IInv, [Next]_vars
               PROVE  IInv'
      OBVIOUS
  <2>1. Base'
      BY TypeStep, ExclusiveStep, RequestStep, LockStep, AnswerStep DEF IInv, Base
  <2>2. QED
      BY <2>1, SuccessorStep, FamilyStep DEF IInv
<1>3. QED
    BY <1>1, <1>2, PTL DEF Spec

\* Whoever else presents the same token and whichever COMMIT the server carries
\* out late, a refresh token is exchanged at most once.
THEOREM SessionsLinked == Spec => []SessionInvariant
<1>1. IInv => SessionInvariant
    BY DEF IInv, Base, SessionInvariant
<1>2. QED
    BY <1>1, Invariance, PTL

\* What the three routes answer is so, then and later.
THEOREM AnswersAreTruthful == Spec => []AnswersTruthful
<1>1. IInv => AnswersTruthful
    BY DEF IInv, Base, AnswerOK, AnswersTruthful
<1>2. QED
    BY <1>1, Invariance, PTL

\* A login is never good for two live sessions, however long the chain of
\* refreshes and however many of its tokens are presented again.
THEOREM OneLiveSession == Spec => []OneLiveSessionPerLogin
<1>1. IInv => OneLiveSessionPerLogin
    BY DEF IInv
<1>2. QED
    BY <1>1, Invariance, PTL

\* Neither a refresh nor a logout that comes late changes a revoked session.
THEOREM RevokedStaysRevoked == Spec => RevokedForever
<1>1. ASSUME IInv, [Next]_vars
      PROVE  \A s \in Request : sessions[s].state = "REVOKED" => sessions'[s] = sessions[s]
    BY <1>1, SessionsOnlyAge DEF IInv
<1>2. QED
    BY <1>1, Invariance, PTL DEF Spec, RevokedForever

=============================================================================
