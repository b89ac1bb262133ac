----------------------- MODULE IdempotentCreate_proofs ----------------------
(***************************************************************************)
(* Proofs about POST /disbursements for any number of requests, scopes and *)
(* payloads and any TTLs the Coordinator accepts.                          *)
(***************************************************************************)
EXTENDS IdempotentCreate, TLAPS

-----------------------------------------------------------------------------
(* The inductive invariant.                                                *)

\* The row lock: at most one session per scope is past its FOR UPDATE.
RowLockExclusive ==
    \A q, r \in Request :
        tx[q] # "none" /\ tx[r] # "none" /\ ScopeOf[q] = ScopeOf[r] => q = r

\* What each session has written, and what the locked row still looks like.
SessionOK(r) ==
    /\ tx[r] = "none" => writes[r] = {}
    /\ pc[r] \in {"idle", "acquire", "load", "verify"} => tx[r] = "none"
    /\ pc[r] = "reclaim" =>
          tx[r] = "open" /\ writes[r] = {} /\ reclaimMatches(Key(r), PayloadOf[r], now[r])
    /\ pc[r] = "disbursement" => tx[r] = "open" /\ writes[r] = {} /\ Owns(r)
    /\ pc[r] = "event" => tx[r] = "open" /\ writes[r] = {"disbursement"} /\ Owns(r)
    /\ pc[r] = "complete" => tx[r] = "open" /\ writes[r] = {"disbursement", "event"} /\ Owns(r)
    /\ pc[r] = "committing" => tx[r] = "committing"
    /\ tx[r] = "committing" =>
          \/ writes[r] = {"reclaim"} /\ reclaimMatches(Key(r), PayloadOf[r], now[r])
          \/ writes[r] = {"disbursement", "event", "completion"} /\ Owns(r)

\* A row carries the payload and the deadlines of the request that claimed
\* it, and is completed exactly when that request's disbursement exists.
RowOK(s) ==
    keys[s].state # "ABSENT" =>
        LET r == keys[s].claim
        IN  /\ r \in Request
            /\ ScopeOf[r] = s
            /\ keys[s].hash = PayloadOf[r]
            /\ keys[s].lease = now[r] + LeaseTTL
            /\ keys[s].expires = now[r] + ReplayTTL
            /\ pc[r] # "idle"
            /\ keys[s].state = "IN_PROGRESS" => r \notin created
            /\ keys[s].state = "COMPLETED" => r \in created /\ keys[s].disbursement = r

\* A request whose disbursement exists is over, and the clock was read in the past.
RequestOK(r) ==
    /\ r \in created => pc[r] \in {"release", "done", "crashed"} /\ tx[r] = "none"
    /\ now[r] <= time

\* Answers are given as AnswersTruthful says, and a request that gave up
\* while its COMMIT may still succeed answers INTERNAL.
AnswerOK(r) ==
    LET code == answer[r].code
    IN  /\ pc[r] \in {"release", "done"} /\ tx[r] = "committing" => code = "INTERNAL"
        /\ pc[r] = "release" /\ r \in created => code = "INTERNAL"
        /\ pc[r] = "release" => code \notin {"CREATED", "REPLAYED"}
        /\ pc[r] = "done" => Truthful(r)

IInv ==
    /\ TypeOK
    /\ RowLockExclusive
    /\ \A r \in Request : SessionOK(r)
    /\ \A s \in Scope : RowOK(s)
    /\ \A r \in Request : RequestOK(r)
    /\ \A r \in Request : AnswerOK(r)
    /\ created = outbox
    /\ WindowProtected

-----------------------------------------------------------------------------
(* Lemmas about the operators.                                             *)

\* The answers of the error mappings are among the codes.
LEMMA ErrorCode ==
    ASSUME NEW category
    PROVE  mapRepositoryError(category) \in Code /\ mapIdempotencyError(category) \in Code
    BY DEF mapRepositoryError, mapIdempotencyError, Code

\* An error is answered as neither a creation nor a replay, and a failure of
\* the database as INTERNAL.
LEMMA ErrorAnswer ==
    ASSUME NEW category
    PROVE  /\ mapRepositoryError(category) \notin {"CREATED", "REPLAYED"}
           /\ mapRepositoryError("Dependency") = "INTERNAL"
           /\ mapIdempotencyError(category) = "INTERNAL"
    BY DEF mapRepositoryError, mapIdempotencyError

\* classifyIdempotencyClaim yields an answer or the decision to take over.
LEMMA ClassifyType ==
    ASSUME NEW row, NEW payload, NEW t
    PROVE  classifyIdempotencyClaim(row, payload, t)
               \in {"REUSED", "REPLAYED", "IN_PROGRESS", "RECLAIM"}
    BY DEF classifyIdempotencyClaim

\* Only a completed row of the same payload whose window is open is replayed.
LEMMA ReplayDecision ==
    ASSUME NEW row, NEW payload, NEW t,
           classifyIdempotencyClaim(row, payload, t) = "REPLAYED"
    PROVE  row.state = "COMPLETED" /\ row.hash = payload /\ row.expires > t
    BY DEF classifyIdempotencyClaim

\* A row that the Go code decides to take over satisfies the SQL predicate.
LEMMA ReclaimDecision ==
    ASSUME NEW row \in Row, row.state # "ABSENT", NEW payload, NEW t \in Nat,
           classifyIdempotencyClaim(row, payload, t) = "RECLAIM"
    PROVE  reclaimMatches(row, payload, t)
<1>1. CASE row.expires <= t
    BY <1>1 DEF reclaimMatches
<1>2. CASE row.expires > t
  <2>1. row.hash = payload /\ row.state # "COMPLETED" /\ ~(row.lease > t)
    BY <1>2 DEF classifyIdempotencyClaim
  <2>2. row.state = "IN_PROGRESS" /\ row.lease <= t
    BY <2>1 DEF Row
  <2>3. QED
    BY <2>1, <2>2 DEF reclaimMatches
<1>3. QED
    BY <1>1, <1>2 DEF Row

\* The rows the store writes are rows.
LEMMA RowTypes ==
    ASSUME TypeOK, NEW r \in Request
    PROVE  /\ ScopeOf[r] \in Scope
           /\ now[r] \in Nat
           /\ Key(r) \in Row
           /\ ClaimRow(r) \in Row
           /\ [Key(r) EXCEPT !.state = "COMPLETED", !.disbursement = r] \in Row
<1>1. ScopeOf[r] \in Scope /\ PayloadOf[r] \in Payload /\ now[r] \in Nat
    BY ConstantTypes DEF TypeOK
<1>2. Key(r) \in Row
    BY <1>1 DEF TypeOK, Key
<1>3. ClaimRow(r) \in Row
    BY <1>1, CoordinatorConfiguration DEF ClaimRow, Row
<1>4. [Key(r) EXCEPT !.state = "COMPLETED", !.disbursement = r] \in Row
    BY <1>2 DEF Row
<1>5. QED
    BY <1>1, <1>2, <1>3, <1>4

\* What a COMMIT leaves is well typed.
LEMMA ApplyWritesType ==
    ASSUME TypeOK, NEW r \in Request, ApplyWrites(r)
    PROVE  /\ keys' \in [Scope -> Row]
           /\ created' \subseteq Request /\ outbox' \subseteq Request
           /\ tx' \in [Request -> {"none", "open", "committing"}]
           /\ writes' \in [Request -> SUBSET Write]
<1>1. keys' \in [Scope -> Row]
    BY RowTypes DEF ApplyWrites, TypeOK, Key
<1>2. QED
    BY <1>1 DEF ApplyWrites, TypeOK

\* A COMMIT either installs a new claim in a row that may be taken over, or
\* completes the request's own claim and creates its disbursement.
LEMMA CommitEffect ==
    ASSUME IInv, NEW r \in Request, tx[r] = "committing", ApplyWrites(r)
    PROVE  \/ /\ writes[r] = {"reclaim"}
              /\ reclaimMatches(Key(r), PayloadOf[r], now[r])
              /\ keys' = [keys EXCEPT ![ScopeOf[r]] = ClaimRow(r)]
              /\ created' = created /\ outbox' = outbox
           \/ /\ writes[r] = {"disbursement", "event", "completion"}
              /\ Owns(r)
              /\ keys' = [keys EXCEPT ![ScopeOf[r]] =
                            [Key(r) EXCEPT !.state = "COMPLETED", !.disbursement = r]]
              /\ created' = created \cup {r} /\ outbox' = outbox \cup {r}
<1>1. CASE writes[r] = {"reclaim"} /\ reclaimMatches(Key(r), PayloadOf[r], now[r])
    BY <1>1 DEF ApplyWrites
<1>2. CASE writes[r] = {"disbursement", "event", "completion"} /\ Owns(r)
    BY <1>2 DEF ApplyWrites, Key
<1>3. QED
    BY <1>1, <1>2 DEF IInv, SessionOK

\* What a COMMIT creates is its own request's disbursement, under its own claim.
LEMMA CommitCreates ==
    ASSUME IInv, NEW r \in Request, tx[r] = "committing", ApplyWrites(r), created' # created
    PROVE  "reclaim" \notin writes[r] /\ Owns(r) /\ created' = created \cup {r}
<1>1. writes[r] = {"disbursement", "event", "completion"} /\ Owns(r) /\ created' = created \cup {r}
    BY CommitEffect
<1>2. QED
    BY <1>1

\* A COMMIT opens no hole in a replay window: a claim is only installed in a
\* row whose disbursement, if any, is past its window, and the row a request
\* completes was its own unfinished claim.
LEMMA CommitKeepsWindow ==
    ASSUME IInv, NEW r \in Request, tx[r] = "committing", ApplyWrites(r),
           time' = time, now' = now
    PROVE  WindowProtected'
<1> USE ConstantTypes, CoordinatorConfiguration
<1> SUFFICES ASSUME NEW q \in created', ~(time >= now[q] + ReplayTTL)
             PROVE  /\ Key(q)'.state = "COMPLETED" /\ Key(q)'.disbursement = q
                    /\ Key(q)'.hash = PayloadOf[q] /\ Key(q)'.expires = now[q] + ReplayTTL
    BY DEF WindowProtected
<1>1. TypeOK /\ WindowProtected /\ RowOK(ScopeOf[r]) /\ RequestOK(r)
    BY RowTypes DEF IInv
<1>2. CASE q \in created
  <2>1. /\ Key(q).state = "COMPLETED" /\ Key(q).disbursement = q
        /\ Key(q).hash = PayloadOf[q] /\ Key(q).expires = now[q] + ReplayTTL
    BY <1>1, <1>2 DEF WindowProtected
  <2>2. q \in Request /\ time \in Nat /\ now[r] <= time
    BY <1>1, <1>2 DEF TypeOK, RequestOK
  <2>3. ScopeOf[q] # ScopeOf[r]
    <3>1. reclaimMatches(Key(r), PayloadOf[r], now[r]) \/ Owns(r)
      BY CommitEffect
    <3>2. now[r] \in Nat /\ now[q] \in Nat
      BY <1>1, <2>2, RowTypes
    <3>3. ~Owns(r) => Key(r).state # "COMPLETED" \/ Key(r).expires <= now[r]
      BY <3>1 DEF reclaimMatches
    <3>4. Owns(r) => Key(r).state # "COMPLETED"
      BY DEF Owns
    <3>5. ~(Key(q).expires <= now[r])
      BY <2>1, <2>2, <3>2
    <3>6. QED
      BY <2>1, <3>3, <3>4, <3>5 DEF Key
  <2>4. Key(q)' = Key(q)
    BY <1>1, <2>3, CommitEffect DEF Key, TypeOK
  <2>5. QED
    BY <2>1, <2>4
<1>3. CASE q \notin created
  <2>1. q = r /\ Owns(r)
    BY <1>3, CommitEffect
  <2>2. Key(r)' = [Key(r) EXCEPT !.state = "COMPLETED", !.disbursement = r]
    <3>1. keys' = [keys EXCEPT ![ScopeOf[r]] =
                     [Key(r) EXCEPT !.state = "COMPLETED", !.disbursement = r]]
      BY <1>3, CommitEffect
    <3>2. ScopeOf[r] \in Scope /\ keys \in [Scope -> Row]
      BY <1>1, RowTypes DEF TypeOK
    <3>3. QED
      BY <3>1, <3>2 DEF Key
  <2>3. Key(r).hash = PayloadOf[r] /\ Key(r).expires = now[r] + ReplayTTL
    BY <1>1, <2>1 DEF Owns, RowOK, Key
  <2>4. Key(r) \in Row
    BY <1>1, RowTypes
  <2>5. QED
    BY <2>1, <2>2, <2>3, <2>4 DEF Row
<1>4. QED
    BY <1>2, <1>3

-----------------------------------------------------------------------------
(* One lemma per conjunct of the inductive invariant, one step per action. *)

\* Every step keeps the variables within their types.
LEMMA TypeStep ==
    ASSUME TypeOK, [Next]_vars
    PROVE  TypeOK'
<1> USE ConstantTypes, CoordinatorConfiguration
<1>1. CASE UNCHANGED vars
    BY <1>1 DEF vars, TypeOK
<1>2. CASE Tick
    BY <1>2 DEF Tick, TypeOK
<1>3. ASSUME NEW r \in Request, Reject(r) \/ Claim(r) \/ Handle(r) \/ Fail(r) \/ Server(r)
      PROVE  TypeOK'
  <2>1. CASE Reject(r)
      BY <2>1 DEF Reject, Goto, Return, Answer, TypeOK, Label, Code
  <2>2. CASE Claim(r)
      BY <2>2 DEF Claim, Goto, TypeOK, Label
  <2>3. CASE Acquire(r)
    <3>1. ScopeOf[r] \in Scope /\ ClaimRow(r) \in Row
        BY RowTypes
    <3>2. keys' \in [Scope -> Row]
        BY <2>3, <3>1 DEF Acquire, TypeOK
    <3>3. QED
        BY <2>3, <3>2 DEF Acquire, TypeOK, Goto, Label
  <2>4. CASE AcquireFails(r)
    <3>1. keys' \in [Scope -> Row]
      <4>1. ScopeOf[r] \in Scope /\ ClaimRow(r) \in Row
          BY RowTypes
      <4>2. QED
          BY <2>4, <4>1 DEF AcquireFails, TypeOK
    <3>2. answer' \in [Request -> [code: Code, disbursement: Request \cup {None}]]
        BY <2>4, ErrorCode DEF AcquireFails, TypeOK, Return, Answer
    <3>3. QED
        BY <2>4, <3>1, <3>2 DEF AcquireFails, TypeOK, Goto, Label, Return
  <2>5. CASE LoadClaim(r)
    <3> DEFINE outcome == classifyIdempotencyClaim(Key(r), PayloadOf[r], now[r])
    <3>1. Key(r).disbursement \in Request \cup {None}
        BY RowTypes DEF Row
    <3>2. outcome # "RECLAIM" => outcome \in Code
        BY ClassifyType DEF Code
    <3>3. answer' \in [Request -> [code: Code, disbursement: Request \cup {None}]]
        BY <2>5, <3>1, <3>2, ErrorCode DEF LoadClaim, TypeOK, Return, Answer
    <3>4. QED
        BY <2>5, <3>3 DEF LoadClaim, TypeOK, Goto, Label, Return
  <2>6. CASE Reclaim(r)
      BY <2>6, ErrorCode DEF Reclaim, Goto, Return, Answer, TypeOK, Label, Write
  <2>7. CASE VerifyOwnership(r)
    <3>1. answer' \in [Request -> [code: Code, disbursement: Request \cup {None}]]
        BY <2>7, ErrorCode DEF VerifyOwnership, TypeOK, AbortCreate, Answer
    <3>2. QED
        BY <2>7, <3>1 DEF VerifyOwnership, TypeOK, Goto, Label, AbortCreate
  <2>8. CASE InsertDisbursement(r)
      BY <2>8 DEF InsertDisbursement, Goto, TypeOK, Label, Write
  <2>9. CASE InsertEvent(r)
      BY <2>9 DEF InsertEvent, Goto, TypeOK, Label, Write
  <2>10. CASE Complete(r)
      BY <2>10, ErrorCode DEF Complete, Goto, AbortCreate, Answer, TypeOK, Label, Write
  <2>11. CASE StatementFails(r)
    <3>1. answer' \in [Request -> [code: Code, disbursement: Request \cup {None}]]
        BY <2>11, ErrorCode DEF StatementFails, TypeOK, Return, AbortCreate, Answer
    <3>2. QED
        BY <2>11, <3>1 DEF StatementFails, TypeOK, Goto, Label, Return, AbortCreate
  <2>12. CASE CommitSucceeds(r)
      BY <2>12, ApplyWritesType DEF CommitSucceeds, Goto, Return, Answer, TypeOK, Label, Code
  <2>13. CASE CommitFails(r)
    <3>1. answer' \in [Request -> [code: Code, disbursement: Request \cup {None}]]
        BY <2>13, ErrorCode DEF CommitFails, TypeOK, Return, AbortCreate, Answer
    <3>2. QED
        BY <2>13, <3>1 DEF CommitFails, TypeOK, Goto, Label, Return, AbortCreate
  <2>14. CASE Release(r)
      BY <2>14 DEF Release, Goto, TypeOK, Label, Row, NoRow
  <2>15. CASE ReleaseFails(r)
      BY <2>15 DEF ReleaseFails, Goto, TypeOK, Label, Row, NoRow
  <2>16. CASE Crash(r)
      BY <2>16 DEF Crash, Goto, TypeOK, Label
  <2>17. CASE ServerCommit(r)
      BY <2>17, ApplyWritesType DEF ServerCommit, Abandoned, TypeOK, Label
  <2>18. CASE ServerAbort(r)
      BY <2>18 DEF ServerAbort, Abandoned, TypeOK, Label
  <2>19. QED
      BY <1>3, <2>1, <2>2, <2>3, <2>4, <2>5, <2>6, <2>7, <2>8, <2>9, <2>10, <2>11, <2>12,
         <2>13, <2>14, <2>15, <2>16, <2>17, <2>18 DEF Handle, Fail, Server
<1>4. QED
    BY <1>1, <1>2, <1>3 DEF Next

\* The row lock stays exclusive.
LEMMA LockStep ==
    ASSUME IInv, [Next]_vars
    PROVE  RowLockExclusive'
<1> USE ConstantTypes, CoordinatorConfiguration DEF IInv
<1>1. CASE UNCHANGED vars
    BY <1>1 DEF vars, RowLockExclusive, TypeOK, Locked
<1>2. CASE Tick
    BY <1>2 DEF Tick, RowLockExclusive, TypeOK, Locked
<1>3. ASSUME NEW r \in Request, Reject(r) \/ Claim(r) \/ Handle(r) \/ Fail(r) \/ Server(r)
      PROVE  RowLockExclusive'
  <2>1. CASE Reject(r)
      BY <2>1 DEF Reject, Goto, Return, Answer, RowLockExclusive, TypeOK, Locked, SessionOK
  <2>2. CASE Claim(r)
      BY <2>2 DEF Claim, Goto, RowLockExclusive, TypeOK, Locked, SessionOK
  <2>3. CASE Acquire(r)
      BY <2>3 DEF Acquire, Goto, RowLockExclusive, TypeOK, Locked, SessionOK
  <2>4. CASE AcquireFails(r)
      BY <2>4 DEF AcquireFails, Goto, Return, Answer, RowLockExclusive, TypeOK, Locked,
         SessionOK
  <2>5. CASE LoadClaim(r)
      BY <2>5 DEF LoadClaim, Goto, Return, Answer, RowLockExclusive, TypeOK, Locked, SessionOK
  <2>6. CASE Reclaim(r)
      BY <2>6 DEF Reclaim, Goto, Return, Answer, RowLockExclusive, TypeOK, Locked, SessionOK
  <2>7. CASE VerifyOwnership(r)
      BY <2>7 DEF VerifyOwnership, Goto, AbortCreate, Answer, RowLockExclusive, TypeOK,
         Locked, SessionOK
  <2>8. CASE InsertDisbursement(r)
      BY <2>8 DEF InsertDisbursement, Goto, RowLockExclusive, TypeOK, Locked, SessionOK
  <2>9. CASE InsertEvent(r)
      BY <2>9 DEF InsertEvent, Goto, RowLockExclusive, TypeOK, Locked, SessionOK
  <2>10. CASE Complete(r)
      BY <2>10 DEF Complete, Goto, AbortCreate, Answer, RowLockExclusive, TypeOK, Locked,
         SessionOK
  <2>11. CASE StatementFails(r)
      BY <2>11 DEF StatementFails, Goto, Return, Answer, AbortCreate, RowLockExclusive,
         TypeOK, Locked, SessionOK
  <2>12. CASE CommitSucceeds(r)
      BY <2>12 DEF CommitSucceeds, Goto, Return, Answer, ApplyWrites, RowLockExclusive,
         TypeOK, Locked, SessionOK
  <2>13. CASE CommitFails(r)
      BY <2>13 DEF CommitFails, Goto, Return, Answer, AbortCreate, RowLockExclusive, TypeOK,
         Locked, SessionOK
  <2>14. CASE Release(r)
      BY <2>14 DEF Release, Goto, RowLockExclusive, TypeOK, Locked, SessionOK
  <2>15. CASE ReleaseFails(r)
      BY <2>15 DEF ReleaseFails, Goto, RowLockExclusive, TypeOK, Locked, SessionOK
  <2>16. CASE Crash(r)
      BY <2>16 DEF Crash, Goto, RowLockExclusive, TypeOK, Locked, SessionOK
  <2>17. CASE ServerCommit(r)
      BY <2>17 DEF ServerCommit, ApplyWrites, Abandoned, RowLockExclusive, TypeOK, Locked,
         SessionOK
  <2>18. CASE ServerAbort(r)
      BY <2>18 DEF ServerAbort, Abandoned, RowLockExclusive, TypeOK, Locked, SessionOK
  <2>19. QED
      BY <1>3, <2>1, <2>2, <2>3, <2>4, <2>5, <2>6, <2>7, <2>8, <2>9, <2>10, <2>11, <2>12,
         <2>13, <2>14, <2>15, <2>16, <2>17, <2>18 DEF Handle, Fail, Server
<1>4. QED
    BY <1>1, <1>2, <1>3 DEF Next

\* A step of one request leaves what another's session relies on.
LEMMA SessionStep ==
    ASSUME IInv, [Next]_vars, NEW q \in Request
    PROVE  SessionOK(q)'
<1> USE ConstantTypes, CoordinatorConfiguration DEF IInv
<1>1. CASE UNCHANGED vars
    BY <1>1 DEF vars, SessionOK, TypeOK, Key, Owns, reclaimMatches
<1>2. CASE Tick
    BY <1>2 DEF Tick, SessionOK, TypeOK, Key, Owns, reclaimMatches
<1>3. ASSUME NEW r \in Request, Reject(r) \/ Claim(r) \/ Handle(r) \/ Fail(r) \/ Server(r)
      PROVE  SessionOK(q)'
  <2>1. CASE Reject(r)
      BY <2>1 DEF Reject, Goto, Return, Answer, SessionOK, TypeOK, Key, Owns, reclaimMatches
  <2>2. CASE Claim(r)
      BY <2>2 DEF Claim, Goto, SessionOK, TypeOK, Key, Owns, reclaimMatches
  <2>3. CASE Acquire(r)
      BY <2>3 DEF Acquire, Goto, SessionOK, TypeOK, Key, Owns, reclaimMatches, ClaimRow
  <2>4. CASE AcquireFails(r)
      BY <2>4 DEF AcquireFails, Goto, Return, Answer, SessionOK, TypeOK, Key, Owns,
         reclaimMatches, ClaimRow
  <2>5. CASE LoadClaim(r)
    <3>1. pc'[r] = "reclaim" => reclaimMatches(Key(r), PayloadOf[r], now[r])
        BY <2>5, ReclaimDecision, RowTypes DEF LoadClaim, Goto, Return, TypeOK, SessionOK
    <3>2. keys' = keys /\ now' = now /\ writes' = writes
        BY <2>5 DEF LoadClaim
    <3>3. QED
        BY <2>5, <3>1, <3>2 DEF LoadClaim, Goto, Return, SessionOK, TypeOK, Key, Owns, reclaimMatches
  <2>6. CASE Reclaim(r)
      BY <2>6 DEF Reclaim, Goto, Return, Answer, SessionOK, TypeOK, Key, Owns, reclaimMatches
  <2>7. CASE VerifyOwnership(r)
      BY <2>7 DEF VerifyOwnership, Goto, AbortCreate, Answer, SessionOK, TypeOK, Key, Owns,
         reclaimMatches, Locked
  <2>8. CASE InsertDisbursement(r)
      BY <2>8 DEF InsertDisbursement, Goto, SessionOK, TypeOK, Key, Owns, reclaimMatches
  <2>9. CASE InsertEvent(r)
      BY <2>9 DEF InsertEvent, Goto, SessionOK, TypeOK, Key, Owns, reclaimMatches
  <2>10. CASE Complete(r)
      BY <2>10 DEF Complete, Goto, AbortCreate, Answer, SessionOK, TypeOK, Key, Owns,
         reclaimMatches
  <2>11. CASE StatementFails(r)
      BY <2>11 DEF StatementFails, Goto, Return, Answer, AbortCreate, SessionOK, TypeOK, Key,
         Owns, reclaimMatches
  <2>12. CASE CommitSucceeds(r)
      BY <2>12 DEF CommitSucceeds, Goto, Return, Answer, ApplyWrites, SessionOK, TypeOK, Key,
         Owns, reclaimMatches, RowLockExclusive, ClaimRow
  <2>13. CASE CommitFails(r)
      BY <2>13 DEF CommitFails, Goto, Return, Answer, AbortCreate, SessionOK, TypeOK, Key,
         Owns, reclaimMatches
  <2>14. CASE Release(r)
      BY <2>14 DEF Release, Goto, SessionOK, TypeOK, Key, Owns, reclaimMatches, Locked, NoRow
  <2>15. CASE ReleaseFails(r)
      BY <2>15 DEF ReleaseFails, Goto, SessionOK, TypeOK, Key, Owns, reclaimMatches, Locked,
         NoRow
  <2>16. CASE Crash(r)
      BY <2>16 DEF Crash, Goto, SessionOK, TypeOK, Key, Owns, reclaimMatches
  <2>17. CASE ServerCommit(r)
      BY <2>17 DEF ServerCommit, ApplyWrites, Abandoned, SessionOK, TypeOK, Key, Owns,
         reclaimMatches, RowLockExclusive, ClaimRow
  <2>18. CASE ServerAbort(r)
      BY <2>18 DEF ServerAbort, Abandoned, SessionOK, TypeOK, Key, Owns, reclaimMatches
  <2>19. QED
      BY <1>3, <2>1, <2>2, <2>3, <2>4, <2>5, <2>6, <2>7, <2>8, <2>9, <2>10, <2>11, <2>12,
         <2>13, <2>14, <2>15, <2>16, <2>17, <2>18 DEF Handle, Fail, Server
<1>4. QED
    BY <1>1, <1>2, <1>3 DEF Next

\* Rows keep describing the request that claimed them.
LEMMA RowStep ==
    ASSUME IInv, [Next]_vars, NEW s \in Scope
    PROVE  RowOK(s)'
<1> USE ConstantTypes, CoordinatorConfiguration DEF IInv
<1>1. CASE UNCHANGED vars
    BY <1>1 DEF vars, RowOK, TypeOK, Key
<1>2. CASE Tick
    BY <1>2 DEF Tick, RowOK, TypeOK, Key
<1>3. ASSUME NEW r \in Request, Reject(r) \/ Claim(r) \/ Handle(r) \/ Fail(r) \/ Server(r)
      PROVE  RowOK(s)'
  <2>1. CASE Reject(r)
      BY <2>1 DEF Reject, Goto, Return, Answer, RowOK, TypeOK, Key
  <2>2. CASE Claim(r)
      BY <2>2 DEF Claim, Goto, RowOK, TypeOK, Key
  <2>3. CASE Acquire(r)
      BY <2>3 DEF Acquire, Goto, RowOK, TypeOK, Key, ClaimRow, RequestOK
  <2>4. CASE AcquireFails(r)
      BY <2>4 DEF AcquireFails, Goto, Return, Answer, RowOK, TypeOK, Key, ClaimRow, RequestOK
  <2>5. CASE LoadClaim(r)
      BY <2>5 DEF LoadClaim, Goto, Return, Answer, RowOK, TypeOK, Key
  <2>6. CASE Reclaim(r)
      BY <2>6 DEF Reclaim, Goto, Return, Answer, RowOK, TypeOK, Key
  <2>7. CASE VerifyOwnership(r)
      BY <2>7 DEF VerifyOwnership, Goto, AbortCreate, Answer, RowOK, TypeOK, Key
  <2>8. CASE InsertDisbursement(r)
      BY <2>8 DEF InsertDisbursement, Goto, RowOK, TypeOK, Key
  <2>9. CASE InsertEvent(r)
      BY <2>9 DEF InsertEvent, Goto, RowOK, TypeOK, Key
  <2>10. CASE Complete(r)
      BY <2>10 DEF Complete, Goto, AbortCreate, Answer, RowOK, TypeOK, Key
  <2>11. CASE StatementFails(r)
      BY <2>11 DEF StatementFails, Goto, Return, Answer, AbortCreate, RowOK, TypeOK, Key
  <2>12. CASE CommitSucceeds(r)
      BY <2>12 DEF CommitSucceeds, Goto, Return, Answer, ApplyWrites, RowOK, TypeOK, Key,
         SessionOK, RequestOK, reclaimMatches, Owns, ClaimRow
  <2>13. CASE CommitFails(r)
      BY <2>13 DEF CommitFails, Goto, Return, Answer, AbortCreate, RowOK, TypeOK, Key
  <2>14. CASE Release(r)
      BY <2>14 DEF Release, Goto, RowOK, TypeOK, Key, NoRow
  <2>15. CASE ReleaseFails(r)
      BY <2>15 DEF ReleaseFails, Goto, RowOK, TypeOK, Key, NoRow
  <2>16. CASE Crash(r)
      BY <2>16 DEF Crash, Goto, RowOK, TypeOK, Key
  <2>17. CASE ServerCommit(r)
      BY <2>17 DEF ServerCommit, ApplyWrites, Abandoned, RowOK, TypeOK, Key, SessionOK,
         RequestOK, reclaimMatches, Owns, ClaimRow
  <2>18. CASE ServerAbort(r)
      BY <2>18 DEF ServerAbort, Abandoned, RowOK, TypeOK, Key
  <2>19. QED
      BY <1>3, <2>1, <2>2, <2>3, <2>4, <2>5, <2>6, <2>7, <2>8, <2>9, <2>10, <2>11, <2>12,
         <2>13, <2>14, <2>15, <2>16, <2>17, <2>18 DEF Handle, Fail, Server
<1>4. QED
    BY <1>1, <1>2, <1>3 DEF Next

\* A request that created its disbursement takes no further part.
LEMMA RequestStep ==
    ASSUME IInv, [Next]_vars, NEW q \in Request
    PROVE  RequestOK(q)'
<1> USE ConstantTypes, CoordinatorConfiguration DEF IInv
<1>1. CASE UNCHANGED vars
    BY <1>1 DEF vars, RequestOK, TypeOK
<1>2. CASE Tick
    BY <1>2 DEF Tick, RequestOK, TypeOK
<1>3. ASSUME NEW r \in Request, Reject(r) \/ Claim(r) \/ Handle(r) \/ Fail(r) \/ Server(r)
      PROVE  RequestOK(q)'
  <2>1. CASE Reject(r)
      BY <2>1 DEF Reject, Goto, Return, Answer, RequestOK, TypeOK, SessionOK
  <2>2. CASE Claim(r)
      BY <2>2 DEF Claim, Goto, RequestOK, TypeOK, SessionOK
  <2>3. CASE Acquire(r)
      BY <2>3 DEF Acquire, Goto, RequestOK, TypeOK, SessionOK
  <2>4. CASE AcquireFails(r)
      BY <2>4 DEF AcquireFails, Goto, Return, Answer, RequestOK, TypeOK, SessionOK
  <2>5. CASE LoadClaim(r)
      BY <2>5 DEF LoadClaim, Goto, Return, Answer, RequestOK, TypeOK, SessionOK
  <2>6. CASE Reclaim(r)
      BY <2>6 DEF Reclaim, Goto, Return, Answer, RequestOK, TypeOK, SessionOK
  <2>7. CASE VerifyOwnership(r)
      BY <2>7 DEF VerifyOwnership, Goto, AbortCreate, Answer, RequestOK, TypeOK, SessionOK
  <2>8. CASE InsertDisbursement(r)
      BY <2>8 DEF InsertDisbursement, Goto, RequestOK, TypeOK, SessionOK
  <2>9. CASE InsertEvent(r)
      BY <2>9 DEF InsertEvent, Goto, RequestOK, TypeOK, SessionOK
  <2>10. CASE Complete(r)
      BY <2>10 DEF Complete, Goto, AbortCreate, Answer, RequestOK, TypeOK, SessionOK
  <2>11. CASE StatementFails(r)
      BY <2>11 DEF StatementFails, Goto, Return, Answer, AbortCreate, RequestOK, TypeOK,
         SessionOK
  <2>12. CASE CommitSucceeds(r)
    <3>1. tx[r] = "committing" /\ created' \subseteq created \cup {r}
        BY <2>12 DEF CommitSucceeds, SessionOK, ApplyWrites
    <3>2. r \in created' => pc'[r] = "done"
      <4>1. "reclaim" \notin writes[r] => pc'[r] = "done"
          BY <2>12 DEF CommitSucceeds, Goto, Return, TypeOK
      <4>2. r \notin created
          BY <3>1 DEF RequestOK
      <4>3. ApplyWrites(r)
          BY <2>12 DEF CommitSucceeds
      <4>4. r \in created' => "reclaim" \notin writes[r]
          BY <3>1, <4>2, <4>3, CommitCreates
      <4>5. QED
          BY <4>1, <4>4
    <3>3. QED
        BY <2>12, <3>1, <3>2 DEF CommitSucceeds, Goto, Return, ApplyWrites, RequestOK, TypeOK
  <2>13. CASE CommitFails(r)
      BY <2>13 DEF CommitFails, Goto, Return, Answer, AbortCreate, RequestOK, TypeOK,
         SessionOK
  <2>14. CASE Release(r)
      BY <2>14 DEF Release, Goto, RequestOK, TypeOK, SessionOK
  <2>15. CASE ReleaseFails(r)
      BY <2>15 DEF ReleaseFails, Goto, RequestOK, TypeOK, SessionOK
  <2>16. CASE Crash(r)
      BY <2>16 DEF Crash, Goto, RequestOK, TypeOK, SessionOK
  <2>17. CASE ServerCommit(r)
      BY <2>17 DEF ServerCommit, ApplyWrites, Abandoned, RequestOK, TypeOK, SessionOK
  <2>18. CASE ServerAbort(r)
      BY <2>18 DEF ServerAbort, Abandoned, RequestOK, TypeOK, SessionOK
  <2>19. QED
      BY <1>3, <2>1, <2>2, <2>3, <2>4, <2>5, <2>6, <2>7, <2>8, <2>9, <2>10, <2>11, <2>12,
         <2>13, <2>14, <2>15, <2>16, <2>17, <2>18 DEF Handle, Fail, Server
<1>4. QED
    BY <1>1, <1>2, <1>3 DEF Next

\* No step opens a hole in a replay window.
LEMMA WindowStep ==
    ASSUME IInv, [Next]_vars
    PROVE  WindowProtected'
<1> USE ConstantTypes, CoordinatorConfiguration DEF IInv
<1>1. CASE UNCHANGED vars
    BY <1>1 DEF vars, WindowProtected, TypeOK, Key, RequestOK
<1>2. CASE Tick
    BY <1>2 DEF Tick, WindowProtected, TypeOK, Key, RequestOK
<1>3. ASSUME NEW r \in Request, Reject(r) \/ Claim(r) \/ Handle(r) \/ Fail(r) \/ Server(r)
      PROVE  WindowProtected'
  <2>1. CASE Reject(r)
      BY <2>1 DEF Reject, Goto, Return, Answer, WindowProtected, TypeOK, Key, RequestOK
  <2>2. CASE Claim(r)
      BY <2>2 DEF Claim, Goto, WindowProtected, TypeOK, Key, RequestOK
  <2>3. CASE Acquire(r)
      BY <2>3 DEF Acquire, Goto, WindowProtected, TypeOK, Key, RequestOK, ClaimRow
  <2>4. CASE AcquireFails(r)
      BY <2>4 DEF AcquireFails, Goto, Return, Answer, WindowProtected, TypeOK, Key, RequestOK,
         ClaimRow
  <2>5. CASE LoadClaim(r)
      BY <2>5 DEF LoadClaim, Goto, Return, Answer, WindowProtected, TypeOK, Key, RequestOK
  <2>6. CASE Reclaim(r)
      BY <2>6 DEF Reclaim, Goto, Return, Answer, WindowProtected, TypeOK, Key, RequestOK
  <2>7. CASE VerifyOwnership(r)
      BY <2>7 DEF VerifyOwnership, Goto, AbortCreate, Answer, WindowProtected, TypeOK, Key,
         RequestOK
  <2>8. CASE InsertDisbursement(r)
      BY <2>8 DEF InsertDisbursement, Goto, WindowProtected, TypeOK, Key, RequestOK
  <2>9. CASE InsertEvent(r)
      BY <2>9 DEF InsertEvent, Goto, WindowProtected, TypeOK, Key, RequestOK
  <2>10. CASE Complete(r)
      BY <2>10 DEF Complete, Goto, AbortCreate, Answer, WindowProtected, TypeOK, Key,
         RequestOK
  <2>11. CASE StatementFails(r)
      BY <2>11 DEF StatementFails, Goto, Return, Answer, AbortCreate, WindowProtected, TypeOK,
         Key, RequestOK
  <2>12. CASE CommitSucceeds(r)
    <3>1. tx[r] = "committing" /\ ApplyWrites(r) /\ time' = time /\ now' = now
        BY <2>12 DEF CommitSucceeds, SessionOK
    <3>2. QED
        BY <3>1, CommitKeepsWindow
  <2>13. CASE CommitFails(r)
      BY <2>13 DEF CommitFails, Goto, Return, Answer, AbortCreate, WindowProtected, TypeOK,
         Key, RequestOK
  <2>14. CASE Release(r)
      BY <2>14 DEF Release, Goto, WindowProtected, TypeOK, Key, RequestOK, NoRow, Owns
  <2>15. CASE ReleaseFails(r)
      BY <2>15 DEF ReleaseFails, Goto, WindowProtected, TypeOK, Key, RequestOK, NoRow, Owns
  <2>16. CASE Crash(r)
      BY <2>16 DEF Crash, Goto, WindowProtected, TypeOK, Key, RequestOK
  <2>17. CASE ServerCommit(r)
    <3>1. tx[r] = "committing" /\ ApplyWrites(r) /\ time' = time /\ now' = now
        BY <2>17 DEF ServerCommit, SessionOK
    <3>2. QED
        BY <3>1, CommitKeepsWindow
  <2>18. CASE ServerAbort(r)
      BY <2>18 DEF ServerAbort, Abandoned, WindowProtected, TypeOK, Key, RequestOK
  <2>19. QED
      BY <1>3, <2>1, <2>2, <2>3, <2>4, <2>5, <2>6, <2>7, <2>8, <2>9, <2>10, <2>11, <2>12,
         <2>13, <2>14, <2>15, <2>16, <2>17, <2>18 DEF Handle, Fail, Server
<1>4. QED
    BY <1>1, <1>2, <1>3 DEF Next

\* Disbursements and their events are committed together.
LEMMA OutboxStep ==
    ASSUME IInv, [Next]_vars
    PROVE  created' = outbox'
<1> USE ConstantTypes, CoordinatorConfiguration DEF IInv
<1>1. CASE UNCHANGED vars
    BY <1>1 DEF vars
<1>2. CASE Tick
    BY <1>2 DEF Tick
<1>3. ASSUME NEW r \in Request, Reject(r) \/ Claim(r) \/ Handle(r) \/ Fail(r) \/ Server(r)
      PROVE  created' = outbox'
  <2>1. CASE Reject(r)
      BY <2>1 DEF Reject, Goto, Return, Answer
  <2>2. CASE Claim(r)
      BY <2>2 DEF Claim, Goto
  <2>3. CASE Acquire(r)
      BY <2>3 DEF Acquire, Goto
  <2>4. CASE AcquireFails(r)
      BY <2>4 DEF AcquireFails, Goto, Return, Answer
  <2>5. CASE LoadClaim(r)
      BY <2>5 DEF LoadClaim, Goto, Return, Answer
  <2>6. CASE Reclaim(r)
      BY <2>6 DEF Reclaim, Goto, Return, Answer
  <2>7. CASE VerifyOwnership(r)
      BY <2>7 DEF VerifyOwnership, Goto, AbortCreate, Answer
  <2>8. CASE InsertDisbursement(r)
      BY <2>8 DEF InsertDisbursement, Goto
  <2>9. CASE InsertEvent(r)
      BY <2>9 DEF InsertEvent, Goto
  <2>10. CASE Complete(r)
      BY <2>10 DEF Complete, Goto, AbortCreate, Answer
  <2>11. CASE StatementFails(r)
      BY <2>11 DEF StatementFails, Goto, Return, Answer, AbortCreate
  <2>12. CASE CommitSucceeds(r)
      BY <2>12 DEF CommitSucceeds, Goto, Return, Answer, ApplyWrites, SessionOK
  <2>13. CASE CommitFails(r)
      BY <2>13 DEF CommitFails, Goto, Return, Answer, AbortCreate
  <2>14. CASE Release(r)
      BY <2>14 DEF Release, Goto
  <2>15. CASE ReleaseFails(r)
      BY <2>15 DEF ReleaseFails, Goto
  <2>16. CASE Crash(r)
      BY <2>16 DEF Crash, Goto
  <2>17. CASE ServerCommit(r)
      BY <2>17 DEF ServerCommit, ApplyWrites, Abandoned, SessionOK
  <2>18. CASE ServerAbort(r)
      BY <2>18 DEF ServerAbort, Abandoned
  <2>19. QED
      BY <1>3, <2>1, <2>2, <2>3, <2>4, <2>5, <2>6, <2>7, <2>8, <2>9, <2>10, <2>11, <2>12,
         <2>13, <2>14, <2>15, <2>16, <2>17, <2>18 DEF Handle, Fail, Server
<1>4. QED
    BY <1>1, <1>2, <1>3 DEF Next

\* Answers stay truthful.
LEMMA AnswerStep ==
    ASSUME IInv, [Next]_vars, NEW q \in Request
    PROVE  AnswerOK(q)'
<1> USE ConstantTypes, CoordinatorConfiguration DEF IInv
<1>1. CASE UNCHANGED vars
    BY <1>1 DEF vars, AnswerOK, Truthful, TypeOK
<1>2. CASE Tick
    BY <1>2 DEF Tick, AnswerOK, Truthful, TypeOK
<1>3. ASSUME NEW r \in Request, Reject(r) \/ Claim(r) \/ Handle(r) \/ Fail(r) \/ Server(r)
      PROVE  AnswerOK(q)'
  <2>1. CASE Reject(r)
      BY <2>1 DEF Reject, Goto, Return, Answer, AnswerOK, Truthful, TypeOK, RequestOK,
         SessionOK
  <2>2. CASE Claim(r)
      BY <2>2 DEF Claim, Goto, AnswerOK, Truthful, TypeOK, RequestOK, SessionOK
  <2>3. CASE Acquire(r)
      BY <2>3 DEF Acquire, Goto, AnswerOK, Truthful, TypeOK, RequestOK, SessionOK
  <2>4. CASE AcquireFails(r)
      BY <2>4, ErrorAnswer DEF AcquireFails, Goto, Return, Answer, AnswerOK, Truthful, TypeOK,
         RequestOK, SessionOK
  <2>5. CASE LoadClaim(r)
    <3>1. \A p \in Request \ {r} : pc'[p] = pc[p] /\ tx'[p] = tx[p] /\ answer'[p] = answer[p]
        BY <2>5 DEF LoadClaim, Goto, Return, Answer, TypeOK
    <3>2. created' = created /\ now' = now /\ r \notin created
        BY <2>5 DEF LoadClaim, RequestOK
    <3>3. CASE q # r
        BY <3>1, <3>2, <3>3 DEF AnswerOK, Truthful
    <3>4. CASE pc'[r] = "done" /\ answer'[r].code = "REPLAYED"
      <4>1. /\ answer'[r].disbursement = Key(r).disbursement
            /\ classifyIdempotencyClaim(Key(r), PayloadOf[r], now[r]) = "REPLAYED"
          BY <2>5, <3>4, ErrorAnswer DEF LoadClaim, Goto, Return, Answer, TypeOK
      <4>2. Key(r).state = "COMPLETED" /\ Key(r).hash = PayloadOf[r] /\ Key(r).expires > now[r]
          BY <4>1, ReplayDecision
      <4>3. RowOK(ScopeOf[r]) /\ Key(r) = keys[ScopeOf[r]]
          BY RowTypes DEF Key
      <4>4. LET d == answer'[r].disbursement
            IN  /\ d \in created /\ d \in Request
                /\ ScopeOf[d] = ScopeOf[r] /\ PayloadOf[d] = PayloadOf[r]
                /\ Key(r).expires = now[d] + ReplayTTL
          BY <4>1, <4>2, <4>3 DEF RowOK
      <4>5. now[r] < now[answer'[r].disbursement] + ReplayTTL
          BY <4>2, <4>4, RowTypes
      <4>6. tx'[r] # "committing"
          BY <2>5 DEF LoadClaim, TypeOK, SessionOK
      <4>7. QED
          BY <3>2, <3>3, <3>4, <4>4, <4>5, <4>6 DEF AnswerOK, Truthful
    <3>5. CASE ~(pc'[r] = "done" /\ answer'[r].code = "REPLAYED")
      <4>1. pc'[r] = "done" => answer'[r].code \notin {"CREATED", "REPLAYED"}
          BY <2>5, <3>5, ErrorAnswer, ClassifyType DEF LoadClaim, Goto, Return, Answer, TypeOK
      <4>2. pc'[r] \in {"done", "reclaim"} /\ tx'[r] # "committing"
          BY <2>5 DEF LoadClaim, Goto, Return, TypeOK, SessionOK
      <4>3. QED
          BY <3>2, <3>3, <4>1, <4>2 DEF AnswerOK, Truthful
    <3>6. QED
        BY <3>3, <3>4, <3>5 DEF AnswerOK, Truthful
  <2>6. CASE Reclaim(r)
      BY <2>6, ErrorAnswer DEF Reclaim, Goto, Return, Answer, AnswerOK, Truthful, TypeOK,
         RequestOK, SessionOK
  <2>7. CASE VerifyOwnership(r)
      BY <2>7, ErrorAnswer DEF VerifyOwnership, Goto, AbortCreate, Answer, AnswerOK, Truthful,
         TypeOK, RequestOK, SessionOK
  <2>8. CASE InsertDisbursement(r)
      BY <2>8 DEF InsertDisbursement, Goto, AnswerOK, Truthful, TypeOK, RequestOK, SessionOK
  <2>9. CASE InsertEvent(r)
      BY <2>9 DEF InsertEvent, Goto, AnswerOK, Truthful, TypeOK, RequestOK, SessionOK
  <2>10. CASE Complete(r)
      BY <2>10, ErrorAnswer DEF Complete, Goto, AbortCreate, Answer, AnswerOK, Truthful,
         TypeOK, RequestOK, SessionOK
  <2>11. CASE StatementFails(r)
      BY <2>11, ErrorAnswer DEF StatementFails, Goto, Return, Answer, AbortCreate, AnswerOK,
         Truthful, TypeOK, RequestOK, SessionOK
  <2>12. CASE CommitSucceeds(r)
      BY <2>12 DEF CommitSucceeds, Goto, Return, Answer, ApplyWrites, AnswerOK, Truthful,
         TypeOK, RequestOK, SessionOK
  <2>13. CASE CommitFails(r)
      BY <2>13, ErrorAnswer DEF CommitFails, Goto, Return, Answer, AbortCreate, AnswerOK,
         Truthful, TypeOK, RequestOK, SessionOK
  <2>14. CASE Release(r)
      BY <2>14 DEF Release, Goto, AnswerOK, Truthful, TypeOK, RequestOK, SessionOK
  <2>15. CASE ReleaseFails(r)
      BY <2>15 DEF ReleaseFails, Goto, AnswerOK, Truthful, TypeOK, RequestOK, SessionOK
  <2>16. CASE Crash(r)
      BY <2>16 DEF Crash, Goto, AnswerOK, Truthful, TypeOK, RequestOK, SessionOK
  <2>17. CASE ServerCommit(r)
      BY <2>17 DEF ServerCommit, ApplyWrites, Abandoned, AnswerOK, Truthful, TypeOK,
         RequestOK, SessionOK
  <2>18. CASE ServerAbort(r)
      BY <2>18 DEF ServerAbort, Abandoned, AnswerOK, Truthful, TypeOK, RequestOK, SessionOK
  <2>19. QED
      BY <1>3, <2>1, <2>2, <2>3, <2>4, <2>5, <2>6, <2>7, <2>8, <2>9, <2>10, <2>11, <2>12,
         <2>13, <2>14, <2>15, <2>16, <2>17, <2>18 DEF Handle, Fail, Server
<1>4. QED
    BY <1>1, <1>2, <1>3 DEF Next

-----------------------------------------------------------------------------
(* The invariant and the theorems.                                         *)

\* The initial state satisfies the invariant.
LEMMA InitIInv == Init => IInv
<1> SUFFICES ASSUME Init PROVE IInv
    OBVIOUS
<1> USE ConstantTypes, CoordinatorConfiguration
<1>1. TypeOK
  <2>1. NoRow \in Row
    BY DEF NoRow, Row
  <2>2. QED
    BY <2>1 DEF Init, TypeOK, Label, Code
<1>2. RowLockExclusive /\ created = outbox /\ WindowProtected
    BY DEF Init, RowLockExclusive, WindowProtected
<1>3. \A r \in Request : SessionOK(r) /\ RequestOK(r)
    BY DEF Init, SessionOK, RequestOK
<1>4. \A r \in Request : AnswerOK(r)
    BY DEF Init, AnswerOK
<1>5. \A s \in Scope : RowOK(s)
    BY DEF Init, RowOK, NoRow
<1>6. QED
    BY <1>1, <1>2, <1>3, <1>4, <1>5 DEF IInv

\* Every step preserves it.
LEMMA NextIInv == IInv /\ [Next]_vars => IInv'
<1> SUFFICES ASSUME IInv, [Next]_vars PROVE IInv'
    OBVIOUS
<1>1. TypeOK'
    BY TypeStep DEF IInv
<1>2. QED
    BY <1>1, LockStep, SessionStep, RowStep, RequestStep, AnswerStep, OutboxStep, WindowStep
       DEF IInv

\* The inductive invariant holds throughout.
LEMMA Invariance == Spec => []IInv
    BY InitIInv, NextIInv, PTL DEF Spec

\* The variables of Create and of the idempotency store keep their types.
THEOREM TypeCorrect == Spec => []TypeOK
<1>1. IInv => TypeOK
    BY DEF IInv
<1>2. QED
    BY <1>1, Invariance, PTL

\* For any number of requests and any TTLs: until its replay window closes,
\* the row of a committed disbursement's key is the one that replays it.
THEOREM ReplayWindowProtected == Spec => []WindowProtected
<1>1. IInv => WindowProtected
    BY DEF IInv
<1>2. QED
    BY <1>1, Invariance, PTL

\* For any number of requests and any TTLs: Create commits no second
\* disbursement for a scope whose replay window is open.
THEOREM AtMostOncePerWindow == Spec => NoDuplicateWithinWindow
<1> DEFINE Step == \A r \in created' \ created : \A q \in created :
                      ScopeOf[q] = ScopeOf[r] => time >= now[q] + ReplayTTL
<1>1. ASSUME IInv, [Next]_vars PROVE Step
  <2>1. CASE created' = created
    BY <2>1
  <2>2. ASSUME NEW r \in Request, CommitSucceeds(r) \/ ServerCommit(r), created' # created
        PROVE  Step
    <3>1. ApplyWrites(r)
      BY <2>2 DEF CommitSucceeds, ServerCommit
    <3>2. tx[r] = "committing"
      BY <1>1, <2>2 DEF CommitSucceeds, ServerCommit, IInv, SessionOK
    <3>3. Owns(r) /\ created' = created \cup {r}
      BY <1>1, <2>2, <3>1, <3>2, CommitCreates
    <3>4. \A q \in created : ScopeOf[q] = ScopeOf[r] => Key(q).state # "COMPLETED"
      BY <3>3 DEF Owns, Key
    <3>5. QED
      BY <1>1, <3>3, <3>4 DEF IInv, WindowProtected
  <2>3. CASE Tick
    BY <2>1, <2>3 DEF Tick
  <2>4. CASE UNCHANGED vars
    BY <2>1, <2>4 DEF vars
  <2>5. ASSUME NEW r \in Request, Reject(r) \/ Claim(r) \/ Handle(r) \/ Fail(r) \/ Server(r)
        PROVE  created' = created \/ CommitSucceeds(r) \/ ServerCommit(r)
    BY <2>5 DEF Handle, Fail, Server, Reject, Claim, Acquire, AcquireFails, LoadClaim, Reclaim,
       VerifyOwnership, InsertDisbursement, InsertEvent, Complete, StatementFails, CommitFails,
       Release, ReleaseFails, Crash, ServerAbort
  <2>6. QED
    BY <1>1, <2>1, <2>2, <2>3, <2>4, <2>5 DEF Next
<1>2. IInv /\ [Next]_vars => [Step]_vars
    BY <1>1
<1>3. QED
    BY <1>2, Invariance, PTL DEF Spec, NoDuplicateWithinWindow

\* For any number of requests and any TTLs: a claim under lease is never
\* taken from the request that holds it.
THEOREM LeaseIsRespected == Spec => LeaseRespected
<1> DEFINE Step == \A s \in Scope :
                      keys[s].state = "IN_PROGRESS" /\ keys'[s].claim # keys[s].claim
                      => time >= keys[s].lease \/ pc[keys[s].claim] = "release"
<1>1. ASSUME IInv, [Next]_vars PROVE Step
  <2>1. CASE keys' = keys
    BY <2>1
  <2>2. ASSUME NEW r \in Request, CommitSucceeds(r) \/ ServerCommit(r)
        PROVE  Step
    <3>1. ApplyWrites(r)
      BY <2>2 DEF CommitSucceeds, ServerCommit
    <3>2. tx[r] = "committing"
      BY <1>1, <2>2 DEF CommitSucceeds, ServerCommit, IInv, SessionOK
    <3>3. CASE /\ reclaimMatches(Key(r), PayloadOf[r], now[r])
               /\ keys' = [keys EXCEPT ![ScopeOf[r]] = ClaimRow(r)]
      <4>1. TypeOK /\ RowOK(ScopeOf[r]) /\ now[r] <= time /\ now[r] \in Nat /\ time \in Nat
        <5>1. TypeOK /\ ScopeOf[r] \in Scope /\ RequestOK(r)
          BY <1>1, RowTypes DEF IInv
        <5>2. now[r] \in Nat
          BY <5>1, RowTypes
        <5>3. time \in Nat
          BY <5>1, ConstantTypes DEF TypeOK
        <5>4. QED
          BY <1>1, <5>1, <5>2, <5>3 DEF IInv, RequestOK
      <4>2. Key(r).state = "IN_PROGRESS" => time >= Key(r).lease
        <5>1. SUFFICES ASSUME Key(r).state = "IN_PROGRESS" PROVE time >= Key(r).lease
          OBVIOUS
        <5>2. Key(r).claim \in Request /\ now[Key(r).claim] \in Nat
          BY <4>1, <5>1, RowTypes DEF RowOK, Key
        <5>3. /\ Key(r).lease = now[Key(r).claim] + LeaseTTL
              /\ Key(r).expires = now[Key(r).claim] + ReplayTTL
          BY <4>1, <5>1 DEF RowOK, Key
        <5>4. QED
          BY <3>3, <4>1, <5>2, <5>3, CoordinatorConfiguration DEF reclaimMatches
      <4>3. QED
        BY <3>3, <4>1, <4>2 DEF TypeOK, Key
    <3>4. CASE keys' = [keys EXCEPT ![ScopeOf[r]] =
                          [Key(r) EXCEPT !.state = "COMPLETED", !.disbursement = r]]
      <4>1. TypeOK /\ Key(r) \in Row
        BY <1>1, RowTypes DEF IInv
      <4>2. \A s \in Scope : keys'[s].claim = keys[s].claim
        BY <3>4, <4>1 DEF TypeOK, Key, Row
      <4>3. QED
        BY <4>2
    <3>5. QED
      BY <1>1, <3>1, <3>2, <3>3, <3>4, CommitEffect
  <2>3. ASSUME NEW r \in Request, Release(r) \/ ReleaseFails(r)
        PROVE  Step
    BY <1>1, <2>3 DEF Release, ReleaseFails, Owns, Key, IInv, TypeOK
  <2>4. ASSUME NEW r \in Request, Acquire(r) \/ AcquireFails(r)
        PROVE  Step
    BY <1>1, <2>4 DEF Acquire, AcquireFails, Key, IInv, TypeOK
  <2>5. CASE Tick
    BY <2>1, <2>5 DEF Tick
  <2>6. CASE UNCHANGED vars
    BY <2>1, <2>6 DEF vars
  <2>7. ASSUME NEW r \in Request, Reject(r) \/ Claim(r) \/ Handle(r) \/ Fail(r) \/ Server(r)
        PROVE  \/ keys' = keys
               \/ CommitSucceeds(r) \/ ServerCommit(r) \/ Release(r) \/ ReleaseFails(r)
               \/ Acquire(r) \/ AcquireFails(r)
    BY <2>7 DEF Handle, Fail, Server, Reject, Claim, LoadClaim, Reclaim, VerifyOwnership,
       InsertDisbursement, InsertEvent, Complete, StatementFails, CommitFails, Crash, ServerAbort
  <2>8. QED
    BY <1>1, <2>1, <2>2, <2>3, <2>4, <2>5, <2>6, <2>7 DEF Next
<1>2. IInv /\ [Next]_vars => [Step]_vars
    BY <1>1
<1>3. QED
    BY <1>2, Invariance, PTL DEF Spec, LeaseRespected

\* For any number of requests: disbursements, audit events and completed keys
\* are committed together.
THEOREM CreationIsAtomic == Spec => []AtomicCreation
<1>1. IInv => AtomicCreation
    BY DEF IInv, AtomicCreation, RowOK
<1>2. QED
    BY <1>1, Invariance, PTL

\* For any number of requests: what Create answers is so.
THEOREM CreateIsTruthful == Spec => []AnswersTruthful
<1>1. IInv => AnswersTruthful
    BY DEF IInv, AnswersTruthful, AnswerOK
<1>2. QED
    BY <1>1, Invariance, PTL

\* For any TTLs: the reclaim UPDATE finds the row the Go code classified.
THEOREM ReclaimIsConsistent == Spec => []ReclaimAgrees
<1>1. IInv => ReclaimAgrees
    BY DEF IInv, ReclaimAgrees, SessionOK
<1>2. QED
    BY <1>1, Invariance, PTL

=============================================================================
