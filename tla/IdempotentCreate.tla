-------------------------- MODULE IdempotentCreate --------------------------
(***************************************************************************)
(* POST /disbursements: Service.Create, the idempotency Coordinator and    *)
(* the PostgreSQL idempotency store, for several concurrent requests.      *)
(*                                                                         *)
(* A request r names one idempotency scope ScopeOf[r] (user, endpoint,     *)
(* key) and carries one payload PayloadOf[r] (its fingerprint).  The claim *)
(* ID and the disbursement ID it generates are fresh UUIDs, so r itself    *)
(* stands for both.  A retry by the client is another request with the     *)
(* same scope.                                                             *)
(*                                                                         *)
(* Every SQL statement is a step.  tx[r] is r's database session as the    *)
(* server sees it: "open" from its SELECT ... FOR UPDATE on, which is also *)
(* when it locks the key's row, "committing" once COMMIT is sent.  The     *)
(* session outlives the client: after a lost answer or a crash the server  *)
(* still decides by itself (ServerCommit, ServerAbort), and holds the row  *)
(* lock until it has.                                                      *)
(***************************************************************************)
EXTENDS Naturals, RepositoryErrors

CONSTANTS
    Request,    \* the POST requests, over all instances of the API
    Scope,      \* idempotency scopes
    Payload,    \* request fingerprints
    ScopeOf,    \* the scope of each request
    PayloadOf,  \* the fingerprint of each request
    LeaseTTL,   \* IDEMPOTENCY_LEASE_TTL
    ReplayTTL,  \* IDEMPOTENCY_REPLAY_TTL
    MaxTime,    \* bound of the clock
    None        \* SQL NULL

ASSUME ConstantTypes ==
    /\ ScopeOf \in [Request -> Scope]
    /\ PayloadOf \in [Request -> Payload]
    /\ MaxTime \in Nat
    /\ None \notin Request /\ None \notin Payload

\* NewCoordinator rejects leaseTTL <= 0 and replayTTL <= leaseTTL.
ASSUME CoordinatorConfiguration ==
    /\ LeaseTTL \in Nat /\ ReplayTTL \in Nat
    /\ LeaseTTL > 0 /\ ReplayTTL > LeaseTTL

VARIABLES
    time,       \* the wall clock
    keys,       \* idempotency_keys: the row of each scope
    created,    \* disbursements: the requests whose row is committed
    outbox,     \* audit_outbox: the requests whose created-event is committed
    pc,         \* where each request is in Create
    now,        \* the time Coordinator.Claim read
    tx,         \* each request's database session
    writes,     \* what an uncommitted transaction has written
    answer      \* what Create returns

vars == <<time, keys, created, outbox, pc, now, tx, writes, answer>>

-----------------------------------------------------------------------------

Code == {"NONE", "CREATED", "REPLAYED", "IN_PROGRESS", "REUSED", "INVALID", "INTERNAL",
         "DISBURSEMENT_NOT_FOUND", "DISBURSEMENT_ALREADY_FINALIZED",
         "DISBURSEMENT_NOT_DELETABLE"}

Row == [state: {"ABSENT", "IN_PROGRESS", "COMPLETED"}, hash: Payload \cup {None},
        claim: Request \cup {None}, lease: Nat, expires: Nat, disbursement: Request \cup {None}]

NoRow == [state |-> "ABSENT", hash |-> None, claim |-> None, lease |-> 0, expires |-> 0,
          disbursement |-> None]

\* Mutant: the lease deadline is computed backwards.
ClaimRow_BackwardLease(r) ==
    [state |-> "IN_PROGRESS", hash |-> PayloadOf[r], claim |-> r, lease |-> now[r] - LeaseTTL,
     expires |-> now[r] + ReplayTTL, disbursement |-> None]

\* Mutant: the lease is taken for the replay window.
ClaimRow_ShortWindow(r) ==
    [state |-> "IN_PROGRESS", hash |-> PayloadOf[r], claim |-> r, lease |-> now[r] + LeaseTTL,
     expires |-> now[r] + LeaseTTL, disbursement |-> None]

\* The row both insertIdempotencyClaim and reclaimIdempotencyClaim leave for r.
ClaimRow(r) == [state |-> "IN_PROGRESS", hash |-> PayloadOf[r], claim |-> r,
                lease |-> now[r] + LeaseTTL, expires |-> now[r] + ReplayTTL,
                disbursement |-> None]

Write == {"reclaim", "disbursement", "event", "completion"}

Key(r) == keys[ScopeOf[r]]

\* Some session holds the row lock of scope s.
Locked(s) == \E q \in Request : ScopeOf[q] = s /\ tx[q] # "none"

\* verifyIdempotencyOwner, completeIdempotencyClaim, releaseIdempotencyClaim: the owner test.
Owns(r) == Key(r).state = "IN_PROGRESS" /\ Key(r).claim = r

\* Mutant: the fingerprint is not compared.
classify_AnyPayload(row, payload, t) ==
    LET unexpired == row.expires > t
    IN  IF unexpired /\ row.state = "COMPLETED" THEN "REPLAYED"
        ELSE IF unexpired /\ row.lease > t THEN "IN_PROGRESS"
        ELSE "RECLAIM"

\* classifyIdempotencyClaim, decided in Go on the loaded row.
classifyIdempotencyClaim(row, payload, t) ==
    LET unexpired == row.expires > t
    IN  IF unexpired /\ row.hash # payload THEN "REUSED"
        ELSE IF unexpired /\ row.state = "COMPLETED" THEN "REPLAYED"
        ELSE IF unexpired /\ row.lease > t THEN "IN_PROGRESS"
        ELSE "RECLAIM"

\* Mutant: SQL and Go disagree about a deadline that is exactly now.
reclaimMatches_Strict(row, payload, t) ==
    /\ row.state # "ABSENT"
    /\ \/ row.expires < t
       \/ row.state = "IN_PROGRESS" /\ row.hash = payload /\ row.lease < t

\* The WHERE clause of reclaimIdempotencyClaim, decided again in SQL.
reclaimMatches(row, payload, t) ==
    /\ row.state # "ABSENT"
    /\ \/ row.expires <= t
       \/ row.state = "IN_PROGRESS" /\ row.hash = payload /\ row.lease <= t

-----------------------------------------------------------------------------

Goto(r, l) == pc' = [pc EXCEPT ![r] = l]

Answer(r, code, d) == answer' = [answer EXCEPT ![r] = [code |-> code, disbursement |-> d]]

\* Create returns an error, or a result that created nothing.
Return(r, code, d) == Goto(r, "done") /\ Answer(r, code, d)

\* The transaction's error is kept while Release runs.
AbortCreate(r, category) ==
    Goto(r, "release") /\ Answer(r, mapRepositoryError(category), None)

\* Input validation and ParseIdempotencyKey fail: nothing is touched.
Reject(r) ==
    /\ pc[r] = "idle"
    /\ Return(r, "INVALID", None)
    /\ UNCHANGED <<time, keys, created, outbox, now, tx, writes>>

\* Coordinator.Claim up to the call of Acquire: the clock is read here.
Claim(r) ==
    /\ pc[r] = "idle"
    /\ now' = [now EXCEPT ![r] = time]
    /\ Goto(r, "acquire")
    /\ UNCHANGED <<time, keys, created, outbox, tx, writes, answer>>

\* Mutant: a conflict is retried at once instead of being classified.
Acquire_Retries(r) ==
    /\ pc[r] = "acquire"
    /\ IF Key(r).state = "ABSENT"
       THEN keys' = [keys EXCEPT ![ScopeOf[r]] = ClaimRow(r)] /\ Goto(r, "verify")
       ELSE UNCHANGED <<keys, pc>>
    /\ UNCHANGED <<time, created, outbox, now, tx, writes, answer>>

\* Acquire: INSERT ... ON CONFLICT DO NOTHING, a transaction of its own.
Acquire(r) ==
    /\ pc[r] = "acquire"
    /\ IF Key(r).state = "ABSENT"
       THEN keys' = [keys EXCEPT ![ScopeOf[r]] = ClaimRow(r)] /\ Goto(r, "verify")
       ELSE UNCHANGED keys /\ Goto(r, "load")
    /\ UNCHANGED <<time, created, outbox, now, tx, writes, answer>>

\* The INSERT's answer is lost; the row may be there all the same.
AcquireFails(r) ==
    /\ pc[r] = "acquire"
    /\ \/ UNCHANGED keys
       \/ Key(r).state = "ABSENT" /\ keys' = [keys EXCEPT ![ScopeOf[r]] = ClaimRow(r)]
    /\ Return(r, mapIdempotencyError("Dependency"), None)
    /\ UNCHANGED <<time, created, outbox, now, tx, writes>>

\* acquireExisting: SELECT ... FOR UPDATE waits for the row lock, then the
\* row is classified.  A row deleted since the INSERT is a NotFound error; a
\* claim that is not taken over commits the read-only transaction and returns.
LoadClaim(r) ==
    LET outcome == classifyIdempotencyClaim(Key(r), PayloadOf[r], now[r])
    IN  /\ pc[r] = "load"
        /\ ~Locked(ScopeOf[r])
        /\ \/ /\ Key(r).state = "ABSENT"
              /\ Return(r, mapIdempotencyError("NotFound"), None)
              /\ UNCHANGED tx
           \/ /\ Key(r).state # "ABSENT" /\ outcome # "RECLAIM"
              /\ Return(r, outcome, IF outcome = "REPLAYED" THEN Key(r).disbursement ELSE None)
              /\ UNCHANGED tx
           \/ /\ Key(r).state # "ABSENT" /\ outcome = "RECLAIM"
              /\ tx' = [tx EXCEPT ![r] = "open"]
              /\ Goto(r, "reclaim")
              /\ UNCHANGED answer
        /\ UNCHANGED <<time, keys, created, outbox, now, writes>>

\* acquireExisting: the UPDATE that takes the claim over, then COMMIT is
\* sent.  No row updated is a Conflict error and a rollback.
Reclaim(r) ==
    LET updated == reclaimMatches(Key(r), PayloadOf[r], now[r])
    IN  /\ pc[r] = "reclaim"
        /\ tx' = [tx EXCEPT ![r] = IF updated THEN "committing" ELSE "none"]
        /\ writes' = [writes EXCEPT ![r] = IF updated THEN {"reclaim"} ELSE {}]
        /\ IF updated THEN Goto(r, "committing") /\ UNCHANGED answer
                      ELSE Return(r, mapIdempotencyError("Conflict"), None)
        /\ UNCHANGED <<time, keys, created, outbox, now>>

\* Begin and VerifyOwnership: waits for the row lock, then a missing row is
\* NotFound and a row of another claim, or a completed one, OwnershipLost.
VerifyOwnership(r) ==
    /\ pc[r] = "verify"
    /\ ~Locked(ScopeOf[r])
    /\ \/ /\ Owns(r)
          /\ tx' = [tx EXCEPT ![r] = "open"]
          /\ Goto(r, "disbursement")
          /\ UNCHANGED answer
       \/ /\ ~Owns(r)
          /\ AbortCreate(r, IF Key(r).state = "ABSENT" THEN "NotFound" ELSE "OwnershipLost")
          /\ UNCHANGED tx
    /\ UNCHANGED <<time, keys, created, outbox, now, writes>>

\* DisbursementStore.Insert inside the transaction.
InsertDisbursement(r) ==
    /\ pc[r] = "disbursement"
    /\ writes' = [writes EXCEPT ![r] = @ \cup {"disbursement"}]
    /\ Goto(r, "event")
    /\ UNCHANGED <<time, keys, created, outbox, now, tx, answer>>

\* Mutant: the event is not inserted.
InsertEvent_Skipped(r) ==
    /\ pc[r] = "event"
    /\ Goto(r, "complete")
    /\ UNCHANGED <<time, keys, created, outbox, now, tx, writes, answer>>

\* AuditOutboxStore.Insert of the disbursement.created event.
InsertEvent(r) ==
    /\ pc[r] = "event"
    /\ writes' = [writes EXCEPT ![r] = @ \cup {"event"}]
    /\ Goto(r, "complete")
    /\ UNCHANGED <<time, keys, created, outbox, now, tx, answer>>

\* IdempotencyStore.Complete, then COMMIT is sent; no row updated is
\* OwnershipLost and a rollback.
Complete(r) ==
    /\ pc[r] = "complete"
    /\ tx' = [tx EXCEPT ![r] = IF Owns(r) THEN "committing" ELSE "none"]
    /\ writes' = [writes EXCEPT ![r] = IF Owns(r) THEN @ \cup {"completion"} ELSE {}]
    /\ IF Owns(r) THEN Goto(r, "committing") /\ UNCHANGED answer
                  ELSE AbortCreate(r, "OwnershipLost")
    /\ UNCHANGED <<time, keys, created, outbox, now>>

\* A statement of one of the two transactions fails.  The rollback reaches
\* the server, or the session is left for the server to find out.  Only the
\* failure of the creating transaction is followed by Release.
StatementFails(r) ==
    /\ \/ /\ pc[r] \in {"load", "reclaim"}
          /\ Return(r, mapIdempotencyError("Dependency"), None)
       \/ /\ pc[r] \in {"verify", "disbursement", "event", "complete"}
          /\ AbortCreate(r, "Dependency")
    /\ \/ UNCHANGED <<tx, writes>>
       \/ /\ tx[r] # "none"
          /\ tx' = [tx EXCEPT ![r] = "none"]
          /\ writes' = [writes EXCEPT ![r] = {}]
    /\ UNCHANGED <<time, keys, created, outbox, now>>

\* What a COMMIT makes visible at once.
ApplyWrites(r) ==
    /\ keys' = [keys EXCEPT ![ScopeOf[r]] =
                  IF "reclaim" \in writes[r] THEN ClaimRow(r)
                  ELSE IF "completion" \in writes[r]
                       THEN [@ EXCEPT !.state = "COMPLETED", !.disbursement = r]
                  ELSE @]
    /\ created' = IF "disbursement" \in writes[r] THEN created \cup {r} ELSE created
    /\ outbox' = IF "event" \in writes[r] THEN outbox \cup {r} ELSE outbox
    /\ tx' = [tx EXCEPT ![r] = "none"]
    /\ writes' = [writes EXCEPT ![r] = {}]

\* The COMMIT succeeds and the client hears it: a take-over goes on to the
\* creating transaction, and that one answers 201.
CommitSucceeds(r) ==
    /\ pc[r] = "committing"
    /\ ApplyWrites(r)
    /\ IF "reclaim" \in writes[r] THEN Goto(r, "verify") /\ UNCHANGED answer
                                  ELSE Return(r, "CREATED", r)
    /\ UNCHANGED <<time, now>>

\* The client gets an error for its COMMIT, whatever the server does with it.
CommitFails(r) ==
    /\ pc[r] = "committing"
    /\ IF "reclaim" \in writes[r] THEN Return(r, mapIdempotencyError("Dependency"), None)
                                  ELSE AbortCreate(r, "Dependency")
    /\ UNCHANGED <<time, keys, created, outbox, now, tx, writes>>

\* Mutant: the DELETE does not test the state.
Release_AnyState(r) ==
    /\ pc[r] = "release"
    /\ ~Locked(ScopeOf[r])
    /\ keys' = IF Key(r).claim = r THEN [keys EXCEPT ![ScopeOf[r]] = NoRow] ELSE keys
    /\ Goto(r, "done")
    /\ UNCHANGED <<time, created, outbox, now, tx, writes, answer>>

\* Mutant: the DELETE does not test the claim.
Release_AnyClaim(r) ==
    /\ pc[r] = "release"
    /\ ~Locked(ScopeOf[r])
    /\ keys' = IF Key(r).state = "IN_PROGRESS" THEN [keys EXCEPT ![ScopeOf[r]] = NoRow] ELSE keys
    /\ Goto(r, "done")
    /\ UNCHANGED <<time, created, outbox, now, tx, writes, answer>>

\* Release: DELETE of the request's own unfinished claim, a transaction of
\* its own.  It waits for the row lock only if the row it sees matches.
Release(r) ==
    /\ pc[r] = "release"
    /\ Owns(r) => ~Locked(ScopeOf[r])
    /\ keys' = IF Owns(r) THEN [keys EXCEPT ![ScopeOf[r]] = NoRow] ELSE keys
    /\ Goto(r, "done")
    /\ UNCHANGED <<time, created, outbox, now, tx, writes, answer>>

\* Release fails without or with its effect; Create ignores the error.
ReleaseFails(r) ==
    /\ pc[r] = "release"
    /\ \/ UNCHANGED keys
       \/ /\ Owns(r) /\ ~Locked(ScopeOf[r])
          /\ keys' = [keys EXCEPT ![ScopeOf[r]] = NoRow]
    /\ Goto(r, "done")
    /\ UNCHANGED <<time, created, outbox, now, tx, writes, answer>>

\* The process dies with the request in it; its session stays.
Crash(r) ==
    /\ pc[r] \notin {"idle", "done", "crashed"}
    /\ Goto(r, "crashed")
    /\ UNCHANGED <<time, keys, created, outbox, now, tx, writes, answer>>

-----------------------------------------------------------------------------
(* PostgreSQL, once the client no longer drives the session.               *)

Abandoned(r) == pc[r] \in {"release", "done", "crashed"}

ServerCommit(r) ==
    /\ tx[r] = "committing" /\ Abandoned(r)
    /\ ApplyWrites(r)
    /\ UNCHANGED <<time, pc, now, answer>>

ServerAbort(r) ==
    /\ tx[r] # "none" /\ Abandoned(r)
    /\ tx' = [tx EXCEPT ![r] = "none"]
    /\ writes' = [writes EXCEPT ![r] = {}]
    /\ UNCHANGED <<time, keys, created, outbox, pc, now, answer>>

Tick ==
    /\ time < MaxTime
    /\ time' = time + 1
    /\ UNCHANGED <<keys, created, outbox, pc, now, tx, writes, answer>>

-----------------------------------------------------------------------------

Init ==
    /\ time = 0
    /\ keys = [s \in Scope |-> NoRow]
    /\ created = {} /\ outbox = {}
    /\ pc = [r \in Request |-> "idle"]
    /\ now = [r \in Request |-> 0]
    /\ tx = [r \in Request |-> "none"]
    /\ writes = [r \in Request |-> {}]
    /\ answer = [r \in Request |-> [code |-> "NONE", disbursement |-> None]]

\* The steps of Create that go on, and those that meet an error.
Handle(r) ==
    \/ Acquire(r) \/ LoadClaim(r) \/ Reclaim(r)
    \/ VerifyOwnership(r) \/ InsertDisbursement(r) \/ InsertEvent(r) \/ Complete(r)
    \/ CommitSucceeds(r) \/ Release(r)

Fail(r) ==
    \/ AcquireFails(r) \/ StatementFails(r) \/ CommitFails(r) \/ ReleaseFails(r) \/ Crash(r)

Server(r) == ServerCommit(r) \/ ServerAbort(r)

Next ==
    \/ \E r \in Request : Reject(r) \/ Claim(r) \/ Handle(r) \/ Fail(r) \/ Server(r)
    \/ Tick

Spec == Init /\ [][Next]_vars

\* A running goroutine goes on, and PostgreSQL resolves every abandoned
\* session.  No failure, no arrival and no tick is assumed to happen.
FairSpec == Spec /\ \A r \in Request : WF_vars(Handle(r)) /\ WF_vars(Server(r))

-----------------------------------------------------------------------------

Label == {"idle", "acquire", "load", "reclaim", "verify", "disbursement", "event", "complete",
          "committing", "release", "done", "crashed"}

\* The variables stay within their types.
TypeOK ==
    /\ time \in 0..MaxTime
    /\ keys \in [Scope -> Row]
    /\ created \subseteq Request /\ outbox \subseteq Request
    /\ pc \in [Request -> Label]
    /\ now \in [Request -> 0..MaxTime]
    /\ tx \in [Request -> {"none", "open", "committing"}]
    /\ writes \in [Request -> SUBSET Write]
    /\ answer \in [Request -> [code: Code, disbursement: Request \cup {None}]]

\* Until the replay window of a committed disbursement closes, its key's row
\* is the completed one that replays it: no reclaim, release, late commit or
\* abandoned session removes or overwrites it (Complete, Release and
\* acquireExisting of the idempotency store).
WindowProtected ==
    \A r \in created :
        \/ time >= now[r] + ReplayTTL
        \/ /\ Key(r).state = "COMPLETED" /\ Key(r).disbursement = r
           /\ Key(r).hash = PayloadOf[r] /\ Key(r).expires = now[r] + ReplayTTL

\* Create never commits a second disbursement for an idempotency scope while
\* the replay window of an earlier one is open, however its requests stall,
\* fail, retry and overtake each other.
NoDuplicateWithinWindow ==
    [][\A r \in created' \ created : \A q \in created :
         ScopeOf[q] = ScopeOf[r] => time >= now[q] + ReplayTTL]_vars

\* A claim that is still leased is never taken from the request that holds
\* it: it goes only when that request itself releases it (acquireExisting
\* takes over, Release deletes).
LeaseRespected ==
    [][\A s \in Scope :
         keys[s].state = "IN_PROGRESS" /\ keys'[s].claim # keys[s].claim
         => time >= keys[s].lease \/ pc[keys[s].claim] = "release"]_vars

\* The three writes of the creating transaction stand or fall together: a
\* disbursement has its audit event, and a key completes only for a
\* disbursement that exists (WithinTransaction in Create).
AtomicCreation ==
    /\ created = outbox
    /\ \A s \in Scope : keys[s].state = "COMPLETED" =>
          keys[s].disbursement = keys[s].claim /\ keys[s].claim \in created

Truthful(r) ==
    LET code == answer[r].code  d == answer[r].disbursement
    IN  /\ code = "CREATED" => r \in created
        /\ code = "REPLAYED" =>
              /\ d \in created \ {r}
              /\ ScopeOf[d] = ScopeOf[r] /\ PayloadOf[d] = PayloadOf[r]
              /\ now[r] < now[d] + ReplayTTL
        /\ r \in created => code \in {"CREATED", "INTERNAL"}

\* What Create answers is so: 201 means the disbursement is committed, a
\* replay is of a committed disbursement of the same key and payload whose
\* window was open, and only an INTERNAL answer can hide a disbursement that
\* was committed after all.
AnswersTruthful == \A r \in Request : pc[r] = "done" => Truthful(r)

\* The reclaim UPDATE always finds the row that the Go classification chose
\* to take over: the two tests of acquireExisting agree, at the boundaries
\* of the lease and of the window too.
ReclaimAgrees ==
    \A r \in Request :
        pc[r] = "reclaim" => reclaimMatches(Key(r), PayloadOf[r], now[r])

\* Every request that reaches the store gets an answer unless its process
\* dies: no wait for the row lock in Acquire, VerifyOwnership or Release
\* lasts forever.
Terminates == \A r \in Request : pc[r] = "acquire" ~> pc[r] \in {"done", "crashed"}

\* README.md: DISBURSEMENT_NOT_FOUND is answered for an ID that is not found
\* or soft-deleted, which a creation, having no such ID, cannot meet.
CreateNeverNotFound == \A r \in Request : answer[r].code # "DISBURSEMENT_NOT_FOUND"

=============================================================================
