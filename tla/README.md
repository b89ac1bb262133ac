# Verification of the disbursement API

TLA+ models of the disbursement API, checked with TLC; every safety property of the
passing runs is also proved with TLAPS (section 5).  Paths below are relative to the repository's root.

## 1. The system

An HTTP API in Go over PostgreSQL.  Any number of instances run; they share only
the database, so the database's rows, its row locks and the order in which
statements of different requests reach it are what correctness is about.
Isolation is READ COMMITTED.

| Component | State | Operations | Hard part | What makes it correct |
|---|---|---|---|---|
| Idempotent creation: `service/disbursement` `Create`, `service/idempotency` `Coordinator`, `repository/postgres` `IdempotencyStore` | `idempotency_keys`, `disbursements`, `audit_outbox` | claim, take over, verify, insert, complete, release | several transactions per request, leases that lapse under a running request, lost COMMIT answers, crashes | at most one disbursement per key within the replay window; a leased claim is not stolen; disbursement, event and completion stand or fall together; the answer is true |
| Finalization and soft delete: `UpdateStatus`, `SoftDelete`, `DisbursementStore` | `disbursements`, `audit_outbox` | PATCH status, DELETE | races of finalizers and deleters, a before-snapshot read on another connection, a diagnostic read after the failed UPDATE | one winner for good; one audit event per change with the right snapshots; answers that name a lasting state |
| Audit relay: `RelayService`, `AuditOutboxStore`, `AuditProjectionStore` | `audit_outbox`, `audit_logs`, each worker's batch | fetch with lease, project, mark, record failure, clean up | several workers, lapsed leases, lost answers, late workers, LIMIT | logged before marked, logged once, delivered is final, delivered eventually |
| Connection pool: `Transactor`, `database.Open` | connections | begin, nested read, commit, cancel | requests that hold one connection and need another | no leak, no standstill, every request answered |
| Refresh sessions: `service/auth`, `RefreshSessionStore` | `refresh_sessions` | login, refresh, logout | one token presented twice, logout racing refresh, lost COMMIT answers | a token is exchanged once, revoked is final, answers are true |
| Application lifecycle: `app.New`, `Run`, `RelayService.StartWorker`/`StopWorker`, `cmd/api` | the pool, the server, `running`, `stopChan`, `workerDone` | open, wire, serve, drain, stop, close | two ways to stop the worker, deferred calls on every way out, requests that hang | closed once, pool outlives worker, nothing left behind, the process ends |
| IP rate limiter: `middleware/rate_limit.go` | times per address | judge, clean up, evict | a bounded map, boundaries of the window | the limit holds and is not cut short; only the quietest address is forgotten |
| Metrics collector | maps of counters, atomics | count, snapshot | first use of a label by two requests | no increment lost |
| Access tokens: `generateAccessToken`, `StaticKeyProvider`, `AuthenticateWithKeyProvider`, `RequireRole` | each instance's keys, tokens with a role | sign, verify, deploy | instances with different keys, roles that change under a token | no live token refused; a role ends with its last token |
| Listing: `DisbursementStore.List`, `NewPagination`, `NewUTCDateRange` | `disbursements` | count, select a page | two statements, pages that shift, defaults applied twice, integer overflow | pages and meta agree; no row missed or repeated where that can be promised |
| Fees, validation, handlers, DTOs, configuration, migrations, redaction, logging | none | - | - | not modelled (section 8) |

The services write an event into `audit_outbox` in the transaction that changes a
row; the relay moves it to `audit_logs` later.  All requests of an instance take
their connections from one `database/sql` pool.  The hazards, each at its line
and with the properties aimed at it, are listed in `PROJECT.json`.

## 2. The modules

| Module | Models | Checked by |
|---|---|---|
| `RepositoryErrors` | the error categories and `mapRepositoryError`, `mapIdempotencyError` | used by the next two |
| `IdempotentCreate` | POST /disbursements | `MCIdempotentCreate`, proofs in `IdempotentCreate_proofs` |
| `DisbursementLifecycle` | what PATCH and DELETE promise (abstract specification) | implemented by `Finalization` |
| `Finalization` | PATCH /disbursements/:id/status, DELETE /disbursements/:id | `MCFinalization`, proofs in `Finalization_proofs` |
| `AuditTrail` | what the transactional outbox promises (abstract specification) | implemented by `AuditRelay` |
| `AuditRelay` | the relay workers over the outbox | `MCAuditRelay`, proofs in `AuditRelay_proofs` |
| `ProcessResources` | the requests and connections of one process | extended by the two modules about it, `ConnectionPool` and `ApplicationLifecycle` |
| `ConnectionPool` | how requests share the pool | `MCConnectionPool`, proofs in `Process_proofs` |
| `RefreshSessions` | login, refresh, logout | `MCRefreshSessions`, proofs in `RefreshSessions_proofs` |
| `ApplicationLifecycle` | one process from `New` to its exit | `MCApplicationLifecycle`, proofs in `Process_proofs` |
| `MetricsCollector` | the counters | extended by `RateLimiter` |
| `RateLimiter` | the limiter in front of /auth/login and /auth/refresh, composed with the counters | `MCRateLimiter`, proofs in `RateLimiter_proofs` |
| `AccessTokens` | signing and verifying over a key rotation | `MCAccessTokens`, proofs in `AccessTokens_proofs` |
| `DisbursementList` | GET /disbursements, page after page | `MCDisbursementList`, proofs in `DisbursementList_proofs` |

Definitions carry the names of the functions and queries they model;
`PROJECT.json` gives the lines.  A definition commented *Mutant* is a plausible
bug in the definition that follows it.  It is used by no specification; put in
that definition's place it makes TLC report the property that `PROJECT.json`
names, which shows that the property depends on the code.

A run checks a module's type invariant together with the structural invariants
that speak about the same state, as one conjunction of named parts
(`RelayInvariant`, `PoolInvariant`, `SessionInvariant`, `StopInvariant`,
`MapInvariant`, `KeyInvariant`, `AnswerInvariant`), with a mutant for each part.

### Conventions

* **One step per SQL statement.**  Between two statements of a request anything
  may happen.  What a request does between two statements is folded into one of
  them.
* **Sessions.**  `tx[r]` is a request's database session as the server sees it:
  `"none"`, `"open"` (it holds the row lock), `"committing"` (COMMIT was sent).
  `CommitSucceeds` is a COMMIT whose answer arrives; `CommitFails` is one whose
  answer does not, after which the server decides by itself (`ServerCommit`,
  `ServerAbort`), however late, and holds the row lock until it has.  A crash
  leaves the session in the same way.  These two server actions, the row lock
  and the clock are the parts that are not code of the repository.
* **Row locks under READ COMMITTED.**  `SELECT ... FOR UPDATE` waits for the
  lock.  A conditional UPDATE or DELETE waits only if the version it sees
  matches, and tests the new version again after the wait.
* **Identity.**  A UUID a request generates (claim, disbursement, session) is
  the request itself.  A client's retry is another request with the same key or
  token.
* **Failure.**  Every statement may fail without effect; statements that are
  their own transaction may also fail with it.  The errors are of category
  Dependency.

### `IdempotentCreate`

`keys`, `created` and `outbox` are the three tables; `writes[r]` is what r's
uncommitted transaction has written.  `Claim` reads the clock (as
`Coordinator.Claim` does, before any wait), `Acquire` is the `INSERT ... ON
CONFLICT`, `LoadClaim` and `Reclaim` are `acquireExisting`, `VerifyOwnership`,
`InsertDisbursement`, `InsertEvent` and `Complete` the creating transaction,
`Release` the clean-up after its failure.  `classifyIdempotencyClaim` (Go) and
`reclaimMatches` (SQL) are kept apart because the code decides the take-over
twice.  Fingerprints are abstract payloads.

### `Finalization` and `DisbursementLifecycle`

`rows` are the disbursements, `trail` the audit events about them, `before[r]`
what `FindByID` returned and `after[r]` what the UPDATE wrote.  `decided_by` and
`deleted_at` hold the request that wrote them.  `FindByID` reads the committed
version, since the code reads it on another connection.  The set of rows is
fixed: IDs are generated by the server, so no request names one before its row
is committed.  `DisbursementLifecycle` has two variables, the outcome of each
disbursement and the requests that were audited, and one action, `Settle`.  The
refinement mapping (`Lifecycle` in `Finalization`) reads the outcome off the row
and the audited requests off the trail.

### `AuditRelay` and `AuditTrail`

`available_at` is kept as the time still to wait and `delivered_at` as the age
since, so that behaviours go on forever and liveness can be stated; `ahead`
is the order of the due events by `available_at, occurred_at`.  `available_at` of a
new event is the start of its transaction, so `Commit` puts it behind some of the
due events, not always behind all.  `InsertProjectionFails` and
`FetchPendingFails` include the case where the statement took effect.
`MarkDelivered` and `RecordFailure` that take effect with a lost answer are the
same steps as those that succeed, because `ProcessBatch` continues either way.
Reconcile only reads and is left out.  `AuditTrail` has three variables, the
events owed, those settled and the rows of `audit_logs`, and three actions,
`Commit`, `Log` and `Settle`; the refinement mapping (`Trail` in `AuditRelay`)
reads them off the outbox's states.  The other end of the outbox, that a change
and its event are committed together, is `AtomicCreation` and
`ImplementsLifecycle`.

### `ConnectionPool`

A request's transaction is reduced to the connections it takes: `Begin`, for
`UpdateStatus`, `SoftDelete` and `Refresh` the nested `FindByID` and its return
(`CloseRows`), the statement that locks a row, the end.
`OperationFails` is an error return at any of these points: nothing but the
deferred `Rollback` of `WithinTransaction` then gives the connection back.  `HangUp`
is the cancellation of the request's context, with which the transaction was
begun, so that `database/sql` itself rolls it back.  It is the only thing that ends
a wait: the server's read and write timeouts do not cancel a running handler.  `NoStandstill`
is freedom from deadlock as an invariant: `CanStep` spells out when a request's
next statement finds its connection or its row.

### `RefreshSessions`

`token[r]` is the refresh token a request presents, any that was handed out, or
one that never was.  `FindByTokenHash` is a plain read; only the UPDATE of
`Rotate` and that of `RevokeByTokenHash` take the row lock.  That `Create` lets
`created_at` default to the server's clock while `expires_at` comes from an
earlier reading is kept, since `refresh_sessions_expiry_check` compares them.
`Family(l)` is the smallest set of sessions that holds login `l` and is closed
under exchanging tokens.

### `ApplicationLifecycle`

`main` is the goroutine of `New` and `Run`; its values name the next thing it
does, and after "serve" they run through the deferred calls in their order
(`StopWorker`, `Close`).  `worker` is the relay's goroutine.  `StopWorker` is two
steps, since it gives the mutex up before it waits for `workerDone`; `stopWorker`
is the other closer of `stopChan`.  `panicked` records a close of a closed
channel.  A request under way holds a connection and may hang forever; a call of
the worker ends when it can get a connection or its context is cancelled.

### `RateLimiter` and `MetricsCollector`

The limiter's critical section is one action (`Refuse`, `Pass` or
`PassEvicting`), the increments that follow it are the actions of
`MetricsCollector`, interleaved with those of other requests: `incMapCounter` is
its lookup under the read lock, its creation under the write lock and its atomic
add.  `memory` is a history of what each address was let through with since it
was last evicted; `WithinLimit` is about that, because an eviction really does
forget (section 6).

### `AccessTokens`

A signature is the secret it was made with; a token carries the `kid`, the role
and the life it has left.  `keys[i]` is what instance `i` was configured with;
`Deploy` restarts it with the configuration of the rollout under way.  The
rollouts (add the new key as a legacy key; make it active and the old one
legacy; drop the old one a token's lifetime later) are the operator's and
external; `LiveTokensAccepted` says that this procedure is enough for the code
as it is.  `Login` and `Refresh` read the role and the clock in different
orders, which `AuthorityExpires` accounts for with `LoginTime`.

### `DisbursementList`

A row is its `created_at`.  One client walks from a page it chooses to the end,
each answer the two statements of `List` and then `NewPagination`; the other
requests change rows between any two of them.  `StorePage`, `StoreLimit` and
`NewPagination` are kept apart because the code normalises page and limit twice.
`Offset` wraps like Go's `int`: `IntBound` stands for 2^63.

## 3. The runs

| Run | Bounds | States | Shows |
|---|---|---|---|
| `idempotent_create` | 3 requests, 1 key, 2 payloads, lease 1, window 2, clock to 3 | 508k | no duplicate, no stolen lease, atomic, truthful, `Terminates` |
| `create_not_found` | same payload for all | violation | a creation answered 404 |
| `finalization` | an approval, a rejection and two deletions of one row | 70k | one winner, its event, the refinement, `Terminates` |
| `audit_relay` | 2 workers, 3 events, batches of 2, lease 2, backoff 1, retention 1, attempts counted to 1 | 1.6M | logged once and before it is marked, `ImplementsTrail` |
| `audit_relay_liveness` | 2 workers, 2 events, batches of 1 | 7k | `ImplementsFairTrail`: every event is logged and settled |
| `connection_pool` | 2 nested and 2 other requests, 3 connections | 2k | no leak, no standstill, everyone answered |
| `connection_pool_exhausted` | 2 nested requests, 2 connections | violation | nobody wins |
| `refresh_sessions` | a login, 2 refreshes, a logout, lifetime 1, clock to 2 | 186k | one successor, one live session per login, revoked is final, truthful |
| `application_lifecycle` | 2 requests, 2 connections | 1k | one close, order of shutdown, the process ends |
| `rate_limiter` | 4 requests, 3 addresses, limit 2, window 1, room for 2, cleanup every 3, clock to 2 | 274k | limit, eviction, exact counters |
| `access_tokens` | 2 instances, 2 rotations, lifetime 2, a login takes at most 1, 1 token, roles OPERATOR and SUPERADMIN | 413k | no live token refused, authority ends |
| `disbursement_list` | 3 rows over 2 days, pages 1, 2, 8, 12, limits 1 to 3, `IntBound` 16 | 551k | pages, meta and walks |

Why the bounds are enough to be interesting: three creations are a first owner,
one that takes over, and a third that meets what they left or carries another
payload; the clock passes a lease and a window with time to spare, and every
boundary value is hit.  Four requests for one row cover each pair of operations
in each order, with a third and a fourth that come late.  Two workers with
batches of two over three events give shared, split and left-over batches, and a
lease longer than the backoff.  Two nested requests and three connections are the
tightest pool that cannot block.  Two requests and two connections let requests
keep the whole pool from the relay's worker.  Four requests of three addresses
reach the limit, a full map, an eviction and the evicted address again, and
periodic cleanups in between.  One token is enough because the properties are
about single tokens, and two rotations reuse a key ID with a new secret.  The
offset of page 12 fits into five bits with limit 1, is negative with 2 and that
of another page with 3; that of page 8 is with limit 2 the last that fits.  What
the bounds leave open (an ID without a row, for one, though `Finalization` models
it), the theorems of section 5 close for every safety property.

Named bounds: `MaxTime` (clock), `MaxAttempts` (where `delivery_attempts` stops
counting), `MaxTokens`, `Rotations`, `IntBound`.  Symmetry is used for requests and
addresses in `rate_limiter` and for instances in `access_tokens`, which have
safety properties only.  Deadlock is checked for the relay and the access tokens,
which never stop; the other systems stop when all requests are answered.

## 4. Fairness

`Terminates`: weak fairness of the steps of a request that is under way (the Go
scheduler runs a goroutine that can run; PostgreSQL serves the statement) and of
PostgreSQL's handling of an abandoned session.  No failure, arrival or tick is
assumed, and no crash is excluded.

`ImplementsFairTrail`: time passes, a stopped worker is started again, a worker
under way goes on, and a statement that is tried again and again is not lost
every time (strong fairness of the fetch, the projection and the mark).

`EveryRequestAnswered`: weak fairness of the requests' own steps.  Each request
runs once, so it does not matter which waiter the pool serves first.  Hanging up
is never assumed.

`SignalEndsProcess` and `ServerErrorEndsProcess`: weak fairness of `main` and of
the worker's own steps, and strong fairness of the two exits of its `select`,
which chooses at random among ready branches and so does not pass over one
forever.  Nothing is assumed of requests: a handler may never return.
`ServerErrorEndsProcess` is conditional, as the code is: after a server error the
context is not cancelled, so it needs a connection to be free in the end.

## 5. What is proved

For any sets of requests, keys, payloads and disbursements, and any deadlines the
configuration accepts:

`IdempotentCreate_proofs` (assumptions `ConstantTypes`, `CoordinatorConfiguration`:
`LeaseTTL > 0`, `ReplayTTL > LeaseTTL`, as `NewCoordinator` requires): type
correctness, `WindowProtected`, `NoDuplicateWithinWindow`, `LeaseRespected`,
`AtomicCreation`, `AnswersTruthful`, `ReclaimAgrees`.  The inductive invariant
`IInv` adds to the properties what each request and session relies on: the row
lock is exclusive (`RowLockExclusive`); a session in the creating transaction owns
the key's row and a session that takes over still sees a row it may take
(`SessionOK`); a row's deadlines come from the clock reading of its claim
(`RowOK`); and where a request is limits what can be committed for it
(`RequestOK`, `AnswerOK`).  `WindowProtected` alone is not inductive: it needs to
know that nobody who still holds a session may write a completed row.  The
no-duplicate theorem is an action property that follows from `WindowProtected`
before the step: the row a creator owns is in progress, so no other disbursement
of that key has an open window.

`Finalization_proofs` (assumption `FinalizationConstants`): type correctness,
`TrailMatchesRows`, `AnswersTruthful`, `DiagnosisConclusive`, `SettledForever`
and `Spec => ImplementsLifecycle`.  Here `IInv` says that the row lock is
exclusive, that a session past its UPDATE still has the pending row under it,
and (the heart of it) that a request before its UPDATE whose row is open has read
that same version: a row changes once in its life, so a before-snapshot is either
right or never used.  Each COMMIT is then one `Settle` and everything else a
stutter (`CommitSettles`, `CommitOrNot`).

`AuditRelay_proofs` (assumption `RelayConfiguration`; any number of workers and
events): `RelayInvariant`, `DeliveredIsFinal` and `Spec => ImplementsTrail`.
`DeliveredIsLogged` is not inductive: a worker may come to `MarkDelivered` long
after its lease lapsed.  `WorkerOK` carries over what it knows: the event it is
about to mark was logged by somebody, and what it holds was committed.  For the
refinement each action is shown to be one step of `AuditTrail` or none; a lost
answer and a late worker are always none.  That the due events stay in an order
while they are leased, joined and taken away (`InsertedOrder`, `JoinedOrder`, `WithoutOrder`,
`LeaseOrder`) is part of the type invariant.

`RefreshSessions_proofs` (assumption `SessionConstants`): `SessionInvariant`,
`AnswersTruthful`, `OneLiveSessionPerLogin`, `RevokedForever`.  `IInv` says where a
request can be by its operation (`RequestOK`), that the row lock is exclusive, and
that a database session that holds the lock has the presented session live under
it until it commits (`LockOK`): the plain read of `FindByTokenHash` may be stale,
the condition of the UPDATE is not.  `Family(l)` is a least closed set, so the
argument for one live session per login is about closed sets: a commit adds one
session to the one family that the rotated session is in, and revokes that one
(`FamilyLeast`, `LoginFamilies`, `RefreshFamilies`).

`Process_proofs` (assumptions `ProcessConstants`, `NestedRequests`) is about both
modules of one process, `ApplicationLifecycle` and `ConnectionPool`, with the same
requests and connections.  Of its life: `StopInvariant`,
`NothingLeftBehind`, `NilMeansDrained`.  `IInv` ties the pool, the worker and the
server to where `main` is (`PoolOK`, `WorkerOK`, `ServerOK`).  Who closes
`stopChan` needs little more: that `running` means an open `stopChan` is part of
the type invariant.  `RunWaitsForRequestsOnly` is the safety side of
`SignalEndsProcess` and `ServerErrorEndsProcess`: since a worker that is waited for
has been told (`WaitedForIsTold`), only a call that gets no connection can keep
`Run` waiting, and that only without a signal.

Of its pool: `PoolInvariant` and `StandstillIsNestedReads`.  `PoolIInv` says that
what a request holds follows from where it is (`HeldOK`), and counts the
connections as pairs of a request and a first or second connection, so that giving
back is the removal of pairs (`OneLess`, `NoneLeft`).  When nobody can go on, nobody
has a row, since its owner could commit; whoever waits for a connection finds none
free; and whoever holds one is a nested transaction before its read.  So a
standstill has exactly `MaxOpen` of those: with more connections than nested
requests there is none (`NoStandstill`), and otherwise it is the one that
`connection_pool_exhausted` shows.

`AccessTokens_proofs` (assumptions `TokenConfiguration`, `UserRoles`; any number
of instances and rotations, any lifetimes): `KeyInvariant`, `AuthorityExpires`.
Every instance runs the configuration of the rollout under way or of the one
before it (`Deployed`), and `SecretOK` says which secrets live tokens have in each
phase; its last part, that during the wait before the drop the tokens of the old
key live no longer than the rest of the wait, is what makes the drop safe.
`RoleOK` adds a token's remaining life to the age of its role.

`RateLimiter_proofs` (assumptions `LimiterConfiguration`, `CounterNames`: each
counter is either in the maps or outside; any finite number of requests):
`MapInvariant`, `WithinLimit`, `RefusedOnlyWhenSpent`, `ForgottenOnlyForRoom`,
`CountersExact`.  The three verdicts share a shape (`Judges`), which is proved to
keep the invariant once.  `WithinLimit` needs `MemoryOK`: whatever still counts
against an address is in the map, so that the length the handler compares with the
limit is the number of requests in the window; cleanups (`Trims`) and refusals lose
none of it, evictions clear the history with the entry.  For the counters,
`RecordOK` says that a request past its lookup adds through the pointer that the
map has now, which is what the second look under the write lock is for, and
`CellsOK` that a counter not in the map was never added to.

`DisbursementList_proofs` (assumptions `ListConstants`, `IntsSuffice`: the largest
page size and the number of rows are ints): `AnswerInvariant`,
`WalkGivesRowsOnce`, `PageIsWhatMetaSays`.  What a page holds rests on one fact
about sorting, that the first n rows are n rows (`FirstRowsCount`).  `MissedOK`
says that a row not yet given lies at or behind the offset of the next page, and
that the walk goes on as long as there is one; `RepeatedOK` that a row already
given lies before it.  Both need to know what overflow does: the offset of the
next page is the end of this one or negative, in which case PostgreSQL refuses it
(`WrapNext`), and a row at an offset that does not fit into an int does not exist
(`WrapFits`).  `NextPageInRange`, part of `AnswerInvariant`, is what a client has
from that: a full page ends where there are rows (`FullPage`), so the offset of
the page after it fits.

Two facts above are inductions over numbers (the latest time of a set, the first n
rows).  The library's induction rules cannot be applied here, since they take a
predicate; the least-number principle can (`LeastNatural`, from the
well-foundedness of the naturals), and both are proved from a least
counterexample.

Only model-checked: all liveness (`Terminates`, `ImplementsFairTrail`,
`EveryRequestAnswered`, `SignalEndsProcess`, `ServerErrorEndsProcess`), which is out
of the prover's reach.  Every other property of the passing runs is a theorem.

## 6. Where code and documents disagree

* `create_not_found`: a creation that lost its claim to a request that then
  released it is answered 404 DISBURSEMENT_NOT_FOUND.
* `connection_pool_exhausted`: as many simultaneous finalizations (or deletions,
  or refreshes) as `DB_MAX_OPEN_CONNS` block each other until a client hangs up.

Noticed in reading, without a run:

* ARCHITECTURE.md promises `409 CONCURRENT_MODIFICATION` to the loser of a
  finalization race; `mapRepositoryError` answers DISBURSEMENT_ALREADY_FINALIZED
  and nothing constructs the other code.
* ARCHITECTURE.md promises exponential backoff; `ProcessBatch` waits a constant
  five seconds (`Backoff` is a constant of `AuditRelay` for that reason).
* The README says INVALID_REFRESH_TOKEN is an expired, revoked or reused token;
  `Refresh` also answers it when it fails to read the user (`FindUserFails`).
* ARCHITECTURE.md says that legacy keys are tried "when rotating active secrets";
  a token with a `kid` is only tried with the secret of that `kid`, so a new
  secret needs a new key ID, as in `AccessTokens`.
* The README's limit per address does not survive an eviction: an address that is
  evicted starts again with an empty history.  `WithinLimit` counts from the
  last eviction and `ForgottenOnlyForRoom` says when one can happen.
* `List` sorts by one column without a tie-breaker and computes its offset in an
  `int` that a large page overflows.  A client that stops at `total_pages` can
  miss a row when one is created between the two statements, so the walk of
  `NoRowMissed` goes on until a page is not full.
* The README's example of a listing (README.md:325, also README.md:56) filters by
  `start_date` and `end_date`; `ListDisbursementsQuery` binds `date_from` and
  `date_to` (`internal/httpapi/dto/disbursement.go:31`), so the example's dates are
  ignored without an error and the list is not restricted.
* A worker that ends on its context after `StopWorker` and another `StartWorker`
  would close its successor's `stopChan`; `Run` starts the worker once, so this
  is not reachable.
* After a logout with a token that was rotated meanwhile the successor stays live.
* DISBURSEMENT_NOT_DELETABLE is sent with status 400 where the README says 409;
  the backlog metric is the size of the last batch; the replay window is counted
  from the claim, not from the completion.

## 7. Plan

Done, in this order: creation, finalization with its abstract specification, the
relay, the pool, refresh sessions; proofs of the first two; then the application's
lifecycle, the limiter with the counters, access tokens, the listing, and the
audit trail as the relay's abstract specification.

Then the theorems about the relay, the sessions, the lifecycle, the access tokens,
the limiter with the counters, and the listing.

Then the pool's, with freedom from standstill, and what keeps `Run` waiting.
Nothing is left but liveness, which stays with TLC.

## 8. Not modelled

`CalculateAdminFee` is one comparison and the validation of inputs string
processing; handlers, DTOs and responses decide whether a request is accepted, an
action of the service models.  Configuration (beyond the keys and the assumptions
on constants), migrations, redaction, the access log's text: start-up input,
one-shot I/O, formatting.  Gauges are single stores that nothing reads back.
`DisbursementList` sorts by `created_at`, the default, with distinct times.  With
`sort_by=status` a finalization moves a row within the list while it stays in it, and
among rows with equal keys (`status`, `amount`, `recipient_name`) there is no order to
rely on, so `WalkGivesRowsOnce` does not carry over to those columns.  JWT parsing, password hashing and fingerprints: the models tell only valid
from invalid and equal from different.

Constraint violations other than the ones above (a decision or a fee the schema
refuses) are excluded by the validation in front of them and not modelled.
