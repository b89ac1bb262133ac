--------------------------- MODULE ConnectionPool ---------------------------
(***************************************************************************)
(* The database/sql pool that all requests of one API instance share, and  *)
(* how the services take connections from it.                              *)
(*                                                                         *)
(* WithinTransaction keeps a connection for the whole transaction.  Three  *)
(* operations read through the pool while they hold it: UpdateStatus and   *)
(* SoftDelete (DisbursementStore.FindByID) and Refresh (UserStore.FindByID). *)
(* All others need one connection at a time.  No wait has a time limit:    *)
(* only the client, by hanging up, cancels the request's context.          *)
(***************************************************************************)
EXTENDS ProcessResources

CONSTANTS
    Nested,     \* the requests that need a second connection in their transaction
    RowOf       \* the row each request locks

ASSUME NestedRequests == Nested \subseteq Request

VARIABLES
    pc,         \* where each request is
    held,       \* how many connections it holds
    free        \* how many more the pool may hand out

poolVars == <<pc, held, free>>

-----------------------------------------------------------------------------

UnderWay(r) == pc[r] \notin {"idle", "answered", "cancelled"}

Goto(r, l) == pc' = [pc EXCEPT ![r] = l]

Take(r) ==
    /\ free > 0
    /\ free' = free - 1
    /\ held' = [held EXCEPT ![r] = @ + 1]

GiveBack(r, n) ==
    /\ free' = free + n
    /\ held' = [held EXCEPT ![r] = @ - n]

\* A request reaches its service.
ReachService(r) ==
    /\ pc[r] = "idle"
    /\ Goto(r, "begin")
    /\ UNCHANGED <<held, free>>

\* Mutant: every operation reads through the pool inside its transaction.
Begin_AllNested(r) ==
    /\ pc[r] = "begin"
    /\ Take(r)
    /\ Goto(r, "find")

\* BeginTxx, or the statement of an operation without a transaction.
Begin(r) ==
    /\ pc[r] = "begin"
    /\ Take(r)
    /\ Goto(r, IF r \in Nested THEN "find" ELSE "write")

\* FindByID on store.database, inside the transaction.
FindByID(r) ==
    /\ pc[r] = "find"
    /\ Take(r)
    /\ Goto(r, "found")

\* Its row is scanned and its connection goes back.
CloseRows(r) ==
    /\ pc[r] = "found"
    /\ GiveBack(r, 1)
    /\ Goto(r, "write")

\* The statement that locks the row waits for the transaction that has it.
Write(r) ==
    /\ pc[r] = "write"
    /\ ~\E q \in Request : pc[q] = "commit" /\ RowOf[q] = RowOf[r]
    /\ Goto(r, "commit")
    /\ UNCHANGED <<held, free>>

\* Mutant: the deferred Rollback gives the connection back once more.
Commit_ThenRollback(r) ==
    /\ pc[r] = "commit"
    /\ free' = free + 2 * held[r]
    /\ held' = [held EXCEPT ![r] = 0]
    /\ Goto(r, "answered")

Commit(r) ==
    /\ pc[r] = "commit"
    /\ GiveBack(r, held[r])
    /\ Goto(r, "answered")

\* Mutant: there is no deferred Rollback.
OperationFails_NoRollback(r) ==
    /\ UnderWay(r)
    /\ pc[r] \in {"begin", "find"} => free > 0
    /\ Goto(r, "answered")
    /\ UNCHANGED <<held, free>>

\* A statement of the operation fails, or its result makes the operation fail:
\* WithinTransaction returns the error and the deferred Rollback, as the rows
\* of a read, gives the connection back.  A wait for a connection does not fail.
OperationFails(r) ==
    /\ UnderWay(r)
    /\ pc[r] \in {"begin", "find"} => free > 0
    /\ GiveBack(r, held[r])
    /\ Goto(r, "answered")

\* Mutant: the transaction is not bound to the request's context.
HangUp_Detached(r) ==
    /\ UnderWay(r)
    /\ Goto(r, "cancelled")
    /\ UNCHANGED <<held, free>>

\* The client hangs up.  BeginTxx and every statement have the request's
\* context: its cancellation ends the wait or the statement, database/sql rolls
\* the transaction back and every connection goes back.
HangUp(r) ==
    /\ UnderWay(r)
    /\ GiveBack(r, held[r])
    /\ Goto(r, "cancelled")

-----------------------------------------------------------------------------

PoolInit ==
    /\ pc = [r \in Request |-> "idle"]
    /\ held = [r \in Request |-> 0]
    /\ free = MaxOpen

Step(r) == Begin(r) \/ FindByID(r) \/ CloseRows(r) \/ Write(r) \/ Commit(r)

PoolNext == \E r \in Request : ReachService(r) \/ Step(r) \/ OperationFails(r) \/ HangUp(r)

PoolSpec == PoolInit /\ [][PoolNext]_poolVars

\* A request that can go on does.  No client has to hang up.
FairPoolSpec == PoolSpec /\ \A r \in Request : WF_poolVars(Step(r))

-----------------------------------------------------------------------------

\* The variables stay within their types.
PoolTypeOK ==
    /\ pc \in [Request -> {"idle", "begin", "find", "found", "write", "commit",
                           "answered", "cancelled"}]
    /\ held \in [Request -> 0..2]
    /\ free \in 0..MaxOpen

\* The connections in use: the first or second of the request that holds it.
InUse == {c \in Request \X (1..2) : c[2] <= held[c[1]]}

\* Connections do not leak: every one the pool cannot hand out is held by a
\* request that is still running, whatever failed or was cancelled in between.
NoConnectionLeaks ==
    /\ free + Cardinality(InUse) = MaxOpen
    /\ \A r \in Request : pc[r] \in {"answered", "cancelled"} => held[r] = 0

\* The next statement of r finds what it waits for: a connection, or the row.
CanStep(r) ==
    \/ pc[r] \in {"begin", "find"} /\ free > 0
    \/ pc[r] \in {"found", "commit"}
    \/ pc[r] = "write" /\ ~\E q \in Request : pc[q] = "commit" /\ RowOf[q] = RowOf[r]

\* A pool with more connections than there are requests that nest never comes
\* to a standstill: while requests are under way, one of them can go on, though
\* they wait for connections and rows that the others hold.
NoStandstill ==
    Cardinality(Nested) < MaxOpen /\ (\E r \in Request : UnderWay(r))
        => (\E r \in Request : CanStep(r))

\* What a step of any request leaves of the pool: types, no leak, and with
\* enough connections for the nested transactions, no standstill.
PoolInvariant == PoolTypeOK /\ NoConnectionLeaks /\ NoStandstill

\* Every request that arrives is answered unless its client hangs up.
EveryRequestAnswered ==
    \A r \in Request : pc[r] = "begin" ~> pc[r] \in {"answered", "cancelled"}

\* ARCHITECTURE.md 4: simultaneous N-way finalization requests yield exactly
\* one winning request, so with all of them under way one gets through.
FinalizationHasWinner ==
    (\A r \in Nested : pc[r] = "find") ~> (\E r \in Nested : pc[r] \in {"answered", "cancelled"})

=============================================================================
