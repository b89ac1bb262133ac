---------------------------- MODULE Finalization ----------------------------
(***************************************************************************)
(* PATCH /disbursements/:id/status (Service.UpdateStatus) and DELETE       *)
(* /disbursements/:id (Service.SoftDelete) over the PostgreSQL             *)
(* disbursement store, for concurrent requests.                            *)
(*                                                                         *)
(* Inside its transaction a request first reads the row through another    *)
(* connection of the pool (FindByID runs on store.database), takes what it *)
(* read as the before-snapshot of its audit event, and then runs the       *)
(* conditional UPDATE.  An UPDATE that matches no row is followed by a     *)
(* diagnostic read that decides the error.                                 *)
(*                                                                         *)
(* tx[r] is r's session as the server sees it: "open" while it holds the   *)
(* row lock its UPDATE took, "committing" once COMMIT is sent.  It         *)
(* outlives a lost answer or a crash of the client.                        *)
(***************************************************************************)
EXTENDS RepositoryErrors

CONSTANTS
    Disbursement,   \* disbursement IDs a request may name
    Existing,       \* those that have a row
    Request,        \* PATCH and DELETE requests
    TargetOf,       \* the ID each request names
    OperationOf,    \* "APPROVED", "REJECTED" (PATCH) or "DELETE"
    None            \* SQL NULL

ASSUME FinalizationConstants ==
    /\ Existing \subseteq Disbursement
    /\ TargetOf \in [Request -> Disbursement]
    /\ OperationOf \in [Request -> {"APPROVED", "REJECTED", "DELETE"}]
    /\ None \notin Request

VARIABLES
    rows,       \* disbursements: status, decided_by, deleted_at of each ID
    trail,      \* audit_outbox: the events about them
    pc,         \* where each request is
    before,     \* what FindByID returned
    tx,         \* each request's database session
    after,      \* what the UPDATE of an uncommitted transaction wrote
    staged,     \* the events an uncommitted transaction inserted
    answer      \* what the handler answers

vars == <<rows, trail, pc, before, tx, after, staged, answer>>

-----------------------------------------------------------------------------

\* decided_by and deleted_at hold the request that wrote them: its actor, its clock.
Version == [status: {"ABSENT", "PENDING", "APPROVED", "REJECTED"},
            decidedBy: Request \cup {None}, deletedAt: Request \cup {None}]

NoDisbursement == [status |-> "ABSENT", decidedBy |-> None, deletedAt |-> None]

PendingDisbursement == [status |-> "PENDING", decidedBy |-> None, deletedAt |-> None]

InitialVersion(d) == IF d \in Existing THEN PendingDisbursement ELSE NoDisbursement

\* The WHERE clause of both UPDATEs.
Open(version) == version.status = "PENDING" /\ version.deletedAt = None

\* Mutant: a deletion is written as a status the schema does not have.
Updated_DeletedStatus(version, r) ==
    IF OperationOf[r] = "DELETE" THEN [version EXCEPT !.status = "DELETED", !.deletedAt = r]
    ELSE [version EXCEPT !.status = OperationOf[r], !.decidedBy = r]

\* The row as the UPDATE of request r leaves it.
Updated(version, r) ==
    IF OperationOf[r] = "DELETE" THEN [version EXCEPT !.deletedAt = r]
    ELSE [version EXCEPT !.status = OperationOf[r], !.decidedBy = r]

\* NewAuditEvent: the entity, the request that acted and the two snapshots.
AuditEvent(r, old, new) ==
    [entity |-> TargetOf[r], request |-> r, before |-> old, after |-> new]

Event == [entity: Disbursement, request: Request, before: Version, after: Version]

Code == {"NONE", "OK", "NO_CONTENT", "INVALID", "INTERNAL", "DISBURSEMENT_NOT_FOUND",
         "DISBURSEMENT_ALREADY_FINALIZED", "DISBURSEMENT_NOT_DELETABLE",
         "CONCURRENT_MODIFICATION"}

Deletes(r) == OperationOf[r] = "DELETE"

Current(r) == rows[TargetOf[r]]

\* Some session holds the row lock of disbursement d.
Locked(d) == \E q \in Request : TargetOf[q] = d /\ tx[q] # "none"

\* findDisbursementByIDQuery: only rows that are not deleted.
Visible(version) == version.status # "ABSENT" /\ version.deletedAt = None

-----------------------------------------------------------------------------

Goto(r, l) == pc' = [pc EXCEPT ![r] = l]

Return(r, code) == Goto(r, "done") /\ answer' = [answer EXCEPT ![r] = code]

\* WithinTransaction rolls back and returns the error.
Abort(r, category) == Return(r, mapRepositoryError(category))

\* The DTO validator or Decision.Validate refuse a PATCH; a DELETE has no body.
Reject(r) ==
    /\ pc[r] = "idle" /\ ~Deletes(r)
    /\ Return(r, "INVALID")
    /\ UNCHANGED <<rows, trail, before, tx, after, staged>>

\* Begin and FindByID.  UpdateStatus returns a NotFound error at once;
\* SoftDelete ignores it and goes on with an empty before-snapshot.
FindByID(r) ==
    /\ pc[r] = "idle"
    /\ IF Visible(Current(r))
       THEN before' = [before EXCEPT ![r] = Current(r)]
       ELSE UNCHANGED before
    /\ IF Visible(Current(r)) \/ Deletes(r)
       THEN Goto(r, "update") /\ UNCHANGED answer
       ELSE Abort(r, "NotFound")
    /\ UNCHANGED <<rows, trail, tx, after, staged>>

\* Mutant: the status check is separated from the write.
Update_CheckThenWrite(r) ==
    /\ pc[r] = "update"
    /\ ~Locked(TargetOf[r])
    /\ IF Open(before[r])
       THEN /\ tx' = [tx EXCEPT ![r] = "open"]
            /\ after' = [after EXCEPT ![r] = Updated(before[r], r)]
            /\ Goto(r, "event")
       ELSE /\ Goto(r, "diagnose")
            /\ UNCHANGED <<tx, after>>
    /\ UNCHANGED <<rows, trail, before, staged, answer>>

\* Mutant: a locked row is skipped.
Update_SkipLocked(r) ==
    /\ pc[r] = "update"
    /\ IF Open(Current(r)) /\ ~Locked(TargetOf[r])
       THEN /\ tx' = [tx EXCEPT ![r] = "open"]
            /\ after' = [after EXCEPT ![r] = Updated(Current(r), r)]
            /\ Goto(r, "event")
       ELSE /\ Goto(r, "diagnose")
            /\ UNCHANGED <<tx, after>>
    /\ UNCHANGED <<rows, trail, before, staged, answer>>

\* updateDisbursementStatusQuery, softDeleteDisbursementQuery: an UPDATE whose
\* WHERE clause matches waits for the row lock and tests the new version again.
Update(r) ==
    /\ pc[r] = "update"
    /\ Open(Current(r)) => ~Locked(TargetOf[r])
    /\ IF Open(Current(r))
       THEN /\ tx' = [tx EXCEPT ![r] = "open"]
            /\ after' = [after EXCEPT ![r] = Updated(Current(r), r)]
            /\ Goto(r, "event")
       ELSE /\ Goto(r, "diagnose")
            /\ UNCHANGED <<tx, after>>
    /\ UNCHANGED <<rows, trail, before, staged, answer>>

\* Mutant: deleted_at is not looked at.
diagnoseUpdateStatus_NoDeleted(version) ==
    IF version.status = "ABSENT" THEN "NotFound" ELSE "Conflict"

\* findDisbursementRawByIDQuery: what the zero rows of UpdateStatus mean.
diagnoseUpdateStatus(version) ==
    IF version.status = "ABSENT" \/ version.deletedAt # None THEN "NotFound"
    ELSE "Conflict"

\* What the zero rows of SoftDelete mean; "" is the repeat delete that succeeds.
diagnoseSoftDelete(version) ==
    IF version.status = "ABSENT" THEN "NotFound"
    ELSE IF version.deletedAt # None THEN ""
    ELSE IF version.status # "PENDING" THEN "Constraint"
    ELSE "Conflict"

\* Mutant: a row that is there is tried again.
Diagnose_Retries(r) ==
    /\ pc[r] = "diagnose"
    /\ IF Current(r).status = "ABSENT" THEN Abort(r, "NotFound")
       ELSE Goto(r, "update") /\ UNCHANGED answer
    /\ UNCHANGED <<rows, trail, before, tx, after, staged>>

\* The diagnostic read.  A repeat delete commits its empty transaction, no
\* event staged, and is answered like the first.
Diagnose(r) ==
    /\ pc[r] = "diagnose"
    /\ \/ ~Deletes(r) /\ Abort(r, diagnoseUpdateStatus(Current(r)))
       \/ Deletes(r) /\ diagnoseSoftDelete(Current(r)) # ""
                     /\ Abort(r, diagnoseSoftDelete(Current(r)))
       \/ Deletes(r) /\ diagnoseSoftDelete(Current(r)) = "" /\ Return(r, "NO_CONTENT")
    /\ UNCHANGED <<rows, trail, before, tx, after, staged>>

\* Mutant: both snapshots are taken after the UPDATE.
InsertEvent_LateSnapshot(r) ==
    /\ pc[r] = "event"
    /\ staged' = [staged EXCEPT ![r] = {AuditEvent(r, after[r], after[r])}]
    /\ tx' = [tx EXCEPT ![r] = "committing"]
    /\ Goto(r, "committing")
    /\ UNCHANGED <<rows, trail, before, after, answer>>

\* Mutant: the event is not inserted.
InsertEvent_Skipped(r) ==
    /\ pc[r] = "event"
    /\ tx' = [tx EXCEPT ![r] = "committing"]
    /\ Goto(r, "committing")
    /\ UNCHANGED <<rows, trail, before, after, staged, answer>>

\* NewAuditEvent and AuditOutboxStore.Insert, then COMMIT is sent.
InsertEvent(r) ==
    /\ pc[r] = "event"
    /\ staged' = [staged EXCEPT ![r] = {AuditEvent(r, before[r], after[r])}]
    /\ tx' = [tx EXCEPT ![r] = "committing"]
    /\ Goto(r, "committing")
    /\ UNCHANGED <<rows, trail, before, after, answer>>

\* What a COMMIT makes visible at once.
ApplyWrites(r) ==
    /\ rows' = [rows EXCEPT ![TargetOf[r]] = after[r]]
    /\ trail' = trail \cup staged[r]
    /\ tx' = [tx EXCEPT ![r] = "none"]

CommitSucceeds(r) ==
    /\ pc[r] = "committing"
    /\ ApplyWrites(r)
    /\ Return(r, IF Deletes(r) THEN "NO_CONTENT" ELSE "OK")
    /\ UNCHANGED <<before, after, staged>>

\* The client gets an error for its COMMIT, whatever the server does with it.
CommitFails(r) ==
    /\ pc[r] = "committing"
    /\ Abort(r, "Dependency")
    /\ UNCHANGED <<rows, trail, before, tx, after, staged>>

\* Begin, FindByID or a statement fails (a repeat delete's COMMIT too).  The
\* rollback reaches the server, or the session is left for the server to find
\* out.
StatementFails(r) ==
    /\ pc[r] \in {"idle", "update", "diagnose", "event"}
    /\ Abort(r, "Dependency")
    /\ \/ UNCHANGED tx
       \/ tx[r] # "none" /\ tx' = [tx EXCEPT ![r] = "none"]
    /\ UNCHANGED <<rows, trail, before, after, staged>>

\* The process dies with the request in it; its session stays.
Crash(r) ==
    /\ pc[r] \notin {"idle", "done", "crashed"}
    /\ Goto(r, "crashed")
    /\ UNCHANGED <<rows, trail, before, tx, after, staged, answer>>

-----------------------------------------------------------------------------
(* PostgreSQL, once the client no longer drives the session.               *)

Abandoned(r) == pc[r] \in {"done", "crashed"}

ServerCommit(r) ==
    /\ tx[r] = "committing" /\ Abandoned(r)
    /\ ApplyWrites(r)
    /\ UNCHANGED <<pc, before, after, staged, answer>>

ServerAbort(r) ==
    /\ tx[r] # "none" /\ Abandoned(r)
    /\ tx' = [tx EXCEPT ![r] = "none"]
    /\ UNCHANGED <<rows, trail, pc, before, after, staged, answer>>

-----------------------------------------------------------------------------

Init ==
    /\ rows = [d \in Disbursement |-> InitialVersion(d)]
    /\ trail = {}
    /\ pc = [r \in Request |-> "idle"]
    /\ before = [r \in Request |-> NoDisbursement]
    /\ tx = [r \in Request |-> "none"]
    /\ after = [r \in Request |-> NoDisbursement]
    /\ staged = [r \in Request |-> {}]
    /\ answer = [r \in Request |-> "NONE"]

\* The steps of a request under way that go on, and those that meet an error.
Handle(r) == Update(r) \/ Diagnose(r) \/ InsertEvent(r) \/ CommitSucceeds(r)

Fail(r) == CommitFails(r) \/ StatementFails(r) \/ Crash(r)

Server(r) == ServerCommit(r) \/ ServerAbort(r)

Next == \E r \in Request : Reject(r) \/ FindByID(r) \/ Handle(r) \/ Fail(r) \/ Server(r)

Spec == Init /\ [][Next]_vars

\* A running goroutine goes on, and PostgreSQL resolves every abandoned session.
FairSpec == Spec /\ \A r \in Request : WF_vars(Handle(r)) /\ WF_vars(Server(r))

-----------------------------------------------------------------------------

Label == {"idle", "update", "diagnose", "event", "committing", "done", "crashed"}

\* The variables stay within their types.
TypeOK ==
    /\ rows \in [Disbursement -> Version]
    /\ trail \subseteq Event
    /\ pc \in [Request -> Label]
    /\ before \in [Request -> Version]
    /\ tx \in [Request -> {"none", "open", "committing"}]
    /\ after \in [Request -> Version]
    /\ staged \in [Request -> SUBSET Event]
    /\ answer \in [Request -> Code]

\* A disbursement that was finalized or deleted never changes again: no
\* later request overwrites the finalizer, the status or the deletion.
SettledForever ==
    [][\A d \in Disbursement : ~Open(rows[d]) => rows'[d] = rows[d]]_vars

RowAudited(d) ==
    LET about == {e \in trail : e.entity = d}
    IN  \/ about = {} /\ rows[d] = InitialVersion(d)
        \/ \E r \in Request :
              /\ about = {AuditEvent(r, PendingDisbursement, rows[d])}
              /\ rows[d] = Updated(PendingDisbursement, r)

\* The audit trail tells the whole story of every row: a row without events
\* is as it was created, and a changed row has exactly one event, whose
\* before-snapshot is the version that was replaced, although FindByID read
\* it earlier and on another connection, and whose after-snapshot is the row.
TrailMatchesRows == \A d \in Disbursement : RowAudited(d)

\* The lifecycle's view of a row and of the trail.
SettledBy(version) ==
    IF version.status = "ABSENT" THEN "missing"
    ELSE IF version.deletedAt # None THEN version.deletedAt
    ELSE IF version.decidedBy # None THEN version.decidedBy
    ELSE "pending"

Lifecycle == INSTANCE DisbursementLifecycle WITH
    outcome <- [d \in Disbursement |-> SettledBy(rows[d])],
    audited <- {e.request : e \in trail}

\* UpdateStatus and SoftDelete do what the lifecycle promises: every commit
\* of theirs, acknowledged or not, settles a pending disbursement and audits
\* it in one step, and no other step changes a row or the trail.
ImplementsLifecycle == Lifecycle!LifecycleSpec

Truthful(r) ==
    /\ answer[r] = "OK" => Current(r) = Updated(PendingDisbursement, r)
    /\ answer[r] = "NO_CONTENT" => Current(r).deletedAt # None
    /\ answer[r] = "DISBURSEMENT_NOT_FOUND" =>
          Current(r).status = "ABSENT" \/ Current(r).deletedAt # None
    /\ answer[r] \in {"DISBURSEMENT_ALREADY_FINALIZED", "DISBURSEMENT_NOT_DELETABLE"} =>
          Current(r).status \in {"APPROVED", "REJECTED"}
    /\ (\E e \in trail : e.request = r) => answer[r] \in {"OK", "NO_CONTENT", "INTERNAL"}

\* What the handlers answer is so, and stays so: 200 means the row carries
\* this request's decision, 204 that the row is deleted, each 404, 409 and
\* 400 names a state the row is in for good, and a request that is told of
\* such an error has changed nothing.
AnswersTruthful == \A r \in Request : pc[r] = "done" => Truthful(r)

\* The diagnostic read of the store always finds a reason: a row whose UPDATE
\* matched nothing is never still open, so the "concurrent conflict" returns
\* at the ends of UpdateStatus and SoftDelete are never reached.
DiagnosisConclusive ==
    \A r \in Request : pc[r] = "diagnose" => ~Open(Current(r))

\* Every request under way is answered unless its process dies: no wait for
\* a row lock lasts forever.
Terminates == \A r \in Request : pc[r] = "update" ~> pc[r] \in {"done", "crashed"}

=============================================================================
