------------------------- MODULE Finalization_proofs ------------------------
(***************************************************************************)
(* Proofs about PATCH /disbursements/:id/status and DELETE                 *)
(* /disbursements/:id for any number of requests and disbursements.        *)
(***************************************************************************)
EXTENDS Finalization, TLAPS

-----------------------------------------------------------------------------
(* The inductive invariant.                                                *)

\* The row lock: at most one session per disbursement is past its UPDATE.
RowLockExclusive ==
    \A q, r \in Request :
        tx[q] # "none" /\ tx[r] # "none" /\ TargetOf[q] = TargetOf[r] => q = r

\* What a request has read and written: while its disbursement is open, the
\* before-snapshot is the row, and a session that holds the lock has seen it open.
SessionOK(r) ==
    /\ pc[r] \in {"idle", "update", "diagnose"} => tx[r] = "none"
    /\ pc[r] = "update" /\ Open(Current(r)) => before[r] = PendingDisbursement
    /\ pc[r] = "diagnose" => ~Open(Current(r))
    /\ pc[r] = "event" =>
          /\ tx[r] = "open"
          /\ Current(r) = PendingDisbursement /\ before[r] = PendingDisbursement
          /\ after[r] = Updated(PendingDisbursement, r)
    /\ pc[r] = "committing" => tx[r] = "committing"
    /\ tx[r] = "committing" =>
          /\ Current(r) = PendingDisbursement
          /\ after[r] = Updated(PendingDisbursement, r)
          /\ staged[r] = {AuditEvent(r, PendingDisbursement, after[r])}

\* A request with an event is over, and only one that gave up while its
\* COMMIT may still succeed has yet to get one.
AnswerOK(r) ==
    /\ (\E e \in trail : e.request = r) => pc[r] \in {"done", "crashed"} /\ tx[r] = "none"
    /\ pc[r] = "done" /\ tx[r] = "committing" => answer[r] = "INTERNAL"
    /\ pc[r] = "done" => Truthful(r)

IInv ==
    /\ TypeOK
    /\ RowLockExclusive
    /\ \A r \in Request : SessionOK(r)
    /\ TrailMatchesRows
    /\ \A r \in Request : AnswerOK(r)

-----------------------------------------------------------------------------
(* Lemmas about the operators.                                             *)

\* The answers of the error mapping are among the codes.
LEMMA ErrorCode ==
    ASSUME NEW category
    PROVE  mapRepositoryError(category) \in Code
    BY DEF mapRepositoryError, Code

\* So is the answer of a repeat delete.
LEMMA NoContentCode == "NO_CONTENT" \in Code
    BY DEF Code

\* What the categories of the store are answered with.
LEMMA ErrorAnswer ==
    /\ mapRepositoryError("Dependency") = "INTERNAL"
    /\ mapRepositoryError("NotFound") = "DISBURSEMENT_NOT_FOUND"
    /\ mapRepositoryError("Conflict") = "DISBURSEMENT_ALREADY_FINALIZED"
    /\ mapRepositoryError("Constraint") = "DISBURSEMENT_NOT_DELETABLE"
    BY DEF mapRepositoryError

\* An update of a version is a version.
LEMMA UpdatedType ==
    ASSUME NEW version \in Version, NEW r \in Request
    PROVE  Updated(version, r) \in Version
    BY FinalizationConstants DEF Updated, Version

\* An update settles a pending disbursement: the result is a version, is no
\* longer open, and names the request.
LEMMA UpdateSettles ==
    ASSUME NEW r \in Request
    PROVE  /\ PendingDisbursement \in Version /\ NoDisbursement \in Version
           /\ Open(PendingDisbursement) /\ ~Open(NoDisbursement)
           /\ Updated(PendingDisbursement, r) \in Version
           /\ ~Open(Updated(PendingDisbursement, r))
           /\ SettledBy(PendingDisbursement) = "pending"
           /\ SettledBy(Updated(PendingDisbursement, r)) = r
           /\ Updated(PendingDisbursement, r).status # "ABSENT"
           /\ Deletes(r) => Updated(PendingDisbursement, r).deletedAt # None
    BY FinalizationConstants
       DEF PendingDisbursement, NoDisbursement, Version, Updated, Open, SettledBy, Deletes

\* A row that is open is as it was created.
LEMMA OpenIsPending ==
    ASSUME TrailMatchesRows, NEW d \in Disbursement, Open(rows[d])
    PROVE  rows[d] = PendingDisbursement /\ {e \in trail : e.entity = d} = {} /\ d \in Existing
<1>1. RowAudited(d)
    BY DEF TrailMatchesRows
<1>2. ~\E r \in Request : rows[d] = Updated(PendingDisbursement, r)
    BY UpdateSettles
<1>3. {e \in trail : e.entity = d} = {} /\ rows[d] = InitialVersion(d)
    BY <1>1, <1>2 DEF RowAudited
<1>4. QED
    BY <1>3 DEF InitialVersion, Open, NoDisbursement

\* What a COMMIT makes of the rows and the trail.
LEMMA CommitEffect ==
    ASSUME IInv, NEW r \in Request, tx[r] = "committing", ApplyWrites(r)
    PROVE  /\ Current(r) = PendingDisbursement
           /\ rows' = [rows EXCEPT ![TargetOf[r]] = Updated(PendingDisbursement, r)]
           /\ trail' = trail \cup {AuditEvent(r, PendingDisbursement,
                                              Updated(PendingDisbursement, r))}
           /\ \A d \in Disbursement \ {TargetOf[r]} : rows'[d] = rows[d]
           /\ rows'[TargetOf[r]] = Updated(PendingDisbursement, r)
<1>1. SessionOK(r) /\ TypeOK
    BY DEF IInv
<1>2. /\ Current(r) = PendingDisbursement
      /\ rows' = [rows EXCEPT ![TargetOf[r]] = Updated(PendingDisbursement, r)]
      /\ trail' = trail \cup {AuditEvent(r, PendingDisbursement,
                                         Updated(PendingDisbursement, r))}
    BY <1>1 DEF ApplyWrites, SessionOK
<1>3. rows \in [Disbursement -> Version] /\ TargetOf[r] \in Disbursement
    BY <1>1, FinalizationConstants DEF TypeOK
<1>4. QED
    BY <1>2, <1>3

-----------------------------------------------------------------------------
(* One lemma per conjunct of the inductive invariant, one step per action. *)

\* Every step keeps the variables within their types.
LEMMA TypeStep ==
    ASSUME TypeOK, [Next]_vars
    PROVE  TypeOK'
<1> USE FinalizationConstants
<1>1. CASE UNCHANGED vars
    BY <1>1 DEF vars, TypeOK, Label
<1>2. ASSUME NEW r \in Request, Reject(r) \/ FindByID(r) \/ Handle(r) \/ Fail(r) \/ Server(r)
      PROVE  TypeOK'
  <2>1. CASE Reject(r)
      BY <2>1 DEF Reject, Return, Goto, TypeOK, Label, Code
  <2>2. CASE FindByID(r)
      BY <2>2, ErrorCode DEF FindByID, Goto, Abort, Return, TypeOK, Label, Current
  <2>3. CASE Update(r)
    <3>1. Updated(Current(r), r) \in Version
        BY UpdatedType DEF Current, TypeOK
    <3>2. QED
        BY <2>3, <3>1 DEF Update, Goto, TypeOK, Label
  <2>4. CASE Diagnose(r)
    <3>1. "NO_CONTENT" \in Code
        BY DEF Code
    <3>2. PICK code \in Code : Return(r, code)
        BY <2>4, <3>1, ErrorCode DEF Diagnose, Abort
    <3>3. QED
        BY <2>4, <3>2 DEF Diagnose, Return, Goto, TypeOK, Label
  <2>5. CASE InsertEvent(r)
      BY <2>5 DEF InsertEvent, Goto, TypeOK, Label, Event, AuditEvent
  <2>6. CASE CommitSucceeds(r)
      BY <2>6 DEF CommitSucceeds, ApplyWrites, Return, Goto, TypeOK, Label, Code
  <2>7. CASE CommitFails(r)
      BY <2>7, ErrorCode DEF CommitFails, Abort, Return, Goto, TypeOK, Label
  <2>8. CASE StatementFails(r)
      BY <2>8, ErrorCode DEF StatementFails, Abort, Return, Goto, TypeOK, Label
  <2>9. CASE Crash(r)
      BY <2>9 DEF Crash, Goto, TypeOK, Label
  <2>10. CASE ServerCommit(r)
      BY <2>10 DEF ServerCommit, ApplyWrites, Abandoned, TypeOK, Label
  <2>11. CASE ServerAbort(r)
      BY <2>11 DEF ServerAbort, Abandoned, TypeOK, Label
  <2>12. QED
      BY <1>2, <2>1, <2>2, <2>3, <2>4, <2>5, <2>6, <2>7, <2>8, <2>9, <2>10, <2>11 DEF
         Handle, Fail, Server
<1>3. QED
    BY <1>1, <1>2 DEF Next

\* The row lock stays exclusive.
LEMMA LockStep ==
    ASSUME IInv, [Next]_vars
    PROVE  RowLockExclusive'
<1> USE FinalizationConstants DEF IInv
<1>1. CASE UNCHANGED vars
    BY <1>1 DEF vars, RowLockExclusive, TypeOK
<1>2. ASSUME NEW r \in Request, Reject(r) \/ FindByID(r) \/ Handle(r) \/ Fail(r) \/ Server(r)
      PROVE  RowLockExclusive'
  <2>1. CASE Reject(r)
      BY <2>1 DEF Reject, Return, Goto, RowLockExclusive, TypeOK, SessionOK, Locked
  <2>2. CASE FindByID(r)
      BY <2>2 DEF FindByID, Goto, Abort, Return, RowLockExclusive, TypeOK, SessionOK, Locked
  <2>3. CASE Update(r)
    <3>1. CASE Open(Current(r))
        BY <2>3, <3>1 DEF Update, Locked, RowLockExclusive, TypeOK
    <3>2. CASE ~Open(Current(r))
        BY <2>3, <3>2 DEF Update, RowLockExclusive
    <3>3. QED
        BY <3>1, <3>2
  <2>4. CASE Diagnose(r)
      BY <2>4 DEF Diagnose, Abort, Return, Goto, RowLockExclusive, TypeOK, SessionOK, Locked
  <2>5. CASE InsertEvent(r)
      BY <2>5 DEF InsertEvent, Goto, RowLockExclusive, TypeOK, SessionOK, Locked
  <2>6. CASE CommitSucceeds(r)
      BY <2>6 DEF CommitSucceeds, ApplyWrites, Return, Goto, RowLockExclusive, TypeOK,
         SessionOK, Locked
  <2>7. CASE CommitFails(r)
      BY <2>7 DEF CommitFails, Abort, Return, Goto, RowLockExclusive, TypeOK, SessionOK,
         Locked
  <2>8. CASE StatementFails(r)
      BY <2>8 DEF StatementFails, Abort, Return, Goto, RowLockExclusive, TypeOK, SessionOK,
         Locked
  <2>9. CASE Crash(r)
      BY <2>9 DEF Crash, Goto, RowLockExclusive, TypeOK, SessionOK, Locked
  <2>10. CASE ServerCommit(r)
      BY <2>10 DEF ServerCommit, ApplyWrites, Abandoned, RowLockExclusive, TypeOK, SessionOK,
         Locked
  <2>11. CASE ServerAbort(r)
      BY <2>11 DEF ServerAbort, Abandoned, RowLockExclusive, TypeOK, SessionOK, Locked
  <2>12. QED
      BY <1>2, <2>1, <2>2, <2>3, <2>4, <2>5, <2>6, <2>7, <2>8, <2>9, <2>10, <2>11 DEF
         Handle, Fail, Server
<1>3. QED
    BY <1>1, <1>2 DEF Next

\* A step of one request leaves what another's session relies on.
LEMMA SessionStep ==
    ASSUME IInv, [Next]_vars, NEW q \in Request
    PROVE  SessionOK(q)'
<1> USE FinalizationConstants DEF IInv
<1>1. CASE UNCHANGED vars
    BY <1>1 DEF vars, SessionOK, TypeOK, Current
<1>2. ASSUME NEW r \in Request, Reject(r) \/ FindByID(r) \/ Handle(r) \/ Fail(r) \/ Server(r)
      PROVE  SessionOK(q)'
  <2>1. CASE Reject(r)
      BY <2>1 DEF Reject, Return, Goto, SessionOK, TypeOK, Current
  <2>2. CASE FindByID(r)
    <3>1. TargetOf[r] \in Disbursement /\ TrailMatchesRows
        OBVIOUS
    <3>2. Open(Current(r)) => Visible(Current(r)) /\ Current(r) = PendingDisbursement
        BY <3>1, OpenIsPending DEF Open, Visible, Current
    <3>3. QED
        BY <2>2, <3>2 DEF FindByID, Goto, Abort, Return, SessionOK, TypeOK, Current
  <2>3. CASE Update(r)
    <3>1. TargetOf[r] \in Disbursement /\ TrailMatchesRows
        OBVIOUS
    <3>2. Open(Current(r)) => Current(r) = PendingDisbursement
        BY <3>1, OpenIsPending DEF Current
    <3>3. QED
        BY <2>3, <3>2 DEF Update, Goto, SessionOK, TypeOK, Current
  <2>4. CASE Diagnose(r)
      BY <2>4 DEF Diagnose, Abort, Return, Goto, SessionOK, TypeOK, Current
  <2>5. CASE InsertEvent(r)
      BY <2>5 DEF InsertEvent, Goto, SessionOK, TypeOK, Current
  <2>6. CASE CommitSucceeds(r)
    <3>1. tx[r] = "committing" /\ ApplyWrites(r)
        BY <2>6 DEF CommitSucceeds, SessionOK
    <3>2. CASE q = r
        BY <2>6, <3>1, <3>2 DEF CommitSucceeds, SessionOK, ApplyWrites, TypeOK, Return, Goto
    <3>3. CASE q # r
      <4>1. /\ pc'[q] = pc[q] /\ tx'[q] = tx[q] /\ before'[q] = before[q]
            /\ after'[q] = after[q] /\ staged'[q] = staged[q]
          BY <2>6, <3>3 DEF CommitSucceeds, ApplyWrites, TypeOK, Return, Goto
      <4>2. tx[q] # "none" => TargetOf[q] # TargetOf[r]
          BY <3>1, <3>3 DEF RowLockExclusive
      <4>3. /\ TargetOf[q] # TargetOf[r] => Current(q)' = Current(q)
            /\ TargetOf[q] = TargetOf[r] => ~Open(Current(q)')
          BY <3>1, CommitEffect, UpdateSettles DEF Current
      <4>4. QED
          BY <4>1, <4>2, <4>3 DEF SessionOK
    <3>4. QED
        BY <3>2, <3>3
  <2>7. CASE CommitFails(r)
      BY <2>7 DEF CommitFails, Abort, Return, Goto, SessionOK, TypeOK, Current
  <2>8. CASE StatementFails(r)
      BY <2>8 DEF StatementFails, Abort, Return, Goto, SessionOK, TypeOK, Current
  <2>9. CASE Crash(r)
      BY <2>9 DEF Crash, Goto, SessionOK, TypeOK, Current
  <2>10. CASE ServerCommit(r)
    <3>1. tx[r] = "committing" /\ ApplyWrites(r)
        BY <2>10 DEF ServerCommit, SessionOK
    <3>2. CASE q = r
        BY <2>10, <3>1, <3>2 DEF ServerCommit, SessionOK, ApplyWrites, TypeOK, Abandoned
    <3>3. CASE q # r
      <4>1. /\ pc'[q] = pc[q] /\ tx'[q] = tx[q] /\ before'[q] = before[q]
            /\ after'[q] = after[q] /\ staged'[q] = staged[q]
          BY <2>10, <3>3 DEF ServerCommit, ApplyWrites, TypeOK
      <4>2. tx[q] # "none" => TargetOf[q] # TargetOf[r]
          BY <3>1, <3>3 DEF RowLockExclusive
      <4>3. /\ TargetOf[q] # TargetOf[r] => Current(q)' = Current(q)
            /\ TargetOf[q] = TargetOf[r] => ~Open(Current(q)')
          BY <3>1, CommitEffect, UpdateSettles DEF Current
      <4>4. QED
          BY <4>1, <4>2, <4>3 DEF SessionOK
    <3>4. QED
        BY <3>2, <3>3
  <2>11. CASE ServerAbort(r)
      BY <2>11 DEF ServerAbort, Abandoned, SessionOK, TypeOK, Current
  <2>12. QED
      BY <1>2, <2>1, <2>2, <2>3, <2>4, <2>5, <2>6, <2>7, <2>8, <2>9, <2>10, <2>11 DEF
         Handle, Fail, Server
<1>3. QED
    BY <1>1, <1>2 DEF Next

\* A COMMIT adds one event about its own disbursement, which had none.
LEMMA CommitKeepsTrail ==
    ASSUME IInv, NEW r \in Request, tx[r] = "committing", ApplyWrites(r)
    PROVE  TrailMatchesRows'
<1> DEFINE new == AuditEvent(r, PendingDisbursement, Updated(PendingDisbursement, r))
<1>1. TargetOf[r] \in Disbursement /\ TrailMatchesRows
    BY FinalizationConstants DEF IInv
<1>2. /\ Current(r) = PendingDisbursement
      /\ trail' = trail \cup {new}
      /\ \A d \in Disbursement \ {TargetOf[r]} : rows'[d] = rows[d]
      /\ rows'[TargetOf[r]] = Updated(PendingDisbursement, r)
    BY CommitEffect
<1>3. new.entity = TargetOf[r]
    BY DEF AuditEvent
<1>4. SUFFICES ASSUME NEW d \in Disbursement PROVE RowAudited(d)'
    BY DEF TrailMatchesRows
<1>5. CASE d = TargetOf[r]
  <2>1. {e \in trail : e.entity = d} = {}
    BY <1>1, <1>2, <1>5, OpenIsPending, UpdateSettles DEF Current
  <2>2. {e \in trail' : e.entity = d} = {new}
    BY <1>2, <1>3, <1>5, <2>1
  <2>3. QED
    BY <1>2, <1>5, <2>2 DEF RowAudited
<1>6. CASE d # TargetOf[r]
  <2>1. {e \in trail' : e.entity = d} = {e \in trail : e.entity = d}
    BY <1>2, <1>3, <1>6
  <2>2. rows'[d] = rows[d] /\ RowAudited(d)
    BY <1>1, <1>2, <1>6 DEF TrailMatchesRows
  <2>3. QED
    BY <2>1, <2>2 DEF RowAudited
<1>7. QED
    BY <1>5, <1>6

\* The trail keeps telling the story of every row.
LEMMA TrailStep ==
    ASSUME IInv, [Next]_vars
    PROVE  TrailMatchesRows'
<1> USE FinalizationConstants DEF IInv
<1>1. CASE UNCHANGED vars
    BY <1>1 DEF vars, TrailMatchesRows, RowAudited
<1>2. ASSUME NEW r \in Request, Reject(r) \/ FindByID(r) \/ Handle(r) \/ Fail(r) \/ Server(r)
      PROVE  TrailMatchesRows'
  <2>1. CASE Reject(r)
      BY <2>1 DEF Reject, Return, Goto, TrailMatchesRows, RowAudited
  <2>2. CASE FindByID(r)
      BY <2>2 DEF FindByID, Goto, Abort, Return, TrailMatchesRows, RowAudited
  <2>3. CASE Update(r)
      BY <2>3 DEF Update, Goto, TrailMatchesRows, RowAudited
  <2>4. CASE Diagnose(r)
      BY <2>4 DEF Diagnose, Abort, Return, Goto, TrailMatchesRows, RowAudited
  <2>5. CASE InsertEvent(r)
      BY <2>5 DEF InsertEvent, Goto, TrailMatchesRows, RowAudited
  <2>6. CASE CommitSucceeds(r)
    <3>1. tx[r] = "committing" /\ ApplyWrites(r)
        BY <2>6 DEF CommitSucceeds, SessionOK
    <3>2. QED
        BY <3>1, CommitKeepsTrail
  <2>7. CASE CommitFails(r)
      BY <2>7 DEF CommitFails, Abort, Return, Goto, TrailMatchesRows, RowAudited
  <2>8. CASE StatementFails(r)
      BY <2>8 DEF StatementFails, Abort, Return, Goto, TrailMatchesRows, RowAudited
  <2>9. CASE Crash(r)
      BY <2>9 DEF Crash, Goto, TrailMatchesRows, RowAudited
  <2>10. CASE ServerCommit(r)
    <3>1. tx[r] = "committing" /\ ApplyWrites(r)
        BY <2>10 DEF ServerCommit, SessionOK
    <3>2. QED
        BY <3>1, CommitKeepsTrail
  <2>11. CASE ServerAbort(r)
      BY <2>11 DEF ServerAbort, Abandoned, TrailMatchesRows, RowAudited
  <2>12. QED
      BY <1>2, <2>1, <2>2, <2>3, <2>4, <2>5, <2>6, <2>7, <2>8, <2>9, <2>10, <2>11 DEF
         Handle, Fail, Server
<1>3. QED
    BY <1>1, <1>2 DEF Next

\* A row that is not open keeps every answer about it true, and a COMMIT
\* changes no row that is not open.
LEMMA CommitKeepsAnswers ==
    ASSUME IInv, NEW r \in Request, tx[r] = "committing", ApplyWrites(r),
           NEW q \in Request \ {r}, answer'[q] = answer[q], Truthful(q)
    PROVE  Truthful(q)'
<1>1. TargetOf[q] \in Disbursement /\ TargetOf[r] \in Disbursement
    BY FinalizationConstants
<1>2. TargetOf[q] # TargetOf[r] => Current(q)' = Current(q)
    BY <1>1, CommitEffect DEF Current
<1>3. TargetOf[q] = TargetOf[r] => Current(q) = PendingDisbursement
    BY CommitEffect DEF Current
<1>4. (\E e \in trail' : e.request = q) => \E e \in trail : e.request = q
    BY CommitEffect DEF AuditEvent
<1>5. CASE TargetOf[q] # TargetOf[r]
    BY <1>2, <1>4, <1>5 DEF Truthful
<1>6. CASE TargetOf[q] = TargetOf[r]
  <2>1. PendingDisbursement # Updated(PendingDisbursement, q)
    BY UpdateSettles
  <2>2. answer[q] \notin {"OK", "NO_CONTENT", "DISBURSEMENT_NOT_FOUND",
                          "DISBURSEMENT_ALREADY_FINALIZED", "DISBURSEMENT_NOT_DELETABLE"}
    BY <1>3, <1>6, <2>1 DEF Truthful, PendingDisbursement
  <2>3. QED
    BY <1>4, <2>2 DEF Truthful
<1>7. QED
    BY <1>5, <1>6

\* Answers stay truthful.
LEMMA AnswerStep ==
    ASSUME IInv, [Next]_vars, NEW q \in Request
    PROVE  AnswerOK(q)'
<1> USE FinalizationConstants DEF IInv
<1>1. CASE UNCHANGED vars
    BY <1>1 DEF vars, AnswerOK, Truthful, Current, TypeOK
<1>2. ASSUME NEW r \in Request, Reject(r) \/ FindByID(r) \/ Handle(r) \/ Fail(r) \/ Server(r)
      PROVE  AnswerOK(q)'
  <2>1. CASE Reject(r)
      BY <2>1 DEF Reject, Return, Goto, AnswerOK, Truthful, Current, TypeOK, SessionOK
  <2>2. CASE FindByID(r)
    <3>1. CASE q # r
        BY <2>2, <3>1 DEF FindByID, Goto, Abort, Return, AnswerOK, Truthful, Current, TypeOK
    <3>2. CASE q = r
      <4>1. tx'[r] = "none" /\ ~(\E e \in trail' : e.request = r)
          BY <2>2 DEF FindByID, SessionOK, AnswerOK
      <4>2. pc'[r] = "done" => /\ answer'[r] = "DISBURSEMENT_NOT_FOUND"
                               /\ ~Visible(Current(r)) /\ rows' = rows
          BY <2>2, ErrorAnswer DEF FindByID, Goto, Abort, Return, TypeOK
      <4>3. QED
          BY <3>2, <4>1, <4>2 DEF AnswerOK, Truthful, Visible, Current
    <3>3. QED
        BY <3>1, <3>2
  <2>3. CASE Update(r)
      BY <2>3 DEF Update, Goto, AnswerOK, Truthful, Current, TypeOK, SessionOK
  <2>4. CASE Diagnose(r)
    <3>1. CASE q # r
      <4>1. PICK code \in Code : Return(r, code)
          BY <2>4, ErrorCode, NoContentCode DEF Diagnose, Abort
      <4>2. /\ pc'[q] = pc[q] /\ tx' = tx /\ answer'[q] = answer[q]
            /\ rows' = rows /\ trail' = trail
          BY <2>4, <3>1, <4>1 DEF Diagnose, Return, Goto, TypeOK
      <4>3. QED
          BY <4>2 DEF AnswerOK, Truthful, Current
    <3>2. CASE q = r
      <4>1. tx'[r] = "none" /\ ~(\E e \in trail' : e.request = r) /\ rows' = rows
          BY <2>4 DEF Diagnose, SessionOK, AnswerOK
      <4>2. ~Open(Current(r)) /\ Current(r) \in Version
          BY <2>4 DEF Diagnose, SessionOK, Current, TypeOK
      <4>3. CASE Deletes(r)
        <5>1. answer'[r] = IF diagnoseSoftDelete(Current(r)) = "" THEN "NO_CONTENT"
                           ELSE mapRepositoryError(diagnoseSoftDelete(Current(r)))
            BY <2>4, <4>3 DEF Diagnose, Abort, Return, TypeOK
        <5>2. \/ answer'[r] = "NO_CONTENT" /\ Current(r).deletedAt # None
              \/ answer'[r] = "DISBURSEMENT_NOT_FOUND" /\ Current(r).status = "ABSENT"
              \/ /\ answer'[r] = "DISBURSEMENT_NOT_DELETABLE"
                 /\ Current(r).status \in {"APPROVED", "REJECTED"}
            BY <4>2, <5>1, ErrorAnswer DEF diagnoseSoftDelete, Open, Version
        <5>3. QED
            BY <3>2, <4>1, <5>2 DEF AnswerOK, Truthful, Current
      <4>4. CASE ~Deletes(r)
        <5>1. answer'[r] = mapRepositoryError(diagnoseUpdateStatus(Current(r)))
            BY <2>4, <4>4 DEF Diagnose, Abort, Return, TypeOK
        <5>2. \/ /\ answer'[r] = "DISBURSEMENT_NOT_FOUND"
                 /\ Current(r).status = "ABSENT" \/ Current(r).deletedAt # None
              \/ /\ answer'[r] = "DISBURSEMENT_ALREADY_FINALIZED"
                 /\ Current(r).status \in {"APPROVED", "REJECTED"}
            BY <4>2, <5>1, ErrorAnswer DEF diagnoseUpdateStatus, Open, Version
        <5>3. QED
            BY <3>2, <4>1, <5>2 DEF AnswerOK, Truthful, Current
      <4>5. QED
          BY <4>3, <4>4
    <3>3. QED
        BY <3>1, <3>2
  <2>5. CASE InsertEvent(r)
      BY <2>5 DEF InsertEvent, Goto, AnswerOK, Truthful, Current, TypeOK, SessionOK
  <2>6. CASE CommitSucceeds(r)
    <3>1. tx[r] = "committing" /\ ApplyWrites(r)
        BY <2>6 DEF CommitSucceeds, SessionOK
    <3>2. CASE q # r
      <4>1. pc'[q] = pc[q] /\ tx'[q] = tx[q] /\ answer'[q] = answer[q]
          BY <2>6, <3>2 DEF CommitSucceeds, ApplyWrites, Return, Goto, TypeOK
      <4>2. (\E e \in trail' : e.request = q) => \E e \in trail : e.request = q
          BY <3>1, <3>2, CommitEffect DEF AuditEvent
      <4>3. QED
          BY <3>1, <3>2, <4>1, <4>2, CommitKeepsAnswers DEF AnswerOK
    <3>3. CASE q = r
      <4>1. /\ pc'[r] = "done" /\ tx'[r] = "none"
            /\ answer'[r] = IF Deletes(r) THEN "NO_CONTENT" ELSE "OK"
          BY <2>6 DEF CommitSucceeds, ApplyWrites, Return, Goto, TypeOK
      <4>2. Current(r)' = Updated(PendingDisbursement, r)
          BY <3>1, CommitEffect DEF Current
      <4>3. Deletes(r) => Current(r)'.deletedAt # None
          BY <4>2, UpdateSettles
      <4>4. QED
          BY <3>3, <4>1, <4>2, <4>3 DEF AnswerOK, Truthful
    <3>4. QED
        BY <3>2, <3>3
  <2>7. CASE CommitFails(r)
      BY <2>7, ErrorAnswer DEF CommitFails, Abort, Return, Goto, AnswerOK, Truthful, Current,
         TypeOK, SessionOK
  <2>8. CASE StatementFails(r)
      BY <2>8, ErrorAnswer DEF StatementFails, Abort, Return, Goto, AnswerOK, Truthful,
         Current, TypeOK, SessionOK
  <2>9. CASE Crash(r)
      BY <2>9 DEF Crash, Goto, AnswerOK, Truthful, Current, TypeOK, SessionOK
  <2>10. CASE ServerCommit(r)
    <3>1. tx[r] = "committing" /\ ApplyWrites(r)
        BY <2>10 DEF ServerCommit
    <3>2. pc' = pc /\ answer' = answer
        BY <2>10 DEF ServerCommit
    <3>3. CASE q # r
      <4>1. tx'[q] = tx[q]
          BY <3>1, <3>3 DEF ApplyWrites, TypeOK
      <4>2. (\E e \in trail' : e.request = q) => \E e \in trail : e.request = q
          BY <3>1, <3>3, CommitEffect DEF AuditEvent
      <4>3. QED
          BY <3>1, <3>2, <3>3, <4>1, <4>2, CommitKeepsAnswers DEF AnswerOK
    <3>4. CASE q = r
      <4>1. pc[r] \in {"done", "crashed"} /\ tx'[r] = "none"
          BY <2>10 DEF ServerCommit, Abandoned, ApplyWrites, TypeOK
      <4>2. pc[r] = "done" => answer[r] = "INTERNAL"
          BY <3>1 DEF AnswerOK
      <4>3. QED
          BY <3>2, <3>4, <4>1, <4>2 DEF AnswerOK, Truthful
    <3>5. QED
        BY <3>3, <3>4
  <2>11. CASE ServerAbort(r)
      BY <2>11 DEF ServerAbort, Abandoned, AnswerOK, Truthful, Current, TypeOK, SessionOK
  <2>12. QED
      BY <1>2, <2>1, <2>2, <2>3, <2>4, <2>5, <2>6, <2>7, <2>8, <2>9, <2>10, <2>11 DEF
         Handle, Fail, Server
<1>3. QED
    BY <1>1, <1>2 DEF Next

-----------------------------------------------------------------------------
(* The theorems.                                                           *)

\* The inductive invariant holds at the start, when no request has acted.
LEMMA InitIInv == Init => IInv
<1> SUFFICES ASSUME Init PROVE IInv
    OBVIOUS
<1>1. NoDisbursement \in Version /\ PendingDisbursement \in Version
    BY DEF NoDisbursement, PendingDisbursement, Version
<1>2. TypeOK
    BY <1>1 DEF Init, TypeOK, InitialVersion, Label, Code
<1>3. RowLockExclusive /\ \A r \in Request : SessionOK(r)
    BY DEF Init, RowLockExclusive, SessionOK
<1>4. TrailMatchesRows
    BY DEF Init, TrailMatchesRows, RowAudited
<1>5. \A r \in Request : AnswerOK(r)
    BY DEF Init, AnswerOK
<1>6. QED
    BY <1>2, <1>3, <1>4, <1>5 DEF IInv

\* Every step of a request or of the server preserves it.
LEMMA NextIInv == IInv /\ [Next]_vars => IInv'
<1> SUFFICES ASSUME IInv, [Next]_vars PROVE IInv'
    OBVIOUS
<1>1. TypeOK'
    BY TypeStep DEF IInv
<1>2. RowLockExclusive' /\ TrailMatchesRows'
    BY LockStep, TrailStep
<1>3. \A q \in Request : SessionOK(q)'
    BY SessionStep
<1>4. \A q \in Request : AnswerOK(q)'
    BY AnswerStep
<1>5. QED
    BY <1>1, <1>2, <1>3, <1>4 DEF IInv

\* UpdateStatus and SoftDelete never leave the inductive invariant.
LEMMA Invariance == Spec => []IInv
    BY InitIInv, NextIInv, PTL DEF Spec

\* The variables of UpdateStatus and SoftDelete stay within their types.
THEOREM TypeCorrect == Spec => []TypeOK
<1>1. IInv => TypeOK
    BY DEF IInv
<1>2. QED
    BY <1>1, Invariance, PTL

\* Every row that UpdateStatus or SoftDelete changed has exactly one audit
\* event, with the version that was replaced and the version that replaced it.
THEOREM TrailIsComplete == Spec => []TrailMatchesRows
<1>1. IInv => TrailMatchesRows
    BY DEF IInv
<1>2. QED
    BY <1>1, Invariance, PTL

\* The answers of both handlers are true when given and stay true.
THEOREM AnswersAreTruthful == Spec => []AnswersTruthful
<1>1. IInv => AnswersTruthful
    BY DEF IInv, AnswerOK, AnswersTruthful
<1>2. QED
    BY <1>1, Invariance, PTL

\* The diagnostic read after an UPDATE without rows always finds a reason.
THEOREM DiagnosisIsConclusive == Spec => []DiagnosisConclusive
<1>1. IInv => DiagnosisConclusive
    BY DEF IInv, SessionOK, DiagnosisConclusive
<1>2. QED
    BY <1>1, Invariance, PTL

\* A step of the system is the COMMIT of one request or leaves the rows and
\* the trail alone.
LEMMA CommitOrNot ==
    ASSUME IInv, [Next]_vars
    PROVE  \/ rows' = rows /\ trail' = trail
           \/ \E r \in Request : tx[r] = "committing" /\ ApplyWrites(r)
<1>1. CASE UNCHANGED vars
    BY <1>1 DEF vars
<1>2. ASSUME NEW r \in Request,
             Reject(r) \/ FindByID(r) \/ Handle(r) \/ Fail(r) \/ Server(r)
      PROVE  \/ rows' = rows /\ trail' = trail
             \/ tx[r] = "committing" /\ ApplyWrites(r)
  <2>1. CASE CommitSucceeds(r)
      BY <2>1 DEF CommitSucceeds, IInv, SessionOK
  <2>2. CASE ServerCommit(r)
      BY <2>2 DEF ServerCommit
  <2>3. CASE Reject(r)
      BY <2>3 DEF Reject
  <2>4. CASE FindByID(r)
      BY <2>4 DEF FindByID
  <2>5. CASE Update(r)
      BY <2>5 DEF Update
  <2>6. CASE Diagnose(r)
      BY <2>6 DEF Diagnose
  <2>7. CASE InsertEvent(r)
      BY <2>7 DEF InsertEvent
  <2>8. CASE CommitFails(r)
      BY <2>8 DEF CommitFails
  <2>9. CASE StatementFails(r)
      BY <2>9 DEF StatementFails
  <2>10. CASE Crash(r)
      BY <2>10 DEF Crash
  <2>11. CASE ServerAbort(r)
      BY <2>11 DEF ServerAbort
  <2>12. QED
      BY <1>2, <2>1, <2>2, <2>3, <2>4, <2>5, <2>6, <2>7, <2>8, <2>9, <2>10, <2>11
         DEF Handle, Fail, Server
<1>3. QED
    BY <1>1, <1>2 DEF Next

\* No request overwrites a finalized or deleted disbursement.
THEOREM SettledIsForever == Spec => SettledForever
<1>1. ASSUME IInv, [Next]_vars
      PROVE  [\A d \in Disbursement : ~Open(rows[d]) => rows'[d] = rows[d]]_vars
  <2>1. CASE rows' = rows /\ trail' = trail
      BY <2>1
  <2>2. ASSUME NEW r \in Request, tx[r] = "committing", ApplyWrites(r)
        PROVE  \A d \in Disbursement : ~Open(rows[d]) => rows'[d] = rows[d]
      BY <1>1, <2>2, CommitEffect, UpdateSettles DEF Current
  <2>3. QED
      BY <1>1, <2>1, <2>2, CommitOrNot
<1>2. QED
    BY <1>1, Invariance, PTL DEF Spec, SettledForever

\* Under the refinement mapping every COMMIT of UpdateStatus or SoftDelete is
\* one Settle step of the lifecycle.
LEMMA CommitSettles ==
    ASSUME IInv, NEW r \in Request, tx[r] = "committing", ApplyWrites(r)
    PROVE  Lifecycle!Settle(r)
<1>1. /\ Current(r) = PendingDisbursement
      /\ trail' = trail \cup {AuditEvent(r, PendingDisbursement,
                                         Updated(PendingDisbursement, r))}
      /\ \A d \in Disbursement \ {TargetOf[r]} : rows'[d] = rows[d]
      /\ rows'[TargetOf[r]] = Updated(PendingDisbursement, r)
    BY CommitEffect
<1>2. TargetOf[r] \in Disbursement
    BY FinalizationConstants
<1>3. /\ SettledBy(PendingDisbursement) = "pending"
      /\ SettledBy(Updated(PendingDisbursement, r)) = r
    BY UpdateSettles
<1>4. [d \in Disbursement |-> SettledBy(rows[d])][TargetOf[r]] = "pending"
    BY <1>1, <1>2, <1>3 DEF Current
<1>5. [d \in Disbursement |-> SettledBy(rows'[d])]
      = [[d \in Disbursement |-> SettledBy(rows[d])] EXCEPT ![TargetOf[r]] = r]
    BY <1>1, <1>2, <1>3
<1>6. {e.request : e \in trail'} = {e.request : e \in trail} \cup {r}
  <2> DEFINE new == AuditEvent(r, PendingDisbursement, Updated(PendingDisbursement, r))
  <2>1. trail' = trail \cup {new} /\ new.request = r
      BY <1>1 DEF AuditEvent
  <2> HIDE DEF new
  <2>2. QED
      BY <2>1
<1>7. QED
    BY <1>4, <1>5, <1>6 DEF Lifecycle!Settle

\* UpdateStatus and SoftDelete implement the lifecycle: the initial rows map
\* to its initial state, and every step to a Settle or a stutter.
THEOREM FinalizationImplementsLifecycle == Spec => ImplementsLifecycle
<1>1. Init => Lifecycle!LifecycleInit
  <2> SUFFICES ASSUME Init PROVE Lifecycle!LifecycleInit
      OBVIOUS
  <2>1. SettledBy(PendingDisbursement) = "pending" /\ SettledBy(NoDisbursement) = "missing"
      BY DEF SettledBy, PendingDisbursement, NoDisbursement
  <2>2. [d \in Disbursement |-> SettledBy(rows[d])]
        = [d \in Disbursement |-> IF d \in Existing THEN "pending" ELSE "missing"]
      BY <2>1 DEF Init, InitialVersion
  <2>3. {e.request : e \in trail} = {}
      BY DEF Init
  <2>4. QED
      BY <2>2, <2>3 DEF Lifecycle!LifecycleInit
<1>2. ASSUME IInv, [Next]_vars
      PROVE  [\E r \in Request : Lifecycle!Settle(r)]_<<[d \in Disbursement |-> SettledBy(rows[d])],
                                                        {e.request : e \in trail}>>
  <2>1. CASE rows' = rows /\ trail' = trail
      BY <2>1
  <2>2. CASE \E r \in Request : tx[r] = "committing" /\ ApplyWrites(r)
      BY <1>2, <2>2, CommitSettles
  <2>3. QED
      BY <1>2, <2>1, <2>2, CommitOrNot
<1>3. QED
    BY <1>1, <1>2, Invariance, PTL DEF Spec, ImplementsLifecycle, Lifecycle!LifecycleSpec

=============================================================================
