----------------------------- MODULE AuditRelay -----------------------------
(***************************************************************************)
(* The audit relay: RelayService.ProcessBatch and Cleanup of several API   *)
(* instances over audit_outbox (AuditOutboxStore) and audit_logs           *)
(* (AuditProjectionStore).                                                 *)
(*                                                                         *)
(* Time is relative, so that behaviours go on forever: wait[e] is how long *)
(* until available_at of e has come (0 once it has), age[e] how long ago   *)
(* delivered_at was, up to just beyond the retention.  ahead is the order  *)
(* of the due events by available_at, ties by occurred_at, which decides   *)
(* whom LIMIT leaves out.  An event is its rank by occurred_at.            *)
(***************************************************************************)
EXTENDS Naturals, FiniteSets

CONSTANTS
    N,              \* number of audit events
    Relay,          \* API instances, each with one worker
    BatchSize,      \* AUDIT_OUTBOX_BATCH_SIZE
    Lease,          \* leaseDuration of the outbox store
    Backoff,        \* the 5 seconds of ProcessBatch
    Retention,      \* AUDIT_OUTBOX_RETENTION
    MaxAttempts     \* where delivery_attempts stops counting

Event == 1..N

ASSUME RelayConfiguration ==
    /\ N \in Nat
    /\ {BatchSize, Lease, Backoff, Retention} \subseteq Nat \ {0}
    /\ MaxAttempts \in Nat

VARIABLES
    state,      \* "UNWRITTEN", delivery_state, or "PRUNED" once the row is deleted
    wait,       \* available_at - now, 0 if past
    age,        \* now - delivered_at
    attempts,   \* delivery_attempts
    ahead,      \* the pairs <<e, f>> of due events with e before f
    logs,       \* audit_logs: rows per source_event_id
    pc,         \* where each worker is in ProcessBatch
    batch,      \* the events it has fetched and not finished
    current     \* the event it is working on, 0 for none

vars == <<state, wait, age, attempts, ahead, logs, pc, batch, current>>

-----------------------------------------------------------------------------

\* The pending events whose available_at has come.
Due == {e \in Event : state[e] = "PENDING" /\ wait[e] = 0}

\* The order without the events that are no longer due.
Without(events) == {p \in ahead : p[1] \notin events /\ p[2] \notin events}

\* The order with events that become due: behind the others, by occurred_at.
Joined(events) ==
    ahead \cup (Due \X events) \cup {p \in events \X events : p[1] < p[2]}

\* The subquery of fetchPendingOutboxEvents: the first BatchSize events due.
Fetchable == {e \in Due : Cardinality({f \in Due : <<f, e>> \in ahead}) < BatchSize}

Attempted(e) == IF attempts[e] < MaxAttempts THEN attempts[e] + 1 ELSE attempts[e]

-----------------------------------------------------------------------------
(* The services' side.                                                     *)

\* The order with e behind the events of first and before the others.
InsertedAfter(first, e) == ahead \cup (first \X {e}) \cup ({e} \X (Due \ first))

\* A transaction of Create, UpdateStatus or SoftDelete commits its event.
\* available_at defaults to now(), the start of the transaction, so other events
\* may have become due between it and the commit: e comes after the events of
\* some beginning of the row.
Commit(e) ==
    /\ state[e] = "UNWRITTEN"
    /\ state' = [state EXCEPT ![e] = "PENDING"]
    /\ \E first \in SUBSET Due :
          /\ \A p \in ahead : p[2] \in first => p[1] \in first
          /\ ahead' = InsertedAfter(first, e)
    /\ UNCHANGED <<wait, age, attempts, logs, pc, batch, current>>

-----------------------------------------------------------------------------
(* ProcessBatch.                                                           *)

\* fetchPendingOutboxEvents as one statement: the lease is taken by pushing
\* available_at out for the whole batch.
TakeLease(events) ==
    /\ wait' = [e \in Event |-> IF e \in events THEN Lease ELSE wait[e]]
    /\ ahead' = Without(events)

FetchPending(i) ==
    /\ pc[i] = "idle"
    /\ Fetchable # {}
    /\ TakeLease(Fetchable)
    /\ batch' = [batch EXCEPT ![i] = Fetchable]
    /\ pc' = [pc EXCEPT ![i] = "loop"]
    /\ UNCHANGED <<state, age, attempts, logs, current>>

\* The UPDATE takes effect and its answer is lost: ProcessBatch returns the
\* error with the events leased to nobody.
FetchPendingFails(i) ==
    /\ pc[i] = "idle"
    /\ Fetchable # {}
    /\ TakeLease(Fetchable)
    /\ UNCHANGED <<state, age, attempts, logs, pc, batch, current>>

\* Mutant: the INSERT has no conflict clause and source_event_id no unique index.
Projected_Again(e) == [logs EXCEPT ![e] = @ + 1]

\* The rows an INSERT ... ON CONFLICT (source_event_id) DO NOTHING leaves.
Projected(e) == [logs EXCEPT ![e] = IF @ = 0 THEN 1 ELSE @]

\* InsertProjection; the rows of a batch come back in any order.
InsertProjection(i, e) ==
    /\ pc[i] = "loop" /\ e \in batch[i]
    /\ logs' = Projected(e)
    /\ current' = [current EXCEPT ![i] = e]
    /\ pc' = [pc EXCEPT ![i] = "mark"]
    /\ UNCHANGED <<state, wait, age, attempts, ahead, batch>>

\* Mutant: the error of InsertProjection is ignored.
InsertProjectionFails_Ignored(i, e) ==
    /\ pc[i] = "loop" /\ e \in batch[i]
    /\ current' = [current EXCEPT ![i] = e]
    /\ pc' = [pc EXCEPT ![i] = "mark"]
    /\ UNCHANGED <<state, wait, age, attempts, ahead, logs, batch>>

\* InsertProjection fails without or with its effect.
InsertProjectionFails(i, e) ==
    /\ pc[i] = "loop" /\ e \in batch[i]
    /\ \/ UNCHANGED logs
       \/ logs' = Projected(e)
    /\ current' = [current EXCEPT ![i] = e]
    /\ pc' = [pc EXCEPT ![i] = "fail"]
    /\ UNCHANGED <<state, wait, age, attempts, ahead, batch>>

\* The loop goes on with the rest of the batch, or ProcessBatch returns.
NextEvent(i) ==
    /\ batch' = [batch EXCEPT ![i] = @ \ {current[i]}]
    /\ current' = [current EXCEPT ![i] = 0]
    /\ pc' = [pc EXCEPT ![i] = IF batch[i] = {current[i]} THEN "idle" ELSE "loop"]

\* Mutant: the UPDATE does not test delivery_state.
MarkDelivered_AnyState(i) ==
    LET e == current[i]
    IN  /\ pc[i] = "mark"
        /\ IF state[e] # "PRUNED"
           THEN /\ state' = [state EXCEPT ![e] = "DELIVERED"]
                /\ age' = [age EXCEPT ![e] = 0]
                /\ attempts' = [attempts EXCEPT ![e] = Attempted(e)]
                /\ ahead' = Without({e})
           ELSE UNCHANGED <<state, age, attempts, ahead>>
        /\ NextEvent(i)
        /\ UNCHANGED <<wait, logs>>

\* Mutant: the UPDATE also asks for a lease that has not lapsed.
MarkDelivered_Leased(i) ==
    LET e == current[i]
    IN  /\ pc[i] = "mark"
        /\ IF state[e] = "PENDING" /\ wait[e] > 0
           THEN /\ state' = [state EXCEPT ![e] = "DELIVERED"]
                /\ age' = [age EXCEPT ![e] = 0]
                /\ attempts' = [attempts EXCEPT ![e] = Attempted(e)]
                /\ ahead' = Without({e})
           ELSE UNCHANGED <<state, age, attempts, ahead>>
        /\ NextEvent(i)
        /\ UNCHANGED <<wait, logs>>

\* MarkDelivered: only a row that is still pending.
MarkDelivered(i) ==
    LET e == current[i]
    IN  /\ pc[i] = "mark"
        /\ IF state[e] = "PENDING"
           THEN /\ state' = [state EXCEPT ![e] = "DELIVERED"]
                /\ age' = [age EXCEPT ![e] = 0]
                /\ attempts' = [attempts EXCEPT ![e] = Attempted(e)]
                /\ ahead' = Without({e})
           ELSE UNCHANGED <<state, age, attempts, ahead>>
        /\ NextEvent(i)
        /\ UNCHANGED <<wait, logs>>

\* Mutant: an event that fails is dropped.
RecordFailure_GivesUp(i) ==
    LET e == current[i]
    IN  /\ pc[i] = "fail"
        /\ IF state[e] = "PENDING"
           THEN /\ state' = [state EXCEPT ![e] = "PRUNED"]
                /\ ahead' = Without({e})
           ELSE UNCHANGED <<state, ahead>>
        /\ NextEvent(i)
        /\ UNCHANGED <<wait, age, attempts, logs>>

\* RecordFailure: only a row that is still pending, due again after Backoff,
\* even if its lease had longer to run.
RecordFailure(i) ==
    LET e == current[i]
    IN  /\ pc[i] = "fail"
        /\ IF state[e] = "PENDING"
           THEN /\ wait' = [wait EXCEPT ![e] = Backoff]
                /\ attempts' = [attempts EXCEPT ![e] = Attempted(e)]
                /\ ahead' = Without({e})
           ELSE UNCHANGED <<wait, attempts, ahead>>
        /\ NextEvent(i)
        /\ UNCHANGED <<state, age, logs>>

\* MarkDelivered or RecordFailure fails without effect: ProcessBatch logs it
\* and continues, and the event waits for its lease to lapse.
StatementFails(i) ==
    /\ pc[i] \in {"mark", "fail"}
    /\ NextEvent(i)
    /\ UNCHANGED <<state, wait, age, attempts, ahead, logs>>

\* The worker stops in the middle (crash, or a cancelled context) or between
\* batches, and starts again.
Stop(i) ==
    /\ pc[i] # "down"
    /\ pc' = [pc EXCEPT ![i] = "down"]
    /\ batch' = [batch EXCEPT ![i] = {}]
    /\ current' = [current EXCEPT ![i] = 0]
    /\ UNCHANGED <<state, wait, age, attempts, ahead, logs>>

StartWorker(i) ==
    /\ pc[i] = "down"
    /\ pc' = [pc EXCEPT ![i] = "idle"]
    /\ UNCHANGED <<state, wait, age, attempts, ahead, logs, batch, current>>

\* Mutant: the DELETE goes by occurred_at, so that a row still pending after the
\* retention goes too (how long ago it occurred is left open).
Expired_ByOccurredAt(e) ==
    state[e] = "PENDING" \/ (state[e] = "DELIVERED" /\ age[e] > Retention)

\* Cleanup: DELETE of the rows delivered longer ago than the retention.
Expired(e) == state[e] = "DELIVERED" /\ age[e] > Retention

Cleanup(i) ==
    /\ pc[i] = "idle"
    /\ \E e \in Event : Expired(e)
    /\ state' = [e \in Event |-> IF Expired(e) THEN "PRUNED" ELSE state[e]]
    /\ UNCHANGED <<wait, age, attempts, ahead, logs, pc, batch, current>>

Tick ==
    /\ wait' = [e \in Event |-> IF wait[e] > 0 THEN wait[e] - 1 ELSE 0]
    /\ age' = [e \in Event |->
                 IF state[e] = "DELIVERED" /\ age[e] <= Retention THEN age[e] + 1 ELSE age[e]]
    /\ ahead' = Joined({e \in Event : state[e] = "PENDING" /\ wait[e] = 1})
    /\ UNCHANGED <<state, attempts, logs, pc, batch, current>>

-----------------------------------------------------------------------------

Init ==
    /\ state = [e \in Event |-> "UNWRITTEN"]
    /\ wait = [e \in Event |-> 0]
    /\ age = [e \in Event |-> 0]
    /\ attempts = [e \in Event |-> 0]
    /\ ahead = {}
    /\ logs = [e \in Event |-> 0]
    /\ pc = [i \in Relay |-> "idle"]
    /\ batch = [i \in Relay |-> {}]
    /\ current = [i \in Relay |-> 0]

ProcessBatch(i) ==
    \/ FetchPending(i) \/ FetchPendingFails(i)
    \/ \E e \in Event : InsertProjection(i, e) \/ InsertProjectionFails(i, e)
    \/ MarkDelivered(i) \/ RecordFailure(i) \/ StatementFails(i)

Next ==
    \/ \E e \in Event : Commit(e)
    \/ \E i \in Relay : ProcessBatch(i) \/ Cleanup(i) \/ Stop(i) \/ StartWorker(i)
    \/ Tick

Spec == Init /\ [][Next]_vars

\* Time passes, a stopped worker is started again and a worker under way
\* goes on.  A statement tried again and again is not lost every time.
FairSpec ==
    /\ Spec
    /\ WF_vars(Tick)
    /\ \A i \in Relay :
          /\ WF_vars(StartWorker(i))
          /\ WF_vars(ProcessBatch(i))
          /\ SF_vars(FetchPending(i))
          /\ \A e \in Event :
                /\ SF_vars(InsertProjection(i, e))
                /\ SF_vars(current[i] = e /\ MarkDelivered(i))

-----------------------------------------------------------------------------

\* The variables stay within their types, and ahead puts the due events in a row.
TypeOK ==
    /\ state \in [Event -> {"UNWRITTEN", "PENDING", "DELIVERED", "PRUNED"}]
    /\ wait \in [Event -> Nat]
    /\ age \in [Event -> 0..Retention + 1]
    /\ attempts \in [Event -> 0..MaxAttempts]
    /\ ahead \subseteq Due \X Due
    /\ \A e, f \in Due : e # f => (<<e, f>> \in ahead <=> <<f, e>> \notin ahead)
    /\ \A e \in Due : <<e, e>> \notin ahead
    /\ logs \in [Event -> Nat]
    /\ pc \in [Relay -> {"idle", "loop", "mark", "fail", "down"}]
    /\ batch \in [Relay -> SUBSET Event]
    /\ current \in [Relay -> 0..N]

\* An event leaves the pending state, and later the outbox, only after its
\* audit log row is there: no crash, late worker or cleanup loses an event.
DeliveredIsLogged ==
    \A e \in Event : state[e] \in {"DELIVERED", "PRUNED"} => logs[e] > 0

\* However often an event is delivered (a lapsed lease, a lost answer, a slow
\* worker that comes back after the row was pruned), audit_logs has one row
\* for it, and none for an event that was never committed.
LoggedOnce ==
    \A e \in Event : logs[e] <= (IF state[e] = "UNWRITTEN" THEN 0 ELSE 1)

\* The outbox and audit_logs agree after every step: types, nothing marked or
\* pruned before it is logged, nothing logged twice.
RelayInvariant == TypeOK /\ DeliveredIsLogged /\ LoggedOnce

\* A delivered row is final: a late worker neither makes it pending again nor
\* moves delivered_at, which the retention counts from.
DeliveredIsFinal ==
    [][\A e \in Event : state[e] \in {"DELIVERED", "PRUNED"} =>
         /\ state'[e] # "PENDING"
         /\ age'[e] >= age[e]
         /\ attempts'[e] = attempts[e]]_vars

\* The audit trail that the relay implements: an event is in the outbox's care
\* until it is delivered.
Trail == INSTANCE AuditTrail WITH
    owed <- {e \in Event : state[e] = "PENDING"},
    settled <- {e \in Event : state[e] \in {"DELIVERED", "PRUNED"}},
    logs <- logs

\* Seen through the outbox's states and audit_logs, every step of the relay is a
\* step of the audit trail or none: an event is committed, logged once, and
\* settled after that.
ImplementsTrail == Trail!TrailSpec

\* Every committed event is logged and settled in the end, although workers
\* stop, statements fail and a batch holds fewer events than wait: the fair
\* relay implements the fair audit trail.
ImplementsFairTrail == Trail!FairTrailSpec

=============================================================================
