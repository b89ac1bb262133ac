-------------------------- MODULE AuditRelay_proofs --------------------------
(***************************************************************************)
(* Proofs about the audit relay for any number of events and workers, any  *)
(* batch size, lease, backoff and retention.                               *)
(***************************************************************************)
EXTENDS AuditRelay, TLAPS

-----------------------------------------------------------------------------
(* The inductive invariant.                                                *)

\* ahead puts the due events, and only them, in a row.
OrderOK ==
    /\ ahead \subseteq Due \X Due
    /\ \A e, f \in Due : e # f => (<<e, f>> \in ahead <=> <<f, e>> \notin ahead)
    /\ \A e \in Due : <<e, e>> \notin ahead

\* What a worker holds was committed, and what it is about to mark is logged,
\* whatever has become of its lease.
WorkerOK(i) ==
    /\ \A e \in batch[i] : state[e] # "UNWRITTEN"
    /\ pc[i] \in {"mark", "fail"} => current[i] \in batch[i]
    /\ pc[i] = "mark" => logs[current[i]] > 0

\* An event that is not committed yet waits for nothing: available_at will be now().
UnwrittenIsReady == \A e \in Event : state[e] = "UNWRITTEN" => wait[e] = 0

IInv ==
    /\ TypeOK
    /\ UnwrittenIsReady
    /\ \A i \in Relay : WorkerOK(i)
    /\ DeliveredIsLogged
    /\ LoggedOnce

-----------------------------------------------------------------------------
(* Lemmas about the order of the due events.                               *)

\* Events that become due go to the end of the row, by occurred_at.
LEMMA JoinedOrder ==
    ASSUME TypeOK, NEW events \in SUBSET Event, events \cap Due = {},
           Due' = Due \cup events, ahead' = Joined(events)
    PROVE  OrderOK'
<1>1. OrderOK
    BY DEF TypeOK, OrderOK
<1>2. ahead' = ahead \cup (Due \X events) \cup {p \in events \X events : p[1] < p[2]}
    BY DEF Joined
<1>3. \A e, f : <<e, f>> \in ahead' <=>
          \/ <<e, f>> \in ahead
          \/ e \in Due /\ f \in events
          \/ e \in events /\ f \in events /\ e < f
    BY <1>2
<1>4. ahead' \subseteq Due' \X Due'
    BY <1>1, <1>2 DEF OrderOK
<1>5. ASSUME NEW e \in Due', NEW f \in Due', e # f
      PROVE  <<e, f>> \in ahead' <=> <<f, e>> \notin ahead'
  <2>1. e \in Nat /\ f \in Nat
      BY RelayConfiguration DEF Due, Event
  <2>2. CASE e \in Due /\ f \in Due
      BY <2>2, <1>1, <1>3, <1>5 DEF OrderOK
  <2>3. CASE e \in events /\ f \in events
    <3>1. <<e, f>> \notin ahead /\ <<f, e>> \notin ahead
        BY <2>3, <1>1 DEF OrderOK
    <3>2. QED
        BY <2>1, <2>3, <3>1, <1>3, <1>5
  <2>4. CASE e \in Due /\ f \in events
      BY <2>4, <1>1, <1>3 DEF OrderOK
  <2>5. CASE e \in events /\ f \in Due
      BY <2>5, <1>1, <1>3 DEF OrderOK
  <2>6. QED
      BY <2>2, <2>3, <2>4, <2>5
<1>6. ASSUME NEW e \in Due'
      PROVE  <<e, e>> \notin ahead'
  <2>1. e \in Nat
      BY RelayConfiguration DEF Due, Event
  <2>2. QED
      BY <2>1, <1>1, <1>3 DEF OrderOK
<1>7. QED
    BY <1>4, <1>5, <1>6 DEF OrderOK

\* A committed event goes into the row behind some of the events.
LEMMA InsertedOrder ==
    ASSUME TypeOK, NEW e \in Event, e \notin Due, NEW first \in SUBSET Due,
           Due' = Due \cup {e}, ahead' = InsertedAfter(first, e)
    PROVE  OrderOK'
<1>1. OrderOK
    BY DEF TypeOK, OrderOK
<1>2. \A f, g : <<f, g>> \in ahead' <=>
          \/ <<f, g>> \in ahead
          \/ f \in first /\ g = e
          \/ f = e /\ g \in Due \ first
    BY DEF InsertedAfter
<1>3. ahead' \subseteq Due' \X Due'
    BY <1>1 DEF OrderOK, InsertedAfter
<1>4. \A f : <<f, e>> \notin ahead /\ <<e, f>> \notin ahead
    BY <1>1 DEF OrderOK
<1>5. ASSUME NEW f \in Due', NEW g \in Due', f # g
      PROVE  <<f, g>> \in ahead' <=> <<g, f>> \notin ahead'
  <2>1. CASE f \in Due /\ g \in Due
      BY <2>1, <1>1, <1>2, <1>5 DEF OrderOK
  <2>2. CASE f = e \/ g = e
      BY <2>2, <1>2, <1>4, <1>5
  <2>3. QED
      BY <2>1, <2>2
<1>6. \A f \in Due' : <<f, f>> \notin ahead'
    BY <1>1, <1>2, <1>4 DEF OrderOK
<1>7. QED
    BY <1>3, <1>5, <1>6 DEF OrderOK

\* Events that are no longer due leave the row as it is.
LEMMA WithoutOrder ==
    ASSUME TypeOK, NEW events, Due' = Due \ events, ahead' = Without(events)
    PROVE  OrderOK'
<1>1. OrderOK
    BY DEF TypeOK, OrderOK
<1>2. \A e, f : <<e, f>> \in ahead' <=> <<e, f>> \in ahead /\ e \notin events /\ f \notin events
    BY DEF Without
<1>3. ahead' \subseteq Due' \X Due'
    BY <1>1 DEF OrderOK, Without
<1>4. QED
    BY <1>1, <1>2, <1>3 DEF OrderOK

\* Nothing that the row depends on changes.
LEMMA SameOrder ==
    ASSUME TypeOK, Due' = Due, UNCHANGED ahead
    PROVE  OrderOK'
    BY DEF TypeOK, OrderOK

\* Taking a lease makes the events wait, so that none of them is due.
LEMMA LeaseOrder ==
    ASSUME TypeOK, TakeLease(Fetchable), UNCHANGED state
    PROVE  OrderOK' /\ wait' \in [Event -> Nat]
           /\ \A e \in Event : state[e] # "PENDING" => wait'[e] = wait[e]
<1>1. wait' = [e \in Event |-> IF e \in Fetchable THEN Lease ELSE wait[e]]
      /\ ahead' = Without(Fetchable)
    BY DEF TakeLease
<1>2. wait \in [Event -> Nat] /\ Lease \in Nat \ {0}
    BY RelayConfiguration DEF TypeOK
<1>3. Due' = Due \ Fetchable
    BY <1>1, <1>2 DEF Due
<1>4. \A e \in Fetchable : state[e] = "PENDING"
    BY DEF Fetchable, Due
<1>5. QED
    BY <1>1, <1>2, <1>3, <1>4, WithoutOrder

-----------------------------------------------------------------------------
(* One lemma per conjunct of the inductive invariant, one step per action. *)

\* Every step keeps the variables within their types and the due events in a row.
LEMMA TypeStep ==
    ASSUME IInv, [Next]_vars
    PROVE  TypeOK'
<1> USE RelayConfiguration
<1>0. TypeOK /\ UnwrittenIsReady
    BY DEF IInv
<1>1. CASE UNCHANGED vars
    BY <1>0, <1>1 DEF vars, TypeOK, Due
<1>2. ASSUME NEW e \in Event, Commit(e)
      PROVE  TypeOK'
  <2>1. e \notin Due /\ Due' = Due \cup {e}
      BY <1>0, <1>2 DEF Commit, Due, TypeOK, UnwrittenIsReady
  <2>2. OrderOK'
    <3>1. PICK first \in SUBSET Due : ahead' = InsertedAfter(first, e)
        BY <1>2 DEF Commit
    <3>2. QED
        BY <1>0, <2>1, <3>1, InsertedOrder
  <2>3. QED
      BY <1>0, <1>2, <2>2 DEF Commit, TypeOK, OrderOK
<1>3. ASSUME NEW i \in Relay, FetchPending(i) \/ FetchPendingFails(i)
      PROVE  TypeOK'
  <2>1. OrderOK' /\ wait' \in [Event -> Nat]
      BY <1>0, <1>3, LeaseOrder DEF FetchPending, FetchPendingFails
  <2>2. Fetchable \in SUBSET Event
      BY DEF Fetchable, Due
  <2>3. QED
      BY <1>0, <1>3, <2>1, <2>2 DEF FetchPending, FetchPendingFails, TypeOK, OrderOK
<1>4. ASSUME NEW i \in Relay, NEW e \in Event, InsertProjection(i, e) \/ InsertProjectionFails(i, e)
      PROVE  TypeOK'
  <2>1. OrderOK'
    <3>1. Due' = Due
        BY <1>4 DEF InsertProjection, InsertProjectionFails, Due
    <3>2. QED
        BY <1>0, <1>4, <3>1, SameOrder DEF InsertProjection, InsertProjectionFails
  <2>2. Projected(e) \in [Event -> Nat]
      BY <1>0 DEF Projected, TypeOK
  <2>3. e \in 0..N
      BY DEF Event
  <2>4. QED
      BY <1>0, <1>4, <2>1, <2>2, <2>3
         DEF InsertProjection, InsertProjectionFails, TypeOK, OrderOK
<1>5. ASSUME NEW i \in Relay, NextEvent(i)
      PROVE  /\ pc' \in [Relay -> {"idle", "loop", "mark", "fail", "down"}]
             /\ batch' \in [Relay -> SUBSET Event]
             /\ current' \in [Relay -> 0..N]
    BY <1>0, <1>5 DEF NextEvent, TypeOK
<1>6. ASSUME NEW i \in Relay, MarkDelivered(i)
      PROVE  TypeOK'
  <2>1. CASE state[current[i]] = "PENDING" /\ current[i] \in Event
    <3>1. Due' = Due \ {current[i]}
        BY <1>0, <1>6, <2>1 DEF MarkDelivered, Due, TypeOK
    <3>2. OrderOK'
        BY <1>0, <1>6, <2>1, <3>1, WithoutOrder DEF MarkDelivered
    <3>3. Attempted(current[i]) \in 0..MaxAttempts
        BY <1>0, <2>1 DEF Attempted, TypeOK
    <3>4. /\ state' \in [Event -> {"UNWRITTEN", "PENDING", "DELIVERED", "PRUNED"}]
          /\ age' \in [Event -> 0..Retention + 1]
          /\ attempts' \in [Event -> 0..MaxAttempts]
        BY <1>0, <1>6, <2>1, <3>3 DEF MarkDelivered, TypeOK
    <3>5. UNCHANGED <<wait, logs>> /\ NextEvent(i)
        BY <1>6 DEF MarkDelivered
    <3>6. QED
        BY <1>0, <1>5, <3>2, <3>4, <3>5 DEF TypeOK, OrderOK
  <2>2. CASE state[current[i]] # "PENDING"
    <3>1. OrderOK'
        BY <1>0, <1>6, <2>2, SameOrder DEF MarkDelivered, Due
    <3>2. QED
        BY <1>0, <1>5, <1>6, <2>2, <3>1 DEF MarkDelivered, TypeOK, OrderOK
  <2>3. current[i] \in Event
      BY <1>0, <1>6 DEF IInv, WorkerOK, MarkDelivered, TypeOK
  <2>4. QED
      BY <2>1, <2>2, <2>3
<1>7. ASSUME NEW i \in Relay, RecordFailure(i)
      PROVE  TypeOK'
  <2>1. CASE state[current[i]] = "PENDING" /\ current[i] \in Event
    <3>1. Due' = Due \ {current[i]}
        BY <1>0, <1>7, <2>1 DEF RecordFailure, Due, TypeOK
    <3>2. OrderOK'
        BY <1>0, <1>7, <2>1, <3>1, WithoutOrder DEF RecordFailure
    <3>3. Attempted(current[i]) \in 0..MaxAttempts
        BY <1>0, <2>1 DEF Attempted, TypeOK
    <3>4. /\ wait' \in [Event -> Nat]
          /\ attempts' \in [Event -> 0..MaxAttempts]
        BY <1>0, <1>7, <2>1, <3>3 DEF RecordFailure, TypeOK
    <3>5. UNCHANGED <<state, age, logs>> /\ NextEvent(i)
        BY <1>7 DEF RecordFailure
    <3>6. QED
        BY <1>0, <1>5, <3>2, <3>4, <3>5 DEF TypeOK, OrderOK
  <2>2. CASE state[current[i]] # "PENDING"
    <3>1. OrderOK'
        BY <1>0, <1>7, <2>2, SameOrder DEF RecordFailure, Due
    <3>2. QED
        BY <1>0, <1>5, <1>7, <2>2, <3>1 DEF RecordFailure, TypeOK, OrderOK
  <2>3. current[i] \in Event
      BY <1>0, <1>7 DEF IInv, WorkerOK, RecordFailure, TypeOK
  <2>4. QED
      BY <2>1, <2>2, <2>3
<1>8. ASSUME NEW i \in Relay, StatementFails(i) \/ Stop(i) \/ StartWorker(i)
      PROVE  TypeOK'
  <2>1. OrderOK'
      BY <1>0, <1>8, SameOrder DEF StatementFails, Stop, StartWorker, Due
  <2>2. QED
      BY <1>0, <1>5, <1>8, <2>1 DEF StatementFails, Stop, StartWorker, TypeOK, OrderOK
<1>9. ASSUME NEW i \in Relay, Cleanup(i)
      PROVE  TypeOK'
  <2>1. Due' = Due
      BY <1>0, <1>9 DEF Cleanup, Expired, Due, TypeOK
  <2>2. OrderOK'
      BY <1>0, <1>9, <2>1, SameOrder DEF Cleanup
  <2>3. QED
      BY <1>0, <1>9, <2>2 DEF Cleanup, TypeOK, OrderOK
<1>10. CASE Tick
  <2> DEFINE waking == {e \in Event : state[e] = "PENDING" /\ wait[e] = 1}
  <2>1. Due' = Due \cup waking /\ waking \cap Due = {} /\ waking \in SUBSET Event
      BY <1>0, <1>10 DEF Tick, Due, TypeOK
  <2>2. OrderOK'
      BY <1>0, <1>10, <2>1, JoinedOrder DEF Tick
  <2>3. wait' \in [Event -> Nat] /\ age' \in [Event -> 0..Retention + 1]
      BY <1>0, <1>10 DEF Tick, TypeOK
  <2>4. QED
      BY <1>0, <1>10, <2>2, <2>3 DEF Tick, TypeOK, OrderOK
<1>11. QED
    BY <1>1, <1>2, <1>3, <1>4, <1>6, <1>7, <1>8, <1>9, <1>10 DEF Next, ProcessBatch

\* An event that is not committed still waits for nothing.
LEMMA UnwrittenStep ==
    ASSUME IInv, [Next]_vars
    PROVE  UnwrittenIsReady'
<1> USE RelayConfiguration DEF UnwrittenIsReady
<1>0. TypeOK /\ UnwrittenIsReady
    BY DEF IInv
<1>1. CASE UNCHANGED vars
    BY <1>0, <1>1 DEF vars
<1>2. ASSUME NEW e \in Event, Commit(e)
      PROVE  UnwrittenIsReady'
    BY <1>0, <1>2 DEF Commit, TypeOK
<1>3. ASSUME NEW i \in Relay, FetchPending(i) \/ FetchPendingFails(i)
      PROVE  UnwrittenIsReady'
  <2>1. \A e \in Event : state[e] # "PENDING" => wait'[e] = wait[e]
      BY <1>0, <1>3, LeaseOrder DEF FetchPending, FetchPendingFails
  <2>2. QED
      BY <1>0, <1>3, <2>1 DEF FetchPending, FetchPendingFails
<1>4. ASSUME NEW i \in Relay, NEW e \in Event, InsertProjection(i, e) \/ InsertProjectionFails(i, e)
      PROVE  UnwrittenIsReady'
    BY <1>0, <1>4 DEF InsertProjection, InsertProjectionFails
<1>5. ASSUME NEW i \in Relay, MarkDelivered(i)
      PROVE  UnwrittenIsReady'
    BY <1>0, <1>5 DEF MarkDelivered, TypeOK
<1>6. ASSUME NEW i \in Relay, RecordFailure(i)
      PROVE  UnwrittenIsReady'
    BY <1>0, <1>6 DEF RecordFailure, TypeOK
<1>7. ASSUME NEW i \in Relay, StatementFails(i) \/ Stop(i) \/ StartWorker(i)
      PROVE  UnwrittenIsReady'
    BY <1>0, <1>7 DEF StatementFails, Stop, StartWorker
<1>8. ASSUME NEW i \in Relay, Cleanup(i)
      PROVE  UnwrittenIsReady'
    BY <1>0, <1>8 DEF Cleanup, TypeOK
<1>9. CASE Tick
    BY <1>0, <1>9 DEF Tick, TypeOK
<1>10. QED
    BY <1>1, <1>2, <1>3, <1>4, <1>5, <1>6, <1>7, <1>8, <1>9 DEF Next, ProcessBatch

\* Rows of audit_logs only come: what is logged stays logged.
LEMMA LogsGrow ==
    ASSUME IInv, [Next]_vars
    PROVE  \A e \in Event : logs[e] > 0 => logs'[e] > 0
<1> USE RelayConfiguration
<1>0. logs \in [Event -> Nat]
    BY DEF IInv, TypeOK
<1>1. CASE UNCHANGED logs
    BY <1>1
<1>2. ASSUME NEW f \in Event, logs' = Projected(f)
      PROVE  \A e \in Event : logs[e] > 0 => logs'[e] > 0
    BY <1>0, <1>2 DEF Projected
<1>3. UNCHANGED logs \/ \E f \in Event : logs' = Projected(f)
    BY DEF Next, vars, Commit, ProcessBatch, FetchPending, FetchPendingFails, InsertProjection,
           InsertProjectionFails, MarkDelivered, RecordFailure, StatementFails, Cleanup, Stop,
           StartWorker, Tick
<1>4. QED
    BY <1>1, <1>2, <1>3

\* No event becomes uncommitted again.
LEMMA CommittedForever ==
    ASSUME IInv, [Next]_vars
    PROVE  \A e \in Event : state[e] # "UNWRITTEN" => state'[e] # "UNWRITTEN"
<1>0. state \in [Event -> {"UNWRITTEN", "PENDING", "DELIVERED", "PRUNED"}]
    BY DEF IInv, TypeOK
<1>1. CASE UNCHANGED state
    BY <1>1
<1>2. ASSUME NEW e \in Event, Commit(e)
      PROVE  \A f \in Event : state[f] # "UNWRITTEN" => state'[f] # "UNWRITTEN"
    BY <1>0, <1>2 DEF Commit
<1>3. ASSUME NEW i \in Relay, MarkDelivered(i)
      PROVE  \A f \in Event : state[f] # "UNWRITTEN" => state'[f] # "UNWRITTEN"
    BY <1>0, <1>3 DEF MarkDelivered
<1>4. ASSUME NEW i \in Relay, Cleanup(i)
      PROVE  \A f \in Event : state[f] # "UNWRITTEN" => state'[f] # "UNWRITTEN"
    BY <1>0, <1>4 DEF Cleanup
<1>5. \/ UNCHANGED state
      \/ \E e \in Event : Commit(e)
      \/ \E i \in Relay : MarkDelivered(i) \/ Cleanup(i)
    BY DEF Next, vars, ProcessBatch, FetchPending, FetchPendingFails, InsertProjection,
           InsertProjectionFails, RecordFailure, StatementFails, Stop, StartWorker, Tick
<1>6. QED
    BY <1>1, <1>2, <1>3, <1>4, <1>5

\* A worker goes on holding committed events, and marks only what is logged.
LEMMA WorkerStep ==
    ASSUME IInv, [Next]_vars, NEW j \in Relay
    PROVE  WorkerOK(j)'
<1>0. TypeOK /\ WorkerOK(j)
    BY DEF IInv
<1>1. /\ \A e \in Event : logs[e] > 0 => logs'[e] > 0
      /\ \A e \in Event : state[e] # "UNWRITTEN" => state'[e] # "UNWRITTEN"
      /\ batch[j] \subseteq Event
    BY LogsGrow, CommittedForever DEF IInv, TypeOK
<1>2. CASE UNCHANGED <<pc[j], batch[j], current[j]>>
    BY <1>0, <1>1, <1>2 DEF WorkerOK
<1>3. CASE FetchPending(j)
  <2>1. \A e \in Fetchable : e \in Event /\ state[e] = "PENDING"
      BY DEF Fetchable, Due
  <2>2. pc'[j] = "loop" /\ batch'[j] = Fetchable
      BY <1>0, <1>3 DEF FetchPending, TypeOK
  <2>3. QED
      BY <1>1, <2>1, <2>2 DEF WorkerOK
<1>4. ASSUME NEW e \in Event, InsertProjection(j, e)
      PROVE  WorkerOK(j)'
  <2>1. /\ pc'[j] = "mark" /\ current'[j] = e /\ batch'[j] = batch[j] /\ e \in batch[j]
        /\ logs'[e] > 0
      BY <1>0, <1>4 DEF InsertProjection, Projected, TypeOK
  <2>2. QED
      BY <1>0, <1>1, <2>1 DEF WorkerOK
<1>5. ASSUME NEW e \in Event, InsertProjectionFails(j, e)
      PROVE  WorkerOK(j)'
  <2>1. pc'[j] = "fail" /\ current'[j] = e /\ batch'[j] = batch[j] /\ e \in batch[j]
      BY <1>0, <1>5 DEF InsertProjectionFails, TypeOK
  <2>2. QED
      BY <1>0, <1>1, <2>1 DEF WorkerOK
<1>6. CASE NextEvent(j)
  <2>1. pc'[j] \in {"idle", "loop"} /\ batch'[j] \subseteq batch[j]
      BY <1>0, <1>6 DEF NextEvent, TypeOK
  <2>2. QED
      BY <1>0, <1>1, <2>1 DEF WorkerOK
<1>7. CASE Stop(j) \/ StartWorker(j)
  <2>1. pc'[j] \in {"down", "idle"} /\ batch'[j] \subseteq batch[j]
      BY <1>0, <1>7 DEF Stop, StartWorker, TypeOK
  <2>2. QED
      BY <1>0, <1>1, <2>1 DEF WorkerOK
<1>8. ASSUME NEW i \in Relay, ProcessBatch(i) \/ Cleanup(i) \/ Stop(i) \/ StartWorker(i)
      PROVE  WorkerOK(j)'
  <2>1. CASE i = j
      BY <1>2, <1>3, <1>4, <1>5, <1>6, <1>7, <1>8, <2>1
         DEF ProcessBatch, FetchPendingFails, MarkDelivered, RecordFailure, StatementFails, Cleanup
  <2>2. CASE i # j
    <3>1. UNCHANGED <<pc[j], batch[j], current[j]>>
        BY <1>0, <1>8, <2>2
           DEF TypeOK, ProcessBatch, FetchPending, FetchPendingFails, InsertProjection,
               InsertProjectionFails, MarkDelivered, RecordFailure, StatementFails, NextEvent,
               Cleanup, Stop, StartWorker
    <3>2. QED
        BY <1>2, <3>1
  <2>3. QED
      BY <2>1, <2>2
<1>9. QED
    BY <1>2, <1>8 DEF Next, vars, Commit, Tick

\* Nothing is marked or pruned before it is logged.
LEMMA LoggedStep ==
    ASSUME IInv, [Next]_vars
    PROVE  DeliveredIsLogged'
<1>0. TypeOK /\ DeliveredIsLogged /\ \A e \in Event : logs[e] > 0 => logs'[e] > 0
    BY LogsGrow DEF IInv
<1>1. CASE UNCHANGED state
    BY <1>0, <1>1 DEF DeliveredIsLogged
<1>2. ASSUME NEW e \in Event, Commit(e)
      PROVE  DeliveredIsLogged'
    BY <1>0, <1>2 DEF Commit, DeliveredIsLogged, TypeOK
<1>3. ASSUME NEW i \in Relay, MarkDelivered(i)
      PROVE  DeliveredIsLogged'
  <2>1. logs[current[i]] > 0
      BY <1>3 DEF IInv, WorkerOK, MarkDelivered
  <2>2. QED
      BY <1>0, <1>3, <2>1 DEF MarkDelivered, DeliveredIsLogged, TypeOK
<1>4. ASSUME NEW i \in Relay, Cleanup(i)
      PROVE  DeliveredIsLogged'
    BY <1>0, <1>4 DEF Cleanup, Expired, DeliveredIsLogged, TypeOK
<1>5. \/ UNCHANGED state
      \/ \E e \in Event : Commit(e)
      \/ \E i \in Relay : MarkDelivered(i) \/ Cleanup(i)
    BY DEF Next, vars, ProcessBatch, FetchPending, FetchPendingFails, InsertProjection,
           InsertProjectionFails, RecordFailure, StatementFails, Stop, StartWorker, Tick
<1>6. QED
    BY <1>1, <1>2, <1>3, <1>4, <1>5

\* Nothing is logged twice, or before it is committed.
LEMMA OnceStep ==
    ASSUME IInv, [Next]_vars
    PROVE  LoggedOnce'
<1>0. /\ TypeOK /\ LoggedOnce
      /\ \A e \in Event : state[e] # "UNWRITTEN" => state'[e] # "UNWRITTEN"
    BY CommittedForever DEF IInv
<1>1. CASE UNCHANGED logs
    BY <1>0, <1>1 DEF LoggedOnce, TypeOK
<1>2. ASSUME NEW i \in Relay, NEW f \in Event,
             InsertProjection(i, f) \/ InsertProjectionFails(i, f), logs' = Projected(f)
      PROVE  LoggedOnce'
  <2>1. state[f] # "UNWRITTEN" /\ UNCHANGED state
      BY <1>2 DEF IInv, WorkerOK, InsertProjection, InsertProjectionFails
  <2>2. QED
      BY <1>0, <1>2, <2>1 DEF LoggedOnce, Projected, TypeOK
<1>3. \/ UNCHANGED logs
      \/ \E i \in Relay, f \in Event :
            /\ InsertProjection(i, f) \/ InsertProjectionFails(i, f)
            /\ logs' = Projected(f)
    BY DEF Next, vars, Commit, ProcessBatch, FetchPending, FetchPendingFails, InsertProjection,
           InsertProjectionFails, MarkDelivered, RecordFailure, StatementFails, Cleanup, Stop,
           StartWorker, Tick
<1>4. QED
    BY <1>1, <1>2, <1>3

\* The inductive invariant holds of the empty outbox and idle workers.
LEMMA IInvInit ==
    ASSUME Init
    PROVE  IInv
<1> USE RelayConfiguration
<1>1. Due = {}
    BY DEF Init, Due
<1>2. TypeOK
    BY <1>1 DEF Init, TypeOK
<1>3. QED
    BY <1>2 DEF Init, IInv, UnwrittenIsReady, WorkerOK, DeliveredIsLogged, LoggedOnce

-----------------------------------------------------------------------------
(* The theorems.                                                           *)

\* The inductive invariant holds in every state of the relay.
THEOREM Invariance == Spec => []IInv
<1>1. Init => IInv
    BY IInvInit
<1>2. IInv /\ [Next]_vars => IInv'
    BY TypeStep, UnwrittenStep, WorkerStep, LoggedStep, OnceStep DEF IInv
<1>3. QED
    BY <1>1, <1>2, PTL DEF Spec

\* However workers crash, leases lapse and answers get lost, the types are kept,
\* an event is marked and pruned only after it is in audit_logs, and it is there
\* once.
THEOREM RelayCorrect == Spec => []RelayInvariant
<1>1. IInv => RelayInvariant
    BY DEF IInv, RelayInvariant
<1>2. QED
    BY <1>1, Invariance, PTL

\* MarkDelivered and RecordFailure of a worker that comes late leave a delivered
\* row as it is.
THEOREM DeliveredRowsFinal == Spec => DeliveredIsFinal
<1> DEFINE Final == \A e \in Event : state[e] \in {"DELIVERED", "PRUNED"} =>
                      /\ state'[e] # "PENDING"
                      /\ age'[e] >= age[e]
                      /\ attempts'[e] = attempts[e]
<1>1. ASSUME IInv, [Next]_vars
      PROVE  Final
  <2> USE RelayConfiguration
  <2>0. TypeOK
      BY <1>1 DEF IInv
  <2>1. CASE UNCHANGED <<state, age, attempts>>
      BY <2>0, <2>1 DEF TypeOK
  <2>2. ASSUME NEW e \in Event, Commit(e)
        PROVE  Final
      BY <2>0, <2>2 DEF Commit, TypeOK
  <2>3. ASSUME NEW i \in Relay, MarkDelivered(i)
        PROVE  Final
      BY <2>0, <2>3 DEF MarkDelivered, TypeOK
  <2>4. ASSUME NEW i \in Relay, RecordFailure(i)
        PROVE  Final
      BY <2>0, <2>4 DEF RecordFailure, TypeOK
  <2>5. ASSUME NEW i \in Relay, Cleanup(i)
        PROVE  Final
      BY <2>0, <2>5 DEF Cleanup, TypeOK
  <2>6. CASE Tick
      BY <2>0, <2>6 DEF Tick, TypeOK
  <2>7. \/ UNCHANGED <<state, age, attempts>> \/ Tick
        \/ \E e \in Event : Commit(e)
        \/ \E i \in Relay : MarkDelivered(i) \/ RecordFailure(i) \/ Cleanup(i)
      BY <1>1 DEF Next, vars, ProcessBatch, FetchPending, FetchPendingFails, InsertProjection,
                  InsertProjectionFails, StatementFails, Stop, StartWorker
  <2> HIDE DEF Final
  <2>8. QED
      BY <2>1, <2>2, <2>3, <2>4, <2>5, <2>6, <2>7
<1>2. QED
    BY <1>1, Invariance, PTL DEF Spec, DeliveredIsFinal

-----------------------------------------------------------------------------
(* The relay implements the audit trail.                                   *)

Owed == {e \in Event : state[e] = "PENDING"}
Settled == {e \in Event : state[e] \in {"DELIVERED", "PRUNED"}}

\* A committed transaction is a Commit of the trail.
LEMMA CommitRefines ==
    ASSUME IInv, NEW e \in Event, Commit(e)
    PROVE  Trail!Commit(e)
    BY DEF IInv, TypeOK, Commit, Trail!Commit

\* The first INSERT for an event is a Log of the trail, any later one a stutter,
\* also if the row has been pruned meanwhile.
LEMMA InsertRefines ==
    ASSUME IInv, NEW i \in Relay, NEW e \in Event, logs' = Projected(e),
           InsertProjection(i, e) \/ InsertProjectionFails(i, e)
    PROVE  Trail!Log(e) \/ UNCHANGED <<state, logs>>
<1>0. TypeOK /\ UNCHANGED state
    BY DEF IInv, InsertProjection, InsertProjectionFails
<1>1. CASE logs[e] = 0
  <2>1. state[e] # "UNWRITTEN"
      BY DEF IInv, WorkerOK, InsertProjection, InsertProjectionFails
  <2>2. state[e] \notin {"DELIVERED", "PRUNED"}
      BY <1>1 DEF IInv, DeliveredIsLogged
  <2>3. state[e] = "PENDING"
      BY <1>0, <2>1, <2>2 DEF TypeOK
  <2>4. logs' = [logs EXCEPT ![e] = 1]
      BY <1>1 DEF Projected
  <2>5. QED
      BY <1>0, <1>1, <2>3, <2>4 DEF Trail!Log
<1>2. CASE logs[e] # 0
  <2>1. UNCHANGED logs
      BY <1>0, <1>2 DEF Projected, TypeOK
  <2>2. QED
      BY <1>0, <2>1
<1>3. QED
    BY <1>1, <1>2

\* MarkDelivered of a pending row is a Settle of the trail.
LEMMA MarkRefines ==
    ASSUME IInv, NEW i \in Relay, MarkDelivered(i)
    PROVE  (\E e \in Event : Trail!Settle(e)) \/ UNCHANGED <<state, logs>>
<1>0. TypeOK /\ UNCHANGED logs
    BY DEF IInv, MarkDelivered
<1> PICK e : e = current[i]
    OBVIOUS
<1>1. CASE state[e] = "PENDING"
  <2>1. e \in Event /\ logs[e] > 0 /\ logs[e] <= 1
      BY <1>1 DEF IInv, WorkerOK, MarkDelivered, TypeOK, LoggedOnce
  <2>2. logs[e] = 1
      BY <1>0, <2>1 DEF TypeOK
  <2>3. state' = [state EXCEPT ![e] = "DELIVERED"]
      BY <1>1 DEF MarkDelivered
  <2>4. /\ Owed' = Owed \ {e} /\ e \in Owed
        /\ Settled' = Settled \cup {e}
      BY <1>0, <1>1, <2>1, <2>3 DEF Owed, Settled, TypeOK
  <2>5. Trail!Settle(e)
      BY <1>0, <2>2, <2>4 DEF Trail!Settle, Owed, Settled
  <2>6. QED
      BY <2>1, <2>5
<1>2. CASE state[e] # "PENDING"
    BY <1>0, <1>2 DEF MarkDelivered
<1>3. QED
    BY <1>1, <1>2

\* Cleanup takes rows from the outbox that the trail has settled already.
LEMMA CleanupRefines ==
    ASSUME IInv, NEW i \in Relay, Cleanup(i)
    PROVE  UNCHANGED <<Owed, Settled, logs>>
    BY DEF IInv, TypeOK, Cleanup, Expired, Owed, Settled

\* The outbox pattern keeps its promise: the relay of any number of instances
\* implements the audit trail, every step being one of its steps or none.
THEOREM RelayImplementsTrail == Spec => ImplementsTrail
<1>1. Init => Trail!TrailInit
    BY DEF Init, Trail!TrailInit
<1>2. ASSUME IInv, [Next]_vars
      PROVE  [Trail!TrailNext]_(Trail!trail)
  <2>1. CASE UNCHANGED <<state, logs>>
      BY <2>1 DEF Trail!trail
  <2>2. ASSUME NEW e \in Event, Trail!Commit(e) \/ Trail!Log(e) \/ Trail!Settle(e)
        PROVE  Trail!TrailNext
      BY <2>2 DEF Trail!TrailNext
  <2>3. CASE UNCHANGED <<Owed, Settled, logs>>
      BY <2>3 DEF Trail!trail, Owed, Settled
  <2>4. \/ UNCHANGED <<state, logs>>
        \/ \E e \in Event : Commit(e)
        \/ \E i \in Relay, e \in Event :
              /\ InsertProjection(i, e) \/ InsertProjectionFails(i, e)
              /\ logs' = Projected(e)
        \/ \E i \in Relay : MarkDelivered(i) \/ Cleanup(i)
      BY <1>2 DEF Next, vars, ProcessBatch, FetchPending, FetchPendingFails, InsertProjection,
                  InsertProjectionFails, RecordFailure, StatementFails, Stop, StartWorker, Tick
  <2>5. QED
      BY <1>2, <2>1, <2>2, <2>3, <2>4, CommitRefines, InsertRefines, MarkRefines, CleanupRefines
<1>3. QED
    BY <1>1, <1>2, Invariance, PTL DEF Spec, ImplementsTrail, Trail!TrailSpec

=============================================================================
