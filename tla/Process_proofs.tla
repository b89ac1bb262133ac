--------------------------- MODULE Process_proofs -----------------------------
(***************************************************************************)
(* Proofs about one API process, for any number of requests and            *)
(* connections: its life from New to its exit, and the connection pool     *)
(* that its requests share.                                                *)
(***************************************************************************)
EXTENDS ApplicationLifecycle, ConnectionPool, FiniteSetTheorems, TLAPS

-----------------------------------------------------------------------------
(* The life of the process: the inductive invariant.                       *)

\* The pool is open from OpenDatabase to CloseDatabase.
PoolOK ==
    /\ main = "open" => database = "none"
    /\ main \in {"wire", "start", "serve", "drain", "stop", "join", "close"} => database = "open"
    /\ main = "return" => database = "closed"
    /\ main = "exited" => database # "open"

\* The worker lives between StartWorker and JoinWorker.
WorkerOK ==
    /\ main \in {"open", "wire", "start"} => worker = "none"
    /\ main \in {"serve", "drain", "stop", "join"} => worker # "none"
    /\ main \in {"close", "return"} => worker = "done"
    /\ main = "exited" => worker \in {"none", "done"}
    /\ worker # "none" => stopChan # "nil"

\* Requests come once the server listens, and none once it is closed; only a
\* closed pool fails one.
ServerOK ==
    /\ main \in {"open", "wire", "start"} => server = "new"
    /\ server = "new" => \A r \in Request : request[r] = "unsent"
    /\ main = "drain" => server = "closed"
    /\ outcome = "ok" => server = "closed" /\ main \notin {"open", "wire", "start", "serve", "drain"}
    /\ database \in {"none", "open"} => \A r \in Request : request[r] # "failed"

IInv ==
    /\ TypeOK
    /\ NoDoubleClose
    /\ PoolOK
    /\ WorkerOK
    /\ ServerOK
    /\ NilMeansDrained
    /\ WaitedForIsTold

-----------------------------------------------------------------------------
(* One lemma per part of Next.                                             *)

\* Every step of main preserves the inductive invariant.
LEMMA MainStep ==
    ASSUME IInv, Main
    PROVE  IInv'
<1> USE DEF IInv, TypeOK, NoDoubleClose, PoolOK, WorkerOK, ServerOK, NilMeansDrained,
            WaitedForIsTold, relay, InCall
<1>1. CASE RefuseSecrets
    BY <1>1 DEF RefuseSecrets
<1>2. CASE OpenDatabase
    BY <1>2 DEF OpenDatabase
<1>3. CASE OpenFails
    BY <1>3 DEF OpenFails
<1>4. CASE Wire
    BY <1>4 DEF Wire
<1>5. CASE WireFails
    BY <1>5 DEF WireFails
<1>6. CASE StartWorker
    BY <1>6 DEF StartWorker
<1>7. CASE BeginShutdown
    BY <1>7 DEF BeginShutdown
<1>8. CASE ServerError
    BY <1>8 DEF ServerError
<1>9. CASE Drained
    BY <1>9 DEF Drained, Handling
<1>10. CASE DrainTimesOut
    BY <1>10 DEF DrainTimesOut
<1>11. CASE StopWorker
    BY <1>11 DEF StopWorker
<1>12. CASE JoinWorker
    BY <1>12 DEF JoinWorker
<1>13. CASE CloseDatabase
    BY <1>13 DEF CloseDatabase
<1>14. CASE Exit
    BY <1>14 DEF Exit
<1>15. QED
    BY <1>1, <1>2, <1>3, <1>4, <1>5, <1>6, <1>7, <1>8, <1>9, <1>10, <1>11, <1>12, <1>13, <1>14
       DEF Main

\* Every step of the relay's worker does.
LEMMA WorkerStep ==
    ASSUME IInv, Worker
    PROVE  IInv'
<1> USE DEF IInv, TypeOK, NoDoubleClose, PoolOK, WorkerOK, ServerOK, NilMeansDrained,
            WaitedForIsTold, InCall, Alive
<1>1. CASE CallReturns
    BY <1>1 DEF CallReturns
<1>2. CASE TickerFires
    BY <1>2 DEF TickerFires
<1>3. CASE SeeCancellation
    BY <1>3 DEF SeeCancellation
<1>4. CASE stopWorker
    BY <1>4 DEF stopWorker
<1>5. CASE SeeStop
    BY <1>5 DEF SeeStop
<1>6. CASE WorkerReturns
    BY <1>6 DEF WorkerReturns
<1>7. QED
    BY <1>1, <1>2, <1>3, <1>4, <1>5, <1>6 DEF Worker

\* So does every step of the server, the signal and the requests.
LEMMA EnvironmentStep ==
    ASSUME IInv, Listen \/ ListenerBreaks \/ Signal \/ \E r \in Request : Arrive(r) \/ Answer(r)
    PROVE  IInv'
<1> USE DEF IInv, TypeOK, NoDoubleClose, PoolOK, WorkerOK, ServerOK, NilMeansDrained,
            WaitedForIsTold, relay, InCall, Alive
<1>1. CASE Listen
    BY <1>1 DEF Listen
<1>2. CASE ListenerBreaks
    BY <1>2 DEF ListenerBreaks
<1>3. CASE Signal
    BY <1>3 DEF Signal
<1>4. ASSUME NEW r \in Request, Arrive(r)
      PROVE  IInv'
    BY <1>4 DEF Arrive
<1>5. ASSUME NEW r \in Request, Answer(r)
      PROVE  IInv'
  <2>1. /\ request' \in [Request -> {"unsent", "handling", "answered", "failed"}]
        /\ \A q \in Request \ {r} : request'[q] = request[q]
        /\ database = "open" => request'[r] = "answered"
      BY <1>5 DEF Answer
  <2>2. server # "new" /\ outcome # "ok" /\ database # "none"
      BY <1>5 DEF Answer
  <2>3. QED
      BY <1>5, <2>1, <2>2 DEF Answer
<1>6. QED
    BY <1>1, <1>2, <1>3, <1>4, <1>5

-----------------------------------------------------------------------------
(* The theorems about its life.                                            *)

\* The inductive invariant holds in every state of the process.
THEOREM Invariance == Spec => []IInv
<1>1. Init => IInv
    BY DEF Init, IInv, TypeOK, NoDoubleClose, PoolOK, WorkerOK, ServerOK, NilMeansDrained,
           WaitedForIsTold, InCall
<1>2. IInv /\ [Next]_vars => IInv'
  <2>1. IInv /\ UNCHANGED vars => IInv'
      BY DEF IInv, vars, relay, TypeOK, NoDoubleClose, PoolOK, WorkerOK, ServerOK,
             NilMeansDrained, WaitedForIsTold, InCall
  <2>2. QED
      BY <2>1, MainStep, WorkerStep, EnvironmentStep DEF Next
<1>3. QED
    BY <1>1, <1>2, PTL DEF Spec

\* Context and StopWorker never close stopChan twice, and no exit path closes
\* the pool under the worker.
THEOREM StoppingIsSafe == Spec => []StopInvariant
<1>1. IInv => StopInvariant
    BY DEF IInv, StopInvariant, TypeOK, PoolOK, WorkerOK, PoolOutlivesWorker, InCall
<1>2. QED
    BY <1>1, Invariance, PTL

\* A process that has ended has closed its pool and seen its worker return.
THEOREM NothingIsLeftBehind == Spec => []NothingLeftBehind
<1>1. IInv => NothingLeftBehind
    BY DEF IInv, NothingLeftBehind, PoolOK, WorkerOK
<1>2. QED
    BY <1>1, Invariance, PTL

\* When Run returns nil, every request it took has been answered from an open pool.
THEOREM NilMeansAllAnswered == Spec => []NilMeansDrained
<1>1. IInv => NilMeansDrained
    BY DEF IInv
<1>2. QED
    BY <1>1, Invariance, PTL

\* The worker's way to its return: a call that comes back, the closed channel,
\* and what follows a cancellation that it has seen.
WorkerGoesOn ==
    \/ worker \in InCall /\ (cancelled \/ Cardinality(Handling) < MaxOpen)
    \/ worker = "select" /\ stopChan = "closed"
    \/ worker \in {"stopping", "returning"}

\* A Run that waits for a worker that cannot go on waits for requests.
OnlyRequestsKeepRun ==
    main = "join" /\ worker # "done" /\ ~WorkerGoesOn =>
        worker \in InCall /\ ~cancelled /\ ~(Cardinality(Handling) < MaxOpen)

\* The one way in which StopWorker's wait can be in vain: the server failed, so
\* that the context is not cancelled, and the requests that were not drained
\* keep every connection from the worker's call.
THEOREM RunWaitsForRequestsOnly == Spec => []OnlyRequestsKeepRun
<1>1. IInv => OnlyRequestsKeepRun
    BY DEF IInv, TypeOK, WorkerOK, WaitedForIsTold, OnlyRequestsKeepRun, WorkerGoesOn, InCall
<1>2. QED
    BY <1>1, Invariance, PTL

-----------------------------------------------------------------------------
(* The pool: the inductive invariant.                                      *)

\* What a request holds follows from where it is, and only one that nests
\* comes to read through the pool inside its transaction.
HeldOK(r) ==
    /\ pc[r] \in {"idle", "begin", "answered", "cancelled"} => held[r] = 0
    /\ pc[r] \in {"find", "write", "commit"} => held[r] = 1
    /\ pc[r] = "found" => held[r] = 2
    /\ pc[r] = "find" => r \in Nested

PoolIInv ==
    /\ PoolTypeOK
    /\ \A r \in Request : HeldOK(r)
    /\ free + Cardinality(InUse) = MaxOpen

\* The connections in use under h, as in InUse.
UsedBy(h) == {c \in Request \X (1..2) : c[2] <= h[c[1]]}

\* There are finitely many.
LEMMA UsedByFinite ==
    ASSUME NEW h
    PROVE  IsFiniteSet(UsedBy(h)) /\ Cardinality(UsedBy(h)) \in Nat
<1>1. IsFiniteSet(1..2)
  <2>1. 1..2 = {1, 2}
      OBVIOUS
  <2>2. IsFiniteSet({1}) /\ {1, 2} = {1} \cup {2}
      BY FS_Singleton
  <2>3. QED
      BY <2>1, <2>2, FS_AddElement
<1>2. IsFiniteSet(Request \X (1..2))
    BY <1>1, ProcessConstants, FS_Product
<1>3. IsFiniteSet(UsedBy(h))
    BY <1>2, FS_Subset DEF UsedBy
<1>4. QED
    BY <1>3, FS_CardinalityType

\* Giving back one connection takes one from those in use.
LEMMA OneLess ==
    ASSUME NEW h \in [Request -> 0..2], NEW r \in Request, h[r] > 0,
           NEW g \in [Request -> 0..2], g = [h EXCEPT ![r] = h[r] - 1]
    PROVE  Cardinality(UsedBy(g)) = Cardinality(UsedBy(h)) - 1
<1>1. UsedBy(g) = UsedBy(h) \ {<<r, h[r]>>}
  <2>1. ASSUME NEW q \in Request, NEW n \in 1..2
        PROVE  n <= g[q] <=> n <= h[q] /\ ~(q = r /\ n = h[r])
    <3>1. CASE q = r
        BY <3>1
    <3>2. CASE q # r
        BY <3>2
    <3>3. QED
        BY <3>1, <3>2
  <2>2. \A c \in Request \X (1..2) : c[2] <= g[c[1]] <=> c[2] <= h[c[1]] /\ c # <<r, h[r]>>
      BY <2>1
  <2>3. QED
      BY <2>2 DEF UsedBy
<1>2. <<r, h[r]>> \in UsedBy(h)
    BY DEF UsedBy
<1>3. QED
    BY <1>1, <1>2, UsedByFinite, FS_RemoveElement

\* Giving back all of r's connections takes as many from those in use.
LEMMA NoneLeft ==
    ASSUME NEW h \in [Request -> 0..2], NEW r \in Request,
           NEW g, g = [h EXCEPT ![r] = 0]
    PROVE  Cardinality(UsedBy(g)) = Cardinality(UsedBy(h)) - h[r]
<1>0. h[r] \in {0, 1, 2} /\ Cardinality(UsedBy(h)) \in Nat
    BY UsedByFinite
<1>1. CASE h[r] = 0
  <2>1. g = h
      BY <1>1
  <2>2. QED
      BY <1>0, <1>1, <2>1
<1>2. CASE h[r] = 1
  <2>1. g \in [Request -> 0..2] /\ g = [h EXCEPT ![r] = h[r] - 1] /\ h[r] > 0
      BY <1>2
  <2>2. QED
      BY <1>2, <2>1, OneLess
<1>3. CASE h[r] = 2
  <2>0. h[r] > 0 /\ h[r] - 1 \in 0..2
      BY <1>3
  <2>1. PICK f \in [Request -> 0..2] : f = [h EXCEPT ![r] = h[r] - 1]
    <3>1. [h EXCEPT ![r] = h[r] - 1] \in [Request -> 0..2]
        BY <2>0
    <3>2. QED
        BY <3>1
  <2>2. Cardinality(UsedBy(f)) = Cardinality(UsedBy(h)) - 1
      BY <2>0, <2>1, OneLess
  <2>3. f[r] = 1 /\ f[r] > 0 /\ g \in [Request -> 0..2] /\ g = [f EXCEPT ![r] = f[r] - 1]
      BY <1>3, <2>1
  <2>4. Cardinality(UsedBy(g)) = Cardinality(UsedBy(f)) - 1
      BY <2>3, OneLess
  <2>5. QED
      BY <1>0, <1>3, <2>2, <2>4
<1>4. QED
    BY <1>0, <1>1, <1>2, <1>3

\* Taking a connection adds one to those in use.
LEMMA TakeKeepsCount ==
    ASSUME PoolIInv, NEW r \in Request, held[r] \in 0..1, Take(r)
    PROVE  /\ held' \in [Request -> 0..2]
           /\ held'[r] = held[r] + 1
           /\ \A q \in Request \ {r} : held'[q] = held[q]
           /\ free' \in 0..MaxOpen
           /\ free' + Cardinality(InUse)' = MaxOpen
<1>1. /\ held \in [Request -> 0..2] /\ free \in 0..MaxOpen /\ free > 0
      /\ free' = free - 1
      /\ held' = [held EXCEPT ![r] = held[r] + 1]
      /\ free + Cardinality(UsedBy(held)) = MaxOpen
      /\ Cardinality(InUse)' = Cardinality(UsedBy(held'))
    BY DEF PoolIInv, PoolTypeOK, Take, InUse, UsedBy
<1>2. held[r] + 1 \in 0..2
    OBVIOUS
<1>3. /\ held' \in [Request -> 0..2]
      /\ held'[r] = held[r] + 1
      /\ \A q \in Request \ {r} : held'[q] = held[q]
    BY <1>1, <1>2
<1>4. held = [held' EXCEPT ![r] = held'[r] - 1] /\ held'[r] > 0
  <2>1. held'[r] - 1 = held[r] /\ held'[r] > 0
      BY <1>3
  <2>2. QED
      BY <1>1, <1>3, <2>1
<1>5. Cardinality(UsedBy(held)) = Cardinality(UsedBy(held')) - 1
    BY <1>1, <1>3, <1>4, OneLess
<1>6. Cardinality(UsedBy(held)) \in Nat /\ Cardinality(UsedBy(held')) \in Nat /\ MaxOpen \in Nat
    BY UsedByFinite, ProcessConstants
<1>7. QED
    BY <1>1, <1>3, <1>5, <1>6

\* Giving back all that r holds, or one of two, takes as many from them.
LEMMA GiveBackKeepsCount ==
    ASSUME PoolIInv, NEW r \in Request, NEW n \in 0..2, GiveBack(r, n),
           n = held[r] \/ (n = 1 /\ held[r] = 2)
    PROVE  /\ held' \in [Request -> 0..2]
           /\ held'[r] = held[r] - n
           /\ \A q \in Request \ {r} : held'[q] = held[q]
           /\ free' \in 0..MaxOpen
           /\ free' + Cardinality(InUse)' = MaxOpen
<1>1. /\ held \in [Request -> 0..2] /\ free \in 0..MaxOpen
      /\ free' = free + n
      /\ held' = [held EXCEPT ![r] = held[r] - n]
      /\ free + Cardinality(UsedBy(held)) = MaxOpen
      /\ Cardinality(InUse)' = Cardinality(UsedBy(held'))
    BY DEF PoolIInv, PoolTypeOK, GiveBack, InUse, UsedBy
<1>2. held[r] - n \in 0..2
    BY <1>1
<1>3. /\ held' \in [Request -> 0..2]
      /\ held'[r] = held[r] - n
      /\ \A q \in Request \ {r} : held'[q] = held[q]
    BY <1>1, <1>2
<1>4. Cardinality(UsedBy(held')) = Cardinality(UsedBy(held)) - n
  <2>1. CASE n = held[r]
    <3>1. held[r] - n = 0
        BY <1>1, <2>1
    <3>2. held' = [held EXCEPT ![r] = 0]
        BY <1>1, <3>1
    <3>3. QED
        BY <1>1, <2>1, <3>2, NoneLeft
  <2>2. CASE n = 1 /\ held[r] = 2
    <3>1. held' = [held EXCEPT ![r] = held[r] - 1] /\ held[r] > 0
        BY <1>1, <2>2
    <3>2. QED
        BY <1>1, <1>3, <2>2, <3>1, OneLess
  <2>3. QED
      BY <2>1, <2>2
<1>5. Cardinality(UsedBy(held)) \in Nat /\ Cardinality(UsedBy(held')) \in Nat /\ MaxOpen \in Nat
    BY UsedByFinite, ProcessConstants
<1>6. QED
    BY <1>1, <1>3, <1>4, <1>5

\* Every step of a request preserves the pool's inductive invariant.
LEMMA RequestStep ==
    ASSUME PoolIInv, NEW r \in Request,
           ReachService(r) \/ Step(r) \/ OperationFails(r) \/ HangUp(r)
    PROVE  PoolIInv'
<1>0. /\ pc \in [Request -> {"idle", "begin", "find", "found", "write", "commit",
                             "answered", "cancelled"}]
      /\ held \in [Request -> 0..2]
      /\ free \in 0..MaxOpen
      /\ \A q \in Request : HeldOK(q)
    BY DEF PoolIInv, PoolTypeOK
<1>1. ASSUME NEW l \in {"begin", "find", "found", "write", "commit", "answered", "cancelled"},
             Goto(r, l),
             held' \in [Request -> 0..2], free' \in 0..MaxOpen,
             \A q \in Request \ {r} : held'[q] = held[q],
             free' + Cardinality(InUse)' = MaxOpen,
             l \in {"begin", "answered", "cancelled"} => held'[r] = 0,
             l \in {"find", "write", "commit"} => held'[r] = 1,
             l = "found" => held'[r] = 2,
             l = "find" => r \in Nested
      PROVE  PoolIInv'
  <2>1. /\ pc' \in [Request -> {"idle", "begin", "find", "found", "write", "commit",
                                "answered", "cancelled"}]
        /\ pc'[r] = l
        /\ \A q \in Request \ {r} : pc'[q] = pc[q]
      BY <1>0, <1>1 DEF Goto
  <2>2. ASSUME NEW q \in Request
        PROVE  HeldOK(q)'
    <3>1. CASE q = r
        BY <1>1, <2>1, <3>1 DEF HeldOK
    <3>2. CASE q # r
        BY <1>0, <1>1, <2>1, <3>2 DEF HeldOK
    <3>3. QED
        BY <3>1, <3>2
  <2>3. PoolTypeOK'
      BY <1>1, <2>1 DEF PoolTypeOK
  <2>4. QED
      BY <1>1, <2>2, <2>3 DEF PoolIInv
<1>2. CASE ReachService(r)
  <2>1. held' = held /\ free' = free /\ Goto(r, "begin") /\ held[r] = 0
      BY <1>0, <1>2 DEF ReachService, HeldOK
  <2>2. free' + Cardinality(InUse)' = MaxOpen
      BY <2>1 DEF PoolIInv, InUse
  <2>3. QED
      BY <1>0, <1>1, <2>1, <2>2
<1>3. CASE Begin(r)
  <2>1. Take(r) /\ held[r] = 0 /\ held[r] \in 0..1
      BY <1>0, <1>3 DEF Begin, HeldOK
  <2>2. CASE r \in Nested
    <3>1. Goto(r, "find")
        BY <1>3, <2>2 DEF Begin
    <3>2. QED
        BY <1>1, <2>1, <2>2, <3>1, TakeKeepsCount
  <2>3. CASE r \notin Nested
    <3>1. Goto(r, "write")
        BY <1>3, <2>3 DEF Begin
    <3>2. QED
        BY <1>1, <2>1, <3>1, TakeKeepsCount
  <2>4. QED
      BY <2>2, <2>3
<1>4. CASE FindByID(r)
  <2>1. Take(r) /\ held[r] = 1 /\ held[r] \in 0..1 /\ Goto(r, "found")
      BY <1>0, <1>4 DEF FindByID, HeldOK
  <2>2. QED
      BY <1>1, <2>1, TakeKeepsCount
<1>5. CASE CloseRows(r)
  <2>1. GiveBack(r, 1) /\ held[r] = 2 /\ 1 \in 0..2 /\ Goto(r, "write")
      BY <1>0, <1>5 DEF CloseRows, HeldOK
  <2>2. QED
      BY <1>1, <2>1, GiveBackKeepsCount
<1>6. CASE Write(r)
  <2>1. held' = held /\ free' = free /\ Goto(r, "commit") /\ held[r] = 1
      BY <1>0, <1>6 DEF Write, HeldOK
  <2>2. free' + Cardinality(InUse)' = MaxOpen
      BY <2>1 DEF PoolIInv, InUse
  <2>3. QED
      BY <1>0, <1>1, <2>1, <2>2
<1>7. CASE Commit(r)
  <2>1. GiveBack(r, held[r]) /\ held[r] \in 0..2 /\ Goto(r, "answered")
      BY <1>0, <1>7 DEF Commit
  <2>2. QED
      BY <1>1, <2>1, GiveBackKeepsCount
<1>8. CASE OperationFails(r)
  <2>1. GiveBack(r, held[r]) /\ held[r] \in 0..2 /\ Goto(r, "answered")
      BY <1>0, <1>8 DEF OperationFails
  <2>2. QED
      BY <1>1, <2>1, GiveBackKeepsCount
<1>9. CASE HangUp(r)
  <2>1. GiveBack(r, held[r]) /\ held[r] \in 0..2 /\ Goto(r, "cancelled")
      BY <1>0, <1>9 DEF HangUp
  <2>2. QED
      BY <1>1, <2>1, GiveBackKeepsCount
<1>10. QED
    BY <1>2, <1>3, <1>4, <1>5, <1>6, <1>7, <1>8, <1>9 DEF Step

\* The pool's inductive invariant holds in every state.
THEOREM PoolInvariance == PoolSpec => []PoolIInv
<1>1. PoolInit => PoolIInv
  <2> SUFFICES ASSUME PoolInit PROVE PoolIInv
      OBVIOUS
  <2>1. InUse = {} /\ MaxOpen \in Nat
      BY ProcessConstants DEF PoolInit, InUse
  <2>2. Cardinality(InUse) = 0
      BY <2>1, FS_EmptySet
  <2>3. QED
      BY <2>1, <2>2 DEF PoolInit, PoolIInv, PoolTypeOK, HeldOK
<1>2. PoolIInv /\ [PoolNext]_poolVars => PoolIInv'
  <2>1. PoolIInv /\ UNCHANGED poolVars => PoolIInv'
      BY DEF PoolIInv, poolVars, PoolTypeOK, InUse, HeldOK
  <2>2. QED
      BY <2>1, RequestStep DEF PoolNext
<1>3. QED
    BY <1>1, <1>2, PTL DEF PoolSpec

\* The nested transactions that wait for their second connection.
Reading == {r \in Request : pc[r] = "find"}

\* Requests only ever wait for good when nested transactions hold every
\* connection and each needs one more.
Unstuck ==
    (\E r \in Request : UnderWay(r)) /\ (\A r \in Request : ~CanStep(r))
        => Cardinality(Reading) = MaxOpen

\* A standstill needs MaxOpen nested transactions between Begin and FindByID:
\* nobody else waits for a connection while holding one, and whoever has the
\* row can commit.
THEOREM StandstillIsNestedReads == PoolSpec => []Unstuck
<1>1. PoolIInv => Unstuck
  <2> SUFFICES ASSUME PoolIInv, NEW r \in Request, UnderWay(r),
                      \A q \in Request : ~CanStep(q)
               PROVE  Cardinality(Reading) = MaxOpen
      BY DEF Unstuck
  <2>1. /\ pc \in [Request -> {"idle", "begin", "find", "found", "write", "commit",
                               "answered", "cancelled"}]
        /\ held \in [Request -> 0..2]
        /\ free \in Nat
        /\ \A q \in Request : HeldOK(q)
        /\ free + Cardinality(InUse) = MaxOpen
      BY ProcessConstants DEF PoolIInv, PoolTypeOK
  <2>2. \A q \in Request : pc[q] \notin {"found", "commit"}
      BY DEF CanStep
  <2>3. \A q \in Request : pc[q] # "write"
      BY <2>2 DEF CanStep
  <2>4. free = 0
    <3>1. pc[r] \in {"begin", "find"}
        BY <2>1, <2>2, <2>3 DEF UnderWay
    <3>2. QED
        BY <2>1, <3>1 DEF CanStep
  <2>5. InUse = Reading \X {1}
    <3>1. ASSUME NEW q \in Request
          PROVE  held[q] = IF pc[q] = "find" THEN 1 ELSE 0
        BY <2>1, <2>2, <2>3 DEF HeldOK
    <3>2. ASSUME NEW q \in Request, NEW n \in 1..2
          PROVE  n <= held[q] <=> pc[q] = "find" /\ n = 1
      <4>1. CASE pc[q] = "find"
          BY <3>1, <4>1
      <4>2. CASE pc[q] # "find"
          BY <3>1, <4>2
      <4>3. QED
          BY <4>1, <4>2
    <3>3. QED
        BY <3>2 DEF InUse, Reading
  <2>6. IsFiniteSet(Reading) /\ Cardinality(Reading) \in Nat
    <3>1. IsFiniteSet(Reading)
        BY ProcessConstants, FS_Subset DEF Reading
    <3>2. QED
        BY <3>1, FS_CardinalityType
  <2>7. IsFiniteSet({1}) /\ Cardinality({1}) = 1
      BY FS_Singleton
  <2>8. Cardinality(Reading \X {1}) = Cardinality(Reading) * 1
      BY <2>6, <2>7, FS_Product
  <2>9. QED
      BY <2>1, <2>4, <2>5, <2>6, <2>8, ProcessConstants
<1>2. QED
    BY <1>1, PoolInvariance, PTL

\* For any number of requests and connections no connection leaks, whatever
\* is cancelled, and with more connections than nested requests some request
\* under way can always go on.
THEOREM PoolIsSafe == PoolSpec => []PoolInvariant
<1>1. PoolIInv /\ Unstuck => PoolInvariant
  <2> SUFFICES ASSUME PoolIInv, Unstuck
               PROVE  PoolInvariant
      OBVIOUS
  <2>1. NoConnectionLeaks
      BY DEF PoolIInv, HeldOK, NoConnectionLeaks
  <2>2. NoStandstill
    <3> SUFFICES ASSUME Cardinality(Nested) < MaxOpen, \E r \in Request : UnderWay(r),
                        \A r \in Request : ~CanStep(r)
                 PROVE  FALSE
        BY DEF NoStandstill
    <3>1. Cardinality(Reading) = MaxOpen
        BY DEF Unstuck
    <3>2. Reading \subseteq Nested
        BY DEF PoolIInv, HeldOK, Reading
    <3>3. IsFiniteSet(Nested)
        BY ProcessConstants, NestedRequests, FS_Subset
    <3>4. Cardinality(Reading) <= Cardinality(Nested) /\ Cardinality(Nested) \in Nat
        BY <3>2, <3>3, FS_Subset, FS_CardinalityType
    <3>5. QED
        BY <3>1, <3>4, ProcessConstants
  <2>3. QED
      BY <2>1, <2>2 DEF PoolIInv, PoolInvariant
<1>2. QED
    BY <1>1, PoolInvariance, StandstillIsNestedReads, PTL

=============================================================================
