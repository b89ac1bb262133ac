------------------------ MODULE ApplicationLifecycle ------------------------
(***************************************************************************)
(* The life of one API process: app.New, Application.Run, the goroutines   *)
(* Run starts (the audit relay's worker and the HTTP server) and the order *)
(* in which its deferred calls take them down again.                       *)
(*                                                                         *)
(* main is the goroutine of New and Run.  The relay's worker can be told   *)
(* to stop in two ways, by the context and by StopWorker, which share      *)
(* running and stopChan under one mutex; each critical section is a step.  *)
(* A request that is being handled holds a connection, and a call of the   *)
(* worker needs one unless the context is cancelled.                       *)
(***************************************************************************)
EXTENDS ProcessResources

VARIABLES
    main,       \* where main is
    outcome,    \* what New or Run has returned
    cancelled,  \* SIGINT or SIGTERM has cancelled the context
    database,   \* the pool: "none", "open", "closed"
    server,     \* the HTTP server, with what ListenAndServe came to
    request,    \* each HTTP request
    running,    \* RelayService.running
    stopChan,   \* RelayService.stopChan: "nil", "open", "closed"
    worker,     \* where the relay's worker is; "done" closes workerDone
    panicked    \* a closed channel was closed again

relay == <<running, stopChan, worker, panicked>>
vars == <<main, outcome, cancelled, database, server, request, relay>>

Alive == main # "exited"

Handling == {r \in Request : request[r] = "handling"}

\* The worker's calls of the database, ProcessBatch, Reconcile and Cleanup:
\* the three it starts with and any that a ticker causes.
InCall == {"process", "reconcile", "cleanup", "call"}

-----------------------------------------------------------------------------
(* New.                                                                    *)

\* ValidateSecretStrength refuses the configuration before anything is opened.
RefuseSecrets ==
    /\ main = "open"
    /\ main' = "exited"
    /\ outcome' = "error"
    /\ UNCHANGED <<cancelled, database, server, request, relay>>

\* database.Open: a cancelled context fails the ping.
OpenDatabase ==
    /\ main = "open"
    /\ ~cancelled
    /\ database' = "open"
    /\ main' = "wire"
    /\ UNCHANGED <<outcome, cancelled, server, request, relay>>

OpenFails ==
    /\ main = "open"
    /\ database' = "closed"
    /\ main' = "exited"
    /\ outcome' = "error"
    /\ UNCHANGED <<cancelled, server, request, relay>>

Wire ==
    /\ main = "wire"
    /\ main' = "start"
    /\ UNCHANGED <<outcome, cancelled, database, server, request, relay>>

\* Mutant: New returns the error without closing the pool.
WireFails_KeepsPool ==
    /\ main = "wire"
    /\ main' = "exited"
    /\ outcome' = "error"
    /\ UNCHANGED <<cancelled, database, server, request, relay>>

\* One of the services or the router cannot be built.
WireFails ==
    /\ main = "wire"
    /\ database' = "closed"
    /\ main' = "exited"
    /\ outcome' = "error"
    /\ UNCHANGED <<cancelled, server, request, relay>>

-----------------------------------------------------------------------------
(* Run.                                                                    *)

\* StartWorker.  It is called once, so its error (already running) cannot come.
StartWorker ==
    /\ main = "start"
    /\ running' = TRUE
    /\ stopChan' = "open"
    /\ worker' = "process"
    /\ main' = "serve"
    /\ UNCHANGED <<outcome, cancelled, database, server, request, panicked>>

\* select, <-ctx.Done(): Shutdown closes the listener, also one that
\* ListenAndServe has yet to open.
BeginShutdown ==
    /\ main = "serve"
    /\ cancelled
    /\ server' = "closed"
    /\ main' = "drain"
    /\ UNCHANGED <<outcome, cancelled, database, request, relay>>

\* select, <-serverErrors: Run returns without a Shutdown.
ServerError ==
    /\ main = "serve"
    /\ server \in {"unbound", "broken"}
    /\ outcome' = "error"
    /\ main' = "stop"
    /\ UNCHANGED <<cancelled, database, server, request, relay>>

\* Shutdown returns once no connection is busy.
Drained ==
    /\ main = "drain"
    /\ Handling = {}
    /\ outcome' = "ok"
    /\ main' = "stop"
    /\ UNCHANGED <<cancelled, database, server, request, relay>>

\* Mutant: Run does not look at Shutdown's error.
DrainTimesOut_Ignored ==
    /\ main = "drain"
    /\ outcome' = "ok"
    /\ main' = "stop"
    /\ UNCHANGED <<cancelled, database, server, request, relay>>

\* Mutant: Shutdown gets a context without a deadline.
DrainTimesOut_Never ==
    /\ main = "drain"
    /\ Handling = {}
    /\ outcome' = "error"
    /\ main' = "stop"
    /\ UNCHANGED <<cancelled, database, server, request, relay>>

\* SHUTDOWN_TIMEOUT passes; the requests under way are left to themselves.
DrainTimesOut ==
    /\ main = "drain"
    /\ outcome' = "error"
    /\ main' = "stop"
    /\ UNCHANGED <<cancelled, database, server, request, relay>>

\* Mutant: StopWorker does not reset running.
StopWorker_StillRunning ==
    /\ main = "stop"
    /\ IF running
       THEN /\ panicked' = (panicked \/ stopChan = "closed")
            /\ stopChan' = "closed"
       ELSE UNCHANGED <<stopChan, panicked>>
    /\ main' = "join"
    /\ UNCHANGED <<outcome, cancelled, database, server, request, running, worker>>

\* Mutant: StopWorker leaves a worker whose context is cancelled to itself.
StopWorker_TrustsContext ==
    /\ main = "stop"
    /\ IF running /\ ~cancelled
       THEN /\ running' = FALSE
            /\ panicked' = (panicked \/ stopChan = "closed")
            /\ stopChan' = "closed"
       ELSE UNCHANGED <<running, stopChan, panicked>>
    /\ main' = "join"
    /\ UNCHANGED <<outcome, cancelled, database, server, request, worker>>

\* StopWorker, up to its receive from workerDone.
StopWorker ==
    /\ main = "stop"
    /\ IF running
       THEN /\ running' = FALSE
            /\ panicked' = (panicked \/ stopChan = "closed")
            /\ stopChan' = "closed"
       ELSE UNCHANGED <<running, stopChan, panicked>>
    /\ main' = "join"
    /\ UNCHANGED <<outcome, cancelled, database, server, request, worker>>

\* Mutant: StopWorker does not wait for workerDone.
JoinWorker_NoWait ==
    /\ main = "join"
    /\ main' = "close"
    /\ UNCHANGED <<outcome, cancelled, database, server, request, relay>>

\* <-workerDone.
JoinWorker ==
    /\ main = "join"
    /\ worker = "done"
    /\ main' = "close"
    /\ UNCHANGED <<outcome, cancelled, database, server, request, relay>>

\* The deferred database.Close.
CloseDatabase ==
    /\ main = "close"
    /\ database' = "closed"
    /\ main' = "return"
    /\ UNCHANGED <<outcome, cancelled, server, request, relay>>

\* Run returns to main, which ends the process with whatever still runs in it.
Exit ==
    /\ main = "return"
    /\ main' = "exited"
    /\ UNCHANGED <<outcome, cancelled, database, server, request, relay>>

-----------------------------------------------------------------------------
(* The relay's worker.                                                     *)

\* A call comes back: the first three follow one another, then select.
CallReturns ==
    /\ Alive
    /\ worker \in InCall
    /\ cancelled \/ Cardinality(Handling) < MaxOpen
    /\ worker' = CASE worker = "process" -> "reconcile"
                   [] worker = "reconcile" -> "cleanup"
                   [] OTHER -> "select"
    /\ UNCHANGED <<main, outcome, cancelled, database, server, request,
                   running, stopChan, panicked>>

\* select, one of the three tickers.
TickerFires ==
    /\ Alive
    /\ worker = "select"
    /\ worker' = "call"
    /\ UNCHANGED <<main, outcome, cancelled, database, server, request,
                   running, stopChan, panicked>>

\* select, <-ctx.Done().
SeeCancellation ==
    /\ Alive
    /\ worker = "select"
    /\ cancelled
    /\ worker' = "stopping"
    /\ UNCHANGED <<main, outcome, cancelled, database, server, request,
                   running, stopChan, panicked>>

\* Mutant: stopWorker closes the channel without a look at running.
stopWorker_Always ==
    /\ Alive
    /\ worker = "stopping"
    /\ running' = FALSE
    /\ panicked' = (panicked \/ stopChan = "closed")
    /\ stopChan' = "closed"
    /\ worker' = "returning"
    /\ UNCHANGED <<main, outcome, cancelled, database, server, request>>

\* stopWorker.
stopWorker ==
    /\ Alive
    /\ worker = "stopping"
    /\ IF running
       THEN /\ running' = FALSE
            /\ panicked' = (panicked \/ stopChan = "closed")
            /\ stopChan' = "closed"
       ELSE UNCHANGED <<running, stopChan, panicked>>
    /\ worker' = "returning"
    /\ UNCHANGED <<main, outcome, cancelled, database, server, request>>

\* Mutant: the loop looks at the context alone, which a server error leaves be.
SeeStop_OnlyContext ==
    /\ Alive
    /\ worker = "select"
    /\ stopChan = "closed"
    /\ cancelled
    /\ worker' = "returning"
    /\ UNCHANGED <<main, outcome, cancelled, database, server, request,
                   running, stopChan, panicked>>

\* select, <-stopChan.
SeeStop ==
    /\ Alive
    /\ worker = "select"
    /\ stopChan = "closed"
    /\ worker' = "returning"
    /\ UNCHANGED <<main, outcome, cancelled, database, server, request,
                   running, stopChan, panicked>>

\* The deferred close(workerDone).
WorkerReturns ==
    /\ Alive
    /\ worker = "returning"
    /\ worker' = "done"
    /\ UNCHANGED <<main, outcome, cancelled, database, server, request,
                   running, stopChan, panicked>>

-----------------------------------------------------------------------------
(* The server, the requests and the signal.                                *)

Listen ==
    /\ Alive
    /\ main = "serve" /\ server = "new"
    /\ server' \in {"listening", "unbound"}
    /\ UNCHANGED <<main, outcome, cancelled, database, request, relay>>

\* Accept fails for good; connections that are open are still served.
ListenerBreaks ==
    /\ Alive
    /\ server = "listening"
    /\ server' = "broken"
    /\ UNCHANGED <<main, outcome, cancelled, database, request, relay>>

Arrive(r) ==
    /\ Alive
    /\ server \in {"listening", "broken"}
    /\ request[r] = "unsent"
    /\ request' = [request EXCEPT ![r] = "handling"]
    /\ UNCHANGED <<main, outcome, cancelled, database, server, relay>>

\* The handler comes to an end; statements on a closed pool fail.
Answer(r) ==
    /\ Alive
    /\ request[r] = "handling"
    /\ request' = [request EXCEPT ![r] = IF database = "open" THEN "answered" ELSE "failed"]
    /\ UNCHANGED <<main, outcome, cancelled, database, server, relay>>

Signal ==
    /\ Alive
    /\ ~cancelled
    /\ cancelled' = TRUE
    /\ UNCHANGED <<main, outcome, database, server, request, relay>>

-----------------------------------------------------------------------------

Init ==
    /\ main = "open"
    /\ outcome = "none"
    /\ cancelled = FALSE
    /\ database = "none"
    /\ server = "new"
    /\ request = [r \in Request |-> "unsent"]
    /\ running = FALSE
    /\ stopChan = "nil"
    /\ worker = "none"
    /\ panicked = FALSE

Main ==
    \/ RefuseSecrets \/ OpenDatabase \/ OpenFails \/ Wire \/ WireFails \/ StartWorker
    \/ BeginShutdown \/ ServerError \/ Drained \/ DrainTimesOut
    \/ StopWorker \/ JoinWorker \/ CloseDatabase \/ Exit

Worker == CallReturns \/ TickerFires \/ SeeCancellation \/ stopWorker \/ SeeStop \/ WorkerReturns

Next ==
    \/ Main \/ Worker \/ Listen \/ ListenerBreaks \/ Signal
    \/ \E r \in Request : Arrive(r) \/ Answer(r)

Spec == Init /\ [][Next]_vars

\* main goes on when it can, the worker too, and a select with several ready
\* branches does not pass over the same one forever.  Nothing is assumed of
\* the requests.
FairSpec ==
    /\ Spec
    /\ WF_vars(Main)
    /\ WF_vars(CallReturns) /\ WF_vars(stopWorker) /\ WF_vars(WorkerReturns)
    /\ SF_vars(SeeCancellation) /\ SF_vars(SeeStop)

-----------------------------------------------------------------------------

\* The variables stay within their types, and running says whether stopChan is
\* there to be closed.
TypeOK ==
    /\ main \in {"open", "wire", "start", "serve", "drain", "stop", "join",
                 "close", "return", "exited"}
    /\ outcome \in {"none", "ok", "error"}
    /\ cancelled \in BOOLEAN
    /\ database \in {"none", "open", "closed"}
    /\ server \in {"new", "listening", "unbound", "broken", "closed"}
    /\ request \in [Request -> {"unsent", "handling", "answered", "failed"}]
    /\ running \in BOOLEAN
    /\ stopChan \in {"nil", "open", "closed"}
    /\ worker \in InCall \cup {"none", "select", "stopping", "returning", "done"}
    /\ panicked \in BOOLEAN
    /\ running <=> stopChan = "open"

\* The context's end and Run's deferred StopWorker may both stop the worker,
\* in either order: stopChan is closed once.
NoDoubleClose == ~panicked

\* The pool is open for as long as the worker may use it: no exit path closes
\* it under a batch.
PoolOutlivesWorker ==
    worker \in InCall \cup {"select", "stopping"} => database = "open"

\* Run waits only for a worker that has been told to stop, whichever of the
\* context and StopWorker came first: its next select finds stopChan closed.
WaitedForIsTold == main = "join" => stopChan = "closed"

\* Stopping is safe however it comes about: types, stopChan closed once, and
\* before Run waits, and the pool closed after the worker.
StopInvariant == TypeOK /\ NoDoubleClose /\ PoolOutlivesWorker /\ WaitedForIsTold

\* However the process ends, the pool it opened is closed and the worker it
\* started has returned.
NothingLeftBehind ==
    main = "exited" => database # "open" /\ worker \in {"none", "done"}

\* A Run that returns nil has answered every request it took, each of them
\* with the pool still open.
NilMeansDrained ==
    outcome = "ok" => \A r \in Request : request[r] \in {"unsent", "answered"}

\* A signal ends the process, although requests may hang forever and keep all
\* connections to themselves.
SignalEndsProcess == cancelled ~> main = "exited"

\* So does a server that fails, as long as the worker can get a connection:
\* here the context is not cancelled and cuts no call short.
ServerErrorEndsProcess ==
    <>[](Cardinality(Handling) < MaxOpen)
       => (main = "serve" /\ server \in {"unbound", "broken"} ~> main = "exited")

=============================================================================
