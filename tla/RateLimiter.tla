---------------------------- MODULE RateLimiter ----------------------------
(***************************************************************************)
(* rateLimitHandler in front of /auth/login and /auth/refresh, with the    *)
(* counters it and AccessLog record.                                       *)
(*                                                                         *)
(* The handler's work on the shared map is one critical section, which     *)
(* reads the clock inside; the counters are added to after it.  The times  *)
(* kept for an address are the requests that were let through at them, so  *)
(* requests[c] is a set: the clock is monotonic, so the last time of the   *)
(* list is the latest.                                                     *)
(***************************************************************************)
EXTENDS MetricsCollector

CONSTANTS
    Client,         \* the addresses
    Limit,          \* requests per window
    Window,         \* length of the window
    MaxTracked,     \* maxTrackedClients
    CleanupEvery,   \* the 256 requests between two cleanups
    MaxTime         \* where the clock stops

ASSUME LimiterConfiguration ==
    /\ {Limit, Window, MaxTracked, CleanupEvery} \subseteq Nat \ {0}
    /\ MaxTime \in Nat
    /\ IsFiniteSet(Request)

\* The counters that the limiter and AccessLog add to, each of one kind.
ASSUME CounterNames ==
    /\ {"rate_limited", "http_2xx", "http_4xx"} \subseteq Label
    /\ {"evictions", "http_count"} \subseteq Plain
    /\ Label \cap Plain = {}

VARIABLES
    now,
    requests,       \* address -> requests remembered
    cleanupAfter,   \* requests since the last cleanup
    client,         \* the address of each request
    at,             \* when it was judged
    verdict,        \* "none", "passed", "refused"
    memory          \* history: requests of an address let through since it was last evicted

limiter == <<now, requests, cleanupAfter, client, at, verdict, memory>>
vars == <<limiter, metrics>>

NoClient == "no client"

-----------------------------------------------------------------------------

\* Mutant: a request exactly one window old is dropped.
Valid_Open(times) == {r \in times : now - at[r] < Window}

\* Mutant: the window is one tick too long.
Valid_Long(times) == {r \in times : now - at[r] <= Window + 1}

\* The times still in the window, which is closed at both ends.
Valid(times) == {r \in times : now - at[r] <= Window}

\* Mutant: addresses without a valid time keep their entry.
cleanupExpired_KeepsEmpty(reqs) == [c \in DOMAIN reqs |-> Valid(reqs[c])]

cleanupExpired(reqs) ==
    [c \in {d \in DOMAIN reqs : Valid(reqs[d]) # {}} |-> Valid(reqs[c])]

MostRecent(times) == CHOOSE t \in {at[r] : r \in times} : \A r \in times : at[r] <= t

\* Mutant: the most recent address is evicted.
Evictable_MostRecent(reqs) ==
    {c \in DOMAIN reqs : \A d \in DOMAIN reqs : MostRecent(reqs[c]) >= MostRecent(reqs[d])}

\* evictLeastRecent: the address whose last time is oldest; among equals the
\* map's iteration order decides.
Evictable(reqs) ==
    {c \in DOMAIN reqs : \A d \in DOMAIN reqs : MostRecent(reqs[c]) <= MostRecent(reqs[d])}

Forget(reqs, c) == [d \in DOMAIN reqs \ {c} |-> reqs[d]]

Put(reqs, c, times) ==
    [d \in DOMAIN reqs \cup {c} |-> IF d = c THEN times ELSE reqs[d]]

\* The map as the handler finds it after its periodic cleanup.
Cleaned == IF cleanupAfter + 1 >= CleanupEvery THEN cleanupExpired(requests) ELSE requests

Times(c) == IF c \in DOMAIN Cleaned THEN Cleaned[c] ELSE {}

\* What the request still has to record, in order: rate limiter, then AccessLog.
Owes(r, keys) == owed' = [owed EXCEPT ![r] = keys]

-----------------------------------------------------------------------------

Judge(r, c, v) ==
    /\ verdict[r] = "none"
    /\ cleanupAfter' = IF cleanupAfter + 1 >= CleanupEvery THEN 0 ELSE cleanupAfter + 1
    /\ client' = [client EXCEPT ![r] = c]
    /\ at' = [at EXCEPT ![r] = now]
    /\ verdict' = [verdict EXCEPT ![r] = v]

\* len(valid) >= limit: the valid times are stored back and 429 is answered.
Refuse(r, c) ==
    /\ Cardinality(Valid(Times(c))) >= Limit
    /\ Judge(r, c, "refused")
    /\ requests' = Put(Cleaned, c, Valid(Times(c)))
    /\ Owes(r, <<"rate_limited", "http_4xx", "http_count">>)
    /\ UNCHANGED <<now, memory, cellOf, cell, plain, recorded, step, ptr>>

Remember(r, c, reqs) == requests' = Put(reqs, c, Valid(Times(c)) \cup {r})

\* Mutant: the map's size is not looked at.
NeedsRoom_Never(c) == FALSE

\* A new address and a full map.
NeedsRoom(c) == Times(c) = {} /\ Cardinality(DOMAIN Cleaned) >= MaxTracked

\* The map after the cleanup that makes room.
Reduced(c) == IF NeedsRoom(c) THEN cleanupExpired(Cleaned) ELSE Cleaned

Full(c) == NeedsRoom(c) /\ Cardinality(DOMAIN Reduced(c)) >= MaxTracked

\* The request is let through, to a handler that accepts it.
Pass(r, c) ==
    /\ Cardinality(Valid(Times(c))) < Limit
    /\ ~Full(c)
    /\ Judge(r, c, "passed")
    /\ Remember(r, c, Reduced(c))
    /\ memory' = [memory EXCEPT ![c] = @ \cup {r}]
    /\ Owes(r, <<"http_2xx", "http_count">>)
    /\ UNCHANGED <<now, cellOf, cell, plain, recorded, step, ptr>>

\* The same with every tracked address inside its window: one is forgotten.
PassEvicting(r, c, victim) ==
    /\ Cardinality(Valid(Times(c))) < Limit
    /\ Full(c)
    /\ victim \in Evictable(Reduced(c))
    /\ Judge(r, c, "passed")
    /\ Remember(r, c, Forget(Reduced(c), victim))
    /\ memory' = [memory EXCEPT ![victim] = {}, ![c] = @ \cup {r}]
    /\ Owes(r, <<"evictions", "http_2xx", "http_count">>)
    /\ UNCHANGED <<now, cellOf, cell, plain, recorded, step, ptr>>

Tick ==
    /\ now < MaxTime
    /\ now' = now + 1
    /\ UNCHANGED <<requests, cleanupAfter, client, at, verdict, memory, metrics>>

-----------------------------------------------------------------------------

Init ==
    /\ MetricsInit
    /\ now = 0
    /\ requests = [c \in {} |-> {}]
    /\ cleanupAfter = 0
    /\ client = [r \in Request |-> NoClient]
    /\ at = [r \in Request |-> 0]
    /\ verdict = [r \in Request |-> "none"]
    /\ memory = [c \in Client |-> {}]

Handle(r) ==
    \E c \in Client :
       \/ Refuse(r, c)
       \/ Pass(r, c)
       \/ \E victim \in Client : PassEvicting(r, c, victim)

Next ==
    \/ \E r \in Request : Handle(r) \/ (Record(r) /\ UNCHANGED limiter)
    \/ Tick

Spec == Init /\ [][Next]_vars

-----------------------------------------------------------------------------

\* The variables stay within their types; every address the map holds has a
\* time, which evictLeastRecent reads without a test, and they are its own.
TypeOK ==
    /\ MetricsTypeOK
    /\ now \in 0..MaxTime
    /\ DOMAIN requests \subseteq Client
    /\ \A c \in DOMAIN requests :
          /\ requests[c] # {}
          /\ requests[c] \subseteq {r \in Request : client[r] = c /\ verdict[r] = "passed"}
    /\ cleanupAfter \in 0..CleanupEvery - 1
    /\ client \in [Request -> Client \cup {NoClient}]
    /\ at \in [Request -> 0..MaxTime]
    /\ verdict \in [Request -> {"none", "passed", "refused"}]
    /\ memory \in [Client -> SUBSET Request]

InWindowOf(r, s) == at[s] <= at[r] /\ at[r] - at[s] <= Window

\* As long as an address is not evicted, no window that ends with one of its
\* requests holds more than Limit of them, whatever cleanups came between.
WithinLimit ==
    \A c \in Client : \A r \in memory[c] :
       Cardinality({s \in memory[c] : InWindowOf(r, s)}) <= Limit

\* A request is refused only if Limit others of its address were let through
\* within the window before it: refusals, cleanups and other addresses never
\* use up an address's share.
RefusedOnlyWhenSpent ==
    \A r \in Request : verdict[r] = "refused" =>
       Cardinality({s \in Request : verdict[s] = "passed" /\ client[s] = client[r]
                                    /\ InWindowOf(r, s)}) >= Limit

\* The map never outgrows maxTrackedClients.
MapBounded == Cardinality(DOMAIN requests) <= MaxTracked

\* The map is sound after every request: bounded, and no entry without times.
MapInvariant == TypeOK /\ MapBounded

\* An address loses requests that still count only when the map is full of
\* addresses with such requests, and none of them has been quiet for longer.
ForgottenOnlyForRoom ==
    [][\A c \in DOMAIN requests :
         (Valid(requests[c]) # {} /\ c \notin DOMAIN requests') =>
            LET live == {d \in DOMAIN requests : Valid(requests[d]) # {}}
            IN  /\ Cardinality(live) >= MaxTracked
                /\ \A d \in live : MostRecent(requests[c]) <= MostRecent(requests[d])]_vars

=============================================================================
