------------------------- MODULE RateLimiter_proofs --------------------------
(***************************************************************************)
(* Proofs about the rate limiter and the counters, for any finite set of   *)
(* requests, any addresses, limits, windows and map sizes.                 *)
(***************************************************************************)
EXTENDS RateLimiter, FiniteSetTheorems, WellFoundedInduction, TLAPS

-----------------------------------------------------------------------------
(* The inductive invariant of the limiter.                                 *)

\* No request was judged in the future, and one that was not judged yet has
\* nothing to record.
JudgedOK(r) ==
    /\ at[r] <= now
    /\ verdict[r] = "none" => recorded[r] = 0 /\ step[r] = "lookup" /\ owed[r] = <<>>

\* What an address was let through for since it was last evicted: whatever of it
\* is still in the window, the map has.
MemoryOK(c) ==
    \A s \in memory[c] :
       /\ verdict[s] = "passed"
       /\ now - at[s] <= Window => c \in DOMAIN requests /\ s \in requests[c]

LimiterInv ==
    /\ TypeOK
    /\ IsFiniteSet(DOMAIN requests) /\ MapBounded
    /\ \A r \in Request : JudgedOK(r)
    /\ \A c \in Client : MemoryOK(c)
    /\ WithinLimit
    /\ RefusedOnlyWhenSpent

\* A request adds to each of its counters once, and beyond the lookup it is on
\* its way to a counter of the maps; the pointer it adds through is the map's.
RecordOK(r) ==
    /\ recorded[r] <= Len(owed[r])
    /\ \A i, j \in 1..Len(owed[r]) : owed[r][i] = owed[r][j] => i = j
    /\ step[r] # "lookup" => Recording(r) /\ Target(r) \in Label
    /\ step[r] = "add" => Target(r) \in DOMAIN cellOf /\ ptr[r] = cellOf[Target(r)]

\* A counter that is not in the maps was never added to.
CellsOK == \A q \in Request, k \in Label : k \notin DOMAIN cellOf => cell[<<q, k>>] = 0

CounterInv == (\A r \in Request : RecordOK(r)) /\ CellsOK /\ CountersExact

IInv == LimiterInv /\ CounterInv

-----------------------------------------------------------------------------
(* Lemmas about the latest time of a set of requests.                      *)

\* Every set of numbers that is not empty has a least one.
LEMMA LeastNatural ==
    ASSUME NEW T \in SUBSET Nat, T # {}
    PROVE  \E x \in T : \A y \in T : x <= y
<1> DEFINE R == OpToRel(<, Nat)
<1>1. IsWellFoundedOn(R, Nat)
    BY NatLessThanWellFounded
<1>2. \A x, y \in Nat : y < x => <<y, x>> \in R
    BY DEF OpToRel
<1> HIDE DEF R
<1>3. PICK x \in T : \A y \in T : ~(<<y, x>> \in R)
    BY <1>1, WFMin
<1>4. \A y \in T : ~(y < x)
    BY <1>2, <1>3
<1>5. \A y \in T : x <= y
    BY <1>4
<1>6. QED
    BY <1>5

\* MostRecent is the time of one of the requests, and none is later.
LEMMA MostRecentIsLatest ==
    ASSUME at \in [Request -> 0..MaxTime], NEW times \in SUBSET Request, times # {}
    PROVE  /\ MostRecent(times) \in {at[r] : r \in times}
           /\ \A r \in times : at[r] <= MostRecent(times)
<1> USE LimiterConfiguration
<1> DEFINE T == {MaxTime - at[r] : r \in times}
<1>1. T \in SUBSET Nat /\ T # {}
    OBVIOUS
<1>2. PICK x \in T : \A y \in T : x <= y
    BY <1>1, LeastNatural
<1>3. PICK q \in times : x = MaxTime - at[q]
    BY <1>2
<1>4. ASSUME NEW r \in times
      PROVE  at[r] <= at[q]
  <2>1. MaxTime - at[r] \in T
      OBVIOUS
  <2>2. MaxTime - at[q] <= MaxTime - at[r]
      BY <1>2, <1>3, <2>1
  <2>3. at[r] \in Int /\ at[q] \in Int /\ MaxTime \in Int
      OBVIOUS
  <2> HIDE DEF T
  <2>4. QED
      BY <2>2, <2>3
<1>5. \E t \in {at[r] : r \in times} : \A r \in times : at[r] <= t
    BY <1>4
<1>6. QED
    BY <1>5 DEF MostRecent

\* A cleanup does not change when an address was last let through.
LEMMA MostRecentOfValid ==
    ASSUME at \in [Request -> 0..MaxTime], now \in 0..MaxTime,
           NEW times \in SUBSET Request, Valid(times) # {}
    PROVE  MostRecent(Valid(times)) = MostRecent(times)
<1> USE LimiterConfiguration
<1>1. Valid(times) \in SUBSET Request /\ Valid(times) \subseteq times
    BY DEF Valid
<1>2. PICK q \in Valid(times) : at[q] = MostRecent(Valid(times))
    BY <1>1, MostRecentIsLatest
<1>3. PICK p \in times : at[p] = MostRecent(times)
    BY <1>1, MostRecentIsLatest
<1>4. at[q] <= at[p]
    BY <1>1, <1>2, <1>3, MostRecentIsLatest
<1>5. p \in Valid(times)
    BY <1>1, <1>2, <1>4 DEF Valid
<1>6. at[p] <= at[q]
    BY <1>1, <1>2, <1>5, MostRecentIsLatest
<1>7. QED
    BY <1>1, <1>2, <1>3, <1>4, <1>6

-----------------------------------------------------------------------------
(* Lemmas about the map.                                                   *)

\* m is the map after cleanups: no address without times, and no valid time lost.
Trims(m) ==
    /\ DOMAIN m \subseteq DOMAIN requests
    /\ \A c \in DOMAIN m :
          m[c] # {} /\ m[c] \subseteq requests[c] /\ Valid(m[c]) = Valid(requests[c])
    /\ \A c \in DOMAIN requests : Valid(requests[c]) # {} => c \in DOMAIN m

\* cleanupExpired drops expired times and the addresses that have no others.
LEMMA CleanupTrims ==
    ASSUME NEW m, Trims(m)
    PROVE  /\ Trims(cleanupExpired(m))
           /\ DOMAIN cleanupExpired(m) = {c \in DOMAIN requests : Valid(requests[c]) # {}}
           /\ \A c \in DOMAIN cleanupExpired(m) : cleanupExpired(m)[c] = Valid(requests[c])
<1>1. \A S : Valid(Valid(S)) = Valid(S) /\ Valid(S) \subseteq S
    BY DEF Valid
<1>2. DOMAIN cleanupExpired(m) = {c \in DOMAIN m : Valid(m[c]) # {}}
    BY DEF cleanupExpired
<1>3. DOMAIN cleanupExpired(m) = {c \in DOMAIN requests : Valid(requests[c]) # {}}
    BY <1>2 DEF Trims
<1>4. \A c \in DOMAIN cleanupExpired(m) : cleanupExpired(m)[c] = Valid(requests[c])
    BY <1>2 DEF cleanupExpired, Trims
<1>5. QED
    BY <1>1, <1>3, <1>4 DEF Trims

\* The map the handler works on, before and after it made room.
LEMMA ReducedTrims ==
    ASSUME TypeOK, NEW c
    PROVE  Trims(Cleaned) /\ Trims(Reduced(c))
<1>1. Trims(requests)
    BY DEF Trims, TypeOK
<1>2. Trims(Cleaned)
    BY <1>1, CleanupTrims DEF Cleaned
<1>3. QED
    BY <1>2, CleanupTrims DEF Reduced

\* The times an address is judged by are the valid ones the map has for it.
LEMMA TimesAreValid ==
    ASSUME TypeOK, NEW c \in Client
    PROVE  /\ Valid(Times(c)) = IF c \in DOMAIN requests THEN Valid(requests[c]) ELSE {}
           /\ Valid(Times(c)) \subseteq {s \in Request : client[s] = c /\ verdict[s] = "passed"}
           /\ Times(c) = {} <=> c \notin DOMAIN Cleaned
<1>1. Trims(Cleaned)
    BY ReducedTrims
<1>2. Valid({}) = {} /\ \A S : Valid(S) \subseteq S
    BY DEF Valid
<1>3. Valid(Times(c)) = IF c \in DOMAIN requests THEN Valid(requests[c]) ELSE {}
  <2>1. CASE c \in DOMAIN Cleaned
      BY <1>1, <2>1 DEF Times, Trims
  <2>2. CASE c \notin DOMAIN Cleaned
      BY <1>1, <1>2, <2>2 DEF Times, Trims
  <2>3. QED
      BY <2>1, <2>2
<1>4. Times(c) = {} <=> c \notin DOMAIN Cleaned
    BY <1>1 DEF Times, Trims
<1>5. QED
    BY <1>2, <1>3, <1>4 DEF TypeOK

\* Whoever made room for an address, the map still fits once it is put in.
LEMMA PutBounded ==
    ASSUME NEW m, NEW c, NEW times, IsFiniteSet(DOMAIN m),
           c \in DOMAIN m \/ Cardinality(DOMAIN m) < MaxTracked,
           Cardinality(DOMAIN m) <= MaxTracked
    PROVE  /\ IsFiniteSet(DOMAIN Put(m, c, times))
           /\ Cardinality(DOMAIN Put(m, c, times)) <= MaxTracked
<1>1. DOMAIN Put(m, c, times) = DOMAIN m \cup {c}
    BY DEF Put
<1>2. Cardinality(DOMAIN m) \in Nat /\ MaxTracked \in Nat
    BY FS_CardinalityType, LimiterConfiguration
<1>3. QED
    BY <1>1, <1>2, FS_AddElement

\* A map after cleanups is finite and fits.
LEMMA TrimsBounded ==
    ASSUME NEW m, Trims(m), IsFiniteSet(DOMAIN requests), MapBounded
    PROVE  IsFiniteSet(DOMAIN m) /\ Cardinality(DOMAIN m) <= MaxTracked
<1>1. DOMAIN m \in SUBSET DOMAIN requests
    BY DEF Trims
<1>2. IsFiniteSet(DOMAIN m) /\ Cardinality(DOMAIN m) <= Cardinality(DOMAIN requests)
    BY <1>1, FS_Subset
<1>3. Cardinality(DOMAIN m) \in Nat /\ Cardinality(DOMAIN requests) \in Nat /\ MaxTracked \in Nat
    BY <1>2, FS_CardinalityType, LimiterConfiguration
<1>4. QED
    BY <1>2, <1>3 DEF MapBounded

-----------------------------------------------------------------------------
(* What the three verdicts of the handler have in common.                  *)

\* The request itself, if it is let through.
Admitted(r, v) == IF v = "passed" THEN {r} ELSE {}

\* The handler judges r of c by what the map has of c, stores the valid times
\* in m, which is the map without expired times and a victim, and owes keys.
Judges(r, c, v, m, keys) ==
    /\ Judge(r, c, v)
    /\ \/ v = "passed" /\ Cardinality(Valid(Times(c))) < Limit
       \/ v = "refused" /\ Cardinality(Valid(Times(c))) >= Limit
    /\ requests' = Put(m, c, Valid(Times(c)) \cup Admitted(r, v))
    /\ DOMAIN m \subseteq DOMAIN requests
    /\ \A d \in DOMAIN m :
          m[d] # {} /\ m[d] \subseteq requests[d] /\ Valid(m[d]) = Valid(requests[d])
    /\ IsFiniteSet(DOMAIN m) /\ Cardinality(DOMAIN m) <= MaxTracked
    /\ c \in DOMAIN m \/ Cardinality(DOMAIN m) < MaxTracked
    /\ memory' \in [Client -> SUBSET Request]
    /\ \A d \in Client :
          /\ memory'[d] \subseteq memory[d] \cup Admitted(r, v)
          /\ d # c => memory'[d] \subseteq memory[d]
          /\ (d # c /\ d \in DOMAIN requests /\ d \notin DOMAIN m /\ Valid(requests[d]) # {})
                => memory'[d] = {}
    /\ Owes(r, keys)
    /\ keys \in {<<"rate_limited", "http_4xx", "http_count">>, <<"http_2xx", "http_count">>,
                 <<"evictions", "http_2xx", "http_count">>}
    /\ UNCHANGED <<now, cellOf, cell, plain, recorded, step, ptr>>

\* A refusal: the address has valid times, so it is in the map already.
LEMMA RefuseJudges ==
    ASSUME LimiterInv, NEW r \in Request, NEW c \in Client, Refuse(r, c)
    PROVE  Judges(r, c, "refused", Cleaned, <<"rate_limited", "http_4xx", "http_count">>)
<1>1. TypeOK /\ IsFiniteSet(DOMAIN requests) /\ MapBounded
    BY DEF LimiterInv
<1>2. Trims(Cleaned)
    BY <1>1, ReducedTrims
<1>3. IsFiniteSet(DOMAIN Cleaned) /\ Cardinality(DOMAIN Cleaned) <= MaxTracked
    BY <1>1, <1>2, TrimsBounded
<1>4. Valid(Times(c)) # {}
  <2>1. Cardinality(Valid(Times(c))) >= Limit /\ Limit \in Nat \ {0}
      BY LimiterConfiguration DEF Refuse
  <2>2. QED
      BY <2>1, FS_EmptySet
<1>5. c \in DOMAIN Cleaned
    BY <1>4 DEF Times, Valid
<1>6. memory' = memory /\ memory \in [Client -> SUBSET Request]
    BY <1>1 DEF Refuse, TypeOK
<1>7. Judge(r, c, "refused") /\ Cardinality(Valid(Times(c))) >= Limit
      /\ Owes(r, <<"rate_limited", "http_4xx", "http_count">>)
      /\ UNCHANGED <<now, cellOf, cell, plain, recorded, step, ptr>>
    BY DEF Refuse
<1>8. requests' = Put(Cleaned, c, Valid(Times(c)) \cup Admitted(r, "refused"))
  <2>1. Valid(Times(c)) \cup Admitted(r, "refused") = Valid(Times(c))
      BY DEF Admitted
  <2>2. requests' = Put(Cleaned, c, Valid(Times(c)))
      BY DEF Refuse
  <2>3. QED
      BY <2>1, <2>2
<1>9. QED
    BY <1>2, <1>3, <1>5, <1>6, <1>7, <1>8 DEF Judges, Trims

\* A request let through with room in the map.
LEMMA PassJudges ==
    ASSUME LimiterInv, NEW r \in Request, NEW c \in Client, Pass(r, c)
    PROVE  Judges(r, c, "passed", Reduced(c), <<"http_2xx", "http_count">>)
<1>1. TypeOK /\ IsFiniteSet(DOMAIN requests) /\ MapBounded
    BY DEF LimiterInv
<1>2. Trims(Reduced(c)) /\ Trims(Cleaned)
    BY <1>1, ReducedTrims
<1>3. IsFiniteSet(DOMAIN Reduced(c)) /\ Cardinality(DOMAIN Reduced(c)) <= MaxTracked
      /\ IsFiniteSet(DOMAIN Cleaned)
    BY <1>1, <1>2, TrimsBounded
<1>4. Cardinality(DOMAIN Reduced(c)) \in Nat /\ Cardinality(DOMAIN Cleaned) \in Nat
      /\ MaxTracked \in Nat
    BY <1>3, FS_CardinalityType, LimiterConfiguration
<1>5. c \in DOMAIN Reduced(c) \/ Cardinality(DOMAIN Reduced(c)) < MaxTracked
  <2>1. CASE NeedsRoom(c)
      BY <1>4, <2>1 DEF Pass, Full
  <2>2. CASE ~NeedsRoom(c)
    <3>1. Reduced(c) = Cleaned
        BY <2>2 DEF Reduced
    <3>2. Times(c) # {} \/ ~(Cardinality(DOMAIN Cleaned) >= MaxTracked)
        BY <2>2 DEF NeedsRoom
    <3>3. Times(c) # {} => c \in DOMAIN Cleaned
        BY DEF Times
    <3>4. QED
        BY <1>4, <3>1, <3>2, <3>3
  <2>3. QED
      BY <2>1, <2>2
<1>6. memory \in [Client -> SUBSET Request] /\ memory' = [memory EXCEPT ![c] = @ \cup {r}]
    BY <1>1 DEF Pass, TypeOK
<1>7. /\ memory' \in [Client -> SUBSET Request]
      /\ \A d \in Client : /\ memory'[d] \subseteq memory[d] \cup Admitted(r, "passed")
                           /\ d # c => memory'[d] \subseteq memory[d]
    BY <1>6 DEF Admitted
<1>8. Judge(r, c, "passed") /\ Cardinality(Valid(Times(c))) < Limit
      /\ Owes(r, <<"http_2xx", "http_count">>)
      /\ UNCHANGED <<now, cellOf, cell, plain, recorded, step, ptr>>
    BY DEF Pass
<1>9. requests' = Put(Reduced(c), c, Valid(Times(c)) \cup Admitted(r, "passed"))
    BY DEF Pass, Remember, Admitted
<1>10. QED
    BY <1>2, <1>3, <1>5, <1>7, <1>8, <1>9 DEF Judges, Trims

\* A request let through into a full map: the victim is another address.
LEMMA EvictJudges ==
    ASSUME LimiterInv, NEW r \in Request, NEW c \in Client, NEW victim \in Client,
           PassEvicting(r, c, victim)
    PROVE  Judges(r, c, "passed", Forget(Reduced(c), victim),
                  <<"evictions", "http_2xx", "http_count">>)
<1>1. TypeOK /\ IsFiniteSet(DOMAIN requests) /\ MapBounded
    BY DEF LimiterInv
<1>2. Trims(Reduced(c)) /\ Trims(Cleaned)
    BY <1>1, ReducedTrims
<1>3. IsFiniteSet(DOMAIN Reduced(c)) /\ Cardinality(DOMAIN Reduced(c)) <= MaxTracked
    BY <1>1, <1>2, TrimsBounded
<1>4. victim \in DOMAIN Reduced(c)
    BY DEF PassEvicting, Evictable
<1>5. victim # c
  <2>1. Times(c) = {} /\ Reduced(c) = cleanupExpired(Cleaned)
      BY DEF PassEvicting, Full, NeedsRoom, Reduced
  <2>2. c \notin DOMAIN Cleaned
      BY <1>1, <2>1, TimesAreValid
  <2>3. DOMAIN cleanupExpired(Cleaned) \subseteq DOMAIN Cleaned
      BY DEF cleanupExpired
  <2>4. QED
      BY <1>4, <2>1, <2>2, <2>3
<1>6. PICK m : m = Forget(Reduced(c), victim)
    OBVIOUS
<1>7. /\ DOMAIN m = DOMAIN Reduced(c) \ {victim}
      /\ \A d \in DOMAIN m : m[d] = Reduced(c)[d]
    BY <1>6 DEF Forget
<1>8. IsFiniteSet(DOMAIN m) /\ Cardinality(DOMAIN m) < MaxTracked
  <2>1. IsFiniteSet(DOMAIN m) /\ Cardinality(DOMAIN m) = Cardinality(DOMAIN Reduced(c)) - 1
      BY <1>3, <1>4, <1>7, FS_RemoveElement
  <2>2. Cardinality(DOMAIN Reduced(c)) \in Nat /\ MaxTracked \in Nat
      BY <1>3, FS_CardinalityType, LimiterConfiguration
  <2>3. QED
      BY <1>3, <2>1, <2>2
<1>9. Cardinality(DOMAIN m) <= MaxTracked
    BY <1>8, FS_CardinalityType, LimiterConfiguration
<1>10. memory \in [Client -> SUBSET Request]
       /\ memory' = [memory EXCEPT ![victim] = {}, ![c] = @ \cup {r}]
    BY <1>1 DEF PassEvicting, TypeOK
<1>11. /\ memory' \in [Client -> SUBSET Request]
       /\ memory'[victim] = {}
       /\ \A d \in Client : /\ memory'[d] \subseteq memory[d] \cup Admitted(r, "passed")
                            /\ d # c => memory'[d] \subseteq memory[d]
    BY <1>5, <1>10 DEF Admitted
<1>12. \A d \in DOMAIN requests :
          d \notin DOMAIN m /\ Valid(requests[d]) # {} => d = victim
    BY <1>2, <1>7 DEF Trims
<1>13. /\ DOMAIN m \subseteq DOMAIN requests
       /\ \A d \in DOMAIN m :
             m[d] # {} /\ m[d] \subseteq requests[d] /\ Valid(m[d]) = Valid(requests[d])
    BY <1>2, <1>7 DEF Trims
<1>14. Judge(r, c, "passed") /\ Cardinality(Valid(Times(c))) < Limit
       /\ Owes(r, <<"evictions", "http_2xx", "http_count">>)
       /\ UNCHANGED <<now, cellOf, cell, plain, recorded, step, ptr>>
    BY DEF PassEvicting
<1>15. requests' = Put(m, c, Valid(Times(c)) \cup Admitted(r, "passed"))
    BY <1>6 DEF PassEvicting, Remember, Admitted
<1>16. Judges(r, c, "passed", m, <<"evictions", "http_2xx", "http_count">>)
    BY <1>8, <1>9, <1>11, <1>12, <1>13, <1>14, <1>15 DEF Judges
<1>17. QED
    BY <1>6, <1>16

-----------------------------------------------------------------------------
(* A verdict keeps the invariant.                                          *)

\* The verdict is on r alone, and the map never had a request without one.
LEMMA JudgesFrame ==
    ASSUME TypeOK, NEW r \in Request, NEW c \in Client, NEW v, NEW m, NEW keys,
           Judges(r, c, v, m, keys)
    PROVE  /\ v \in {"passed", "refused"} /\ now' = now /\ verdict[r] = "none"
           /\ client' \in [Request -> Client \cup {NoClient}] /\ client'[r] = c
           /\ at' \in [Request -> 0..MaxTime] /\ at'[r] = now
           /\ verdict' \in [Request -> {"none", "passed", "refused"}] /\ verdict'[r] = v
           /\ \A s \in Request : s # r =>
                 client'[s] = client[s] /\ at'[s] = at[s] /\ verdict'[s] = verdict[s]
           /\ cleanupAfter' \in 0..CleanupEvery - 1
<1> USE LimiterConfiguration
<1>1. Judge(r, c, v) /\ v \in {"passed", "refused"} /\ now' = now
    BY DEF Judges
<1>2. client' = [client EXCEPT ![r] = c] /\ client \in [Request -> Client \cup {NoClient}]
    BY <1>1 DEF Judge, TypeOK
<1>3. at' = [at EXCEPT ![r] = now] /\ at \in [Request -> 0..MaxTime] /\ now \in 0..MaxTime
    BY <1>1 DEF Judge, TypeOK
<1>4. verdict' = [verdict EXCEPT ![r] = v] /\ verdict[r] = "none"
      /\ verdict \in [Request -> {"none", "passed", "refused"}]
    BY <1>1 DEF Judge, TypeOK
<1>5. cleanupAfter' \in 0..CleanupEvery - 1
  <2>1. cleanupAfter \in 0..CleanupEvery - 1
        /\ cleanupAfter' = IF cleanupAfter + 1 >= CleanupEvery THEN 0 ELSE cleanupAfter + 1
      BY <1>1 DEF Judge, TypeOK
  <2>2. QED
      BY <2>1
<1>6. QED
    BY <1>1, <1>2, <1>3, <1>4, <1>5

\* The map has the times of addresses that were let through at them.
LEMMA JudgesMap ==
    ASSUME TypeOK, NEW r \in Request, NEW c \in Client, NEW v, NEW m, NEW keys,
           Judges(r, c, v, m, keys)
    PROVE  /\ DOMAIN requests' = DOMAIN m \cup {c}
           /\ requests'[c] = Valid(Times(c)) \cup Admitted(r, v)
           /\ \A d \in DOMAIN m : d # c => requests'[d] = m[d]
           /\ DOMAIN requests' \subseteq Client
           /\ \A d \in DOMAIN requests' :
                 /\ requests'[d] # {}
                 /\ requests'[d] \subseteq {s \in Request : client'[s] = d /\ verdict'[s] = "passed"}
<1>1. requests' = Put(m, c, Valid(Times(c)) \cup Admitted(r, v))
    BY DEF Judges
<1>2. /\ DOMAIN requests' = DOMAIN m \cup {c}
      /\ requests'[c] = Valid(Times(c)) \cup Admitted(r, v)
      /\ \A d \in DOMAIN m : d # c => requests'[d] = m[d]
    BY <1>1 DEF Put
<1>3. DOMAIN requests' \subseteq Client
    BY <1>2 DEF Judges, TypeOK
<1>4. Valid(Times(c)) \subseteq {s \in Request : client[s] = c /\ verdict[s] = "passed"}
    BY TimesAreValid
<1>5. requests'[c] # {}
  <2>1. CASE v = "passed"
      BY <1>2, <2>1 DEF Admitted
  <2>2. CASE v # "passed"
    <3>1. Cardinality(Valid(Times(c))) >= Limit /\ Limit \in Nat \ {0}
        BY <2>2, LimiterConfiguration DEF Judges
    <3>2. Valid(Times(c)) # {}
        BY <3>1, FS_EmptySet
    <3>3. QED
        BY <1>2, <3>2
  <2>3. QED
      BY <2>1, <2>2
<1>6. requests'[c] \subseteq {s \in Request : client'[s] = c /\ verdict'[s] = "passed"}
    BY <1>2, <1>4, JudgesFrame DEF Admitted
<1>7. ASSUME NEW d \in DOMAIN m, d # c
      PROVE  /\ requests'[d] # {}
             /\ requests'[d] \subseteq {s \in Request : client'[s] = d /\ verdict'[s] = "passed"}
  <2>1. requests'[d] = m[d] /\ m[d] # {} /\ m[d] \subseteq requests[d] /\ d \in DOMAIN requests
      BY <1>2, <1>7 DEF Judges
  <2>2. requests[d] \subseteq {s \in Request : client[s] = d /\ verdict[s] = "passed"}
      BY <2>1 DEF TypeOK
  <2>3. QED
      BY <2>1, <2>2, JudgesFrame
<1>8. QED
    BY <1>2, <1>3, <1>5, <1>6, <1>7

\* The types, the bound of the map and what it remembers survive a verdict.
LEMMA JudgesTypes ==
    ASSUME LimiterInv, NEW r \in Request, NEW c \in Client, NEW v, NEW m, NEW keys,
           Judges(r, c, v, m, keys)
    PROVE  /\ TypeOK'
           /\ (IsFiniteSet(DOMAIN requests) /\ MapBounded)'
           /\ \A q \in Request : JudgedOK(q)'
<1>1. TypeOK /\ \A q \in Request : JudgedOK(q)
    BY DEF LimiterInv
<1>2. owed' = [owed EXCEPT ![r] = keys] /\ keys \in Seq(Label \cup Plain)
  <2>1. owed' = [owed EXCEPT ![r] = keys]
      BY DEF Judges, Owes
  <2>2. /\ <<"rate_limited", "http_4xx", "http_count">> \in Seq(Label \cup Plain)
        /\ <<"http_2xx", "http_count">> \in Seq(Label \cup Plain)
        /\ <<"evictions", "http_2xx", "http_count">> \in Seq(Label \cup Plain)
      BY CounterNames
  <2>3. QED
      BY <2>1, <2>2 DEF Judges
<1>3. owed \in [Request -> Seq(Label \cup Plain)]
    BY <1>1 DEF TypeOK, MetricsTypeOK
<1>4. owed' \in [Request -> Seq(Label \cup Plain)]
    BY <1>2, <1>3
<1>5. UNCHANGED <<now, cellOf, cell, plain, recorded, step, ptr>>
    BY DEF Judges
<1>6. MetricsTypeOK'
    BY <1>1, <1>4, <1>5 DEF TypeOK, MetricsTypeOK, Cell
<1>7. TypeOK'
  <2>1. memory' \in [Client -> SUBSET Request]
      BY DEF Judges
  <2>2. now' \in 0..MaxTime
      BY <1>1, <1>5 DEF TypeOK
  <2>3. QED
      BY <1>1, <1>6, <2>1, <2>2, JudgesFrame, JudgesMap DEF TypeOK
<1>8. (IsFiniteSet(DOMAIN requests) /\ MapBounded)'
    BY PutBounded DEF Judges, MapBounded
<1>9. ASSUME NEW q \in Request
      PROVE  JudgedOK(q)'
  <2>1. now \in 0..MaxTime
      BY <1>1 DEF TypeOK
  <2>2. CASE q = r
      BY <1>1, <2>1, <2>2, JudgesFrame, LimiterConfiguration DEF JudgedOK
  <2>3. CASE q # r
    <3>1. owed'[q] = owed[q]
        BY <1>2, <1>3, <2>3
    <3>2. QED
        BY <1>1, <1>5, <2>3, <3>1, JudgesFrame DEF JudgedOK
  <2>4. QED
      BY <2>2, <2>3
<1>10. QED
    BY <1>7, <1>8, <1>9

\* Nothing that still counts against an address is lost, unless it is evicted.
LEMMA JudgesMemory ==
    ASSUME LimiterInv, NEW r \in Request, NEW c \in Client, NEW v, NEW m, NEW keys,
           Judges(r, c, v, m, keys)
    PROVE  \A d \in Client : MemoryOK(d)'
<1>1. TypeOK /\ \A d \in Client : MemoryOK(d)
    BY DEF LimiterInv
<1>map. /\ DOMAIN requests' = DOMAIN m \cup {c}
      /\ requests'[c] = Valid(Times(c)) \cup Admitted(r, v)
      /\ \A b \in DOMAIN m : b # c => requests'[b] = m[b]
  <2>1. requests' = Put(m, c, Valid(Times(c)) \cup Admitted(r, v))
      BY DEF Judges
  <2>2. QED
      BY <2>1 DEF Put
<1>2. SUFFICES ASSUME NEW d \in Client, NEW s \in memory'[d]
               PROVE  /\ verdict'[s] = "passed"
                      /\ now' - at'[s] <= Window => d \in DOMAIN requests' /\ s \in requests'[d]
    BY DEF MemoryOK
<1>3. s \in Request
    BY DEF Judges
<1>4. CASE s \notin memory[d]
  <2>1. s = r /\ v = "passed" /\ d = c
      BY <1>4 DEF Judges, Admitted
  <2>2. verdict'[r] = "passed"
      BY <1>1, <2>1, JudgesFrame
  <2>3. r \in requests'[c]
      BY <1>map, <2>1 DEF Admitted
  <2>4. QED
      BY <1>map, <2>1, <2>2, <2>3
<1>5. CASE s \in memory[d]
  <2>1. verdict[s] = "passed" /\ s # r
      BY <1>1, <1>5, JudgesFrame DEF MemoryOK
  <2>2. verdict'[s] = "passed" /\ at'[s] = at[s] /\ now' = now
      BY <1>1, <1>3, <2>1, JudgesFrame
  <2>3. ASSUME now - at[s] <= Window
        PROVE  d \in DOMAIN requests' /\ s \in requests'[d]
    <3>1. d \in DOMAIN requests /\ s \in Valid(requests[d])
        BY <1>1, <1>5, <2>3 DEF MemoryOK, Valid
    <3>2. CASE d = c
      <4>1. s \in Valid(Times(c))
          BY <1>1, <3>1, <3>2, TimesAreValid
      <4>2. QED
          BY <1>map, <3>2, <4>1
    <3>3. CASE d # c
      <4>1. d \in DOMAIN m
          BY <3>1, <3>3 DEF Judges
      <4>2. s \in m[d]
          BY <3>1, <4>1 DEF Judges, Valid
      <4>3. QED
          BY <1>map, <3>3, <4>1, <4>2
    <3>4. QED
        BY <3>2, <3>3
  <2>4. QED
      BY <2>2, <2>3
<1>6. QED
    BY <1>4, <1>5

\* The requests of c that count against one let through now are those the map
\* has, so fewer than Limit before it.
LEMMA JudgesWithinLimit ==
    ASSUME LimiterInv, NEW r \in Request, NEW c \in Client, NEW v, NEW m, NEW keys,
           Judges(r, c, v, m, keys)
    PROVE  WithinLimit'
<1> USE LimiterConfiguration
<1>1. TypeOK /\ (\A d \in Client : MemoryOK(d)) /\ (\A q \in Request : JudgedOK(q)) /\ WithinLimit
    BY DEF LimiterInv
<1>2. /\ memory \in [Client -> SUBSET Request] /\ memory' \in [Client -> SUBSET Request]
      /\ at \in [Request -> 0..MaxTime] /\ now \in 0..MaxTime
    BY <1>1 DEF TypeOK, Judges
<1>3. SUFFICES ASSUME NEW d \in Client, NEW p \in memory'[d]
               PROVE  Cardinality({s \in memory'[d] : at'[s] <= at'[p] /\ at'[p] - at'[s] <= Window})
                         <= Limit
    BY DEF WithinLimit, InWindowOf
<1>4. PICK S : S = {s \in memory'[d] : at'[s] <= at'[p] /\ at'[p] - at'[s] <= Window}
    OBVIOUS
<1>5. S \subseteq Request /\ p \in Request
    BY <1>2, <1>4
<1>6. CASE r \in S \/ p = r
  <2>1. at'[p] = now
    <3>1. CASE p = r
        BY <1>1, <3>1, JudgesFrame
    <3>2. CASE p # r
      <4>1. at'[p] = at[p] /\ at'[r] = now /\ at[p] <= now
          BY <1>1, <1>5, <3>2, JudgesFrame DEF JudgedOK
      <4>2. at'[r] <= at'[p]
          BY <1>4, <1>6, <3>2
      <4>3. QED
          BY <1>2, <1>5, <4>1, <4>2
    <3>3. QED
        BY <3>1, <3>2
  <2>2. r \in memory'[d]
      BY <1>4, <1>6
  <2>3. d = c /\ v = "passed"
    <3>1. r \notin memory[d]
        BY <1>1, JudgesFrame DEF MemoryOK
    <3>2. QED
        BY <2>2, <3>1 DEF Judges, Admitted
  <2>4. S \subseteq Valid(Times(c)) \cup {r}
    <3>1. SUFFICES ASSUME NEW s \in S, s # r
                   PROVE  s \in Valid(Times(c))
        OBVIOUS
    <3>2. s \in memory[c]
        BY <1>4, <2>3, <3>1 DEF Judges, Admitted
    <3>3. at'[s] = at[s] /\ now - at[s] <= Window
        BY <1>1, <1>4, <1>5, <2>1, <3>1, JudgesFrame
    <3>4. c \in DOMAIN requests /\ s \in Valid(requests[c])
        BY <1>1, <3>2, <3>3 DEF MemoryOK, Valid
    <3>5. QED
        BY <1>1, <3>4, TimesAreValid
  <2>5. Cardinality(Valid(Times(c))) < Limit
      BY <2>3 DEF Judges
  <2>6. IsFiniteSet(Valid(Times(c)))
    <3>1. Valid(Times(c)) \subseteq Request
        BY <1>1, TimesAreValid
    <3>2. QED
        BY <3>1, FS_Subset
  <2>7. Cardinality(S) <= Cardinality(Valid(Times(c))) + 1
    <3>1. /\ IsFiniteSet(Valid(Times(c)) \cup {r})
          /\ \/ Cardinality(Valid(Times(c)) \cup {r}) = Cardinality(Valid(Times(c))) + 1
             \/ Cardinality(Valid(Times(c)) \cup {r}) = Cardinality(Valid(Times(c)))
        BY <2>6, FS_AddElement
    <3>2. IsFiniteSet(S) /\ Cardinality(S) <= Cardinality(Valid(Times(c)) \cup {r})
        BY <2>4, <3>1, FS_Subset
    <3>3. Cardinality(S) \in Nat /\ Cardinality(Valid(Times(c))) \in Nat
        BY <2>6, <3>2, FS_CardinalityType
    <3>4. QED
        BY <3>1, <3>2, <3>3
  <2>8. IsFiniteSet(S)
      BY <1>5, FS_Subset
  <2>9. Cardinality(S) \in Nat /\ Cardinality(Valid(Times(c))) \in Nat
      BY <2>6, <2>8, FS_CardinalityType
  <2>10. QED
      BY <1>4, <2>5, <2>7, <2>9
<1>7. CASE r \notin S /\ p # r
  <2>1. PICK old : old = {s \in memory[d] : InWindowOf(p, s)}
      OBVIOUS
  <2>2. p \in memory[d]
      BY <1>7 DEF Judges, Admitted
  <2>3. S \subseteq old
    <3>1. SUFFICES ASSUME NEW s \in S
                   PROVE  s \in old
        OBVIOUS
    <3>2. s # r /\ s \in memory[d]
        BY <1>4, <1>7 DEF Judges, Admitted
    <3>3. at'[s] = at[s] /\ at'[p] = at[p]
        BY <1>1, <1>5, <1>7, <3>2, JudgesFrame
    <3>4. QED
        BY <1>4, <2>1, <3>2, <3>3 DEF InWindowOf
  <2>4. old \subseteq Request
      BY <1>2, <2>1
  <2>5. IsFiniteSet(old)
      BY <2>4, FS_Subset
  <2>6. IsFiniteSet(S) /\ Cardinality(S) <= Cardinality(old)
      BY <2>3, <2>5, FS_Subset
  <2>7. Cardinality(old) <= Limit
      BY <1>1, <2>1, <2>2 DEF WithinLimit
  <2>8. Cardinality(S) \in Nat /\ Cardinality(old) \in Nat
      BY <2>5, <2>6, FS_CardinalityType
  <2>9. QED
      BY <1>4, <2>6, <2>7, <2>8
<1>8. QED
    BY <1>6, <1>7

\* A refusal is backed by Limit requests of the address, and later verdicts take
\* none of them away.
LEMMA JudgesSpent ==
    ASSUME LimiterInv, NEW r \in Request, NEW c \in Client, NEW v, NEW m, NEW keys,
           Judges(r, c, v, m, keys)
    PROVE  RefusedOnlyWhenSpent'
<1> USE LimiterConfiguration
<1>1. TypeOK /\ RefusedOnlyWhenSpent /\ \A q \in Request : JudgedOK(q)
    BY DEF LimiterInv
<1>2. at \in [Request -> 0..MaxTime] /\ now \in 0..MaxTime
    BY <1>1 DEF TypeOK
<1>3. SUFFICES ASSUME NEW q \in Request, verdict'[q] = "refused"
               PROVE  Cardinality({s \in Request :
                         verdict'[s] = "passed" /\ client'[s] = client'[q]
                         /\ at'[s] <= at'[q] /\ at'[q] - at'[s] <= Window}) >= Limit
    BY DEF RefusedOnlyWhenSpent, InWindowOf
<1>4. PICK S : S = {s \in Request : verdict'[s] = "passed" /\ client'[s] = client'[q]
                                   /\ at'[s] <= at'[q] /\ at'[q] - at'[s] <= Window}
    OBVIOUS
<1>5. ASSUME NEW old \in SUBSET S, Cardinality(old) >= Limit
      PROVE  Cardinality(S) >= Limit
  <2>1. S \subseteq Request
      BY <1>4
  <2>2. IsFiniteSet(S)
      BY <2>1, FS_Subset
  <2>3. IsFiniteSet(old) /\ Cardinality(old) <= Cardinality(S)
      BY <2>2, FS_Subset
  <2>4. Cardinality(old) \in Nat /\ Cardinality(S) \in Nat
      BY <2>2, <2>3, FS_CardinalityType
  <2>5. QED
      BY <1>5, <2>3, <2>4
<1>6. CASE q = r
  <2>1. v = "refused" /\ Cardinality(Valid(Times(c))) >= Limit
    <3>1. verdict'[r] = v
        BY <1>1, JudgesFrame
    <3>2. QED
        BY <1>3, <1>6, <3>1 DEF Judges
  <2>2. Valid(Times(c)) \subseteq S
    <3>1. SUFFICES ASSUME NEW s \in Valid(Times(c))
                   PROVE  s \in S
        OBVIOUS
    <3>2. s \in Request /\ client[s] = c /\ verdict[s] = "passed"
        BY <1>1, TimesAreValid
    <3>3. now - at[s] <= Window /\ at[s] <= now /\ s # r
        BY <1>1, <3>2, JudgesFrame DEF Valid, JudgedOK
    <3>4. QED
        BY <1>1, <1>4, <1>6, <3>2, <3>3, JudgesFrame
  <2>3. QED
      BY <1>4, <1>5, <2>1, <2>2
<1>7. CASE q # r
  <2>1. verdict[q] = "refused"
      BY <1>1, <1>3, <1>7, JudgesFrame
  <2>2. PICK old : old = {s \in Request : verdict[s] = "passed" /\ client[s] = client[q]
                                         /\ InWindowOf(q, s)}
      OBVIOUS
  <2>3. Cardinality(old) >= Limit
      BY <1>1, <2>1, <2>2 DEF RefusedOnlyWhenSpent
  <2>4. old \subseteq S
    <3>1. SUFFICES ASSUME NEW s \in old
                   PROVE  s \in S
        OBVIOUS
    <3>2. s \in Request /\ verdict[s] = "passed" /\ client[s] = client[q] /\ InWindowOf(q, s)
        BY <2>2
    <3>3. s # r
        BY <1>1, <3>2, JudgesFrame
    <3>4. QED
        BY <1>1, <1>4, <1>7, <3>2, <3>3, JudgesFrame DEF InWindowOf
  <2>5. QED
      BY <1>4, <1>5, <2>3, <2>4
<1>8. QED
    BY <1>6, <1>7

-----------------------------------------------------------------------------
(* The other steps keep the limiter's invariant, and so does every step.   *)

\* Time passes: windows close, none opens.
LEMMA TickPreserves ==
    ASSUME LimiterInv, Tick
    PROVE  LimiterInv'
<1> USE LimiterConfiguration
<1>1. TypeOK /\ IsFiniteSet(DOMAIN requests) /\ MapBounded /\ WithinLimit /\ RefusedOnlyWhenSpent
    BY DEF LimiterInv
<1>2. now' = now + 1 /\ now < MaxTime
      /\ UNCHANGED <<requests, cleanupAfter, client, at, verdict, memory, metrics>>
    BY DEF Tick
<1>3. UNCHANGED <<cellOf, cell, plain, owed, recorded, step, ptr>>
    BY <1>2 DEF metrics
<1>4. now \in 0..MaxTime /\ at \in [Request -> 0..MaxTime] /\ memory \in [Client -> SUBSET Request]
    BY <1>1 DEF TypeOK
<1>5. MetricsTypeOK'
    BY <1>1, <1>3 DEF TypeOK, MetricsTypeOK, Cell
<1>6. now' \in 0..MaxTime
    BY <1>2, <1>4
<1>7. TypeOK'
    BY <1>1, <1>2, <1>5, <1>6 DEF TypeOK
<1>8. ASSUME NEW r \in Request
      PROVE  JudgedOK(r)'
  <2>1. JudgedOK(r)
      BY DEF LimiterInv
  <2>2. at[r] <= now + 1
      BY <1>4, <2>1 DEF JudgedOK
  <2>3. QED
      BY <1>2, <1>3, <2>1, <2>2 DEF JudgedOK
<1>9. ASSUME NEW c \in Client
      PROVE  MemoryOK(c)'
  <2>1. MemoryOK(c)
      BY DEF LimiterInv
  <2>2. \A s \in memory[c] : now + 1 - at[s] <= Window => now - at[s] <= Window
      BY <1>4
  <2>3. ASSUME NEW s \in memory[c]
        PROVE  /\ verdict[s] = "passed"
               /\ now + 1 - at[s] <= Window => c \in DOMAIN requests /\ s \in requests[c]
      BY <2>1, <2>2 DEF MemoryOK
  <2>4. memory' = memory /\ verdict' = verdict /\ at' = at /\ requests' = requests
        /\ now' = now + 1
      BY <1>2
  <2>5. ASSUME NEW s \in memory'[c]
        PROVE  /\ verdict'[s] = "passed"
               /\ now' - at'[s] <= Window => c \in DOMAIN requests' /\ s \in requests'[c]
    <3>1. s \in memory[c] /\ s \in Request
        BY <1>4, <2>4
    <3>2. QED
        BY <1>4, <2>3, <2>4, <3>1
  <2>6. QED
      BY <2>5 DEF MemoryOK
<1>10. (IsFiniteSet(DOMAIN requests) /\ MapBounded)' /\ WithinLimit' /\ RefusedOnlyWhenSpent'
    BY <1>1, <1>2 DEF MapBounded, WithinLimit, RefusedOnlyWhenSpent, InWindowOf
<1>11. QED
    BY <1>7, <1>8, <1>9, <1>10 DEF LimiterInv

-----------------------------------------------------------------------------
(* A step of a request that records keeps the counters exact.              *)

\* The requests that have passed their increment of k.
PassedBy(k) == {r \in Request : \E i \in 1..recorded[r] : owed[r][i] = k}

\* What a request records next is the name of a counter.
LEMMA TargetIsCounter ==
    ASSUME MetricsTypeOK, NEW r \in Request, Recording(r)
    PROVE  /\ Target(r) \in Label \cup Plain
           /\ recorded[r] \in Nat /\ recorded[r] + 1 \in 1..Len(owed[r])
<1>1. owed[r] \in Seq(Label \cup Plain) /\ recorded[r] \in Nat /\ Len(owed[r]) \in Nat
    BY DEF MetricsTypeOK
<1>2. recorded[r] + 1 \in 1..Len(owed[r])
    BY <1>1 DEF Recording
<1>3. QED
    BY <1>1, <1>2 DEF Target

\* Adding to a counter adds the request to those that have passed it, and to no other.
LEMMA OneMore ==
    ASSUME TypeOK, NEW r \in Request, RecordOK(r), Recording(r), UNCHANGED owed,
           recorded' = [recorded EXCEPT ![r] = @ + 1]
    PROVE  \A k : IF k = Target(r)
                 THEN Cardinality(PassedBy(k)') = Cardinality(PassedBy(k)) + 1
                 ELSE PassedBy(k)' = PassedBy(k)
<1>1. MetricsTypeOK /\ recorded \in [Request -> Nat]
    BY DEF TypeOK, MetricsTypeOK
<1>2. recorded[r] \in Nat /\ recorded[r] + 1 \in 1..Len(owed[r])
    BY <1>1, TargetIsCounter
<1>3. recorded'[r] = recorded[r] + 1 /\ \A q \in Request : q # r => recorded'[q] = recorded[q]
    BY <1>1
<1>4. PICK n : n = recorded[r]
    OBVIOUS
<1>5. PICK k : k = Target(r)
    OBVIOUS
<1>6. n \in Nat /\ recorded'[r] = n + 1 /\ owed[r][n + 1] = k /\ n + 1 \in 1..Len(owed[r])
    BY <1>2, <1>3, <1>4, <1>5 DEF Target
<1>7. r \notin PassedBy(k)
  <2>1. Len(owed[r]) \in Nat
      BY <1>1 DEF MetricsTypeOK
  <2>2. ASSUME NEW i \in 1..n, owed[r][i] = k
        PROVE  FALSE
    <3>1. i \in 1..Len(owed[r]) /\ i # n + 1
        BY <1>6, <2>1
    <3>2. QED
        BY <1>6, <2>2, <3>1 DEF RecordOK
  <2>3. QED
      BY <1>4, <2>2 DEF PassedBy
<1>8. ASSUME NEW l
      PROVE  PassedBy(l)' = IF l = k THEN PassedBy(l) \cup {r} ELSE PassedBy(l)
  <2>1. PassedBy(l)' = {q \in Request : \E i \in 1..recorded'[q] : owed[q][i] = l}
      BY DEF PassedBy
  <2>2. ASSUME NEW q \in Request, q # r
        PROVE  q \in PassedBy(l)' <=> q \in PassedBy(l)
      BY <1>3, <2>1, <2>2 DEF PassedBy
  <2>3. r \in PassedBy(l)' <=> (r \in PassedBy(l) \/ l = k)
    <3>1. \A i : i \in 1..n + 1 <=> i \in 1..n \/ i = n + 1
        BY <1>6
    <3>2. r \in PassedBy(l)' <=> \E i \in 1..n + 1 : owed[r][i] = l
        BY <1>6, <2>1
    <3>3. r \in PassedBy(l) <=> \E i \in 1..n : owed[r][i] = l
        BY <1>4 DEF PassedBy
    <3>4. QED
        BY <1>6, <3>1, <3>2, <3>3
  <2>4. PassedBy(l) \subseteq Request /\ PassedBy(l)' \subseteq Request
      BY <2>1 DEF PassedBy
  <2>5. QED
      BY <2>2, <2>3, <2>4
<1>9. PassedBy(k) \subseteq Request
    BY DEF PassedBy
<1>10. IsFiniteSet(PassedBy(k))
    BY <1>9, FS_Subset, LimiterConfiguration
<1>11. Cardinality(PassedBy(k) \cup {r}) = Cardinality(PassedBy(k)) + 1
    BY <1>7, <1>10, FS_AddElement
<1>12. QED
    BY <1>5, <1>8, <1>11

\* The types of the counters survive a step of recording.
LEMMA RecordTypes ==
    ASSUME TypeOK, NEW r \in Request, RecordOK(r), Record(r)
    PROVE  MetricsTypeOK'
<1>1. MetricsTypeOK
    BY DEF TypeOK
<1> USE DEF MetricsTypeOK
<1>2. CASE Lookup(r)
  <2>1. Target(r) \in DOMAIN cellOf => cellOf[Target(r)] \in Cell
      BY <1>1 DEF Cell
  <2>2. step' \in [Request -> {"lookup", "create", "add"}]
    <3>1. step' = [step EXCEPT ![r] = "add"] \/ step' = [step EXCEPT ![r] = "create"]
        BY <1>2 DEF Lookup
    <3>2. QED
        BY <1>1, <3>1
  <2>3. ptr' \in [Request -> Cell \cup {NoCell}]
      BY <1>1, <1>2, <2>1 DEF Lookup
  <2>4. UNCHANGED <<cellOf, cell, plain, owed, recorded>>
      BY <1>2 DEF Lookup
  <2>5. QED
      BY <1>1, <2>2, <2>3, <2>4 DEF Cell
<1>3. CASE CreateCell(r)
  <2>1. PICK k : k = Target(r)
      OBVIOUS
  <2>2. PICK new : new = IF k \in DOMAIN cellOf THEN cellOf[k] ELSE <<r, k>>
      OBVIOUS
  <2>3. k \in Label
      BY <1>3, <2>1 DEF CreateCell, RecordOK
  <2>4. new \in Request \X {k}
      BY <1>1, <2>2
  <2>5. new \in Cell
      BY <2>3, <2>4 DEF Cell
  <2>6. /\ cellOf' = [l \in DOMAIN cellOf \cup {k} |-> IF l = k THEN new ELSE cellOf[l]]
        /\ ptr' = [ptr EXCEPT ![r] = new]
        /\ step' = [step EXCEPT ![r] = "add"]
        /\ UNCHANGED <<cell, plain, owed, recorded>>
      BY <1>3, <2>1, <2>2 DEF CreateCell
  <2>7. DOMAIN cellOf' \subseteq Label /\ \A l \in DOMAIN cellOf' : cellOf'[l] \in Request \X {l}
      BY <1>1, <2>3, <2>4, <2>6
  <2>8. ptr' \in [Request -> Cell \cup {NoCell}] /\ step' \in [Request -> {"lookup", "create", "add"}]
      BY <1>1, <2>5, <2>6
  <2>9. QED
      BY <1>1, <2>6, <2>7, <2>8 DEF Cell
<1>4. CASE AddToCell(r)
  <2>1. ptr[r] \in Cell
      BY <1>1, <1>4 DEF AddToCell, RecordOK, Cell
  <2>2. cell' \in [Cell -> Nat]
      BY <1>1, <1>4, <2>1 DEF AddToCell
  <2>3. recorded' \in [Request -> Nat] /\ step' \in [Request -> {"lookup", "create", "add"}]
        /\ ptr' \in [Request -> Cell \cup {NoCell}]
      BY <1>1, <1>4 DEF AddToCell
  <2>4. UNCHANGED <<cellOf, plain, owed>>
      BY <1>4 DEF AddToCell
  <2>5. QED
      BY <1>1, <2>2, <2>3, <2>4 DEF Cell
<1>5. CASE AddPlain(r)
  <2>1. plain' \in [Plain -> Nat] /\ recorded' \in [Request -> Nat]
      BY <1>1, <1>5 DEF AddPlain
  <2>2. UNCHANGED <<cellOf, cell, owed, step, ptr>>
      BY <1>5 DEF AddPlain
  <2>3. QED
      BY <1>1, <2>1, <2>2 DEF Cell
<1>6. QED
    BY <1>2, <1>3, <1>4, <1>5 DEF Record

\* A request that looks up or creates a counter changes none.
LEMMA LookupCounters ==
    ASSUME TypeOK, CounterInv, NEW r \in Request, Lookup(r)
    PROVE  CounterInv'
<1>1. MetricsTypeOK
    BY DEF TypeOK
<1>2. Recording(r) /\ Target(r) \in Label /\ UNCHANGED <<cellOf, cell, plain, owed, recorded>>
    BY DEF Lookup
<1>3. ASSUME NEW q \in Request
      PROVE  RecordOK(q)'
  <2>1. RecordOK(q)
      BY DEF CounterInv
  <2>2. recorded'[q] <= Len(owed'[q])
        /\ \A i, j \in 1..Len(owed'[q]) : owed'[q][i] = owed'[q][j] => i = j
      BY <1>2, <2>1 DEF RecordOK
  <2>3. Recording(q)' = Recording(q) /\ Target(q)' = Target(q)
      BY <1>2 DEF Recording, Target
  <2>4. CASE q # r
    <3>1. step'[q] = step[q] /\ ptr'[q] = ptr[q]
        BY <1>1, <2>4 DEF Lookup, MetricsTypeOK
    <3>2. QED
        BY <1>2, <2>1, <2>2, <2>3, <3>1 DEF RecordOK
  <2>5. CASE q = r
    <3>1. CASE Target(r) \in DOMAIN cellOf
      <4>1. step'[r] = "add" /\ ptr'[r] = cellOf[Target(r)]
          BY <1>1, <3>1 DEF Lookup, MetricsTypeOK
      <4>2. QED
          BY <1>2, <2>2, <2>3, <2>5, <3>1, <4>1 DEF RecordOK
    <3>2. CASE Target(r) \notin DOMAIN cellOf
      <4>1. step'[r] = "create"
          BY <1>1, <3>2 DEF Lookup, MetricsTypeOK
      <4>2. QED
          BY <1>2, <2>2, <2>3, <2>5, <4>1 DEF RecordOK
    <3>3. QED
        BY <3>1, <3>2
  <2>6. QED
      BY <2>4, <2>5
<1>4. CellsOK'
    BY <1>2 DEF CounterInv, CellsOK
<1>5. CountersExact'
    BY <1>2 DEF CounterInv, CountersExact, Value
<1>6. QED
    BY <1>3, <1>4, <1>5 DEF CounterInv

\* A counter that a request creates was 0 and is 0, and one that another request
\* created before it is the one it will add to.
LEMMA CreateCounters ==
    ASSUME TypeOK, CounterInv, NEW r \in Request, CreateCell(r)
    PROVE  CounterInv'
<1>1. MetricsTypeOK /\ RecordOK(r)
    BY DEF TypeOK, CounterInv
<1>2. PICK k : k = Target(r)
    OBVIOUS
<1>3. PICK new : new = IF k \in DOMAIN cellOf THEN cellOf[k] ELSE <<r, k>>
    OBVIOUS
<1>4. /\ cellOf' = [l \in DOMAIN cellOf \cup {k} |-> IF l = k THEN new ELSE cellOf[l]]
      /\ ptr' = [ptr EXCEPT ![r] = new]
      /\ step' = [step EXCEPT ![r] = "add"]
      /\ UNCHANGED <<cell, plain, owed, recorded>>
    BY <1>2, <1>3 DEF CreateCell
<1>5. k \in Label /\ Recording(r)
    BY <1>1, <1>2 DEF CreateCell, RecordOK
<1>6. /\ DOMAIN cellOf' = DOMAIN cellOf \cup {k} /\ cellOf'[k] = new
      /\ \A l \in DOMAIN cellOf : cellOf'[l] = cellOf[l]
    BY <1>3, <1>4
<1>7. ASSUME NEW q \in Request
      PROVE  RecordOK(q)'
  <2>1. RecordOK(q)
      BY DEF CounterInv
  <2>2. recorded'[q] <= Len(owed'[q])
        /\ \A i, j \in 1..Len(owed'[q]) : owed'[q][i] = owed'[q][j] => i = j
      BY <1>4, <2>1 DEF RecordOK
  <2>3. Recording(q)' = Recording(q) /\ Target(q)' = Target(q)
      BY <1>4 DEF Recording, Target
  <2>4. CASE q # r
    <3>1. step'[q] = step[q] /\ ptr'[q] = ptr[q]
        BY <1>1, <1>4, <2>4 DEF MetricsTypeOK
    <3>2. QED
        BY <1>6, <2>1, <2>2, <2>3, <3>1 DEF RecordOK
  <2>5. CASE q = r
    <3>1. step'[r] = "add" /\ ptr'[r] = new
        BY <1>1, <1>4 DEF MetricsTypeOK
    <3>2. QED
        BY <1>2, <1>5, <1>6, <2>2, <2>3, <2>5, <3>1 DEF RecordOK
  <2>6. QED
      BY <2>4, <2>5
<1>8. CellsOK'
    BY <1>4, <1>6 DEF CounterInv, CellsOK
<1>9. ASSUME NEW l \in Label \cup Plain
      PROVE  Value(l)' = Value(l)
  <2>1. CASE l \in Plain
      BY <1>4, <2>1 DEF Value
  <2>2. CASE l \notin Plain /\ l \in DOMAIN cellOf
      BY <1>4, <1>6, <2>2 DEF Value
  <2>3. CASE l \notin Plain /\ l \notin DOMAIN cellOf /\ l = k
    <3>1. new = <<r, k>> /\ cell[<<r, k>>] = 0
        BY <1>3, <1>5, <2>3 DEF CounterInv, CellsOK
    <3>2. QED
        BY <1>4, <1>6, <2>3, <3>1 DEF Value
  <2>4. CASE l \notin Plain /\ l \notin DOMAIN cellOf /\ l # k
      BY <1>4, <1>6, <2>4 DEF Value
  <2>5. QED
      BY <2>1, <2>2, <2>3, <2>4
<1>10. CountersExact'
    BY <1>4, <1>9 DEF CounterInv, CountersExact
<1>11. QED
    BY <1>7, <1>8, <1>10 DEF CounterInv

\* A request that has added to a counter is past it and looks for the next.
LEMMA AddedRecordOK ==
    ASSUME TypeOK, CounterInv, NEW r \in Request, Recording(r), UNCHANGED <<cellOf, owed>>,
           recorded' = [recorded EXCEPT ![r] = @ + 1], step'[r] = "lookup",
           \A q \in Request : q # r => step'[q] = step[q] /\ ptr'[q] = ptr[q]
    PROVE  \A q \in Request : RecordOK(q)'
<1>1. MetricsTypeOK /\ recorded \in [Request -> Nat]
    BY DEF TypeOK, MetricsTypeOK
<1>2. SUFFICES ASSUME NEW q \in Request
               PROVE  RecordOK(q)'
    OBVIOUS
<1>3. RecordOK(q)
    BY DEF CounterInv
<1>4. CASE q # r
  <2>1. recorded'[q] = recorded[q] /\ step'[q] = step[q] /\ ptr'[q] = ptr[q]
      BY <1>1, <1>4
  <2>2. Recording(q)' = Recording(q) /\ Target(q)' = Target(q)
      BY <2>1 DEF Recording, Target
  <2>3. QED
      BY <1>3, <2>1, <2>2 DEF RecordOK
<1>5. CASE q = r
  <2>1. recorded'[r] = recorded[r] + 1 /\ recorded[r] + 1 \in 1..Len(owed[r])
      BY <1>1, TargetIsCounter
  <2>2. Len(owed[r]) \in Nat
      BY <1>1 DEF MetricsTypeOK
  <2>3. recorded'[r] <= Len(owed'[r])
      BY <2>1, <2>2
  <2>4. QED
      BY <1>3, <1>5, <2>3 DEF RecordOK
<1>6. QED
    BY <1>4, <1>5

\* The pointer a request adds through is its counter's in the map: no other
\* counter changes, and no increment goes to a counter nobody reads.
LEMMA AddToCellCounters ==
    ASSUME TypeOK, CounterInv, NEW r \in Request, AddToCell(r)
    PROVE  CounterInv'
<1>1. MetricsTypeOK /\ RecordOK(r) /\ Recording(r)
    BY DEF TypeOK, CounterInv, AddToCell
<1>2. /\ cell' = [cell EXCEPT ![ptr[r]] = @ + 1]
      /\ recorded' = [recorded EXCEPT ![r] = @ + 1]
      /\ step' = [step EXCEPT ![r] = "lookup"]
      /\ ptr' = [ptr EXCEPT ![r] = NoCell]
      /\ UNCHANGED <<cellOf, plain, owed>>
    BY DEF AddToCell
<1>3. PICK k : k = Target(r)
    OBVIOUS
<1>4. k \in Label /\ k \in DOMAIN cellOf /\ ptr[r] = cellOf[k]
    BY <1>1, <1>3 DEF RecordOK, AddToCell
<1>5. \A q \in Request : RecordOK(q)'
  <2>1. step'[r] = "lookup" /\ \A q \in Request : q # r => step'[q] = step[q] /\ ptr'[q] = ptr[q]
      BY <1>1, <1>2 DEF MetricsTypeOK
  <2>2. QED
      BY <1>1, <1>2, <2>1, AddedRecordOK
<1>6. /\ cell \in [Cell -> Nat] /\ \A l \in DOMAIN cellOf : cellOf[l] \in Request \X {l}
      /\ DOMAIN cellOf \subseteq Label
    BY <1>1 DEF MetricsTypeOK
<1>7. cellOf[k] \in Cell
    BY <1>4, <1>6 DEF Cell
<1>8. cell'[cellOf[k]] = cell[cellOf[k]] + 1 /\ \A x \in Cell : x # cellOf[k] => cell'[x] = cell[x]
    BY <1>2, <1>4, <1>6, <1>7
<1>9. CellsOK'
  <2>1. SUFFICES ASSUME NEW q \in Request, NEW l \in Label, l \notin DOMAIN cellOf
                 PROVE  cell'[<<q, l>>] = 0
      BY <1>2 DEF CellsOK
  <2>2. <<q, l>> \in Cell /\ <<q, l>> # cellOf[k]
      BY <1>4, <1>6, <2>1 DEF Cell
  <2>3. cell[<<q, l>>] = 0
      BY <2>1 DEF CounterInv, CellsOK
  <2>4. QED
      BY <1>8, <2>2, <2>3
<1>10. ASSUME NEW l \in Label \cup Plain
       PROVE  Value(l)' = Cardinality(PassedBy(l)')
  <2>1. Value(l) = Cardinality(PassedBy(l))
      BY DEF CounterInv, CountersExact, PassedBy
  <2>2. IF l = k THEN Cardinality(PassedBy(l)') = Cardinality(PassedBy(l)) + 1
                 ELSE PassedBy(l)' = PassedBy(l)
    <3>1. \A j : IF j = Target(r) THEN Cardinality(PassedBy(j)') = Cardinality(PassedBy(j)) + 1
                                  ELSE PassedBy(j)' = PassedBy(j)
        BY <1>1, <1>2, OneMore
    <3>2. QED
        BY <1>3, <3>1
  <2>3. CASE l = k
    <3>1. l \notin Plain
        BY <1>4, <2>3, CounterNames
    <3>2. Value(l) = cell[cellOf[k]] /\ Value(l)' = cell'[cellOf[k]]
        BY <1>2, <1>4, <2>3, <3>1 DEF Value
    <3>3. QED
        BY <1>8, <2>1, <2>2, <2>3, <3>2
  <2>4. CASE l # k
    <3>1. l \in DOMAIN cellOf => cellOf[l] \in Cell /\ cellOf[l] # cellOf[k]
        BY <1>4, <1>6, <2>4 DEF Cell
    <3>2. Value(l)' = Value(l)
        BY <1>2, <1>8, <3>1 DEF Value
    <3>3. QED
        BY <2>1, <2>2, <2>4, <3>2
  <2>5. QED
      BY <2>3, <2>4
<1>11. CountersExact'
    BY <1>10 DEF CountersExact, PassedBy
<1>12. QED
    BY <1>5, <1>9, <1>11 DEF CounterInv

\* The same for the counters outside the maps.
LEMMA AddPlainCounters ==
    ASSUME TypeOK, CounterInv, NEW r \in Request, AddPlain(r)
    PROVE  CounterInv'
<1>1. MetricsTypeOK /\ RecordOK(r) /\ Recording(r)
    BY DEF TypeOK, CounterInv, AddPlain
<1>2. PICK k : k = Target(r)
    OBVIOUS
<1>3. /\ plain' = [plain EXCEPT ![k] = @ + 1]
      /\ recorded' = [recorded EXCEPT ![r] = @ + 1]
      /\ UNCHANGED <<cellOf, cell, owed, step, ptr>>
      /\ k \in Plain
    BY <1>2 DEF AddPlain
<1>4. step[r] = "lookup"
    BY <1>1, <1>2, <1>3, CounterNames DEF RecordOK
<1>5. \A q \in Request : RecordOK(q)'
    BY <1>1, <1>3, <1>4, AddedRecordOK
<1>6. CellsOK'
    BY <1>3 DEF CounterInv, CellsOK
<1>7. plain'[k] = plain[k] + 1 /\ \A l \in Plain : l # k => plain'[l] = plain[l]
    BY <1>1, <1>3 DEF MetricsTypeOK
<1>8. ASSUME NEW l \in Label \cup Plain
      PROVE  Value(l)' = Cardinality(PassedBy(l)')
  <2>1. Value(l) = Cardinality(PassedBy(l))
      BY DEF CounterInv, CountersExact, PassedBy
  <2>2. IF l = k THEN Cardinality(PassedBy(l)') = Cardinality(PassedBy(l)) + 1
                 ELSE PassedBy(l)' = PassedBy(l)
    <3>1. \A j : IF j = Target(r) THEN Cardinality(PassedBy(j)') = Cardinality(PassedBy(j)) + 1
                                  ELSE PassedBy(j)' = PassedBy(j)
        BY <1>1, <1>3, OneMore
    <3>2. QED
        BY <1>2, <3>1
  <2>3. CASE l = k
    <3>1. Value(l) = plain[k] /\ Value(l)' = plain'[k]
        BY <1>3, <2>3 DEF Value
    <3>2. QED
        BY <1>7, <2>1, <2>2, <2>3, <3>1
  <2>4. CASE l # k
    <3>1. Value(l)' = Value(l)
        BY <1>3, <1>7, <2>4 DEF Value
    <3>2. QED
        BY <2>1, <2>2, <2>4, <3>1
  <2>5. QED
      BY <2>3, <2>4
<1>9. CountersExact'
    BY <1>8 DEF CountersExact, PassedBy
<1>10. QED
    BY <1>5, <1>6, <1>9 DEF CounterInv

\* A request that was just judged has added to nothing yet.
LEMMA JudgesCounters ==
    ASSUME LimiterInv, CounterInv, NEW r \in Request, NEW c \in Client, NEW v, NEW m, NEW keys,
           Judges(r, c, v, m, keys)
    PROVE  CounterInv'
<1>1. MetricsTypeOK /\ JudgedOK(r) /\ verdict[r] = "none"
    BY DEF LimiterInv, TypeOK, Judges, Judge
<1>2. /\ owed' = [owed EXCEPT ![r] = keys]
      /\ UNCHANGED <<cellOf, cell, plain, recorded, step, ptr>>
    BY DEF Judges, Owes
<1>3. owed'[r] = keys /\ \A q \in Request : q # r => owed'[q] = owed[q]
    BY <1>1, <1>2 DEF MetricsTypeOK
<1>4. recorded[r] = 0 /\ step[r] = "lookup"
    BY <1>1 DEF JudgedOK
<1>5. Len(keys) \in Nat /\ \A i, j \in 1..Len(keys) : keys[i] = keys[j] => i = j
  <2>1. CASE keys = <<"rate_limited", "http_4xx", "http_count">>
      BY <2>1
  <2>2. CASE keys = <<"http_2xx", "http_count">>
      BY <2>2
  <2>3. CASE keys = <<"evictions", "http_2xx", "http_count">>
      BY <2>3
  <2>4. QED
      BY <2>1, <2>2, <2>3 DEF Judges
<1>6. ASSUME NEW q \in Request
      PROVE  RecordOK(q)'
  <2>1. RecordOK(q)
      BY DEF CounterInv
  <2>2. CASE q = r
      BY <1>2, <1>3, <1>4, <1>5, <2>2 DEF RecordOK
  <2>3. CASE q # r
    <3>1. Recording(q)' = Recording(q) /\ Target(q)' = Target(q) /\ owed'[q] = owed[q]
        BY <1>2, <1>3, <2>3 DEF Recording, Target
    <3>2. QED
        BY <1>2, <2>1, <3>1 DEF RecordOK
  <2>4. QED
      BY <2>2, <2>3
<1>7. CellsOK'
    BY <1>2 DEF CounterInv, CellsOK
<1>8. ASSUME NEW k \in Label \cup Plain
      PROVE  Value(k)' = Cardinality(PassedBy(k)')
  <2>1. Value(k) = Cardinality(PassedBy(k))
      BY DEF CounterInv, CountersExact, PassedBy
  <2>2. PassedBy(k)' = {q \in Request : \E i \in 1..recorded[q] : owed'[q][i] = k}
      BY <1>2 DEF PassedBy
  <2>3. r \notin PassedBy(k) /\ r \notin PassedBy(k)'
      BY <1>4, <2>2 DEF PassedBy
  <2>4. \A q \in Request : q # r => (q \in PassedBy(k)' <=> q \in PassedBy(k))
      BY <1>3, <2>2 DEF PassedBy
  <2>5. PassedBy(k) \subseteq Request /\ PassedBy(k)' \subseteq Request
      BY <2>2 DEF PassedBy
  <2>6. PassedBy(k)' = PassedBy(k)
      BY <2>3, <2>4, <2>5
  <2>7. Value(k)' = Value(k)
      BY <1>2 DEF Value
  <2>8. QED
      BY <2>1, <2>6, <2>7
<1>9. CountersExact'
    BY <1>8 DEF CountersExact, PassedBy
<1>10. QED
    BY <1>6, <1>7, <1>9 DEF CounterInv

-----------------------------------------------------------------------------
(* The invariant holds of every reachable state.                           *)

\* Every verdict keeps the invariant.
LEMMA JudgesPreserves ==
    ASSUME IInv, NEW r \in Request, NEW c \in Client, NEW v, NEW m, NEW keys,
           Judges(r, c, v, m, keys)
    PROVE  IInv'
<1>1. LimiterInv /\ CounterInv
    BY DEF IInv
<1>2. TypeOK' /\ (IsFiniteSet(DOMAIN requests) /\ MapBounded)' /\ \A q \in Request : JudgedOK(q)'
    BY <1>1, JudgesTypes
<1>3. \A d \in Client : MemoryOK(d)'
    BY <1>1, JudgesMemory
<1>4. WithinLimit' /\ RefusedOnlyWhenSpent'
    BY <1>1, JudgesWithinLimit, JudgesSpent
<1>5. CounterInv'
    BY <1>1, JudgesCounters
<1>6. QED
    BY <1>2, <1>3, <1>4, <1>5 DEF IInv, LimiterInv

\* A step of recording keeps the invariant.
LEMMA RecordPreserves ==
    ASSUME IInv, NEW r \in Request, Record(r), UNCHANGED limiter
    PROVE  IInv'
<1>1. LimiterInv /\ CounterInv /\ TypeOK /\ RecordOK(r)
    BY DEF IInv, LimiterInv, CounterInv
<1>2. UNCHANGED <<now, requests, cleanupAfter, client, at, verdict, memory>>
    BY DEF limiter
<1>3. MetricsTypeOK'
    BY <1>1, RecordTypes
<1>4. TypeOK'
    BY <1>1, <1>2, <1>3 DEF TypeOK
<1>5. (IsFiniteSet(DOMAIN requests) /\ MapBounded)' /\ WithinLimit' /\ RefusedOnlyWhenSpent'
    BY <1>1, <1>2 DEF LimiterInv, MapBounded, WithinLimit, RefusedOnlyWhenSpent, InWindowOf
<1>6. \A c \in Client : MemoryOK(c)'
    BY <1>1, <1>2 DEF LimiterInv, MemoryOK
<1>7. ASSUME NEW q \in Request
      PROVE  JudgedOK(q)'
  <2>1. JudgedOK(q) /\ JudgedOK(r)
      BY <1>1 DEF LimiterInv
  <2>2. verdict[r] # "none"
    <3>1. recorded[r] = 0 /\ owed[r] = <<>> => ~Recording(r)
        BY DEF Recording
    <3>2. Recording(r)
        BY DEF Record, Lookup, CreateCell, AddToCell, AddPlain
    <3>3. QED
        BY <2>1, <3>1, <3>2 DEF JudgedOK
  <2>3. CASE q = r
      BY <1>2, <2>1, <2>2, <2>3 DEF JudgedOK
  <2>4. CASE q # r
    <3>1. MetricsTypeOK
        BY <1>1 DEF TypeOK
    <3>2. owed' = owed
        BY DEF Record, Lookup, CreateCell, AddToCell, AddPlain
    <3>3. recorded'[q] = recorded[q]
        BY <2>4, <3>1 DEF MetricsTypeOK, Record, Lookup, CreateCell, AddToCell, AddPlain
    <3>4. step'[q] = step[q]
        BY <2>4, <3>1 DEF MetricsTypeOK, Record, Lookup, CreateCell, AddToCell, AddPlain
    <3>5. QED
        BY <1>2, <2>1, <3>2, <3>3, <3>4 DEF JudgedOK
  <2>5. QED
      BY <2>3, <2>4
<1>8. CounterInv'
    BY <1>1, LookupCounters, CreateCounters, AddToCellCounters, AddPlainCounters DEF Record
<1>9. QED
    BY <1>4, <1>5, <1>6, <1>7, <1>8 DEF IInv, LimiterInv

\* The program starts with an empty map and no counter.
LEMMA InitEstablishes ==
    ASSUME Init
    PROVE  IInv
<1> USE DEF Init
<1>1. MetricsInit
    OBVIOUS
<1>2. MetricsTypeOK
    BY <1>1 DEF MetricsInit, MetricsTypeOK, Cell
<1>3. TypeOK
    BY <1>2, LimiterConfiguration DEF TypeOK
<1>4. DOMAIN requests = {} /\ DOMAIN cellOf = {}
    BY <1>1 DEF MetricsInit
<1>5. IsFiniteSet(DOMAIN requests) /\ MapBounded
    BY <1>4, FS_EmptySet, LimiterConfiguration DEF MapBounded
<1>6. \A r \in Request : JudgedOK(r)
    BY <1>1 DEF MetricsInit, JudgedOK
<1>7. (\A c \in Client : MemoryOK(c)) /\ WithinLimit /\ RefusedOnlyWhenSpent
    BY DEF MemoryOK, WithinLimit, RefusedOnlyWhenSpent
<1>8. \A r \in Request : RecordOK(r)
    BY <1>1 DEF MetricsInit, RecordOK
<1>9. CellsOK
    BY <1>1 DEF MetricsInit, CellsOK, Cell
<1>10. ASSUME NEW k \in Label \cup Plain
       PROVE  Value(k) = Cardinality(PassedBy(k))
  <2>1. PassedBy(k) = {}
      BY <1>1 DEF MetricsInit, PassedBy
  <2>2. Value(k) = 0
      BY <1>1, <1>4 DEF MetricsInit, Value
  <2>3. QED
      BY <2>1, <2>2, FS_EmptySet
<1>11. CountersExact
    BY <1>10 DEF CountersExact, PassedBy
<1>12. QED
    BY <1>3, <1>5, <1>6, <1>7, <1>8, <1>9, <1>11 DEF IInv, LimiterInv, CounterInv

\* Stuttering changes nothing.
LEMMA StutterPreserves ==
    ASSUME IInv, UNCHANGED vars
    PROVE  IInv'
<1>1. UNCHANGED <<now, requests, cleanupAfter, client, at, verdict, memory>>
    BY DEF vars, limiter
<1>2. UNCHANGED <<cellOf, cell, plain, owed, recorded, step, ptr>>
    BY DEF vars, metrics
<1>3. LimiterInv'
  <2>1. TypeOK' /\ (IsFiniteSet(DOMAIN requests) /\ MapBounded)'
      BY <1>1, <1>2 DEF IInv, LimiterInv, TypeOK, MetricsTypeOK, Cell, MapBounded
  <2>2. (\A r \in Request : JudgedOK(r)') /\ (\A c \in Client : MemoryOK(c)')
      BY <1>1, <1>2 DEF IInv, LimiterInv, JudgedOK, MemoryOK
  <2>3. WithinLimit' /\ RefusedOnlyWhenSpent'
      BY <1>1 DEF IInv, LimiterInv, WithinLimit, RefusedOnlyWhenSpent, InWindowOf
  <2>4. QED
      BY <2>1, <2>2, <2>3 DEF LimiterInv
<1>4. CounterInv'
    BY <1>2 DEF IInv, CounterInv, RecordOK, CellsOK, CountersExact, Recording, Target, Value
<1>5. QED
    BY <1>3, <1>4 DEF IInv

\* The inductive invariant holds whatever requests of whatever addresses come,
\* and however their handlers interleave.
THEOREM Invariance == Spec => []IInv
<1>1. Init => IInv
    BY InitEstablishes
<1>2. IInv /\ [Next]_vars => IInv'
  <2>1. SUFFICES ASSUME IInv, [Next]_vars
                 PROVE  IInv'
      OBVIOUS
  <2>2. CASE \E r \in Request : Handle(r)
    <3>1. PICK r \in Request : Handle(r)
        BY <2>2
    <3>2. PICK c \in Client : \/ Refuse(r, c)
                              \/ Pass(r, c)
                              \/ \E victim \in Client : PassEvicting(r, c, victim)
        BY <3>1 DEF Handle
    <3>3. LimiterInv
        BY <2>1 DEF IInv
    <3>4. CASE Refuse(r, c)
        BY <2>1, <3>3, <3>4, RefuseJudges, JudgesPreserves
    <3>5. CASE Pass(r, c)
        BY <2>1, <3>3, <3>5, PassJudges, JudgesPreserves
    <3>6. CASE \E victim \in Client : PassEvicting(r, c, victim)
        BY <2>1, <3>3, <3>6, EvictJudges, JudgesPreserves
    <3>7. QED
        BY <3>2, <3>4, <3>5, <3>6
  <2>3. CASE \E r \in Request : Record(r) /\ UNCHANGED limiter
      BY <2>1, <2>3, RecordPreserves
  <2>4. CASE Tick
    <3>1. LimiterInv'
        BY <2>1, <2>4, TickPreserves DEF IInv
    <3>2. UNCHANGED <<cellOf, cell, plain, owed, recorded, step, ptr>>
        BY <2>4 DEF Tick, metrics
    <3>3. CounterInv'
        BY <2>1, <3>2 DEF IInv, CounterInv, RecordOK, CellsOK, CountersExact, Recording, Target, Value
    <3>4. QED
        BY <3>1, <3>3 DEF IInv
  <2>5. CASE UNCHANGED vars
      BY <2>1, <2>5, StutterPreserves
  <2>6. QED
      BY <2>1, <2>2, <2>3, <2>4, <2>5 DEF Next
<1>3. QED
    BY <1>1, <1>2, PTL DEF Spec

\* The limiter's map stays within maxTrackedClients, and every address in it has
\* a time for evictLeastRecent to read.
THEOREM MapStaysBounded == Spec => []MapInvariant
<1>1. IInv => MapInvariant
    BY DEF IInv, LimiterInv, MapInvariant
<1>2. QED
    BY <1>1, Invariance, PTL

\* However cleanups fall, no window ends with more than Limit requests of an
\* address let through, unless the address was evicted meanwhile.
THEOREM LimitIsKept == Spec => []WithinLimit
<1>1. IInv => WithinLimit
    BY DEF IInv, LimiterInv
<1>2. QED
    BY <1>1, Invariance, PTL

\* No request is answered 429 that has not Limit requests of its own address
\* before it in the window.
THEOREM RefusalsAreEarned == Spec => []RefusedOnlyWhenSpent
<1>1. IInv => RefusedOnlyWhenSpent
    BY DEF IInv, LimiterInv
<1>2. QED
    BY <1>1, Invariance, PTL

\* incMapCounter loses no increment and counts none twice, however its lookups,
\* creations and additions interleave.
THEOREM CountersStayExact == Spec => []CountersExact
<1>1. IInv => CountersExact
    BY DEF IInv, CounterInv
<1>2. QED
    BY <1>1, Invariance, PTL

\* What the step may never do: an address inside its window leaves the map only
\* through evictLeastRecent, from a map full of such addresses.
THEOREM EvictionOnlyForRoom == Spec => ForgottenOnlyForRoom
<1> DEFINE Live == {d \in DOMAIN requests : Valid(requests[d]) # {}}
           Rule(c) == (Valid(requests[c]) # {} /\ c \notin DOMAIN requests') =>
                         /\ Cardinality(Live) >= MaxTracked
                         /\ \A d \in Live : MostRecent(requests[c]) <= MostRecent(requests[d])
<1>1. ASSUME IInv, [Next]_vars
      PROVE  \A c \in DOMAIN requests : Rule(c)
  <2>1. SUFFICES ASSUME NEW b \in DOMAIN requests, Valid(requests[b]) # {}, b \notin DOMAIN requests'
                 PROVE  /\ Cardinality(Live) >= MaxTracked
                        /\ \A d \in Live : MostRecent(requests[b]) <= MostRecent(requests[d])
      OBVIOUS
  <2>2. TypeOK /\ LimiterInv
      BY <1>1 DEF IInv, LimiterInv
  <2>3. requests' # requests
      BY <2>1
  <2>4. \E r \in Request : Handle(r)
      BY <1>1, <2>3 DEF Next, Tick, vars, limiter
  <2>5. PICK r \in Request, c \in Client : \/ Refuse(r, c)
                                           \/ Pass(r, c)
                                           \/ \E victim \in Client : PassEvicting(r, c, victim)
      BY <2>4 DEF Handle
  <2>6. Trims(Cleaned) /\ Trims(Reduced(c))
      BY <2>2, ReducedTrims
  <2>7. b \in DOMAIN Cleaned /\ b \in DOMAIN Reduced(c)
      BY <2>1, <2>6 DEF Trims
  <2>8. ~Refuse(r, c) /\ ~Pass(r, c)
      BY <2>1, <2>7 DEF Refuse, Pass, Remember, Put
  <2>9. PICK victim \in Client : PassEvicting(r, c, victim)
      BY <2>5, <2>8
  <2>10. b = victim
      BY <2>1, <2>7, <2>9 DEF PassEvicting, Remember, Put, Forget
  <2>11. Full(c) /\ victim \in Evictable(Reduced(c)) /\ Reduced(c) = cleanupExpired(Cleaned)
      BY <2>9 DEF PassEvicting, Full, Reduced
  <2>12. PICK m : m = Reduced(c)
      OBVIOUS
  <2>13. DOMAIN m = Live /\ \A d \in Live : m[d] = Valid(requests[d])
      BY <2>6, <2>11, <2>12, CleanupTrims
  <2>14. Cardinality(Live) >= MaxTracked
      BY <2>11, <2>12, <2>13 DEF Full
  <2>15. ASSUME NEW d \in Live
         PROVE  MostRecent(m[d]) = MostRecent(requests[d])
    <3>1. requests[d] \in SUBSET Request /\ Valid(requests[d]) # {}
        BY <2>2 DEF TypeOK
    <3>2. at \in [Request -> 0..MaxTime] /\ now \in 0..MaxTime
        BY <2>2 DEF TypeOK
    <3>3. QED
        BY <2>13, <3>1, <3>2, MostRecentOfValid
  <2>16. ASSUME NEW d \in Live
         PROVE  MostRecent(requests[b]) <= MostRecent(requests[d])
    <3>1. MostRecent(m[victim]) <= MostRecent(m[d])
        BY <2>11, <2>12, <2>13 DEF Evictable
    <3>2. b \in Live
        BY <2>1
    <3>3. QED
        BY <2>10, <2>15, <3>1, <3>2
  <2>17. QED
      BY <2>14, <2>16
<1>2. ForgottenOnlyForRoom <=> [][\A c \in DOMAIN requests : Rule(c)]_vars
    BY DEF ForgottenOnlyForRoom
<1>3. QED
    BY <1>1, <1>2, Invariance, PTL DEF Spec

=============================================================================
