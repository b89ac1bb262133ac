-------------------------- MODULE MetricsCollector --------------------------
(***************************************************************************)
(* The counters of MetricsCollector as concurrent requests add to them.    *)
(*                                                                         *)
(* A counter in a map is reached through a pointer that incMapCounter      *)
(* looks up under the read lock, creates under the write lock if it is not *)
(* there, and adds to with no lock at all.  cellOf is the maps together,   *)
(* from labels to pointers; a cell is named for the request and the label  *)
(* it was allocated for.  Counters outside the maps are one atomic add.    *)
(***************************************************************************)
EXTENDS Naturals, Sequences, FiniteSets

CONSTANTS
    Request,    \* the requests, each a goroutine
    Label,      \* the labels of the counters kept in maps
    Plain       \* the counters kept outside the maps

Cell == Request \X Label
NoCell == <<>>

VARIABLES
    cellOf,     \* label -> cell
    cell,       \* the value in each cell
    plain,      \* the value of each counter outside the maps
    owed,       \* the counters each request has to add to, in order
    recorded,   \* how many of them it has added to
    step,       \* where it is in incMapCounter
    ptr         \* the pointer it has looked up

metrics == <<cellOf, cell, plain, owed, recorded, step, ptr>>

Recording(r) == recorded[r] < Len(owed[r])
Target(r) == owed[r][recorded[r] + 1]

\* What Snapshot reports of a counter.
Value(k) == IF k \in Plain THEN plain[k]
            ELSE IF k \in DOMAIN cellOf THEN cell[cellOf[k]] ELSE 0

-----------------------------------------------------------------------------

\* incMapCounter, the lookup under RLock.
Lookup(r) ==
    /\ Recording(r) /\ Target(r) \in Label /\ step[r] = "lookup"
    /\ IF Target(r) \in DOMAIN cellOf
       THEN /\ ptr' = [ptr EXCEPT ![r] = cellOf[Target(r)]]
            /\ step' = [step EXCEPT ![r] = "add"]
       ELSE /\ step' = [step EXCEPT ![r] = "create"]
            /\ UNCHANGED ptr
    /\ UNCHANGED <<cellOf, cell, plain, owed, recorded>>

\* Mutant: the write lock is taken without a second look.
CreateCell_Overwrites(r) ==
    /\ Recording(r) /\ step[r] = "create"
    /\ LET k == Target(r)
           new == <<r, k>>
       IN  /\ cellOf' = [l \in DOMAIN cellOf \cup {k} |-> IF l = k THEN new ELSE cellOf[l]]
           /\ ptr' = [ptr EXCEPT ![r] = new]
    /\ step' = [step EXCEPT ![r] = "add"]
    /\ UNCHANGED <<cell, plain, owed, recorded>>

\* incMapCounter under Lock: another request may have created the counter.
CreateCell(r) ==
    /\ Recording(r) /\ step[r] = "create"
    /\ LET k == Target(r)
           new == IF k \in DOMAIN cellOf THEN cellOf[k] ELSE <<r, k>>
       IN  /\ cellOf' = [l \in DOMAIN cellOf \cup {k} |-> IF l = k THEN new ELSE cellOf[l]]
           /\ ptr' = [ptr EXCEPT ![r] = new]
    /\ step' = [step EXCEPT ![r] = "add"]
    /\ UNCHANGED <<cell, plain, owed, recorded>>

\* atomic.AddUint64(ptr, 1).
AddToCell(r) ==
    /\ Recording(r) /\ step[r] = "add"
    /\ cell' = [cell EXCEPT ![ptr[r]] = @ + 1]
    /\ recorded' = [recorded EXCEPT ![r] = @ + 1]
    /\ step' = [step EXCEPT ![r] = "lookup"]
    /\ ptr' = [ptr EXCEPT ![r] = NoCell]
    /\ UNCHANGED <<cellOf, plain, owed>>

\* The counters that are one atomic add: evictions, request count.
AddPlain(r) ==
    /\ Recording(r) /\ Target(r) \in Plain
    /\ plain' = [plain EXCEPT ![Target(r)] = @ + 1]
    /\ recorded' = [recorded EXCEPT ![r] = @ + 1]
    /\ UNCHANGED <<cellOf, cell, owed, step, ptr>>

-----------------------------------------------------------------------------

MetricsInit ==
    /\ cellOf = [k \in {} |-> NoCell]
    /\ cell = [c \in Cell |-> 0]
    /\ plain = [k \in Plain |-> 0]
    /\ owed = [r \in Request |-> <<>>]
    /\ recorded = [r \in Request |-> 0]
    /\ step = [r \in Request |-> "lookup"]
    /\ ptr = [r \in Request |-> NoCell]

Record(r) == Lookup(r) \/ CreateCell(r) \/ AddToCell(r) \/ AddPlain(r)

MetricsTypeOK ==
    /\ DOMAIN cellOf \subseteq Label
    /\ \A k \in DOMAIN cellOf : cellOf[k] \in Request \X {k}
    /\ cell \in [Cell -> Nat]
    /\ plain \in [Plain -> Nat]
    /\ owed \in [Request -> Seq(Label \cup Plain)]
    /\ recorded \in [Request -> Nat]
    /\ step \in [Request -> {"lookup", "create", "add"}]
    /\ ptr \in [Request -> Cell \cup {NoCell}]

\* Every counter tells how many requests have passed its increment: no
\* increment goes to a counter that a concurrent first use replaced in the map,
\* and none is counted twice.
CountersExact ==
    \A k \in Label \cup Plain :
       Value(k) = Cardinality({r \in Request : \E i \in 1..recorded[r] : owed[r][i] = k})

=============================================================================
