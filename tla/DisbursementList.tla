-------------------------- MODULE DisbursementList --------------------------
(***************************************************************************)
(* GET /disbursements: a client walks through the pages while rows are     *)
(* created, finalized and deleted.                                         *)
(*                                                                         *)
(* List is two statements without a transaction, the COUNT and the page.   *)
(* A row is its created_at, by which the pages are sorted (the default     *)
(* order); it becomes visible when its transaction commits, in any order.  *)
(* The rows of the page are a set, since their order within it is the sort *)
(* order.  Go's int is two's complement: 2 * IntBound values, from -IntBound. *)
(***************************************************************************)
EXTENDS Integers, FiniteSets

CONSTANTS
    Row,            \* the rows there may be, by created_at
    DayLength,      \* length of a UTC day
    Page,           \* the values of ?page= (0 for none)
    Limit,          \* the values of ?limit= (0 for none)
    DefaultLimit,   \* DefaultLimit of the domain
    MaximumLimit,   \* MaximumLimit of the domain
    IntBound        \* an int is below it and not below -IntBound: 2^63

ASSUME ListConstants ==
    /\ Row \subseteq Nat /\ IsFiniteSet(Row)
    /\ Page \subseteq Int /\ Limit \subseteq Int
    /\ {DayLength, IntBound} \subseteq Nat \ {0}
    /\ MaximumLimit \in Nat /\ DefaultLimit \in 1..MaximumLimit

\* A page size and the number of rows are ints.
ASSUME IntsSuffice == MaximumLimit < IntBound /\ Cardinality(Row) < IntBound

DefaultPage == 1
NoDate == -1
Day == {r \div DayLength : r \in Row}
Status == {"ANY", "PENDING", "APPROVED"}

VARIABLES
    row,        \* "absent", the status of a row, or "DELETED"
    query,      \* what the client asks for
    pc,         \* "idle", "count", "select", "answered", "ended"
    total,      \* what the COUNT returned
    items,      \* the page of the last answer
    meta,       \* its meta: page, limit, total, pages
    present,    \* history: the rows on the walk's first page and after it, as it begins
    seen,       \* history: how often it was given each row
    came, went, \* history: a row was added to, taken from the list during the walk
    quiet       \* history: neither happened since the COUNT

history == <<present, seen, came, went, quiet>>
vars == <<row, query, pc, total, items, meta, history>>

-----------------------------------------------------------------------------
(* The query.                                                              *)

\* NewUTCDateRange: the half-open range of the days asked for.
DateRange(q) == [from |-> q.from * DayLength, to |-> (q.to + 1) * DayLength]

\* The WHERE clause on a row in state s.
Where(q, r, s) ==
    /\ s \notin {"absent", "DELETED"}
    /\ q.status # "ANY" => s = q.status
    /\ q.from # NoDate => DateRange(q).from <= r /\ r < DateRange(q).to

Matching == {r \in Row : Where(query, r, row[r])}

Wrap(n) == ((n + IntBound) % (2 * IntBound)) - IntBound
NoOverflow(n) == Wrap(n) = n

\* Mutant: an absent limit means the largest.
StoreLimit_Largest(q) == IF q.limit < 1 \/ q.limit > MaximumLimit THEN MaximumLimit ELSE q.limit

\* DisbursementStore.List's own reading of page and limit.
StoreLimit(q) == IF q.limit < 1 \/ q.limit > MaximumLimit THEN DefaultLimit ELSE q.limit
StorePage(q) == IF q.page < 1 THEN DefaultPage ELSE q.page

\* Mutant: pages are counted in default sizes.
Offset_DefaultLimit(q) == Wrap((StorePage(q) - 1) * DefaultLimit)

Offset(q) == Wrap((StorePage(q) - 1) * StoreLimit(q))

\* How many rows come before r in ORDER BY created_at DESC.
Ahead(rows, r) == Cardinality({x \in rows : x > r})

\* ORDER BY ... LIMIT ... OFFSET.
Select(rows, offset, limit) ==
    {r \in rows : offset <= Ahead(rows, r) /\ Ahead(rows, r) < offset + limit}

\* Mutant: the number of pages is rounded down.
TotalPages_Floor(n, limit) == n \div limit

TotalPages(n, limit) == (n + limit - 1) \div limit

\* Mutant: an absent page is let through.
NewPagination_PageZero(q, n) ==
    LET limit == IF q.limit = 0 THEN DefaultLimit ELSE q.limit
    IN  IF q.page < 0 \/ limit < 1 \/ limit > MaximumLimit THEN {}
        ELSE {[page |-> q.page, limit |-> limit, total |-> n, pages |-> TotalPages(n, limit)]}

\* NewPagination, which reads page and limit again; {} stands for its error.
NewPagination(q, n) ==
    LET page == IF q.page = 0 THEN DefaultPage ELSE q.page
        limit == IF q.limit = 0 THEN DefaultLimit ELSE q.limit
    IN  IF page < 1 \/ limit < 1 \/ limit > MaximumLimit THEN {}
        ELSE {[page |-> page, limit |-> limit, total |-> n, pages |-> TotalPages(n, limit)]}

NoMeta == [page |-> 0, limit |-> 0, total |-> 0, pages |-> 0]

-----------------------------------------------------------------------------
(* The request.                                                            *)

\* The handler's validation: the validator's tags and the order of the dates.
\* A single date is both ends of the range.
Accepted(q) ==
    /\ q.page = 0 \/ q.page >= 1
    /\ q.limit = 0 \/ (q.limit >= 1 /\ q.limit <= MaximumLimit)
    /\ q.from # NoDate => q.from <= q.to

BeginWalk(q) ==
    /\ pc = "idle" /\ meta = NoMeta
    /\ Accepted(q)
    /\ query' = q
    /\ pc' = "count"
    /\ present' = LET rows == {r \in Row : Where(q, r, row[r])}
                      first == (StorePage(q) - 1) * StoreLimit(q)
                  IN  {r \in rows : Ahead(rows, r) >= first}
    /\ UNCHANGED <<row, total, items, meta, seen, came, went, quiet>>

Answer(page) ==
    LET answers == NewPagination(query, total')
    IN  IF answers = {}
        THEN pc' = "idle" /\ UNCHANGED <<items, meta, seen>>
        ELSE /\ pc' = "answered"
             /\ items' = page
             /\ meta' \in answers
             /\ seen' = [r \in Row |-> IF r \in page THEN seen[r] + 1 ELSE seen[r]]

\* SELECT COUNT(*); without rows List returns at once.
Count ==
    /\ pc = "count"
    /\ total' = Cardinality(Matching)
    /\ quiet' = TRUE
    /\ IF total' = 0
       THEN Answer({})
       ELSE pc' = "select" /\ UNCHANGED <<items, meta, seen>>
    /\ UNCHANGED <<row, query, present, came, went>>

\* Mutant: the page is cut off where the COUNT says that the list ends.
SelectPage_CutToCount ==
    /\ pc = "select"
    /\ Offset(query) >= 0
    /\ UNCHANGED total
    /\ LET left == total - Offset(query)
       IN  Answer(Select(Matching, Offset(query),
                         IF left < StoreLimit(query) THEN left ELSE StoreLimit(query)))
    /\ UNCHANGED <<row, query, present, came, went, quiet>>

\* Mutant: the OFFSET is left out of the statement.
SelectPage_NoOffset ==
    /\ pc = "select"
    /\ UNCHANGED total
    /\ Answer(Select(Matching, 0, StoreLimit(query)))
    /\ UNCHANGED <<row, query, present, came, went, quiet>>

\* The page; PostgreSQL refuses a negative OFFSET.
SelectPage ==
    /\ pc = "select"
    /\ Offset(query) >= 0
    /\ UNCHANGED total
    /\ Answer(Select(Matching, Offset(query), StoreLimit(query)))
    /\ UNCHANGED <<row, query, present, came, went, quiet>>

\* One of the statements fails and the client asks again.
Fail ==
    /\ pc \in {"count", "select"}
    /\ pc' = "count"
    /\ UNCHANGED <<row, query, total, items, meta, history>>

\* A client that goes on until a page is not full.  One that stops at
\* total_pages can miss a row: a creation between COUNT and page moves the
\* last row to a page the count does not know of.
GoOn == Cardinality(items) = meta.limit

NextPage ==
    /\ pc = "answered"
    /\ IF GoOn
       THEN query' = [query EXCEPT !.page = meta.page + 1] /\ pc' = "count"
       ELSE pc' = "ended" /\ UNCHANGED query
    /\ UNCHANGED <<row, total, items, meta, history>>

-----------------------------------------------------------------------------
(* The other requests, during the walk.  A rejection is like an approval.  *)

Change(r, s) ==
    LET before == Where(query, r, row[r])
        after == Where(query, r, s)
    IN  /\ pc \notin {"idle", "ended"}
        /\ row' = [row EXCEPT ![r] = s]
        /\ came' = (came \/ (after /\ ~before))
        /\ went' = (went \/ (before /\ ~after))
        /\ quiet' = (quiet /\ before = after)
        /\ UNCHANGED <<query, pc, total, items, meta, present, seen>>

Create(r) == row[r] = "absent" /\ Change(r, "PENDING")
UpdateStatus(r) == row[r] = "PENDING" /\ Change(r, "APPROVED")
SoftDelete(r) == row[r] = "PENDING" /\ Change(r, "DELETED")

-----------------------------------------------------------------------------

Query == [status : Status, from : Day \cup {NoDate}, to : Day \cup {NoDate},
          page : Page, limit : Limit]

Init ==
    /\ row \in [Row -> {"absent", "PENDING", "APPROVED", "DELETED"}]
    /\ query = [status |-> "ANY", from |-> NoDate, to |-> NoDate, page |-> 0, limit |-> 0]
    /\ pc = "idle"
    /\ total = 0
    /\ items = {}
    /\ meta = NoMeta
    /\ present = {}
    /\ seen = [r \in Row |-> 0]
    /\ came = FALSE /\ went = FALSE
    /\ quiet = FALSE

Next ==
    \/ \E q \in Query : (q.from = NoDate <=> q.to = NoDate) /\ BeginWalk(q)
    \/ Count \/ SelectPage \/ Fail \/ NextPage
    \/ \E r \in Row : Create(r) \/ UpdateStatus(r) \/ SoftDelete(r)

Spec == Init /\ [][Next]_vars

-----------------------------------------------------------------------------

\* The variables stay within their types, and the client never asks for a page
\* that the handler would refuse.
TypeOK ==
    /\ row \in [Row -> {"absent", "PENDING", "APPROVED", "DELETED"}]
    /\ Accepted(query)
    /\ pc \in {"idle", "count", "select", "answered", "ended"}
    /\ total \in 0..Cardinality(Row)
    /\ items \subseteq Row
    /\ meta = NoMeta \/ (meta.page >= 1 /\ meta.limit \in 1..MaximumLimit /\ meta.pages >= 0)
    /\ present \subseteq Row
    /\ seen \in [Row -> Nat]
    /\ {came, went, quiet} \subseteq BOOLEAN

\* The rows of q by the documents: those of the days from q.from to q.to.
Listed(q) ==
    {r \in Row : /\ row[r] \notin {"absent", "DELETED"}
                 /\ q.status \in {"ANY", row[r]}
                 /\ q.from = NoDate \/ r \div DayLength \in q.from..q.to}

\* An answer's rows are those of the page and limit that its meta names, which
\* NewPagination derives a second time, and of the days asked for, as long as
\* the offset fits into an int.
PageIsWhatMetaSays ==
    [][pc = "select" /\ pc' = "answered" /\ NoOverflow((meta'.page - 1) * meta'.limit)
         => items' = {r \in Listed(query) :
                        Ahead(Listed(query), r) \div meta'.limit = meta'.page - 1}]_vars

\* In an answer during which the list did not change, there are rows exactly on
\* the pages up to total_pages, and all but the last of them are full.
PagesAddUp ==
    pc = "answered" /\ quiet /\ NoOverflow((meta.page - 1) * meta.limit) =>
       /\ items # {} <=> meta.page <= meta.pages
       /\ meta.page < meta.pages => Cardinality(items) = meta.limit

\* A walk from a page whose offset fits into an int is never sent on to one
\* whose offset does not: the overflow is met only by a client that asks for
\* such a page by itself.
NextPageInRange ==
    pc = "answered" /\ GoOn /\ NoOverflow((meta.page - 1) * meta.limit)
        => NoOverflow(meta.page * meta.limit)

\* An answer's parts fit together: types, pages that add up to the total, and
\* a next page that the store can reach.
AnswerInvariant == TypeOK /\ PagesAddUp /\ NextPageInRange

\* A walk that goes on until a page is not full is given every row that was
\* there when it began, if no row leaves the list meanwhile, however many are
\* created under it.
NoRowMissed ==
    pc = "ended" /\ ~went => \A r \in present : seen[r] > 0

\* A walk is given no row twice if no row is added to the list meanwhile.
NoRowRepeated == ~came => \A r \in Row : seen[r] <= 1

\* A walk is given each row once, as far as offsets can promise it.
WalkGivesRowsOnce == NoRowMissed /\ NoRowRepeated

=============================================================================
