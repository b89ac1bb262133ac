---------------------- MODULE DisbursementList_proofs -----------------------
(***************************************************************************)
(* Proofs about the list of disbursements: what a page holds and what a    *)
(* walk through the pages is given, for any rows, pages and limits.        *)
(***************************************************************************)
EXTENDS DisbursementList, FiniteSetTheorems, WellFoundedInduction, TLAPS

-----------------------------------------------------------------------------
(* Lemmas about numbers.                                                   *)

\* Division, as the pages and the days use it.
LEMMA DivAtLeast ==
    ASSUME NEW a \in Int, NEW n \in Nat \ {0}, NEW q \in Int
    PROVE  (a \div n) \in Int /\ (q <= a \div n <=> q * n <= a)
<1>1. PICK d : d = a \div n
    OBVIOUS
<1>2. d \in Int /\ d * n <= a /\ a < d * n + n
    BY <1>1
<1>3. ASSUME q <= d
      PROVE  q * n <= a
  <2>1. q * n <= d * n
      BY <1>2, <1>3
  <2>2. q * n \in Int /\ d * n \in Int
      BY <1>2
  <2>3. QED
      BY <1>2, <2>1, <2>2
<1>4. ASSUME ~(q <= d)
      PROVE  ~(q * n <= a)
  <2>1. q >= d + 1
      BY <1>2, <1>4
  <2>2. q * n >= (d + 1) * n
      BY <1>2, <2>1
  <2>3. (d + 1) * n = d * n + n
      BY <1>2
  <2>4. q * n \in Int /\ d * n \in Int
      BY <1>2
  <2>5. QED
      BY <1>2, <2>2, <2>3, <2>4
<1>5. QED
    BY <1>1, <1>2, <1>3, <1>4

\* The quotient is the number of whole pages before a row.
LEMMA DivIs ==
    ASSUME NEW a \in Int, NEW n \in Nat \ {0}, NEW q \in Int
    PROVE  a \div n = q <=> q * n <= a /\ a < q * n + n
<1>1. (a \div n) \in Int /\ (q <= a \div n <=> q * n <= a)
    BY DivAtLeast
<1>2. q + 1 <= a \div n <=> (q + 1) * n <= a
    BY DivAtLeast
<1>3. (q + 1) * n = q * n + n /\ q * n \in Int
    OBVIOUS
<1>4. a \div n = q <=> q <= a \div n /\ ~(q + 1 <= a \div n)
    BY <1>1
<1>5. QED
    BY <1>1, <1>2, <1>3, <1>4

\* The remainder is the one number of its range that is a multiple away.
LEMMA ModIs ==
    ASSUME NEW x \in Int, NEW n \in Nat \ {0}, NEW q \in Int, NEW a \in 0..n - 1, x = q * n + a
    PROVE  x % n = a
<1>1. x \div n = q
  <2>1. q * n \in Int
      OBVIOUS
  <2>2. q * n <= x /\ x < q * n + n
      BY <2>1
  <2>3. QED
      BY <2>2, DivIs
<1>2. PICK m : m = x % n
    OBVIOUS
<1>3. m \in 0..n - 1 /\ x = q * n + m
    BY <1>1, <1>2
<1>4. q * n \in Int
    OBVIOUS
<1>5. QED
    BY <1>2, <1>3, <1>4

\* A product of ints wraps to itself as long as it fits.
LEMMA WrapFits ==
    ASSUME NEW n \in Nat, n < IntBound
    PROVE  NoOverflow(n)
<1>1. IntBound \in Nat \ {0}
    BY ListConstants
<1>2. n + IntBound \in 0..2 * IntBound - 1 /\ 2 * IntBound \in Nat \ {0}
    BY <1>1
<1>3. n + IntBound = 0 * (2 * IntBound) + (n + IntBound)
    BY <1>1
<1>4. (n + IntBound) % (2 * IntBound) = n + IntBound
    BY <1>1, <1>2, <1>3, ModIs
<1>5. QED
    BY <1>1, <1>4 DEF NoOverflow, Wrap

\* The offset of the page after one with an offset is the next, or it is negative.
LEMMA WrapNext ==
    ASSUME NEW n \in Nat, NEW l \in 1..MaximumLimit, Wrap(n) >= 0
    PROVE  Wrap(n) \in Nat /\ (Wrap(n + l) = Wrap(n) + l \/ Wrap(n + l) < 0)
<1>1. IntBound \in Nat \ {0} /\ l \in Nat /\ l < IntBound
    BY ListConstants, IntsSuffice
<1>2. PICK N : N = 2 * IntBound
    OBVIOUS
<1>3. N \in Nat \ {0}
    BY <1>1, <1>2
<1>4. PICK a : a = (n + IntBound) % N
    OBVIOUS
<1>5. PICK q : q = (n + IntBound) \div N
    OBVIOUS
<1>6. q \in Int /\ a \in 0..N - 1 /\ n + IntBound = q * N + a
    BY <1>1, <1>3, <1>4, <1>5
<1>7. Wrap(n) = a - IntBound /\ a >= IntBound
    BY <1>1, <1>2, <1>4, <1>6 DEF Wrap
<1>8. q * N \in Int /\ (q + 1) * N = q * N + N
    BY <1>3, <1>6
<1>9. PICK x : x = n + l + IntBound
    OBVIOUS
<1>10. x \in Int
    BY <1>1, <1>9
<1>11. CASE a + l < N
  <2>1. a + l \in 0..N - 1 /\ x = q * N + (a + l)
      BY <1>1, <1>3, <1>6, <1>8, <1>11, <1>9
  <2>2. x % N = a + l
      BY <1>3, <1>6, <1>10, <2>1, ModIs
  <2>3. QED
      BY <1>1, <1>2, <1>6, <1>7, <1>9, <2>2 DEF Wrap
<1>12. CASE a + l >= N
  <2>1. a + l - N \in 0..N - 1 /\ x = (q + 1) * N + (a + l - N)
      BY <1>1, <1>2, <1>3, <1>6, <1>8, <1>12, <1>9
  <2>2. x % N = a + l - N
    <3>1. q + 1 \in Int
        BY <1>6
    <3>2. QED
        BY <1>3, <1>10, <2>1, <3>1, ModIs
  <2>3. QED
      BY <1>1, <1>2, <1>6, <1>7, <1>9, <2>2 DEF Wrap
<1>13. QED
    BY <1>1, <1>3, <1>6, <1>11, <1>12

\* Every set of numbers that is not empty has a least one.
LEMMA LeastNatural ==
    ASSUME NEW T \in SUBSET Nat, T # {}
    PROVE  \E x \in T : \A y \in T : x <= y
<1> DEFINE R == OpToRel(<, Nat)
<1>1. IsWellFoundedOn(R, Nat)
    BY NatLessThanWellFounded
<1>2. \A x, y \in Nat : y < x => <<y, x>> \in R
    BY DEF OpToRel
<1> HIDE DEF R
<1>3. PICK x \in T : \A y \in T : ~(<<y, x>> \in R)
    BY <1>1, WFMin
<1>4. \A y \in T : ~(y < x)
    BY <1>2, <1>3
<1>5. \A y \in T : x <= y
    BY <1>4
<1>6. QED
    BY <1>5

-----------------------------------------------------------------------------
(* Lemmas about the sort order.                                            *)

\* The rows ahead of a row are some of the rows, not all.
LEMMA AheadBound ==
    ASSUME NEW S \in SUBSET Nat, IsFiniteSet(S), NEW x \in Nat
    PROVE  /\ Ahead(S, x) \in Nat /\ Ahead(S, x) <= Cardinality(S) /\ Cardinality(S) \in Nat
           /\ x \in S => Ahead(S, x) < Cardinality(S)
<1> DEFINE A == {y \in S : y > x}
<1>1. A \in SUBSET S
    OBVIOUS
<1>2. IsFiniteSet(A) /\ Cardinality(A) <= Cardinality(S)
    BY <1>1, FS_Subset
<1>3. Cardinality(A) \in Nat /\ Cardinality(S) \in Nat
    BY <1>2, FS_CardinalityType
<1>4. ASSUME x \in S
      PROVE  Cardinality(A) < Cardinality(S)
  <2>1. A # S
      BY <1>4
  <2>2. Cardinality(A) # Cardinality(S)
      BY <1>1, <2>1, FS_Subset
  <2>3. QED
      BY <1>2, <1>3, <2>2
<1>5. Ahead(S, x) = Cardinality(A)
    BY DEF Ahead
<1> HIDE DEF A
<1>6. QED
    BY <1>2, <1>3, <1>4, <1>5

\* The sort is strict: an older row has more rows ahead of it.
LEMMA AheadOrder ==
    ASSUME NEW S \in SUBSET Nat, IsFiniteSet(S), NEW x \in S, NEW y \in S, x < y
    PROVE  Ahead(S, y) < Ahead(S, x)
<1> DEFINE A == {z \in S : z > y}
           B == {z \in S : z > x}
<1>1. A \in SUBSET B /\ y \in B /\ y \notin A /\ B \in SUBSET S
  <2>1. \A z \in S : z > y => z > x
      OBVIOUS
  <2>2. y > x /\ ~(y > y)
      OBVIOUS
  <2>3. QED
      BY <2>1, <2>2
<1>2. IsFiniteSet(B)
    BY <1>1, FS_Subset
<1>3. Ahead(S, y) = Cardinality(A) /\ Ahead(S, x) = Cardinality(B)
    BY DEF Ahead
<1> HIDE DEF A, B
<1>4. IsFiniteSet(A) /\ Cardinality(A) <= Cardinality(B) /\ A # B
    BY <1>1, <1>2, FS_Subset
<1>5. Cardinality(A) # Cardinality(B)
    BY <1>1, <1>2, <1>4, FS_Subset
<1>6. Cardinality(A) \in Nat /\ Cardinality(B) \in Nat
    BY <1>2, <1>4, FS_CardinalityType
<1>7. QED
    BY <1>3, <1>4, <1>5, <1>6

\* More rows in the list put more rows ahead.
LEMMA AheadGrows ==
    ASSUME NEW T \in SUBSET Nat, IsFiniteSet(T), NEW S \in SUBSET T, NEW x \in Nat
    PROVE  Ahead(S, x) <= Ahead(T, x)
<1> DEFINE A == {z \in S : z > x}
           B == {z \in T : z > x}
<1>1. A \in SUBSET B /\ B \in SUBSET T
    OBVIOUS
<1>2. IsFiniteSet(B)
    BY <1>1, FS_Subset
<1>3. Cardinality(A) <= Cardinality(B)
    BY <1>1, <1>2, FS_Subset
<1>4. QED
    BY <1>3 DEF Ahead

\* The rows with fewer than n rows ahead: the first n.
FirstRows(S, n) == {x \in S : Ahead(S, x) < n}

\* If the first n rows are n rows and there are more, one row has n rows ahead of
\* it, so that the first n + 1 are n + 1.
LEMMA OneMoreRow ==
    ASSUME NEW S \in SUBSET Nat, IsFiniteSet(S), NEW n \in Nat, n < Cardinality(S),
           Cardinality(FirstRows(S, n)) = n
    PROVE  Cardinality(FirstRows(S, n + 1)) = n + 1
<1>1. PICK T : T = FirstRows(S, n)
    OBVIOUS
<1>2. T \in SUBSET S /\ T # S /\ \A x \in S : x \in T <=> Ahead(S, x) < n
    BY <1>1 DEF FirstRows
<1>3. IsFiniteSet(T) /\ Cardinality(T) = n
    BY <1>1, <1>2, FS_Subset
<1>4. \A x \in S : Ahead(S, x) \in Nat
    BY AheadBound
<1>5. PICK R : R = {Ahead(S, x) : x \in S \ T}
    OBVIOUS
<1>6. R \in SUBSET Nat /\ R # {}
    BY <1>2, <1>4, <1>5
<1>7. PICK a \in R : \A b \in R : a <= b
    BY <1>6, LeastNatural
<1>8. PICK r \in S \ T : a = Ahead(S, r)
    BY <1>5, <1>7
<1>9. \A x \in S \ T : Ahead(S, r) <= Ahead(S, x)
    BY <1>5, <1>7, <1>8
<1>10. \A x \in S : x > r => x \in T
  <2>1. SUFFICES ASSUME NEW x \in S, x > r, x \notin T
                 PROVE  FALSE
      OBVIOUS
  <2>2. Ahead(S, x) < Ahead(S, r)
      BY <1>8, <2>1, AheadOrder
  <2>3. Ahead(S, r) <= Ahead(S, x)
      BY <1>9, <2>1
  <2>4. QED
      BY <1>4, <1>8, <2>1, <2>2, <2>3
<1>11. \A x \in T : x > r
  <2>1. SUFFICES ASSUME NEW x \in T, ~(x > r)
                 PROVE  FALSE
      OBVIOUS
  <2>2. x \in S /\ x # r /\ x < r
      BY <1>2, <1>8, <2>1
  <2>3. Ahead(S, r) < Ahead(S, x)
      BY <1>8, <2>2, AheadOrder
  <2>4. Ahead(S, x) < n /\ ~(Ahead(S, r) < n)
      BY <1>2, <1>8, <2>2
  <2>5. QED
      BY <1>4, <1>8, <2>2, <2>3, <2>4
<1>12. Ahead(S, r) = n
  <2>1. T = {x \in S : x > r}
      BY <1>2, <1>10, <1>11
  <2>2. QED
      BY <1>3, <2>1 DEF Ahead
<1>13. FirstRows(S, n + 1) = T \cup {r}
  <2>1. ASSUME NEW x \in S
        PROVE  Ahead(S, x) < n + 1 <=> x \in T \/ x = r
    <3>1. Ahead(S, x) < n + 1 <=> Ahead(S, x) < n \/ Ahead(S, x) = n
        BY <1>4
    <3>2. ASSUME Ahead(S, x) = n
          PROVE  x = r
      <4>1. x < r => Ahead(S, r) < Ahead(S, x)
          BY <1>8, AheadOrder
      <4>2. r < x => Ahead(S, x) < Ahead(S, r)
          BY <1>8, AheadOrder
      <4>3. x \in Nat /\ r \in Nat
          BY <1>8
      <4>4. QED
          BY <1>12, <3>2, <4>1, <4>2, <4>3
    <3>3. QED
        BY <1>2, <1>12, <3>1, <3>2
  <2>2. QED
      BY <1>2, <1>8, <2>1 DEF FirstRows
<1>14. QED
    BY <1>3, <1>8, <1>13, FS_AddElement

\* The first n rows are n rows, as long as there are n.
LEMMA FirstRowsCount ==
    ASSUME NEW S \in SUBSET Nat, IsFiniteSet(S), NEW n \in Nat, n <= Cardinality(S)
    PROVE  Cardinality(FirstRows(S, n)) = n
<1> DEFINE Wrong == {i \in Nat : i <= Cardinality(S) /\ Cardinality(FirstRows(S, i)) # i}
<1>1. SUFFICES ASSUME Wrong # {}
               PROVE  FALSE
    OBVIOUS
<1>2. Cardinality(S) \in Nat
    BY FS_CardinalityType
<1>3. PICK i \in Wrong : \A j \in Wrong : i <= j
    BY <1>1, LeastNatural
<1>4. i \in Nat /\ i <= Cardinality(S) /\ Cardinality(FirstRows(S, i)) # i
    BY <1>3
<1>5. i # 0
  <2>1. FirstRows(S, 0) = {}
    <3>1. \A x \in S : Ahead(S, x) \in Nat
        BY AheadBound
    <3>2. \A x \in S : ~(Ahead(S, x) < 0)
        BY <3>1
    <3>3. QED
        BY <3>2 DEF FirstRows
  <2>2. Cardinality(FirstRows(S, 0)) = 0
      BY <2>1, FS_EmptySet
  <2>3. QED
      BY <1>4, <2>2
<1>6. PICK k \in Nat : i = k + 1
  <2>1. i - 1 \in Nat /\ i = (i - 1) + 1
      BY <1>4, <1>5
  <2>2. QED
      BY <2>1
<1>7. k < Cardinality(S)
    BY <1>2, <1>4, <1>6
<1>8. k \notin Wrong
    BY <1>3, <1>6
<1>9. Cardinality(FirstRows(S, k)) = k
    BY <1>2, <1>7, <1>8
<1> HIDE DEF Wrong
<1>10. QED
    BY <1>4, <1>6, <1>7, <1>9, OneMoreRow

\* A page is full if the rows reach to its end, and has rows if they reach beyond
\* its beginning.
LEMMA PageSize ==
    ASSUME NEW S \in SUBSET Nat, IsFiniteSet(S), NEW o \in Nat, NEW l \in Nat \ {0}
    PROVE  /\ o + l <= Cardinality(S) => Cardinality(Select(S, o, l)) = l
           /\ Select(S, o, l) # {} <=> o < Cardinality(S)
<1>1. Cardinality(S) \in Nat
    BY FS_CardinalityType
<1>2. \A x \in S : Ahead(S, x) \in Nat /\ Ahead(S, x) < Cardinality(S)
    BY AheadBound
<1>3. ASSUME o + l <= Cardinality(S)
      PROVE  Cardinality(Select(S, o, l)) = l
  <2>1. PICK A : A = FirstRows(S, o)
      OBVIOUS
  <2>2. PICK B : B = FirstRows(S, o + l)
      OBVIOUS
  <2>3. Cardinality(A) = o /\ Cardinality(B) = o + l
    <3>1. o + l \in Nat /\ o <= Cardinality(S)
        BY <1>1, <1>3
    <3>2. QED
        BY <1>3, <2>1, <2>2, <3>1, FirstRowsCount
  <2>4. A \in SUBSET B /\ B \in SUBSET S
    <3>1. \A x \in S : Ahead(S, x) < o => Ahead(S, x) < o + l
        BY <1>2
    <3>2. QED
        BY <2>1, <2>2, <3>1 DEF FirstRows
  <2>5. IsFiniteSet(B) /\ IsFiniteSet(A)
      BY <2>4, FS_Subset
  <2>6. Cardinality(B \ A) = Cardinality(B) - Cardinality(B \cap A)
      BY <2>5, FS_Difference
  <2>7. B \cap A = A
      BY <2>4
  <2>8. Select(S, o, l) = B \ A
    <3>1. \A x \in S : o <= Ahead(S, x) <=> ~(Ahead(S, x) < o)
        BY <1>2
    <3>2. QED
        BY <2>1, <2>2, <3>1 DEF Select, FirstRows
  <2>9. QED
      BY <2>3, <2>6, <2>7, <2>8
<1>4. ASSUME o < Cardinality(S)
      PROVE  Select(S, o, l) # {}
  <2>1. PICK A : A = FirstRows(S, o)
      OBVIOUS
  <2>2. PICK B : B = FirstRows(S, o + 1)
      OBVIOUS
  <2>3. Cardinality(A) = o /\ Cardinality(B) = o + 1
    <3>1. o + 1 \in Nat /\ o + 1 <= Cardinality(S) /\ o <= Cardinality(S)
        BY <1>1, <1>4
    <3>2. QED
        BY <2>1, <2>2, <3>1, FirstRowsCount
  <2>4. A \in SUBSET S /\ B \in SUBSET S
      BY <2>1, <2>2 DEF FirstRows
  <2>5. ~(B \subseteq A)
    <3>1. SUFFICES ASSUME B \in SUBSET A
                   PROVE  FALSE
        OBVIOUS
    <3>2. IsFiniteSet(A)
        BY <2>4, FS_Subset
    <3>3. Cardinality(B) <= Cardinality(A)
        BY <3>1, <3>2, FS_Subset
    <3>4. QED
        BY <2>3, <3>3
  <2>6. PICK x \in B : x \notin A
      BY <2>5
  <2>7. x \in S /\ Ahead(S, x) < o + 1 /\ ~(Ahead(S, x) < o)
      BY <2>1, <2>2, <2>6 DEF FirstRows
  <2>8. o <= Ahead(S, x) /\ Ahead(S, x) < o + l
      BY <1>2, <2>7
  <2>9. QED
      BY <2>7, <2>8 DEF Select
<1>5. ASSUME Select(S, o, l) # {}
      PROVE  o < Cardinality(S)
  <2>1. PICK x \in S : o <= Ahead(S, x)
      BY <1>5 DEF Select
  <2>2. QED
      BY <1>1, <1>2, <2>1
<1>6. QED
    BY <1>3, <1>4, <1>5

\* A page that is full ends where there are still rows.
LEMMA FullPage ==
    ASSUME NEW S \in SUBSET Nat, IsFiniteSet(S), NEW o \in Nat, NEW l \in Nat \ {0},
           Cardinality(Select(S, o, l)) = l
    PROVE  o + l <= Cardinality(S)
<1>1. Cardinality(S) \in Nat
    BY FS_CardinalityType
<1>2. PICK P : P = Select(S, o, l)
    OBVIOUS
<1>3. PICK F : F = FirstRows(S, o)
    OBVIOUS
<1>4. \A x \in S : Ahead(S, x) \in Nat /\ Ahead(S, x) < Cardinality(S)
    BY AheadBound
<1>5. P \subseteq S \ F /\ F \subseteq S
  <2>1. F \subseteq S /\ P \subseteq S
      BY <1>2, <1>3 DEF Select, FirstRows
  <2>2. ASSUME NEW x \in P
        PROVE  x \notin F
    <3>1. o <= Ahead(S, x) /\ Ahead(S, x) \in Nat
        BY <1>2, <1>4, <2>1, <2>2 DEF Select
    <3>2. QED
        BY <1>3, <3>1 DEF FirstRows
  <2>3. QED
      BY <2>1, <2>2
<1>6. o <= Cardinality(S)
  <2>1. P # {}
      BY <1>2, FS_EmptySet
  <2>2. QED
      BY <1>1, <1>2, <2>1, PageSize
<1>7. Cardinality(F) = o
    BY <1>3, <1>6, FirstRowsCount
<1>8. IsFiniteSet(S \ F) /\ Cardinality(S \ F) = Cardinality(S) - Cardinality(S \cap F)
    BY FS_Difference
<1>9. S \cap F = F
    BY <1>5
<1>10. Cardinality(P) <= Cardinality(S \ F)
    BY <1>5, <1>8, FS_Subset
<1>11. Cardinality(P) = l
    BY <1>2
<1>12. QED
    BY <1>1, <1>7, <1>8, <1>9, <1>10, <1>11

-----------------------------------------------------------------------------
(* Lemmas about a query.                                                   *)

\* The rows before the page, with no bound on an int.
First(q) == (StorePage(q) - 1) * StoreLimit(q)

\* A query that the handler has let through.
Sound(q) ==
    /\ q \in [status : Status, from : Int, to : Int, page : Int, limit : Int]
    /\ Accepted(q)
    /\ q.from = NoDate <=> q.to = NoDate

\* The meta of an answer to q.
MetaOf(q, n) == [page |-> StorePage(q), limit |-> StoreLimit(q), total |-> n,
                 pages |-> TotalPages(n, StoreLimit(q))]

\* The queries of the walks are sound.
LEMMA QueriesAreSound ==
    ASSUME NEW q \in Query, Accepted(q), q.from = NoDate <=> q.to = NoDate
    PROVE  Sound(q)
<1>1. Day \subseteq Int
  <2>1. \A r \in Row : (r \div DayLength) \in Int
      BY ListConstants, DivAtLeast
  <2>2. QED
      BY <2>1 DEF Day
<1>2. NoDate \in Int
    BY DEF NoDate
<1>3. QED
    BY <1>1, <1>2, ListConstants DEF Query, Sound

\* The store and NewPagination read the same page and limit from a sound query,
\* and NewPagination accepts them.
LEMMA SoundQuery ==
    ASSUME NEW q, Sound(q)
    PROVE  /\ StorePage(q) \in Nat \ {0} /\ StoreLimit(q) \in Nat \ {0}
           /\ StoreLimit(q) \in 1..MaximumLimit
           /\ First(q) \in Nat
           /\ \A n : NewPagination(q, n) = {MetaOf(q, n)}
<1> USE ListConstants
<1>1. q.page \in Int /\ q.limit \in Int /\ (q.page = 0 \/ q.page >= 1)
      /\ (q.limit = 0 \/ (q.limit >= 1 /\ q.limit <= MaximumLimit))
    BY DEF Sound, Accepted
<1>2. StorePage(q) \in Nat \ {0} /\ StoreLimit(q) \in 1..MaximumLimit /\ StoreLimit(q) \in Nat \ {0}
    BY <1>1 DEF StorePage, StoreLimit, DefaultPage
<1>3. First(q) \in Nat
  <2>1. StorePage(q) - 1 \in Nat
      BY <1>2
  <2>2. QED
      BY <1>2, <2>1 DEF First
<1>4. PICK p : p = IF q.page = 0 THEN DefaultPage ELSE q.page
    OBVIOUS
<1>5. PICK l : l = IF q.limit = 0 THEN DefaultLimit ELSE q.limit
    OBVIOUS
<1>6. p = StorePage(q) /\ l = StoreLimit(q)
    BY <1>1, <1>4, <1>5 DEF StorePage, StoreLimit, DefaultPage
<1>7. ~(p < 1 \/ l < 1 \/ l > MaximumLimit)
    BY <1>2, <1>6
<1>8. ASSUME NEW n
      PROVE  NewPagination(q, n) = {MetaOf(q, n)}
  <2>1. NewPagination(q, n) = IF p < 1 \/ l < 1 \/ l > MaximumLimit THEN {}
            ELSE {[page |-> p, limit |-> l, total |-> n, pages |-> TotalPages(n, l)]}
      BY <1>4, <1>5 DEF NewPagination
  <2>2. QED
      BY <1>6, <1>7, <2>1 DEF MetaOf
<1>9. QED
    BY <1>2, <1>3, <1>8

\* The half-open range of times is the closed range of days.
LEMMA DaysAsked ==
    ASSUME NEW q, Sound(q), NEW r \in Row
    PROVE  DateRange(q).from <= r /\ r < DateRange(q).to <=> r \div DayLength \in q.from..q.to
<1>1. DayLength \in Nat \ {0} /\ r \in Int /\ q.from \in Int /\ q.to \in Int
    BY ListConstants DEF Sound
<1>2. PICK f, t : f = q.from /\ t = q.to
    OBVIOUS
<1>3. f \in Int /\ t \in Int /\ t + 1 \in Int
    BY <1>1, <1>2
<1>4. PICK d : d = r \div DayLength
    OBVIOUS
<1>5. d \in Int /\ (f <= d <=> f * DayLength <= r) /\ (t + 1 <= d <=> (t + 1) * DayLength <= r)
    BY <1>1, <1>3, <1>4, DivAtLeast
<1>6. DateRange(q).from = f * DayLength /\ DateRange(q).to = (t + 1) * DayLength
    BY <1>2 DEF DateRange
<1>7. f * DayLength \in Int /\ (t + 1) * DayLength \in Int
    BY <1>1, <1>3
<1>8. d \in f..t <=> f <= d /\ ~(t + 1 <= d)
    BY <1>3, <1>5
<1>9. r < (t + 1) * DayLength <=> ~((t + 1) * DayLength <= r)
    BY <1>1, <1>7
<1>10. QED
    BY <1>2, <1>4, <1>5, <1>6, <1>8, <1>9

\* The WHERE clause lists what the documents say.
LEMMA ListedIsMatching ==
    ASSUME Sound(query)
    PROVE  Listed(query) = Matching
<1>1. ASSUME NEW r \in Row
      PROVE  (query.from = NoDate \/ r \div DayLength \in query.from..query.to)
                <=> (query.from # NoDate => DateRange(query).from <= r /\ r < DateRange(query).to)
    BY DaysAsked
<1>2. ASSUME NEW r \in Row
      PROVE  query.status \in {"ANY", row[r]} <=> (query.status # "ANY" => row[r] = query.status)
    OBVIOUS
<1>3. QED
    BY <1>1, <1>2 DEF Listed, Matching, Where

\* The rows of the list are finitely many numbers, fewer than ints.
LEMMA MatchingFinite ==
    /\ Matching \in SUBSET Nat /\ Matching \subseteq Row /\ IsFiniteSet(Matching)
    /\ Cardinality(Matching) \in Nat
    /\ Cardinality(Matching) \in 0..Cardinality(Row) /\ Cardinality(Matching) < IntBound
<1>1. Matching \in SUBSET Row
    BY DEF Matching
<1>2. IsFiniteSet(Row) /\ Row \subseteq Nat /\ Cardinality(Row) < IntBound /\ IntBound \in Nat
    BY ListConstants, IntsSuffice
<1>3. IsFiniteSet(Matching) /\ Cardinality(Matching) <= Cardinality(Row)
    BY <1>1, <1>2, FS_Subset
<1>4. Cardinality(Matching) \in Nat /\ Cardinality(Row) \in Nat
    BY <1>2, <1>3, FS_CardinalityType
<1>5. QED
    BY <1>1, <1>2, <1>3, <1>4

\* The pages up to total_pages are those that begin before the last row.
LEMMA PagesOfTotal ==
    ASSUME NEW n \in Nat, NEW l \in Nat \ {0}, NEW p \in Nat \ {0}
    PROVE  /\ TotalPages(n, l) \in Nat /\ (n = 0 => TotalPages(n, l) = 0)
           /\ p <= TotalPages(n, l) <=> (p - 1) * l < n
           /\ p < TotalPages(n, l) => (p - 1) * l + l <= n
<1>1. PICK t : t = TotalPages(n, l)
    OBVIOUS
<1>2. \A q \in Int : t \in Int /\ (q <= t <=> q * l <= n + l - 1)
  <2>1. n + l - 1 \in Int
      OBVIOUS
  <2>2. QED
      BY <1>1, <2>1, DivAtLeast DEF TotalPages
<1>3. t \in Int /\ 0 <= t
  <2>1. 0 * l <= n + l - 1
      OBVIOUS
  <2>2. QED
      BY <1>2, <2>1
<1>4. n = 0 => t = 0
  <2>1. ~(1 * l <= 0 + l - 1)
      OBVIOUS
  <2>2. QED
      BY <1>2, <1>3, <2>1
<1>5. (p - 1) * l \in Int /\ p * l = (p - 1) * l + l /\ (p + 1) * l = p * l + l
    OBVIOUS
<1>6. p <= t <=> (p - 1) * l < n
  <2>1. p <= t <=> p * l <= n + l - 1
      BY <1>2
  <2>2. QED
      BY <1>5, <2>1
<1>7. p < t => (p - 1) * l + l <= n
  <2>1. p + 1 <= t <=> (p + 1) * l <= n + l - 1
      BY <1>2
  <2>2. p < t => p + 1 <= t
      BY <1>3
  <2>3. QED
      BY <1>5, <2>1, <2>2
<1>8. QED
    BY <1>1, <1>3, <1>4, <1>6, <1>7

-----------------------------------------------------------------------------
(* The inductive invariant.                                                *)

\* An answer's meta belongs to the query, and a page with rows had an offset that
\* PostgreSQL takes.
AnswerOK ==
    pc = "answered" =>
       /\ meta = MetaOf(query, total)
       /\ items # {} => Offset(query) >= 0

\* Between the COUNT and the page, the total is right unless the list changed.
CountOK == pc = "select" /\ quiet => total = Cardinality(Matching)

\* The walk begins with its first answer, and a failed one does not end it.
IdleOK == pc = "idle" => \A r \in Row : seen[r] = 0

\* How far the walk has come, not counting with the bounds of an int.
Reached == IF pc = "answered" THEN First(query) + StoreLimit(query) ELSE First(query)

\* If no row left the list, a row that was there and was not given yet still lies
\* ahead of the walk, which then goes on.
MissedOK ==
    pc # "idle" /\ ~went =>
       \A r \in present :
          /\ r \in Matching
          /\ \/ seen[r] > 0
             \/ Reached <= Ahead(Matching, r) /\ pc # "ended" /\ (pc = "answered" => GoOn)

\* If no row came into the list, a row that was given lies behind the next page.
RepeatedOK ==
    ~came =>
       \A r \in Row :
          /\ seen[r] <= 1
          /\ seen[r] > 0 /\ r \in Matching =>
                /\ pc \in {"count", "select"} /\ Offset(query) >= 0
                      => Ahead(Matching, r) < Offset(query)
                /\ pc = "answered" /\ items # {}
                      => Ahead(Matching, r) < Offset(query) + StoreLimit(query)

IInv ==
    /\ TypeOK /\ Sound(query)
    /\ AnswerOK /\ CountOK /\ IdleOK /\ PagesAddUp /\ NextPageInRange
    /\ MissedOK /\ RepeatedOK

-----------------------------------------------------------------------------
(* The other requests keep the invariant.                                  *)

\* A change adds a row to the list or takes one from it, and history says so.
LEMMA ChangeOfList ==
    ASSUME TypeOK, NEW r \in Row, NEW s, Change(r, s)
    PROVE  /\ UNCHANGED <<query, pc, total, items, meta, present, seen>>
           /\ pc \notin {"idle", "ended"}
           /\ ~came' => ~came /\ Matching' \subseteq Matching
           /\ ~went' => ~went /\ Matching \subseteq Matching'
           /\ quiet' => quiet /\ Matching' = Matching
           /\ {came', went', quiet'} \subseteq BOOLEAN
<1>1. row \in [Row -> {"absent", "PENDING", "APPROVED", "DELETED"}]
      /\ {came, went, quiet} \subseteq BOOLEAN
    BY DEF TypeOK
<1>2. PICK b : b = Where(query, r, row[r])
    OBVIOUS
<1>3. PICK a : a = Where(query, r, s)
    OBVIOUS
<1>4. a \in BOOLEAN /\ b \in BOOLEAN
    BY <1>2, <1>3 DEF Where
<1>5. /\ row' = [row EXCEPT ![r] = s] /\ pc \notin {"idle", "ended"}
      /\ came' = (came \/ (a /\ ~b))
      /\ went' = (went \/ (b /\ ~a))
      /\ quiet' = (quiet /\ b = a)
      /\ UNCHANGED <<query, pc, total, items, meta, present, seen>>
    BY <1>2, <1>3 DEF Change
<1>6. row'[r] = s /\ \A x \in Row : x # r => row'[x] = row[x]
    BY <1>1, <1>5
<1>7. r \in Matching <=> b
    BY <1>2 DEF Matching
<1>8. Matching' = {x \in Row : Where(query, x, row'[x])}
    BY <1>5 DEF Matching, Where, DateRange
<1>9. r \in Matching' <=> a
    BY <1>3, <1>6, <1>8
<1>10. \A x : x # r => (x \in Matching' <=> x \in Matching)
    BY <1>6, <1>8 DEF Matching
<1>11. ~came' => ~came /\ Matching' \subseteq Matching
    BY <1>4, <1>5, <1>7, <1>9, <1>10
<1>12. ~went' => ~went /\ Matching \subseteq Matching'
    BY <1>4, <1>5, <1>7, <1>9, <1>10
<1>13. quiet' => quiet /\ Matching' = Matching
  <2>1. SUFFICES ASSUME quiet'
                 PROVE  quiet /\ Matching' = Matching
      OBVIOUS
  <2>2. quiet /\ b = a
      BY <1>5, <2>1
  <2>3. r \in Matching' <=> r \in Matching
      BY <1>7, <1>9, <2>2
  <2>4. \A x : x \in Matching' <=> x \in Matching
      BY <1>10, <2>3
  <2>5. QED
      BY <2>2, <2>4
<1>14. {came', went', quiet'} \subseteq BOOLEAN
    BY <1>1, <1>4, <1>5
<1>15. QED
    BY <1>5, <1>11, <1>12, <1>13, <1>14

\* A creation, finalization or deletion during the walk keeps the invariant.
LEMMA ChangePreserves ==
    ASSUME IInv, NEW r \in Row, NEW s \in {"PENDING", "APPROVED", "DELETED"}, Change(r, s)
    PROVE  IInv'
<1>1. TypeOK /\ Sound(query) /\ AnswerOK /\ CountOK /\ IdleOK /\ PagesAddUp
      /\ NextPageInRange /\ MissedOK /\ RepeatedOK
    BY DEF IInv
<1>2. /\ UNCHANGED <<query, pc, total, items, meta, present, seen>>
      /\ pc \notin {"idle", "ended"}
      /\ ~came' => ~came /\ Matching' \subseteq Matching
      /\ ~went' => ~went /\ Matching \subseteq Matching'
      /\ quiet' => quiet /\ Matching' = Matching
      /\ {came', went', quiet'} \subseteq BOOLEAN
    BY <1>1, ChangeOfList
<1>3. TypeOK'
  <2>1. row' \in [Row -> {"absent", "PENDING", "APPROVED", "DELETED"}]
      BY <1>1 DEF Change, TypeOK
  <2>2. QED
      BY <1>1, <1>2, <2>1 DEF TypeOK, Accepted
<1>4. Sound(query)' /\ AnswerOK' /\ IdleOK'
    BY <1>1, <1>2 DEF Sound, AnswerOK, IdleOK, Accepted, MetaOf, StorePage, StoreLimit, Offset
<1>5. CountOK'
    BY <1>1, <1>2 DEF CountOK
<1>6. PagesAddUp' /\ NextPageInRange'
    BY <1>1, <1>2 DEF PagesAddUp, NextPageInRange, GoOn
<1>7. PICK M, N : M = Matching /\ N = Matching'
    OBVIOUS
<1>8. /\ M \in SUBSET Nat /\ M \subseteq Row /\ IsFiniteSet(M)
    BY <1>7, MatchingFinite
<1>9. /\ N \in SUBSET Nat /\ N \subseteq Row /\ IsFiniteSet(N)
  <2>1. N \in SUBSET Row
      BY <1>7 DEF Matching
  <2>2. QED
      BY <2>1, ListConstants, FS_Subset
<1>10. present \subseteq Row /\ Row \subseteq Nat /\ seen \in [Row -> Nat]
    BY <1>1, ListConstants DEF TypeOK
<1>11. First(query) \in Nat /\ StoreLimit(query) \in Nat
    BY <1>1, SoundQuery
<1>12. MissedOK'
  <2>1. SUFFICES ASSUME ~went', NEW x \in present
                 PROVE  /\ x \in N
                        /\ \/ seen[x] > 0
                           \/ Reached <= Ahead(N, x) /\ pc # "ended" /\ (pc = "answered" => GoOn)
      BY <1>2, <1>7 DEF MissedOK, Reached, GoOn, First, StorePage, StoreLimit
  <2>2. M \in SUBSET N /\ ~went
      BY <1>2, <1>7, <2>1
  <2>3. /\ x \in M
        /\ \/ seen[x] > 0
           \/ Reached <= Ahead(M, x) /\ pc # "ended" /\ (pc = "answered" => GoOn)
    <3>1. pc # "idle" /\ ~went /\ MissedOK
        BY <1>1, <1>2, <2>2
    <3>2. /\ x \in Matching
          /\ \/ seen[x] > 0
             \/ Reached <= Ahead(Matching, x) /\ pc # "ended" /\ (pc = "answered" => GoOn)
        BY <3>1 DEF MissedOK
    <3>3. QED
        BY <1>7, <3>2
  <2>4. Ahead(M, x) <= Ahead(N, x)
      BY <1>9, <1>10, <2>2, AheadGrows
  <2>5. Ahead(M, x) \in Nat /\ Ahead(N, x) \in Nat /\ Reached \in Nat
      BY <1>8, <1>9, <1>10, <1>11, AheadBound DEF Reached
  <2>6. QED
      BY <2>2, <2>3, <2>4, <2>5
<1>13. RepeatedOK'
  <2>1. Offset(query) \in Int
      BY <1>11, ListConstants DEF Offset, Wrap, First
  <2>2. Offset(query)' = Offset(query) /\ StoreLimit(query)' = StoreLimit(query)
      BY <1>2 DEF Offset, StorePage, StoreLimit
  <2>3. SUFFICES ASSUME ~came', NEW x \in Row
                 PROVE  /\ seen[x] <= 1
                        /\ seen[x] > 0 /\ x \in N =>
                              /\ pc \in {"count", "select"} /\ Offset(query) >= 0
                                    => Ahead(N, x) < Offset(query)
                              /\ pc = "answered" /\ items # {}
                                    => Ahead(N, x) < Offset(query) + StoreLimit(query)
      BY <1>2, <1>7, <2>2 DEF RepeatedOK
  <2>4. N \in SUBSET M /\ ~came
      BY <1>2, <1>7, <2>3
  <2>5. /\ seen[x] <= 1
        /\ seen[x] > 0 /\ x \in M =>
              /\ pc \in {"count", "select"} /\ Offset(query) >= 0 => Ahead(M, x) < Offset(query)
              /\ pc = "answered" /\ items # {} => Ahead(M, x) < Offset(query) + StoreLimit(query)
      BY <1>1, <1>7, <2>4 DEF RepeatedOK
  <2>6. Ahead(N, x) <= Ahead(M, x)
      BY <1>8, <1>10, <2>4, AheadGrows
  <2>7. Ahead(M, x) \in Nat /\ Ahead(N, x) \in Nat
      BY <1>8, <1>9, <1>10, AheadBound
  <2>8. QED
      BY <1>11, <2>1, <2>4, <2>5, <2>6, <2>7
<1>14. QED
    BY <1>3, <1>4, <1>5, <1>6, <1>12, <1>13 DEF IInv

-----------------------------------------------------------------------------
(* The walk keeps the invariant.                                           *)

\* What Where reads of a query.
LEMMA SameList ==
    ASSUME UNCHANGED row, query'.status = query.status, query'.from = query.from,
           query'.to = query.to
    PROVE  Matching' = Matching
BY DEF Matching, Where, DateRange

\* The first request: nothing was given yet, and all of present lies ahead.
LEMMA BeginPreserves ==
    ASSUME IInv, NEW q \in Query, q.from = NoDate <=> q.to = NoDate, BeginWalk(q)
    PROVE  IInv'
<1>1. TypeOK /\ IdleOK /\ MissedOK /\ RepeatedOK
    BY DEF IInv
<1>2. /\ pc = "idle" /\ meta = NoMeta /\ Accepted(q) /\ query' = q /\ pc' = "count"
      /\ UNCHANGED <<row, total, items, meta, seen, came, went, quiet>>
    BY DEF BeginWalk
<1>3. PICK M : M = Matching'
    OBVIOUS
<1>4. M = {r \in Row : Where(q, r, row[r])}
    BY <1>2, <1>3 DEF Matching
<1>5. present' = {r \in M : Ahead(M, r) >= First(q)}
    BY <1>4 DEF BeginWalk, First
<1>6. Sound(q)
    BY <1>2, QueriesAreSound
<1>7. present' \subseteq Row
    BY <1>4, <1>5
<1>8. TypeOK'
    BY <1>1, <1>2, <1>7 DEF TypeOK
<1>9. AnswerOK' /\ CountOK' /\ IdleOK' /\ PagesAddUp' /\ NextPageInRange'
    BY <1>2 DEF AnswerOK, CountOK, IdleOK, PagesAddUp, NextPageInRange
<1>10. MissedOK'
  <2>1. Reached' = First(q)
      BY <1>2 DEF Reached, First
  <2>2. First(q) \in Nat
      BY <1>6, SoundQuery
  <2>3. M \in SUBSET Row
      BY <1>4
  <2>4. M \in SUBSET Nat /\ IsFiniteSet(M)
      BY <2>3, ListConstants, FS_Subset
  <2>5. ASSUME NEW r \in present'
        PROVE  r \in M /\ First(q) <= Ahead(M, r)
    <3>1. r \in M /\ Ahead(M, r) >= First(q)
        BY <1>5
    <3>2. Ahead(M, r) \in Nat
        BY <2>4, <3>1, AheadBound
    <3>3. QED
        BY <2>2, <3>1, <3>2
  <2>6. QED
      BY <1>2, <1>3, <2>1, <2>5 DEF MissedOK
<1>11. RepeatedOK'
  <2>1. \A r \in Row : seen'[r] = 0
      BY <1>1, <1>2 DEF IdleOK
  <2>2. QED
      BY <2>1 DEF RepeatedOK
<1>12. QED
    BY <1>2, <1>6, <1>8, <1>9, <1>10, <1>11 DEF IInv

\* A statement that fails changes nothing but where the request is.
LEMMA FailPreserves ==
    ASSUME IInv, Fail
    PROVE  IInv'
<1>1. TypeOK /\ Sound(query) /\ MissedOK /\ RepeatedOK
    BY DEF IInv
<1>2. /\ pc \in {"count", "select"} /\ pc' = "count"
      /\ UNCHANGED <<row, query, total, items, meta, present, seen, came, went, quiet>>
    BY DEF Fail, history
<1>3. Matching' = Matching
    BY <1>2, SameList
<1>4. TypeOK' /\ Sound(query)'
    BY <1>1, <1>2 DEF TypeOK, Sound, Accepted
<1>5. AnswerOK' /\ CountOK' /\ IdleOK' /\ PagesAddUp' /\ NextPageInRange'
    BY <1>2 DEF AnswerOK, CountOK, IdleOK, PagesAddUp, NextPageInRange
<1>6. MissedOK'
  <2>1. Reached' = Reached
      BY <1>2 DEF Reached, First, StorePage, StoreLimit
  <2>2. QED
      BY <1>1, <1>2, <1>3, <2>1 DEF MissedOK
<1>7. RepeatedOK'
  <2>1. Offset(query)' = Offset(query)
      BY <1>2 DEF Offset, StorePage, StoreLimit
  <2>2. QED
      BY <1>1, <1>2, <1>3, <2>1 DEF RepeatedOK
<1>8. QED
    BY <1>4, <1>5, <1>6, <1>7 DEF IInv

\* The answer to a sound query is never NewPagination's error.
LEMMA AnswerIsGiven ==
    ASSUME Sound(query), UNCHANGED query, NEW page, Answer(page)
    PROVE  /\ pc' = "answered" /\ items' = page /\ meta' = MetaOf(query, total')
           /\ seen' = [r \in Row |-> IF r \in page THEN seen[r] + 1 ELSE seen[r]]
<1>1. PICK n : n = total'
    OBVIOUS
<1>2. NewPagination(query, n) = {MetaOf(query, n)}
    BY SoundQuery
<1>3. QED
    BY <1>1, <1>2 DEF Answer

\* An answer keeps the types.
LEMMA AnswerTypes ==
    ASSUME TypeOK, Sound(query), UNCHANGED <<row, query, present, came, went>>,
           quiet' \in BOOLEAN, NEW page \in SUBSET Row, Answer(page),
           total' \in 0..Cardinality(Row)
    PROVE  TypeOK'
<1>1. /\ pc' = "answered" /\ items' = page /\ meta' = MetaOf(query, total')
      /\ seen' = [r \in Row |-> IF r \in page THEN seen[r] + 1 ELSE seen[r]]
    BY AnswerIsGiven
<1>2. StorePage(query) \in Nat \ {0} /\ StoreLimit(query) \in Nat \ {0}
      /\ StoreLimit(query) \in 1..MaximumLimit
    BY SoundQuery
<1>3. total' \in Nat
  <2>1. Cardinality(Row) \in Nat
      BY ListConstants, FS_CardinalityType
  <2>2. QED
      BY <2>1
<1>4. TotalPages(total', StoreLimit(query)) \in Nat
    BY <1>2, <1>3, PagesOfTotal
<1>5. meta'.page >= 1 /\ meta'.limit \in 1..MaximumLimit /\ meta'.pages >= 0
  <2>1. meta'.page = StorePage(query) /\ meta'.limit = StoreLimit(query)
        /\ meta'.pages = TotalPages(total', StoreLimit(query))
      BY <1>1 DEF MetaOf
  <2>2. QED
      BY <1>2, <1>4, <2>1
<1>6. seen' \in [Row -> Nat]
    BY <1>1 DEF TypeOK
<1>7. QED
    BY <1>1, <1>5, <1>6 DEF TypeOK, Accepted

\* The COUNT: with rows the page comes next, without any the answer is empty.
LEMMA CountPreserves ==
    ASSUME IInv, Count
    PROVE  IInv'
<1>1. TypeOK /\ Sound(query) /\ MissedOK /\ RepeatedOK
    BY DEF IInv
<1>2. /\ pc = "count" /\ total' = Cardinality(Matching) /\ quiet' = TRUE
      /\ UNCHANGED <<row, query, present, came, went>>
    BY DEF Count
<1>3. Matching' = Matching
    BY <1>2, SameList
<1>4. total' \in 0..Cardinality(Row)
    BY <1>2, MatchingFinite
<1>5. Sound(query)'
    BY <1>1, <1>2
<1>6. CASE total' # 0
  <2>1. pc' = "select" /\ UNCHANGED <<items, meta, seen>>
      BY <1>6 DEF Count
  <2>2. TypeOK'
      BY <1>1, <1>2, <1>4, <2>1 DEF TypeOK
  <2>3. AnswerOK' /\ IdleOK' /\ PagesAddUp' /\ NextPageInRange'
      BY <2>1 DEF AnswerOK, IdleOK, PagesAddUp, NextPageInRange
  <2>4. CountOK'
      BY <1>2, <1>3 DEF CountOK
  <2>5. MissedOK'
    <3>1. Reached' = Reached
        BY <1>2, <2>1 DEF Reached, First
    <3>2. QED
        BY <1>1, <1>2, <1>3, <2>1, <3>1 DEF MissedOK
  <2>6. RepeatedOK'
      BY <1>1, <1>2, <1>3, <2>1 DEF RepeatedOK
  <2>7. QED
      BY <1>5, <2>2, <2>3, <2>4, <2>5, <2>6 DEF IInv
<1>7. CASE total' = 0
  <2>1. Answer({})
      BY <1>7 DEF Count
  <2>2. /\ pc' = "answered" /\ items' = {} /\ meta' = MetaOf(query, total')
        /\ seen' = [r \in Row |-> IF r \in {} THEN seen[r] + 1 ELSE seen[r]]
      BY <1>1, <1>2, <2>1, AnswerIsGiven
  <2>3. seen' = seen
      BY <1>1, <2>2 DEF TypeOK
  <2>4. Matching = {}
      BY <1>2, <1>7, MatchingFinite, FS_EmptySet
  <2>5. TypeOK'
    <3>1. {} \in SUBSET Row /\ quiet' \in BOOLEAN
        BY <1>2
    <3>2. QED
        BY <1>1, <1>2, <1>4, <2>1, <3>1, AnswerTypes
  <2>6. AnswerOK' /\ CountOK' /\ IdleOK'
      BY <1>2, <2>2 DEF AnswerOK, CountOK, IdleOK
  <2>7. PagesAddUp'
    <3>1. StorePage(query) \in Nat \ {0} /\ StoreLimit(query) \in Nat \ {0}
        BY <1>1, SoundQuery
    <3>2. TotalPages(0, StoreLimit(query)) = 0
        BY <3>1, PagesOfTotal
    <3>3. meta'.page = StorePage(query) /\ meta'.pages = 0
        BY <1>7, <2>2, <3>2 DEF MetaOf
    <3>4. ~(meta'.page <= meta'.pages) /\ ~(meta'.page < meta'.pages)
        BY <3>1, <3>3
    <3>5. QED
        BY <2>2, <3>4 DEF PagesAddUp
  <2>8. MissedOK'
    <3>1. ~went => present = {}
        BY <1>1, <1>2, <2>4 DEF MissedOK
    <3>2. QED
        BY <1>2, <3>1 DEF MissedOK
  <2>9. RepeatedOK'
      BY <1>1, <1>2, <1>3, <2>2, <2>3, <2>4 DEF RepeatedOK
  <2>10. NextPageInRange'
    <3>1. meta'.limit \in Nat \ {0}
        BY <1>1, <2>2, SoundQuery DEF MetaOf
    <3>2. ~GoOn'
        BY <2>2, <3>1, FS_EmptySet DEF GoOn
    <3>3. QED
        BY <3>2 DEF NextPageInRange
  <2>11. QED
      BY <1>5, <2>5, <2>6, <2>7, <2>8, <2>9, <2>10 DEF IInv
<1>8. QED
    BY <1>6, <1>7

\* The page: the rows it gives were not given before, and the ones it does not
\* give lie behind it or ahead of it; in the second case it is full.
LEMMA SelectPreserves ==
    ASSUME IInv, SelectPage
    PROVE  IInv'
<1>1. TypeOK /\ Sound(query) /\ CountOK /\ MissedOK /\ RepeatedOK
    BY DEF IInv
<1>2. PICK M : M = Matching
    OBVIOUS
<1>3. PICK o : o = Offset(query)
    OBVIOUS
<1>4. PICK l : l = StoreLimit(query)
    OBVIOUS
<1>5. PICK f : f = First(query)
    OBVIOUS
<1>6. PICK page : page = Select(M, o, l)
    OBVIOUS
<1>7. /\ pc = "select" /\ o >= 0 /\ Answer(page)
      /\ UNCHANGED <<row, query, total, present, came, went, quiet>>
    BY <1>2, <1>3, <1>4, <1>6 DEF SelectPage
<1>8. Matching' = M
    BY <1>2, <1>7, SameList
<1>9. /\ pc' = "answered" /\ items' = page /\ meta' = MetaOf(query, total)
      /\ seen' = [r \in Row |-> IF r \in page THEN seen[r] + 1 ELSE seen[r]]
    BY <1>1, <1>7, AnswerIsGiven
<1>10. M \in SUBSET Nat /\ M \subseteq Row /\ IsFiniteSet(M) /\ Cardinality(M) \in Nat
       /\ Cardinality(M) < IntBound /\ IntBound \in Nat
    BY <1>2, MatchingFinite, ListConstants
<1>11. l \in Nat \ {0} /\ f \in Nat /\ StorePage(query) \in Nat \ {0}
    BY <1>1, <1>4, <1>5, SoundQuery
<1>12. o = Wrap(f) /\ o \in Nat
  <2>1. o = Wrap(f)
      BY <1>3, <1>5 DEF Offset, First
  <2>2. o \in Int
      BY <1>11, <2>1, ListConstants DEF Wrap
  <2>3. QED
      BY <1>7, <2>1, <2>2
<1>13. \A x \in M : Ahead(M, x) \in Nat /\ Ahead(M, x) < Cardinality(M)
    BY <1>10, AheadBound
<1>14. \A x : x \in page <=> x \in M /\ o <= Ahead(M, x) /\ Ahead(M, x) < o + l
    BY <1>6 DEF Select
<1>15. /\ o + l <= Cardinality(M) => Cardinality(page) = l
       /\ page # {} <=> o < Cardinality(M)
    BY <1>6, <1>10, <1>11, <1>12, PageSize
<1>16. seen \in [Row -> Nat] /\ present \subseteq Row /\ total \in 0..Cardinality(Row)
    BY <1>1 DEF TypeOK
<1>17. TypeOK' /\ Sound(query)'
  <2>1. page \in SUBSET Row /\ quiet' \in BOOLEAN /\ total' \in 0..Cardinality(Row)
      BY <1>1, <1>7, <1>10, <1>14 DEF TypeOK
  <2>2. QED
      BY <1>1, <1>7, <2>1, AnswerTypes
<1>18. AnswerOK' /\ CountOK' /\ IdleOK'
  <2>1. Offset(query)' = o /\ o >= 0
      BY <1>3, <1>7 DEF Offset
  <2>2. QED
      BY <1>7, <1>9, <2>1 DEF AnswerOK, CountOK, IdleOK
<1>19. /\ meta'.page = StorePage(query) /\ meta'.limit = l
       /\ meta'.pages = TotalPages(total, l)
       /\ (meta'.page - 1) * meta'.limit = f
    BY <1>4, <1>5, <1>9 DEF MetaOf, First
<1>20. PagesAddUp'
  <2>1. SUFFICES ASSUME quiet, NoOverflow(f)
                 PROVE  /\ page # {} <=> meta'.page <= meta'.pages
                        /\ meta'.page < meta'.pages => Cardinality(page) = l
      BY <1>7, <1>9, <1>19 DEF PagesAddUp
  <2>2. total = Cardinality(M) /\ o = f
      BY <1>1, <1>2, <1>7, <1>12, <2>1 DEF CountOK, NoOverflow
  <2>3. PICK p : p = StorePage(query)
      OBVIOUS
  <2>4. p \in Nat \ {0} /\ (p - 1) * l = f
      BY <1>4, <1>5, <1>11, <2>3 DEF First
  <2>5. /\ p <= TotalPages(total, l) <=> f < Cardinality(M)
        /\ p < TotalPages(total, l) => f + l <= Cardinality(M)
      BY <1>10, <1>11, <2>2, <2>4, PagesOfTotal
  <2>6. QED
      BY <1>15, <1>19, <2>2, <2>3, <2>5
<1>21. MissedOK'
  <2>1. Reached' = f + l
      BY <1>4, <1>5, <1>7, <1>9 DEF Reached, First
  <2>2. GoOn' <=> Cardinality(page) = l
      BY <1>9, <1>19 DEF GoOn
  <2>3. SUFFICES ASSUME ~went, NEW r \in present
                 PROVE  /\ r \in M
                        /\ seen'[r] > 0 \/ (f + l <= Ahead(M, r) /\ Cardinality(page) = l)
      BY <1>7, <1>8, <1>9, <2>1, <2>2 DEF MissedOK
  <2>4. r \in M /\ (seen[r] > 0 \/ f <= Ahead(M, r))
      BY <1>1, <1>2, <1>5, <1>7, <2>3 DEF MissedOK, Reached
  <2>5. seen'[r] = IF r \in page THEN seen[r] + 1 ELSE seen[r]
      BY <1>9, <1>16
  <2>6. seen[r] \in Nat
      BY <1>16
  <2>7. CASE seen[r] > 0 \/ r \in page
      BY <2>4, <2>5, <2>6, <2>7
  <2>8. CASE ~(seen[r] > 0) /\ r \notin page
    <3>1. f <= Ahead(M, r) /\ Ahead(M, r) < Cardinality(M) /\ Ahead(M, r) \in Nat
        BY <1>13, <2>4, <2>8
    <3>2. f < IntBound
        BY <1>10, <1>11, <3>1
    <3>3. o = f
        BY <1>11, <1>12, <3>2, WrapFits DEF NoOverflow
    <3>4. f + l <= Ahead(M, r)
        BY <1>11, <1>14, <2>4, <2>8, <3>1, <3>3
    <3>5. o + l <= Cardinality(M)
        BY <1>10, <1>11, <3>1, <3>3, <3>4
    <3>6. QED
        BY <1>15, <2>4, <3>4, <3>5
  <2>9. QED
      BY <2>7, <2>8
<1>22. RepeatedOK'
  <2>1. Offset(query)' = o /\ StoreLimit(query)' = l
      BY <1>3, <1>4, <1>7 DEF Offset
  <2>2. SUFFICES ASSUME ~came, NEW x \in Row
                 PROVE  /\ seen'[x] <= 1
                        /\ seen'[x] > 0 /\ x \in M => Ahead(M, x) < o + l
      BY <1>7, <1>8, <1>9, <2>1 DEF RepeatedOK
  <2>3. seen[x] <= 1 /\ (seen[x] > 0 /\ x \in M => Ahead(M, x) < o)
      BY <1>1, <1>2, <1>3, <1>7, <2>2 DEF RepeatedOK
  <2>4. seen'[x] = (IF x \in page THEN seen[x] + 1 ELSE seen[x]) /\ seen[x] \in Nat
      BY <1>9, <1>16
  <2>5. CASE x \in page
    <3>1. x \in M /\ o <= Ahead(M, x) /\ Ahead(M, x) < o + l /\ Ahead(M, x) \in Nat
        BY <1>13, <1>14, <2>5
    <3>2. seen[x] = 0
        BY <1>12, <2>3, <2>4, <3>1
    <3>3. QED
        BY <2>4, <2>5, <3>1, <3>2
  <2>6. CASE x \notin page
    <3>1. x \in M => Ahead(M, x) \in Nat
        BY <1>13
    <3>2. QED
        BY <1>11, <1>12, <2>3, <2>4, <2>6, <3>1
  <2>7. QED
      BY <2>5, <2>6
<1>23. NextPageInRange'
  <2>1. SUFFICES ASSUME Cardinality(page) = l, NoOverflow(f)
                 PROVE  NoOverflow(meta'.page * meta'.limit)
      BY <1>9, <1>19 DEF NextPageInRange, GoOn
  <2>2. PICK p : p = StorePage(query)
      OBVIOUS
  <2>3. p \in Nat \ {0} /\ (p - 1) * l = f
      BY <1>4, <1>5, <1>11, <2>2 DEF First
  <2>4. p * l = f + l
      BY <1>11, <2>3
  <2>5. f + l <= Cardinality(M)
      BY <1>6, <1>10, <1>11, <1>12, <2>1, FullPage DEF NoOverflow
  <2>6. p * l \in Nat /\ p * l < IntBound
      BY <1>10, <1>11, <2>4, <2>5
  <2>7. QED
      BY <1>19, <2>2, <2>6, WrapFits
<1>24. QED
    BY <1>17, <1>18, <1>20, <1>21, <1>22, <1>23 DEF IInv

\* The next page begins where the last one ended, or its offset is no offset; a
\* walk that ends has been given all that it was to be given.
LEMMA NextPagePreserves ==
    ASSUME IInv, NextPage
    PROVE  IInv'
<1>1. TypeOK /\ Sound(query) /\ AnswerOK /\ MissedOK /\ RepeatedOK
    BY DEF IInv
<1>2. pc = "answered" /\ UNCHANGED <<row, total, items, meta, present, seen, came, went, quiet>>
    BY DEF NextPage, history
<1>3. meta = MetaOf(query, total) /\ (items # {} => Offset(query) >= 0)
    BY <1>1, <1>2 DEF AnswerOK
<1>4. PICK p : p = StorePage(query)
    OBVIOUS
<1>5. PICK l : l = StoreLimit(query)
    OBVIOUS
<1>6. PICK f : f = First(query)
    OBVIOUS
<1>7. p \in Nat \ {0} /\ l \in Nat \ {0} /\ l \in 1..MaximumLimit /\ f \in Nat /\ f = (p - 1) * l
    BY <1>1, <1>4, <1>5, <1>6, SoundQuery DEF First
<1>8. meta.page = p /\ meta.limit = l
    BY <1>3, <1>4, <1>5 DEF MetaOf
<1>9. Reached = f + l
    BY <1>2, <1>5, <1>6 DEF Reached
<1>10. CASE GoOn
  <2>1. query' = [query EXCEPT !.page = p + 1] /\ pc' = "count"
      BY <1>8, <1>10 DEF NextPage
  <2>2. query \in [status : Status, from : Int, to : Int, page : Int, limit : Int]
      BY <1>1 DEF Sound
  <2>3. /\ query' \in [status : Status, from : Int, to : Int, page : Int, limit : Int]
        /\ query'.status = query.status /\ query'.from = query.from /\ query'.to = query.to
        /\ query'.page = p + 1 /\ query'.limit = query.limit
      BY <1>7, <2>1, <2>2
  <2>4. Accepted(query) /\ (query.from = NoDate <=> query.to = NoDate)
      BY <1>1 DEF Sound
  <2>5. Accepted(query')
    <3>1. p + 1 >= 1
        BY <1>7
    <3>2. QED
        BY <2>3, <2>4, <3>1 DEF Accepted
  <2>6. Sound(query')
      BY <2>3, <2>4, <2>5 DEF Sound
  <2>7. TypeOK'
      BY <1>1, <1>2, <2>1, <2>5 DEF TypeOK
  <2>8. AnswerOK' /\ CountOK' /\ IdleOK' /\ PagesAddUp' /\ NextPageInRange'
      BY <2>1 DEF AnswerOK, CountOK, IdleOK, PagesAddUp, NextPageInRange
  <2>9. Matching' = Matching
      BY <1>2, <2>3, SameList
  <2>10. StorePage(query') = p + 1 /\ StoreLimit(query') = l
      BY <1>5, <1>7, <2>3 DEF StorePage, StoreLimit
  <2>11. First(query') = f + l /\ Offset(query') = Wrap(f + l)
    <3>1. (p + 1 - 1) * l = (p - 1) * l + l
        BY <1>7
    <3>2. QED
        BY <1>7, <2>10, <3>1 DEF First, Offset
  <2>12. MissedOK'
    <3>1. Reached' = Reached
        BY <1>9, <2>1, <2>11 DEF Reached
    <3>2. QED
        BY <1>1, <1>2, <2>1, <2>9, <3>1 DEF MissedOK
  <2>13. RepeatedOK'
    <3>1. items # {}
      <4>1. Cardinality(items) = l
          BY <1>8, <1>10 DEF GoOn
      <4>2. QED
          BY <1>7, <4>1, FS_EmptySet
    <3>2. Offset(query) = Wrap(f) /\ Wrap(f) >= 0
        BY <1>3, <1>6, <3>1 DEF Offset, First
    <3>3. Wrap(f + l) = Wrap(f) + l \/ Wrap(f + l) < 0
        BY <1>7, <3>2, WrapNext
    <3>4. Wrap(f + l) \in Int
        BY <1>7, ListConstants DEF Wrap
    <3>5. Wrap(f + l) >= 0 => Offset(query) + l = Wrap(f + l)
        BY <3>2, <3>3, <3>4
    <3>6. SUFFICES ASSUME ~came, NEW x \in Row
                   PROVE  /\ seen[x] <= 1
                          /\ seen[x] > 0 /\ x \in Matching =>
                                (Wrap(f + l) >= 0 => Ahead(Matching, x) < Wrap(f + l))
        BY <1>2, <2>1, <2>9, <2>11 DEF RepeatedOK
    <3>7. /\ seen[x] <= 1
          /\ seen[x] > 0 /\ x \in Matching => Ahead(Matching, x) < Offset(query) + l
        BY <1>1, <1>2, <1>5, <3>1, <3>6 DEF RepeatedOK
    <3>8. QED
        BY <3>5, <3>7
  <2>14. QED
      BY <2>6, <2>7, <2>8, <2>12, <2>13 DEF IInv
<1>11. CASE ~GoOn
  <2>1. query' = query /\ pc' = "ended"
      BY <1>11 DEF NextPage
  <2>2. Matching' = Matching
      BY <1>2, <2>1, SameList
  <2>3. TypeOK' /\ Sound(query)'
      BY <1>1, <1>2, <2>1 DEF TypeOK, Accepted, Sound
  <2>4. AnswerOK' /\ CountOK' /\ IdleOK' /\ PagesAddUp' /\ NextPageInRange'
      BY <2>1 DEF AnswerOK, CountOK, IdleOK, PagesAddUp, NextPageInRange
  <2>5. MissedOK'
      BY <1>1, <1>2, <1>11, <2>1, <2>2 DEF MissedOK
  <2>6. RepeatedOK'
      BY <1>1, <1>2, <2>1, <2>2 DEF RepeatedOK
  <2>7. QED
      BY <2>3, <2>4, <2>5, <2>6 DEF IInv
<1>12. QED
    BY <1>10, <1>11

-----------------------------------------------------------------------------
(* The invariant holds of every reachable state.                           *)

\* Whatever rows there are, nothing was given yet.
LEMMA InitEstablishes ==
    ASSUME Init
    PROVE  IInv
<1> USE DEF Init
<1>1. Sound(query)
    BY DEF Sound, Accepted, Status, NoDate
<1>2. Cardinality(Row) \in Nat
    BY ListConstants, FS_CardinalityType
<1>3. TypeOK
  <2>1. Accepted(query)
      BY <1>1 DEF Sound
  <2>2. total \in 0..Cardinality(Row) /\ seen \in [Row -> Nat]
      BY <1>2
  <2>3. {came, went, quiet} \subseteq BOOLEAN
      OBVIOUS
  <2>4. QED
      BY <2>1, <2>2, <2>3 DEF TypeOK
<1>4. AnswerOK /\ CountOK /\ IdleOK /\ PagesAddUp /\ NextPageInRange
    BY DEF AnswerOK, CountOK, IdleOK, PagesAddUp, NextPageInRange
<1>5. MissedOK /\ RepeatedOK
    BY DEF MissedOK, RepeatedOK
<1>6. QED
    BY <1>1, <1>3, <1>4, <1>5 DEF IInv

\* Stuttering changes nothing.
LEMMA StutterPreserves ==
    ASSUME IInv, UNCHANGED vars
    PROVE  IInv'
<1>1. UNCHANGED <<row, query, pc, total, items, meta, present, seen, came, went, quiet>>
    BY DEF vars, history
<1>2. Matching' = Matching
    BY <1>1, SameList
<1>3. TypeOK' /\ Sound(query)' /\ AnswerOK' /\ IdleOK' /\ PagesAddUp' /\ NextPageInRange'
    BY <1>1 DEF IInv, TypeOK, Accepted, Sound, AnswerOK, IdleOK, PagesAddUp, NextPageInRange, GoOn
<1>4. CountOK'
    BY <1>1, <1>2 DEF IInv, CountOK
<1>5. MissedOK'
    BY <1>1, <1>2 DEF IInv, MissedOK, Reached, GoOn
<1>6. RepeatedOK'
    BY <1>1, <1>2 DEF IInv, RepeatedOK
<1>7. QED
    BY <1>3, <1>4, <1>5, <1>6 DEF IInv

\* The inductive invariant holds however rows come and go during the walk.
THEOREM Invariance == Spec => []IInv
<1>1. Init => IInv
    BY InitEstablishes
<1>2. IInv /\ [Next]_vars => IInv'
  <2>1. SUFFICES ASSUME IInv, [Next]_vars
                 PROVE  IInv'
      OBVIOUS
  <2>2. CASE \E q \in Query : (q.from = NoDate <=> q.to = NoDate) /\ BeginWalk(q)
      BY <2>1, <2>2, BeginPreserves
  <2>3. CASE Count
      BY <2>1, <2>3, CountPreserves
  <2>4. CASE SelectPage
      BY <2>1, <2>4, SelectPreserves
  <2>5. CASE Fail
      BY <2>1, <2>5, FailPreserves
  <2>6. CASE NextPage
      BY <2>1, <2>6, NextPagePreserves
  <2>7. CASE \E r \in Row : Create(r) \/ UpdateStatus(r) \/ SoftDelete(r)
      BY <2>1, <2>7, ChangePreserves DEF Create, UpdateStatus, SoftDelete
  <2>8. CASE UNCHANGED vars
      BY <2>1, <2>8, StutterPreserves
  <2>9. QED
      BY <2>1, <2>2, <2>3, <2>4, <2>5, <2>6, <2>7, <2>8 DEF Next
<1>3. QED
    BY <1>1, <1>2, PTL DEF Spec

\* In an answer during which the list did not change, NewPagination's total_pages
\* and the rows of DisbursementStore.List fit together.
THEOREM AnswersAddUp == Spec => []AnswerInvariant
<1>1. IInv => AnswerInvariant
    BY DEF IInv, AnswerInvariant
<1>2. QED
    BY <1>1, Invariance, PTL

\* A walk with offsets misses no row unless one leaves the list, and repeats none
\* unless one comes into it.
THEOREM WalkIsComplete == Spec => []WalkGivesRowsOnce
<1>1. ASSUME IInv
      PROVE  WalkGivesRowsOnce
  <2>1. NoRowMissed
      BY <1>1 DEF IInv, MissedOK, NoRowMissed
  <2>2. NoRowRepeated
      BY <1>1 DEF IInv, RepeatedOK, NoRowRepeated
  <2>3. QED
      BY <2>1, <2>2 DEF WalkGivesRowsOnce
<1>2. QED
    BY <1>1, Invariance, PTL

\* The rows of an answer are the ones of the page and the limit in its meta,
\* although the store and NewPagination read them from the query separately.
THEOREM PageMatchesMeta == Spec => PageIsWhatMetaSays
<1> DEFINE Rule == pc = "select" /\ pc' = "answered" /\ NoOverflow((meta'.page - 1) * meta'.limit)
                      => items' = {r \in Listed(query) :
                                      Ahead(Listed(query), r) \div meta'.limit = meta'.page - 1}
<1>1. ASSUME IInv, [Next]_vars
      PROVE  Rule
  <2>1. SUFFICES ASSUME pc = "select", pc' = "answered",
                        NoOverflow((meta'.page - 1) * meta'.limit)
                 PROVE  items' = {r \in Listed(query) :
                                    Ahead(Listed(query), r) \div meta'.limit = meta'.page - 1}
      OBVIOUS
  <2>2. SelectPage
      BY <1>1, <2>1 DEF Next, BeginWalk, Count, Fail, NextPage, Create, UpdateStatus, SoftDelete,
                        Change, vars
  <2>3. Sound(query)
      BY <1>1 DEF IInv
  <2>4. PICK M : M = Matching
      OBVIOUS
  <2>5. PICK l : l = StoreLimit(query)
      OBVIOUS
  <2>6. PICK p : p = StorePage(query)
      OBVIOUS
  <2>7. PICK o : o = Offset(query)
      OBVIOUS
  <2>8. Answer(Select(M, o, l)) /\ UNCHANGED <<query, total>>
      BY <2>2, <2>4, <2>5, <2>7 DEF SelectPage
  <2>9. items' = Select(M, o, l) /\ meta' = MetaOf(query, total)
      BY <2>3, <2>8, AnswerIsGiven
  <2>10. meta'.page = p /\ meta'.limit = l
      BY <2>5, <2>6, <2>9 DEF MetaOf
  <2>11. p \in Nat \ {0} /\ l \in Nat \ {0}
      BY <2>3, <2>5, <2>6, SoundQuery
  <2>12. o = (p - 1) * l
      BY <2>1, <2>5, <2>6, <2>7, <2>10 DEF NoOverflow, Offset
  <2>13. ASSUME NEW r \in M
         PROVE  Ahead(M, r) \div l = p - 1 <=> o <= Ahead(M, r) /\ Ahead(M, r) < o + l
    <3>1. Ahead(M, r) \in Int
        BY <2>4, MatchingFinite, AheadBound
    <3>2. p - 1 \in Int
        BY <2>11
    <3>3. QED
        BY <2>11, <2>12, <3>1, <3>2, DivIs
  <2>14. Listed(query) = M
      BY <2>3, <2>4, ListedIsMatching
  <2>15. Select(M, o, l) = {r \in M : Ahead(M, r) \div l = p - 1}
      BY <2>13 DEF Select
  <2>16. QED
      BY <2>9, <2>10, <2>14, <2>15
<1>2. PageIsWhatMetaSays <=> [][Rule]_vars
    BY DEF PageIsWhatMetaSays
<1>3. QED
    BY <1>1, <1>2, Invariance, PTL DEF Spec

=============================================================================
