--------------------------- MODULE JobQueriesProofs ---------------------------
(***************************************************************************)
(* Readers of the jobs table get what they should, for any postings,       *)
(* queries and tables of any length, whatever is stored while they page.   *)
(***************************************************************************)
EXTENDS JobQueries, FiniteSetTheorems, SequenceTheorems, TLAPS
-----------------------------------------------------------------------------
(* Sorting and cutting                                                     *)

StrictOrder(S, R) ==
    /\ \A i \in S : <<i, i>> \notin R
    /\ \A i, j \in S : i # j => <<i, j>> \in R \/ <<j, i>> \in R
    /\ \A i, j, k \in S : <<i, j>> \in R /\ <<j, k>> \in R => <<i, k>> \in R

Below(S, R, i) == {j \in S : <<j, i>> \in R}

(* The rank of an element is below the number of elements.                 *)
LEMMA RankBound ==
    ASSUME NEW S, IsFiniteSet(S), NEW R, StrictOrder(S, R), NEW i \in S
    PROVE  /\ IsFiniteSet(Below(S, R, i))
           /\ Cardinality(Below(S, R, i)) \in 0 .. Cardinality(S) - 1
<1>1. Below(S, R, i) \subseteq S \ {i}
  BY DEF Below, StrictOrder
<1>2. IsFiniteSet(S \ {i}) /\ Cardinality(S \ {i}) = Cardinality(S) - 1
  BY FS_RemoveElement
<1>3. IsFiniteSet(Below(S, R, i)) /\ Cardinality(Below(S, R, i)) <= Cardinality(S \ {i})
  BY <1>1, <1>2, FS_Subset
<1>4. Cardinality(Below(S, R, i)) \in Nat /\ Cardinality(S) \in Nat
  BY <1>3, FS_CardinalityType
<1>. QED
  BY <1>2, <1>3, <1>4

LEMMA RankGrows ==
    ASSUME NEW S, IsFiniteSet(S), NEW R, StrictOrder(S, R), NEW i \in S, NEW j \in S,
           <<i, j>> \in R
    PROVE  Cardinality(Below(S, R, i)) < Cardinality(Below(S, R, j))
<1>1. i \notin Below(S, R, i) /\ i \in Below(S, R, j)
      /\ Below(S, R, i) \subseteq Below(S, R, j) \ {i}
  BY DEF Below, StrictOrder
<1>2. IsFiniteSet(Below(S, R, i)) /\ IsFiniteSet(Below(S, R, j))
  BY RankBound
<1>3. IsFiniteSet(Below(S, R, j) \ {i})
      /\ Cardinality(Below(S, R, j) \ {i}) = Cardinality(Below(S, R, j)) - 1
  BY <1>1, <1>2, FS_RemoveElement
<1>4. Cardinality(Below(S, R, i)) <= Cardinality(Below(S, R, j) \ {i})
  BY <1>1, <1>3, FS_Subset
<1>5. Cardinality(Below(S, R, i)) \in Nat /\ Cardinality(Below(S, R, j)) \in Nat
  BY <1>2, FS_CardinalityType
<1>. QED
  BY <1>3, <1>4, <1>5

(* Every number below the cardinality is the rank of an element.           *)
LEMMA RankExists ==
    ASSUME NEW S, IsFiniteSet(S), NEW R, StrictOrder(S, R),
           NEW k \in 0 .. Cardinality(S) - 1
    PROVE  \E i \in S : Cardinality(Below(S, R, i)) = k
<1>. DEFINE n == Cardinality(S)
            rank == [i \in S |-> Cardinality(Below(S, R, i))]
            T == (0 .. n - 1) \ {k}
<1>1. n \in Nat
  BY FS_CardinalityType
<1>2. IsFiniteSet(0 .. n - 1) /\ Cardinality(0 .. n - 1) = n
  <2>. HIDE DEF n
  <2> QED
    BY <1>1, FS_Interval
<1>3. IsFiniteSet(T) /\ Cardinality(T) = n - 1
  BY <1>2, FS_RemoveElement
<1>. SUFFICES ASSUME \A i \in S : rank[i] # k PROVE FALSE
  OBVIOUS
<1>4. rank \in [S -> T]
  BY RankBound
<1>5. PICK i, j \in S : i # j /\ rank[i] = rank[j]
  <2>. HIDE DEF rank
  <2> QED
    BY <1>1, <1>3, <1>4, FS_PigeonHole
<1>6. rank[i] < rank[j] \/ rank[j] < rank[i]
  BY <1>5, RankGrows DEF StrictOrder
<1>7. rank[i] \in Nat /\ rank[j] \in Nat
  BY <1>1, <1>4
<1>. QED
  BY <1>5, <1>6, <1>7

(* Sorting: each member once, in order, the one of rank k - 1 at k.        *)
LEMMA SortedOrder ==
    ASSUME NEW S, IsFiniteSet(S), NEW R, StrictOrder(S, R)
    PROVE  LET sorted == Sorted(S, R) IN
           /\ sorted \in [1 .. Cardinality(S) -> S]
           /\ sorted \in Seq(S)
           /\ Len(sorted) = Cardinality(S)
           /\ \A k \in 1 .. Cardinality(S) : Cardinality(Below(S, R, sorted[k])) = k - 1
           /\ \A k, l \in 1 .. Cardinality(S) : k < l => <<sorted[k], sorted[l]>> \in R
           /\ \A i \in S : /\ Cardinality(Below(S, R, i)) + 1 \in 1 .. Cardinality(S)
                           /\ sorted[Cardinality(Below(S, R, i)) + 1] = i
<1>. DEFINE n == Cardinality(S)
            sorted == Sorted(S, R)
            rank(i) == Cardinality(Below(S, R, i))
<1>1. n \in Nat
  BY FS_CardinalityType
<1>2. sorted = [k \in 1 .. n |-> CHOOSE i \in S : rank(i) = k - 1]
  BY DEF Sorted, Below
<1>3. \A k \in 1 .. n : sorted[k] \in S /\ rank(sorted[k]) = k - 1
  <2>. TAKE k \in 1 .. n
  <2>1. k - 1 \in 0 .. Cardinality(S) - 1
    BY <1>1
  <2>2. \E i \in S : rank(i) = k - 1
    BY <2>1, RankExists
  <2>. HIDE DEF rank, sorted
  <2> QED
    BY <1>2, <2>2
<1>4. sorted \in [1 .. n -> S]
  BY <1>2, <1>3
<1>5. sorted \in Seq(S) /\ Len(sorted) = n
  <2>. HIDE DEF sorted, n
  <2> QED
    BY <1>1, <1>4
<1>6. \A i, j \in S : i # j => rank(i) < rank(j) \/ rank(j) < rank(i)
  BY RankGrows DEF StrictOrder
<1>7. \A i \in S : rank(i) \in 0 .. n - 1
  BY RankBound
<1>8. \A k, l \in 1 .. n : k < l => <<sorted[k], sorted[l]>> \in R
  <2>. SUFFICES ASSUME NEW k \in 1 .. n, NEW l \in 1 .. n, k < l
                PROVE  <<sorted[k], sorted[l]>> \in R
    OBVIOUS
  <2>1. sorted[k] \in S /\ sorted[l] \in S
        /\ rank(sorted[k]) = k - 1 /\ rank(sorted[l]) = l - 1
    BY <1>3
  <2>2. sorted[k] # sorted[l] /\ ~(rank(sorted[l]) < rank(sorted[k]))
    BY <1>1, <2>1
  <2>3. <<sorted[l], sorted[k]>> \notin R
    BY <2>1, <2>2, RankGrows
  <2> QED
    BY <2>1, <2>2, <2>3 DEF StrictOrder
<1>9. \A i \in S : rank(i) + 1 \in 1 .. n /\ sorted[rank(i) + 1] = i
  <2>. TAKE i \in S
  <2>1. rank(i) \in 0 .. n - 1
    BY <1>7
  <2>2. rank(i) + 1 \in 1 .. n /\ (rank(i) + 1) - 1 = rank(i)
    <3>. HIDE DEF rank, n
    <3> QED
      BY <1>1, <2>1
  <2>3. sorted[rank(i) + 1] \in S /\ rank(sorted[rank(i) + 1]) = rank(i)
    BY <1>3, <2>2
  <2>4. ~(rank(i) < rank(i))
    <3>. HIDE DEF rank, n
    <3> QED
      BY <1>1, <2>1
  <2> QED
    BY <1>6, <2>2, <2>3, <2>4
<1>. QED
  BY <1>3, <1>4, <1>5, <1>8, <1>9

(* How many elements OFFSET and LIMIT leave of a number of them            *)
Taken(length, offset, limit) ==
    IF length <= offset THEN 0
    ELSE IF length - offset < limit THEN length - offset ELSE limit

LEMMA CutTakes ==
    ASSUME NEW rows, Len(rows) \in Nat, NEW offset \in Nat, NEW limit \in Nat
    PROVE  /\ Taken(Len(rows), offset, limit) \in Nat
           /\ Cut(rows, offset, limit) =
                 [k \in 1 .. Taken(Len(rows), offset, limit) |-> rows[offset + k]]
           /\ DOMAIN Cut(rows, offset, limit) = 1 .. Taken(Len(rows), offset, limit)
           /\ \A k \in 1 .. Taken(Len(rows), offset, limit) :
                 /\ offset + k \in 1 .. Len(rows)
                 /\ Cut(rows, offset, limit)[k] = rows[offset + k]
<1>. DEFINE taken == Taken(Len(rows), offset, limit)
<1>1. taken \in Nat
  BY DEF Taken
<1>2. {n \in 1 .. limit : offset + n <= Len(rows)} = 1 .. taken
  BY DEF Taken
<1>3. Cardinality(1 .. taken) = taken
  <2>. HIDE DEF taken
  <2> QED
    BY <1>1, FS_Interval
<1>4. \A k \in 1 .. taken : offset + k \in 1 .. Len(rows)
  BY DEF Taken
<1>. QED
  BY <1>1, <1>2, <1>3, <1>4 DEF Cut

(* A page of ids                                                           *)
LEMMA CutOfIds ==
    ASSUME NEW rows \in Seq(Nat), NEW offset \in Nat, NEW limit \in Nat
    PROVE  LET cut == Cut(rows, offset, limit) IN
           /\ cut \in Seq(Nat)
           /\ Len(cut) = Taken(Len(rows), offset, limit)
           /\ \A k \in 1 .. Len(cut) : offset + k \in 1 .. Len(rows) /\ cut[k] = rows[offset + k]
<1>. DEFINE cut == Cut(rows, offset, limit)
            taken == Taken(Len(rows), offset, limit)
<1>1. Len(rows) \in Nat
  OBVIOUS
<1>2. /\ taken \in Nat
      /\ cut = [k \in 1 .. taken |-> rows[offset + k]]
      /\ \A k \in 1 .. taken : offset + k \in 1 .. Len(rows)
  BY <1>1, CutTakes
<1>. HIDE DEF cut, taken
<1>3. cut \in [1 .. taken -> Nat]
  BY <1>2
<1>4. cut \in Seq(Nat) /\ Len(cut) = taken
  BY <1>2, <1>3
<1>. QED
  BY <1>2, <1>4 DEF cut, taken
-----------------------------------------------------------------------------
(* The orders                                                              *)

LEMMA LexThree ==
    ASSUME NEW a \in Nat, NEW b \in Nat, NEW c \in Nat,
           NEW d \in Nat, NEW e \in Nat, NEW f \in Nat
    PROVE  Lexicographic(<<a, b, c>>, <<d, e, f>>)
             <=> a < d \/ (a = d /\ (b < e \/ (b = e /\ c < f)))
<1>. DEFINE x == <<a, b, c>>
            y == <<d, e, f>>
            Least(k) == x[k] < y[k] /\ \A l \in 1 .. k - 1 : x[l] = y[l]
<1>1. DOMAIN x = {1, 2, 3}
  OBVIOUS
<1>2. 1 .. 1 - 1 = {} /\ 1 .. 2 - 1 = {1} /\ 1 .. 3 - 1 = {1, 2}
  OBVIOUS
<1>3. Least(1) <=> a < d
  BY <1>2
<1>4. Least(2) <=> b < e /\ a = d
  BY <1>2
<1>5. Least(3) <=> c < f /\ a = d /\ b = e
  BY <1>2
<1>6. Lexicographic(x, y) <=> Least(1) \/ Least(2) \/ Least(3)
  <2>1. Lexicographic(x, y) <=> \E k \in {1, 2, 3} : Least(k)
    BY <1>1 DEF Lexicographic
  <2>. HIDE DEF Least
  <2> QED
    BY <2>1
<1>. QED
  BY <1>3, <1>4, <1>5, <1>6

LEMMA LexFour ==
    ASSUME NEW x, NEW y, DOMAIN x = 1 .. 4
    PROVE  Lexicographic(x, y)
             <=> \/ x[1] < y[1]
                 \/ /\ x[1] = y[1]
                    /\ \/ x[2] < y[2]
                       \/ /\ x[2] = y[2]
                          /\ x[3] < y[3] \/ (x[3] = y[3] /\ x[4] < y[4])
<1>. DEFINE Least(k) == x[k] < y[k] /\ \A l \in 1 .. k - 1 : x[l] = y[l]
<1>1. 1 .. 4 = {1, 2, 3, 4}
  OBVIOUS
<1>2. 1 .. 1 - 1 = {} /\ 1 .. 2 - 1 = {1} /\ 1 .. 3 - 1 = {1, 2}
      /\ 1 .. 4 - 1 = {1, 2, 3}
  OBVIOUS
<1>3. Least(1) <=> x[1] < y[1]
  BY <1>2
<1>4. Least(2) <=> x[2] < y[2] /\ x[1] = y[1]
  BY <1>2
<1>5. Least(3) <=> x[3] < y[3] /\ x[1] = y[1] /\ x[2] = y[2]
  BY <1>2
<1>6. Least(4) <=> x[4] < y[4] /\ x[1] = y[1] /\ x[2] = y[2] /\ x[3] = y[3]
  BY <1>2
<1>7. Lexicographic(x, y) <=> Least(1) \/ Least(2) \/ Least(3) \/ Least(4)
  <2>1. Lexicographic(x, y) <=> \E k \in {1, 2, 3, 4} : Least(k)
    BY <1>1 DEF Lexicographic
  <2>. HIDE DEF Least
  <2> QED
    BY <2>1
<1>. QED
  BY <1>3, <1>4, <1>5, <1>6, <1>7

Rows == [posting : Postings, active : BOOLEAN]

(* The fields of a row are numbers or, some of them, NULL.                 *)
LEMMA RowFields ==
    ASSUME NEW t \in Seq(Rows), NEW i \in DOMAIN t
    PROVE  /\ i \in Nat
           /\ t[i] \in Rows
           /\ t[i].posting.source \in Nat /\ t[i].posting.job \in Nat
           /\ t[i].posting.company \in Nat /\ t[i].posting.title \in Nat
           /\ Known(t[i].posting.posted) \in Nat /\ Instant(t[i].posting.posted) \in Nat
<1>1. t[i] \in Rows /\ i \in Nat
  OBVIOUS
<1>2. t[i].posting \in Postings
  BY <1>1 DEF Rows
<1>3. {t[i].posting.source, t[i].posting.job, t[i].posting.company, t[i].posting.title} \subseteq Nat
      /\ {t[i].posting.location, t[i].posting.posted} \subseteq Nat \cup {None}
  BY <1>2, JobQueriesAssumption
<1>. QED
  BY <1>1, <1>3 DEF Known, Instant

LEMMA ByCompanyIs ==
    ASSUME NEW t \in Seq(Rows), NEW i \in DOMAIN t, NEW j \in DOMAIN t
    PROVE  LET r == t[i].posting
               s == t[j].posting
           IN  ByCompany(t, i, j)
                 <=> \/ r.company < s.company
                     \/ r.company = s.company /\ (r.title < s.title \/ (r.title = s.title /\ i < j))
<1>. DEFINE a == t[i].posting.company
            b == t[i].posting.title
            d == t[j].posting.company
            e == t[j].posting.title
<1>1. a \in Nat /\ b \in Nat /\ i \in Nat /\ d \in Nat /\ e \in Nat /\ j \in Nat
  BY RowFields
<1>2. ByCompany(t, i, j) = Lexicographic(<<a, b, i>>, <<d, e, j>>)
  BY DEF ByCompany
<1>3. Lexicographic(<<a, b, i>>, <<d, e, j>>)
        <=> a < d \/ (a = d /\ (b < e \/ (b = e /\ i < j)))
  <2>. HIDE DEF a, b, d, e
  <2> QED
    BY <1>1, LexThree
<1>. QED
  BY <1>2, <1>3

LEMMA ByCompanyOrder ==
    ASSUME NEW t \in Seq(Rows), NEW S \in SUBSET DOMAIN t
    PROVE  StrictOrder(S, {p \in S \X S : ByCompany(t, p[1], p[2])})
<1>1. \A i, j \in S : <<i, j>> \in {p \in S \X S : ByCompany(t, p[1], p[2])} <=> ByCompany(t, i, j)
  OBVIOUS
<1>. DEFINE c == [i \in S |-> t[i].posting.company]
            n == [i \in S |-> t[i].posting.title]
<1>2. \A i \in S : i \in Nat /\ c[i] \in Nat /\ n[i] \in Nat
  BY RowFields
<1>3. \A i, j \in S : ByCompany(t, i, j)
                       <=> c[i] < c[j] \/ (c[i] = c[j] /\ (n[i] < n[j] \/ (n[i] = n[j] /\ i < j)))
  BY ByCompanyIs
<1>. HIDE DEF c, n
<1>4. \A i \in S : ~ByCompany(t, i, i)
  BY <1>2, <1>3
<1>5. \A i, j \in S : i # j => ByCompany(t, i, j) \/ ByCompany(t, j, i)
  BY <1>2, <1>3
<1>6. \A i, j, k \in S : ByCompany(t, i, j) /\ ByCompany(t, j, k) => ByCompany(t, i, k)
  BY <1>2, <1>3
<1>. QED
  BY <1>1, <1>4, <1>5, <1>6 DEF StrictOrder

(* Every order of GET /jobs ends in the id: it is total.                   *)
LEMMA BeforeOrder ==
    ASSUME NEW t \in Seq(Rows), NEW q \in Queries, NEW S \in SUBSET DOMAIN t
    PROVE  StrictOrder(S, {p \in S \X S : Before(t, q.sort, p[1], p[2])})
<1>1. \A i, j \in S :
         <<i, j>> \in {p \in S \X S : Before(t, q.sort, p[1], p[2])} <=> Before(t, q.sort, i, j)
  OBVIOUS
<1>. DEFINE v == [i \in S |-> Known(t[i].posting.posted)]
            w == [i \in S |-> Instant(t[i].posting.posted)]
<1>2. \A i \in S : i \in Nat /\ v[i] \in Nat /\ w[i] \in Nat
  BY RowFields
<1>3. CASE q.sort = "company"
  <2>1. \A i, j : Before(t, q.sort, i, j) = ByCompany(t, i, j)
    BY <1>3 DEF Before
  <2>2. StrictOrder(S, {p \in S \X S : ByCompany(t, p[1], p[2])})
    BY ByCompanyOrder
  <2> QED
    BY <2>1, <2>2
<1>4. CASE q.sort = "oldest"
  <2>1. \A i, j \in S : Before(t, q.sort, i, j)
                         <=> v[i] < v[j] \/ (v[i] = v[j] /\ (w[i] < w[j] \/ (w[i] = w[j] /\ i < j)))
    BY <1>2, <1>4, LexThree DEF Before
  <2>. HIDE DEF v, w
  <2>2. \A i \in S : ~Before(t, q.sort, i, i)
    BY <1>2, <2>1
  <2>3. \A i, j \in S : i # j => Before(t, q.sort, i, j) \/ Before(t, q.sort, j, i)
    BY <1>2, <2>1
  <2>4. \A i, j, k \in S :
           Before(t, q.sort, i, j) /\ Before(t, q.sort, j, k) => Before(t, q.sort, i, k)
    BY <1>2, <2>1
  <2> QED
    BY <1>1, <2>2, <2>3, <2>4 DEF StrictOrder
<1>5. CASE q.sort = "newest"
  <2>1. \A i, j \in S : Before(t, q.sort, i, j)
                         <=> v[i] < v[j] \/ (v[i] = v[j] /\ (w[j] < w[i] \/ (w[i] = w[j] /\ j < i)))
    BY <1>2, <1>5, LexThree DEF Before
  <2>. HIDE DEF v, w
  <2>2. \A i \in S : ~Before(t, q.sort, i, i)
    BY <1>2, <2>1
  <2>3. \A i, j \in S : i # j => Before(t, q.sort, i, j) \/ Before(t, q.sort, j, i)
    BY <1>2, <2>1
  <2>4. \A i, j, k \in S :
           Before(t, q.sort, i, j) /\ Before(t, q.sort, j, k) => Before(t, q.sort, i, k)
    BY <1>2, <2>1
  <2> QED
    BY <1>1, <2>2, <2>3, <2>4 DEF StrictOrder
<1>. QED
  BY <1>3, <1>4, <1>5, JobQueriesAssumption
-----------------------------------------------------------------------------
(* The rows of a query in order                                            *)

MatchRank(t, q, i) == Cardinality({j \in Matching(t, q) : Before(t, q.sort, j, i)})

LEMMA BeforeTotal ==
    ASSUME NEW t \in Seq(Rows), NEW q \in Queries,
           NEW i \in DOMAIN t, NEW j \in DOMAIN t
    PROVE  /\ Before(t, q.sort, i, j) => ~Before(t, q.sort, j, i)
           /\ i # j => Before(t, q.sort, i, j) \/ Before(t, q.sort, j, i)
<1>. DEFINE S == DOMAIN t
            R == {p \in S \X S : Before(t, q.sort, p[1], p[2])}
<1>1. StrictOrder(S, R)
  BY BeforeOrder
<1>2. /\ <<i, j>> \in R <=> Before(t, q.sort, i, j)
      /\ <<j, i>> \in R <=> Before(t, q.sort, j, i)
  OBVIOUS
<1>3. /\ <<i, i>> \notin R
      /\ i # j => <<i, j>> \in R \/ <<j, i>> \in R
      /\ <<i, j>> \in R /\ <<j, i>> \in R => <<i, i>> \in R
  <2>. HIDE DEF R
  <2> QED
    BY <1>1 DEF StrictOrder
<1>. HIDE DEF R
<1>. QED
  BY <1>2, <1>3

LEMMA ListedIs ==
    ASSUME NEW t \in Seq(Rows), NEW q \in Queries
    PROVE  LET matching == Matching(t, q)
               listed == Listed(t, q)
           IN  /\ matching \subseteq DOMAIN t
               /\ IsFiniteSet(matching) /\ Cardinality(matching) \in Nat
               /\ listed \in Seq(matching)
               /\ Len(listed) = Cardinality(matching)
               /\ \A k, n \in 1 .. Len(listed) :
                     k < n => Before(t, q.sort, listed[k], listed[n])
               /\ \A i \in matching :
                     /\ MatchRank(t, q, i) \in Nat
                     /\ MatchRank(t, q, i) + 1 \in 1 .. Len(listed)
                     /\ listed[MatchRank(t, q, i) + 1] = i
<1>. DEFINE matching == Matching(t, q)
            R == {p \in matching \X matching : Before(t, q.sort, p[1], p[2])}
            listed == Sorted(matching, R)
<1>1. matching \subseteq DOMAIN t /\ Listed(t, q) = listed
  BY DEF Matching, Listed
<1>2. IsFiniteSet(matching) /\ Cardinality(matching) \in Nat
  <2>1. DOMAIN t = 1 .. Len(t) /\ Len(t) \in Nat
    OBVIOUS
  <2>2. IsFiniteSet(1 .. Len(t))
    BY <2>1, FS_Interval
  <2>. HIDE DEF matching
  <2> QED
    BY <1>1, <2>1, <2>2, FS_Subset, FS_CardinalityType
<1>3. StrictOrder(matching, R)
  BY <1>1, BeforeOrder
<1>4. \A i, j : <<j, i>> \in R <=> j \in matching /\ i \in matching /\ Before(t, q.sort, j, i)
  OBVIOUS
<1>5. \A i \in matching : Cardinality(Below(matching, R, i)) = MatchRank(t, q, i)
  <2>. TAKE i \in matching
  <2>1. Below(matching, R, i) = {j \in matching : Before(t, q.sort, j, i)}
    BY <1>4 DEF Below
  <2> QED
    BY <2>1 DEF MatchRank
<1>. HIDE DEF matching, R
<1>6. /\ listed \in Seq(matching)
      /\ Len(listed) = Cardinality(matching)
      /\ \A k, l \in 1 .. Cardinality(matching) : k < l => <<listed[k], listed[l]>> \in R
      /\ \A i \in matching :
            /\ Cardinality(Below(matching, R, i)) + 1 \in 1 .. Cardinality(matching)
            /\ listed[Cardinality(Below(matching, R, i)) + 1] = i
  BY <1>2, <1>3, SortedOrder
<1>7. \A i \in matching : Cardinality(Below(matching, R, i)) \in Nat
  BY <1>2, <1>3, RankBound
<1>. HIDE DEF listed
<1>. QED
  BY <1>1, <1>2, <1>4, <1>5, <1>6, <1>7 DEF matching

LEMMA TakenJoins ==
    ASSUME NEW length \in Nat, NEW m \in Nat, NEW n \in Nat
    PROVE  LET x == Taken(length, 0, m)
               y == Taken(length, m, n)
           IN  /\ x \in Nat /\ y \in Nat
               /\ x + y = Taken(length, 0, m + n)
               /\ y # 0 => x = m
<1>1. CASE length <= m
  BY <1>1 DEF Taken
<1>2. CASE length > m
  <2>1. Taken(length, 0, m) = m
    BY <1>2 DEF Taken
  <2>2. Taken(length, m, n) = (IF length - m < n THEN length - m ELSE n)
    BY <1>2 DEF Taken
  <2>3. Taken(length, 0, m + n) = (IF length < m + n THEN length ELSE m + n)
    BY <1>2 DEF Taken
  <2> QED
    BY <1>2, <2>1, <2>2, <2>3
<1>. QED
  BY <1>1, <1>2

(* A page goes on where the pages before it ended.                         *)
LEMMA CutsJoin ==
    ASSUME NEW s \in Seq(Nat), NEW m \in Nat, NEW n \in Nat
    PROVE  Cut(s, 0, m) \o Cut(s, m, n) = Cut(s, 0, m + n)
<1>1. Len(s) \in Nat /\ 0 \in Nat /\ m + n \in Nat
  OBVIOUS
<1>. DEFINE a == Cut(s, 0, m)
            b == Cut(s, m, n)
            c == Cut(s, 0, m + n)
<1>2. /\ a \in Seq(Nat)
      /\ Len(a) = Taken(Len(s), 0, m)
      /\ \A k \in 1 .. Len(a) : a[k] = s[0 + k]
  BY <1>1, CutOfIds
<1>3. /\ b \in Seq(Nat)
      /\ Len(b) = Taken(Len(s), m, n)
      /\ \A k \in 1 .. Len(b) : b[k] = s[m + k]
  BY <1>1, CutOfIds
<1>4. /\ c \in Seq(Nat)
      /\ Len(c) = Taken(Len(s), 0, m + n)
      /\ \A k \in 1 .. Len(c) : c[k] = s[0 + k]
  BY <1>1, CutOfIds
<1>5. Len(a) + Len(b) = Len(c) /\ (Len(b) # 0 => Len(a) = m)
  BY <1>1, <1>2, <1>3, <1>4, TakenJoins
<1>. HIDE DEF a, b, c
<1>6. Len(a) \in Nat /\ Len(b) \in Nat /\ Len(c) \in Nat
  BY <1>2, <1>3, <1>4
<1>7. a \o b \in Seq(Nat) /\ Len(a \o b) = Len(c)
  BY <1>2, <1>3, <1>5
<1>8. \A k \in 1 .. Len(a) + Len(b) :
         (a \o b)[k] = IF k <= Len(a) THEN a[k] ELSE b[k - Len(a)]
  BY <1>2, <1>3, ConcatProperties
<1>9. ASSUME NEW k \in 1 .. Len(c)
      PROVE  (a \o b)[k] = c[k]
  <2>0. k \in Nat /\ 1 <= k /\ k <= Len(a) + Len(b)
    BY <1>5, <1>6
  <2>1. c[k] = s[0 + k]
    BY <1>4
  <2>2. CASE k <= Len(a)
    <3>1. k \in 1 .. Len(a) /\ (a \o b)[k] = a[k]
      BY <1>6, <1>8, <2>0, <2>2
    <3> QED
      BY <1>2, <2>1, <3>1
  <2>3. CASE k > Len(a)
    <3>1. k - Len(a) \in 1 .. Len(b) /\ (a \o b)[k] = b[k - Len(a)]
      BY <1>6, <1>8, <2>0, <2>3
    <3>2. m + (k - Len(a)) = 0 + k
      <4>1. Len(b) # 0
        BY <1>6, <3>1
      <4>2. m = Len(a)
        BY <1>5, <4>1
      <4> QED
        BY <1>6, <2>0, <4>2
    <3>3. b[k - Len(a)] = s[m + (k - Len(a))]
      BY <1>3, <3>1
    <3> QED
      BY <2>1, <3>1, <3>2, <3>3
  <2> QED
    BY <1>6, <2>0, <2>2, <2>3
<1>10. a \o b = c
  BY <1>4, <1>7, <1>9, SeqEqual
<1>. QED
  BY <1>10 DEF a, b, c
-----------------------------------------------------------------------------
(* Pages                                                                   *)

Readers ==
    [step : {"idle", "list", "count", "answered"}, query : Queries \cup {None},
     page : Nat \ {0}, got : Seq(Nat), total : Nat, start : SUBSET Nat,
     course : {"quiet", "grown", "disturbed"}]

Typed ==
    /\ jobs \in Seq(Rows)
    /\ reader \in Readers
    /\ reader.step # "idle" => reader.query \in Queries
    /\ ~Begun => reader.got = <<>> /\ reader.course = "quiet"
    /\ reader.step = "idle" => reader.page = 1

(* The rows that the pages up to now have room for                         *)
Reach ==
    IF reader.step = "list" THEN (reader.page - 1) * reader.query.size
    ELSE reader.page * reader.query.size

(* While nothing changes, what the client has is the list from its start.  *)
QuietOK ==
    reader.step # "idle" /\ reader.course = "quiet" =>
        /\ reader.got = Cut(Listed(jobs, reader.query), 0, Reach)
        /\ Begun /\ reader.step # "count" => reader.total = Count(jobs, reader.query)

(* While none of the rows that matched at the start leaves or changes      *)
(* places, one that the client does not have has as many before it as      *)
(* there was room for: it is still to come, unless the total said stop.    *)
StartOK ==
    Begun /\ reader.course # "disturbed" =>
        /\ reader.start \subseteq Matching(jobs, reader.query)
        /\ \A i \in reader.start \ Got : MatchRank(jobs, reader.query, i) >= Reach
        /\ reader.step = "answered" /\ ~More => reader.start \subseteq Got

(* The inductive invariant                                                 *)
Inv == Typed /\ QuietOK /\ StartOK

LEMMA EmptyCut ==
    ASSUME NEW t \in Seq(Rows), NEW q \in Queries
    PROVE  Cut(Listed(t, q), 0, 0) = <<>>
<1>1. Len(Listed(t, q)) \in Nat
  BY ListedIs
<1>2. Taken(Len(Listed(t, q)), 0, 0) = 0
  BY <1>1 DEF Taken
<1>3. Cut(Listed(t, q), 0, 0) = [k \in 1 .. 0 |-> Listed(t, q)[0 + k]]
  BY <1>1, <1>2, CutTakes
<1>. QED
  BY <1>3

LEMMA ReachType ==
    ASSUME Typed, reader.query \in Queries
    PROVE  /\ Reach \in Nat
           /\ reader.query.size \in Nat \ {0}
           /\ reader.page \in Nat \ {0}
<1>1. reader.query.size \in Nat \ {0} /\ reader.page \in Nat \ {0}
  BY JobQueriesAssumption DEF Typed, Readers
<1>. QED
  BY <1>1 DEF Reach

LEMMA CourseIs ==
    ASSUME Typed, NEW new
    PROVE  LET q == reader.query
               old == Matching(jobs, q)
           IN  /\ Course(new) \in {"quiet", "grown", "disturbed"}
               /\ ~Begun => Course(new) = "quiet"
               /\ Begun /\ Course(new) # "disturbed" =>
                     /\ reader.course # "disturbed"
                     /\ old \subseteq Matching(new, q)
                     /\ \A i, j \in old :
                           Before(jobs, q.sort, i, j) => Before(new, q.sort, i, j)
               /\ Begun /\ Course(new) = "quiet" =>
                     reader.course = "quiet" /\ old = Matching(new, q)
<1>1. reader.course \in {"quiet", "grown", "disturbed"}
  BY DEF Typed, Readers
<1>. QED
  BY <1>1 DEF Course

(* Rows that keep their order are listed in the same way.                  *)
LEMMA SameListed ==
    ASSUME NEW t \in Seq(Rows), NEW new \in Seq(Rows), NEW q \in Queries,
           Matching(t, q) = Matching(new, q),
           \A i, j \in Matching(t, q) : Before(t, q.sort, i, j) => Before(new, q.sort, i, j)
    PROVE  Listed(new, q) = Listed(t, q) /\ Count(new, q) = Count(t, q)
<1>. DEFINE S == Matching(t, q)
<1>1. S \subseteq DOMAIN t /\ S \subseteq DOMAIN new
  BY DEF Matching
<1>2. ASSUME NEW i \in S, NEW j \in S
      PROVE  Before(new, q.sort, i, j) <=> Before(t, q.sort, i, j)
  <2>1. i \in DOMAIN t /\ j \in DOMAIN t /\ i \in DOMAIN new /\ j \in DOMAIN new
    BY <1>1
  <2>2. /\ Before(new, q.sort, i, j) => ~Before(new, q.sort, j, i)
        /\ i # j => Before(t, q.sort, i, j) \/ Before(t, q.sort, j, i)
    BY <2>1, BeforeTotal
  <2> QED
    BY <2>2
<1>3. {p \in S \X S : Before(new, q.sort, p[1], p[2])}
        = {p \in S \X S : Before(t, q.sort, p[1], p[2])}
  BY <1>2
<1>. QED
  BY <1>3 DEF Listed, Count

LEMMA RanksGrow ==
    ASSUME NEW t \in Seq(Rows), NEW new \in Seq(Rows), NEW q \in Queries,
           Matching(t, q) \subseteq Matching(new, q),
           \A i, j \in Matching(t, q) : Before(t, q.sort, i, j) => Before(new, q.sort, i, j),
           NEW i \in Matching(t, q)
    PROVE  /\ MatchRank(t, q, i) \in Nat /\ MatchRank(new, q, i) \in Nat
           /\ MatchRank(t, q, i) <= MatchRank(new, q, i)
<1>. DEFINE a == {j \in Matching(t, q) : Before(t, q.sort, j, i)}
            b == {j \in Matching(new, q) : Before(new, q.sort, j, i)}
<1>1. a \subseteq b /\ b \subseteq Matching(new, q)
  OBVIOUS
<1>2. IsFiniteSet(Matching(new, q))
  BY ListedIs
<1>. HIDE DEF a, b
<1>3. IsFiniteSet(b)
  BY <1>1, <1>2, FS_Subset
<1>4. IsFiniteSet(a) /\ Cardinality(a) <= Cardinality(b)
  BY <1>1, <1>3, FS_Subset
<1>5. Cardinality(a) \in Nat /\ Cardinality(b) \in Nat
  BY <1>3, <1>4, FS_CardinalityType
<1>. QED
  BY <1>4, <1>5 DEF a, b, MatchRank

(* Crawls and sweeps keep the invariant, whatever they store.              *)
LEMMA StoreInv ==
    ASSUME Inv, NEW new \in Seq(Rows), Store(new)
    PROVE  Inv'
<1>. DEFINE q == reader.query
<1>1. jobs' = new /\ reader' = [reader EXCEPT !.course = Course(new)]
  BY DEF Store
<1>2. Typed /\ reader \in Readers
  BY DEF Inv, Typed
<1>3. /\ reader'.step = reader.step /\ reader'.query = reader.query
      /\ reader'.page = reader.page /\ reader'.got = reader.got
      /\ reader'.total = reader.total /\ reader'.start = reader.start
      /\ reader'.course = Course(new)
  BY <1>1, <1>2 DEF Readers
<1>4. Course(new) \in {"quiet", "grown", "disturbed"}
  BY <1>2, CourseIs
<1>5. Begun' = Begun /\ Reach' = Reach /\ Got' = Got /\ More' = More
  BY <1>3 DEF Begun, Reach, Got, More
<1>6. Begun => reader.step # "idle"
  BY <1>2 DEF Begun, Typed, Readers
<1>7. Typed'
  <2>1. reader' \in Readers
    BY <1>1, <1>2, <1>4 DEF Readers
  <2>2. ~Begun => reader.got = <<>> /\ Course(new) = "quiet"
    BY <1>2, CourseIs DEF Typed
  <2> QED
    BY <1>1, <1>2, <1>3, <1>5, <2>1, <2>2 DEF Typed
<1>8. QuietOK'
  <2>. SUFFICES ASSUME reader.step # "idle", Course(new) = "quiet"
                PROVE  /\ reader.got = Cut(Listed(new, q), 0, Reach)
                       /\ Begun /\ reader.step # "count" => reader.total = Count(new, q)
    BY <1>1, <1>3, <1>5 DEF QuietOK
  <2>1. q \in Queries /\ jobs \in Seq(Rows)
    BY DEF Inv, Typed
  <2>2. CASE Begun
    <3>1. reader.course = "quiet" /\ Matching(jobs, q) = Matching(new, q)
          /\ \A i, j \in Matching(jobs, q) :
                 Before(jobs, q.sort, i, j) => Before(new, q.sort, i, j)
      BY <1>2, <2>2, CourseIs
    <3>2. Listed(new, q) = Listed(jobs, q) /\ Count(new, q) = Count(jobs, q)
      BY <2>1, <3>1, SameListed
    <3> QED
      BY <3>1, <3>2 DEF Inv, QuietOK
  <2>3. CASE ~Begun
    <3>1. reader.step = "list" /\ reader.page = 1 /\ reader.got = <<>>
      BY <1>2, <2>3 DEF Begun, Typed, Readers
    <3>2. q.size \in Nat
      BY <2>1, JobQueriesAssumption
    <3>3. Reach = 0
      BY <3>1, <3>2 DEF Reach
    <3> QED
      BY <2>1, <2>3, <3>1, <3>3, EmptyCut
  <2> QED
    BY <2>2, <2>3
<1>9. StartOK'
  <2>. SUFFICES ASSUME Begun, Course(new) # "disturbed"
                PROVE  /\ reader.start \subseteq Matching(new, q)
                       /\ \A i \in reader.start \ Got : MatchRank(new, q, i) >= Reach
                       /\ reader.step = "answered" /\ ~More => reader.start \subseteq Got
    BY <1>1, <1>3, <1>5 DEF StartOK
  <2>1. q \in Queries /\ jobs \in Seq(Rows)
    BY <1>6 DEF Inv, Typed
  <2>2. reader.course # "disturbed" /\ Matching(jobs, q) \subseteq Matching(new, q)
        /\ \A i, j \in Matching(jobs, q) :
               Before(jobs, q.sort, i, j) => Before(new, q.sort, i, j)
    BY <1>2, CourseIs
  <2>3. /\ reader.start \subseteq Matching(jobs, q)
        /\ \A i \in reader.start \ Got : MatchRank(jobs, q, i) >= Reach
        /\ reader.step = "answered" /\ ~More => reader.start \subseteq Got
    BY <2>2 DEF Inv, StartOK
  <2>4. Reach \in Nat
    BY <1>2, <2>1, ReachType
  <2>5. ASSUME NEW i \in reader.start \ Got
        PROVE  MatchRank(new, q, i) >= Reach
    <3>1. /\ MatchRank(jobs, q, i) \in Nat /\ MatchRank(new, q, i) \in Nat
          /\ MatchRank(jobs, q, i) <= MatchRank(new, q, i)
      BY <2>1, <2>2, <2>3, RanksGrow
    <3>2. MatchRank(jobs, q, i) >= Reach
      BY <2>3
    <3> QED
      BY <2>4, <3>1, <3>2
  <2> QED
    BY <2>2, <2>3, <2>5
<1>. QED
  BY <1>7, <1>8, <1>9 DEF Inv

LEMMA CreateInv ==
    ASSUME Inv, NEW r \in Postings, Create(r)
    PROVE  Inv'
<1>1. Append(jobs, [posting |-> r, active |-> TRUE]) \in Seq(Rows)
  BY DEF Inv, Typed, Rows
<1>. QED
  BY <1>1, StoreInv DEF Create

LEMMA UpdateInv ==
    ASSUME Inv, NEW r \in Postings, Update(r)
    PROVE  Inv'
<1>1. PICK i \in DOMAIN jobs : Store([jobs EXCEPT ![i] = [posting |-> r, active |-> TRUE]])
  BY DEF Update
<1>2. [jobs EXCEPT ![i] = [posting |-> r, active |-> TRUE]] \in Seq(Rows)
  BY DEF Inv, Typed, Rows
<1>. QED
  BY <1>1, <1>2, StoreInv

LEMMA DeactivateInv ==
    ASSUME Inv, Deactivate
    PROVE  Inv'
<1>1. PICK stale : Store([i \in DOMAIN jobs |->
                             [jobs[i] EXCEPT !.active = @ /\ i \notin stale]])
  BY DEF Deactivate
<1>. DEFINE new == [i \in DOMAIN jobs |-> [jobs[i] EXCEPT !.active = @ /\ i \notin stale]]
<1>2. jobs \in Seq(Rows)
  BY DEF Inv, Typed
<1>3. \A i \in DOMAIN jobs : [jobs[i] EXCEPT !.active = @ /\ i \notin stale] \in Rows
  <2>. TAKE i \in DOMAIN jobs
  <2>1. jobs[i] \in Rows
    BY <1>2
  <2>2. (jobs[i].active /\ i \notin stale) \in BOOLEAN
    OBVIOUS
  <2> QED
    BY <2>1, <2>2 DEF Rows
<1>4. new \in [1 .. Len(jobs) -> Rows] /\ Len(jobs) \in Nat
  BY <1>2, <1>3
<1>5. new \in Seq(Rows)
  <2>. HIDE DEF new
  <2> QED
    BY <1>4
<1>. QED
  BY <1>1, <1>5, StoreInv

LEMMA AskInv ==
    ASSUME Inv, Ask
    PROVE  Inv'
<1>1. PICK q \in Queries : reader' = [reader EXCEPT !.step = "list", !.query = q]
  BY DEF Ask
<1>2. reader.step = "idle" /\ jobs' = jobs /\ reader \in Readers /\ jobs \in Seq(Rows)
  BY DEF Ask, Inv, Typed
<1>3. ~Begun /\ reader.page = 1 /\ reader.got = <<>> /\ reader.course = "quiet"
  BY <1>2 DEF Inv, Typed, Begun
<1>4. /\ reader'.step = "list" /\ reader'.query = q /\ reader'.page = 1
      /\ reader'.got = <<>> /\ reader'.course = "quiet"
  BY <1>1, <1>2, <1>3 DEF Readers
<1>5. reader' \in Readers
  BY <1>1, <1>2 DEF Readers
<1>6. ~Begun'
  BY <1>4 DEF Begun
<1>7. Reach' = 0
  <2>1. q.size \in Nat
    BY <1>1, JobQueriesAssumption
  <2>2. 0 * q.size = 0
    BY <2>1
  <2> QED
    BY <1>4, <2>1, <2>2 DEF Reach
<1>8. <<>> = Cut(Listed(jobs, q), 0, 0)
  BY <1>2, EmptyCut DEF Inv
<1>9. Typed'
  BY <1>2, <1>4, <1>5 DEF Typed
<1>10. QuietOK' /\ StartOK'
  BY <1>2, <1>4, <1>6, <1>7, <1>8 DEF QuietOK, StartOK
<1>. QED
  BY <1>9, <1>10 DEF Inv

LEMMA PageEnds ==
    ASSUME NEW p \in Nat \ {0}, NEW size \in Nat
    PROVE  (p - 1) * size + size = p * size
  OBVIOUS

LEMMA ListPageInv ==
    ASSUME Inv, ListPage
    PROVE  Inv'
<1>. DEFINE q == reader.query
            listed == Listed(jobs, q)
            matching == Matching(jobs, q)
            page == Page(jobs, q, reader.page)
            start == IF Begun THEN reader.start ELSE matching
<1>1. /\ reader.step = "list" /\ jobs' = jobs
      /\ reader' = [reader EXCEPT !.step = "count", !.got = reader.got \o page, !.start = start]
  BY DEF ListPage
<1>2. /\ Typed /\ reader \in Readers /\ jobs \in Seq(Rows)
      /\ q \in Queries
  BY <1>1 DEF Inv, Typed
<1>3. /\ reader'.step = "count" /\ reader'.query = q /\ reader'.page = reader.page
      /\ reader'.got = reader.got \o page /\ reader'.start = start
      /\ reader'.course = reader.course
  BY <1>1, <1>2 DEF Readers
<1>4. /\ Reach = (reader.page - 1) * q.size /\ Reach' = reader.page * q.size
      /\ Reach \in Nat /\ q.size \in Nat /\ Reach' = Reach + q.size
  <2>1. q.size \in Nat /\ reader.page \in Nat \ {0} /\ Reach \in Nat
    BY <1>2, ReachType
  <2>2. (reader.page - 1) * q.size + q.size = reader.page * q.size
    BY <2>1, PageEnds
  <2> QED
    BY <1>1, <1>3, <2>1, <2>2 DEF Reach
<1>5. matching \subseteq Nat /\ listed \in Seq(Nat) /\ Len(listed) \in Nat
      /\ Len(listed) = Cardinality(matching)
  <2>1. matching \subseteq DOMAIN jobs /\ listed \in Seq(matching)
        /\ Len(listed) = Cardinality(matching)
    BY <1>2, ListedIs
  <2>2. DOMAIN jobs \subseteq Nat
    BY <1>2
  <2>. HIDE DEF listed, matching
  <2> QED
    BY <2>1, <2>2
<1>6. page = Cut(listed, Reach, q.size)
  BY <1>4 DEF Page
<1>7. /\ page \in Seq(Nat)
      /\ \A k \in 1 .. Len(page) : page[k] = listed[Reach + k]
      /\ Len(page) = Taken(Len(listed), Reach, q.size)
  <2>. HIDE DEF listed, page
  <2> QED
    BY <1>4, <1>5, <1>6, CutOfIds, ZenonT(60)
<1>8. reader.got \in Seq(Nat) /\ start \in SUBSET Nat
  BY <1>2, <1>5 DEF Readers
<1>9. reader.got \o page \in Seq(Nat) /\ Begun'
  <2>1. reader.got \o page \in Seq(Nat)
    <3>. HIDE DEF page
    <3> QED
      BY <1>7, <1>8
  <2> QED
    BY <1>3, <2>1 DEF Begun
<1>10. Typed'
  <2>1. reader' \in Readers
    <3>. HIDE DEF page, start
    <3> QED
      BY <1>1, <1>2, <1>8, <1>9 DEF Readers
  <2> QED
    BY <1>1, <1>2, <1>3, <1>9, <2>1 DEF Typed
<1>11. QuietOK'
  <2>. SUFFICES ASSUME reader.course = "quiet"
                PROVE  reader.got \o page = Cut(listed, 0, Reach + q.size)
    BY <1>1, <1>3, <1>4 DEF QuietOK
  <2>1. reader.got = Cut(listed, 0, Reach)
    BY <1>1 DEF Inv, QuietOK
  <2>. HIDE DEF listed, page
  <2> QED
    BY <1>4, <1>5, <1>6, <2>1, CutsJoin
<1>12. StartOK'
  <2>. SUFFICES ASSUME reader.course # "disturbed"
                PROVE  /\ start \subseteq matching
                       /\ \A i \in start \ Got' : MatchRank(jobs, q, i) >= Reach + q.size
    BY <1>1, <1>3, <1>4 DEF StartOK
  <2>1. start \subseteq matching
    BY DEF Inv, StartOK
  <2>2. ASSUME NEW i \in start \ Got'
        PROVE  MatchRank(jobs, q, i) >= Reach + q.size
    <3>. DEFINE rank == MatchRank(jobs, q, i)
    <3>1. rank \in Nat /\ rank + 1 \in 1 .. Len(listed) /\ listed[rank + 1] = i
      BY <1>2, <2>1, ListedIs
    <3>2. \A k \in 1 .. Len(reader.got) : reader.got[k] # i
      <4>1. \A k \in 1 .. Len(reader.got) :
               /\ k \in DOMAIN (reader.got \o page)
               /\ (reader.got \o page)[k] = reader.got[k]
        <5>. HIDE DEF page
        <5> QED
          BY <1>7, <1>8
      <4> QED
        BY <1>3, <4>1 DEF Got
    <3>3. \A k \in 1 .. Len(page) : page[k] # i
      <4>1. \A k \in 1 .. Len(page) :
               /\ Len(reader.got) + k \in DOMAIN (reader.got \o page)
               /\ (reader.got \o page)[Len(reader.got) + k] = page[k]
        <5>. HIDE DEF page
        <5>1. \A k \in 1 .. Len(reader.got) + Len(page) :
                 (reader.got \o page)[k] =
                     IF k <= Len(reader.got) THEN reader.got[k] ELSE page[k - Len(reader.got)]
          BY <1>7, <1>8, ConcatProperties
        <5>2. /\ reader.got \o page \in Seq(Nat)
              /\ Len(reader.got \o page) = Len(reader.got) + Len(page)
          BY <1>7, <1>8, ConcatProperties
        <5>3. Len(reader.got) \in Nat /\ Len(page) \in Nat
              /\ DOMAIN (reader.got \o page) = 1 .. Len(reader.got) + Len(page)
          BY <1>7, <1>8, <5>2
        <5> QED
          BY <5>1, <5>3
      <4> QED
        BY <1>3, <4>1 DEF Got
    <3>4. rank >= Reach
      <4>1. CASE Begun
        <5>1. i \in reader.start /\ i \notin Got
          BY <1>8, <3>2, <4>1 DEF Got
        <5> QED
          BY <4>1, <5>1 DEF Inv, StartOK
      <4>2. CASE ~Begun
        <5>1. reader.page = 1
          BY <1>2, <4>2 DEF Begun, Readers
        <5> QED
          BY <1>4, <3>1, <5>1
      <4> QED
        BY <4>1, <4>2
    <3>5. ASSUME rank < Reach + q.size
          PROVE  FALSE
      <4>. DEFINE k == rank + 1 - Reach
      <4>. HIDE DEF rank, listed, page
      <4>1. k \in 1 .. q.size /\ Reach + k = rank + 1
        BY <1>4, <3>1, <3>4, <3>5
      <4>2. Len(listed) > Reach /\ k <= Len(listed) - Reach /\ k <= q.size
        BY <1>4, <1>5, <3>1, <3>4, <4>1, SMTT(60)
      <4>3. k <= Len(page)
        <5>. HIDE DEF k
        <5> QED
          BY <1>4, <1>5, <1>7, <4>2 DEF Taken
      <4> QED
        BY <1>7, <3>1, <3>3, <4>1, <4>3
    <3> QED
      BY <1>4, <3>1, <3>5
  <2> QED
    BY <2>1, <2>2
<1>. QED
  BY <1>2, <1>10, <1>11, <1>12 DEF Inv

LEMMA CountPageInv ==
    ASSUME Inv, CountPage
    PROVE  Inv'
<1>. DEFINE q == reader.query
            total == Count(jobs, q)
<1>1. /\ reader.step = "count" /\ jobs' = jobs
      /\ reader' = [reader EXCEPT !.step = "answered", !.total = total]
  BY DEF CountPage
<1>2. /\ Typed /\ reader \in Readers /\ jobs \in Seq(Rows)
      /\ q \in Queries
  BY <1>1 DEF Inv, Typed
<1>3. total \in Nat
  BY <1>2, ListedIs DEF Count
<1>4. /\ reader'.step = "answered" /\ reader'.query = q /\ reader'.page = reader.page
      /\ reader'.got = reader.got /\ reader'.start = reader.start
      /\ reader'.course = reader.course /\ reader'.total = total
  BY <1>1, <1>2 DEF Readers
<1>5. Begun /\ Begun' /\ Got' = Got /\ Reach' = Reach /\ Reach = reader.page * q.size
  BY <1>1, <1>4 DEF Begun, Got, Reach
<1>6. Typed'
  <2>1. reader' \in Readers
    <3>. HIDE DEF total
    <3> QED
      BY <1>1, <1>2, <1>3 DEF Readers
  <2> QED
    BY <1>1, <1>2, <1>4, <1>5, <2>1 DEF Typed
<1>7. QuietOK'
  BY <1>1, <1>4, <1>5 DEF Inv, QuietOK
<1>8. StartOK'
  <2>. SUFFICES ASSUME reader.course # "disturbed"
                PROVE  /\ reader.start \subseteq Matching(jobs, q)
                       /\ \A i \in reader.start \ Got : MatchRank(jobs, q, i) >= Reach
                       /\ ~More' => reader.start \subseteq Got
    BY <1>1, <1>4, <1>5 DEF StartOK
  <2>1. /\ reader.start \subseteq Matching(jobs, q)
        /\ \A i \in reader.start \ Got : MatchRank(jobs, q, i) >= Reach
    BY <1>5 DEF Inv, StartOK
  <2>2. ASSUME ~More', NEW i \in reader.start \ Got
        PROVE  FALSE
    <3>1. MatchRank(jobs, q, i) \in Nat /\ MatchRank(jobs, q, i) + 1 <= total
      BY <1>2, <2>1, ListedIs DEF Count
    <3>2. MatchRank(jobs, q, i) >= Reach /\ Reach \in Nat
      BY <1>2, <2>1, ReachType
    <3>3. ~(Reach < total)
      BY <1>4, <1>5, <2>2 DEF More
    <3>. HIDE DEF total
    <3> QED
      BY <1>3, <3>1, <3>2, <3>3
  <2> QED
    BY <2>1, <2>2
<1>. QED
  BY <1>2, <1>6, <1>7, <1>8 DEF Inv

LEMMA NextPageInv ==
    ASSUME Inv, NextPage
    PROVE  Inv'
<1>. DEFINE q == reader.query
<1>1. /\ reader.step = "answered" /\ jobs' = jobs
      /\ reader' = [reader EXCEPT !.step = "list", !.page = reader.page + 1]
  BY DEF NextPage
<1>2. /\ Typed /\ reader \in Readers /\ jobs \in Seq(Rows)
      /\ q \in Queries
  BY <1>1 DEF Inv, Typed
<1>3. /\ reader'.step = "list" /\ reader'.query = q /\ reader'.page = reader.page + 1
      /\ reader'.got = reader.got /\ reader'.start = reader.start
      /\ reader'.course = reader.course /\ reader'.total = reader.total
  BY <1>1, <1>2 DEF Readers
<1>4. reader.page \in Nat \ {0}
  BY <1>2 DEF Readers
<1>5. Begun /\ Begun' /\ Got' = Got
  BY <1>1, <1>3, <1>4 DEF Begun, Got
<1>6. Reach' = Reach
  <2>1. (reader.page + 1) - 1 = reader.page
    BY <1>4
  <2> QED
    BY <1>1, <1>3, <2>1 DEF Reach
<1>7. Typed'
  <2>1. reader.page + 1 \in Nat \ {0}
    BY <1>4
  <2>2. reader' \in Readers
    BY <1>1, <1>2, <2>1 DEF Readers
  <2> QED
    BY <1>1, <1>2, <1>3, <1>5, <2>2 DEF Typed
<1>8. QuietOK'
  BY <1>1, <1>3, <1>5, <1>6 DEF Inv, QuietOK
<1>9. StartOK'
  BY <1>1, <1>3, <1>5, <1>6 DEF Inv, StartOK
<1>. QED
  BY <1>2, <1>7, <1>8, <1>9 DEF Inv

LEMMA InitInv == Init => Inv
<1>. SUFFICES ASSUME Init PROVE Inv
  OBVIOUS
<1>1. ~Begun /\ reader.step = "idle"
  BY DEF Init, Idle, Begun
<1>2. Typed
  BY <1>1 DEF Init, Idle, Typed, Readers, Rows
<1>3. QuietOK /\ StartOK
  BY <1>1 DEF QuietOK, StartOK
<1>. QED
  BY <1>2, <1>3 DEF Inv

LEMMA StutterInv ==
    ASSUME Inv, UNCHANGED vars
    PROVE  Inv'
  BY DEF vars, Inv, Typed, QuietOK, StartOK, Begun, Reach, Got, More

LEMMA NextInv == Inv /\ [Next]_vars => Inv'
<1>. SUFFICES ASSUME Inv, [Next]_vars PROVE Inv'
  OBVIOUS
<1>1. ASSUME NEW r \in Postings, Create(r) PROVE Inv'
  BY <1>1, CreateInv
<1>2. ASSUME NEW r \in Postings, Update(r) PROVE Inv'
  BY <1>2, UpdateInv
<1>3. CASE Deactivate
  BY <1>3, DeactivateInv
<1>4. CASE Ask
  BY <1>4, AskInv
<1>5. CASE ListPage
  BY <1>5, ListPageInv
<1>6. CASE CountPage
  BY <1>6, CountPageInv
<1>7. CASE NextPage
  BY <1>7, NextPageInv
<1>8. CASE UNCHANGED vars
  BY <1>8, StutterInv
<1>. QED
  BY <1>1, <1>2, <1>3, <1>4, <1>5, <1>6, <1>7, <1>8 DEF Next

LEMMA Invariance == Spec => []Inv
<1>1. Init => Inv
  BY InitInv
<1>2. Inv /\ [Next]_vars => Inv'
  BY NextInv
<1>. QED
  BY <1>1, <1>2, PTL DEF Spec

LEMMA QuietPages == Inv => QuietPagesPartition
<1>. DEFINE q == reader.query
            matching == Matching(jobs, q)
            listed == Listed(jobs, q)
<1>. SUFFICES ASSUME Inv, reader.step = "answered", reader.course = "quiet"
              PROVE  /\ Got \subseteq matching
                     /\ \A k, l \in DOMAIN reader.got :
                           k < l => InOrder(reader.got[k], reader.got[l])
                     /\ \A i \in matching \ Got, j \in Got : InOrder(j, i)
                     /\ reader.total = Cardinality(matching)
                     /\ ~More => Got = matching
  BY DEF QuietPagesPartition
<1>1. /\ Typed /\ jobs \in Seq(Rows) /\ q \in Queries
      /\ reader \in Readers /\ Begun
  BY DEF Inv, Typed, Begun
<1>2. /\ Reach = reader.page * q.size /\ Reach \in Nat
  BY <1>1, ReachType DEF Reach
<1>3. /\ reader.got = Cut(listed, 0, Reach)
      /\ reader.total = Count(jobs, q)
  BY <1>1, <1>2 DEF Inv, QuietOK
<1>4. /\ matching \subseteq DOMAIN jobs
      /\ listed \in Seq(matching) /\ Len(listed) = Cardinality(matching)
      /\ \A k, n \in 1 .. Len(listed) : k < n => InOrder(listed[k], listed[n])
      /\ \A i \in matching :
            /\ MatchRank(jobs, q, i) \in Nat
            /\ MatchRank(jobs, q, i) + 1 \in 1 .. Len(listed)
            /\ listed[MatchRank(jobs, q, i) + 1] = i
  BY <1>1, ListedIs DEF InOrder
<1>5. Len(listed) \in Nat /\ \A k \in 1 .. Len(listed) : listed[k] \in matching
  <2>. HIDE DEF listed, matching
  <2> QED
    BY <1>4
<1>. DEFINE taken == Taken(Len(listed), 0, Reach)
<1>6. /\ \A k \in 1 .. taken : 0 + k \in 1 .. Len(listed) /\ reader.got[k] = listed[0 + k]
      /\ DOMAIN reader.got = 1 .. taken
      /\ taken \in Nat
  <2>1. /\ taken \in Nat
        /\ DOMAIN Cut(listed, 0, Reach) = 1 .. taken
        /\ \A k \in 1 .. taken :
              0 + k \in 1 .. Len(listed) /\ Cut(listed, 0, Reach)[k] = listed[0 + k]
    BY <1>2, <1>5, CutTakes
  <2>. HIDE DEF taken
  <2> QED
    BY <1>3, <2>1
<1>7. \A k \in 1 .. taken : k \in 1 .. Len(listed) /\ reader.got[k] = listed[k]
  BY <1>6
<1>. HIDE DEF listed, matching
<1>8. Got = {listed[k] : k \in 1 .. taken}
  BY <1>6, <1>7 DEF Got
<1>9. Got \subseteq matching
  BY <1>5, <1>7, <1>8
<1>10. \A k, l \in DOMAIN reader.got : k < l => InOrder(reader.got[k], reader.got[l])
  BY <1>4, <1>6, <1>7
<1>11. ASSUME NEW i \in matching \ Got, NEW j \in Got
       PROVE  InOrder(j, i)
  <2>1. PICK k \in 1 .. taken : j = listed[k]
    BY <1>8
  <2>2. PICK n \in 1 .. Len(listed) : i = listed[n]
    BY <1>4
  <2>3. n \notin 1 .. taken
    BY <1>8, <2>2
  <2>4. k < n /\ k \in 1 .. Len(listed)
    BY <1>5, <1>6, <1>7, <2>3
  <2> QED
    BY <1>4, <2>1, <2>2, <2>4
<1>12. reader.total = Cardinality(matching)
  BY <1>3 DEF Count, matching
<1>13. ASSUME ~More PROVE Got = matching
  <2>1. ~(Reach < Len(listed))
    BY <1>2, <1>4, <1>12, <1>13 DEF More
  <2>2. taken = Len(listed)
    BY <1>2, <1>5, <2>1 DEF Taken
  <2>3. matching \subseteq Got
    BY <1>4, <1>8, <2>2
  <2> QED
    BY <1>9, <2>3
<1>. QED
  BY <1>9, <1>10, <1>11, <1>12, <1>13 DEF matching

(* While the rows that match stay as they were, the pages a client gets    *)
(* are a partition of them in the order it asked for, and the total is     *)
(* right: list() and count() have the same filters, and every ORDER BY     *)
(* ends in the id, for any rows, filters and page size.                    *)
THEOREM QuietPagesArePartitions == Spec => []QuietPagesPartition
  BY Invariance, QuietPages, PTL

(* Postings that crawls store between the pages, or between a page and its *)
(* count, never make a client miss one that matched from the start.        *)
THEOREM InsertsHideNoRow == Spec => []InsertsHideNothing
<1>1. Inv => InsertsHideNothing
  BY DEF Inv, StartOK, InsertsHideNothing, Begun
<1>. QED
  BY <1>1, Invariance, PTL
-----------------------------------------------------------------------------
(* Duplicate candidates                                                    *)

LEMMA FiniteImage ==
    ASSUME NEW S, IsFiniteSet(S), NEW f
    PROVE  IsFiniteSet({f[x] : x \in S})
<1>. DEFINE T == {f[x] : x \in S}
            g == [x \in S |-> f[x]]
<1>1. g \in Surjection(S, T)
  BY DEF Surjection
<1>. HIDE DEF g
<1>. QED
  BY <1>1, FS_Surjection

LEMMA SeveralMembers ==
    ASSUME NEW T, IsFiniteSet(T)
    PROVE  Cardinality(T) > 1 <=> \E x, y \in T : x # y
<1>1. Cardinality(T) \in Nat
  BY FS_CardinalityType
<1>2. ASSUME NEW x \in T, NEW y \in T, x # y
      PROVE  Cardinality(T) > 1
  <2>1. IsFiniteSet(T \ {x}) /\ Cardinality(T \ {x}) = Cardinality(T) - 1
    BY FS_RemoveElement
  <2>2. T \ {x} # {}
    BY <1>2
  <2>3. Cardinality(T \ {x}) \in Nat /\ Cardinality(T \ {x}) # 0
    BY <2>1, <2>2, FS_EmptySet, FS_CardinalityType
  <2> QED
    BY <1>1, <2>1, <2>3
<1>3. ASSUME Cardinality(T) > 1
      PROVE  \E x, y \in T : x # y
  <2>. SUFFICES ASSUME \A x, y \in T : x = y PROVE FALSE
    OBVIOUS
  <2>1. T # {}
    BY <1>3, FS_EmptySet
  <2>2. \E x : T = {x}
    BY <2>1
  <2>3. Cardinality(T) = 1
    BY <2>2, FS_Singleton
  <2> QED
    BY <1>3, <2>3
<1>. QED
  BY <1>2, <1>3

TableOK == jobs \in Seq(Rows)

LEMMA RowsFinite ==
    ASSUME TableOK, NEW G \in SUBSET DOMAIN jobs
    PROVE  IsFiniteSet(G) /\ Cardinality(G) \in Nat /\ G \subseteq Nat
<1>1. DOMAIN jobs = 1 .. Len(jobs) /\ Len(jobs) \in Nat
  BY DEF TableOK
<1>2. IsFiniteSet(1 .. Len(jobs))
  BY <1>1, FS_Interval
<1>. QED
  BY <1>1, <1>2, FS_Subset, FS_CardinalityType

LEMMA ByIdentityOrder ==
    ASSUME TableOK, NEW G \in SUBSET DOMAIN jobs
    PROVE  StrictOrder(G, {p \in G \X G : ByIdentity(p[1], p[2])})
<1>1. \A i, j \in G : <<i, j>> \in {p \in G \X G : ByIdentity(p[1], p[2])} <=> ByIdentity(i, j)
  OBVIOUS
<1>. DEFINE c == [i \in G |-> jobs[i].posting.source]
            n == [i \in G |-> jobs[i].posting.job]
<1>2. \A i \in G : i \in Nat /\ c[i] \in Nat /\ n[i] \in Nat
  BY RowFields DEF TableOK
<1>3. \A i, j \in G :
         ByIdentity(i, j) = Lexicographic(<<c[i], n[i], i>>, <<c[j], n[j], j>>)
  BY DEF ByIdentity
<1>. HIDE DEF c, n
<1>4. \A i, j \in G : ByIdentity(i, j)
                       <=> c[i] < c[j] \/ (c[i] = c[j] /\ (n[i] < n[j] \/ (n[i] = n[j] /\ i < j)))
  <2>. TAKE i, j \in G
  <2>. DEFINE x == c[i]
              y == n[i]
              z == c[j]
              w == n[j]
  <2>1. x \in Nat /\ y \in Nat /\ i \in Nat /\ z \in Nat /\ w \in Nat /\ j \in Nat
    BY <1>2
  <2>2. ByIdentity(i, j) = Lexicographic(<<x, y, i>>, <<z, w, j>>)
    BY <1>3
  <2>. HIDE DEF x, y, z, w
  <2>3. Lexicographic(<<x, y, i>>, <<z, w, j>>)
          <=> x < z \/ (x = z /\ (y < w \/ (y = w /\ i < j)))
    BY <2>1, LexThree
  <2> QED
    BY <2>2, <2>3 DEF x, y, z, w
<1>5. \A i \in G : ~ByIdentity(i, i)
  BY <1>2, <1>4
<1>6. \A i, j \in G : i # j => ByIdentity(i, j) \/ ByIdentity(j, i)
  BY <1>2, <1>4
<1>7. \A i, j, k \in G : ByIdentity(i, j) /\ ByIdentity(j, k) => ByIdentity(i, k)
  BY <1>2, <1>4
<1>. QED
  BY <1>1, <1>5, <1>6, <1>7 DEF StrictOrder

(* The jobs of a group are its rows.                                       *)
LEMMA GroupJobsIs ==
    ASSUME TableOK, NEW G \in SUBSET DOMAIN jobs
    PROVE  /\ {GroupJobs(G)[n] : n \in DOMAIN GroupJobs(G)} = G
           /\ G # {} => GroupJobs(G)[1] \in G
<1>. DEFINE R == {p \in G \X G : ByIdentity(p[1], p[2])}
            sorted == Sorted(G, R)
<1>1. IsFiniteSet(G) /\ Cardinality(G) \in Nat
  BY RowsFinite
<1>2. StrictOrder(G, R)
  BY ByIdentityOrder
<1>. HIDE DEF R
<1>3. /\ sorted \in [1 .. Cardinality(G) -> G]
      /\ \A i \in G : \E k \in 1 .. Cardinality(G) : sorted[k] = i
  BY <1>1, <1>2, SortedOrder
<1>. HIDE DEF sorted
<1>4. {sorted[n] : n \in DOMAIN sorted} = G
  BY <1>3
<1>5. ASSUME G # {} PROVE sorted[1] \in G
  <2>1. Cardinality(G) # 0
    BY <1>1, <1>5, FS_EmptySet
  <2>2. 1 \in 1 .. Cardinality(G)
    BY <1>1, <2>1
  <2> QED
    BY <1>3, <2>2
<1>. QED
  BY <1>4, <1>5 DEF GroupJobs, sorted, R

(* The rows that are looked at are rows, all of them if they are no more   *)
(* than scanned_limit.                                                     *)
LEMMA ScannedIs ==
    ASSUME TableOK, NEW active, NEW scan \in Nat
    PROVE  LET scanned == Scanned(active, scan)
               rows == Reviewed(active)
               looked == {scanned[k] : k \in DOMAIN scanned}
           IN  /\ \E n \in Nat : DOMAIN scanned = 1 .. n
               /\ rows \subseteq DOMAIN jobs
               /\ looked \subseteq rows
               /\ Cardinality(rows) <= scan => looked = rows
<1>. DEFINE rows == Reviewed(active)
            R == {p \in rows \X rows : ByCompany(jobs, p[1], p[2])}
            ordered == Sorted(rows, R)
            taken == Taken(Len(ordered), 0, scan)
            scanned == Cut(ordered, 0, scan)
<1>1. rows \subseteq DOMAIN jobs /\ Scanned(active, scan) = scanned
  BY DEF Reviewed, Scanned
<1>2. IsFiniteSet(rows) /\ Cardinality(rows) \in Nat
  <2>. HIDE DEF rows
  <2> QED
    BY <1>1, RowsFinite
<1>3. StrictOrder(rows, R)
  BY <1>1, ByCompanyOrder DEF TableOK
<1>. HIDE DEF rows, R
<1>4. /\ ordered \in [1 .. Cardinality(rows) -> rows]
      /\ Len(ordered) = Cardinality(rows) /\ Len(ordered) \in Nat
      /\ \A i \in rows : \E k \in 1 .. Cardinality(rows) : ordered[k] = i
  BY <1>2, <1>3, SortedOrder
<1>. HIDE DEF ordered
<1>5. /\ taken \in Nat
      /\ DOMAIN scanned = 1 .. taken
      /\ \A k \in 1 .. taken : 0 + k \in 1 .. Len(ordered) /\ scanned[k] = ordered[0 + k]
  <2>1. Len(ordered) \in Nat /\ 0 \in Nat /\ scan \in Nat
    BY <1>4
  <2> QED
    BY <2>1, CutTakes
<1>6. Cardinality(rows) <= scan => taken = Cardinality(rows)
  BY <1>2, <1>4 DEF Taken
<1>. HIDE DEF taken, scanned
<1>7. \A k \in 1 .. taken : k \in 1 .. Cardinality(rows) /\ scanned[k] = ordered[k]
  BY <1>4, <1>5
<1>8. {scanned[k] : k \in DOMAIN scanned} \subseteq rows
  BY <1>4, <1>5, <1>7
<1>9. ASSUME Cardinality(rows) <= scan
      PROVE  rows \subseteq {scanned[k] : k \in DOMAIN scanned}
  BY <1>4, <1>5, <1>6, <1>7, <1>9
<1>. QED
  BY <1>1, <1>5, <1>8, <1>9 DEF rows

LEMMA SamePositionIs ==
    ASSUME NEW i, NEW j
    PROVE  SamePosition(i, j)
             <=> /\ HasKey(jobs[i].posting) /\ HasKey(jobs[j].posting)
                 /\ CandidateKey(jobs[i].posting) = CandidateKey(jobs[j].posting)
  BY DEF SamePosition, HasKey, CandidateKey

(* A group is all rows of one position; there are several sources among    *)
(* them exactly if two of them are duplicates.                             *)
LEMMA GroupsIs ==
    ASSUME TableOK, NEW rows \in SUBSET DOMAIN jobs
    PROVE  /\ IsFiniteSet(Groups(rows))
           /\ \A G \in Groups(rows) :
                 /\ G \subseteq rows /\ G # {}
                 /\ \A i, j \in G : SamePosition(i, j)
                 /\ \A i \in G, j \in rows : SamePosition(i, j) => j \in G
                 /\ \E i, j \in G : Duplicates(i, j)
           /\ \A i, j \in rows : Duplicates(i, j) =>
                 \E G \in Groups(rows) : i \in G /\ j \in G
<1>. DEFINE keyed == {i \in rows : HasKey(jobs[i].posting)}
            group == [i \in keyed |-> Group(rows, i)]
            sources(G) == {jobs[i].posting.source : i \in G}
<1>1. Groups(rows) = {G \in {group[i] : i \in keyed} : Cardinality(sources(G)) > 1}
  BY DEF Groups
<1>2. IsFiniteSet(keyed)
  BY RowsFinite
<1>3. IsFiniteSet(Groups(rows))
  <2>. HIDE DEF keyed, group, sources
  <2>1. IsFiniteSet({group[i] : i \in keyed})
    BY <1>2, FiniteImage
  <2> QED
    BY <1>1, <2>1, FS_Subset
<1>4. ASSUME NEW i \in keyed
      PROVE  /\ i \in group[i] /\ group[i] \subseteq rows
             /\ \A j \in rows : j \in group[i] <=> SamePosition(i, j)
             /\ \A j, k \in group[i] : SamePosition(j, k)
             /\ \A j \in group[i], k \in rows : SamePosition(j, k) => k \in group[i]
  <2>1. \A j : j \in group[i] <=> j \in rows /\ SamePosition(i, j)
    BY SamePositionIs DEF Group
  <2> QED
    BY <2>1, SamePositionIs
<1>5. ASSUME NEW G \in SUBSET rows
      PROVE  Cardinality(sources(G)) > 1
               <=> \E i, j \in G : jobs[i].posting.source # jobs[j].posting.source
  <2>. DEFINE f == [i \in G |-> jobs[i].posting.source]
  <2>1. IsFiniteSet(G)
    BY RowsFinite
  <2>2. sources(G) = {f[i] : i \in G}
    OBVIOUS
  <2>3. IsFiniteSet(sources(G))
    <3>. HIDE DEF f, sources
    <3> QED
      BY <2>1, <2>2, FiniteImage
  <2>4. Cardinality(sources(G)) > 1 <=> \E x, y \in sources(G) : x # y
    <3>. HIDE DEF sources
    <3> QED
      BY <2>3, SeveralMembers
  <2> QED
    BY <2>4
<1>6. ASSUME NEW G \in Groups(rows)
      PROVE  /\ G \subseteq rows /\ G # {}
             /\ \A i, j \in G : SamePosition(i, j)
             /\ \A i \in G, j \in rows : SamePosition(i, j) => j \in G
             /\ \E i, j \in G : Duplicates(i, j)
  <2>1. PICK i \in keyed : G = group[i]
    BY <1>1
  <2>2. Cardinality(sources(G)) > 1
    BY <1>1
  <2>. HIDE DEF keyed, group, sources
  <2>3. /\ G \subseteq rows /\ G # {}
        /\ \A j, k \in G : SamePosition(j, k)
        /\ \A j \in G, k \in rows : SamePosition(j, k) => k \in G
    BY <1>4, <2>1
  <2>4. \E j, k \in G : jobs[j].posting.source # jobs[k].posting.source
    BY <1>5, <2>2, <2>3
  <2> QED
    BY <2>3, <2>4 DEF Duplicates
<1>7. ASSUME NEW i \in rows, NEW j \in rows, Duplicates(i, j)
      PROVE  \E G \in Groups(rows) : i \in G /\ j \in G
  <2>1. SamePosition(i, j) /\ jobs[i].posting.source # jobs[j].posting.source
    BY <1>7 DEF Duplicates
  <2>2. i \in keyed
    BY <2>1, SamePositionIs
  <2>. HIDE DEF keyed, group, sources
  <2>3. i \in group[i] /\ j \in group[i] /\ group[i] \in SUBSET rows
    BY <1>4, <2>1, <2>2
  <2>4. Cardinality(sources(group[i])) > 1
    BY <1>5, <2>1, <2>3
  <2>5. group[i] \in Groups(rows)
    BY <1>1, <2>2, <2>4
  <2> QED
    BY <2>3, <2>5
<1>. QED
  BY <1>3, <1>6, <1>7

(* No two groups hold one position.                                        *)
LEMMA GroupsDiffer ==
    ASSUME TableOK, NEW rows \in SUBSET DOMAIN jobs,
           NEW G \in Groups(rows), NEW H \in Groups(rows),
           NEW i \in G, NEW j \in H, SamePosition(i, j)
    PROVE  G = H
<1>1. /\ G \subseteq rows /\ H \subseteq rows
      /\ \A k \in G, l \in rows : SamePosition(k, l) => l \in G
      /\ \A k \in H, l \in rows : SamePosition(k, l) => l \in H
      /\ \A k, l \in G : SamePosition(k, l)
      /\ \A k, l \in H : SamePosition(k, l)
  BY GroupsIs
<1>2. j \in G /\ i \in rows /\ j \in rows
  BY <1>1
<1>3. i \in H
  <2>1. SamePosition(j, i)
    BY SamePositionIs
  <2> QED
    BY <1>1, <1>2, <2>1
<1>4. \A k \in G : k \in H
  BY <1>1, <1>3
<1>5. \A k \in H : k \in G
  BY <1>1, <1>2
<1>. QED
  BY <1>4, <1>5

(* Sets of numbers have a first member.                                    *)
LEMMA FirstMember ==
    ASSUME NEW K \in SUBSET Nat, IsFiniteSet(K), K # {}
    PROVE  \E k \in K : \A l \in K : k <= l
<1>. DEFINE R == {p \in K \X K : p[1] < p[2]}
            sorted == Sorted(K, R)
<1>1. \A k, l \in K : <<k, l>> \in R <=> k < l
  OBVIOUS
<1>. HIDE DEF R
<1>2. StrictOrder(K, R)
  BY <1>1 DEF StrictOrder
<1>3. Cardinality(K) \in Nat /\ Cardinality(K) # 0
  BY FS_CardinalityType, FS_EmptySet
<1>4. /\ sorted \in [1 .. Cardinality(K) -> K]
      /\ \A k, l \in 1 .. Cardinality(K) : k < l => <<sorted[k], sorted[l]>> \in R
      /\ \A i \in K : /\ Cardinality(Below(K, R, i)) + 1 \in 1 .. Cardinality(K)
                      /\ sorted[Cardinality(Below(K, R, i)) + 1] = i
  BY <1>2, SortedOrder
<1>. HIDE DEF sorted
<1>5. 1 \in 1 .. Cardinality(K) /\ sorted[1] \in K
  BY <1>3, <1>4
<1>6. ASSUME NEW l \in K PROVE sorted[1] <= l
  <2>1. PICK k \in 1 .. Cardinality(K) : sorted[k] = l
    BY <1>4
  <2>2. k = 1 \/ 1 < k
    BY <1>3
  <2>3. 1 < k => sorted[1] < l
    BY <1>1, <1>4, <1>5, <2>1
  <2>4. sorted[1] \in Nat /\ l \in Nat
    BY <1>5
  <2> QED
    BY <2>1, <2>2, <2>3, <2>4
<1>. QED
  BY <1>5, <1>6

LEMMA PlaceIs ==
    ASSUME NEW scanned, NEW n \in Nat, DOMAIN scanned = 1 .. n,
           NEW G, \E k \in DOMAIN scanned : scanned[k] \in G
    PROVE  Place(scanned, G) \in DOMAIN scanned /\ scanned[Place(scanned, G)] \in G
<1>. DEFINE K == {k \in DOMAIN scanned : scanned[k] \in G}
<1>1. K \in SUBSET Nat /\ K # {} /\ K \subseteq 1 .. n
  OBVIOUS
<1>2. IsFiniteSet(K)
  <2>1. IsFiniteSet(1 .. n)
    BY FS_Interval
  <2>. HIDE DEF K
  <2> QED
    BY <1>1, <2>1, FS_Subset
<1>. HIDE DEF K
<1>3. PICK k \in K : \A l \in K : k <= l
  BY <1>1, <1>2, FirstMember
<1>4. \A l \in 1 .. k - 1 : l \notin K /\ l \in 1 .. n
  BY <1>1, <1>3
<1>5. k \in DOMAIN scanned /\ scanned[k] \in G /\ \A l \in 1 .. k - 1 : scanned[l] \notin G
  BY <1>3, <1>4 DEF K
<1>. QED
  BY <1>5 DEF Place

(* What the groups are sorted by: no two have the same place.              *)
LEMMA RankOrder ==
    ASSUME TableOK, NEW scanned, NEW n \in Nat, DOMAIN scanned = 1 .. n,
           {scanned[k] : k \in DOMAIN scanned} \subseteq DOMAIN jobs
    PROVE  LET groups == Groups({scanned[k] : k \in DOMAIN scanned})
               R == {p \in groups \X groups :
                        Lexicographic(Rank(scanned, p[1]), Rank(scanned, p[2]))}
           IN  /\ StrictOrder(groups, R)
               /\ \A G, H \in groups : <<G, H>> \in R /\ HasLocation(H) => HasLocation(G)
<1>. DEFINE looked == {scanned[k] : k \in DOMAIN scanned}
            groups == Groups(looked)
            located == [G \in groups |-> IF HasLocation(G) THEN 0 ELSE 1]
            company == [G \in groups |-> jobs[GroupJobs(G)[1]].posting.company]
            title == [G \in groups |-> jobs[GroupJobs(G)[1]].posting.title]
            place == [G \in groups |-> Place(scanned, G)]
            R == {p \in groups \X groups :
                     Lexicographic(Rank(scanned, p[1]), Rank(scanned, p[2]))}
<1>1. looked \in SUBSET DOMAIN jobs
  OBVIOUS
<1>2. ASSUME NEW G \in groups
      PROVE  /\ G \subseteq looked /\ G # {}
             /\ \A i \in G : SamePosition(i, i)
  <2>. HIDE DEF looked
  <2> QED
    BY <1>1, GroupsIs
<1>3. ASSUME NEW G \in groups
      PROVE  /\ company[G] \in Nat /\ title[G] \in Nat
             /\ place[G] \in Nat /\ scanned[place[G]] \in G
  <2>1. G \in SUBSET DOMAIN jobs /\ G # {}
    BY <1>1, <1>2
  <2>2. GroupJobs(G)[1] \in DOMAIN jobs
    BY <2>1, GroupJobsIs
  <2>3. /\ jobs[GroupJobs(G)[1]].posting.company \in Nat
        /\ jobs[GroupJobs(G)[1]].posting.title \in Nat
    BY <2>2, RowFields DEF TableOK
  <2>4. \E k \in DOMAIN scanned : scanned[k] \in G
    BY <1>2
  <2>5. Place(scanned, G) \in DOMAIN scanned /\ scanned[Place(scanned, G)] \in G
    BY <2>4, PlaceIs
  <2> QED
    BY <2>3, <2>5
<1>4. ASSUME NEW G \in groups, NEW H \in groups, place[G] = place[H]
      PROVE  G = H
  <2>1. scanned[place[G]] \in G /\ scanned[place[G]] \in H
    BY <1>3, <1>4
  <2>2. SamePosition(scanned[place[G]], scanned[place[G]])
    BY <1>2, <2>1
  <2>. HIDE DEF looked, place
  <2> QED
    BY <1>1, <2>1, <2>2, GroupsDiffer
<1>5. \A G \in groups : located[G] \in Nat
  OBVIOUS
<1>6. ASSUME NEW G \in groups
      PROVE  Rank(scanned, G) = <<located[G], company[G], title[G], place[G]>>
  BY DEF Rank
<1>7. \A G, H \in groups : <<G, H>> \in R
                            <=> Lexicographic(Rank(scanned, G), Rank(scanned, H))
  OBVIOUS
<1>8. \A G, H \in groups : HasLocation(H) /\ located[G] <= located[H] => HasLocation(G)
  OBVIOUS
<1>. HIDE DEF looked, groups, located, company, title, place, R
<1>9. ASSUME NEW G \in groups, NEW H \in groups
      PROVE  <<G, H>> \in R
               <=> \/ located[G] < located[H]
                   \/ /\ located[G] = located[H]
                      /\ \/ company[G] < company[H]
                         \/ /\ company[G] = company[H]
                            /\ \/ title[G] < title[H]
                               \/ title[G] = title[H] /\ place[G] < place[H]
  <2>. DEFINE x == Rank(scanned, G)
              y == Rank(scanned, H)
  <2>1. /\ DOMAIN x = 1 .. 4
        /\ x[1] = located[G] /\ x[2] = company[G] /\ x[3] = title[G] /\ x[4] = place[G]
        /\ y[1] = located[H] /\ y[2] = company[H] /\ y[3] = title[H] /\ y[4] = place[H]
    BY <1>6
  <2>2. <<G, H>> \in R <=> Lexicographic(x, y)
    BY <1>7
  <2>. HIDE DEF x, y
  <2>3. Lexicographic(x, y)
          <=> \/ x[1] < y[1]
              \/ /\ x[1] = y[1]
                 /\ \/ x[2] < y[2]
                    \/ /\ x[2] = y[2]
                       /\ x[3] < y[3] \/ (x[3] = y[3] /\ x[4] < y[4])
    BY <2>1, LexFour
  <2> QED
    BY <2>1, <2>2, <2>3
<1>10. \A G \in groups : <<G, G>> \notin R
  BY <1>3, <1>5, <1>9
<1>11. \A G, H \in groups : G # H => <<G, H>> \in R \/ <<H, G>> \in R
  BY <1>3, <1>4, <1>5, <1>9
<1>12. ASSUME NEW G \in groups, NEW H \in groups, NEW I \in groups,
              <<G, H>> \in R, <<H, I>> \in R
       PROVE  <<G, I>> \in R
  <2>1. /\ located[G] \in Nat /\ company[G] \in Nat /\ title[G] \in Nat /\ place[G] \in Nat
        /\ located[H] \in Nat /\ company[H] \in Nat /\ title[H] \in Nat /\ place[H] \in Nat
        /\ located[I] \in Nat /\ company[I] \in Nat /\ title[I] \in Nat /\ place[I] \in Nat
    BY <1>3, <1>5
  <2>2. located[G] <= located[H] /\ located[H] <= located[I]
    BY <1>9, <1>12, <2>1
  <2>3. CASE located[G] < located[I]
    BY <1>9, <2>1, <2>3
  <2>4. CASE located[G] = located[I]
    <3>1. located[G] = located[H] /\ located[H] = located[I]
      BY <2>1, <2>2, <2>4
    <3>2. company[G] <= company[H] /\ company[H] <= company[I]
      BY <1>9, <1>12, <2>1, <3>1, SMTT(60)
    <3>3. CASE company[G] < company[I]
      BY <1>9, <2>1, <2>4, <3>3
    <3>4. CASE company[G] = company[I]
      <4>1. company[G] = company[H] /\ company[H] = company[I]
        BY <2>1, <3>2, <3>4
      <4>2. title[G] <= title[H] /\ title[H] <= title[I]
        BY <1>9, <1>12, <2>1, <3>1, <4>1, SMTT(60)
      <4>3. CASE title[G] < title[I]
        BY <1>9, <2>1, <2>4, <3>4, <4>3
      <4>4. CASE title[G] = title[I]
        <5>1. title[G] = title[H] /\ title[H] = title[I]
          BY <2>1, <4>2, <4>4
        <5>2. place[G] < place[H] /\ place[H] < place[I]
          BY <1>9, <1>12, <2>1, <3>1, <4>1, <5>1
        <5>3. place[G] < place[I]
          BY <2>1, <5>2
        <5> QED
          BY <1>9, <2>4, <3>4, <4>4, <5>3
      <4> QED
        BY <2>1, <4>2, <4>3, <4>4
    <3> QED
      BY <2>1, <3>2, <3>3, <3>4
  <2> QED
    BY <2>1, <2>2, <2>3, <2>4
<1>13. \A G, H \in groups : <<G, H>> \in R /\ HasLocation(H) => HasLocation(G)
  BY <1>5, <1>8, <1>9
<1>14. StrictOrder(groups, R)
  BY <1>10, <1>11, <1>12 DEF StrictOrder
<1>. QED
  BY <1>13, <1>14 DEF groups, looked, R

(* Each group is listed once, and none without a location before one that  *)
(* has it.                                                                 *)
LEMMA BestFirstIs ==
    ASSUME TableOK, NEW scanned, NEW n \in Nat, DOMAIN scanned = 1 .. n,
           {scanned[k] : k \in DOMAIN scanned} \subseteq DOMAIN jobs
    PROVE  LET groups == Groups({scanned[k] : k \in DOMAIN scanned})
               best == BestFirst(scanned)
           IN  /\ Len(best) \in Nat
               /\ \A k \in 1 .. Len(best) : best[k] \in groups
               /\ \A k, l \in 1 .. Len(best) : k # l => best[k] # best[l]
               /\ \A k, l \in 1 .. Len(best) :
                     k < l /\ HasLocation(best[l]) => HasLocation(best[k])
               /\ \A G \in groups : \E k \in 1 .. Len(best) : best[k] = G
<1>. DEFINE looked == {scanned[k] : k \in DOMAIN scanned}
            groups == Groups(looked)
            R == {p \in groups \X groups :
                     Lexicographic(Rank(scanned, p[1]), Rank(scanned, p[2]))}
            best == Sorted(groups, R)
<1>1. BestFirst(scanned) = best
  BY DEF BestFirst
<1>2. /\ StrictOrder(groups, R)
      /\ \A G, H \in groups : <<G, H>> \in R /\ HasLocation(H) => HasLocation(G)
  BY RankOrder
<1>3. looked \in SUBSET DOMAIN jobs
  OBVIOUS
<1>. HIDE DEF looked
<1>4. IsFiniteSet(groups)
  BY <1>3, GroupsIs
<1>. HIDE DEF groups, R
<1>5. Cardinality(groups) \in Nat
  BY <1>4, FS_CardinalityType
<1>6. /\ best \in [1 .. Cardinality(groups) -> groups]
      /\ Len(best) = Cardinality(groups)
      /\ \A k, l \in 1 .. Cardinality(groups) : k < l => <<best[k], best[l]>> \in R
      /\ \A G \in groups : /\ Cardinality(Below(groups, R, G)) + 1 \in 1 .. Cardinality(groups)
                            /\ best[Cardinality(Below(groups, R, G)) + 1] = G
  BY <1>2, <1>4, SortedOrder
<1>. HIDE DEF best
<1>7. \A k \in 1 .. Len(best) : best[k] \in groups
  BY <1>6
<1>8. ASSUME NEW k \in 1 .. Len(best), NEW l \in 1 .. Len(best), k < l
      PROVE  best[k] # best[l] /\ (HasLocation(best[l]) => HasLocation(best[k]))
  <2>1. <<best[k], best[l]>> \in R /\ best[k] \in groups /\ best[l] \in groups
    BY <1>6, <1>7, <1>8
  <2> QED
    BY <1>2, <2>1 DEF StrictOrder
<1>9. ASSUME NEW k \in 1 .. Len(best), NEW l \in 1 .. Len(best), k # l
      PROVE  best[k] # best[l]
  <2>1. k < l \/ l < k
    BY <1>5, <1>6, <1>9
  <2> QED
    BY <1>8, <2>1
<1>10. \A G \in groups : \E k \in 1 .. Len(best) : best[k] = G
  BY <1>6
<1>. QED
  BY <1>1, <1>5, <1>6, <1>7, <1>8, <1>9, <1>10 DEF groups, looked

LEMMA CandidatesAre ==
    ASSUME TableOK, NEW active \in BOOLEAN, NEW scan \in Nat, NEW limit \in Nat
    PROVE  LET candidates == Candidates(active, scan, limit)
               rows == Reviewed(active)
           IN  /\ GroupsHoldDuplicates(candidates, rows)
               /\ Cardinality(rows) <= scan => DuplicatesAreGrouped(candidates, rows, limit)
<1>. DEFINE candidates == Candidates(active, scan, limit)
            rows == Reviewed(active)
            jobsOf(k) == JobsOf(candidates[k])
            scanned == Scanned(active, scan)
            looked == {scanned[k] : k \in DOMAIN scanned}
            groups == Groups(looked)
            best == BestFirst(scanned)
            taken == Taken(Len(best), 0, limit)
<1>1. PICK n \in Nat : DOMAIN scanned = 1 .. n
  BY ScannedIs
<1>2. /\ rows \subseteq DOMAIN jobs /\ looked \subseteq rows
      /\ Cardinality(rows) <= scan => looked = rows
  BY ScannedIs
<1>3. looked \in SUBSET DOMAIN jobs
  BY <1>2
<1>4. /\ Len(best) \in Nat
      /\ \A k \in 1 .. Len(best) : best[k] \in groups
      /\ \A k, l \in 1 .. Len(best) : k # l => best[k] # best[l]
      /\ \A k, l \in 1 .. Len(best) :
            k < l /\ HasLocation(best[l]) => HasLocation(best[k])
      /\ \A G \in groups : \E k \in 1 .. Len(best) : best[k] = G
  BY <1>1, <1>3, BestFirstIs
<1>5. /\ taken \in Nat /\ DOMAIN Cut(best, 0, limit) = 1 .. taken
      /\ taken <= Len(best)
      /\ taken < Len(best) => taken = limit
  <2>1. taken \in Nat /\ DOMAIN Cut(best, 0, limit) = 1 .. taken
    <3>. HIDE DEF best
    <3>1. Len(best) \in Nat /\ 0 \in Nat /\ limit \in Nat
      BY <1>4
    <3> QED
      BY <3>1, CutTakes
  <2>2. taken <= Len(best) /\ (taken < Len(best) => taken = limit)
    <3>. HIDE DEF best
    <3> QED
      BY <1>4 DEF Taken
  <2> QED
    BY <2>1, <2>2
<1>6. candidates = [k \in 1 .. taken |-> GroupJobs(best[k])]
  BY <1>5 DEF Candidates
<1>. HIDE DEF candidates, rows, scanned, looked, groups, best, taken
<1>7. DOMAIN candidates = 1 .. taken /\ Len(candidates) = taken
  BY <1>5, <1>6
<1>8. \A k \in 1 .. taken : k \in 1 .. Len(best)
  BY <1>4, <1>5
<1>9. \A G \in groups :
         /\ G \subseteq looked
         /\ \A i, j \in G : SamePosition(i, j)
         /\ \E i, j \in G : Duplicates(i, j)
  BY <1>3, GroupsIs DEF groups
<1>10. ASSUME NEW k \in 1 .. taken
       PROVE  jobsOf(k) = best[k] /\ best[k] \in groups
  <2>1. best[k] \in groups
    BY <1>4, <1>8
  <2>2. best[k] \in SUBSET DOMAIN jobs
    BY <1>3, <1>9, <2>1
  <2>3. candidates[k] = GroupJobs(best[k])
    BY <1>6
  <2>4. {GroupJobs(best[k])[m] : m \in DOMAIN GroupJobs(best[k])} = best[k]
    BY <2>2, GroupJobsIs
  <2> QED
    BY <2>1, <2>3, <2>4 DEF JobsOf
<1>. HIDE DEF jobsOf
<1>11. ASSUME NEW k \in DOMAIN candidates
       PROVE  /\ jobsOf(k) \subseteq rows
              /\ \A i, j \in jobsOf(k) : SamePosition(i, j)
              /\ \E i, j \in jobsOf(k) : Duplicates(i, j)
              /\ \A l \in DOMAIN candidates \ {k} :
                    \A i \in jobsOf(k), j \in jobsOf(l) : ~SamePosition(i, j)
  <2>1. jobsOf(k) = best[k] /\ best[k] \in groups
    BY <1>7, <1>10
  <2>2. ASSUME NEW l \in DOMAIN candidates \ {k}, NEW i \in jobsOf(k), NEW j \in jobsOf(l)
        PROVE  ~SamePosition(i, j)
    <3>1. jobsOf(l) = best[l] /\ best[l] \in groups
      BY <1>7, <1>10
    <3>2. best[k] # best[l]
      BY <1>4, <1>7, <1>8
    <3> QED
      BY <1>3, <2>1, <3>1, <3>2, GroupsDiffer DEF groups
  <2> QED
    BY <1>2, <1>9, <2>1, <2>2
<1>12. ASSUME Cardinality(rows) <= scan, NEW i \in rows, NEW j \in rows, Duplicates(i, j),
              \A k \in DOMAIN candidates : ~({i, j} \subseteq jobsOf(k))
       PROVE  /\ Len(candidates) = limit
              /\ HasLocation({i}) => \A k \in DOMAIN candidates : HasLocation(jobsOf(k))
  <2>1. PICK G \in groups : i \in G /\ j \in G
    BY <1>2, <1>3, <1>12, GroupsIs DEF groups
  <2>2. PICK m \in 1 .. Len(best) : best[m] = G
    BY <1>4
  <2>3. m \notin 1 .. taken
    BY <1>7, <1>10, <1>12, <2>1, <2>2
  <2>4. taken < m /\ taken < Len(best)
    BY <1>4, <1>5, <2>3
  <2>5. ASSUME HasLocation({i}), NEW k \in DOMAIN candidates
        PROVE  HasLocation(jobsOf(k))
    <3>1. \A l \in G : SamePosition(i, l)
      BY <1>9, <2>1
    <3>2. HasLocation(best[m])
      BY <2>2, <2>5, <3>1 DEF HasLocation, SamePosition
    <3>3. k < m /\ k \in 1 .. Len(best)
      BY <1>4, <1>5, <1>7, <1>8, <2>4
    <3>4. HasLocation(best[k])
      BY <1>4, <3>2, <3>3
    <3> QED
      BY <1>7, <1>10, <3>4
  <2> QED
    BY <1>5, <1>7, <2>4, <2>5
<1>13. ASSUME Cardinality(rows) <= scan, NEW i \in rows, NEW j \in rows, Duplicates(i, j)
       PROVE  \/ \E k \in DOMAIN candidates : {i, j} \subseteq jobsOf(k)
              \/ /\ Len(candidates) = limit
                 /\ HasLocation({i}) => \A k \in DOMAIN candidates : HasLocation(jobsOf(k))
  BY <1>12, <1>13
<1>14. GroupsHoldDuplicates(candidates, rows)
  BY <1>11 DEF GroupsHoldDuplicates, jobsOf
<1>15. Cardinality(rows) <= scan => DuplicatesAreGrouped(candidates, rows, limit)
  BY <1>13 DEF DuplicatesAreGrouped, jobsOf
<1>. QED
  BY <1>14, <1>15 DEF candidates, rows

(* Every candidate group is of one position, which several sources list,   *)
(* and no position has two.  Unless scanned_limit cuts, two duplicates are *)
(* in one group or limit is reached, which jobs with a location only miss  *)
(* when all groups have one: for any table, texts and limits.              *)
THEOREM CandidatesAreDuplicates == Spec => []CandidatesAreTheDuplicates
<1>1. ASSUME Inv PROVE CandidatesAreTheDuplicates
  <2>1. TableOK
    BY <1>1 DEF Inv, Typed, TableOK
  <2>2. Scans \subseteq Nat /\ Limits \subseteq Nat
    BY JobQueriesAssumption
  <2> QED
    BY <2>1, <2>2, CandidatesAre DEF CandidatesAreTheDuplicates
<1>2. Inv => CandidatesAreTheDuplicates
  BY <1>1
<1>. QED
  BY <1>2, Invariance, PTL
=============================================================================
