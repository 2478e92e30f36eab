---------------------------- MODULE QueryProofs ----------------------------
(***************************************************************************)
(* Theorems about SELECT (module Query): ORDER BY and pages, joins, and    *)
(* GROUP BY.                                                               *)
(***************************************************************************)
EXTENDS Query, DmlProofs, FiniteSetTheorems, SequenceTheorems

-----------------------------------------------------------------------------
(* Sorting *)

\* A set in which any two elements are ordered.
TotalOrder(S, less) ==
    /\ \A x \in S : <<x, x>> \notin less
    /\ \A x, y, z \in S : <<x, y>> \in less /\ <<y, z>> \in less => <<x, z>> \in less
    /\ \A x, y \in S : x # y => <<x, y>> \in less \/ <<y, x>> \in less

Rank(S, less, x) == 1 + Cardinality({y \in S : <<y, x>> \in less})

LEMMA RankType ==
  ASSUME NEW S, IsFiniteSet(S), NEW less, TotalOrder(S, less), NEW x \in S
  PROVE  Rank(S, less, x) \in 1..Cardinality(S)
<1> DEFINE Below == {y \in S : <<y, x>> \in less}
<1>1. Below \in SUBSET S /\ x \notin Below
  BY DEF TotalOrder
<1>2. IsFiniteSet(Below) /\ Cardinality(Below) <= Cardinality(S)
      /\ (Cardinality(S) = Cardinality(Below) => S = Below)
  BY <1>1, FS_Subset, Zenon
<1>3. Cardinality(Below) \in Nat /\ Cardinality(S) \in Nat
  BY <1>2, FS_CardinalityType
<1>4. Cardinality(S) # Cardinality(Below)
  BY <1>1, <1>2
<1>5. Rank(S, less, x) = 1 + Cardinality(Below)
  BY DEF Rank
<1> HIDE DEF Below
<1>6. QED
  BY <1>2, <1>3, <1>4, <1>5

LEMMA RankGrows ==
  ASSUME NEW S, IsFiniteSet(S), NEW less, TotalOrder(S, less),
         NEW x \in S, NEW y \in S, <<x, y>> \in less
  PROVE  Rank(S, less, x) < Rank(S, less, y)
<1> DEFINE Below(z) == {w \in S : <<w, z>> \in less}
<1>1. Below(y) \in SUBSET S
  OBVIOUS
<1>2. IsFiniteSet(Below(y))
  BY <1>1, FS_Subset, Zenon
<1>3. Below(x) \in SUBSET Below(y) /\ x \in Below(y) /\ x \notin Below(x)
  BY DEF TotalOrder
<1>4. Cardinality(Below(x)) <= Cardinality(Below(y)) /\ IsFiniteSet(Below(x))
      /\ (Cardinality(Below(y)) = Cardinality(Below(x)) => Below(y) = Below(x))
  BY <1>2, <1>3, FS_Subset, Zenon
<1>5. Cardinality(Below(x)) \in Nat /\ Cardinality(Below(y)) \in Nat
  BY <1>2, <1>4, FS_CardinalityType
<1>6. Cardinality(Below(x)) # Cardinality(Below(y))
  BY <1>3, <1>4
<1>7. /\ Rank(S, less, x) = 1 + Cardinality(Below(x))
      /\ Rank(S, less, y) = 1 + Cardinality(Below(y))
  BY DEF Rank
<1> HIDE DEF Below
<1>8. QED
  BY <1>4, <1>5, <1>6, <1>7

\* Every rank is that of one element.
LEMMA RankHasElement ==
  ASSUME NEW S, IsFiniteSet(S), NEW less, TotalOrder(S, less),
         NEW r \in 1..Cardinality(S)
  PROVE  \E x \in S : Rank(S, less, x) = r
<1> DEFINE n == Cardinality(S)
           f == [x \in S |-> Rank(S, less, x)]
<1>1. f \in [S -> 1..n]
  BY RankType
<1>2. \A x, y \in S : f[x] = f[y] => x = y
  <2> SUFFICES ASSUME NEW x \in S, NEW y \in S, x # y PROVE f[x] # f[y]
    OBVIOUS
  <2>1. <<x, y>> \in less \/ <<y, x>> \in less
    BY DEF TotalOrder
  <2>2. f[x] < f[y] \/ f[y] < f[x]
    BY <2>1, RankGrows
  <2>3. f[x] \in Int /\ f[y] \in Int
    BY <1>1
  <2>4. QED
    BY <2>2, <2>3
<1>3. n \in Nat
  BY FS_CardinalityType
<1>4. IsFiniteSet(1..n) /\ Cardinality(1..n) = n
  BY <1>3, FS_Interval
<1> HIDE DEF f
<1>5. f \in Injection(S, 1..n)
  BY <1>1, <1>2 DEF Injection, IsInjective
<1>6. f \in Surjection(S, 1..n)
  BY <1>4, <1>5, FS_Injection
<1>7. \E x \in S : f[x] = r
  BY <1>6 DEF Surjection
<1>8. QED
  BY <1>7 DEF f

\* The elements of a finite set, each once and in order.
LEMMA SortedIsOrdered ==
  ASSUME NEW S, IsFiniteSet(S), NEW less, TotalOrder(S, less)
  PROVE  /\ Cardinality(S) \in Nat
         /\ Sorted(S, less) \in [1..Cardinality(S) -> S]
         /\ \A i, j \in 1..Cardinality(S) :
              i < j => <<Sorted(S, less)[i], Sorted(S, less)[j]>> \in less
         /\ \A x \in S : \E i \in 1..Cardinality(S) : Sorted(S, less)[i] = x
<1> DEFINE n == Cardinality(S)
           Of(r) == CHOOSE x \in S : Rank(S, less, x) = r
<1>1. \A r \in 1..n : Of(r) \in S /\ Rank(S, less, Of(r)) = r
  BY RankHasElement
<1>2. Sorted(S, less) = [r \in 1..n |-> Of(r)]
  BY DEF Sorted, Rank
<1> HIDE DEF Of
<1>3. ASSUME NEW i \in 1..n, NEW j \in 1..n, i < j
      PROVE  <<Of(i), Of(j)>> \in less
  <2>1. Of(i) # Of(j)
    BY <1>1, <1>3
  <2>2. <<Of(j), Of(i)>> \notin less
    <3>1. SUFFICES ASSUME <<Of(j), Of(i)>> \in less PROVE FALSE
      OBVIOUS
    <3>2. Rank(S, less, Of(j)) < Rank(S, less, Of(i))
      BY <1>1, <3>1, RankGrows
    <3>3. QED
      BY <1>1, <1>3, <3>2
  <2>3. QED
    BY <1>1, <2>1, <2>2 DEF TotalOrder
<1>4. ASSUME NEW x \in S
      PROVE  \E i \in 1..n : Of(i) = x
  <2> DEFINE r == Rank(S, less, x)
  <2>1. r \in 1..n
    BY RankType
  <2>2. Of(r) \in S /\ Rank(S, less, Of(r)) = r
    BY <1>1, <2>1
  <2>3. r < r \/ Of(r) = x
    BY <2>2, RankGrows DEF TotalOrder
  <2>4. QED
    BY <2>1, <2>3
<1>5. n \in Nat
  BY FS_CardinalityType
<1>6. QED
  BY <1>1, <1>2, <1>3, <1>4, <1>5

\* An order in which elements may be equal.
WeakOrder(S, less) ==
    /\ \A x, y \in S : <<x, y>> \in less => <<y, x>> \notin less
    /\ \A x, y, z \in S : <<x, y>> \in less => <<x, z>> \in less \/ <<z, y>> \in less

\* The places of a sequence are in a total order when it is sorted.
LEMMA BeforeIsTotal ==
  ASSUME NEW S, NEW s \in Seq(S), NEW less, WeakOrder(S, less)
  PROVE  TotalOrder(DOMAIN s, {x \in (DOMAIN s) \X (DOMAIN s) : Before(s, less, x[1], x[2])})
<1> DEFINE D == DOMAIN s
           B == {x \in D \X D : Before(s, less, x[1], x[2])}
<1>1. D \subseteq Int /\ \A i \in D : s[i] \in S
  OBVIOUS
<1>2. \A i, j \in D : <<i, j>> \in B <=> Before(s, less, i, j)
  OBVIOUS
<1> HIDE DEF D, B
<1>3. ASSUME NEW i \in D PROVE <<i, i>> \notin B
  <2>1. s[i] \in S /\ i \in Int
    BY <1>1
  <2>2. ~Before(s, less, i, i)
    BY <2>1 DEF Before, WeakOrder
  <2>3. QED
    BY <1>2, <2>2
<1>4. ASSUME NEW i \in D, NEW j \in D, NEW k \in D, <<i, j>> \in B, <<j, k>> \in B
      PROVE  <<i, k>> \in B
  <2>1. Before(s, less, i, j) /\ Before(s, less, j, k)
    BY <1>2, <1>4
  <2>2. s[i] \in S /\ s[j] \in S /\ s[k] \in S /\ i \in Int /\ j \in Int /\ k \in Int
    BY <1>1
  <2>3. Before(s, less, i, k)
    BY <2>1, <2>2 DEF Before, WeakOrder
  <2>4. QED
    BY <1>2, <2>3
<1>5. ASSUME NEW i \in D, NEW j \in D, i # j
      PROVE  <<i, j>> \in B \/ <<j, i>> \in B
  <2>1. i \in Int /\ j \in Int
    BY <1>1
  <2>2. Before(s, less, i, j) \/ Before(s, less, j, i)
    BY <1>5, <2>1 DEF Before
  <2>3. QED
    BY <1>2, <2>2
<1>6. QED
  BY <1>3, <1>4, <1>5 DEF TotalOrder, D, B

\* f gives the elements of s in the order in which r has them.
Moves(f, s, less, r) ==
    /\ f \in [1..Len(s) -> 1..Len(s)]
    /\ r = [i \in 1..Len(s) |-> s[f[i]]]
    /\ \A i, j \in 1..Len(s) : i < j => Before(s, less, f[i], f[j])
    /\ \A k \in 1..Len(s) : \E i \in 1..Len(s) : f[i] = k

\* What list.sort() does: it moves the elements, and keeps those in place that are
\* not ordered.
LEMMA StableSortMoves ==
  ASSUME NEW S, NEW s \in Seq(S), NEW less, WeakOrder(S, less)
  PROVE  \E f : Moves(f, s, less, StableSort(s, less))
<1> DEFINE D == DOMAIN s
           B == {x \in D \X D : Before(s, less, x[1], x[2])}
           f == Sorted(D, B)
<1>1. D = 1..Len(s) /\ Len(s) \in Nat
  OBVIOUS
<1>2. IsFiniteSet(D) /\ Cardinality(D) = Len(s)
  BY <1>1, FS_Interval
<1>3. TotalOrder(D, B)
  BY BeforeIsTotal
<1>4. StableSort(s, less) = [i \in D |-> s[f[i]]]
  BY DEF StableSort
<1>5. \A i, j \in D : <<i, j>> \in B => Before(s, less, i, j)
  OBVIOUS
<1> HIDE DEF D, B
<1>6. /\ f \in [1..Len(s) -> D]
      /\ \A i, j \in 1..Len(s) : i < j => <<f[i], f[j]>> \in B
      /\ \A x \in D : \E i \in 1..Len(s) : f[i] = x
  BY <1>2, <1>3, SortedIsOrdered
<1> HIDE DEF f
<1>7. QED
  BY <1>1, <1>4, <1>5, <1>6 DEF Moves

\* A sequence that has every element of S once.
Once(s, S) == s \in Seq(S) /\ IsInjective(s) /\ ToSet(s) = S

LEMMA StableSortKeeps ==
  ASSUME NEW S, NEW s, Once(s, S), NEW less, WeakOrder(S, less)
  PROVE  /\ Once(StableSort(s, less), S)
         /\ Len(StableSort(s, less)) = Len(s)
         /\ \A i, j \in 1..Len(s) : i < j =>
              \E k, l \in 1..Len(s) :
                /\ StableSort(s, less)[i] = s[k] /\ StableSort(s, less)[j] = s[l]
                /\ Before(s, less, k, l)
<1> DEFINE r == StableSort(s, less)
<1>1. s \in Seq(S) /\ Len(s) \in Nat /\ DOMAIN s = 1..Len(s)
      /\ \A i \in 1..Len(s) : s[i] \in S
  BY DEF Once
<1>0. PICK f : Moves(f, s, less, r)
  BY <1>1, StableSortMoves
<1>2. /\ f \in [1..Len(s) -> 1..Len(s)]
      /\ r = [i \in 1..Len(s) |-> s[f[i]]]
      /\ \A i, j \in 1..Len(s) : i < j => Before(s, less, f[i], f[j])
      /\ \A k \in 1..Len(s) : \E i \in 1..Len(s) : f[i] = k
  BY <1>0 DEF Moves
<1> HIDE DEF r
<1>3. r \in Seq(S) /\ Len(r) = Len(s) /\ DOMAIN r = 1..Len(s)
  <2>1. Len(s) \in Nat /\ r = [i \in 1..Len(s) |-> s[f[i]]]
    BY <1>1, <1>2
  <2>2. \A i \in 1..Len(s) : s[f[i]] \in S
    BY <1>1, <1>2
  <2>3. r \in [1..Len(s) -> S]
    BY <2>1, <2>2
  <2>4. QED
    BY <2>1, <2>3
<1>4. ASSUME NEW k \in 1..Len(s) PROVE ~Before(s, less, k, k)
  BY <1>1 DEF Before, WeakOrder
<1>5. ASSUME NEW i \in 1..Len(s), NEW j \in 1..Len(s), f[i] = f[j]
      PROVE  i = j
  <2>1. f[i] \in 1..Len(s)
    BY <1>2
  <2>2. ~(i < j) /\ ~(j < i)
    BY <1>2, <1>4, <1>5, <2>1
  <2>3. QED
    BY <1>1, <2>2
<1>6. ASSUME NEW i \in 1..Len(s), NEW j \in 1..Len(s), r[i] = r[j]
      PROVE  i = j
  <2>1. f[i] \in 1..Len(s) /\ f[j] \in 1..Len(s) /\ s[f[i]] = s[f[j]]
    BY <1>2, <1>6
  <2>2. \A a, b \in DOMAIN s : s[a] = s[b] => a = b
    BY DEF Once, IsInjective
  <2>3. f[i] = f[j]
    BY <1>1, <2>1, <2>2
  <2>4. QED
    BY <1>5, <2>3
<1>7. ToSet(r) = S
  <2>1. \A i \in 1..Len(s) : r[i] \in S
    BY <1>1, <1>2
  <2>2. ASSUME NEW x \in S PROVE \E i \in 1..Len(s) : r[i] = x
    <3>1. PICK k \in 1..Len(s) : s[k] = x
      BY <1>1 DEF Once, ToSet
    <3>2. QED
      BY <1>2, <3>1
  <2>3. QED
    BY <1>3, <2>1, <2>2 DEF ToSet
<1>8. \A i, j \in 1..Len(s) : i < j =>
              \E k, l \in 1..Len(s) :
                r[i] = s[k] /\ r[j] = s[l] /\ Before(s, less, k, l)
  BY <1>2
<1>9. IsInjective(r)
  BY <1>3, <1>6 DEF IsInjective
<1>10. QED
  BY <1>3, <1>7, <1>8, <1>9 DEF Once, r

-----------------------------------------------------------------------------
(* ORDER BY *)

OrderTerm == [column : Columns, descending : BOOLEAN]

\* NULL is the largest value.
LEMMA KeyLessIsWeak ==
  ASSUME NEW a \in Int \cup {NULL}, NEW b \in Int \cup {NULL}, NEW c \in Int \cup {NULL}
  PROVE  /\ KeyLess(a, b) => ~KeyLess(b, a) /\ a # b
         /\ KeyLess(a, b) => KeyLess(a, c) \/ KeyLess(c, b)
BY NullAssumption DEF KeyLess

LEMMA PrecedesIsWeak ==
  ASSUME NEW S, \A p \in S : pages[p] \in TableRow, NEW o \in OrderTerm
  PROVE  /\ \A p, q \in S : Precedes(p, q, o) =>
              ~Precedes(q, p, o) /\ pages[p][o.column] # pages[q][o.column]
         /\ \A p, q, r \in S : Precedes(p, q, o) => Precedes(p, r, o) \/ Precedes(r, q, o)
<1> DEFINE V(p) == pages[p][o.column]
<1>1. \A p \in S : V(p) \in Int \cup {NULL}
  BY DEF TableRow, OrderTerm
<1>2. \A p, q : Precedes(p, q, o) <=> IF o.descending THEN KeyLess(V(q), V(p))
                                                     ELSE KeyLess(V(p), V(q))
  BY DEF Precedes
<1> HIDE DEF V
<1>3. ASSUME NEW p \in S, NEW q \in S, NEW r \in S
      PROVE  /\ KeyLess(V(p), V(q)) => ~KeyLess(V(q), V(p)) /\ V(p) # V(q)
             /\ KeyLess(V(p), V(q)) => KeyLess(V(p), V(r)) \/ KeyLess(V(r), V(q))
  BY <1>1, KeyLessIsWeak
<1>4. \A p, q \in S : Precedes(p, q, o) => ~Precedes(q, p, o) /\ V(p) # V(q)
  BY <1>2, <1>3
<1>5. \A p, q, r \in S : Precedes(p, q, o) => Precedes(p, r, o) \/ Precedes(r, q, o)
  BY <1>2, <1>3
<1>6. QED
  BY <1>4, <1>5 DEF V

LEMMA SortByKeeps ==
  ASSUME NEW S, \A p \in S : pages[p] \in TableRow, NEW o \in OrderTerm,
         NEW rows, Once(rows, S)
  PROVE  /\ Once(SortBy(rows, o), S)
         /\ Len(SortBy(rows, o)) = Len(rows)
         /\ \A i, j \in 1..Len(rows) : i < j =>
              \E k, l \in 1..Len(rows) :
                /\ SortBy(rows, o)[i] = rows[k] /\ SortBy(rows, o)[j] = rows[l]
                /\ \/ Precedes(rows[k], rows[l], o)
                   \/ k < l /\ ~Precedes(rows[l], rows[k], o)
<1> DEFINE Less == {x \in S \X S : Precedes(x[1], x[2], o)}
<1>1. SortBy(rows, o) = StableSort(rows, Less)
  BY DEF SortBy, Once
<1>2. WeakOrder(S, Less)
  <2>1. \A p, q \in S : <<p, q>> \in Less <=> Precedes(p, q, o)
    OBVIOUS
  <2> HIDE DEF Less
  <2>2. QED
    BY <2>1, PrecedesIsWeak DEF WeakOrder
<1>3. \A k \in 1..Len(rows) : rows[k] \in S
  BY DEF Once
<1>4. \A k, l \in 1..Len(rows) :
          <<rows[k], rows[l]>> \in Less <=> Precedes(rows[k], rows[l], o)
  BY <1>3
<1> HIDE DEF Less
<1>5. /\ Once(StableSort(rows, Less), S)
      /\ Len(StableSort(rows, Less)) = Len(rows)
      /\ \A i, j \in 1..Len(rows) : i < j =>
           \E k, l \in 1..Len(rows) :
             /\ StableSort(rows, Less)[i] = rows[k] /\ StableSort(rows, Less)[j] = rows[l]
             /\ Before(rows, Less, k, l)
  BY <1>2, StableSortKeeps
<1>6. ASSUME NEW k \in 1..Len(rows), NEW l \in 1..Len(rows), Before(rows, Less, k, l)
      PROVE  \/ Precedes(rows[k], rows[l], o)
             \/ k < l /\ ~Precedes(rows[l], rows[k], o)
  BY <1>4, <1>6 DEF Before
<1>7. ASSUME NEW i \in 1..Len(rows), NEW j \in 1..Len(rows), i < j
      PROVE  \E k, l \in 1..Len(rows) :
               /\ SortBy(rows, o)[i] = rows[k] /\ SortBy(rows, o)[j] = rows[l]
               /\ \/ Precedes(rows[k], rows[l], o)
                  \/ k < l /\ ~Precedes(rows[l], rows[k], o)
  <2>1. PICK k \in 1..Len(rows), l \in 1..Len(rows) :
             /\ StableSort(rows, Less)[i] = rows[k] /\ StableSort(rows, Less)[j] = rows[l]
             /\ Before(rows, Less, k, l)
    BY <1>5, <1>7
  <2>2. QED
    BY <1>1, <1>6, <2>1
<1>8. QED
  BY <1>1, <1>5, <1>7

\* Whether p comes before q in the order of the terms of os from the m-th on.
PrecedeFrom(p, q, os, m) == \E i \in m..Len(os) :
    /\ Precedes(p, q, os[i])
    /\ \A k \in m..(i - 1) : pages[p][os[k].column] = pages[q][os[k].column]

\* No row comes before one that it is behind.
InOrderFrom(rows, os, m) ==
    \A i, k \in 1..Len(rows) : i < k => ~PrecedeFrom(rows[k], rows[i], os, m)

\* One more column, which is then the most important one.
LEMMA OnePass ==
  ASSUME NEW S, \A p \in S : pages[p] \in TableRow,
         NEW os \in Seq(OrderTerm), NEW m \in 1..Len(os),
         NEW rows, Once(rows, S), InOrderFrom(rows, os, m + 1)
  PROVE  /\ Once(SortBy(rows, os[m]), S)
         /\ InOrderFrom(SortBy(rows, os[m]), os, m)
<1> DEFINE o == os[m]
           new == SortBy(rows, o)
<1>1. o \in OrderTerm
  OBVIOUS
<1>2. /\ Once(new, S)
      /\ Len(new) = Len(rows)
      /\ \A i, j \in 1..Len(rows) : i < j =>
           \E k, l \in 1..Len(rows) :
             /\ new[i] = rows[k] /\ new[j] = rows[l]
             /\ \/ Precedes(rows[k], rows[l], o)
                \/ k < l /\ ~Precedes(rows[l], rows[k], o)
  BY <1>1, SortByKeeps
<1>3. \A k \in 1..Len(rows) : rows[k] \in S
  BY DEF Once
<1> HIDE DEF new
<1>5. ASSUME NEW i \in 1..Len(rows), NEW j \in 1..Len(rows), i < j,
             PrecedeFrom(new[j], new[i], os, m)
      PROVE  FALSE
  <2>1. PICK k \in 1..Len(rows), l \in 1..Len(rows) :
             /\ new[i] = rows[k] /\ new[j] = rows[l]
             /\ \/ Precedes(rows[k], rows[l], o)
                \/ k < l /\ ~Precedes(rows[l], rows[k], o)
    BY <1>2, <1>5
  <2> DEFINE p == rows[k]
             q == rows[l]
  <2>2. PICK e \in m..Len(os) :
             /\ Precedes(q, p, os[e])
             /\ \A x \in m..(e - 1) : pages[q][os[x].column] = pages[p][os[x].column]
    BY <1>5, <2>1 DEF PrecedeFrom
  <2>3. p \in S /\ q \in S
    BY <1>3
  <2>4. CASE Precedes(p, q, o)
    <3>1. ~Precedes(q, p, o) /\ pages[p][o.column] # pages[q][o.column]
      BY <1>1, <2>3, <2>4, PrecedesIsWeak
    <3>2. e # m
      BY <2>2, <3>1
    <3>3. pages[q][o.column] = pages[p][o.column]
      BY <2>2, <3>2
    <3>4. QED
      BY <3>1, <3>3
  <2>5. CASE k < l /\ ~Precedes(q, p, o)
    <3>1. ~PrecedeFrom(q, p, os, m + 1)
      BY <2>5 DEF InOrderFrom
    <3>2. e # m
      BY <2>2, <2>5
    <3>3. e \in (m + 1)..Len(os) /\ \A x \in (m + 1)..(e - 1) : x \in m..(e - 1)
      BY <2>2, <3>2
    <3>4. QED
      BY <2>2, <3>1, <3>3 DEF PrecedeFrom
  <2>6. QED
    BY <2>1, <2>4, <2>5
<1>6. InOrderFrom(new, os, m)
  BY <1>2, <1>5 DEF InOrderFrom
<1>7. QED
  BY <1>2, <1>6 DEF new

\* Induction, for a set in place of a statement.
LEMMA InductionUpTo ==
  ASSUME NEW n \in Nat, NEW T, 0 \in T, \A m \in 0..(n - 1) : m \in T => m + 1 \in T
  PROVE  \A k \in 0..n : k \in T
<1> DEFINE Missing == {k \in 0..n : k \notin T}
<1>1. SUFFICES ASSUME Missing # {} PROVE FALSE
  OBVIOUS
<1>2. Missing \subseteq Nat
  OBVIOUS
<1>3. PICK k \in Missing : \A l \in Missing : k <= l
  BY <1>1, <1>2, LeastNumber
<1>4. k # 0 /\ k \in 0..n
  BY <1>3
<1>5. k - 1 \in 0..(n - 1) /\ k - 1 \in 0..n /\ (k - 1) + 1 = k
  BY <1>4
<1>6. k - 1 \notin Missing
  BY <1>3, <1>5
<1>7. k - 1 \in T
  BY <1>5, <1>6
<1>8. QED
  BY <1>3, <1>5, <1>7

\* The sorts that ORDER BY makes: the one after k of them.
Passes(rows, os, f) ==
    f = [k \in 0..Len(os) |-> IF k = 0 THEN rows ELSE SortBy(f[k - 1], os[Len(os) + 1 - k])]

LEMMA PassesExist ==
  ASSUME NEW rows, NEW os \in Seq(OrderTerm)
  PROVE  \E f : Passes(rows, os, f)
<1> DEFINE n == Len(os)
           Pass(k, s) == SortBy(s, os[n + 1 - k])
           First(m, f) == f = [k \in 0..m |-> IF k = 0 THEN rows ELSE Pass(k, f[k - 1])]
           T == {m \in 0..n : \E f : First(m, f)}
<1>1. n \in Nat
  OBVIOUS
<1> HIDE DEF n, Pass
<1>2. 0 \in T
  <2>1. First(0, [k \in 0..0 |-> rows])
    OBVIOUS
  <2> HIDE DEF First
  <2>2. QED
    BY <1>1, <2>1
<1>3. ASSUME NEW m \in 0..(n - 1), m \in T
      PROVE  m + 1 \in T
  <2>1. PICK f : First(m, f)
    BY <1>3
  <2> DEFINE g == [k \in 0..(m + 1) |-> IF k <= m THEN f[k] ELSE Pass(m + 1, f[m])]
  <2>2. ASSUME NEW k \in 0..(m + 1)
        PROVE  g[k] = IF k = 0 THEN rows ELSE Pass(k, g[k - 1])
    <3>1. m \in Nat /\ k \in Nat
      BY <1>1
    <3>2. CASE k <= m
      <4>1. f[k] = IF k = 0 THEN rows ELSE Pass(k, f[k - 1])
        BY <2>1, <3>1, <3>2
      <4>2. k # 0 => g[k - 1] = f[k - 1]
        BY <3>1, <3>2
      <4>3. QED
        BY <3>1, <3>2, <4>1, <4>2
    <3>3. CASE k = m + 1
      BY <3>1, <3>3
    <3>4. QED
      BY <3>1, <3>2, <3>3
  <2> HIDE DEF First
  <2>3. g = [k \in 0..(m + 1) |-> IF k = 0 THEN rows ELSE Pass(k, g[k - 1])]
    BY <2>2
  <2>4. First(m + 1, g)
    BY <2>3 DEF First
  <2>5. m + 1 \in 0..n
    BY <1>1
  <2>6. QED
    BY <2>4, <2>5
<1> HIDE DEF First
<1>4. n \in T
  <2> HIDE DEF T
  <2>1. \A k \in 0..n : k \in T
    BY <1>1, <1>2, <1>3, InductionUpTo
  <2>2. QED
    BY <1>1, <2>1
<1>5. PICK f : First(n, f)
  BY <1>4
<1>6. Passes(rows, os, f)
  BY <1>5 DEF First, Pass, n, Passes
<1>7. QED
  BY <1>6

\* ORDER BY is lexicographic, and keeps every row.
LEMMA ApplyOrderingOrders ==
  ASSUME NEW S, \A p \in S : pages[p] \in TableRow,
         NEW os \in Seq(OrderTerm), NEW rows, Once(rows, S)
  PROVE  /\ Once(ApplyOrdering(rows, os), S)
         /\ InOrderFrom(ApplyOrdering(rows, os), os, 1)
<1> DEFINE n == Len(os)
           f == CHOOSE g : Passes(rows, os, g)
           T == {k \in 0..n : Once(f[k], S) /\ InOrderFrom(f[k], os, n + 1 - k)}
<1>1. n \in Nat
  OBVIOUS
<1>2. Passes(rows, os, f)
  BY PassesExist
<1>3. ApplyOrdering(rows, os) = f[n]
  BY DEF ApplyOrdering, Passes
<1> HIDE DEF f
<1>4. /\ f[0] = rows
      /\ \A k \in 1..n : f[k] = SortBy(f[k - 1], os[n + 1 - k])
  <2>1. \A k \in 0..n : f[k] = IF k = 0 THEN rows ELSE SortBy(f[k - 1], os[n + 1 - k])
    BY <1>2 DEF Passes
  <2>2. QED
    BY <1>1, <2>1
<1> HIDE DEF n
<1>5. 0 \in T
  <2>1. InOrderFrom(rows, os, n + 1)
    BY <1>1 DEF InOrderFrom, PrecedeFrom, n
  <2>2. QED
    BY <1>1, <1>4, <2>1
<1>6. ASSUME NEW k \in 0..(n - 1), k \in T
      PROVE  k + 1 \in T
  <2> DEFINE m == n - k
  <2>1. m \in 1..n /\ n + 1 - k = m + 1 /\ n + 1 - (k + 1) = m /\ k + 1 \in 1..n
        /\ (k + 1) - 1 = k /\ k + 1 \in 0..n
    BY <1>1
  <2>2. f[k + 1] = SortBy(f[k], os[m])
    BY <1>4, <2>1
  <2>3. Once(f[k], S) /\ InOrderFrom(f[k], os, m + 1)
    BY <1>6, <2>1
  <2> HIDE DEF m
  <2>4. Once(f[k + 1], S) /\ InOrderFrom(f[k + 1], os, m)
    BY <2>1, <2>2, <2>3, OnePass DEF n
  <2>5. QED
    BY <2>1, <2>4
<1>7. n \in T
  <2> HIDE DEF T
  <2>1. \A k \in 0..n : k \in T
    BY <1>1, <1>5, <1>6, InductionUpTo
  <2>2. QED
    BY <1>1, <2>1
<1>8. n + 1 - n = 1
  BY <1>1
<1>9. QED
  BY <1>3, <1>7, <1>8

-----------------------------------------------------------------------------
(* The rows of a plan, and pages of them *)

\* What is sorted has every element once.
LEMMA SortedOnce ==
  ASSUME NEW S, IsFiniteSet(S), NEW less, TotalOrder(S, less)
  PROVE  Once(Sorted(S, less), S)
<1> DEFINE s == Sorted(S, less)
           n == Cardinality(S)
<1>1. /\ n \in Nat
      /\ s \in [1..n -> S]
      /\ \A i, j \in 1..n : i < j => <<s[i], s[j]>> \in less
      /\ \A x \in S : \E i \in 1..n : s[i] = x
  BY SortedIsOrdered
<1> HIDE DEF s, n
<1>2. ASSUME NEW i \in 1..n, NEW j \in 1..n, s[i] = s[j]
      PROVE  i = j
  <2>1. s[i] \in S
    BY <1>1
  <2>2. ~(i < j) /\ ~(j < i)
    BY <1>1, <1>2, <2>1 DEF TotalOrder
  <2>3. QED
    BY <1>1, <2>2
<1>3. s \in Seq(S) /\ DOMAIN s = 1..n
  BY <1>1
<1>4. IsInjective(s)
  BY <1>2, <1>3 DEF IsInjective
<1>5. ToSet(s) = S
  BY <1>1, <1>3 DEF ToSet
<1>6. QED
  BY <1>3, <1>4, <1>5 DEF Once, s

LEMMA InOrderOnce ==
  ASSUME NEW S, IsFiniteSet(S), S \subseteq Nat
  PROVE  Once(InOrder(S), S)
<1> DEFINE Less == {x \in S \X S : x[1] < x[2]}
<1>1. \A x, y \in S : <<x, y>> \in Less <=> x < y
  OBVIOUS
<1>2. InOrder(S) = Sorted(S, Less)
  BY DEF InOrder
<1> HIDE DEF Less
<1>3. TotalOrder(S, Less)
  BY <1>1 DEF TotalOrder
<1>4. QED
  BY <1>2, <1>3, SortedOnce

\* A plan gives the rows that it finds, in some order.
LEMMA MatchingRowsOnce ==
  ASSUME StoreInv, NEW t \in Tables, NEW w \in Wheres
  PROVE  /\ Once(MatchingRows(t, w), Matching(t, w))
         /\ \A p \in Matching(t, w) : pages[p] \in TableRow
<1> DEFINE S == Matching(t, w)
<1>1. TablesOK(schema, pages, records)
  BY DEF StoreInv, StoreOK
<1>2. S \subseteq records[t]
  BY DEF Matching, Fetched
<1>3. Len(pages) \in Nat /\ records[t] \subseteq 1..Len(pages)
  BY <1>1 DEF TablesOK
<1>4. IsFiniteSet(1..Len(pages))
  BY <1>3, FS_Interval
<1>5. IsFiniteSet(S)
  BY <1>2, <1>3, <1>4, FS_Subset
<1>6. \A p \in S : pages[p] \in TableRow
  BY <1>1, <1>2, LiveRow
<1>7. S \subseteq Nat
  BY <1>2, <1>3
<1>8. Once(InOrder(S), S)
  BY <1>5, <1>7, InOrderOnce
<1>9. ASSUME Candidates(schema[t], w) # {}
      PROVE  Once(SortBy(InOrder(S), [column |-> Lookup(schema[t], w).column,
                                      descending |-> FALSE]), S)
  <2>1. Lookup(schema[t], w).column \in Columns
    <3>1. PICK i \in Candidates(schema[t], w) :
                 Lookup(schema[t], w) = LookupOf(w[i][1])
      BY <1>9, LookupIsCandidate
    <3>2. LookupOf(w[i][1]).column \in Indexed(schema[t])
      BY DEF Candidates
    <3>3. QED
      BY <3>1, <3>2 DEF Indexed
  <2>2. [column |-> Lookup(schema[t], w).column, descending |-> FALSE] \in OrderTerm
    BY <2>1 DEF OrderTerm
  <2>3. QED
    BY <1>6, <1>8, <2>2, SortByKeeps
<1>10. QED
  BY <1>6, <1>8, <1>9 DEF MatchingRows

\* The rows on a page.
LEMMA PageRows ==
  ASSUME NEW S, NEW rows \in Seq(S), NEW a \in Nat, NEW b \in Nat
  PROVE  /\ ApplyOffsetLimit(rows, a, b) \in Seq(S)
         /\ Len(ApplyOffsetLimit(rows, a, b)) =
              IF Len(rows) <= a THEN 0 ELSE IF a + b < Len(rows) THEN b ELSE Len(rows) - a
         /\ \A i \in 1..Len(ApplyOffsetLimit(rows, a, b)) :
              ApplyOffsetLimit(rows, a, b)[i] = rows[a + i]
<1> DEFINE last == IF a + b < Len(rows) THEN a + b ELSE Len(rows)
<1>1. Len(rows) \in Nat /\ last \in Nat /\ last <= Len(rows)
  OBVIOUS
<1>2. ApplyOffsetLimit(rows, a, b) = SubSeq(rows, a + 1, last)
  BY DEF ApplyOffsetLimit
<1>3. \A i \in (a + 1)..last : rows[i] \in S
  BY <1>1
<1>4. a + 1 \in Int /\ last \in Int
  BY <1>1
<1> HIDE DEF last
<1>5. /\ SubSeq(rows, a + 1, last) \in Seq(S)
      /\ Len(SubSeq(rows, a + 1, last)) = IF a + 1 <= last THEN last - (a + 1) + 1 ELSE 0
      /\ \A i \in 1..(last - (a + 1) + 1) :
           SubSeq(rows, a + 1, last)[i] = rows[a + 1 + i - 1]
  BY <1>3, <1>4, SubSeqProperties
<1>6. Len(SubSeq(rows, a + 1, last)) =
        IF Len(rows) <= a THEN 0 ELSE IF a + b < Len(rows) THEN b ELSE Len(rows) - a
  BY <1>1, <1>5 DEF last
<1>7. ASSUME NEW i \in 1..Len(SubSeq(rows, a + 1, last))
      PROVE  SubSeq(rows, a + 1, last)[i] = rows[a + i]
  <2>1. i \in 1..(last - (a + 1) + 1) /\ a + 1 + i - 1 = a + i
    BY <1>1, <1>5
  <2>2. QED
    BY <1>5, <2>1
<1>8. QED
  BY <1>2, <1>5, <1>6, <1>7

\* LIMIT and OFFSET cut rows into parts that lie side by side.
LEMMA PagesAreAdjacent ==
  ASSUME NEW S, NEW rows \in Seq(S), NEW n \in Nat, NEW m \in Nat
  PROVE  ApplyOffsetLimit(rows, 0, n) \o ApplyOffsetLimit(rows, n, m)
           = ApplyOffsetLimit(rows, 0, n + m)
<1> DEFINE p == ApplyOffsetLimit(rows, 0, n)
           q == ApplyOffsetLimit(rows, n, m)
           r == ApplyOffsetLimit(rows, 0, n + m)
<1>1. Len(rows) \in Nat /\ 0 \in Nat /\ n + m \in Nat
  OBVIOUS
<1>2. /\ p \in Seq(S)
      /\ Len(p) = IF n < Len(rows) THEN n ELSE Len(rows)
      /\ \A i \in 1..Len(p) : p[i] = rows[0 + i]
  <2>1. /\ p \in Seq(S)
        /\ Len(p) =
             IF Len(rows) <= 0 THEN 0 ELSE IF 0 + n < Len(rows) THEN n ELSE Len(rows) - 0
        /\ \A i \in 1..Len(p) : p[i] = rows[0 + i]
    BY <1>1, PageRows, Zenon
  <2> HIDE DEF p
  <2>2. QED
    BY <1>1, <2>1
<1>3. /\ q \in Seq(S)
      /\ Len(q) =
           IF Len(rows) <= n THEN 0 ELSE IF n + m < Len(rows) THEN m ELSE Len(rows) - n
      /\ \A i \in 1..Len(q) : q[i] = rows[n + i]
  BY PageRows
<1>4. /\ r \in Seq(S)
      /\ Len(r) = IF n + m < Len(rows) THEN n + m ELSE Len(rows)
      /\ \A i \in 1..Len(r) : r[i] = rows[0 + i]
  <2>1. /\ r \in Seq(S)
        /\ Len(r) = IF Len(rows) <= 0 THEN 0
                    ELSE IF 0 + (n + m) < Len(rows) THEN n + m ELSE Len(rows) - 0
        /\ \A i \in 1..Len(r) : r[i] = rows[0 + i]
    BY <1>1, PageRows, Zenon
  <2> HIDE DEF r
  <2>2. QED
    BY <1>1, <2>1
<1> HIDE DEF p, q, r
<1>5. \A i \in Nat : 0 + i = i
  OBVIOUS
<1>6. (p \o q) \in Seq(S) /\ Len(p \o q) = Len(p) + Len(q)
      /\ \A i \in 1..(Len(p) + Len(q)) :
           (p \o q)[i] = IF i <= Len(p) THEN p[i] ELSE q[i - Len(p)]
  BY <1>2, <1>3, ConcatProperties
<1>7. Len(p) + Len(q) = Len(r) /\ Len(p) \in Nat /\ Len(q) \in Nat
  <2> DEFINE a == Len(p)
             b == Len(q)
             c == Len(r)
             l == Len(rows)
  <2>1. /\ a = IF n < l THEN n ELSE l
        /\ b = IF l <= n THEN 0 ELSE IF n + m < l THEN m ELSE l - n
        /\ c = IF n + m < l THEN n + m ELSE l
        /\ l \in Nat
    BY <1>1, <1>2, <1>3, <1>4
  <2> HIDE DEF a, b, c, l
  <2>2. a + b = c /\ a \in Nat /\ b \in Nat
    BY <2>1
  <2>3. QED
    BY <2>2 DEF a, b, c
<1>8. ASSUME NEW i \in 1..Len(r)
      PROVE  (p \o q)[i] = r[i]
  <2>1. (p \o q)[i] = IF i <= Len(p) THEN p[i] ELSE q[i - Len(p)]
    BY <1>6, <1>7
  <2>2. CASE i <= Len(p)
    BY <1>2, <1>4, <2>1, <2>2
  <2>3. CASE Len(p) < i
    <3>1. i - Len(p) \in 1..Len(q) /\ Len(p) = n
      BY <1>1, <1>2, <1>3, <1>4, <1>7, <2>3
    <3>2. n + (i - Len(p)) = i
      BY <3>1
    <3>3. q[i - Len(p)] = rows[i] /\ r[i] = rows[i]
      BY <1>3, <1>4, <1>5, <3>1, <3>2
    <3>4. QED
      BY <2>1, <2>3, <3>3
  <2>4. QED
    BY <1>7, <2>2, <2>3
<1>9. p \o q = r
  BY <1>4, <1>6, <1>7, <1>8, SeqEqual
<1>10. QED
  BY <1>9 DEF p, q, r

\* ORDER BY gives the order that it names, whatever the tables, clauses and terms are,
\* and loses no row; limits cut the rows into pages without overlaps and gaps.
THEOREM OrderTheorem == Spec => []OrderIsLexicographic
<1>1. ASSUME StoreInv, NEW t \in Tables, NEW w \in Answered(t), NEW os \in Orderings
      PROVE  LET rows == ApplyOrdering(MatchingRows(t, w), os)
                 Page(offset, limit) == ApplyOffsetLimit(rows, offset, limit)
             IN /\ ToSet(rows) = Matching(t, w) /\ IsInjective(rows)
                /\ \A i, k \in DOMAIN rows : i < k => ~Precede(rows[k], rows[i], os)
                /\ Page(0, Len(rows)) = rows
                /\ \A n, m \in 0..(Len(rows) + 1) : Page(0, n) \o Page(n, m) = Page(0, n + m)
  <2> DEFINE S == Matching(t, w)
             rows == ApplyOrdering(MatchingRows(t, w), os)
  <2>1. Once(MatchingRows(t, w), S) /\ \A p \in S : pages[p] \in TableRow
    <3>1. w \in Wheres
      BY DEF Answered
    <3>2. QED
      BY <1>1, <3>1, MatchingRowsOnce
  <2>2. os \in Seq(OrderTerm)
    BY OrderingsAssumption DEF OrderTerm
  <2> HIDE DEF S
  <2>3. Once(rows, S) /\ InOrderFrom(rows, os, 1)
    BY <2>1, <2>2, ApplyOrderingOrders
  <2> HIDE DEF rows
  <2>4. rows \in Seq(S) /\ IsInjective(rows) /\ ToSet(rows) = S /\ Len(rows) \in Nat
        /\ DOMAIN rows = 1..Len(rows)
    BY <2>3 DEF Once
  <2>5. Len(os) \in Nat /\ DOMAIN os = 1..Len(os)
    BY <2>2
  <2>6. \A p, q : Precede(p, q, os) <=> PrecedeFrom(p, q, os, 1)
    BY <2>5 DEF Precede, PrecedeFrom
  <2>7. \A i, k \in DOMAIN rows : i < k => ~Precede(rows[k], rows[i], os)
    BY <2>3, <2>4, <2>6 DEF InOrderFrom
  <2>8. ApplyOffsetLimit(rows, 0, Len(rows)) = rows
    BY <2>4 DEF ApplyOffsetLimit
  <2>9. ASSUME NEW n \in 0..(Len(rows) + 1), NEW m \in 0..(Len(rows) + 1)
        PROVE  ApplyOffsetLimit(rows, 0, n) \o ApplyOffsetLimit(rows, n, m)
                 = ApplyOffsetLimit(rows, 0, n + m)
    BY <2>4, PagesAreAdjacent
  <2>10. QED
    BY <2>4, <2>7, <2>8, <2>9 DEF rows, S
<1>2. StoreInv => OrderIsLexicographic
  <2> SUFFICES ASSUME StoreInv,
                      NEW t \in Tables, NEW w \in Answered(t), NEW os \in Orderings
               PROVE  LET rows == ApplyOrdering(MatchingRows(t, w), os)
                          Page(offset, limit) == ApplyOffsetLimit(rows, offset, limit)
                      IN /\ ToSet(rows) = Matching(t, w) /\ IsInjective(rows)
                         /\ \A i, k \in DOMAIN rows :
                              i < k => ~Precede(rows[k], rows[i], os)
                         /\ Page(0, Len(rows)) = rows
                         /\ \A n, m \in 0..(Len(rows) + 1) :
                              Page(0, n) \o Page(n, m) = Page(0, n + m)
    BY DEF OrderIsLexicographic
  <2>1. QED
    BY <1>1
<1>3. QED
  BY <1>2, StoreInvariant, PTL

-----------------------------------------------------------------------------
(* Joins *)

\* Two nested loops meet every pair once.
LEMMA InNestedOrderOnce ==
  ASSUME NEW S, IsFiniteSet(S), S \subseteq Nat \X Nat
  PROVE  Once(InNestedOrder(S), S)
<1> DEFINE Less == {x \in S \X S : \/ x[1][1] < x[2][1]
                                   \/ x[1][1] = x[2][1] /\ x[1][2] < x[2][2]}
<1>1. \A x, y \in S : <<x, y>> \in Less <=> \/ x[1] < y[1]
                                            \/ x[1] = y[1] /\ x[2] < y[2]
  OBVIOUS
<1>2. InNestedOrder(S) = Sorted(S, Less)
  BY DEF InNestedOrder
<1> HIDE DEF Less
<1>3. \A x \in S : x[1] \in Nat /\ x[2] \in Nat /\ x = <<x[1], x[2]>>
  OBVIOUS
<1>4. \A x \in S : <<x, x>> \notin Less
  BY <1>1, <1>3
<1>5. \A x, y, z \in S : <<x, y>> \in Less /\ <<y, z>> \in Less => <<x, z>> \in Less
  BY <1>1, <1>3
<1>6. ASSUME NEW x \in S, NEW y \in S, x # y
      PROVE  <<x, y>> \in Less \/ <<y, x>> \in Less
  <2>1. x[1] # y[1] \/ x[2] # y[2]
    BY <1>3, <1>6
  <2>2. QED
    BY <1>1, <1>3, <2>1
<1>7. TotalOrder(S, Less)
  BY <1>4, <1>5, <1>6 DEF TotalOrder
<1>8. QED
  BY <1>2, <1>7, SortedOnce

\* The combinations of rows of the first k sources for which the predicates hold.
Combinations(j, k) ==
    {r \in [1..k -> DOMAIN pages] :
        /\ \A i \in 1..k : r[i] \in records[j.sources[i]]
        /\ PredicatesMatch(j.predicates, r)}

LEMMA NoSources ==
  ASSUME NEW j \in Joins
  PROVE  Once(<< <<>> >>, Combinations(j, 0))
<1> DEFINE C == Combinations(j, 0)
<1>1. \A r \in [1..0 -> DOMAIN pages] : r = <<>>
  OBVIOUS
<1>2. <<>> \in [1..0 -> DOMAIN pages]
  OBVIOUS
<1>3. PredicatesMatch(j.predicates, <<>>)
  BY DEF PredicatesMatch
<1>4. <<>> \in C
  BY <1>2, <1>3 DEF Combinations
<1>5. \A r \in C : r = <<>>
  BY <1>1 DEF Combinations
<1>6. C = {<<>>}
  BY <1>4, <1>5
<1>7. Once(<< <<>> >>, {<<>>})
  BY DEF Once, IsInjective, ToSet
<1>8. QED
  BY <1>6, <1>7

\* A combination for which the predicates hold is one of fewer sources, and a row.
LEMMA FrontMatches ==
  ASSUME NEW j \in Joins, NEW k \in 1..Len(j.sources), NEW r \in Combinations(j, k)
  PROVE  [i \in 1..(k - 1) |-> r[i]] \in Combinations(j, k - 1)
<1> DEFINE f == [i \in 1..(k - 1) |-> r[i]]
<1>0. j.sources \in Seq(Tables)
  BY JoinsAssumption
<1>1. k \in Nat /\ 1..(k - 1) \subseteq 1..k
  BY <1>0
<1>2. r \in [1..k -> DOMAIN pages] /\ (\A i \in 1..k : r[i] \in records[j.sources[i]])
      /\ PredicatesMatch(j.predicates, r)
  BY DEF Combinations
<1>3. f \in [1..(k - 1) -> DOMAIN pages] /\ \A i \in 1..(k - 1) : f[i] = r[i]
  BY <1>1, <1>2
<1> HIDE DEF f
<1>4. ASSUME NEW i \in DOMAIN j.predicates,
             {j.predicates[i].left[1], j.predicates[i].right[1]} \subseteq DOMAIN f
      PROVE  ValueIn(f, j.predicates[i].left) = ValueIn(f, j.predicates[i].right)
  <2>1. {j.predicates[i].left[1], j.predicates[i].right[1]} \subseteq DOMAIN r
    BY <1>1, <1>2, <1>3, <1>4
  <2>2. ValueIn(r, j.predicates[i].left) = ValueIn(r, j.predicates[i].right)
    BY <1>2, <2>1 DEF PredicatesMatch
  <2>3. f[j.predicates[i].left[1]] = r[j.predicates[i].left[1]]
        /\ f[j.predicates[i].right[1]] = r[j.predicates[i].right[1]]
    BY <1>3, <1>4
  <2>4. QED
    BY <2>2, <2>3 DEF ValueIn
<1>5. PredicatesMatch(j.predicates, f)
  BY <1>4 DEF PredicatesMatch
<1>6. QED
  BY <1>1, <1>2, <1>3, <1>5 DEF Combinations, f

LEMMA ExtendedCombinations ==
  ASSUME StoreInv, NEW j \in Joins, NEW k \in 1..Len(j.sources),
         NEW rows, Once(rows, Combinations(j, k - 1))
  PROVE  Once(Extended(rows, j.sources[k], j.predicates), Combinations(j, k))
<1> DEFINE t == j.sources[k]
           P == {x \in (DOMAIN rows) \X records[t] :
                   PredicatesMatch(j.predicates, Append(rows[x[1]], x[2]))}
           pairs == InNestedOrder(P)
           new == [i \in DOMAIN pairs |-> Append(rows[pairs[i][1]], pairs[i][2])]
           D == DOMAIN pages
<1>1. j.sources \in Seq(Tables) /\ k \in Nat /\ t \in Tables
  BY JoinsAssumption
<1>2. /\ records[t] \subseteq D
      /\ D = 1..Len(pages) /\ Len(pages) \in Nat
  <2>1. TablesOK(schema, pages, records)
    BY DEF StoreInv, StoreOK
  <2>2. QED
    BY <1>1, <2>1 DEF TablesOK
<1>3. /\ rows \in Seq(Combinations(j, k - 1)) /\ Len(rows) \in Nat
      /\ DOMAIN rows = 1..Len(rows)
      /\ \A a \in DOMAIN rows : rows[a] \in Combinations(j, k - 1)
      /\ \A a, b \in DOMAIN rows : rows[a] = rows[b] => a = b
      /\ \A r \in Combinations(j, k - 1) : \E a \in DOMAIN rows : rows[a] = r
  BY DEF Once, IsInjective, ToSet
<1>4. \A r \in Combinations(j, k - 1) :
        /\ r \in [1..(k - 1) -> D]
        /\ \A i \in 1..(k - 1) : r[i] \in records[j.sources[i]]
  BY DEF Combinations
<1>5. IsFiniteSet(P)
  <2>1. IsFiniteSet(1..Len(rows)) /\ IsFiniteSet(D)
    BY <1>2, <1>3, FS_Interval
  <2>2. IsFiniteSet(records[t])
    BY <1>2, <2>1, FS_Subset
  <2>3. IsFiniteSet((DOMAIN rows) \X records[t])
    <3>1. IsFiniteSet(DOMAIN rows)
      BY <1>3, <2>1
    <3>2. QED
      BY <2>2, <3>1, FS_Product
  <2>4. P \in SUBSET ((DOMAIN rows) \X records[t])
    OBVIOUS
  <2>5. QED
    BY <2>3, <2>4, FS_Subset
<1>6. P \subseteq Nat \X Nat
  BY <1>2, <1>3
<1>7. Once(pairs, P)
  BY <1>5, <1>6, InNestedOrderOnce
<1>8. Extended(rows, t, j.predicates) = new
  BY DEF Extended
<1>9. \A x : x \in P <=> /\ x \in (DOMAIN rows) \X records[t]
                         /\ PredicatesMatch(j.predicates, Append(rows[x[1]], x[2]))
  OBVIOUS
<1> HIDE DEF P, pairs
<1>10. /\ pairs \in Seq(P) /\ Len(pairs) \in Nat /\ DOMAIN pairs = 1..Len(pairs)
       /\ \A i \in DOMAIN pairs : pairs[i] \in P
       /\ \A a, b \in DOMAIN pairs : pairs[a] = pairs[b] => a = b
       /\ \A x \in P : \E i \in DOMAIN pairs : pairs[i] = x
  BY <1>7 DEF Once, IsInjective, ToSet
<1>11. /\ DOMAIN new = DOMAIN pairs
       /\ \A i \in DOMAIN pairs : new[i] = Append(rows[pairs[i][1]], pairs[i][2])
  OBVIOUS
<1> HIDE DEF t, D
\* A longer row is the row that it extends, and one more.
<1>12. ASSUME NEW r \in [1..(k - 1) -> D], NEW p \in D
       PROVE  /\ Append(r, p) \in [1..k -> D]
              /\ Append(r, p)[k] = p
              /\ \A i \in 1..(k - 1) : Append(r, p)[i] = r[i]
  <2>1. k - 1 \in Nat /\ (k - 1) + 1 = k
    BY <1>1
  <2>2. r \in Seq(D) /\ Len(r) = k - 1
    BY <2>1
  <2>3. /\ Append(r, p) \in Seq(D)
        /\ Len(Append(r, p)) = (k - 1) + 1
        /\ \A i \in 1..(k - 1) : Append(r, p)[i] = r[i]
        /\ Append(r, p)[(k - 1) + 1] = p
    BY <2>2, AppendProperties
  <2>4. Append(r, p) \in [1..k -> D]
    BY <2>1, <2>3, LenProperties
  <2>5. QED
    BY <2>1, <2>3, <2>4
<1>13. ASSUME NEW i \in DOMAIN pairs
       PROVE  new[i] \in Combinations(j, k)
  <2> DEFINE a == pairs[i][1]
             p == pairs[i][2]
  <2>1. a \in DOMAIN rows /\ p \in records[t]
        /\ PredicatesMatch(j.predicates, Append(rows[a], p))
    BY <1>9, <1>10
  <2>2. rows[a] \in [1..(k - 1) -> D] /\ p \in D
        /\ \A e \in 1..(k - 1) : rows[a][e] \in records[j.sources[e]]
    BY <1>2, <1>3, <1>4, <2>1
  <2>3. new[i] = Append(rows[a], p)
    BY <1>11
  <2> HIDE DEF a, p
  <2> HIDE DEF new
  <2>4. new[i] \in [1..k -> D] /\ new[i][k] = p
        /\ \A e \in 1..(k - 1) : new[i][e] = rows[a][e]
    <3>1. /\ Append(rows[a], p) \in [1..k -> D] /\ Append(rows[a], p)[k] = p
          /\ \A e \in 1..(k - 1) : Append(rows[a], p)[e] = rows[a][e]
      BY <1>12, <2>2
    <3>2. QED
      BY <2>3, <3>1
  <2>5. \A e \in 1..k : new[i][e] \in records[j.sources[e]]
    <3>1. \A e \in 1..k : e = k \/ e \in 1..(k - 1)
      BY <1>1
    <3>2. QED
      BY <2>1, <2>2, <2>4, <3>1 DEF t
  <2>6. QED
    BY <2>1, <2>3, <2>4, <2>5 DEF Combinations, D
<1>14. ASSUME NEW r \in Combinations(j, k)
       PROVE  \E i \in DOMAIN pairs : new[i] = r
  <2> DEFINE f == [i \in 1..(k - 1) |-> r[i]]
  <2>1. f \in Combinations(j, k - 1)
    BY FrontMatches
  <2>2. r \in [1..k -> D] /\ r[k] \in records[t] /\ r[k] \in D
        /\ PredicatesMatch(j.predicates, r)
    <3>1. k \in 1..k
      BY <1>1
    <3>2. QED
      BY <1>2, <3>1 DEF Combinations, t, D
  <2>3. f \in [1..(k - 1) -> D] /\ \A i \in 1..(k - 1) : f[i] = r[i]
    BY <1>4, <2>1
  <2> HIDE DEF f
  <2>4. /\ Append(f, r[k]) \in [1..k -> D]
        /\ Append(f, r[k])[k] = r[k]
        /\ \A i \in 1..(k - 1) : Append(f, r[k])[i] = f[i]
    BY <1>12, <2>2, <2>3
  <2>5. \A i \in 1..k : Append(f, r[k])[i] = r[i]
    <3>1. \A e \in 1..k : e = k \/ e \in 1..(k - 1)
      BY <1>1
    <3>2. QED
      BY <2>3, <2>4, <3>1
  <2>6. Append(f, r[k]) = r
    BY <2>2, <2>4, <2>5
  <2>7. PICK a \in DOMAIN rows : rows[a] = f
    BY <1>3, <2>1
  <2>8. <<a, r[k]>> \in P
    BY <1>9, <2>2, <2>6, <2>7
  <2>9. PICK i \in DOMAIN pairs : pairs[i] = <<a, r[k]>>
    BY <1>10, <2>8
  <2>10. new[i] = Append(rows[a], r[k])
    BY <1>11, <2>9
  <2>11. QED
    BY <2>6, <2>7, <2>10
<1>15. ASSUME NEW i \in DOMAIN pairs, NEW l \in DOMAIN pairs, new[i] = new[l]
       PROVE  i = l
  <2> DEFINE a == pairs[i][1]
             p == pairs[i][2]
             b == pairs[l][1]
             q == pairs[l][2]
  <2>1. a \in DOMAIN rows /\ p \in records[t] /\ pairs[i] = <<a, p>>
    BY <1>9, <1>10
  <2>2. b \in DOMAIN rows /\ q \in records[t] /\ pairs[l] = <<b, q>>
    BY <1>9, <1>10
  <2>3. Append(rows[a], p) = Append(rows[b], q)
    BY <1>11, <1>15
  <2> HIDE DEF a, p, b, q
  <2>4. rows[a] \in [1..(k - 1) -> D] /\ rows[b] \in [1..(k - 1) -> D] /\ p \in D /\ q \in D
    BY <1>2, <1>3, <1>4, <2>1, <2>2
  <2>5. p = q
    <3>1. Append(rows[a], p)[k] = p /\ Append(rows[b], q)[k] = q
      BY <1>12, <2>4
    <3>2. QED
      BY <2>3, <3>1
  <2>6. rows[a] = rows[b]
    <3>1. \A e \in 1..(k - 1) : Append(rows[a], p)[e] = rows[a][e]
                              /\ Append(rows[b], q)[e] = rows[b][e]
      BY <1>12, <2>4
    <3>2. \A e \in 1..(k - 1) : rows[a][e] = rows[b][e]
      BY <2>3, <3>1
    <3>3. QED
      BY <2>4, <3>2
  <2>7. a = b
    BY <1>3, <2>1, <2>2, <2>6
  <2>8. QED
    BY <1>10, <2>1, <2>2, <2>5, <2>7
<1> HIDE DEF new
<1>16. new \in Seq(Combinations(j, k))
  <2>1. new \in [1..Len(pairs) -> Combinations(j, k)]
    BY <1>10, <1>13 DEF new
  <2>2. QED
    BY <1>10, <2>1
<1>17. IsInjective(new) /\ ToSet(new) = Combinations(j, k)
  BY <1>11, <1>13, <1>14, <1>15 DEF IsInjective, ToSet
<1>18. QED
  BY <1>8, <1>16, <1>17 DEF Once, t

\* The rows after each of the nested loops.
Loops(j, f) ==
    f = [k \in 0..Len(j.sources) |->
            IF k = 0 THEN << <<>> >> ELSE Extended(f[k - 1], j.sources[k], j.predicates)]

LEMMA LoopsExist ==
  ASSUME NEW j \in Joins
  PROVE  \E f : Loops(j, f)
<1> DEFINE n == Len(j.sources)
           Loop(k, s) == Extended(s, j.sources[k], j.predicates)
           First(m, f) ==
             f = [k \in 0..m |-> IF k = 0 THEN << <<>> >> ELSE Loop(k, f[k - 1])]
           T == {m \in 0..n : \E f : First(m, f)}
<1>1. n \in Nat
  BY JoinsAssumption
<1> HIDE DEF n, Loop
<1>2. 0 \in T
  <2>1. First(0, [k \in 0..0 |-> << <<>> >>])
    OBVIOUS
  <2> HIDE DEF First
  <2>2. QED
    BY <1>1, <2>1
<1>3. ASSUME NEW m \in 0..(n - 1), m \in T
      PROVE  m + 1 \in T
  <2>1. PICK f : First(m, f)
    BY <1>3
  <2> DEFINE g == [k \in 0..(m + 1) |-> IF k <= m THEN f[k] ELSE Loop(m + 1, f[m])]
  <2>2. ASSUME NEW k \in 0..(m + 1)
        PROVE  g[k] = IF k = 0 THEN << <<>> >> ELSE Loop(k, g[k - 1])
    <3>1. m \in Nat /\ k \in Nat
      BY <1>1
    <3>2. CASE k <= m
      <4>1. f[k] = IF k = 0 THEN << <<>> >> ELSE Loop(k, f[k - 1])
        BY <2>1, <3>1, <3>2
      <4>2. k # 0 => g[k - 1] = f[k - 1]
        BY <3>1, <3>2
      <4>3. QED
        BY <3>1, <3>2, <4>1, <4>2
    <3>3. CASE k = m + 1
      BY <3>1, <3>3
    <3>4. QED
      BY <3>1, <3>2, <3>3
  <2> HIDE DEF First
  <2>3. g = [k \in 0..(m + 1) |-> IF k = 0 THEN << <<>> >> ELSE Loop(k, g[k - 1])]
    BY <2>2
  <2>4. First(m + 1, g)
    BY <2>3 DEF First
  <2>5. m + 1 \in 0..n
    BY <1>1
  <2>6. QED
    BY <2>4, <2>5
<1> HIDE DEF First
<1>4. n \in T
  <2> HIDE DEF T
  <2>1. \A k \in 0..n : k \in T
    BY <1>1, <1>2, <1>3, InductionUpTo
  <2>2. QED
    BY <1>1, <2>1
<1>5. PICK f : First(n, f)
  BY <1>4
<1>6. Loops(j, f)
  BY <1>5 DEF First, Loop, n, Loops
<1>7. QED
  BY <1>6

LEMMA JoinRowsCombinations ==
  ASSUME StoreInv, NEW j \in Joins
  PROVE  Once(JoinRows(j), Combinations(j, Len(j.sources)))
<1> DEFINE n == Len(j.sources)
           f == CHOOSE g : Loops(j, g)
           T == {k \in 0..n : Once(f[k], Combinations(j, k))}
<1>1. n \in Nat
  BY JoinsAssumption
<1>2. Loops(j, f)
  BY LoopsExist
<1>3. JoinRows(j) = f[n]
  BY DEF JoinRows, Loops
<1> HIDE DEF f
<1>4. /\ f[0] = << <<>> >>
      /\ \A k \in 1..n : f[k] = Extended(f[k - 1], j.sources[k], j.predicates)
  <2>1. \A k \in 0..n : f[k] = IF k = 0 THEN << <<>> >>
                               ELSE Extended(f[k - 1], j.sources[k], j.predicates)
    BY <1>2 DEF Loops
  <2>2. QED
    BY <1>1, <2>1
<1>5. 0 \in T
  BY <1>1, <1>4, NoSources
<1>6. ASSUME NEW k \in 0..(n - 1), k \in T
      PROVE  k + 1 \in T
  <2> DEFINE m == k + 1
  <2>1. m \in 1..n /\ m \in 0..n /\ m - 1 = k
    BY <1>1
  <2>2. Once(f[m - 1], Combinations(j, m - 1))
    BY <1>6, <2>1
  <2>3. f[m] = Extended(f[m - 1], j.sources[m], j.predicates)
    BY <1>4, <2>1
  <2> HIDE DEF m
  <2>4. Once(f[m], Combinations(j, m))
    BY <2>1, <2>2, <2>3, ExtendedCombinations
  <2>5. QED
    BY <2>1, <2>4 DEF m
<1>7. n \in T
  <2> HIDE DEF T, n
  <2>1. \A k \in 0..n : k \in T
    BY <1>1, <1>5, <1>6, InductionUpTo
  <2>2. QED
    BY <1>1, <2>1
<1>8. QED
  BY <1>3, <1>7

\* A join of any number of sources gives the combinations of rows for which all
\* predicates hold, and each of them once: a row that is dropped early is one that no
\* combination has.
THEOREM JoinsTheorem == Spec => []JoinsAreComplete
<1>1. ASSUME StoreInv, NEW j \in Joins
      PROVE  LET rows == JoinRows(j)
                 Combination(r) == \A i \in DOMAIN r : r[i] \in records[j.sources[i]]
                 Holds(r) == \A i \in DOMAIN j.predicates :
                     ValueIn(r, j.predicates[i].left) = ValueIn(r, j.predicates[i].right)
             IN /\ IsInjective(rows)
                /\ ToSet(rows) = {r \in [DOMAIN j.sources -> DOMAIN pages] :
                                     Combination(r) /\ Holds(r)}
  <2> DEFINE n == Len(j.sources)
             Combination(r) == \A i \in DOMAIN r : r[i] \in records[j.sources[i]]
             Holds(r) == \A i \in DOMAIN j.predicates :
                     ValueIn(r, j.predicates[i].left) = ValueIn(r, j.predicates[i].right)
  <2>1. DOMAIN j.sources = 1..n
    BY JoinsAssumption
  <2>2. \A i \in DOMAIN j.predicates :
          {j.predicates[i].left[1], j.predicates[i].right[1]} \subseteq 1..n
    BY <2>1, JoinsAssumption
  <2>3. ASSUME NEW r \in [1..n -> DOMAIN pages]
        PROVE  PredicatesMatch(j.predicates, r) <=> Holds(r)
    BY <2>2 DEF PredicatesMatch
  <2>4. Combinations(j, n) = {r \in [1..n -> DOMAIN pages] : Combination(r) /\ Holds(r)}
    <3> HIDE DEF Holds, n
    <3>1. QED
      BY <2>3 DEF Combinations
  <2>5. Once(JoinRows(j), Combinations(j, n))
    BY <1>1, JoinRowsCombinations
  <2>6. QED
    BY <2>1, <2>4, <2>5 DEF Once
<1>2. StoreInv => JoinsAreComplete
  BY <1>1 DEF JoinsAreComplete
<1>3. QED
  BY <1>2, StoreInvariant, PTL
-----------------------------------------------------------------------------
(* Sums *)

Value == Int \cup {NULL}

LEMMA PlusLaws ==
  ASSUME NEW a \in Value, NEW b \in Value
  PROVE  /\ Plus(a, b) \in Value
         /\ Plus(a, NULL) = a /\ Plus(NULL, a) = a
         /\ a \in Int /\ b \in Int => Plus(a, b) = a + b
BY NullAssumption DEF Plus, Value

\* The sums of the first k values.
Sums(s, zero, f) == f = [k \in 0..Len(s) |-> IF k = 0 THEN zero ELSE Plus(f[k - 1], s[k])]

LEMMA SumsExist ==
  ASSUME NEW s, Len(s) \in Nat, NEW zero
  PROVE  \E f : Sums(s, zero, f)
<1> DEFINE n == Len(s)
           Add(k, a) == Plus(a, s[k])
           First(m, f) == f = [k \in 0..m |-> IF k = 0 THEN zero ELSE Add(k, f[k - 1])]
           T == {m \in 0..n : \E f : First(m, f)}
<1>1. n \in Nat
  OBVIOUS
<1> HIDE DEF n, Add
<1>2. 0 \in T
  <2>1. First(0, [k \in 0..0 |-> zero])
    OBVIOUS
  <2> HIDE DEF First
  <2>2. QED
    BY <1>1, <2>1
<1>3. ASSUME NEW m \in 0..(n - 1), m \in T
      PROVE  m + 1 \in T
  <2>1. PICK f : First(m, f)
    BY <1>3
  <2> DEFINE g == [k \in 0..(m + 1) |-> IF k <= m THEN f[k] ELSE Add(m + 1, f[m])]
  <2>2. ASSUME NEW k \in 0..(m + 1)
        PROVE  g[k] = IF k = 0 THEN zero ELSE Add(k, g[k - 1])
    <3>1. m \in Nat /\ k \in Nat
      BY <1>1
    <3>2. CASE k <= m
      <4>1. f[k] = IF k = 0 THEN zero ELSE Add(k, f[k - 1])
        BY <2>1, <3>1, <3>2
      <4>2. k # 0 => g[k - 1] = f[k - 1]
        BY <3>1, <3>2
      <4>3. QED
        BY <3>1, <3>2, <4>1, <4>2
    <3>3. CASE k = m + 1
      BY <3>1, <3>3
    <3>4. QED
      BY <3>1, <3>2, <3>3
  <2> HIDE DEF First
  <2>3. g = [k \in 0..(m + 1) |-> IF k = 0 THEN zero ELSE Add(k, g[k - 1])]
    BY <2>2
  <2>4. First(m + 1, g)
    BY <2>3 DEF First
  <2>5. m + 1 \in 0..n
    BY <1>1
  <2>6. QED
    BY <2>4, <2>5
<1> HIDE DEF First
<1>4. n \in T
  <2> HIDE DEF T
  <2>1. \A k \in 0..n : k \in T
    BY <1>1, <1>2, <1>3, InductionUpTo
  <2>2. QED
    BY <1>1, <2>1
<1>5. PICK f : First(n, f)
  BY <1>4
<1>6. Sums(s, zero, f)
  BY <1>5 DEF First, Add, n, Sums
<1>7. QED
  BY <1>6

\* The sum of the first k values, as Total has it.
SumTo(s, zero) == CHOOSE f : Sums(s, zero, f)

LEMMA TotalSteps ==
  ASSUME NEW n \in Nat, NEW s \in [1..n -> Value], NEW zero \in Value
  PROVE  /\ SumTo(s, zero)[0] = zero
         /\ \A k \in 1..n : SumTo(s, zero)[k] = Plus(SumTo(s, zero)[k - 1], s[k])
         /\ \A k \in 0..n : SumTo(s, zero)[k] \in Value
         /\ Total(s, zero) = SumTo(s, zero)[n]
<1> DEFINE f == SumTo(s, zero)
           T == {k \in 0..n : f[k] \in Value}
<1>1. Len(s) = n
  OBVIOUS
<1>2. Sums(s, zero, f)
  BY <1>1, SumsExist DEF SumTo
<1>3. Total(s, zero) = f[n]
  BY <1>1 DEF Total, SumTo, Sums
<1> HIDE DEF f
<1>4. \A k \in 0..n : f[k] = IF k = 0 THEN zero ELSE Plus(f[k - 1], s[k])
  BY <1>1, <1>2 DEF Sums
<1>5. f[0] = zero /\ \A k \in 1..n : f[k] = Plus(f[k - 1], s[k])
  BY <1>4
<1>6. 0 \in T
  BY <1>5
<1>7. ASSUME NEW k \in 0..(n - 1), k \in T
      PROVE  k + 1 \in T
  <2>1. k + 1 \in 1..n /\ (k + 1) - 1 = k /\ k + 1 \in 0..n
    OBVIOUS
  <2>2. f[k + 1] = Plus(f[k], s[k + 1])
    BY <1>5, <2>1
  <2>3. f[k] \in Value /\ s[k + 1] \in Value
    BY <1>7, <2>1
  <2>4. f[k + 1] \in Value
    BY <2>2, <2>3, PlusLaws
  <2>5. QED
    BY <2>1, <2>4
<1> HIDE DEF T
<1>8. \A k \in 0..n : k \in T
  BY <1>6, <1>7, InductionUpTo
<1>9. QED
  BY <1>3, <1>5, <1>8 DEF T, f

\* Nothing adds up to nothing.
LEMMA TotalOfNothing ==
  ASSUME NEW n \in Nat, NEW s \in [1..n -> {NULL}]
  PROVE  Total(s, NULL) = NULL
<1> DEFINE f == SumTo(s, NULL)
           T == {k \in 0..n : f[k] = NULL}
<1>1. s \in [1..n -> Value] /\ NULL \in Value
  BY DEF Value
<1>2. /\ f[0] = NULL
      /\ \A k \in 1..n : f[k] = Plus(f[k - 1], s[k])
      /\ Total(s, NULL) = f[n]
  BY <1>1, TotalSteps
<1> HIDE DEF f
<1>3. 0 \in T
  BY <1>2
<1>4. ASSUME NEW k \in 0..(n - 1), k \in T
      PROVE  k + 1 \in T
  <2>1. k + 1 \in 1..n /\ (k + 1) - 1 = k /\ k + 1 \in 0..n
    OBVIOUS
  <2>2. f[k + 1] = Plus(f[k], s[k + 1]) /\ s[k + 1] = NULL /\ f[k] = NULL
    BY <1>2, <1>4, <2>1
  <2>3. f[k + 1] = NULL
    BY <2>2 DEF Plus
  <2>4. QED
    BY <2>1, <2>3
<1> HIDE DEF T
<1>5. \A k \in 0..n : k \in T
  BY <1>3, <1>4, InductionUpTo
<1>6. QED
  BY <1>2, <1>5 DEF T

\* Values may be added in any order.
LEMMA PlusSwap ==
  ASSUME NEW a \in Value, NEW b \in Value, NEW c \in Value
  PROVE  /\ Plus(Plus(a, b), c) = Plus(a, Plus(b, c))
         /\ Plus(Plus(a, b), c) = Plus(Plus(a, c), b)
BY NullAssumption DEF Plus, Value

\* What is added to one of the values is added to their sum.
LEMMA TotalOfChanged ==
  ASSUME NEW n \in Nat, NEW s \in [1..n -> Value], NEW t \in [1..n -> Value],
         NEW l \in 1..n, NEW v \in Value, t[l] = Plus(s[l], v),
         \A k \in 1..n : k # l => t[k] = s[k]
  PROVE  Total(t, NULL) = Plus(Total(s, NULL), v)
<1> DEFINE f == SumTo(s, NULL)
           g == SumTo(t, NULL)
           T == {k \in 0..n : g[k] = IF k < l THEN f[k] ELSE Plus(f[k], v)}
<1>0. NULL \in Value
  BY DEF Value
<1>1. /\ f[0] = NULL
      /\ \A k \in 1..n : f[k] = Plus(f[k - 1], s[k])
      /\ \A k \in 0..n : f[k] \in Value
      /\ Total(s, NULL) = f[n]
  BY <1>0, TotalSteps
<1>2. /\ g[0] = NULL
      /\ \A k \in 1..n : g[k] = Plus(g[k - 1], t[k])
      /\ \A k \in 0..n : g[k] \in Value
      /\ Total(t, NULL) = g[n]
  BY <1>0, TotalSteps
<1> HIDE DEF f, g
<1>3. 0 \in T
  BY <1>1, <1>2
<1>4. ASSUME NEW k \in 0..(n - 1), k \in T
      PROVE  k + 1 \in T
  <2>1. k + 1 \in 1..n /\ (k + 1) - 1 = k /\ k + 1 \in 0..n /\ k \in 0..n /\ k \in Int
    OBVIOUS
  <2>2. f[k + 1] = Plus(f[k], s[k + 1]) /\ g[k + 1] = Plus(g[k], t[k + 1])
    BY <1>1, <1>2, <2>1
  <2>3. f[k] \in Value /\ s[k + 1] \in Value
    BY <1>1, <2>1
  <2>4. CASE k + 1 < l
    BY <1>4, <2>1, <2>2, <2>4
  <2>5. CASE k + 1 = l
    <3>1. g[k] = f[k] /\ t[k + 1] = Plus(s[k + 1], v)
      BY <1>4, <2>1, <2>5
    <3>2. Plus(Plus(f[k], s[k + 1]), v) = Plus(f[k], Plus(s[k + 1], v))
      BY <2>3, PlusSwap
    <3>3. g[k + 1] = Plus(f[k + 1], v)
      BY <2>2, <3>1, <3>2
    <3>4. QED
      BY <2>1, <2>5, <3>3
  <2>6. CASE l < k + 1
    <3>1. g[k] = Plus(f[k], v) /\ t[k + 1] = s[k + 1]
      BY <1>4, <2>1, <2>6
    <3>2. Plus(Plus(f[k], v), s[k + 1]) = Plus(Plus(f[k], s[k + 1]), v)
      BY <2>3, PlusSwap
    <3>3. QED
      BY <2>1, <2>2, <2>6, <3>1, <3>2
  <2>7. QED
    BY <2>1, <2>4, <2>5, <2>6
<1> HIDE DEF T
<1>5. \A k \in 0..n : k \in T
  BY <1>3, <1>4, InductionUpTo
<1>6. n \in T /\ ~(n < l)
  BY <1>5
<1>7. QED
  BY <1>1, <1>2, <1>6 DEF T

LEMMA DisjointUnion ==
  ASSUME NEW S, NEW U, IsFiniteSet(S), IsFiniteSet(U), S \cap U = {}
  PROVE  Cardinality(S \cup U) = Cardinality(S) + Cardinality(U)
<1>1. Cardinality(S \cap U) = 0
  BY FS_EmptySet
<1>2. Cardinality(S) \in Nat /\ Cardinality(U) \in Nat
  BY FS_CardinalityType
<1>3. Cardinality(S \cup U) = Cardinality(S) + Cardinality(U) - Cardinality(S \cap U)
  BY FS_Union
<1>4. QED
  BY <1>1, <1>2, <1>3

\* The sizes of the parts of a set add up to its size.
LEMMA CountsAddUp ==
  ASSUME NEW I, IsFiniteSet(I), NEW m \in Nat, NEW part \in [1..m -> SUBSET I],
         \A i \in I : \E l \in 1..m : i \in part[l],
         \A l, k \in 1..m : l # k => part[l] \cap part[k] = {}
  PROVE  Total([l \in 1..m |-> Cardinality(part[l])], 0) = Cardinality(I)
<1> DEFINE s == [l \in 1..m |-> Cardinality(part[l])]
           f == SumTo(s, 0)
           First(k) == {i \in I : \E l \in 1..k : i \in part[l]}
           T == {k \in 0..m : f[k] = Cardinality(First(k))}
<1>1. ASSUME NEW S, S \subseteq I
      PROVE  IsFiniteSet(S) /\ Cardinality(S) \in Nat
  BY <1>1, FS_Subset, FS_CardinalityType
<1>2. s \in [1..m -> Value] /\ 0 \in Value /\ \A l \in 1..m : s[l] = Cardinality(part[l])
  BY <1>1 DEF Value
<1>3. /\ f[0] = 0
      /\ \A k \in 1..m : f[k] = Plus(f[k - 1], s[k])
      /\ \A k \in 0..m : f[k] \in Value
      /\ Total(s, 0) = f[m]
  BY <1>2, TotalSteps
<1> HIDE DEF f, s
<1>4. 0 \in T
  <2>1. First(0) = {}
    OBVIOUS
  <2> HIDE DEF First
  <2>2. Cardinality(First(0)) = 0
    BY <2>1, FS_EmptySet
  <2>3. QED
    BY <1>3, <2>2
<1>5. ASSUME NEW k \in 0..(m - 1), k \in T
      PROVE  k + 1 \in T
  <2>1. k + 1 \in 1..m /\ (k + 1) - 1 = k /\ k + 1 \in 0..m /\ k \in Nat
    OBVIOUS
  <2>2. First(k + 1) = First(k) \cup part[k + 1]
    <3>1. ASSUME NEW l
          PROVE  l \in 1..(k + 1) <=> l \in 1..k \/ l = k + 1
      BY <2>1
    <3>2. QED
      BY <2>1, <3>1
  <2>3. First(k) \cap part[k + 1] = {}
    BY <2>1
  <2>4. First(k) \subseteq I /\ part[k + 1] \subseteq I
    BY <2>1
  <2> HIDE DEF First
  <2>5. /\ IsFiniteSet(First(k)) /\ Cardinality(First(k)) \in Nat
        /\ IsFiniteSet(part[k + 1]) /\ Cardinality(part[k + 1]) \in Nat
    BY <1>1, <2>4
  <2>6. Cardinality(First(k + 1)) = Cardinality(First(k)) + Cardinality(part[k + 1])
    BY <2>2, <2>3, <2>5, DisjointUnion
  <2>7. f[k + 1] = Plus(Cardinality(First(k)), Cardinality(part[k + 1]))
    BY <1>2, <1>3, <1>5, <2>1
  <2>8. f[k + 1] = Cardinality(First(k + 1))
    BY <2>5, <2>6, <2>7, PlusLaws DEF Value
  <2>9. QED
    BY <2>1, <2>8
<1>6. First(m) = I
  OBVIOUS
<1> HIDE DEF T
<1>7. \A k \in 0..m : k \in T
  BY <1>4, <1>5, InductionUpTo
<1>8. f[m] = Cardinality(I)
  BY <1>6, <1>7 DEF T
<1>9. QED
  BY <1>3, <1>8 DEF s

\* The values of one owner; the sum of each owner's.
Mine(owner, s, l) == [i \in DOMAIN s |-> IF owner[i] = l THEN s[i] ELSE NULL]
SumsOf(owner, s, m) == [l \in 1..m |-> Total(Mine(owner, s, l), NULL)]

LEMMA TotalIsValue ==
  ASSUME NEW n \in Nat, NEW s \in [1..n -> Value]
  PROVE  Total(s, NULL) \in Value
<1>1. NULL \in Value /\ n \in 0..n
  BY DEF Value
<1>2. QED
  BY <1>1, TotalSteps

LEMMA SumsOfType ==
  ASSUME NEW n \in Nat, NEW m \in Nat, NEW owner, NEW s \in [1..n -> Value]
  PROVE  /\ \A l : Mine(owner, s, l) \in [1..n -> Value]
         /\ SumsOf(owner, s, m) \in [1..m -> Value]
<1>1. ASSUME NEW l
      PROVE  Mine(owner, s, l) \in [1..n -> Value]
  BY DEF Mine, Value
<1>2. ASSUME NEW l
      PROVE  Total(Mine(owner, s, l), NULL) \in Value
  BY <1>1, TotalIsValue
<1>3. QED
  BY <1>1, <1>2 DEF SumsOf

\* One more value is added to its owner's sum and so to the sum of the sums.
LEMMA OneMoreValue ==
  ASSUME NEW n \in Nat, NEW m \in Nat, NEW owner \in [1..n -> 1..m],
         NEW s \in [1..n -> Value], NEW t \in [1..n -> Value],
         NEW j \in 1..n, s[j] = NULL, \A i \in 1..n : i # j => t[i] = s[i]
  PROVE  /\ Total(t, NULL) = Plus(Total(s, NULL), t[j])
         /\ Total(SumsOf(owner, t, m), NULL) = Plus(Total(SumsOf(owner, s, m), NULL), t[j])
<1>1. t[j] \in Value /\ t[j] = Plus(s[j], t[j]) /\ owner[j] \in 1..m
  BY DEF Plus
<1>2. Total(t, NULL) = Plus(Total(s, NULL), t[j])
  BY <1>1, TotalOfChanged
<1>3. ASSUME NEW l \in 1..m, l # owner[j]
      PROVE  Mine(owner, t, l) = Mine(owner, s, l)
  BY <1>3 DEF Mine
<1>4. Total(Mine(owner, t, owner[j]), NULL) = Plus(Total(Mine(owner, s, owner[j]), NULL), t[j])
  <2> DEFINE a == Mine(owner, s, owner[j])
             b == Mine(owner, t, owner[j])
  <2>1. a \in [1..n -> Value] /\ b \in [1..n -> Value]
    BY SumsOfType
  <2>2. b[j] = Plus(a[j], t[j])
    BY <1>1 DEF Mine
  <2>3. \A i \in 1..n : i # j => b[i] = a[i]
    BY DEF Mine
  <2> HIDE DEF a, b
  <2>4. Total(b, NULL) = Plus(Total(a, NULL), t[j])
    BY <1>1, <2>1, <2>2, <2>3, TotalOfChanged
  <2>5. QED
    BY <2>4 DEF a, b
<1> DEFINE S == SumsOf(owner, s, m)
           U == SumsOf(owner, t, m)
<1>5. S \in [1..m -> Value] /\ U \in [1..m -> Value]
  BY SumsOfType
<1>6. U[owner[j]] = Plus(S[owner[j]], t[j])
  BY <1>1, <1>4 DEF SumsOf
<1>7. \A l \in 1..m : l # owner[j] => U[l] = S[l]
  BY <1>3 DEF SumsOf
<1> HIDE DEF S, U
<1>8. Total(U, NULL) = Plus(Total(S, NULL), t[j])
  BY <1>1, <1>5, <1>6, <1>7, TotalOfChanged
<1>9. QED
  BY <1>2, <1>8 DEF S, U

\* The sums of the owners add up to the sum of all.
LEMMA SumsAddUp ==
  ASSUME NEW n \in Nat, NEW m \in Nat, NEW owner \in [1..n -> 1..m],
         NEW s \in [1..n -> Value]
  PROVE  Total(SumsOf(owner, s, m), NULL) = Total(s, NULL)
<1> DEFINE First(k) == [i \in 1..n |-> IF i <= k THEN s[i] ELSE NULL]
           T == {k \in 0..n : Total(SumsOf(owner, First(k), m), NULL)
                                = Total(First(k), NULL)}
<1>1. ASSUME NEW k \in 0..n
      PROVE  First(k) \in [1..n -> Value]
  BY DEF Value
<1>2. 0 \in T
  <2>1. ASSUME NEW l \in 1..m
        PROVE  Total(Mine(owner, First(0), l), NULL) = NULL
    <3>1. Mine(owner, First(0), l) \in [1..n -> {NULL}]
      BY DEF Mine
    <3>2. QED
      BY <3>1, TotalOfNothing
  <2>2. SumsOf(owner, First(0), m) \in [1..m -> {NULL}]
    BY <2>1 DEF SumsOf
  <2>3. First(0) \in [1..n -> {NULL}]
    OBVIOUS
  <2> HIDE DEF First
  <2>4. Total(SumsOf(owner, First(0), m), NULL) = NULL /\ Total(First(0), NULL) = NULL
    BY <2>2, <2>3, TotalOfNothing
  <2>5. QED
    BY <2>4
<1>3. ASSUME NEW k \in 0..(n - 1), k \in T
      PROVE  k + 1 \in T
  <2>1. k + 1 \in 1..n /\ k + 1 \in 0..n /\ k \in 0..n
    OBVIOUS
  <2>2. First(k)[k + 1] = NULL
    BY <2>1
  <2>3. \A i \in 1..n : i # k + 1 => First(k + 1)[i] = First(k)[i]
    BY <2>1
  <2>4. First(k) \in [1..n -> Value] /\ First(k + 1) \in [1..n -> Value]
    BY <1>1, <2>1
  <2> DEFINE a == First(k)
             b == First(k + 1)
  <2>5. Total(SumsOf(owner, a, m), NULL) = Total(a, NULL)
    BY <1>3
  <2> HIDE DEF First
  <2>6. a[k + 1] = NULL /\ a \in [1..n -> Value] /\ b \in [1..n -> Value]
        /\ \A i \in 1..n : i # k + 1 => b[i] = a[i]
    BY <2>2, <2>3, <2>4
  <2> HIDE DEF a, b
  <2>7. /\ Total(b, NULL) = Plus(Total(a, NULL), b[k + 1])
        /\ Total(SumsOf(owner, b, m), NULL)
             = Plus(Total(SumsOf(owner, a, m), NULL), b[k + 1])
    BY <2>1, <2>6, OneMoreValue
  <2>8. Total(SumsOf(owner, b, m), NULL) = Total(b, NULL)
    BY <2>5, <2>7
  <2>9. QED
    BY <2>1, <2>8 DEF b
<1>4. First(n) = s
  OBVIOUS
<1> HIDE DEF T
<1>5. \A k \in 0..n : k \in T
  BY <1>2, <1>3, InductionUpTo
<1>6. n \in T
  BY <1>5
<1>7. Total(SumsOf(owner, First(n), m), NULL) = Total(First(n), NULL)
  <2> HIDE DEF First
  <2>1. QED
    BY <1>6 DEF T
<1>8. QED
  BY <1>4, <1>7

\* SetToSeq has each element of a finite set once.
LEMMA SetToSeqOnce ==
  ASSUME NEW S, IsFiniteSet(S)
  PROVE  /\ Cardinality(S) \in Nat
         /\ SetToSeq(S) \in [1..Cardinality(S) -> S]
         /\ \A a, b \in 1..Cardinality(S) : SetToSeq(S)[a] = SetToSeq(S)[b] => a = b
         /\ \A x \in S : \E a \in 1..Cardinality(S) : SetToSeq(S)[a] = x
<1> DEFINE n == Cardinality(S)
           s == SetToSeq(S)
<1>1. n \in Nat /\ ExistsBijection(1..n, S)
  BY FS_CardinalityType
<1>2. \E f \in [1..n -> S] : IsInjective(f)
  BY <1>1 DEF ExistsBijection, Bijection, Injection, IsInjective
<1>3. s \in [1..n -> S] /\ IsInjective(s)
  BY <1>2 DEF SetToSeq
<1>4. IsFiniteSet(1..n) /\ Cardinality(1..n) = n
  BY <1>1, FS_Interval
<1> HIDE DEF s
<1>5. s \in Injection(1..n, S)
  BY <1>3 DEF Injection, IsInjective
<1>6. s \in Surjection(1..n, S)
  BY <1>4, <1>5, FS_Injection
<1>7. \A a, b \in 1..n : s[a] = s[b] => a = b
  BY <1>3 DEF IsInjective
<1>8. \A x \in S : \E a \in 1..n : s[a] = x
  BY <1>6 DEF Surjection
<1>9. QED
  BY <1>1, <1>3, <1>7, <1>8 DEF s

\* The key of the group that a row is in.
KeyOf(p, g) == [e \in DOMAIN g |-> pages[p][g[e]]]

\* Each place is in the group of its key and in no other.
LEMMA GroupsPartition ==
  ASSUME NEW S, NEW rows, Once(rows, S), NEW g
  PROVE  LET keys == SetToSeq(GroupKeys(rows, g))
             m == Cardinality(GroupKeys(rows, g))
         IN /\ m \in Nat
            /\ DOMAIN keys = 1..m
            /\ \E owner \in [DOMAIN rows -> 1..m] : \A l \in 1..m :
                 Group(rows, g, keys[l]) = {i \in DOMAIN rows : owner[i] = l}
<1> DEFINE K == GroupKeys(rows, g)
           keys == SetToSeq(K)
           m == Cardinality(K)
           key == [i \in DOMAIN rows |-> KeyOf(rows[i], g)]
<1>1. DOMAIN rows = 1..Len(rows) /\ Len(rows) \in Nat
  BY DEF Once
<1>2. K = {KeyOf(rows[i], g) : i \in DOMAIN rows}
  BY DEF GroupKeys, KeyOf, ToSet
<1>3. key \in Surjection(DOMAIN rows, K)
  BY <1>2 DEF Surjection
<1>4. IsFiniteSet(DOMAIN rows)
  BY <1>1, FS_Interval
<1>5. IsFiniteSet(K)
  BY <1>3, <1>4, FS_Surjection
<1>6. /\ m \in Nat
      /\ keys \in [1..m -> K]
      /\ \A a, b \in 1..m : keys[a] = keys[b] => a = b
      /\ \A x \in K : \E a \in 1..m : keys[a] = x
  BY <1>5, SetToSeqOnce
<1> DEFINE owner == [i \in DOMAIN rows |-> CHOOSE a \in 1..m : keys[a] = KeyOf(rows[i], g)]
<1>7. ASSUME NEW i \in DOMAIN rows, NEW l \in 1..m
      PROVE  (\A e \in DOMAIN g : pages[rows[i]][g[e]] = keys[l][e])
               <=> keys[l] = KeyOf(rows[i], g)
  <2>1. keys[l] \in K
    BY <1>6
  <2>2. PICK k \in DOMAIN rows : keys[l] = KeyOf(rows[k], g)
    BY <1>2, <2>1
  <2>3. keys[l] = [e \in DOMAIN g |-> keys[l][e]]
    BY <2>2 DEF KeyOf
  <2> HIDE DEF keys
  <2>4. QED
    BY <2>3 DEF KeyOf
<1> HIDE DEF keys, m, K
<1>8. ASSUME NEW i \in DOMAIN rows
      PROVE  /\ owner[i] \in 1..m
             /\ \A l \in 1..m : owner[i] = l <=> keys[l] = KeyOf(rows[i], g)
  <2>1. KeyOf(rows[i], g) \in K
    BY <1>2
  <2>2. \E a \in 1..m : keys[a] = KeyOf(rows[i], g)
    BY <1>6, <2>1
  <2>3. owner[i] \in 1..m /\ keys[owner[i]] = KeyOf(rows[i], g)
    BY <2>2
  <2> HIDE DEF owner
  <2>4. QED
    BY <1>6, <2>3
<1>9. owner \in [DOMAIN rows -> 1..m]
  BY <1>8
<1> HIDE DEF owner
<1>10. ASSUME NEW l \in 1..m
       PROVE  Group(rows, g, keys[l]) = {i \in DOMAIN rows : owner[i] = l}
  BY <1>7, <1>8 DEF Group
<1>11. DOMAIN keys = 1..m
  BY <1>6
<1>12. QED
  BY <1>6, <1>9, <1>10, <1>11 DEF keys, m, K

\* Of each group and of all rows the same is counted and summed, whatever the clauses.
\* What is counted and summed over m groups is what is counted and summed over rows.
AddUp(rows, group, m) ==
  /\ Total([l \in 1..m |-> CountAll(group[l])], 0) = CountAll(DOMAIN rows)
  /\ \A c \in Columns :
       /\ Total([l \in 1..m |-> Count(rows, group[l], c)], 0)
            = Count(rows, DOMAIN rows, c)
       /\ Total([l \in 1..m |-> SumOf(rows, group[l], c)], NULL)
            = SumOf(rows, DOMAIN rows, c)

LEMMA AggregatesAddUp ==
  ASSUME NEW S, \A p \in S : pages[p] \in TableRow, NEW rows, Once(rows, S), NEW g,
         NEW m \in Nat, NEW owner \in [DOMAIN rows -> 1..m],
         NEW group, group = [l \in 1..m |-> {i \in DOMAIN rows : owner[i] = l}]
  PROVE  AddUp(rows, group, m)
<1>1. DOMAIN rows = 1..Len(rows) /\ Len(rows) \in Nat
  BY DEF Once
<1>2. IsFiniteSet(DOMAIN rows)
  BY <1>1, FS_Interval
<1>3. ASSUME NEW I, I \subseteq DOMAIN rows
      PROVE  Total([l \in 1..m |-> Cardinality({i \in I : owner[i] = l})], 0)
               = Cardinality(I)
  <2> DEFINE part == [l \in 1..m |-> {i \in I : owner[i] = l}]
  <2>1. IsFiniteSet(I)
    BY <1>2, <1>3, FS_Subset
  <2>2. part \in [1..m -> SUBSET I]
    OBVIOUS
  <2>3. \A i \in I : \E l \in 1..m : i \in part[l]
    BY <1>3
  <2>4. \A l, k \in 1..m : l # k => part[l] \cap part[k] = {}
    OBVIOUS
  <2>5. [l \in 1..m |-> Cardinality({i \in I : owner[i] = l})]
          = [l \in 1..m |-> Cardinality(part[l])]
    OBVIOUS
  <2> HIDE DEF part
  <2>6. Total([l \in 1..m |-> Cardinality(part[l])], 0) = Cardinality(I)
    BY <2>1, <2>2, <2>3, <2>4, CountsAddUp
  <2>7. QED
    BY <2>5, <2>6
<1>4. Total([l \in 1..m |-> CountAll(group[l])], 0) = CountAll(DOMAIN rows)
  <2>1. [l \in 1..m |-> CountAll(group[l])]
          = [l \in 1..m |-> Cardinality({i \in DOMAIN rows : owner[i] = l})]
    BY DEF CountAll
  <2>2. QED
    BY <1>3, <2>1 DEF CountAll
<1>5. ASSUME NEW c \in Columns
      PROVE  Total([l \in 1..m |-> Count(rows, group[l], c)], 0)
               = Count(rows, DOMAIN rows, c)
  <2> DEFINE I == {i \in DOMAIN rows : pages[rows[i]][c] # NULL}
  <2>1. ASSUME NEW l \in 1..m
        PROVE  {i \in group[l] : pages[rows[i]][c] # NULL} = {i \in I : owner[i] = l}
    OBVIOUS
  <2>2. [l \in 1..m |-> Count(rows, group[l], c)]
          = [l \in 1..m |-> Cardinality({i \in I : owner[i] = l})]
    BY <2>1 DEF Count
  <2>3. Total([l \in 1..m |-> Cardinality({i \in I : owner[i] = l})], 0) = Cardinality(I)
    BY <1>3
  <2>4. QED
    BY <2>2, <2>3 DEF Count
<1>6. ASSUME NEW c \in Columns
      PROVE  Total([l \in 1..m |-> SumOf(rows, group[l], c)], NULL)
               = SumOf(rows, DOMAIN rows, c)
  <2> DEFINE n == Len(rows)
             s == [i \in 1..n |-> pages[rows[i]][c]]
  <2>1. s \in [1..n -> Value]
    BY DEF Once, ToSet, TableRow, Value
  <2>2. SumOf(rows, DOMAIN rows, c) = Total(s, NULL)
    <3>1. [i \in DOMAIN rows |-> IF i \in DOMAIN rows THEN pages[rows[i]][c] ELSE NULL] = s
      BY <1>1
    <3>2. QED
      BY <3>1 DEF SumOf
  <2>3. ASSUME NEW l \in 1..m
        PROVE  SumOf(rows, group[l], c) = Total(Mine(owner, s, l), NULL)
    <3>1. [i \in DOMAIN rows |-> IF i \in group[l] THEN pages[rows[i]][c] ELSE NULL]
            = Mine(owner, s, l)
      BY <1>1 DEF Mine
    <3>2. QED
      BY <3>1 DEF SumOf
  <2>4. [l \in 1..m |-> SumOf(rows, group[l], c)] = SumsOf(owner, s, m)
    BY <2>3 DEF SumsOf
  <2> HIDE DEF s
  <2>5. Total(SumsOf(owner, s, m), NULL) = Total(s, NULL)
    <3>1. n \in Nat /\ owner \in [1..n -> 1..m]
      BY <1>1
    <3> HIDE DEF n
    <3>2. QED
      BY <2>1, <3>1, SumsAddUp
  <2>6. QED
    BY <2>2, <2>4, <2>5
<1>7. QED
  BY <1>4, <1>5, <1>6 DEF AddUp

\* GROUP BY neither loses a row nor counts one twice: what COUNT and SUM give for the
\* groups adds up to what they give without it, for any clauses and any rows.
THEOREM GroupsTheorem == Spec => []GroupsAddUp
<1>1. ASSUME StoreInv, NEW t \in Tables, NEW w \in Answered(t), NEW g \in Groupings
      PROVE  LET rows == MatchingRows(t, w)
                 keys == SetToSeq(GroupKeys(rows, g))
                 Of(l) == Group(rows, g, keys[l])
             IN /\ Total([l \in DOMAIN keys |-> CountAll(Of(l))], 0) = CountAll(DOMAIN rows)
                /\ \A c \in Columns :
                     /\ Total([l \in DOMAIN keys |-> Count(rows, Of(l), c)], 0)
                          = Count(rows, DOMAIN rows, c)
                     /\ Total([l \in DOMAIN keys |-> SumOf(rows, Of(l), c)], NULL)
                          = SumOf(rows, DOMAIN rows, c)
  <2> DEFINE rows == MatchingRows(t, w)
             keys == SetToSeq(GroupKeys(rows, g))
             m == Cardinality(GroupKeys(rows, g))
             group == [l \in DOMAIN keys |-> Group(rows, g, keys[l])]
  <2>1. w \in Wheres
    BY DEF Answered
  <2>2. Once(rows, Matching(t, w)) /\ \A p \in Matching(t, w) : pages[p] \in TableRow
    BY <1>1, <2>1, MatchingRowsOnce
  <2> HIDE DEF rows
  <2>3. /\ m \in Nat
        /\ DOMAIN keys = 1..m
        /\ \E owner \in [DOMAIN rows -> 1..m] : \A l \in 1..m :
             Group(rows, g, keys[l]) = {i \in DOMAIN rows : owner[i] = l}
    BY <2>2, GroupsPartition
  <2> HIDE DEF keys, m
  <2>4. PICK owner \in [DOMAIN rows -> 1..m] : \A l \in 1..m :
          Group(rows, g, keys[l]) = {i \in DOMAIN rows : owner[i] = l}
    BY <2>3
  <2>5. group = [l \in 1..m |-> {i \in DOMAIN rows : owner[i] = l}]
    BY <2>3, <2>4
  <2>6. \A l \in 1..m : group[l] = Group(rows, g, keys[l])
    BY <2>3
  <2> HIDE DEF group
  <2>7. AddUp(rows, group, m)
    BY <2>2, <2>3, <2>4, <2>5, AggregatesAddUp
  <2>8. /\ [l \in 1..m |-> CountAll(group[l])]
             = [l \in DOMAIN keys |-> CountAll(Group(rows, g, keys[l]))]
        /\ \A c \in Columns :
             /\ [l \in 1..m |-> Count(rows, group[l], c)]
                  = [l \in DOMAIN keys |-> Count(rows, Group(rows, g, keys[l]), c)]
             /\ [l \in 1..m |-> SumOf(rows, group[l], c)]
                  = [l \in DOMAIN keys |-> SumOf(rows, Group(rows, g, keys[l]), c)]
    BY <2>3, <2>6
  <2>9. QED
    BY <2>7, <2>8 DEF AddUp, keys, rows
<1>2. StoreInv => GroupsAddUp
  BY <1>1 DEF GroupsAddUp
<1>3. QED
  BY <1>2, StoreInvariant, PTL
=============================================================================
