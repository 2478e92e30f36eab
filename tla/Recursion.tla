---------------------------- MODULE Recursion ----------------------------
(***************************************************************************)
(* That functions on the numbers can be defined by recursion.  A module    *)
(* with such a definition takes an instance of this one, with Step for     *)
(* what its definition makes of the value before: p stands for all else    *)
(* that the definition depends on.                                         *)
(***************************************************************************)
EXTENDS Integers, NaturalsInduction, WellFoundedInduction, TLAPS

CONSTANT Step(_, _, _)

-----------------------------------------------------------------------------
(* Induction, for a set in place of a statement *)

LEMMA LeastNumber ==
    ASSUME NEW S, S \subseteq Nat, S # {}
    PROVE  \E m \in S : \A k \in S : m <= k
<1> DEFINE Below == {pair \in Nat \X Nat : pair[1] < pair[2]}
<1>1. IsWellFoundedOn(Below, Nat)
  BY NatLessThanWellFounded DEF OpToRel
<1> HIDE DEF Below
<1>2. PICK m \in S : \A k \in S : <<k, m>> \notin Below
  BY <1>1, WFMin, Zenon
<1>3. \A k \in S : k < m => <<k, m>> \in Below
  BY DEF Below
<1>4. \A k \in S : ~(k < m)
  BY <1>2, <1>3, Zenon
<1>5. \A k \in S : m <= k
  BY <1>4
<1>6. QED
  BY <1>5

LEMMA Induction ==
    ASSUME NEW T, 0 \in T, \A m \in Nat : m \in T => m + 1 \in T
    PROVE  Nat \subseteq T
<1> DEFINE Missing == {k \in Nat : k \notin T}
<1>1. SUFFICES ASSUME Missing # {} PROVE FALSE
  OBVIOUS
<1>2. PICK k \in Missing : \A l \in Missing : k <= l
  BY <1>1, LeastNumber
<1>3. k \in Nat /\ k # 0
  BY <1>2
<1>4. k - 1 \in Nat /\ (k - 1) + 1 = k
  BY <1>3
<1>5. k - 1 \notin Missing
  BY <1>2, <1>4
<1>6. k - 1 \in T
  BY <1>4, <1>5
<1>7. QED
  BY <1>2, <1>4, <1>6

-----------------------------------------------------------------------------
(* Recursion *)

\* The values up to m.
First(p, m, f) == f = [k \in 0..m |-> Step(p, k, f[k - 1])]

LEMMA FirstValues ==
    ASSUME NEW p, \A x, y : Step(p, 0, x) = Step(p, 0, y), NEW m \in Nat
    PROVE  \E f : First(p, m, f)
<1> DEFINE T == {n \in Nat : \E f : First(p, n, f)}
<1>1. 0 \in T
  <2> DEFINE f == [k \in 0..0 |-> Step(p, 0, 0)]
  <2>1. \A k \in 0..0 : f[k] = Step(p, k, f[k - 1])
    <3>1. \A k \in 0..0 : k = 0
      OBVIOUS
    <3>2. QED
      BY <3>1
  <2> HIDE DEF f
  <2>2. f = [k \in 0..0 |-> f[k]]
    BY DEF f
  <2>3. First(p, 0, f)
    BY <2>1, <2>2 DEF First
  <2>4. QED
    BY <2>3
<1>2. ASSUME NEW n \in Nat, n \in T
      PROVE  n + 1 \in T
  <2>1. PICK f : First(p, n, f)
    BY <1>2
  <2> DEFINE g == [k \in 0..(n + 1) |-> IF k <= n THEN f[k] ELSE Step(p, n + 1, f[n])]
  <2>2. ASSUME NEW k \in 0..(n + 1)
        PROVE  g[k] = Step(p, k, g[k - 1])
    <3>1. CASE k <= n
      <4>1. k \in 0..n
        BY <3>1
      <4>2. f[k] = Step(p, k, f[k - 1])
        BY <2>1, <4>1 DEF First
      <4>3. CASE k = 0
        BY <4>1, <4>2, <4>3
      <4>4. CASE k # 0
        <5>1. k - 1 \in 0..(n + 1) /\ k - 1 <= n
          BY <4>1, <4>4
        <5>2. g[k - 1] = f[k - 1]
          BY <5>1
        <5>3. g[k] = f[k]
          BY <3>1
        <5>4. QED
          BY <4>2, <5>2, <5>3
      <4>5. QED
        BY <4>3, <4>4
    <3>2. CASE k = n + 1
      <4>1. k - 1 = n /\ n \in 0..(n + 1) /\ ~(k <= n)
        BY <3>2
      <4>2. QED
        BY <3>2, <4>1
    <3>3. QED
      BY <3>1, <3>2
  <2> HIDE DEF g
  <2>3. g = [k \in 0..(n + 1) |-> g[k]]
    BY DEF g
  <2>4. First(p, n + 1, g)
    BY <2>2, <2>3 DEF First
  <2>5. QED
    BY <2>4
<1>3. Nat \subseteq T
  <2> HIDE DEF T
  <2>1. QED
    BY <1>1, <1>2, Induction
<1>4. QED
  BY <1>3

LEMMA FirstValuesUnique ==
    ASSUME NEW p, \A x, y : Step(p, 0, x) = Step(p, 0, y),
           NEW m \in Nat, NEW n \in Nat, NEW f, NEW g,
           First(p, m, f), First(p, n, g)
    PROVE  \A k \in Nat : k <= m /\ k <= n => f[k] = g[k]
<1> DEFINE T == {k \in Nat : k <= m /\ k <= n => f[k] = g[k]}
<1>1. \A k \in Nat : /\ k <= m => f[k] = Step(p, k, f[k - 1])
                     /\ k <= n => g[k] = Step(p, k, g[k - 1])
  BY DEF First
<1>2. 0 \in T
  BY <1>1
<1>3. ASSUME NEW k \in Nat, k \in T
      PROVE  k + 1 \in T
  <2>1. k + 1 \in Nat /\ (k + 1) - 1 = k
    OBVIOUS
  <2>2. SUFFICES ASSUME k + 1 <= m, k + 1 <= n PROVE f[k + 1] = g[k + 1]
    BY <2>1
  <2>3. f[k] = g[k]
    BY <1>3, <2>2
  <2>4. QED
    BY <1>1, <2>1, <2>2, <2>3
<1>4. Nat \subseteq T
  <2> HIDE DEF T
  <2>1. QED
    BY <1>2, <1>3, Induction
<1>5. QED
  BY <1>4

\* A definition by recursion defines a function.
THEOREM RecursionExists ==
    ASSUME NEW p, \A x, y : Step(p, 0, x) = Step(p, 0, y)
    PROVE  \E f : f = [h \in Nat |-> Step(p, h, f[h - 1])]
<1> DEFINE G(m) == CHOOSE f : First(p, m, f)
           f == [h \in Nat |-> G(h)[h]]
<1>1. \A m \in Nat : First(p, m, G(m))
  BY FirstValues
<1> HIDE DEF G
<1>2. ASSUME NEW h \in Nat
      PROVE  f[h] = Step(p, h, f[h - 1])
  <2>1. G(h)[h] = Step(p, h, G(h)[h - 1])
    <3>1. h \in 0..h
      OBVIOUS
    <3>2. QED
      BY <1>1, <3>1 DEF First
  <2>2. CASE h = 0
    BY <2>1, <2>2
  <2>3. CASE h # 0
    <3>1. h - 1 \in Nat /\ h - 1 <= h
      BY <2>3
    <3>2. G(h)[h - 1] = G(h - 1)[h - 1]
      BY <1>1, <3>1, FirstValuesUnique
    <3>3. QED
      BY <2>1, <3>1, <3>2
  <2>4. QED
    BY <2>2, <2>3
<1> HIDE DEF f
<1>3. f = [h \in Nat |-> f[h]]
  BY DEF f
<1>4. f = [h \in Nat |-> Step(p, h, f[h - 1])]
  BY <1>2, <1>3
<1>5. QED
  BY <1>4
=============================================================================
