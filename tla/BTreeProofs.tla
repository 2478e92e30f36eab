------------------------------ MODULE BTreeProofs ------------------------------
(***************************************************************************)
(* What holds of the B-tree index for every set of keys and pointers,      *)
(* every order that the constructor allows and trees of every height: all  *)
(* nodes are within their bounds, all leaves have the same depth and the   *)
(* entries are in order (AlwaysWellFormed), sequence numbers are unique    *)
(* (TypeCorrect), and the index is the sorted list of pairs that it stands *)
(* for (IndexIsSorted).                                                    *)
(*                                                                         *)
(* Insertions, deletions and bulk loads go through a tree by recursion.    *)
(* Recursion shows that a function defined so exists; what it returns for  *)
(* a tree follows by induction on the number of levels, as the set of      *)
(* heights for which it holds contains all numbers.                        *)
(***************************************************************************)
EXTENDS BTree, SequenceTheorems, TLAPS

-----------------------------------------------------------------------------
(* The functions that the model defines by recursion, and what they are at   *)
(* each number.                                                              *)

\* Seq of a set, and of the empty set.
LEMMA SeqOfNothing == Seq({}) = {<<>>}
<1>1. \A s \in Seq({}) : s = <<>>
  BY EmptySeq
<1>2. <<>> \in Seq({})
  BY EmptySeq
<1>3. QED
  BY <1>1, <1>2

TreeStep(p, h, x) == IF h = 0 THEN {} ELSE Node(x)
TreeRecursion == INSTANCE Recursion WITH Step <- TreeStep

\* Trees of more levels, by their definition.
LEMMA TreeRule ==
    \A h \in Nat : Tree[h] = IF h = 0 THEN {} ELSE Node(Tree[h - 1])
<1> DEFINE Rule(f) == f = [h \in Nat |-> IF h = 0 THEN {} ELSE Node(f[h - 1])]
<1>1. \E f : Rule(f)
  <2>1. \A x, y : TreeStep(0, 0, x) = TreeStep(0, 0, y)
    BY DEF TreeStep
  <2>2. \E f : f = [h \in Nat |-> TreeStep(0, h, f[h - 1])]
    BY <2>1, TreeRecursion!RecursionExists
  <2>3. QED
    BY <2>2 DEF TreeStep
<1>2. Rule(Tree)
  BY <1>1 DEF Tree
<1>3. QED
  BY <1>2

ConcatStep(ss, i, x) == IF i = 0 THEN <<>> ELSE x \o ss[i]
ConcatRecursion == INSTANCE Recursion WITH Step <- ConcatStep

\* The first i of the sequences.
Concats(ss, f) == f = [i \in Nat |-> IF i = 0 THEN <<>> ELSE f[i - 1] \o ss[i]]

\* Sequences one after the other, one at a time.
LEMMA ConcatRule ==
    ASSUME NEW ss
    PROVE  \E f : Concats(ss, f) /\ Concat(ss) = f[Len(ss)]
<1>1. \E f : Concats(ss, f)
  <2>1. \A x, y : ConcatStep(ss, 0, x) = ConcatStep(ss, 0, y)
    BY DEF ConcatStep
  <2>2. \E f : f = [h \in Nat |-> ConcatStep(ss, h, f[h - 1])]
    BY <2>1, ConcatRecursion!RecursionExists
  <2>3. QED
    BY <2>2 DEF ConcatStep, Concats
<1> DEFINE F == CHOOSE f : Concats(ss, f)
<1>2. Concats(ss, F)
  BY <1>1
<1>3. Concat(ss) = F[Len(ss)]
  BY DEF Concat, Concats
<1> HIDE DEF F
<1>4. QED
  BY <1>2, <1>3

SortedStep(es, i, x) == IF i = 0 THEN <<>> ELSE Inserted(x, es[i])
SortedRecursion == INSTANCE Recursion WITH Step <- SortedStep

\* The first i of the entries.
Sorts(es, f) == f = [i \in Nat |-> IF i = 0 THEN <<>> ELSE Inserted(f[i - 1], es[i])]

\* Sorting inserts one entry at a time.
LEMMA SortedRule ==
    ASSUME NEW es
    PROVE  \E f : Sorts(es, f) /\ Sorted(es) = f[Len(es)]
<1>1. \E f : Sorts(es, f)
  <2>1. \A x, y : SortedStep(es, 0, x) = SortedStep(es, 0, y)
    BY DEF SortedStep
  <2>2. \E f : f = [h \in Nat |-> SortedStep(es, h, f[h - 1])]
    BY <2>1, SortedRecursion!RecursionExists
  <2>3. QED
    BY <2>2 DEF SortedStep, Sorts
<1> DEFINE F == CHOOSE f : Sorts(es, f)
<1>2. Sorts(es, F)
  BY <1>1
<1>3. Sorted(es) = F[Len(es)]
  BY DEF Sorted, Sorts
<1> HIDE DEF F
<1>4. QED
  BY <1>2, <1>3

PlacesStep(p, i, x) ==
    IF i = 0 THEN <<>> ELSE IF i \in p[2] THEN Append(x, p[1][i]) ELSE x
PlacesRecursion == INSTANCE Recursion WITH Step <- PlacesStep

Picks(s, places, f) ==
    f = [i \in Nat |-> IF i = 0 THEN <<>>
                       ELSE IF i \in places THEN Append(f[i - 1], s[i])
                       ELSE f[i - 1]]

\* The elements on some places, picked one at a time.
LEMMA PlacesRule ==
    ASSUME NEW s, NEW places
    PROVE  \E f : Picks(s, places, f) /\ OnPlaces(s, places) = f[Len(s)]
<1>1. \E f : Picks(s, places, f)
  <2> DEFINE p == <<s, places>>
  <2>1. \A x, y : PlacesStep(p, 0, x) = PlacesStep(p, 0, y)
    BY DEF PlacesStep
  <2>2. \E f : f = [h \in Nat |-> PlacesStep(p, h, f[h - 1])]
    BY <2>1, PlacesRecursion!RecursionExists
  <2>3. p[1] = s /\ p[2] = places
    OBVIOUS
  <2> HIDE DEF p
  <2>4. QED
    BY <2>2, <2>3 DEF PlacesStep, Picks
<1> DEFINE F == CHOOSE f : Picks(s, places, f)
<1>2. Picks(s, places, F)
  BY <1>1
<1>3. OnPlaces(s, places) = F[Len(s)]
  BY DEF OnPlaces, Picks
<1> HIDE DEF F
<1>4. QED
  BY <1>2, <1>3

LevelStep(p, k, x) == IF k = 0 THEN p[1] ELSE Above(x, p[2])
LevelRecursion == INSTANCE Recursion WITH Step <- LevelStep

Levels(level, o, f) == f = [k \in Nat |-> IF k = 0 THEN level ELSE Above(f[k - 1], o)]

\* Levels are put on top of a level, one at a time.
LEMMA GrowRule ==
    ASSUME NEW level, NEW o
    PROVE  \E f : Levels(level, o, f) /\ Grow(level, o) = f[Len(level)][1]
<1>1. \E f : Levels(level, o, f)
  <2> DEFINE p == <<level, o>>
  <2>1. \A x, y : LevelStep(p, 0, x) = LevelStep(p, 0, y)
    BY DEF LevelStep
  <2>2. \E f : f = [h \in Nat |-> LevelStep(p, h, f[h - 1])]
    BY <2>1, LevelRecursion!RecursionExists
  <2>3. p[1] = level /\ p[2] = o
    OBVIOUS
  <2> HIDE DEF p
  <2>4. QED
    BY <2>2, <2>3 DEF LevelStep, Levels
<1> DEFINE F == CHOOSE f : Levels(level, o, f)
<1>2. Levels(level, o, F)
  BY <1>1
<1>3. Grow(level, o) = F[Len(level)][1]
  BY DEF Grow, Levels
<1> HIDE DEF F
<1>4. QED
  BY <1>2, <1>3

RightStep(o, h, x) == IF h = 0 THEN {} ELSE Right(h, o, x)
RightRecursion == INSTANCE Recursion WITH Step <- RightStep

\* Right trees have right children, by their definition.
LEMMA RightRule ==
    ASSUME NEW o
    PROVE  \A h \in Nat : RightTrees(o)[h] =
                IF h = 0 THEN {} ELSE Right(h, o, RightTrees(o)[h - 1])
<1> DEFINE Rule(f) == f = [h \in Nat |-> IF h = 0 THEN {} ELSE Right(h, o, f[h - 1])]
<1>1. \E f : Rule(f)
  <2>1. \A x, y : RightStep(o, 0, x) = RightStep(o, 0, y)
    BY DEF RightStep
  <2>2. \E f : f = [h \in Nat |-> RightStep(o, h, f[h - 1])]
    BY <2>1, RightRecursion!RecursionExists
  <2>3. QED
    BY <2>2 DEF RightStep
<1>2. Rule(RightTrees(o))
  BY <1>1 DEF RightTrees
<1>3. QED
  BY <1>2

-----------------------------------------------------------------------------
(* Functions on trees *)

WalkStep(p, h, x) == [n \in Tree[h] |-> WalkNode(n, x)]
WalkRecursion == INSTANCE Recursion WITH Step <- WalkStep

\* There is no tree without levels.
LEMMA NoTree == Tree[0] = {}
BY TreeRule

\* The entries of a tree are those of its children.
LEMMA WalkAtRule ==
    \A h \in Nat : WalkAt[h] = [n \in Tree[h] |-> WalkNode(n, WalkAt[h - 1])]
<1> DEFINE Rule(f) == f = [h \in Nat |-> [n \in Tree[h] |-> WalkNode(n, f[h - 1])]]
<1>1. \E f : Rule(f)
  <2>1. \A x, y : WalkStep(0, 0, x) = WalkStep(0, 0, y)
    BY NoTree DEF WalkStep
  <2>2. \E f : f = [h \in Nat |-> WalkStep(0, h, f[h - 1])]
    BY <2>1, WalkRecursion!RecursionExists
  <2>3. QED
    BY <2>2 DEF WalkStep
<1>2. Rule(WalkAt)
  BY <1>1 DEF WalkAt
<1>3. QED
  BY <1>2

InsertStep(p, h, x) == [n \in Tree[h] |-> InsertNode(n, p[1], p[2], x)]
InsertRecursion == INSTANCE Recursion WITH Step <- InsertStep

Inserts(e, o, f) == f = [h \in Nat |-> [n \in Tree[h] |-> InsertNode(n, e, o, f[h - 1])]]

\* An insertion into a tree is one into a child.
LEMMA InsertRule ==
    ASSUME NEW e, NEW o
    PROVE  \E f : Inserts(e, o, f) /\ \A n : InsertInto(n, e, o) = f[Height(n)][n]
<1>1. \E f : Inserts(e, o, f)
  <2> DEFINE p == <<e, o>>
  <2>1. \A x, y : InsertStep(p, 0, x) = InsertStep(p, 0, y)
    BY NoTree DEF InsertStep
  <2>2. \E f : f = [h \in Nat |-> InsertStep(p, h, f[h - 1])]
    BY <2>1, InsertRecursion!RecursionExists
  <2>3. p[1] = e /\ p[2] = o
    OBVIOUS
  <2> HIDE DEF p
  <2>4. QED
    BY <2>2, <2>3 DEF InsertStep, Inserts
<1> DEFINE F == CHOOSE f : Inserts(e, o, f)
<1>2. Inserts(e, o, F)
  BY <1>1
<1>3. \A n : InsertInto(n, e, o) = F[Height(n)][n]
  BY DEF InsertInto, Inserts
<1> HIDE DEF F
<1>4. QED
  BY <1>2, <1>3

DeleteStep(p, h, x) == [n \in Tree[h] |-> DeleteNode(n, p[1], p[2], x)]
DeleteRecursion == INSTANCE Recursion WITH Step <- DeleteStep

Deletes(k, ps, f) == f = [h \in Nat |-> [n \in Tree[h] |-> DeleteNode(n, k, ps, f[h - 1])]]

\* A deletion from a tree is one from each child.
LEMMA DeleteRule ==
    ASSUME NEW k, NEW ps
    PROVE  \E f : Deletes(k, ps, f) /\ \A n : DeleteFrom(n, k, ps) = f[Height(n)][n]
<1>1. \E f : Deletes(k, ps, f)
  <2> DEFINE p == <<k, ps>>
  <2>1. \A x, y : DeleteStep(p, 0, x) = DeleteStep(p, 0, y)
    BY NoTree DEF DeleteStep
  <2>2. \E f : f = [h \in Nat |-> DeleteStep(p, h, f[h - 1])]
    BY <2>1, DeleteRecursion!RecursionExists
  <2>3. p[1] = k /\ p[2] = ps
    OBVIOUS
  <2> HIDE DEF p
  <2>4. QED
    BY <2>2, <2>3 DEF DeleteStep, Deletes
<1> DEFINE F == CHOOSE f : Deletes(k, ps, f)
<1>2. Deletes(k, ps, F)
  BY <1>1
<1>3. \A n : DeleteFrom(n, k, ps) = F[Height(n)][n]
  BY DEF DeleteFrom, Deletes
<1> HIDE DEF F
<1>4. QED
  BY <1>2, <1>3

-----------------------------------------------------------------------------
(* Trees *)

AllTrees == UNION {Tree[h] : h \in Nat}

\* A tree is a node whose children are trees of one level less.
LEMMA TreeIsNode ==
    ASSUME NEW h \in Nat, NEW n \in Tree[h]
    PROVE  /\ h - 1 \in Nat
           /\ n.keys \in Seq(Keys)
           /\ n.entries \in Seq(Entry)
           /\ n.children \in Seq(Tree[h - 1])
           /\ n = [keys |-> n.keys, entries |-> n.entries, children |-> n.children]
<1>1. h # 0
  BY TreeRule
<1>2. n \in Node(Tree[h - 1])
  BY <1>1, TreeRule
<1>3. QED
  BY <1>1, <1>2 DEF Node

\* A node on top of trees is a tree of one level more.
LEMMA NodeIsTree ==
    ASSUME NEW h \in Nat, NEW ks \in Seq(Keys), NEW es \in Seq(Entry),
           NEW cs \in Seq(Tree[h])
    PROVE  [keys |-> ks, entries |-> es, children |-> cs] \in Tree[h + 1]
<1>1. h + 1 \in Nat /\ h + 1 # 0 /\ (h + 1) - 1 = h
  OBVIOUS
<1>2. Tree[h + 1] = Node(Tree[h])
  BY <1>1, TreeRule
<1>3. QED
  BY <1>2 DEF Node

\* A tree of fewer levels is one of more.
LEMMA TreeGrows ==
    ASSUME NEW h \in Nat
    PROVE  Tree[h] \subseteq Tree[h + 1]
<1> DEFINE T == {k \in Nat : Tree[k] \subseteq Tree[k + 1]}
<1>1. 0 \in T
  BY NoTree
<1>2. ASSUME NEW k \in Nat, k \in T
      PROVE  k + 1 \in T
  <2>1. SUFFICES ASSUME NEW n \in Tree[k + 1] PROVE n \in Tree[(k + 1) + 1]
    OBVIOUS
  <2>2. /\ n.keys \in Seq(Keys)
        /\ n.entries \in Seq(Entry)
        /\ n.children \in Seq(Tree[k])
        /\ n = [keys |-> n.keys, entries |-> n.entries, children |-> n.children]
    <3>1. k + 1 \in Nat /\ (k + 1) - 1 = k
      OBVIOUS
    <3>2. QED
      BY <2>1, <3>1, TreeIsNode
  <2>3. n.children \in Seq(Tree[k + 1])
    BY <1>2, <2>2, SeqMonotonic
  <2>4. QED
    BY <2>2, <2>3, NodeIsTree
<1>3. Nat \subseteq T
  <2> HIDE DEF T
  <2>1. QED
    BY <1>1, <1>2, TreeRecursion!Induction
<1>4. QED
  BY <1>3

\* A tree of up to k levels is one of up to h levels, for a larger h.
LEMMA TreeMonotonic ==
    ASSUME NEW h \in Nat, NEW k \in Nat, k <= h
    PROVE  Tree[k] \subseteq Tree[h]
<1> DEFINE T == {d \in Nat : Tree[k] \subseteq Tree[k + d]}
<1>1. 0 \in T
  OBVIOUS
<1>2. ASSUME NEW d \in Nat, d \in T
      PROVE  d + 1 \in T
  <2>1. Tree[k + d] \subseteq Tree[(k + d) + 1]
    BY TreeGrows
  <2>2. (k + d) + 1 = k + (d + 1)
    OBVIOUS
  <2>3. QED
    BY <1>2, <2>1, <2>2
<1>3. Nat \subseteq T
  <2> HIDE DEF T
  <2>1. QED
    BY <1>1, <1>2, TreeRecursion!Induction
<1>4. h - k \in T
  BY <1>3
<1>5. k + (h - k) = h
  OBVIOUS
<1>6. QED
  BY <1>4, <1>5

\* The height is the least number of levels.
LEMMA HeightRule ==
    ASSUME NEW k \in Nat, NEW n \in Tree[k]
    PROVE  /\ Height(n) \in Nat
           /\ n \in Tree[Height(n)]
           /\ Height(n) <= k
<1> DEFINE S == {h \in Nat : n \in Tree[h]}
           Rule(f) == f = [h \in Nat |-> IF n \in Tree[h] THEN h ELSE f[h + 1]]
           F == CHOOSE f : Rule(f)
<1>1. PICK m \in S : \A h \in S : m <= h
  <2>1. S \subseteq Nat /\ S # {}
    OBVIOUS
  <2> HIDE DEF S
  <2>2. QED
    BY <2>1, TreeRecursion!LeastNumber
<1>2. m \in Nat /\ n \in Tree[m] /\ m <= k
  BY <1>1
<1>3. \A h \in Nat : n \in Tree[h] <=> h >= m
  BY <1>1, <1>2, TreeMonotonic
<1>4. \E f : Rule(f)
  <2> DEFINE g == [h \in Nat |-> IF h >= m THEN h ELSE m]
  <2>1. ASSUME NEW h \in Nat
        PROVE  g[h] = IF n \in Tree[h] THEN h ELSE g[h + 1]
    <3>1. CASE h >= m
      BY <1>3, <3>1
    <3>2. CASE h < m
      <4>1. h + 1 \in Nat /\ (h + 1 >= m => h + 1 = m)
        BY <1>2, <3>2
      <4>2. g[h + 1] = m
        BY <4>1
      <4>3. QED
        BY <1>2, <1>3, <3>2, <4>2
    <3>3. QED
      BY <1>2, <3>1, <3>2
  <2>2. g = [h \in Nat |-> g[h]]
    OBVIOUS
  <2> HIDE DEF g
  <2>3. Rule(g)
    BY <2>1, <2>2
  <2>4. QED
    BY <2>3
<1>5. Rule(F)
  BY <1>4
<1>6. F[0] = m
  <2> DEFINE T == {d \in Nat : d <= m => F[m - d] = m}
  <2>1. \A h \in Nat : F[h] = IF n \in Tree[h] THEN h ELSE F[h + 1]
    BY <1>5
  <2> HIDE DEF F, S
  <2>2. 0 \in T
    BY <1>2, <2>1
  <2>3. ASSUME NEW d \in Nat, d \in T
        PROVE  d + 1 \in T
    <3>1. SUFFICES ASSUME d + 1 <= m PROVE F[m - (d + 1)] = m
      OBVIOUS
    <3>2. /\ m - (d + 1) \in Nat
          /\ ~(m - (d + 1) >= m)
          /\ (m - (d + 1)) + 1 = m - d
      BY <1>2, <3>1
    <3>3. n \notin Tree[m - (d + 1)]
      BY <1>3, <3>2
    <3>4. F[m - d] = m
      BY <1>2, <2>3, <3>1
    <3>5. QED
      BY <2>1, <3>2, <3>3, <3>4
  <2>4. Nat \subseteq T
    <3> HIDE DEF T
    <3>1. QED
      BY <2>2, <2>3, TreeRecursion!Induction
  <2>5. m \in T /\ m - m = 0
    BY <1>2, <2>4
  <2>6. QED
    BY <1>2, <2>5
<1>7. Height(n) = F[0]
  BY DEF Height
<1>8. QED
  BY <1>2, <1>6, <1>7

-----------------------------------------------------------------------------
(* Walks *)

\* How many levels are looked at does not matter.
LEMMA WalkAtAny ==
    ASSUME NEW h \in Nat
    PROVE  \A k \in Nat : \A n \in Tree[h] : n \in Tree[k] => WalkAt[h][n] = WalkAt[k][n]
<1> DEFINE P(m) == \A k \in Nat : \A n \in Tree[m] :
                    n \in Tree[k] => WalkAt[m][n] = WalkAt[k][n]
           T == {m \in Nat : P(m)}
<1>1. 0 \in T
  BY NoTree
<1>2. ASSUME NEW m \in Nat, P(m)
      PROVE  P(m + 1)
  <2>1. SUFFICES ASSUME NEW k \in Nat, NEW n \in Tree[m + 1], n \in Tree[k]
                 PROVE  WalkAt[m + 1][n] = WalkAt[k][n]
    OBVIOUS
  <2>2. m + 1 \in Nat /\ (m + 1) - 1 = m
    OBVIOUS
  <2>3. k - 1 \in Nat /\ n.children \in Seq(Tree[m]) /\ n.children \in Seq(Tree[k - 1])
    BY <2>1, <2>2, TreeIsNode
  <2>4. \A i \in DOMAIN n.children :
            WalkAt[m][n.children[i]] = WalkAt[k - 1][n.children[i]]
    BY <1>2, <2>3, ElementOfSeq
  <2>5. WalkNode(n, WalkAt[m]) = WalkNode(n, WalkAt[k - 1])
    <3>1. [i \in DOMAIN n.children |-> WalkAt[m][n.children[i]]]
            = [i \in DOMAIN n.children |-> WalkAt[k - 1][n.children[i]]]
      BY <2>4
    <3>2. QED
      BY <3>1 DEF WalkNode
  <2>6. WalkAt[m + 1][n] = WalkNode(n, WalkAt[m])
    BY <2>1, <2>2, WalkAtRule
  <2>7. WalkAt[k][n] = WalkNode(n, WalkAt[k - 1])
    BY <2>1, WalkAtRule
  <2>8. QED
    BY <2>5, <2>6, <2>7
<1>3. Nat \subseteq T
  <2>1. \A m \in Nat : m \in T => m + 1 \in T
    BY <1>2
  <2> HIDE DEF T
  <2>2. QED
    BY <1>1, <2>1, TreeRecursion!Induction
<1>4. QED
  BY <1>3

\* The entries of a node are its own or those of its children.
LEMMA WalkRule ==
    ASSUME NEW h \in Nat, NEW n \in Tree[h]
    PROVE  Walk(n) = IF IsLeaf(n) THEN n.entries
                     ELSE Concat([i \in DOMAIN n.children |-> Walk(n.children[i])])
<1>1. /\ h - 1 \in Nat
      /\ n.children \in Seq(Tree[h - 1])
  BY TreeIsNode
<1>2. Height(n) \in Nat /\ n \in Tree[Height(n)]
  BY HeightRule
<1>3. Walk(n) = WalkAt[h][n]
  BY <1>2, WalkAtAny DEF Walk
<1>4. WalkAt[h][n] = WalkNode(n, WalkAt[h - 1])
  BY WalkAtRule
<1>5. \A i \in DOMAIN n.children : WalkAt[h - 1][n.children[i]] = Walk(n.children[i])
  <2>1. SUFFICES ASSUME NEW i \in DOMAIN n.children
                 PROVE  WalkAt[h - 1][n.children[i]] = Walk(n.children[i])
    OBVIOUS
  <2>2. n.children[i] \in Tree[h - 1]
    BY <1>1, ElementOfSeq
  <2>3. /\ Height(n.children[i]) \in Nat
        /\ n.children[i] \in Tree[Height(n.children[i])]
    BY <1>1, <2>2, HeightRule
  <2>4. QED
    BY <1>1, <2>2, <2>3, WalkAtAny DEF Walk
<1>6. [i \in DOMAIN n.children |-> WalkAt[h - 1][n.children[i]]]
        = [i \in DOMAIN n.children |-> Walk(n.children[i])]
  BY <1>5
<1>7. QED
  BY <1>3, <1>4, <1>6 DEF WalkNode

-----------------------------------------------------------------------------
(* Sequences in which each element is related to all that follow *)

Chain(s, rel) == \A i, j \in DOMAIN s : i < j => <<s[i], s[j]>> \in rel

Linked(s, t, rel) == \A a \in Range(s), b \in Range(t) : <<a, b>> \in rel

\* What is in a sequence, is in its range.
LEMMA ElementInRange ==
    ASSUME NEW S, NEW s \in Seq(S), NEW i \in 1..Len(s)
    PROVE  s[i] \in Range(s) /\ s[i] \in S
BY DEF Range

\* What is in the range of a sequence, has a place in it.
LEMMA RangeElement ==
    ASSUME NEW S, NEW s \in Seq(S), NEW a \in Range(s)
    PROVE  \E i \in 1..Len(s) : s[i] = a
BY DEF Range

\* Two chains make a chain if all of the first is related to all of the second.
LEMMA ChainConcat ==
    ASSUME NEW S, NEW s \in Seq(S), NEW t \in Seq(S), NEW rel,
           Chain(s, rel), Chain(t, rel), Linked(s, t, rel)
    PROVE  Chain(s \o t, rel)
<1> DEFINE u == s \o t
<1>1. /\ u \in Seq(S)
      /\ Len(u) = Len(s) + Len(t)
      /\ \A i \in 1..Len(u) : u[i] = IF i <= Len(s) THEN s[i] ELSE t[i - Len(s)]
  BY ConcatProperties
<1>2. Len(s) \in Nat /\ Len(t) \in Nat /\ DOMAIN u = 1..Len(u)
  BY <1>1, LenProperties
<1>3. DOMAIN s = 1..Len(s) /\ DOMAIN t = 1..Len(t)
  BY LenProperties
<1> HIDE DEF u
<1>4. ASSUME NEW i \in DOMAIN u, NEW j \in DOMAIN u, i < j
      PROVE  <<u[i], u[j]>> \in rel
  <2>1. CASE j <= Len(s)
    <3>1. i \in DOMAIN s /\ j \in DOMAIN s /\ u[i] = s[i] /\ u[j] = s[j]
      BY <1>1, <1>2, <1>3, <1>4, <2>1
    <3>2. QED
      BY <1>4, <3>1 DEF Chain
  <2>2. CASE i > Len(s)
    <3>1. /\ i - Len(s) \in DOMAIN t /\ j - Len(s) \in DOMAIN t
          /\ i - Len(s) < j - Len(s)
          /\ u[i] = t[i - Len(s)] /\ u[j] = t[j - Len(s)]
      BY <1>1, <1>2, <1>3, <1>4, <2>2
    <3>2. QED
      BY <3>1 DEF Chain
  <2>3. CASE i <= Len(s) /\ j > Len(s)
    <3>1. /\ i \in 1..Len(s) /\ j - Len(s) \in 1..Len(t)
          /\ u[i] = s[i] /\ u[j] = t[j - Len(s)]
      BY <1>1, <1>2, <1>4, <2>3
    <3>2. u[i] \in Range(s) /\ u[j] \in Range(t)
      BY <3>1, ElementInRange
    <3>3. QED
      BY <3>2 DEF Linked
  <2>4. QED
    BY <1>2, <1>4, <2>1, <2>2, <2>3
<1>5. QED
  BY <1>4 DEF Chain, u

\* What a part of a sequence consists of.
LEMMA SubSeqElements ==
    ASSUME NEW S, NEW s \in Seq(S), NEW m \in 1..(Len(s) + 1), NEW n \in 0..Len(s)
    PROVE  /\ SubSeq(s, m, n) \in Seq(S)
           /\ Len(SubSeq(s, m, n)) = IF m <= n THEN n - m + 1 ELSE 0
           /\ \A i \in 1..(n - m + 1) : SubSeq(s, m, n)[i] = s[m + i - 1]
           /\ Range(SubSeq(s, m, n)) = {s[i] : i \in m..n}
<1> DEFINE u == SubSeq(s, m, n)
<1>1. Len(s) \in Nat /\ m \in Nat /\ n \in Nat
  OBVIOUS
<1>2. \A i \in m..n : s[i] \in S
  BY <1>1, ElementOfSeq
<1>3. /\ u \in Seq(S)
      /\ Len(u) = IF m <= n THEN n - m + 1 ELSE 0
      /\ \A i \in 1..(n - m + 1) : u[i] = s[m + i - 1]
  BY <1>1, <1>2, SubSeqProperties
<1> HIDE DEF u
<1>4. Range(u) = {s[i] : i \in m..n}
  <2>1. ASSUME NEW a \in Range(u)
        PROVE  a \in {s[i] : i \in m..n}
    <3>1. PICK i \in 1..Len(u) : u[i] = a
      BY <1>3, RangeElement
    <3>2. m + i - 1 \in m..n /\ a = s[m + i - 1]
      BY <1>1, <1>3, <3>1
    <3>3. QED
      BY <3>2
  <2>2. ASSUME NEW i \in m..n
        PROVE  s[i] \in Range(u)
    <3>1. /\ i - m + 1 \in 1..Len(u)
          /\ i - m + 1 \in 1..(n - m + 1)
          /\ m + (i - m + 1) - 1 = i
      BY <1>1, <1>3
    <3>2. u[i - m + 1] = s[i]
      BY <1>3, <3>1
    <3>3. QED
      BY <1>3, <3>1, <3>2, ElementInRange
  <2>3. QED
    BY <2>1, <2>2
<1>5. QED
  BY <1>3, <1>4 DEF u

\* A part of a chain is a chain.
LEMMA ChainSub ==
    ASSUME NEW S, NEW s \in Seq(S), NEW m \in 1..(Len(s) + 1), NEW n \in 0..Len(s),
           NEW rel, Chain(s, rel)
    PROVE  Chain(SubSeq(s, m, n), rel)
<1> DEFINE u == SubSeq(s, m, n)
<1>1. Len(s) \in Nat /\ m \in Nat /\ n \in Nat
  OBVIOUS
<1>2. /\ u \in Seq(S)
      /\ Len(u) = IF m <= n THEN n - m + 1 ELSE 0
      /\ \A i \in 1..(n - m + 1) : u[i] = s[m + i - 1]
  BY SubSeqElements
<1>3. DOMAIN u = 1..Len(u) /\ DOMAIN s = 1..Len(s)
  BY <1>2, LenProperties
<1> HIDE DEF u
<1>4. ASSUME NEW i \in DOMAIN u, NEW j \in DOMAIN u, i < j
      PROVE  <<u[i], u[j]>> \in rel
  <2>1. /\ i \in 1..(n - m + 1) /\ j \in 1..(n - m + 1)
        /\ m + i - 1 \in DOMAIN s /\ m + j - 1 \in DOMAIN s
        /\ m + i - 1 < m + j - 1
    BY <1>1, <1>2, <1>3, <1>4
  <2>2. u[i] = s[m + i - 1] /\ u[j] = s[m + j - 1]
    BY <1>2, <2>1
  <2>3. QED
    BY <2>1, <2>2 DEF Chain
<1>5. QED
  BY <1>4 DEF Chain, u

\* The elements that come before a place are linked to those that do not.
LEMMA ChainLinks ==
    ASSUME NEW S, NEW s \in Seq(S), NEW rel, Chain(s, rel),
           NEW m \in 0..Len(s), NEW n \in (m + 1)..(Len(s) + 1)
    PROVE  Linked(SubSeq(s, 1, m), SubSeq(s, n, Len(s)), rel)
<1>1. Len(s) \in Nat /\ m \in Nat /\ n \in Nat /\ DOMAIN s = 1..Len(s)
  BY LenProperties
<1>2. /\ Range(SubSeq(s, 1, m)) = {s[i] : i \in 1..m}
      /\ Range(SubSeq(s, n, Len(s))) = {s[i] : i \in n..Len(s)}
  <2>1. 1 \in 1..(Len(s) + 1) /\ n \in 1..(Len(s) + 1) /\ Len(s) \in 0..Len(s)
    BY <1>1
  <2>2. QED
    BY <2>1, SubSeqElements
<1>3. ASSUME NEW i \in 1..m, NEW j \in n..Len(s)
      PROVE  <<s[i], s[j]>> \in rel
  <2>1. i \in DOMAIN s /\ j \in DOMAIN s /\ i < j
    BY <1>1
  <2>2. QED
    BY <2>1 DEF Chain
<1>4. QED
  BY <1>2, <1>3 DEF Linked

\* One element, or none, is a chain.
LEMMA SingleChain ==
    ASSUME NEW a, NEW rel
    PROVE  Chain(<<a>>, rel) /\ Chain(<<>>, rel) /\ Range(<<a>>) = {a} /\ Range(<<>>) = {}
BY DEF Chain, Range

\* The elements of a sequence on some places, in their order.
LEMMA OnPlacesKeeps ==
    ASSUME NEW S, NEW s \in Seq(S), NEW places, places \subseteq 1..Len(s)
    PROVE  /\ OnPlaces(s, places) \in Seq(S)
           /\ Range(OnPlaces(s, places)) = {s[i] : i \in places}
           /\ \A rel : Chain(s, rel) => Chain(OnPlaces(s, places), rel)
<1>1. PICK f : Picks(s, places, f) /\ OnPlaces(s, places) = f[Len(s)]
  BY PlacesRule
<1>2. /\ Len(s) \in Nat /\ DOMAIN s = 1..Len(s)
      /\ \A j \in places : j \in Nat /\ 1 <= j /\ j <= Len(s)
  BY LenProperties
<1> DEFINE Good(m, u) == /\ u \in Seq(S)
                         /\ Range(u) = {s[i] : i \in {j \in places : j <= m}}
                         /\ \A rel : Chain(s, rel) => Chain(u, rel)
           T == {m \in Nat : m <= Len(s) => Good(m, f[m])}
<1>3. 0 \in T
  <2>1. f[0] = <<>>
    BY <1>1 DEF Picks
  <2>2. {j \in places : j <= 0} = {}
    <3>1. \A j \in places : ~(j <= 0)
      BY <1>2
    <3>2. QED
      BY <3>1
  <2>3. <<>> \in Seq(S)
    BY EmptySeq
  <2>4. QED
    BY <2>1, <2>2, <2>3, SingleChain
<1>4. ASSUME NEW m \in Nat, m \in T
      PROVE  m + 1 \in T
  <2>1. SUFFICES ASSUME m + 1 <= Len(s) PROVE Good(m + 1, f[m + 1])
    OBVIOUS
  <2>2. Good(m, f[m])
    BY <1>2, <1>4, <2>1
  <2>3. f[m + 1] = IF m + 1 \in places THEN Append(f[m], s[m + 1]) ELSE f[m]
    <3>1. m + 1 \in Nat /\ m + 1 # 0 /\ (m + 1) - 1 = m
      OBVIOUS
    <3>2. QED
      BY <1>1, <3>1 DEF Picks
  <2>4. CASE m + 1 \notin places
    <3>1. {j \in places : j <= m + 1} = {j \in places : j <= m}
      <4>1. \A j \in places : j <= m + 1 <=> j <= m
        BY <1>2, <2>4
      <4>2. QED
        BY <4>1
    <3>2. QED
      BY <2>2, <2>3, <2>4, <3>1
  <2>5. CASE m + 1 \in places
    <3> DEFINE x == s[m + 1]
    <3>1. x \in S /\ m + 1 \in 1..Len(s)
      BY <1>2, <2>1, ElementOfSeq
    <3>2. f[m + 1] = f[m] \o <<x>> /\ <<x>> \in Seq(S)
      BY <2>2, <2>3, <2>5, <3>1, AppendIsConcat
    <3>3. f[m + 1] \in Seq(S) /\ Range(f[m + 1]) = Range(f[m]) \cup {x}
      <4>1. Range(<<x>>) = {x}
        BY SingleChain
      <4>2. f[m] \in Seq(S)
        BY <2>2
      <4>3. f[m] \o <<x>> \in Seq(S)
        BY <3>2, <4>2, ConcatProperties
      <4>4. Range(f[m] \o <<x>>) = Range(f[m]) \cup Range(<<x>>)
        <5> DEFINE y == <<x>>
        <5>1. y \in Seq(S)
          BY <3>2
        <5> HIDE DEF y
        <5>2. Range(f[m] \o y) = Range(f[m]) \cup Range(y)
          BY <4>2, <5>1, RangeConcatenation
        <5>3. QED
          BY <5>2 DEF y
      <4>5. QED
        BY <3>2, <4>1, <4>3, <4>4
    <3>4. {j \in places : j <= m + 1} = {j \in places : j <= m} \cup {m + 1}
      <4>1. \A j \in places : j <= m + 1 <=> j <= m \/ j = m + 1
        BY <1>2
      <4>2. QED
        BY <2>5, <4>1
    <3>5. Range(f[m + 1]) = {s[i] : i \in {j \in places : j <= m + 1}}
      BY <2>2, <3>3, <3>4
    <3>6. ASSUME NEW rel, Chain(s, rel)
          PROVE  Chain(f[m + 1], rel)
      <4>1. \A i \in {j \in places : j <= m} : <<s[i], x>> \in rel
        <5>1. SUFFICES ASSUME NEW i \in places, i <= m PROVE <<s[i], x>> \in rel
          OBVIOUS
        <5>2. i \in DOMAIN s /\ m + 1 \in DOMAIN s /\ i < m + 1
          BY <1>2, <3>1, <5>1
        <5>3. QED
          BY <3>6, <5>2 DEF Chain
      <4>2. Linked(f[m], <<x>>, rel)
        BY <2>2, <4>1, SingleChain DEF Linked
      <4>3. Chain(f[m], rel) /\ Chain(<<x>>, rel)
        BY <2>2, <3>6, SingleChain
      <4>4. QED
        BY <2>2, <3>2, <4>2, <4>3, ChainConcat
    <3>7. QED
      BY <3>3, <3>5, <3>6
  <2>6. QED
    BY <2>4, <2>5
<1>5. Nat \subseteq T
  <2> HIDE DEF T
  <2>1. QED
    BY <1>3, <1>4, TreeRecursion!Induction
<1>6. Good(Len(s), f[Len(s)])
  <2> HIDE DEF Good
  <2>1. \A m \in Nat : m <= Len(s) => Good(m, f[m])
    BY <1>5
  <2>2. Len(s) <= Len(s)
    BY <1>2
  <2>3. QED
    BY <1>2, <2>1, <2>2
<1>7. {j \in places : j <= Len(s)} = places
  <2>1. \A j \in places : j <= Len(s)
    BY <1>2
  <2>2. QED
    BY <2>1
<1>8. QED
  BY <1>1, <1>6, <1>7

\* Sequences one after the other have the elements of all.
LEMMA ConcatKeeps ==
    ASSUME NEW S, NEW ss \in Seq(Seq(S))
    PROVE  /\ Concat(ss) \in Seq(S)
           /\ Range(Concat(ss)) = UNION {Range(ss[i]) : i \in 1..Len(ss)}
           /\ \A rel : /\ \A i \in 1..Len(ss) : Chain(ss[i], rel)
                       /\ \A i, j \in 1..Len(ss) : i < j => Linked(ss[i], ss[j], rel)
                       => Chain(Concat(ss), rel)
<1>1. PICK f : Concats(ss, f) /\ Concat(ss) = f[Len(ss)]
  BY ConcatRule
<1>2. Len(ss) \in Nat
  BY LenProperties
<1> DEFINE Parted(rel) == /\ \A i \in 1..Len(ss) : Chain(ss[i], rel)
                          /\ \A i, j \in 1..Len(ss) : i < j => Linked(ss[i], ss[j], rel)
           Good(m, u) == /\ u \in Seq(S)
                         /\ Range(u) = UNION {Range(ss[i]) : i \in 1..m}
                         /\ \A rel : Parted(rel) => Chain(u, rel)
           T == {m \in Nat : m <= Len(ss) => Good(m, f[m])}
<1>3. 0 \in T
  <2>1. f[0] = <<>>
    BY <1>1 DEF Concats
  <2>2. 1..0 = {}
    OBVIOUS
  <2>3. <<>> \in Seq(S)
    BY EmptySeq
  <2>4. UNION {Range(ss[i]) : i \in 1..0} = {}
    BY <2>2
  <2>5. QED
    BY <2>1, <2>3, <2>4, SingleChain
<1>4. ASSUME NEW m \in Nat, m \in T
      PROVE  m + 1 \in T
  <2>1. SUFFICES ASSUME m + 1 <= Len(ss) PROVE Good(m + 1, f[m + 1])
    <3> HIDE DEF Good
    <3>1. QED
      OBVIOUS
  <2>2. Good(m, f[m])
    BY <1>2, <1>4, <2>1
  <2>3. f[m + 1] = f[m] \o ss[m + 1]
    <3>1. m + 1 \in Nat /\ m + 1 # 0 /\ (m + 1) - 1 = m
      OBVIOUS
    <3>2. QED
      BY <1>1, <3>1 DEF Concats
  <2>4. m + 1 \in 1..Len(ss) /\ ss[m + 1] \in Seq(S)
    BY <1>2, <2>1, ElementOfSeq
  <2>5. f[m + 1] \in Seq(S) /\ Range(f[m + 1]) = Range(f[m]) \cup Range(ss[m + 1])
    BY <2>2, <2>3, <2>4, ConcatProperties, RangeConcatenation
  <2>6. 1..(m + 1) = 1..m \cup {m + 1}
    OBVIOUS
  <2>7. Range(f[m + 1]) = UNION {Range(ss[i]) : i \in 1..(m + 1)}
    BY <2>2, <2>5, <2>6
  <2>8. ASSUME NEW rel, Parted(rel)
        PROVE  Chain(f[m + 1], rel)
    <3>1. Linked(f[m], ss[m + 1], rel)
      <4>1. SUFFICES ASSUME NEW a \in Range(f[m]), NEW b \in Range(ss[m + 1])
                     PROVE  <<a, b>> \in rel
        BY DEF Linked
      <4>2. PICK i \in 1..m : a \in Range(ss[i])
        BY <2>2
      <4>3. i \in 1..Len(ss) /\ i < m + 1
        BY <1>2, <2>1
      <4>4. Linked(ss[i], ss[m + 1], rel)
        BY <2>4, <2>8, <4>3
      <4>5. QED
        BY <4>2, <4>4 DEF Linked
    <3>2. QED
      BY <2>2, <2>3, <2>4, <2>8, <3>1, ChainConcat
  <2>9. QED
    BY <2>5, <2>7, <2>8
<1>5. Nat \subseteq T
  <2> HIDE DEF T
  <2>1. QED
    BY <1>3, <1>4, TreeRecursion!Induction
<1>6. Good(Len(ss), f[Len(ss)])
  <2> HIDE DEF Good
  <2>1. \A m \in Nat : m <= Len(ss) => Good(m, f[m])
    BY <1>5
  <2>2. Len(ss) <= Len(ss)
    BY <1>2
  <2>3. QED
    BY <1>2, <2>1, <2>2
<1>7. QED
  BY <1>1, <1>6

-----------------------------------------------------------------------------
(* Entries and their order *)

\* The fields of entries.
LEMMA EntryIsRecord ==
    ASSUME NEW e \in Entry
    PROVE  e.key \in Keys /\ e.key \in Int /\ e.pointer \in Pointers /\ e.sequence \in Nat
BY KeysAssumption DEF Entry

\* Entries with unique numbers are in a strict total order.
LEMMA OrderLaws ==
    ASSUME NEW e \in Entry, NEW f \in Entry, NEW g \in Entry
    PROVE  /\ ~Precedes(e, e)
           /\ Precedes(e, f) /\ Precedes(f, g) => Precedes(e, g)
           /\ ~(Precedes(e, f) /\ Precedes(f, e))
           /\ e.sequence # f.sequence => Precedes(e, f) \/ Precedes(f, e)
BY EntryIsRecord DEF Precedes

InThisOrder == {x \in Entry \X Entry : Precedes(x[1], x[2])}

\* Ascending entries are a chain.
LEMMA AscendingIsChain ==
    ASSUME NEW es \in Seq(Entry)
    PROVE  Ascending(es) <=> Chain(es, InThisOrder)
<1>1. \A i \in DOMAIN es : es[i] \in Entry
  BY LenProperties, ElementOfSeq
<1>2. QED
  BY <1>1 DEF Ascending, Chain, InThisOrder

\* An order of its elements determines a sequence.
LEMMA AscendingUnique ==
    ASSUME NEW s \in Seq(Entry), NEW t \in Seq(Entry),
           Ascending(s), Ascending(t), Range(s) = Range(t)
    PROVE  s = t
<1>1. /\ Len(s) \in Nat /\ Len(t) \in Nat
      /\ DOMAIN s = 1..Len(s) /\ DOMAIN t = 1..Len(t)
      /\ \A i \in 1..Len(s) : s[i] \in Entry
      /\ \A i \in 1..Len(t) : t[i] \in Entry
  BY LenProperties, ElementOfSeq
<1>2. ASSUME NEW u \in Seq(Entry), NEW v \in Seq(Entry),
             Ascending(u), Ascending(v), Range(u) = Range(v),
             NEW m \in Nat, m >= 1, m <= Len(u),
             \A j \in 1..(m - 1) : j <= Len(v) /\ u[j] = v[j]
      PROVE  \E k \in 1..Len(v) : k >= m /\ v[k] = u[m]
  <2>1. /\ Len(u) \in Nat /\ DOMAIN u = 1..Len(u)
        /\ \A i \in 1..Len(u) : u[i] \in Entry
    BY LenProperties, ElementOfSeq
  <2>2. m \in 1..Len(u) /\ u[m] \in Range(v)
    BY <1>2, <2>1, ElementInRange
  <2>3. PICK k \in 1..Len(v) : v[k] = u[m]
    BY <2>2, RangeElement
  <2>4. ~(k < m)
    <3>1. SUFFICES ASSUME k < m PROVE FALSE
      OBVIOUS
    <3>2. k \in 1..(m - 1) /\ k \in DOMAIN u /\ m \in DOMAIN u
      BY <1>2, <2>1, <2>2, <3>1
    <3>3. u[k] = u[m]
      BY <1>2, <2>3, <3>2
    <3>4. Precedes(u[k], u[m])
      BY <1>2, <3>1, <3>2 DEF Ascending
    <3>5. QED
      BY <2>1, <2>2, <3>3, <3>4, OrderLaws
  <2>5. QED
    BY <2>3, <2>4
<1> DEFINE Same(m) == m <= Len(s) /\ m <= Len(t) /\ s[m] = t[m]
           Different == {m \in Nat : m >= 1 /\ (m <= Len(s) \/ m <= Len(t)) /\ ~Same(m)}
<1>3. Different = {}
  <2>1. SUFFICES ASSUME Different # {} PROVE FALSE
    OBVIOUS
  <2>2. PICK m \in Different : \A k \in Different : m <= k
    <3>1. Different \subseteq Nat
      OBVIOUS
    <3> HIDE DEF Different
    <3>2. QED
      BY <2>1, <3>1, TreeRecursion!LeastNumber
  <2>3. m \in Nat /\ m >= 1 /\ (m <= Len(s) \/ m <= Len(t)) /\ ~Same(m)
    BY <2>2
  <2>4. \A j \in 1..(m - 1) : Same(j)
    <3>1. SUFFICES ASSUME NEW j \in 1..(m - 1), ~Same(j) PROVE FALSE
      OBVIOUS
    <3>2. j \in Nat /\ j >= 1 /\ (j <= Len(s) \/ j <= Len(t)) /\ ~(m <= j)
      BY <1>1, <2>3
    <3>3. j \in Different
      BY <3>1, <3>2
    <3>4. QED
      BY <2>2, <3>2, <3>3
  <2>5. m <= Len(s) => \E k \in 1..Len(t) : k >= m /\ t[k] = s[m]
    <3>1. \A j \in 1..(m - 1) : j <= Len(t) /\ s[j] = t[j]
      BY <2>4
    <3>2. QED
      BY <1>2, <2>3, <3>1
  <2>6. m <= Len(t) => \E k \in 1..Len(s) : k >= m /\ s[k] = t[m]
    <3>1. \A j \in 1..(m - 1) : j <= Len(s) /\ t[j] = s[j]
      BY <2>4
    <3>2. QED
      BY <1>2, <2>3, <3>1
  <2>7. m <= Len(s) /\ m <= Len(t)
    <3>1. m <= Len(s) => m <= Len(t)
      BY <1>1, <2>3, <2>5
    <3>2. m <= Len(t) => m <= Len(s)
      BY <1>1, <2>3, <2>6
    <3>3. QED
      BY <2>3, <3>1, <3>2
  <2>8. PICK k \in 1..Len(t) : k >= m /\ t[k] = s[m]
    BY <2>5, <2>7
  <2>9. PICK l \in 1..Len(s) : l >= m /\ s[l] = t[m]
    BY <2>6, <2>7
  <2>10. m \in 1..Len(s) /\ m \in 1..Len(t) /\ s[m] # t[m]
    BY <1>1, <2>3, <2>7
  <2>11. k > m /\ l > m
    BY <1>1, <2>3, <2>8, <2>9, <2>10
  <2>12. Precedes(t[m], t[k]) /\ Precedes(s[m], s[l])
    BY <1>1, <2>8, <2>9, <2>10, <2>11 DEF Ascending
  <2>13. QED
    BY <1>1, <2>8, <2>9, <2>10, <2>12, OrderLaws
<1>4. \A m \in Nat : m >= 1 /\ (m <= Len(s) \/ m <= Len(t)) => Same(m)
  BY <1>3
<1> HIDE DEF Different
<1>5. Len(s) = Len(t)
  <2>1. Len(s) >= 1 => Len(s) <= Len(t)
    BY <1>1, <1>4
  <2>2. Len(t) >= 1 => Len(t) <= Len(s)
    BY <1>1, <1>4
  <2>3. Len(s) \in Nat /\ Len(t) \in Nat
    BY <1>1
  <2>4. QED
    BY <2>1, <2>2, <2>3
<1>6. \A i \in 1..Len(s) : s[i] = t[i]
  BY <1>1, <1>4
<1>7. QED
  BY <1>5, <1>6, SeqEqual

-----------------------------------------------------------------------------
(* Positions and insertion *)

\* The first of some places, or the end.
LEMMA FirstOfRule ==
    ASSUME NEW S, NEW s \in Seq(S), NEW places, places \subseteq 1..Len(s)
    PROVE  /\ FirstOf(places, s) \in 1..(Len(s) + 1)
           /\ \A i \in 1..Len(s) : i < FirstOf(places, s) => i \notin places
           /\ FirstOf(places, s) <= Len(s) => FirstOf(places, s) \in places
<1> DEFINE P == places \cup {Len(s) + 1}
           m == FirstOf(places, s)
<1>1. Len(s) \in Nat /\ P \subseteq 1..(Len(s) + 1) /\ P # {}
  <2>1. Len(s) \in Nat
    BY LenProperties
  <2>2. Len(s) + 1 \in 1..(Len(s) + 1)
    BY <2>1
  <2>3. \A i \in 1..Len(s) : i \in 1..(Len(s) + 1)
    BY <2>1
  <2>4. \A i \in places : i \in 1..(Len(s) + 1)
    BY <2>3
  <2>5. QED
    BY <2>1, <2>2, <2>4
<1>2. \E x \in P : \A y \in P : x <= y
  <2>1. P \subseteq Nat
    BY <1>1
  <2> HIDE DEF P
  <2>2. QED
    BY <1>1, <2>1, TreeRecursion!LeastNumber
<1>3. m \in P /\ \A y \in P : m <= y
  BY <1>2 DEF FirstOf, Min
<1> HIDE DEF m
<1>4. m \in 1..(Len(s) + 1)
  BY <1>1, <1>3
<1>5. \A i \in 1..Len(s) : i < m => i \notin places
  <2>1. SUFFICES ASSUME NEW i \in 1..Len(s), i < m, i \in places PROVE FALSE
    OBVIOUS
  <2>2. m <= i
    BY <1>3, <2>1
  <2>3. QED
    BY <1>1, <1>4, <2>1, <2>2
<1>6. m <= Len(s) => m \in places
  BY <1>1, <1>3
<1>7. QED
  BY <1>4, <1>5, <1>6 DEF m

\* The place for an entry (_insert_position) parts those before it from those after.
LEMMA InsertPositionRule ==
    ASSUME NEW es \in Seq(Entry), Ascending(es), NEW e \in Entry,
           \A f \in Range(es) : f.sequence # e.sequence
    PROVE  /\ InsertPosition(es, e) \in 1..(Len(es) + 1)
           /\ \A i \in 1..Len(es) : IF i < InsertPosition(es, e)
                                    THEN Precedes(es[i], e)
                                    ELSE Precedes(e, es[i])
<1> DEFINE places == {i \in DOMAIN es : Precedes(e, es[i])}
           p == InsertPosition(es, e)
<1>1. /\ Len(es) \in Nat /\ DOMAIN es = 1..Len(es)
      /\ \A i \in 1..Len(es) : es[i] \in Entry /\ es[i].sequence # e.sequence
  BY LenProperties, ElementInRange
<1>2. /\ p \in 1..(Len(es) + 1)
      /\ \A i \in 1..Len(es) : i < p => i \notin places
      /\ p <= Len(es) => p \in places
  <2>1. places \subseteq 1..Len(es)
    BY <1>1
  <2>2. p = FirstOf(places, es)
    BY DEF InsertPosition
  <2> HIDE DEF places, p
  <2>3. QED
    BY <2>1, <2>2, FirstOfRule
<1> HIDE DEF p
<1>3. ASSUME NEW i \in 1..Len(es)
      PROVE  IF i < p THEN Precedes(es[i], e) ELSE Precedes(e, es[i])
  <2>1. CASE i < p
    <3>1. ~Precedes(e, es[i])
      BY <1>1, <1>2, <2>1
    <3>2. QED
      BY <1>1, <2>1, <3>1, OrderLaws
  <2>2. CASE ~(i < p)
    <3>1. p \in 1..Len(es) /\ p \in places /\ p <= i
      BY <1>1, <1>2, <2>2
    <3>2. Precedes(e, es[p])
      BY <3>1
    <3>3. p = i \/ Precedes(es[p], es[i])
      BY <1>1, <3>1 DEF Ascending
    <3>4. QED
      BY <1>1, <2>2, <3>1, <3>2, <3>3, OrderLaws
  <2>3. QED
    BY <2>1, <2>2
<1>4. QED
  BY <1>2, <1>3 DEF p

\* An entry inserted at its place leaves the entries in order.
LEMMA InsertedKeeps ==
    ASSUME NEW es \in Seq(Entry), Ascending(es), NEW e \in Entry,
           \A f \in Range(es) : f.sequence # e.sequence
    PROVE  /\ Inserted(es, e) \in Seq(Entry)
           /\ Ascending(Inserted(es, e))
           /\ Range(Inserted(es, e)) = Range(es) \cup {e}
           /\ Len(Inserted(es, e)) = Len(es) + 1
<1> DEFINE p == InsertPosition(es, e)
           l == SubSeq(es, 1, p - 1)
           r == SubSeq(es, p, Len(es))
           m == <<e>>
<1>1. /\ p \in 1..(Len(es) + 1)
      /\ \A i \in 1..Len(es) : IF i < p THEN Precedes(es[i], e)
                                        ELSE Precedes(e, es[i])
  BY InsertPositionRule
<1>2. Inserted(es, e) = l \o m \o r
  BY DEF Inserted, InsertAt
<1> HIDE DEF p
<1>3. /\ Len(es) \in Nat /\ p - 1 \in 0..Len(es) /\ 1 \in 1..(Len(es) + 1)
      /\ Len(es) \in 0..Len(es) /\ p \in Nat
      /\ \A i \in 1..Len(es) : es[i] \in Entry
  BY <1>1, LenProperties, ElementOfSeq
<1>4. l \in Seq(Entry) /\ Len(l) = p - 1 /\ Range(l) = {es[i] : i \in 1..(p - 1)}
  <2>1. Len(l) = IF 1 <= p - 1 THEN (p - 1) - 1 + 1 ELSE 0
    BY <1>3, SubSeqElements
  <2>2. Len(l) = p - 1
    BY <1>3, <2>1
  <2>3. QED
    BY <1>3, <2>2, SubSeqElements
<1>5. /\ r \in Seq(Entry) /\ Len(r) = Len(es) - p + 1
      /\ Range(r) = {es[i] : i \in p..Len(es)}
  <2>1. Len(r) = IF p <= Len(es) THEN Len(es) - p + 1 ELSE 0
    BY <1>1, <1>3, SubSeqElements
  <2>2. Len(r) = Len(es) - p + 1
    BY <1>1, <1>3, <2>1
  <2>3. QED
    BY <1>1, <1>3, <2>2, SubSeqElements
<1>6. Chain(es, InThisOrder)
  BY AscendingIsChain
<1>7. Chain(l, InThisOrder) /\ Chain(r, InThisOrder) /\ Linked(l, r, InThisOrder)
  <2>1. p \in ((p - 1) + 1)..(Len(es) + 1)
    BY <1>1, <1>3
  <2>2. QED
    BY <1>1, <1>3, <1>6, <2>1, ChainSub, ChainLinks
<1>8. m \in Seq(Entry) /\ Len(m) = 1 /\ Chain(m, InThisOrder) /\ Range(m) = {e}
  BY SingleChain
<1>9. Linked(l, m, InThisOrder) /\ Linked(m, r, InThisOrder)
  <2>1. \A i \in 1..(p - 1) : i \in 1..Len(es) /\ i < p
    BY <1>3
  <2>2. \A i \in p..Len(es) : i \in 1..Len(es) /\ ~(i < p)
    BY <1>1, <1>3
  <2> HIDE DEF l, r, m
  <2>3. Linked(l, m, InThisOrder)
    BY <1>1, <1>3, <1>4, <1>8, <2>1 DEF Linked, InThisOrder
  <2>4. Linked(m, r, InThisOrder)
    BY <1>1, <1>3, <1>5, <1>8, <2>2 DEF Linked, InThisOrder
  <2>5. QED
    BY <2>3, <2>4
<1> HIDE DEF l, r, m
<1>10. /\ l \o m \in Seq(Entry) /\ Len(l \o m) = p
       /\ Range(l \o m) = Range(l) \cup {e}
       /\ Chain(l \o m, InThisOrder)
  <2>1. l \o m \in Seq(Entry) /\ Len(l \o m) = (p - 1) + 1
    <3>1. l \o m \in Seq(Entry) /\ Len(l \o m) = Len(l) + Len(m)
      BY <1>4, <1>8, ConcatProperties
    <3>2. QED
      BY <1>4, <1>8, <3>1
  <2>2. Range(l \o m) = Range(l) \cup {e}
    BY <1>4, <1>8, RangeConcatenation
  <2>3. Chain(l \o m, InThisOrder)
    BY <1>4, <1>7, <1>8, <1>9, ChainConcat
  <2>4. QED
    BY <1>3, <2>1, <2>2, <2>3
<1>11. Linked(l \o m, r, InThisOrder)
  BY <1>7, <1>8, <1>9, <1>10 DEF Linked
<1> DEFINE q == l \o m
           n == q \o r
<1> HIDE DEF q
<1>12. n \in Seq(Entry) /\ Len(n) = Len(es) + 1 /\ Chain(n, InThisOrder)
  <2>1. n \in Seq(Entry) /\ Len(n) = Len(q) + Len(r)
    BY <1>5, <1>10, ConcatProperties DEF q
  <2>2. Len(q) = p
    BY <1>10 DEF q
  <2>3. Chain(n, InThisOrder)
    BY <1>5, <1>7, <1>10, <1>11, ChainConcat DEF q
  <2>4. QED
    BY <1>3, <1>5, <2>1, <2>2, <2>3
<1>13. Range(n) = Range(es) \cup {e}
  <2>1. Range(n) = Range(l) \cup {e} \cup Range(r)
    <3>1. q \in Seq(Entry) /\ Range(q) = Range(l) \cup {e}
      BY <1>10 DEF q
    <3>2. Range(n) = Range(q) \cup Range(r)
      BY <1>5, <3>1, RangeConcatenation
    <3>3. QED
      BY <3>1, <3>2
  <2>2. Range(es) = {es[i] : i \in 1..Len(es)}
    BY RangeEquality
  <2>3. 1..Len(es) = 1..(p - 1) \cup p..Len(es)
    BY <1>1, <1>3
  <2>4. Range(l) \cup Range(r) = {es[i] : i \in 1..Len(es)}
    BY <1>4, <1>5, <2>3
  <2>5. QED
    BY <2>1, <2>2, <2>4
<1>14. n = Inserted(es, e)
  BY <1>2 DEF q
<1>15. QED
  BY <1>12, <1>13, <1>14, AscendingIsChain

\* sorted() of entries with distinct sequence numbers.
LEMMA SortedKeeps ==
    ASSUME NEW es \in Seq(Entry), Numbered(es)
    PROVE  /\ Sorted(es) \in Seq(Entry)
           /\ Ascending(Sorted(es))
           /\ Range(Sorted(es)) = Range(es)
<1>1. PICK f : Sorts(es, f) /\ Sorted(es) = f[Len(es)]
  BY SortedRule
<1>2. /\ Len(es) \in Nat /\ DOMAIN es = 1..Len(es)
      /\ \A i \in 1..Len(es) : es[i] \in Entry
      /\ \A i, j \in 1..Len(es) : es[i].sequence = es[j].sequence => i = j
  <2>1. /\ Len(es) \in Nat /\ DOMAIN es = 1..Len(es)
        /\ \A i \in 1..Len(es) : es[i] \in Entry
    BY LenProperties, ElementOfSeq
  <2>2. QED
    BY <2>1 DEF Numbered, IsInjective
<1> DEFINE Good(m, u) == /\ u \in Seq(Entry)
                         /\ Ascending(u)
                         /\ Range(u) = {es[i] : i \in 1..m}
           T == {m \in Nat : m <= Len(es) => Good(m, f[m])}
<1>3. 0 \in T
  <2>1. f[0] = <<>>
    BY <1>1 DEF Sorts
  <2>2. <<>> \in Seq(Entry) /\ Chain(<<>>, InThisOrder) /\ Range(<<>>) = {}
    BY EmptySeq, SingleChain
  <2>3. {es[i] : i \in 1..0} = {}
    OBVIOUS
  <2>4. QED
    BY <2>1, <2>2, <2>3, AscendingIsChain
<1>4. ASSUME NEW m \in Nat, m \in T
      PROVE  m + 1 \in T
  <2>1. SUFFICES ASSUME m + 1 <= Len(es) PROVE Good(m + 1, f[m + 1])
    <3> HIDE DEF Good
    <3>1. QED
      OBVIOUS
  <2>2. Good(m, f[m])
    BY <1>2, <1>4, <2>1
  <2>3. f[m + 1] = Inserted(f[m], es[m + 1])
    <3>1. m + 1 \in Nat /\ m + 1 # 0 /\ (m + 1) - 1 = m
      OBVIOUS
    <3>2. QED
      BY <1>1, <3>1 DEF Sorts
  <2>4. m + 1 \in 1..Len(es) /\ es[m + 1] \in Entry
    BY <1>2, <2>1
  <2>5. \A g \in Range(f[m]) : g.sequence # es[m + 1].sequence
    <3>1. SUFFICES ASSUME NEW i \in 1..m
                   PROVE  es[i].sequence # es[m + 1].sequence
      BY <2>2
    <3>2. i \in 1..Len(es) /\ i # m + 1
      BY <1>2, <2>1
    <3>3. QED
      BY <1>2, <2>4, <3>2
  <2>6. /\ f[m + 1] \in Seq(Entry)
        /\ Ascending(f[m + 1])
        /\ Range(f[m + 1]) = Range(f[m]) \cup {es[m + 1]}
    BY <2>2, <2>3, <2>4, <2>5, InsertedKeeps
  <2>7. 1..(m + 1) = 1..m \cup {m + 1}
    OBVIOUS
  <2>8. QED
    BY <2>2, <2>6, <2>7
<1>5. Nat \subseteq T
  <2> HIDE DEF T
  <2>1. QED
    BY <1>3, <1>4, TreeRecursion!Induction
<1>6. Good(Len(es), f[Len(es)])
  <2> HIDE DEF Good
  <2>1. \A m \in Nat : m <= Len(es) => Good(m, f[m])
    BY <1>5
  <2>2. Len(es) <= Len(es)
    BY <1>2
  <2>3. QED
    BY <1>2, <2>1, <2>2
<1>7. QED
  BY <1>1, <1>6, RangeEquality

-----------------------------------------------------------------------------
(* The entries of trees *)

WalksOf(cs) == [i \in DOMAIN cs |-> Walk(cs[i])]

\* The walk of a tree is a sequence of entries.
LEMMA WalkType ==
    ASSUME NEW h \in Nat
    PROVE  \A n \in Tree[h] : Walk(n) \in Seq(Entry)
<1> DEFINE T == {m \in Nat : \A n \in Tree[m] : Walk(n) \in Seq(Entry)}
<1>1. 0 \in T
  BY NoTree
<1>2. ASSUME NEW m \in Nat, m \in T
      PROVE  m + 1 \in T
  <2>1. SUFFICES ASSUME NEW n \in Tree[m + 1] PROVE Walk(n) \in Seq(Entry)
    OBVIOUS
  <2>2. m + 1 \in Nat /\ (m + 1) - 1 = m
    OBVIOUS
  <2>3. n.entries \in Seq(Entry) /\ n.children \in Seq(Tree[m])
    BY <2>2, TreeIsNode
  <2>4. Walk(n) = IF IsLeaf(n) THEN n.entries ELSE Concat(WalksOf(n.children))
    BY <2>2, WalkRule DEF WalksOf
  <2>5. WalksOf(n.children) \in Seq(Seq(Entry))
    <3>1. \A i \in DOMAIN n.children : Walk(n.children[i]) \in Seq(Entry)
      BY <1>2, <2>3, LenProperties, ElementOfSeq
    <3>2. QED
      BY <2>3, <3>1, LenProperties DEF WalksOf
  <2>6. QED
    BY <2>3, <2>4, <2>5, ConcatKeeps
<1>3. Nat \subseteq T
  <2> HIDE DEF T
  <2>1. QED
    BY <1>1, <1>2, TreeRecursion!Induction
<1>4. QED
  BY <1>3

InThisOrderOfTrees ==
    {x \in AllTrees \X AllTrees :
        \A e \in Contents(x[1]), f \in Contents(x[2]) : Precedes(e, f)}

\* Children that are apart are a chain.
LEMMA ApartIsChain ==
    ASSUME NEW cs \in Seq(AllTrees)
    PROVE  Apart(cs) <=> Chain(cs, InThisOrderOfTrees)
<1>1. \A i \in DOMAIN cs : cs[i] \in AllTrees
  BY LenProperties, ElementOfSeq
<1>2. QED
  BY <1>1 DEF Apart, Chain, InThisOrderOfTrees

\* Trees of some number of levels are trees.
LEMMA OfAllTrees ==
    ASSUME NEW h \in Nat
    PROVE  /\ Tree[h] \subseteq AllTrees
           /\ \A cs \in Seq(Tree[h]) : cs \in Seq(AllTrees)
BY DEF AllTrees

\* A tree contains entries.
LEMMA ContentsOfTree ==
    ASSUME NEW h \in Nat, NEW n \in Tree[h]
    PROVE  Contents(n) \subseteq Entry
BY WalkType, RangeOfSeq DEF Contents

\* An inner node has the entries of its children, in order if they are.
LEMMA WalkOfInternal ==
    ASSUME NEW h \in Nat, NEW n \in Tree[h], ~IsLeaf(n)
    PROVE  /\ Contents(n) = UNION {Contents(n.children[i]) : i \in 1..Len(n.children)}
           /\ /\ \A i \in 1..Len(n.children) : Ascending(Walk(n.children[i]))
              /\ Apart(n.children)
              => Ascending(Walk(n))
<1> DEFINE cs == n.children
           ws == WalksOf(cs)
<1>1. h - 1 \in Nat /\ cs \in Seq(Tree[h - 1])
  BY TreeIsNode
<1> HIDE DEF cs
<1>2. /\ Len(cs) \in Nat /\ DOMAIN cs = 1..Len(cs)
      /\ \A i \in 1..Len(cs) : cs[i] \in Tree[h - 1] /\ Walk(cs[i]) \in Seq(Entry)
  <2>1. Len(cs) \in Nat /\ DOMAIN cs = 1..Len(cs)
    BY <1>1, LenProperties
  <2>2. \A i \in 1..Len(cs) : cs[i] \in Tree[h - 1]
    BY <1>1, ElementOfSeq
  <2>3. QED
    BY <1>1, <2>1, <2>2, WalkType
<1>3. Walk(n) = Concat(ws)
  BY WalkRule DEF WalksOf, cs
<1>4. /\ ws \in Seq(Seq(Entry))
      /\ Len(ws) = Len(cs)
      /\ \A i \in 1..Len(cs) : ws[i] = Walk(cs[i])
  BY <1>2 DEF WalksOf
<1> HIDE DEF ws
<1>5. /\ Concat(ws) \in Seq(Entry)
      /\ Range(Concat(ws)) = UNION {Range(ws[i]) : i \in 1..Len(ws)}
      /\ /\ \A i \in 1..Len(ws) : Chain(ws[i], InThisOrder)
         /\ \A i, j \in 1..Len(ws) : i < j => Linked(ws[i], ws[j], InThisOrder)
         => Chain(Concat(ws), InThisOrder)
  BY <1>4, ConcatKeeps
<1>6. Contents(n) = UNION {Contents(cs[i]) : i \in 1..Len(cs)}
  <2>1. \A i \in 1..Len(cs) : Range(ws[i]) = Contents(cs[i])
    BY <1>4 DEF Contents
  <2>2. QED
    BY <1>3, <1>4, <1>5, <2>1 DEF Contents
<1>7. ASSUME \A i \in 1..Len(cs) : Ascending(Walk(cs[i])), Apart(cs)
      PROVE  Ascending(Walk(n))
  <2>1. \A i \in 1..Len(ws) : Chain(ws[i], InThisOrder)
    BY <1>2, <1>4, <1>7, AscendingIsChain
  <2>2. ASSUME NEW i \in 1..Len(ws), NEW j \in 1..Len(ws), i < j
        PROVE  Linked(ws[i], ws[j], InThisOrder)
    <3>1. Range(ws[i]) = Contents(cs[i]) /\ Range(ws[j]) = Contents(cs[j])
      BY <1>4 DEF Contents
    <3>2. Contents(cs[i]) \subseteq Entry /\ Contents(cs[j]) \subseteq Entry
      BY <1>1, <1>2, <1>4, ContentsOfTree
    <3>3. \A e \in Contents(cs[i]), f \in Contents(cs[j]) : Precedes(e, f)
      BY <1>2, <1>4, <1>7, <2>2 DEF Apart
    <3>4. QED
      BY <3>1, <3>2, <3>3 DEF Linked, InThisOrder
  <2>3. Chain(Concat(ws), InThisOrder)
    BY <1>5, <2>1, <2>2
  <2>4. QED
    BY <1>3, <1>5, <2>3, AscendingIsChain
<1>8. QED
  BY <1>6, <1>7 DEF cs

\* A leaf is a tree of one level and contains its entries.
LEMMA LeafIsTree ==
    ASSUME NEW es \in Seq(Entry)
    PROVE  /\ MakeLeaf(es) \in Tree[1]
           /\ IsLeaf(MakeLeaf(es))
           /\ Walk(MakeLeaf(es)) = es
           /\ Contents(MakeLeaf(es)) = Range(es)
           /\ MakeLeaf(es).entries = es
           /\ es = <<>> <=> MakeLeaf(es) = Empty
<1> DEFINE ks == [i \in DOMAIN es |-> es[i].key]
<1>1. ks \in Seq(Keys)
  <2>1. \A i \in DOMAIN es : es[i].key \in Keys
    BY LenProperties, ElementOfSeq, EntryIsRecord
  <2>2. QED
    BY <2>1, LenProperties
<1>2. <<>> \in Seq(Tree[0])
  BY EmptySeq
<1>3. MakeLeaf(es) = [keys |-> ks, entries |-> es, children |-> <<>>]
  BY DEF MakeLeaf
<1> HIDE DEF ks
<1>4. MakeLeaf(es) \in Tree[0 + 1]
  BY <1>1, <1>2, <1>3, NodeIsTree
<1>5. 0 + 1 = 1
  OBVIOUS
<1>6. IsLeaf(MakeLeaf(es)) /\ MakeLeaf(es).entries = es
  BY <1>3 DEF IsLeaf
<1>7. Walk(MakeLeaf(es)) = es
  BY <1>4, <1>5, <1>6, WalkRule
<1>8. es = <<>> => MakeLeaf(es) = Empty
  BY <1>1, <1>3, SeqEqual DEF ks, Empty
<1>9. MakeLeaf(es) = Empty => es = <<>>
  BY <1>6 DEF Empty
<1>10. QED
  BY <1>4, <1>5, <1>6, <1>7, <1>8, <1>9 DEF Contents

\* A node on top of trees.
LEMMA InternalIsTree ==
    ASSUME NEW h \in Nat, NEW cs \in Seq(Tree[h]), cs # <<>>,
           \A i \in 1..Len(cs) : Walk(cs[i]) # <<>>
    PROVE  /\ MakeInternal(cs) \in Tree[h + 1]
           /\ ~IsLeaf(MakeInternal(cs))
           /\ MakeInternal(cs).children = cs
           /\ MakeInternal(cs).entries = <<>>
           /\ MakeInternal(cs).keys = SeparatorKeys(cs)
           /\ Walk(MakeInternal(cs)) # <<>>
           /\ Contents(MakeInternal(cs)) = UNION {Contents(cs[i]) : i \in 1..Len(cs)}
           /\ (\A i \in 1..Len(cs) : Ascending(Walk(cs[i]))) /\ Apart(cs)
              => Ascending(Walk(MakeInternal(cs)))
<1> DEFINE n == MakeInternal(cs)
<1>1. /\ Len(cs) \in Nat /\ DOMAIN cs = 1..Len(cs)
      /\ \A i \in 1..Len(cs) : cs[i] \in Tree[h]
  BY LenProperties, ElementOfSeq
<1>2. \A i \in 1..Len(cs) : MaxKey(cs[i]) \in Keys
  <2>1. SUFFICES ASSUME NEW i \in 1..Len(cs) PROVE MaxKey(cs[i]) \in Keys
    OBVIOUS
  <2>2. Walk(cs[i]) \in Seq(Entry) /\ Walk(cs[i]) # <<>>
    BY <1>1, WalkType
  <2>3. Len(Walk(cs[i])) \in 1..Len(Walk(cs[i]))
    BY <2>2, EmptySeq
  <2>4. Walk(cs[i])[Len(Walk(cs[i]))] \in Entry
    BY <2>2, <2>3, ElementOfSeq
  <2>5. QED
    BY <2>4, EntryIsRecord DEF MaxKey, Last
<1>3. SeparatorKeys(cs) \in Seq(Keys)
  <2>1. \A i \in 1..(Len(cs) - 1) : MaxKey(cs[i]) \in Keys
    BY <1>1, <1>2
  <2>2. Len(cs) - 1 \in Nat
    BY <1>1, EmptySeq
  <2>3. QED
    BY <2>1, <2>2 DEF SeparatorKeys
<1>4. n = [keys |-> SeparatorKeys(cs), entries |-> <<>>, children |-> cs]
  BY DEF MakeInternal
<1>5. n \in Tree[h + 1]
  <2>1. <<>> \in Seq(Entry)
    BY EmptySeq
  <2>2. QED
    BY <1>3, <1>4, <2>1, NodeIsTree
<1>6. ~IsLeaf(n) /\ n.children = cs /\ n.entries = <<>> /\ n.keys = SeparatorKeys(cs)
  BY <1>4 DEF IsLeaf
<1> HIDE DEF n
<1>7. /\ Contents(n) = UNION {Contents(cs[i]) : i \in 1..Len(cs)}
      /\ (\A i \in 1..Len(cs) : Ascending(Walk(cs[i]))) /\ Apart(cs)
            => Ascending(Walk(n))
  BY <1>5, <1>6, WalkOfInternal
<1>8. Walk(n) # <<>>
  <2>1. Len(cs) \in Nat \ {0}
    BY EmptySeq
  <2>2. 1 \in 1..Len(cs)
    BY <2>1
  <2>3. Walk(cs[1]) # <<>> /\ Walk(cs[1]) \in Seq(Entry)
    BY <1>1, <2>2, WalkType
  <2>4. 1 \in 1..Len(Walk(cs[1]))
    BY <2>3, EmptySeq
  <2>5. Walk(cs[1])[1] \in Contents(cs[1])
    BY <2>3, <2>4, ElementInRange DEF Contents
  <2>6. Contents(n) # {}
    BY <1>7, <2>2, <2>5
  <2>7. Range(<<>>) = {}
    BY SingleChain
  <2>8. QED
    BY <2>6, <2>7 DEF Contents
<1>9. QED
  BY <1>5, <1>6, <1>7, <1>8 DEF n

\* A tree has an entry, or none.
LEMMA NoContents ==
    ASSUME NEW h \in Nat, NEW n \in Tree[h]
    PROVE  Walk(n) = <<>> <=> Contents(n) = {}
<1>1. Walk(n) \in Seq(Entry)
  BY WalkType
<1>2. Walk(n) = <<>> => Contents(n) = {}
  BY SingleChain DEF Contents
<1>3. ASSUME Walk(n) # <<>> PROVE Contents(n) # {}
  <2>1. 1 \in 1..Len(Walk(n))
    BY <1>1, <1>3, EmptySeq
  <2>2. QED
    BY <1>1, <2>1, ElementInRange DEF Contents
<1>4. QED
  BY <1>2, <1>3

-----------------------------------------------------------------------------
(* Trees whose nodes are right *)

\* The bounds of nodes are positive, and two of the least fit into one of the largest.
LEMMA Bounds ==
    ASSUME NEW o \in Orders
    PROVE  /\ o \in Nat /\ o >= 3
           /\ MaxLeafEntries(o) \in Nat /\ MaxLeafEntries(o) >= 2
           /\ MinLeafEntries(o) \in Nat /\ MinLeafEntries(o) >= 1
           /\ MinChildren(o) \in Nat /\ MinChildren(o) >= 2
           /\ MaxLeafEntries(o) = o - 1
           /\ 2 * MinChildren(o) <= o + 1
           /\ 2 * MinLeafEntries(o) <= o
<1>1. o \in Nat /\ o >= 3
  BY OrdersAssumption
<1>2. MinChildren(o) \in Nat /\ MinChildren(o) >= 2 /\ 2 * MinChildren(o) <= o + 1
  BY <1>1 DEF MinChildren
<1>3. MinLeafEntries(o) = IF MinChildren(o) - 1 > 1 THEN MinChildren(o) - 1 ELSE 1
  BY DEF MinLeafEntries
<1>4. QED
  BY <1>1, <1>2, <1>3 DEF MaxLeafEntries

\* A right tree is a right leaf, or a right inner node on top of right trees.
LEMMA RightParts ==
    ASSUME NEW o, NEW h \in Nat, NEW n \in RightTrees(o)[h]
    PROVE  /\ h - 1 \in Nat
           /\ n \in Tree[h]
           /\ h = 1 => LeafOK(n, o)
           /\ h # 1 => /\ InternalOK(n, o)
                       /\ n.children \in Seq(RightTrees(o)[h - 1])
                       /\ \A i \in 1..Len(n.children) : LargeEnough(n.children[i], o)
                       /\ ~IsLeaf(n)
<1>1. h # 0
  BY RightRule
<1>2. n \in Right(h, o, RightTrees(o)[h - 1])
  BY <1>1, RightRule
<1>3. n \in Tree[h] /\ n.children \in Seq(Tree[h - 1])
  BY <1>2, TreeIsNode DEF Right
<1>4. ASSUME h # 1
      PROVE  /\ InternalOK(n, o)
             /\ n.children \in Seq(RightTrees(o)[h - 1])
             /\ \A i \in 1..Len(n.children) : LargeEnough(n.children[i], o)
             /\ ~IsLeaf(n)
  <2>1. DOMAIN n.children = 1..Len(n.children) /\ Len(n.children) \in Nat
    BY <1>3, LenProperties
  <2>2. /\ InternalOK(n, o)
        /\ \A i \in DOMAIN n.children : /\ n.children[i] \in RightTrees(o)[h - 1]
                                        /\ LargeEnough(n.children[i], o)
    BY <1>2, <1>4 DEF Right
  <2>3. n.children \in Seq(RightTrees(o)[h - 1])
    BY <1>3, <2>1, <2>2
  <2>4. ~IsLeaf(n)
    BY <2>2 DEF InternalOK, IsLeaf
  <2>5. QED
    BY <2>1, <2>2, <2>3, <2>4
<1>5. h = 1 => LeafOK(n, o)
  BY <1>2 DEF Right
<1>6. QED
  BY <1>1, <1>3, <1>4, <1>5

\* Right trees are trees.
LEMMA RightIsTree ==
    ASSUME NEW o, NEW h \in Nat
    PROVE  /\ RightTrees(o)[h] \subseteq Tree[h]
           /\ \A cs \in Seq(RightTrees(o)[h]) : cs \in Seq(Tree[h])
<1>1. RightTrees(o)[h] \subseteq Tree[h]
  BY RightParts
<1>2. QED
  BY <1>1, SeqMonotonic

\* Such a tree is in order, and has an entry if it is large enough.
LEMMA RightWalk ==
    ASSUME NEW o \in Orders, NEW h \in Nat
    PROVE  \A n \in RightTrees(o)[h] :
                /\ Ascending(Walk(n))
                /\ LargeEnough(n, o) => Walk(n) # <<>>
<1> DEFINE P(m) == \A n \in RightTrees(o)[m] :
                        /\ Ascending(Walk(n))
                        /\ LargeEnough(n, o) => Walk(n) # <<>>
           T == {m \in Nat : P(m)}
<1>1. 0 \in T
  BY RightRule
<1>2. ASSUME NEW m \in Nat, P(m)
      PROVE  P(m + 1)
  <2>1. SUFFICES ASSUME NEW n \in RightTrees(o)[m + 1]
                 PROVE  /\ Ascending(Walk(n))
                        /\ LargeEnough(n, o) => Walk(n) # <<>>
    OBVIOUS
  <2>2. /\ m + 1 \in Nat /\ (m + 1) - 1 = m
        /\ n \in Tree[m + 1]
        /\ m + 1 = 1 => LeafOK(n, o)
        /\ m + 1 # 1 => /\ InternalOK(n, o)
                        /\ n.children \in Seq(RightTrees(o)[m])
                        /\ \A i \in 1..Len(n.children) : LargeEnough(n.children[i], o)
                        /\ ~IsLeaf(n)
    <3>1. m + 1 \in Nat /\ (m + 1) - 1 = m
      OBVIOUS
    <3>2. QED
      BY <3>1, RightParts
  <2>3. CASE m + 1 = 1
    <3>1. LeafOK(n, o) /\ Walk(n) = n.entries
      BY <2>2, <2>3, WalkRule DEF LeafOK
    <3>2. LargeEnough(n, o) => Len(n.entries) >= 1
      BY <3>1, Bounds DEF LeafOK, LargeEnough
    <3>3. QED
      BY <3>1, <3>2, EmptySeq DEF LeafOK
  <2>4. CASE m + 1 # 1
    <3>1. \A i \in 1..Len(n.children) : n.children[i] \in RightTrees(o)[m]
      BY <2>2, <2>4, ElementOfSeq
    <3>2. \A i \in 1..Len(n.children) :
                Ascending(Walk(n.children[i])) /\ Walk(n.children[i]) # <<>>
      BY <1>2, <2>2, <2>4, <3>1
    <3>3. Apart(n.children) /\ Len(n.children) \in 2..o
      BY <2>2, <2>4 DEF InternalOK
    <3>4. /\ Ascending(Walk(n))
          /\ Contents(n) = UNION {Contents(n.children[i]) : i \in 1..Len(n.children)}
      BY <2>2, <2>4, <3>2, <3>3, WalkOfInternal
    <3>5. 1 \in 1..Len(n.children)
      BY <3>3
    <3>6. Contents(n.children[1]) # {}
      <4>1. n.children[1] \in Tree[m]
        BY <3>1, <3>5, RightIsTree
      <4>2. QED
        BY <3>2, <3>5, <4>1, NoContents
    <3>7. Contents(n) # {}
      BY <3>4, <3>5, <3>6
    <3>8. QED
      BY <2>2, <3>4, <3>7, NoContents
  <2>5. QED
    BY <2>3, <2>4
<1>3. Nat \subseteq T
  <2>1. \A m \in Nat : m \in T => m + 1 \in T
    BY <1>2
  <2> HIDE DEF T
  <2>2. QED
    BY <1>1, <2>1, TreeRecursion!Induction
<1>4. QED
  BY <1>3

\* All leaves are on the lowest level, so that the height is the number of levels.
LEMMA RightHeight ==
    ASSUME NEW o \in Orders, NEW h \in Nat, NEW n \in RightTrees(o)[h]
    PROVE  Height(n) = h
<1> DEFINE T == {m \in Nat : \A c \in RightTrees(o)[m + 1] : c \notin Tree[m]}
<1>1. 0 \in T
  BY NoTree
<1>2. ASSUME NEW m \in Nat, m \in T
      PROVE  m + 1 \in T
  <2>1. SUFFICES ASSUME NEW c \in RightTrees(o)[(m + 1) + 1], c \in Tree[m + 1]
                 PROVE  FALSE
    OBVIOUS
  <2>2. /\ (m + 1) + 1 \in Nat /\ ((m + 1) + 1) - 1 = m + 1 /\ (m + 1) + 1 # 1
        /\ m + 1 \in Nat /\ (m + 1) - 1 = m
    OBVIOUS
  <2>3. InternalOK(c, o) /\ c.children \in Seq(RightTrees(o)[m + 1])
    BY <2>1, <2>2, RightParts
  <2>4. c.children \in Seq(Tree[m])
    BY <2>1, <2>2, TreeIsNode
  <2>5. 1 \in 1..Len(c.children)
    BY <2>3, Bounds DEF InternalOK
  <2>6. c.children[1] \in RightTrees(o)[m + 1] /\ c.children[1] \in Tree[m]
    BY <2>3, <2>4, <2>5, ElementOfSeq
  <2>7. QED
    BY <1>2, <2>6
<1>3. Nat \subseteq T
  <2> HIDE DEF T
  <2>1. QED
    BY <1>1, <1>2, TreeRecursion!Induction
<1>4. h - 1 \in Nat /\ n \in Tree[h] /\ (h - 1) + 1 = h
  BY RightParts
<1>5. n \notin Tree[h - 1]
  BY <1>3, <1>4
<1>6. Height(n) \in Nat /\ n \in Tree[Height(n)] /\ Height(n) <= h
  BY <1>4, HeightRule
<1>7. ~(Height(n) <= h - 1)
  BY <1>4, <1>5, <1>6, TreeMonotonic
<1>8. QED
  BY <1>4, <1>6, <1>7

\* A leaf of few enough ascending entries is right.
LEMMA LeafIsRight ==
    ASSUME NEW o \in Orders, NEW es \in Seq(Entry), Ascending(es),
           Len(es) <= MaxLeafEntries(o)
    PROVE  /\ MakeLeaf(es) \in RightTrees(o)[1]
           /\ LargeEnough(MakeLeaf(es), o) <=> Len(es) >= MinLeafEntries(o)
<1>1. MakeLeaf(es) \in Tree[1] /\ IsLeaf(MakeLeaf(es)) /\ MakeLeaf(es).entries = es
  BY LeafIsTree
<1>2. MakeLeaf(es).keys = [i \in DOMAIN es |-> es[i].key]
  BY DEF MakeLeaf
<1>3. LeafOK(MakeLeaf(es), o)
  BY <1>1, <1>2 DEF LeafOK
<1>4. MakeLeaf(es) \in Right(1, o, RightTrees(o)[1 - 1])
  BY <1>1, <1>3 DEF Right
<1>5. MakeLeaf(es) \in RightTrees(o)[1]
  BY <1>4, RightRule
<1>6. QED
  BY <1>1, <1>5 DEF LargeEnough

\* An inner node on top of right and large enough trees, that are apart, is right.
LEMMA InternalIsRight ==
    ASSUME NEW o \in Orders, NEW h \in Nat, h >= 1,
           NEW cs \in Seq(RightTrees(o)[h]), Len(cs) \in 2..o,
           \A i \in 1..Len(cs) : LargeEnough(cs[i], o), Apart(cs)
    PROVE  /\ MakeInternal(cs) \in RightTrees(o)[h + 1]
           /\ LargeEnough(MakeInternal(cs), o) <=> Len(cs) >= MinChildren(o)
           /\ Contents(MakeInternal(cs)) = UNION {Contents(cs[i]) : i \in 1..Len(cs)}
<1> DEFINE n == MakeInternal(cs)
<1>1. /\ cs \in Seq(Tree[h]) /\ cs # <<>> /\ DOMAIN cs = 1..Len(cs)
      /\ \A i \in 1..Len(cs) : cs[i] \in RightTrees(o)[h]
  <2>1. cs # <<>>
    BY EmptySeq
  <2>2. QED
    BY <2>1, RightIsTree, LenProperties, ElementOfSeq
<1>2. \A i \in 1..Len(cs) : Walk(cs[i]) # <<>>
  BY <1>1, RightWalk
<1>3. /\ n \in Tree[h + 1] /\ ~IsLeaf(n) /\ n.children = cs
      /\ n.entries = <<>> /\ n.keys = SeparatorKeys(cs)
      /\ Contents(n) = UNION {Contents(cs[i]) : i \in 1..Len(cs)}
  BY <1>1, <1>2, InternalIsTree
<1> HIDE DEF n
<1>4. InternalOK(n, o)
  BY <1>3 DEF InternalOK
<1>5. h + 1 \in Nat /\ h + 1 # 0 /\ h + 1 # 1 /\ (h + 1) - 1 = h
  OBVIOUS
<1>6. n \in Right(h + 1, o, RightTrees(o)[h])
  BY <1>1, <1>3, <1>4, <1>5 DEF Right
<1>7. n \in RightTrees(o)[h + 1]
  BY <1>5, <1>6, RightRule
<1>8. QED
  BY <1>3, <1>7 DEF LargeEnough, n

-----------------------------------------------------------------------------
(* Insertion *)

\* The last entry of a tree has the largest key (_max_key).
LEMMA MaxKeyRule ==
    ASSUME NEW h \in Nat, NEW n \in Tree[h], Ascending(Walk(n)), Walk(n) # <<>>
    PROVE  /\ MaxKey(n) \in Int
           /\ \A f \in Contents(n) : f.key <= MaxKey(n)
           /\ \E f \in Contents(n) : f.key = MaxKey(n)
<1> DEFINE w == Walk(n)
           m == Len(w)
<1>1. w \in Seq(Entry) /\ Ascending(w) /\ w # <<>>
  BY WalkType
<1>2. MaxKey(n) = w[m].key /\ Contents(n) = Range(w)
  BY DEF MaxKey, Last, Contents
<1> HIDE DEF w
<1>3. m \in 1..Len(w) /\ DOMAIN w = 1..Len(w)
  BY <1>1, EmptySeq, LenProperties
<1>4. w[m] \in Entry /\ w[m] \in Range(w)
  BY <1>1, <1>3, ElementInRange
<1>5. \A f \in Range(w) : f.key <= w[m].key
  <2>1. SUFFICES ASSUME NEW i \in 1..Len(w) PROVE w[i].key <= w[m].key
    BY <1>1, RangeElement
  <2>2. w[i] \in Entry
    BY <1>1, ElementOfSeq
  <2>3. i = m \/ i < m
    <3>1. i \in Nat /\ m \in Nat /\ i <= m
      BY <1>1, LenProperties
    <3>2. QED
      BY <3>1
  <2>4. i < m => Precedes(w[i], w[m])
    BY <1>1, <1>3 DEF Ascending
  <2>5. QED
    BY <1>4, <2>2, <2>3, <2>4, EntryIsRecord DEF Precedes
<1>6. QED
  BY <1>2, <1>4, <1>5, EntryIsRecord

\* A sequence in two halves.
LEMMA Halves ==
    ASSUME NEW S, NEW s \in Seq(S), NEW m \in 0..Len(s)
    PROVE  /\ SubSeq(s, 1, m) \in Seq(S) /\ SubSeq(s, m + 1, Len(s)) \in Seq(S)
           /\ Len(SubSeq(s, 1, m)) = m
           /\ Len(SubSeq(s, m + 1, Len(s))) = Len(s) - m
           /\ Range(SubSeq(s, 1, m)) \cup Range(SubSeq(s, m + 1, Len(s))) = Range(s)
           /\ \A rel : Chain(s, rel) =>
                /\ Chain(SubSeq(s, 1, m), rel)
                /\ Chain(SubSeq(s, m + 1, Len(s)), rel)
                /\ Linked(SubSeq(s, 1, m), SubSeq(s, m + 1, Len(s)), rel)
<1>1. /\ Len(s) \in Nat /\ DOMAIN s = 1..Len(s) /\ m \in Nat /\ m <= Len(s)
      /\ 1 \in 1..(Len(s) + 1) /\ m \in 0..Len(s)
      /\ m + 1 \in 1..(Len(s) + 1) /\ Len(s) \in 0..Len(s)
      /\ m + 1 \in (m + 1)..(Len(s) + 1)
  BY LenProperties
<1>2. /\ SubSeq(s, 1, m) \in Seq(S)
      /\ Len(SubSeq(s, 1, m)) = m
      /\ Range(SubSeq(s, 1, m)) = {s[i] : i \in 1..m}
  <2>1. /\ SubSeq(s, 1, m) \in Seq(S)
        /\ Len(SubSeq(s, 1, m)) = IF 1 <= m THEN m - 1 + 1 ELSE 0
        /\ Range(SubSeq(s, 1, m)) = {s[i] : i \in 1..m}
    BY <1>1, SubSeqElements
  <2>2. QED
    BY <1>1, <2>1
<1>3. /\ SubSeq(s, m + 1, Len(s)) \in Seq(S)
      /\ Len(SubSeq(s, m + 1, Len(s))) = Len(s) - m
      /\ Range(SubSeq(s, m + 1, Len(s))) = {s[i] : i \in (m + 1)..Len(s)}
  <2>1. /\ SubSeq(s, m + 1, Len(s)) \in Seq(S)
        /\ Len(SubSeq(s, m + 1, Len(s))) =
              IF m + 1 <= Len(s) THEN Len(s) - (m + 1) + 1 ELSE 0
        /\ Range(SubSeq(s, m + 1, Len(s))) = {s[i] : i \in (m + 1)..Len(s)}
    BY <1>1, SubSeqElements
  <2>2. ASSUME NEW k \in Nat, m <= k
        PROVE  (IF m + 1 <= k THEN k - (m + 1) + 1 ELSE 0) = k - m
    BY <2>2
  <2>3. QED
    BY <1>1, <2>1, <2>2
<1>4. {s[i] : i \in 1..m} \cup {s[i] : i \in (m + 1)..Len(s)} = Range(s)
  <2>1. \A i : i \in 1..Len(s) <=> i \in 1..m \/ i \in (m + 1)..Len(s)
    BY <1>1
  <2>2. Range(s) = {s[i] : i \in 1..Len(s)}
    BY <1>1 DEF Range
  <2>3. QED
    BY <2>1, <2>2
<1>5. ASSUME NEW rel, Chain(s, rel)
      PROVE  /\ Chain(SubSeq(s, 1, m), rel)
             /\ Chain(SubSeq(s, m + 1, Len(s)), rel)
             /\ Linked(SubSeq(s, 1, m), SubSeq(s, m + 1, Len(s)), rel)
  <2>1. Chain(SubSeq(s, 1, m), rel)
    BY <1>1, <1>5, ChainSub
  <2>2. Chain(SubSeq(s, m + 1, Len(s)), rel)
    BY <1>1, <1>5, ChainSub
  <2>3. Linked(SubSeq(s, 1, m), SubSeq(s, m + 1, Len(s)), rel)
    BY <1>1, <1>5, ChainLinks
  <2>4. QED
    BY <2>1, <2>2, <2>3
<1>6. QED
  BY <1>2, <1>3, <1>4, <1>5

ContentsOf(cs) == UNION {Contents(cs[i]) : i \in 1..Len(cs)}

\* Sequences of one and of two elements.
LEMMA ShortSequences ==
    ASSUME NEW S, NEW a \in S, NEW b \in S
    PROVE  /\ <<a>> \in Seq(S) /\ Len(<<a>>) = 1 /\ <<a>>[1] = a
           /\ <<a, b>> \in Seq(S) /\ Len(<<a, b>>) = 2
           /\ <<a, b>>[1] = a /\ <<a, b>>[2] = b
OBVIOUS

\* What one and two nodes contain, and when they are apart.
LEMMA OneOrTwo ==
    ASSUME NEW a, NEW b
    PROVE  /\ Apart(<<a>>)
           /\ ContentsOf(<<a>>) = Contents(a)
           /\ Apart(<<a, b>>) <=> \A e \in Contents(a), f \in Contents(b) : Precedes(e, f)
           /\ ContentsOf(<<a, b>>) = Contents(a) \cup Contents(b)
<1>1. /\ Len(<<a>>) = 1 /\ DOMAIN <<a>> = {1} /\ <<a>>[1] = a
      /\ Len(<<a, b>>) = 2 /\ DOMAIN <<a, b>> = {1, 2}
      /\ <<a, b>>[1] = a /\ <<a, b>>[2] = b
  OBVIOUS
<1>2. 1..1 = {1} /\ 1..2 = {1, 2}
  OBVIOUS
<1>3. Apart(<<a>>)
  BY <1>1 DEF Apart
<1>4. Apart(<<a, b>>) <=> \A e \in Contents(a), f \in Contents(b) : Precedes(e, f)
  BY <1>1 DEF Apart
<1>5. ContentsOf(<<a>>) = Contents(a)
  BY <1>1, <1>2 DEF ContentsOf
<1>6. ContentsOf(<<a, b>>) = Contents(a) \cup Contents(b)
  BY <1>1, <1>2 DEF ContentsOf
<1>7. QED
  BY <1>3, <1>4, <1>5, <1>6

\* What depends on the set of the nodes only.
LEMMA ContentsOfRange ==
    ASSUME NEW S, NEW cs \in Seq(S)
    PROVE  ContentsOf(cs) = UNION {Contents(c) : c \in Range(cs)}
<1>1. Range(cs) = {cs[i] : i \in 1..Len(cs)}
  BY LenProperties DEF Range
<1>2. QED
  BY <1>1 DEF ContentsOf

\* The nodes that replace a node of h levels which e is inserted into.
Grown(n, ns, e, o, h) ==
    /\ ns \in Seq(RightTrees(o)[h])
    /\ Len(ns) \in 1..2
    /\ LargeEnough(n, o) \/ Len(ns) = 2 => \A i \in 1..Len(ns) : LargeEnough(ns[i], o)
    /\ Apart(ns)
    /\ ContentsOf(ns) = Contents(n) \cup {e}

\* An insertion into a leaf makes one or two right leaves (_insert_into, _split_leaf).
LEMMA LeafGrows ==
    ASSUME NEW o \in Orders, NEW n \in RightTrees(o)[1], NEW e \in Entry,
           \A f \in Contents(n) : f.sequence < e.sequence
    PROVE  Grown(n, LeafOrTwo(Inserted(n.entries, e), o), e, o, 1)
<1> DEFINE es == Inserted(n.entries, e)
           ns == LeafOrTwo(es, o)
<1>1. n \in Tree[1] /\ LeafOK(n, o)
  BY RightParts
<1>2. n.entries \in Seq(Entry) /\ Walk(n) = n.entries
  BY <1>1, TreeIsNode, WalkRule DEF LeafOK
<1>3. /\ IsLeaf(n) /\ Ascending(n.entries) /\ Contents(n) = Range(n.entries)
      /\ Len(n.entries) \in Nat /\ Len(n.entries) <= MaxLeafEntries(o)
  BY <1>1, <1>2, LenProperties DEF LeafOK, Contents
<1>4. \A f \in Range(n.entries) : f.sequence # e.sequence
  <2>1. \A f \in Range(n.entries) : f \in Entry
    BY <1>2, RangeOfSeq
  <2>2. QED
    BY <1>3, <2>1, EntryIsRecord
<1>5. /\ es \in Seq(Entry) /\ Ascending(es)
      /\ Range(es) = Range(n.entries) \cup {e}
      /\ Len(es) = Len(n.entries) + 1
  BY <1>2, <1>3, <1>4, InsertedKeeps
<1>6. LargeEnough(n, o) => Len(n.entries) >= MinLeafEntries(o)
  BY <1>3 DEF LargeEnough
<1> HIDE DEF es
<1>7. CASE Len(es) <= MaxLeafEntries(o)
  <2> DEFINE l == MakeLeaf(es)
  <2>1. ns = <<l>>
    BY <1>7 DEF LeafOrTwo
  <2>2. /\ l \in RightTrees(o)[1]
        /\ LargeEnough(l, o) <=> Len(es) >= MinLeafEntries(o)
        /\ Contents(l) = Range(es)
    BY <1>5, <1>7, LeafIsRight, LeafIsTree
  <2> HIDE DEF l
  <2>3. LargeEnough(n, o) => LargeEnough(l, o)
    BY <1>3, <1>5, <1>6, <2>2, Bounds
  <2>4. Apart(<<l>>) /\ ContentsOf(<<l>>) = Contents(n) \cup {e}
    BY <1>3, <1>5, <2>2, OneOrTwo
  <2>5. <<l>> \in Seq(RightTrees(o)[1]) /\ Len(<<l>>) = 1 /\ <<l>>[1] = l
    BY <2>2, ShortSequences
  <2>6. Grown(n, <<l>>, e, o, 1)
    BY <2>3, <2>4, <2>5 DEF Grown
  <2>7. QED
    BY <2>1, <2>6 DEF es
<1>8. CASE ~(Len(es) <= MaxLeafEntries(o))
  <2> DEFINE half == Len(es) \div 2
             s == SubSeq(es, 1, half)
             t == SubSeq(es, half + 1, Len(es))
             l == MakeLeaf(s)
             r == MakeLeaf(t)
  <2>1. ns = <<l, r>>
    BY <1>8 DEF LeafOrTwo, SplitLeaf
  <2>2. Len(es) = o
    BY <1>3, <1>5, <1>8, Bounds
  <2>3. half \in 0..Len(es) /\ half \in Nat
    BY <2>2, Bounds
  <2>4. Chain(es, InThisOrder)
    BY <1>5, AscendingIsChain
  <2>5. /\ s \in Seq(Entry) /\ t \in Seq(Entry)
        /\ Len(s) = half /\ Len(t) = Len(es) - half
        /\ Range(s) \cup Range(t) = Range(es)
        /\ Chain(s, InThisOrder) /\ Chain(t, InThisOrder) /\ Linked(s, t, InThisOrder)
    BY <1>5, <2>3, <2>4, Halves
  <2>6. /\ half <= MaxLeafEntries(o) /\ half >= MinLeafEntries(o)
        /\ Len(es) - half <= MaxLeafEntries(o) /\ Len(es) - half >= MinLeafEntries(o)
    <3>1. o \in Nat /\ o >= 3 /\ MaxLeafEntries(o) = o - 1 /\ half = o \div 2
      BY <2>2, Bounds
    <3>2. MinLeafEntries(o) \in Nat /\ 2 * MinLeafEntries(o) <= o
      BY Bounds
    <3>3. half \in Nat /\ 2 * half <= o /\ 2 * half >= o - 1
      BY <3>1
    <3>4. QED
      BY <2>2, <3>1, <3>2, <3>3
  <2>7. Ascending(s) /\ Ascending(t)
    BY <2>5, AscendingIsChain
  <2> HIDE DEF s, t, half
  <2>8. /\ l \in RightTrees(o)[1] /\ LargeEnough(l, o) /\ Contents(l) = Range(s)
        /\ r \in RightTrees(o)[1] /\ LargeEnough(r, o) /\ Contents(r) = Range(t)
    BY <2>5, <2>6, <2>7, LeafIsRight, LeafIsTree
  <2> HIDE DEF l, r
  <2>9. Apart(<<l, r>>) /\ ContentsOf(<<l, r>>) = Contents(n) \cup {e}
    <3>1. \A f \in Contents(l), g \in Contents(r) : Precedes(f, g)
      BY <2>5, <2>8 DEF Linked, InThisOrder
    <3>2. QED
      BY <1>3, <1>5, <2>5, <2>8, <3>1, OneOrTwo
  <2>10. /\ <<l, r>> \in Seq(RightTrees(o)[1])
         /\ Len(<<l, r>>) = 2 /\ <<l, r>>[1] = l /\ <<l, r>>[2] = r
    BY <2>8, ShortSequences
  <2>11. Grown(n, <<l, r>>, e, o, 1)
    <3>1. \A i \in 1..2 : <<l, r>>[i] = l \/ <<l, r>>[i] = r
      OBVIOUS
    <3>2. \A i \in 1..2 : LargeEnough(<<l, r>>[i], o)
      BY <2>8, <3>1
    <3>3. QED
      BY <2>9, <2>10, <3>2 DEF Grown
  <2>12. QED
    BY <2>1, <2>11 DEF es
<1>9. QED
  BY <1>7, <1>8

\* An inner node that has become too large is split in two that are right.
LEMMA InternalGrows ==
    ASSUME NEW o \in Orders, NEW h \in Nat, h >= 1,
           NEW cs \in Seq(RightTrees(o)[h]), Len(cs) \in 2..(o + 1),
           \A i \in 1..Len(cs) : LargeEnough(cs[i], o), Apart(cs)
    PROVE  LET ns == InternalOrTwo(cs, o)
           IN /\ ns \in Seq(RightTrees(o)[h + 1])
              /\ Len(ns) \in 1..2
              /\ Len(cs) >= MinChildren(o) \/ Len(ns) = 2
                    => \A i \in 1..Len(ns) : LargeEnough(ns[i], o)
              /\ Apart(ns)
              /\ ContentsOf(ns) = ContentsOf(cs)
<1> DEFINE ns == InternalOrTwo(cs, o)
<1>1. o \in Nat /\ o >= 3 /\ MinChildren(o) \in Nat /\ 2 * MinChildren(o) <= o + 1
  BY Bounds
<1>2. CASE Len(cs) <= o
  <2> DEFINE l == MakeInternal(cs)
  <2>1. ns = <<l>>
    BY <1>2 DEF InternalOrTwo
  <2>2. /\ l \in RightTrees(o)[h + 1]
        /\ LargeEnough(l, o) <=> Len(cs) >= MinChildren(o)
        /\ Contents(l) = ContentsOf(cs)
    <3>1. Len(cs) \in 2..o
      BY <1>1, <1>2
    <3>2. QED
      BY <3>1, InternalIsRight DEF ContentsOf
  <2> HIDE DEF l
  <2>3. Apart(<<l>>) /\ ContentsOf(<<l>>) = ContentsOf(cs)
    BY <2>2, OneOrTwo
  <2>4. <<l>> \in Seq(RightTrees(o)[h + 1]) /\ Len(<<l>>) = 1 /\ <<l>>[1] = l
    BY <2>2, ShortSequences
  <2>5. QED
    BY <2>1, <2>2, <2>3, <2>4
<1>3. CASE ~(Len(cs) <= o)
  <2> DEFINE half == Len(cs) \div 2
             s == SubSeq(cs, 1, half)
             t == SubSeq(cs, half + 1, Len(cs))
             l == MakeInternal(s)
             r == MakeInternal(t)
  <2>1. ns = <<l, r>>
    BY <1>3 DEF InternalOrTwo, SplitInternal
  <2>2. Len(cs) = o + 1
    BY <1>1, <1>3
  <2>3. /\ half \in 0..Len(cs) /\ half \in Nat
        /\ half \in 2..o /\ half >= MinChildren(o)
        /\ Len(cs) - half \in 2..o /\ Len(cs) - half >= MinChildren(o)
    <3>1. half = (o + 1) \div 2 /\ half \in Nat
      BY <1>1, <2>2
    <3>2. 2 * half <= o + 1 /\ 2 * half >= o
      BY <1>1, <3>1
    <3> HIDE DEF half
    <3>3. QED
      BY <1>1, <2>2, <3>1, <3>2
  <2>4. cs \in Seq(AllTrees) /\ cs \in Seq(Tree[h])
    BY RightIsTree, OfAllTrees
  <2>5. Chain(cs, InThisOrderOfTrees)
    BY <2>4, ApartIsChain
  <2> HIDE DEF half
  <2>6. /\ s \in Seq(RightTrees(o)[h]) /\ t \in Seq(RightTrees(o)[h])
        /\ Len(s) = half /\ Len(t) = Len(cs) - half
        /\ Range(s) \cup Range(t) = Range(cs)
        /\ Chain(s, InThisOrderOfTrees) /\ Chain(t, InThisOrderOfTrees)
        /\ Linked(s, t, InThisOrderOfTrees)
    BY <2>3, <2>5, Halves
  <2>7. Apart(s) /\ Apart(t)
    BY <2>6, RightIsTree, OfAllTrees, ApartIsChain
  <2>8. \A c \in Range(cs) : LargeEnough(c, o)
    BY RangeElement
  <2> HIDE DEF s, t
  <2>9. /\ \A i \in 1..Len(s) : LargeEnough(s[i], o)
        /\ \A i \in 1..Len(t) : LargeEnough(t[i], o)
    BY <2>6, <2>8, ElementInRange
  <2>10. /\ l \in RightTrees(o)[h + 1] /\ LargeEnough(l, o)
         /\ Contents(l) = ContentsOf(s)
    BY <2>3, <2>6, <2>7, <2>9, InternalIsRight DEF ContentsOf
  <2> HIDE DEF l
  <2>11. /\ r \in RightTrees(o)[h + 1] /\ LargeEnough(r, o)
         /\ Contents(r) = ContentsOf(t)
    <3>1. Len(t) \in 2..o /\ Len(t) >= MinChildren(o)
      BY <2>3, <2>6
    <3>2. QED
      BY <2>6, <2>7, <2>9, <3>1, InternalIsRight DEF ContentsOf
  <2> HIDE DEF r
  <2>12. /\ ContentsOf(s) = UNION {Contents(c) : c \in Range(s)}
         /\ ContentsOf(t) = UNION {Contents(c) : c \in Range(t)}
         /\ ContentsOf(cs) = UNION {Contents(c) : c \in Range(cs)}
    BY <2>6, ContentsOfRange
  <2>13. \A e \in Contents(l), f \in Contents(r) : Precedes(e, f)
    <3>1. SUFFICES ASSUME NEW a \in Range(s), NEW b \in Range(t),
                          NEW e \in Contents(a), NEW f \in Contents(b)
                   PROVE  Precedes(e, f)
      BY <2>10, <2>11, <2>12
    <3>2. <<a, b>> \in InThisOrderOfTrees
      BY <2>6 DEF Linked
    <3>3. QED
      BY <3>2 DEF InThisOrderOfTrees
  <2>14. Apart(<<l, r>>) /\ ContentsOf(<<l, r>>) = ContentsOf(cs)
    <3>1. ContentsOf(s) \cup ContentsOf(t) = ContentsOf(cs)
      BY <2>6, <2>12
    <3>2. QED
      BY <2>10, <2>11, <2>13, <3>1, OneOrTwo
  <2>15. /\ <<l, r>> \in Seq(RightTrees(o)[h + 1])
         /\ Len(<<l, r>>) = 2 /\ <<l, r>>[1] = l /\ <<l, r>>[2] = r
    BY <2>10, <2>11, ShortSequences
  <2>16. \A i \in 1..2 : LargeEnough(<<l, r>>[i], o)
    <3>1. \A i \in 1..2 : <<l, r>>[i] = l \/ <<l, r>>[i] = r
      OBVIOUS
    <3>2. QED
      BY <2>10, <2>11, <3>1
  <2>17. QED
    BY <2>1, <2>14, <2>15, <2>16
<1>4. QED
  BY <1>2, <1>3

\* What a sequence is after one element was replaced, and when it is still a chain.
LEMMA ReplacedKeeps ==
    ASSUME NEW S, NEW cs \in Seq(S), NEW i \in 1..Len(cs), NEW ns \in Seq(S)
    PROVE  /\ Replaced(cs, i, ns) \in Seq(S)
           /\ Len(Replaced(cs, i, ns)) = Len(cs) - 1 + Len(ns)
           /\ Range(Replaced(cs, i, ns)) =
                {cs[j] : j \in (1..Len(cs)) \ {i}} \cup Range(ns)
           /\ \A rel :
                /\ Chain(cs, rel) /\ Chain(ns, rel)
                /\ \A j \in 1..Len(cs) : \A b \in Range(ns) :
                        /\ j < i => <<cs[j], b>> \in rel
                        /\ j > i => <<b, cs[j]>> \in rel
                => Chain(Replaced(cs, i, ns), rel)
<1> DEFINE l == SubSeq(cs, 1, i - 1)
           r == SubSeq(cs, i + 1, Len(cs))
           ln == l \o ns
<1>1. /\ Len(cs) \in Nat /\ i \in Nat /\ i >= 1 /\ i <= Len(cs)
      /\ 1 \in 1..(Len(cs) + 1) /\ i - 1 \in 0..Len(cs)
      /\ i + 1 \in 1..(Len(cs) + 1) /\ Len(cs) \in 0..Len(cs)
      /\ i + 1 \in ((i - 1) + 1)..(Len(cs) + 1)
  <2>1. Len(cs) \in Nat
    BY LenProperties
  <2>2. i \in Nat /\ i >= 1 /\ i <= Len(cs)
    BY <2>1
  <2>3. \A k, m \in Nat : k >= 1 /\ k <= m =>
            /\ 1 \in 1..(m + 1) /\ k - 1 \in 0..m
            /\ k + 1 \in 1..(m + 1) /\ m \in 0..m
            /\ k + 1 \in ((k - 1) + 1)..(m + 1)
    OBVIOUS
  <2>4. QED
    BY <2>1, <2>2, <2>3
<1>2. /\ l \in Seq(S)
      /\ Len(l) = i - 1
      /\ Range(l) = {cs[j] : j \in 1..(i - 1)}
  <2>1. /\ l \in Seq(S)
        /\ Len(l) = IF 1 <= i - 1 THEN (i - 1) - 1 + 1 ELSE 0
        /\ Range(l) = {cs[j] : j \in 1..(i - 1)}
    <3>1. 1 \in 1..(Len(cs) + 1) /\ i - 1 \in 0..Len(cs)
      BY <1>1
    <3>2. QED
      BY <3>1, SubSeqElements, Zenon
  <2>2. (IF 1 <= i - 1 THEN (i - 1) - 1 + 1 ELSE 0) = i - 1
    BY <1>1
  <2>3. QED
    BY <2>1, <2>2
<1>3. /\ r \in Seq(S)
      /\ Len(r) = Len(cs) - i
      /\ Range(r) = {cs[j] : j \in (i + 1)..Len(cs)}
  <2>1. /\ r \in Seq(S)
        /\ Len(r) = IF i + 1 <= Len(cs) THEN Len(cs) - (i + 1) + 1 ELSE 0
        /\ Range(r) = {cs[j] : j \in (i + 1)..Len(cs)}
    BY <1>1, SubSeqElements
  <2>2. ASSUME NEW k \in Nat, i <= k
        PROVE  (IF i + 1 <= k THEN k - (i + 1) + 1 ELSE 0) = k - i
    BY <1>1, <2>2
  <2>3. QED
    BY <1>1, <2>1, <2>2
<1>4. ASSUME NEW rel, Chain(cs, rel)
      PROVE  /\ Chain(l, rel) /\ Chain(r, rel) /\ Linked(l, r, rel)
  <2>1. Chain(l, rel)
    BY <1>1, <1>4, ChainSub
  <2>2. Chain(r, rel)
    BY <1>1, <1>4, ChainSub
  <2>3. Linked(l, r, rel)
    BY <1>1, <1>4, ChainLinks
  <2>4. QED
    BY <2>1, <2>2, <2>3
<1>5. Replaced(cs, i, ns) = ln \o r
  BY DEF Replaced
<1> HIDE DEF l, r
<1>6. ln \in Seq(S) /\ Len(ln) = Len(l) + Len(ns) /\ Range(ln) = Range(l) \cup Range(ns)
  <2>1. ln \in Seq(S) /\ Len(ln) = Len(l) + Len(ns)
    BY <1>2, ConcatProperties
  <2>2. Range(ln) = Range(l) \cup Range(ns)
    BY <1>2, RangeConcatenation
  <2>3. QED
    BY <2>1, <2>2
<1> HIDE DEF ln
<1>7. /\ ln \o r \in Seq(S) /\ Len(ln \o r) = Len(ln) + Len(r)
      /\ Range(ln \o r) = Range(ln) \cup Range(r)
  <2>1. ln \o r \in Seq(S) /\ Len(ln \o r) = Len(ln) + Len(r)
    BY <1>3, <1>6, ConcatProperties
  <2>2. Range(ln \o r) = Range(ln) \cup Range(r)
    BY <1>3, <1>6, RangeConcatenation
  <2>3. QED
    BY <2>1, <2>2
<1>8. {cs[j] : j \in (1..Len(cs)) \ {i}} = Range(l) \cup Range(r)
  <2>1. \A j : j \in (1..Len(cs)) \ {i} <=> j \in 1..(i - 1) \/ j \in (i + 1)..Len(cs)
    BY <1>1
  <2>2. QED
    BY <1>2, <1>3, <2>1
<1>9. Len(ln \o r) = Len(cs) - 1 + Len(ns)
  <2>1. Len(ns) \in Nat
    BY LenProperties
  <2>2. QED
    BY <1>1, <1>2, <1>3, <1>6, <1>7, <2>1
<1>10. ASSUME NEW rel, Chain(cs, rel), Chain(ns, rel),
              \A j \in 1..Len(cs) : \A b \in Range(ns) :
                        /\ j < i => <<cs[j], b>> \in rel
                        /\ j > i => <<b, cs[j]>> \in rel
       PROVE  Chain(ln \o r, rel)
  <2>1. Chain(l, rel) /\ Chain(r, rel) /\ Linked(l, r, rel)
    BY <1>4, <1>10
  <2>2. Linked(l, ns, rel)
    <3>1. \A j \in 1..(i - 1) : j \in 1..Len(cs) /\ j < i
      BY <1>1
    <3>2. QED
      BY <1>2, <1>10, <3>1 DEF Linked
  <2>3. Linked(ns, r, rel)
    <3>1. \A j \in (i + 1)..Len(cs) : j \in 1..Len(cs) /\ j > i
      BY <1>1
    <3>2. QED
      BY <1>3, <1>10, <3>1 DEF Linked
  <2>4. Chain(ln, rel)
    BY <1>2, <1>10, <2>1, <2>2, ChainConcat DEF ln
  <2>5. Linked(ln, r, rel)
    BY <1>6, <2>1, <2>3 DEF Linked
  <2>6. QED
    BY <1>3, <1>6, <2>1, <2>4, <2>5, ChainConcat
<1>11. QED
  BY <1>5, <1>6, <1>7, <1>8, <1>9, <1>10

AllContents(ns) == UNION {Contents(n) : n \in ns}

\* The contents of some nodes together.
LEMMA AllContentsRules ==
    ASSUME NEW A, NEW B, NEW c
    PROVE  /\ AllContents(A \cup B) = AllContents(A) \cup AllContents(B)
           /\ AllContents({c}) = Contents(c)
<1>1. \A x : x \in AllContents(A \cup B) <=> x \in AllContents(A) \cup AllContents(B)
  BY DEF AllContents
<1>2. \A x : x \in AllContents({c}) <=> x \in Contents(c)
  BY DEF AllContents
<1>3. QED
  BY <1>1, <1>2

\* An inner node whose child i is the one that an entry belongs to.
LEMMA ChildForRule ==
    ASSUME NEW o \in Orders, NEW h \in Nat, NEW n \in RightTrees(o)[h], h # 1,
           NEW e \in Entry, \A f \in Contents(n) : f.sequence < e.sequence
    PROVE  LET i == ChildFor(n.keys, e.key)
           IN /\ i \in 1..Len(n.children)
              /\ \A j \in 1..Len(n.children) :
                    /\ j < i => \A f \in Contents(n.children[j]) : Precedes(f, e)
                    /\ j > i => \A f \in Contents(n.children[j]) : Precedes(e, f)
<1> DEFINE cs == n.children
           places == {j \in DOMAIN n.keys : ~(e.key >= n.keys[j])}
           i == FirstOf(places, n.keys)
<1>1. /\ h - 1 \in Nat /\ n \in Tree[h] /\ InternalOK(n, o) /\ ~IsLeaf(n)
      /\ cs \in Seq(RightTrees(o)[h - 1])
      /\ \A j \in 1..Len(cs) : LargeEnough(cs[j], o)
  BY RightParts
<1>2. /\ Len(cs) \in 2..o /\ n.keys = SeparatorKeys(cs) /\ Apart(cs)
  BY <1>1 DEF InternalOK
<1>3. Contents(n) = UNION {Contents(cs[j]) : j \in 1..Len(cs)}
  BY <1>1, WalkOfInternal
<1>4. ChildFor(n.keys, e.key) = i
  BY DEF ChildFor
<1>5. n.keys \in Seq(Keys)
  BY <1>1, TreeIsNode
<1> HIDE DEF cs
<1>6. o \in Nat /\ Len(cs) \in Nat /\ Len(cs) - 1 \in Nat
  <2>1. o \in Nat
    BY Bounds
  <2>2. QED
    BY <1>2, <2>1
<1>7. /\ Len(n.keys) = Len(cs) - 1
      /\ DOMAIN n.keys = 1..(Len(cs) - 1)
      /\ \A j \in 1..(Len(cs) - 1) : n.keys[j] = MaxKey(cs[j])
  BY <1>2, <1>6 DEF SeparatorKeys
<1>8. /\ i \in 1..((Len(cs) - 1) + 1)
      /\ \A j \in 1..(Len(cs) - 1) : j < i => j \notin places
      /\ i <= Len(cs) - 1 => i \in places
  <2>1. places \subseteq 1..Len(n.keys)
    BY <1>7
  <2> HIDE DEF places
  <2>2. /\ FirstOf(places, n.keys) \in 1..(Len(n.keys) + 1)
        /\ \A j \in 1..Len(n.keys) : j < FirstOf(places, n.keys) => j \notin places
        /\ FirstOf(places, n.keys) <= Len(n.keys) => FirstOf(places, n.keys) \in places
    BY <1>5, <2>1, FirstOfRule
  <2>3. QED
    BY <1>7, <2>2 DEF i
<1> HIDE DEF i
<1>9. i \in 1..Len(cs) /\ i \in Nat
  BY <1>6, <1>8
<1>10. \A j \in 1..Len(cs) :
            /\ cs[j] \in RightTrees(o)[h - 1] /\ cs[j] \in Tree[h - 1]
            /\ Ascending(Walk(cs[j])) /\ Walk(cs[j]) # <<>>
            /\ Contents(cs[j]) \subseteq Entry
            /\ \A f \in Contents(cs[j]) : f.sequence < e.sequence
  <2>1. SUFFICES ASSUME NEW j \in 1..Len(cs)
                 PROVE  /\ cs[j] \in RightTrees(o)[h - 1] /\ cs[j] \in Tree[h - 1]
                        /\ Ascending(Walk(cs[j])) /\ Walk(cs[j]) # <<>>
                        /\ Contents(cs[j]) \subseteq Entry
                        /\ \A f \in Contents(cs[j]) : f.sequence < e.sequence
    OBVIOUS
  <2>2. cs[j] \in RightTrees(o)[h - 1]
    BY <1>1, ElementOfSeq
  <2>3. cs[j] \in Tree[h - 1]
    BY <1>1, <2>2, RightIsTree
  <2>4. Ascending(Walk(cs[j])) /\ Walk(cs[j]) # <<>>
    BY <1>1, <2>2, RightWalk
  <2>5. Contents(cs[j]) \subseteq Entry
    BY <1>1, <2>3, ContentsOfTree
  <2>6. \A f \in Contents(cs[j]) : f.sequence < e.sequence
    BY <1>3
  <2>7. QED
    BY <2>2, <2>3, <2>4, <2>5, <2>6
<1>11. \A j \in 1..Len(cs) :
            /\ MaxKey(cs[j]) \in Int
            /\ \A f \in Contents(cs[j]) : f.key <= MaxKey(cs[j])
            /\ \E f \in Contents(cs[j]) : f.key = MaxKey(cs[j])
  BY <1>1, <1>10, MaxKeyRule
<1>12. ASSUME NEW j \in 1..Len(cs), j < i, NEW f \in Contents(cs[j])
       PROVE  Precedes(f, e)
  <2>1. j \in 1..(Len(cs) - 1)
    BY <1>6, <1>9, <1>12
  <2>2. e.key >= MaxKey(cs[j])
    BY <1>7, <1>8, <1>12, <2>1
  <2>3. f \in Entry /\ f.sequence < e.sequence /\ f.key <= MaxKey(cs[j])
    BY <1>10, <1>11
  <2>4. e.key \in Int /\ f.key \in Int /\ MaxKey(cs[j]) \in Int
    BY <1>11, <2>3, EntryIsRecord
  <2>5. f.key <= e.key
    BY <2>2, <2>3, <2>4
  <2>6. QED
    BY <2>3, <2>4, <2>5 DEF Precedes
<1>13. ASSUME NEW j \in 1..Len(cs), j > i, NEW f \in Contents(cs[j])
       PROVE  Precedes(e, f)
  <2>1. i \in 1..(Len(cs) - 1)
    BY <1>6, <1>9, <1>13
  <2>2. ~(e.key >= MaxKey(cs[i]))
    BY <1>7, <1>8, <2>1
  <2>3. PICK g \in Contents(cs[i]) : g.key = MaxKey(cs[i])
    BY <1>9, <1>11
  <2>4. Precedes(g, f)
    <3>1. DOMAIN cs = 1..Len(cs)
      BY <1>1, LenProperties
    <3>2. QED
      BY <1>2, <1>9, <1>13, <3>1 DEF Apart
  <2>5. f \in Entry /\ g \in Entry
    BY <1>9, <1>10
  <2>6. e.key \in Int /\ f.key \in Int /\ g.key \in Int
    BY <2>5, EntryIsRecord
  <2>7. g.key <= f.key
    BY <2>4, <2>6 DEF Precedes
  <2>8. e.key < f.key
    BY <2>2, <2>3, <2>6, <2>7
  <2>9. QED
    BY <2>8 DEF Precedes
<1>14. QED
  BY <1>4, <1>9, <1>12, <1>13 DEF cs

\* An inner node whose child grows, grows.
LEMMA ChildrenGrow ==
    ASSUME NEW o \in Orders, NEW h \in Nat, NEW n \in RightTrees(o)[h], h # 1,
           NEW e \in Entry, \A f \in Contents(n) : f.sequence < e.sequence,
           NEW ns, Grown(n.children[ChildFor(n.keys, e.key)], ns, e, o, h - 1)
    PROVE  Grown(n, InternalOrTwo(Replaced(n.children, ChildFor(n.keys, e.key), ns), o),
                 e, o, h)
<1> DEFINE cs == n.children
           i == ChildFor(n.keys, e.key)
           c == cs[i]
           ds == Replaced(cs, i, ns)
<1>1. /\ h - 1 \in Nat /\ n \in Tree[h] /\ InternalOK(n, o) /\ ~IsLeaf(n)
      /\ cs \in Seq(RightTrees(o)[h - 1])
      /\ \A j \in 1..Len(cs) : LargeEnough(cs[j], o)
  BY RightParts
<1>2. /\ Len(cs) \in 2..o /\ Apart(cs)
  BY <1>1 DEF InternalOK
<1>3. Contents(n) = ContentsOf(cs)
  BY <1>1, WalkOfInternal DEF ContentsOf
<1>4. /\ i \in 1..Len(cs)
      /\ \A j \in 1..Len(cs) :
            /\ j < i => \A f \in Contents(cs[j]) : Precedes(f, e)
            /\ j > i => \A f \in Contents(cs[j]) : Precedes(e, f)
  BY ChildForRule
<1>5. LargeEnough(n, o) <=> Len(cs) >= MinChildren(o)
  BY <1>1 DEF LargeEnough
<1> HIDE DEF cs, i
<1>6. o \in Nat /\ o >= 3 /\ Len(cs) \in Nat
  <2>1. o \in Nat /\ o >= 3
    BY Bounds
  <2>2. QED
    BY <1>2, <2>1
<1>7. c \in RightTrees(o)[h - 1] /\ c \in Tree[h - 1] /\ LargeEnough(c, o)
  BY <1>1, <1>4, ElementOfSeq, RightIsTree
<1>8. /\ ns \in Seq(RightTrees(o)[h - 1])
      /\ Len(ns) \in 1..2
      /\ \A j \in 1..Len(ns) : LargeEnough(ns[j], o)
      /\ Apart(ns)
      /\ ContentsOf(ns) = Contents(c) \cup {e}
  BY <1>7 DEF Grown, cs, i
<1> HIDE DEF c
<1>9. /\ cs \in Seq(AllTrees) /\ ns \in Seq(AllTrees)
      /\ cs \in Seq(Tree[h - 1]) /\ ns \in Seq(Tree[h - 1])
  BY <1>1, <1>8, RightIsTree, OfAllTrees
<1>10. Chain(cs, InThisOrderOfTrees) /\ Chain(ns, InThisOrderOfTrees)
  BY <1>2, <1>8, <1>9, ApartIsChain
<1>11. ASSUME NEW j \in 1..Len(cs), NEW b \in Range(ns)
       PROVE  /\ j < i => <<cs[j], b>> \in InThisOrderOfTrees
              /\ j > i => <<b, cs[j]>> \in InThisOrderOfTrees
  <2>1. cs[j] \in AllTrees /\ b \in AllTrees
    <3>1. b \in AllTrees
      BY <1>9, RangeOfSeq
    <3>2. QED
      BY <1>9, <3>1, ElementOfSeq
  <2>2. \A f \in Contents(b) : f = e \/ f \in Contents(c)
    BY <1>8, ContentsOfRange
  <2>3. DOMAIN cs = 1..Len(cs)
    BY <1>1, LenProperties
  <2>4. ASSUME j < i, NEW f \in Contents(cs[j]), NEW g \in Contents(b)
        PROVE  Precedes(f, g)
    BY <1>2, <1>4, <2>2, <2>3, <2>4 DEF Apart, c
  <2>5. ASSUME j > i, NEW f \in Contents(cs[j]), NEW g \in Contents(b)
        PROVE  Precedes(g, f)
    <3>1. i < j
      <4>1. i \in Nat /\ j \in Nat
        BY <1>4
      <4>2. QED
        BY <2>5, <4>1
    <3>2. g \in Contents(c) => Precedes(g, f)
      BY <1>2, <1>4, <2>3, <3>1 DEF Apart, c
    <3>3. QED
      BY <1>4, <2>2, <2>5, <3>2
  <2>6. QED
    BY <2>1, <2>4, <2>5 DEF InThisOrderOfTrees
<1>12. /\ ds \in Seq(RightTrees(o)[h - 1])
       /\ Len(ds) = Len(cs) - 1 + Len(ns)
       /\ Range(ds) = {cs[j] : j \in (1..Len(cs)) \ {i}} \cup Range(ns)
       /\ Chain(ds, InThisOrderOfTrees)
  <2>1. /\ ds \in Seq(RightTrees(o)[h - 1])
        /\ Len(ds) = Len(cs) - 1 + Len(ns)
        /\ Range(ds) = {cs[j] : j \in (1..Len(cs)) \ {i}} \cup Range(ns)
    BY <1>1, <1>4, <1>8, ReplacedKeeps
  <2>2. Chain(ds, InThisOrderOfTrees)
    BY <1>4, <1>9, <1>10, <1>11, ReplacedKeeps
  <2>3. QED
    BY <2>1, <2>2
<1> HIDE DEF ds
<1>13. Apart(ds)
  <2>1. ds \in Seq(AllTrees)
    BY <1>1, <1>12, RightIsTree, OfAllTrees
  <2>2. QED
    BY <1>12, <2>1, ApartIsChain
<1>14. \A j \in 1..Len(ds) : LargeEnough(ds[j], o)
  <2>1. \A a \in Range(ns) : LargeEnough(a, o)
    BY <1>8, RangeElement
  <2>2. \A a \in Range(ds) : LargeEnough(a, o)
    BY <1>1, <1>12, <2>1 DEF cs
  <2>3. QED
    BY <1>12, <2>2, ElementInRange
<1>15. ContentsOf(ds) = Contents(n) \cup {e}
  <2> DEFINE Others == {cs[j] : j \in (1..Len(cs)) \ {i}}
  <2>1. Range(cs) = Others \cup {c}
    <3>1. Range(cs) = {cs[j] : j \in 1..Len(cs)}
      BY <1>1, LenProperties DEF Range
    <3>2. QED
      BY <1>4, <3>1 DEF c
  <2>2. Range(ds) = Others \cup Range(ns)
    BY <1>12
  <2> HIDE DEF Others
  <2>3. ContentsOf(ds) = AllContents(Range(ds))
    BY <1>12, ContentsOfRange DEF AllContents
  <2>4. ContentsOf(cs) = AllContents(Range(cs))
    BY <1>1, ContentsOfRange DEF AllContents
  <2>5. ContentsOf(ns) = AllContents(Range(ns))
    BY <1>8, ContentsOfRange DEF AllContents
  <2>6. ContentsOf(ds) = AllContents(Others) \cup ContentsOf(ns)
    <3>1. AllContents(Others \cup Range(ns)) = AllContents(Others) \cup AllContents(Range(ns))
      BY AllContentsRules
    <3>2. QED
      BY <2>2, <2>3, <2>5, <3>1, Zenon
  <2>7. ContentsOf(cs) = AllContents(Others) \cup Contents(c)
    <3>1. AllContents(Others \cup {c}) = AllContents(Others) \cup AllContents({c})
      BY AllContentsRules
    <3>2. AllContents({c}) = Contents(c)
      BY AllContentsRules
    <3>3. QED
      BY <2>1, <2>4, <3>1, <3>2, Zenon
  <2>8. AllContents(Others) \cup (Contents(c) \cup {e})
          = (AllContents(Others) \cup Contents(c)) \cup {e}
    OBVIOUS
  <2>9. QED
    BY <1>3, <1>8, <2>6, <2>7, <2>8
<1>16. Len(ds) \in 2..(o + 1) /\ (Len(cs) >= MinChildren(o) => Len(ds) >= MinChildren(o))
  <2>1. Len(ds) = Len(cs) \/ Len(ds) = Len(cs) + 1
    <3>1. Len(ns) = 1 \/ Len(ns) = 2
      BY <1>8
    <3>2. Len(cs) \in Nat /\ Len(ds) = Len(cs) - 1 + Len(ns)
      BY <1>6, <1>12
    <3>3. \A a \in Nat : a - 1 + 1 = a /\ a - 1 + 2 = a + 1
      OBVIOUS
    <3>4. QED
      BY <3>1, <3>2, <3>3
  <2>2. MinChildren(o) \in Nat
    BY Bounds
  <2>3. QED
    BY <1>2, <1>6, <2>1, <2>2
<1>17. h - 1 >= 1 /\ (h - 1) + 1 = h
  <2>1. h # 0
    BY <1>1
  <2>2. QED
    BY <2>1
<1> DEFINE ms == InternalOrTwo(ds, o)
<1>18. /\ ms \in Seq(RightTrees(o)[(h - 1) + 1])
       /\ Len(ms) \in 1..2
       /\ Len(ds) >= MinChildren(o) \/ Len(ms) = 2
              => \A j \in 1..Len(ms) : LargeEnough(ms[j], o)
       /\ Apart(ms)
       /\ ContentsOf(ms) = ContentsOf(ds)
  BY <1>1, <1>12, <1>13, <1>14, <1>16, <1>17, InternalGrows
<1> HIDE DEF ms
<1>19. Grown(n, ms, e, o, h)
  BY <1>5, <1>15, <1>16, <1>17, <1>18 DEF Grown
<1>20. QED
  BY <1>19 DEF ms, ds, cs, i

\* An insertion into a right tree makes one or two right trees, of as many levels.
LEMMA NodeGrows ==
    ASSUME NEW o \in Orders, NEW e \in Entry, NEW h \in Nat
    PROVE  \A n \in RightTrees(o)[h] :
              (\A f \in Contents(n) : f.sequence < e.sequence)
              => Grown(n, InsertInto(n, e, o), e, o, h)
<1>1. PICK g : Inserts(e, o, g) /\ \A n : InsertInto(n, e, o) = g[Height(n)][n]
  BY InsertRule
<1> DEFINE Fresh(n) == \A f \in Contents(n) : f.sequence < e.sequence
           P(m) == \A n \in RightTrees(o)[m] : Fresh(n) => Grown(n, g[m][n], e, o, m)
           T == {m \in Nat : P(m)}
<1>2. \A m \in Nat : g[m] = [n \in Tree[m] |-> InsertNode(n, e, o, g[m - 1])]
  BY <1>1 DEF Inserts
<1>3. 0 \in T
  BY RightRule
<1>4. ASSUME NEW m \in Nat, P(m)
      PROVE  P(m + 1)
  <2>1. SUFFICES ASSUME NEW n \in RightTrees(o)[m + 1], Fresh(n)
                 PROVE  Grown(n, g[m + 1][n], e, o, m + 1)
    OBVIOUS
  <2>2. m + 1 \in Nat /\ (m + 1) - 1 = m
    OBVIOUS
  <2>3. /\ n \in Tree[m + 1]
        /\ m + 1 = 1 => LeafOK(n, o)
        /\ m + 1 # 1 => n.children \in Seq(RightTrees(o)[m]) /\ ~IsLeaf(n)
    BY <2>2, RightParts
  <2>4. g[m + 1][n] = InsertNode(n, e, o, g[m])
    <3>1. g[m + 1] = [k \in Tree[m + 1] |-> InsertNode(k, e, o, g[(m + 1) - 1])]
      BY <1>2, <2>2
    <3>2. g[m + 1][n] = InsertNode(n, e, o, g[(m + 1) - 1])
      BY <2>3, <3>1
    <3>3. QED
      BY <2>2, <3>2
  <2>5. CASE m + 1 = 1
    <3>1. g[m + 1][n] = LeafOrTwo(Inserted(n.entries, e), o)
      BY <2>3, <2>4, <2>5 DEF InsertNode, LeafOK
    <3>2. QED
      BY <2>1, <2>5, <3>1, LeafGrows
  <2>6. CASE m + 1 # 1
    <3> DEFINE i == ChildFor(n.keys, e.key)
               c == n.children[i]
    <3>1. g[m + 1][n] = InternalOrTwo(Replaced(n.children, i, g[m][c]), o)
      BY <2>3, <2>4, <2>6 DEF InsertNode
    <3>2. i \in 1..Len(n.children)
      BY <2>1, <2>2, <2>6, ChildForRule
    <3>3. c \in RightTrees(o)[m]
      BY <2>3, <2>6, <3>2, ElementOfSeq
    <3>4. Fresh(c)
      <4>1. Contents(n) = UNION {Contents(n.children[j]) : j \in 1..Len(n.children)}
        BY <2>2, <2>3, <2>6, WalkOfInternal
      <4>2. QED
        BY <2>1, <3>2, <4>1
    <3>5. Grown(c, g[m][c], e, o, m)
      BY <1>4, <3>3, <3>4
    <3>6. QED
      BY <2>1, <2>2, <2>6, <3>1, <3>5, ChildrenGrow
  <2>7. QED
    BY <2>5, <2>6
<1>5. Nat \subseteq T
  <2>1. \A m \in Nat : m \in T => m + 1 \in T
    BY <1>4
  <2> HIDE DEF T
  <2>2. QED
    BY <1>3, <2>1, TreeRecursion!Induction
<1>6. \A n \in RightTrees(o)[h] : InsertInto(n, e, o) = g[h][n]
  BY <1>1, RightHeight
<1>7. QED
  BY <1>5, <1>6

\* The root after an insertion.
LEMMA InsertKeepsRight ==
    ASSUME NEW o \in Orders, NEW e \in Entry, NEW h \in Nat, NEW n \in RightTrees(o)[h],
           \A f \in Contents(n) : f.sequence < e.sequence
    PROVE  LET ns == InsertInto(n, e, o)
               m == IF Len(ns) = 1 THEN ns[1] ELSE MakeInternal(ns)
           IN /\ \E k \in Nat : m \in RightTrees(o)[k]
              /\ Contents(m) = Contents(n) \cup {e}
<1> DEFINE ns == InsertInto(n, e, o)
<1>1. Grown(n, ns, e, o, h)
  BY NodeGrows
<1> HIDE DEF ns
<1>2. /\ ns \in Seq(RightTrees(o)[h])
      /\ Len(ns) = 1 \/ Len(ns) = 2
      /\ Len(ns) = 2 => \A i \in 1..Len(ns) : LargeEnough(ns[i], o)
      /\ Apart(ns)
      /\ ContentsOf(ns) = Contents(n) \cup {e}
  BY <1>1 DEF Grown
<1>3. CASE Len(ns) = 1
  <2>1. ns[1] \in RightTrees(o)[h]
    BY <1>2, <1>3, ElementOfSeq
  <2>2. ContentsOf(ns) = Contents(ns[1])
    <3>1. 1..1 = {1}
      OBVIOUS
    <3>2. QED
      BY <1>3, <3>1 DEF ContentsOf
  <2>3. QED
    BY <1>2, <1>3, <2>1, <2>2 DEF ns
<1>4. CASE Len(ns) = 2
  <2>1. Len(ns) \in 2..o
    BY <1>4, Bounds
  <2>2. h >= 1
    <3>1. h # 0
      BY RightRule
    <3>2. QED
      BY <3>1
  <2>3. /\ MakeInternal(ns) \in RightTrees(o)[h + 1]
        /\ Contents(MakeInternal(ns)) = ContentsOf(ns)
    BY <1>2, <1>4, <2>1, <2>2, InternalIsRight DEF ContentsOf
  <2>4. h + 1 \in Nat /\ Len(ns) # 1
    BY <1>4
  <2>5. QED
    BY <1>2, <2>3, <2>4 DEF ns
<1>5. QED
  BY <1>2, <1>3, <1>4

-----------------------------------------------------------------------------
(* Deletion *)

\* The empty leaf is a tree of any number of levels, without entries.
LEMMA EmptyIsTree ==
    ASSUME NEW h \in Nat, h >= 1
    PROVE  /\ Empty \in Tree[h]
           /\ Walk(Empty) = <<>>
           /\ Contents(Empty) = {}
           /\ Ascending(<<>>)
<1>1. <<>> \in Seq(Entry) /\ <<>> \in Seq(Keys) /\ <<>> \in Seq(Tree[h - 1]) /\ h - 1 \in Nat
  BY EmptySeq
<1>2. Empty \in Tree[(h - 1) + 1]
  BY <1>1, NodeIsTree DEF Empty
<1>3. (h - 1) + 1 = h
  OBVIOUS
<1>4. IsLeaf(Empty) /\ Empty.entries = <<>>
  BY DEF IsLeaf, Empty
<1>5. Walk(Empty) = <<>>
  BY <1>2, <1>3, <1>4, WalkRule
<1>6. Contents(Empty) = {}
  BY <1>5, SingleChain DEF Contents
<1>7. Ascending(<<>>)
  BY DEF Ascending
<1>8. QED
  BY <1>2, <1>3, <1>5, <1>6, <1>7

Remaining(es, k, ps) == {e \in es : ~Meant(e, k, ps)}

\* What is left of a tree n of h levels.
Left(n, d, k, ps, h) ==
    /\ d \in Tree[h]
    /\ Ascending(Walk(d))
    /\ Contents(d) = Remaining(Contents(n), k, ps)
    /\ d # Empty => Walk(d) # <<>>

\* A deletion from a leaf leaves the entries that are not meant.
LEMMA LeafLeft ==
    ASSUME NEW n \in Tree[1], IsLeaf(n), Ascending(Walk(n)), NEW k, NEW ps
    PROVE  Left(n, MakeLeaf(OnPlaces(n.entries, {i \in DOMAIN n.entries :
                                                    ~Meant(n.entries[i], k, ps)})),
                k, ps, 1)
<1> DEFINE w == n.entries
           places == {i \in DOMAIN w : ~Meant(w[i], k, ps)}
           es == OnPlaces(w, places)
<1>1. w \in Seq(Entry) /\ Walk(n) = w
  BY TreeIsNode, WalkRule
<1>2. Ascending(w) /\ Contents(n) = Range(w)
  BY <1>1 DEF Contents
<1> HIDE DEF w
<1>3. DOMAIN w = 1..Len(w)
  BY <1>1, LenProperties
<1>4. Chain(w, InThisOrder)
  BY <1>1, <1>2, AscendingIsChain
<1>5. /\ es \in Seq(Entry)
      /\ Range(es) = {w[i] : i \in places}
      /\ Chain(es, InThisOrder)
  <2>1. places \subseteq 1..Len(w)
    BY <1>3
  <2> HIDE DEF places
  <2>2. QED
    <3>1. w \in Seq(Entry)
      BY <1>1
    <3>2. es \in Seq(Entry) /\ Range(es) = {w[i] : i \in places}
      BY <2>1, <3>1, OnPlacesKeeps
    <3>3. Chain(es, InThisOrder)
      BY <1>4, <2>1, <3>1, OnPlacesKeeps
    <3>4. QED
      BY <3>2, <3>3
<1>6. Range(es) = Remaining(Range(w), k, ps)
  BY <1>5 DEF Range, Remaining
<1> HIDE DEF es
<1>7. Ascending(es)
  BY <1>5, AscendingIsChain
<1>8. /\ MakeLeaf(es) \in Tree[1]
      /\ Walk(MakeLeaf(es)) = es
      /\ Contents(MakeLeaf(es)) = Range(es)
      /\ es = <<>> <=> MakeLeaf(es) = Empty
  BY <1>5, LeafIsTree
<1>9. Left(n, MakeLeaf(es), k, ps, 1)
  BY <1>2, <1>6, <1>7, <1>8 DEF Left
<1>10. QED
  BY <1>9 DEF es, w

\* A deletion from the children leaves what is not meant in their parent.
LEMMA ChildrenLeft ==
    ASSUME NEW m \in Nat, m >= 1, NEW n \in Tree[m + 1], ~IsLeaf(n), Apart(n.children),
           NEW k, NEW ps, NEW cs \in Seq(Tree[m]), Len(cs) = Len(n.children),
           \A i \in 1..Len(cs) : Left(n.children[i], cs[i], k, ps, m)
    PROVE  Left(n, InternalOrOne(OnPlaces(cs, {i \in DOMAIN cs : cs[i] # Empty})),
                k, ps, m + 1)
<1> DEFINE places == {i \in DOMAIN cs : cs[i] # Empty}
           ds == OnPlaces(cs, places)
           cc == n.children
<1>1. Contents(n) = UNION {Contents(cc[i]) : i \in 1..Len(cc)} /\ m + 1 \in Nat
  BY WalkOfInternal
<1>2. cc \in Seq(Tree[m])
  <2>1. cc \in Seq(Tree[(m + 1) - 1]) /\ (m + 1) - 1 = m
    BY <1>1, TreeIsNode
  <2>2. QED
    BY <2>1
<1>3. Apart(cc)
  OBVIOUS
<1>4. /\ DOMAIN cs = 1..Len(cs) /\ DOMAIN cc = 1..Len(cc) /\ Len(cc) = Len(cs)
      /\ Len(cs) \in Nat
  BY <1>2, LenProperties
<1> HIDE DEF cc
<1>5. \A i \in 1..Len(cs) :
            /\ cs[i] \in Tree[m] /\ cs[i] \in AllTrees
            /\ Ascending(Walk(cs[i]))
            /\ Contents(cs[i]) = Remaining(Contents(cc[i]), k, ps)
            /\ cs[i] # Empty => Walk(cs[i]) # <<>>
  BY OfAllTrees DEF Left, cc
<1>6. Apart(cs)
  <2>1. SUFFICES ASSUME NEW i \in 1..Len(cs), NEW j \in 1..Len(cs), i < j,
                        NEW e \in Contents(cs[i]), NEW f \in Contents(cs[j])
                 PROVE  Precedes(e, f)
    BY <1>4 DEF Apart
  <2>2. e \in Contents(cc[i]) /\ f \in Contents(cc[j])
    BY <1>5 DEF Remaining
  <2>3. QED
    BY <1>3, <1>4, <2>1, <2>2 DEF Apart
<1>7. Chain(cs, InThisOrderOfTrees)
  <2>1. cs \in Seq(AllTrees)
    BY OfAllTrees
  <2>2. QED
    BY <1>6, <2>1, ApartIsChain
<1>8. /\ ds \in Seq(Tree[m])
      /\ Range(ds) = {cs[i] : i \in places}
      /\ Chain(ds, InThisOrderOfTrees)
  <2>1. places \subseteq 1..Len(cs)
    BY <1>4
  <2> HIDE DEF places
  <2>2. QED
    BY <1>7, <2>1, OnPlacesKeeps
<1>9. \A d \in Range(ds) : /\ d # Empty
                           /\ \E i \in 1..Len(cs) : d = cs[i]
  BY <1>4, <1>8
<1>10. \A i \in 1..Len(cs) : cs[i] # Empty => cs[i] \in Range(ds)
  BY <1>4, <1>8
<1> HIDE DEF ds
<1>11. Apart(ds)
  <2>1. ds \in Seq(AllTrees)
    BY <1>8, OfAllTrees
  <2>2. QED
    BY <1>8, <2>1, ApartIsChain
<1>12. ContentsOf(ds) = Remaining(Contents(n), k, ps)
  <2>1. \A x : x \in ContentsOf(ds) <=> \E d \in Range(ds) : x \in Contents(d)
    BY <1>8, ContentsOfRange
  <2>2. \A x : x \in Contents(n) <=> \E i \in 1..Len(cs) : x \in Contents(cc[i])
    BY <1>1, <1>4 DEF cc
  <2>3. ASSUME NEW x \in ContentsOf(ds)
        PROVE  x \in Remaining(Contents(n), k, ps)
    <3>1. PICK i \in 1..Len(cs) : x \in Contents(cs[i])
      BY <1>9, <2>1, <2>3
    <3>2. x \in Contents(cc[i]) /\ ~Meant(x, k, ps)
      BY <1>5, <3>1 DEF Remaining
    <3>3. QED
      BY <2>2, <3>2 DEF Remaining
  <2>4. ASSUME NEW x \in Remaining(Contents(n), k, ps)
        PROVE  x \in ContentsOf(ds)
    <3>1. x \in Contents(n) /\ ~Meant(x, k, ps)
      BY <2>4 DEF Remaining
    <3>2. PICK i \in 1..Len(cs) : x \in Contents(cc[i])
      BY <2>2, <3>1
    <3>3. x \in Contents(cs[i])
      BY <1>5, <3>1, <3>2 DEF Remaining
    <3>4. cs[i] # Empty
      BY <3>3, EmptyIsTree
    <3>5. QED
      BY <1>10, <2>1, <3>3, <3>4
  <2>5. QED
    BY <2>3, <2>4
<1>13. \A i \in 1..Len(ds) : /\ ds[i] \in Tree[m]
                             /\ Ascending(Walk(ds[i]))
                             /\ Walk(ds[i]) # <<>>
  <2>1. SUFFICES ASSUME NEW i \in 1..Len(ds)
                 PROVE  /\ ds[i] \in Tree[m]
                        /\ Ascending(Walk(ds[i]))
                        /\ Walk(ds[i]) # <<>>
    OBVIOUS
  <2>2. ds[i] \in Range(ds)
    BY <1>8, ElementInRange
  <2>3. QED
    BY <1>5, <1>9, <2>2
<1>14. Len(ds) \in Nat
  BY <1>8, LenProperties
<1> DEFINE d == InternalOrOne(ds)
<1>15. CASE Len(ds) = 0
  <2>1. d = Empty
    BY <1>15 DEF InternalOrOne
  <2>2. ContentsOf(ds) = {}
    BY <1>15 DEF ContentsOf
  <2>3. m + 1 >= 1
    OBVIOUS
  <2>4. QED
    BY <1>1, <1>12, <2>1, <2>2, <2>3, EmptyIsTree DEF Left, ds, cc
<1>16. CASE Len(ds) = 1
  <2>1. d = ds[1] /\ 1 \in 1..Len(ds)
    BY <1>16 DEF InternalOrOne
  <2>2. ContentsOf(ds) = Contents(ds[1])
    <3>1. 1..1 = {1}
      OBVIOUS
    <3>2. QED
      BY <1>16, <3>1 DEF ContentsOf
  <2>3. ds[1] \in Tree[m + 1]
    BY <1>13, <2>1, TreeGrows
  <2> HIDE DEF d
  <2>4. Left(n, d, k, ps, m + 1)
    BY <1>12, <1>13, <2>1, <2>2, <2>3 DEF Left
  <2>5. QED
    BY <2>4 DEF d, ds
<1>17. CASE Len(ds) # 0 /\ Len(ds) # 1
  <2>1. d = MakeInternal(ds)
    BY <1>17 DEF InternalOrOne
  <2>2. ds # <<>>
    BY <1>17, EmptySeq
  <2>3. /\ MakeInternal(ds) \in Tree[m + 1]
        /\ Walk(MakeInternal(ds)) # <<>>
        /\ Contents(MakeInternal(ds)) = ContentsOf(ds)
        /\ Ascending(Walk(MakeInternal(ds)))
    BY <1>8, <1>11, <1>13, <2>2, InternalIsTree DEF ContentsOf
  <2> HIDE DEF d
  <2>4. Left(n, d, k, ps, m + 1)
    BY <1>12, <2>1, <2>3 DEF Left
  <2>5. QED
    BY <2>4 DEF d, ds
<1>18. QED
  BY <1>15, <1>16, <1>17

\* A deletion from a right tree leaves the entries that are not meant (_delete_node).
LEMMA DeleteKeeps ==
    ASSUME NEW o \in Orders, NEW k, NEW ps, NEW h \in Nat
    PROVE  \A n \in RightTrees(o)[h] : Left(n, DeleteFrom(n, k, ps), k, ps, h)
<1>1. PICK g : Deletes(k, ps, g) /\ \A n : DeleteFrom(n, k, ps) = g[Height(n)][n]
  BY DeleteRule
<1> DEFINE P(m) == \A n \in RightTrees(o)[m] : Left(n, g[m][n], k, ps, m)
           T == {m \in Nat : P(m)}
<1>2. \A m \in Nat : g[m] = [n \in Tree[m] |-> DeleteNode(n, k, ps, g[m - 1])]
  BY <1>1 DEF Deletes
<1>3. 0 \in T
  BY RightRule
<1>4. ASSUME NEW m \in Nat, P(m)
      PROVE  P(m + 1)
  <2>1. SUFFICES ASSUME NEW n \in RightTrees(o)[m + 1]
                 PROVE  Left(n, g[m + 1][n], k, ps, m + 1)
    OBVIOUS
  <2>2. m + 1 \in Nat /\ (m + 1) - 1 = m
    OBVIOUS
  <2>3. /\ n \in Tree[m + 1]
        /\ m + 1 = 1 => LeafOK(n, o)
        /\ m + 1 # 1 => /\ n.children \in Seq(RightTrees(o)[m])
                        /\ ~IsLeaf(n)
                        /\ InternalOK(n, o)
    BY <2>2, RightParts
  <2>4. g[m + 1][n] = DeleteNode(n, k, ps, g[m])
    <3>1. g[m + 1] = [c \in Tree[m + 1] |-> DeleteNode(c, k, ps, g[(m + 1) - 1])]
      BY <1>2, <2>2
    <3>2. g[m + 1][n] = DeleteNode(n, k, ps, g[(m + 1) - 1])
      BY <2>3, <3>1
    <3>3. QED
      BY <2>2, <3>2
  <2>5. CASE m + 1 = 1
    <3>1. n \in Tree[1] /\ IsLeaf(n) /\ Ascending(Walk(n))
      BY <2>2, <2>3, <2>5, RightWalk DEF LeafOK
    <3> DEFINE es == OnPlaces(n.entries, {i \in DOMAIN n.entries :
                                            ~Meant(n.entries[i], k, ps)})
    <3>2. g[m + 1][n] = MakeLeaf(es)
      BY <2>4, <3>1 DEF DeleteNode
    <3>3. Left(n, MakeLeaf(es), k, ps, 1)
      BY <3>1, LeafLeft
    <3> HIDE DEF es
    <3>4. QED
      BY <2>5, <3>2, <3>3
  <2>6. CASE m + 1 # 1
    <3> DEFINE cs == [i \in DOMAIN n.children |-> g[m][n.children[i]]]
    <3>1. m >= 1
      BY <2>6
    <3>2. \A i \in 1..Len(n.children) : Left(n.children[i], g[m][n.children[i]], k, ps, m)
      BY <1>4, <2>3, <2>6, ElementOfSeq
    <3>3. DOMAIN n.children = 1..Len(n.children) /\ Len(n.children) \in Nat
      BY <2>3, <2>6, LenProperties
    <3>4. \A i \in 1..Len(n.children) : g[m][n.children[i]] \in Tree[m]
      BY <3>2 DEF Left
    <3>5. cs \in Seq(Tree[m]) /\ Len(cs) = Len(n.children)
      BY <3>3, <3>4
    <3>6. \A i \in 1..Len(cs) : Left(n.children[i], cs[i], k, ps, m)
      BY <3>2, <3>3, <3>5
    <3> DEFINE d == InternalOrOne(OnPlaces(cs, {i \in DOMAIN cs : cs[i] # Empty}))
    <3>7. g[m + 1][n] = d
      BY <2>3, <2>4, <2>6 DEF DeleteNode
    <3>8. Apart(n.children)
      BY <2>3, <2>6 DEF InternalOK
    <3> HIDE DEF cs
    <3>9. Left(n, d, k, ps, m + 1)
      BY <2>3, <2>6, <3>1, <3>5, <3>6, <3>8, ChildrenLeft
    <3> HIDE DEF d
    <3>10. QED
      BY <3>7, <3>9
  <2>7. QED
    BY <2>5, <2>6
<1>5. Nat \subseteq T
  <2>1. \A m \in Nat : m \in T => m + 1 \in T
    BY <1>4
  <2> HIDE DEF T
  <2>2. QED
    BY <1>3, <2>1, TreeRecursion!Induction
<1>6. \A n \in RightTrees(o)[h] : DeleteFrom(n, k, ps) = g[h][n]
  BY <1>1, RightHeight
<1>7. QED
  BY <1>5, <1>6

-----------------------------------------------------------------------------
(* The sizes of nodes *)

\* What division and remainder are.
LEMMA Division ==
    ASSUME NEW a \in Nat, NEW b \in Nat \ {0}
    PROVE  /\ a \div b \in Nat
           /\ a % b \in 0..(b - 1)
           /\ a = b * (a \div b) + (a % b)
OBVIOUS

\* Products of numbers are numbers.
LEMMA Products ==
    ASSUME NEW a \in Nat, NEW b \in Nat
    PROVE  a * b \in Nat
OBVIOUS

\* Products with a larger number are larger.
LEMMA Monotone ==
    ASSUME NEW a \in Nat, NEW b \in Nat, NEW c \in Nat, a <= b
    PROVE  c * a <= c * b
OBVIOUS

-----------------------------------------------------------------------------
(* The number of nodes *)

\* If the minimum is at most half of the maximum, rounded up, the loop of
\* _balanced_sizes takes no node away.
LEMMA NothingTakenAway ==
    ASSUME NEW total \in Nat, NEW max \in Nat \ {0}, NEW min \in Nat \ {0},
           2 * min <= max + 1, total > max
    PROVE  LET c == (total + max - 1) \div max
           IN /\ c \in Nat /\ c > 1
              /\ c * min <= total
              /\ total <= c * max
<1> DEFINE c == (total + max - 1) \div max
           r == (total + max - 1) % max
<1>1. /\ c \in Nat
      /\ r \in 0..(max - 1)
      /\ total + max - 1 = max * c + r
  <2>1. total + max - 1 \in Nat
    OBVIOUS
  <2>2. QED
    BY <2>1, Division
<1> HIDE DEF c, r
<1>2. max * c \in Nat /\ c * max = max * c
  BY <1>1, Products
<1>3. total <= c * max
  BY <1>1, <1>2
<1>5. c > 1
  <2>1. CASE c = 0
    BY <1>3, <2>1
  <2>2. CASE c = 1
    BY <1>3, <2>2
  <2>3. QED
    BY <1>1, <2>1, <2>2
<1>6. c * min <= total
  <2>1. PICK d \in Nat : c = d + 2
    BY <1>1, <1>5
  <2>2. PICK m \in Nat : max = m + 1
    OBVIOUS
  <2>3. d * m \in Nat
    BY Products
  <2>4. c * max = d * m + d + 2 * m + 2
    BY <2>1, <2>2
  <2>5. 2 * min <= m + 2
    BY <2>2
  <2>6. c * (2 * min) <= c * (m + 2)
    BY <1>1, <2>5, Monotone
  <2>7. c * (m + 2) = d * m + 2 * d + 2 * m + 4
    BY <2>1
  <2>8. c * (2 * min) = 2 * (c * min)
    BY <1>1
  <2>9. c * min \in Nat
    BY <1>1, Products
  <2>10. total >= c * max - max + 1
    BY <1>1, <1>2
  <2>11. 2 * total >= 2 * (d * m) + 2 * d + 2 * m + 4
    BY <2>2, <2>3, <2>4, <2>10
  <2>12. QED
    BY <2>3, <2>6, <2>7, <2>8, <2>9, <2>11
<1>7. QED
  BY <1>1, <1>3, <1>5, <1>6 DEF c

\* The number of nodes is total / max, rounded up.
LEMMA CountIsCeiling ==
    ASSUME NEW total \in Nat, NEW max \in Nat \ {0}, NEW min \in Nat \ {0},
           2 * min <= max + 1, total > max
    PROVE  NodeCount(total, max, min) = (total + max - 1) \div max
<1> DEFINE c == (total + max - 1) \div max
           Enough(x) == x = 1 \/ total \div x >= min
<1>1. c \in Nat /\ c > 1 /\ c * min <= total
  BY NothingTakenAway
<1> HIDE DEF c
<1>2. total \div c >= min
  <2>1. PICK q \in Nat, r \in 0..(c - 1) : total \div c = q /\ total = c * q + r
    BY <1>1, Division
  <2>2. SUFFICES ASSUME q < min PROVE FALSE
    BY <2>1
  <2>3. c * (q + 1) <= c * min
    BY <1>1, <2>1, <2>2, Monotone
  <2>4. c * (q + 1) = c * q + c /\ c * q \in Nat
    BY <1>1, <2>1
  <2>5. QED
    BY <1>1, <2>1, <2>3, <2>4
<1>3. Enough(c) /\ \A d \in (c + 1)..c : ~Enough(d)
  BY <1>1, <1>2
<1>4. \A x \in 1..c :
        /\ Enough(x)
        /\ \A d \in (x + 1)..c : ~Enough(d)
        => x = c
  BY <1>1, <1>3
<1>5. c = CHOOSE x \in 1..c :
            /\ Enough(x)
            /\ \A d \in (x + 1)..c : ~Enough(d)
  BY <1>1, <1>3, <1>4
<1>6. NodeCount(total, max, min)
      = CHOOSE x \in 1..c :
            /\ Enough(x)
            /\ \A d \in (x + 1)..c : ~Enough(d)
  BY DEF NodeCount, c
<1>7. QED
  BY <1>5, <1>6 DEF c

-----------------------------------------------------------------------------
(* The sizes of nodes *)

\* Cutting into as few nodes as the maximum allows leaves none below the
\* minimum and none above the maximum (_balanced_sizes).
THEOREM SizesWithinBounds ==
    ASSUME NEW total \in Nat, NEW max \in Nat \ {0}, NEW min \in Nat \ {0},
           2 * min <= max + 1, total > max,
           NEW i \in 1..NodeCount(total, max, min)
    PROVE  NodeSize(total, NodeCount(total, max, min), i) \in min..max
<1> DEFINE c == NodeCount(total, max, min)
<1>1. /\ c \in Nat /\ c > 1
      /\ c * min <= total
      /\ total <= c * max
  BY CountIsCeiling, NothingTakenAway
<1> HIDE DEF c
<1>2. PICK q \in Nat, r \in 0..(c - 1) :
        total \div c = q /\ total % c = r /\ total = c * q + r
  <2>1. c \in Nat \ {0}
    BY <1>1
  <2>2. /\ total \div c \in Nat
        /\ total % c \in 0..(c - 1)
        /\ total = c * (total \div c) + (total % c)
    BY <2>1, Division
  <2>3. QED
    BY <2>2
<1>3. c * q \in Nat /\ c * (q + 1) = c * q + c
  BY <1>1, <1>2
<1>4. q >= min
  <2>1. SUFFICES ASSUME q < min PROVE FALSE
    BY <1>2
  <2>2. c * (q + 1) <= c * min
    BY <1>1, <1>2, <2>1, Monotone
  <2>3. QED
    BY <1>1, <1>2, <1>3, <2>2
<1>5. q <= max /\ (r > 0 => q + 1 <= max)
  <2>1. ASSUME q > max PROVE FALSE
    <3>1. c * (max + 1) <= c * q
      BY <1>1, <1>2, <2>1, Monotone
    <3>2. c * (max + 1) = c * max + c /\ c * max \in Nat
      BY <1>1
    <3>3. QED
      BY <1>1, <1>2, <1>3, <3>1, <3>2
  <2>2. ASSUME r > 0, q = max PROVE FALSE
    BY <1>1, <1>2, <1>3, <2>2
  <2>3. QED
    BY <1>2, <2>1, <2>2
<1>6. NodeSize(total, c, i) = q + IF i <= r THEN 1 ELSE 0
  BY <1>2 DEF NodeSize
<1>7. NodeSize(total, c, i) \in min..max
  <2>1. CASE i <= r
    BY <1>2, <1>4, <1>5, <1>6, <2>1 DEF c
  <2>2. CASE ~(i <= r)
    BY <1>2, <1>4, <1>5, <1>6, <2>2
  <2>3. QED
    BY <2>1, <2>2
<1>8. QED
  BY <1>7 DEF c

\* Leaves and inner nodes of a bulk load are within the bounds that
\* assert_btree_invariants demands, for every order the constructor allows.
THEOREM BulkLoadKeepsBounds ==
    ASSUME NEW o \in Nat, o >= 3, NEW total \in Nat
    PROVE  /\ total > MaxLeafEntries(o) =>
                LET c == NodeCount(total, MaxLeafEntries(o), MinLeafEntries(o))
                IN \A i \in 1..c :
                    NodeSize(total, c, i)
                    \in MinLeafEntries(o)..MaxLeafEntries(o)
           /\ total > o =>
                LET c == NodeCount(total, o, MinChildren(o))
                IN \A i \in 1..c :
                    NodeSize(total, c, i) \in MinChildren(o)..o
<1>1. /\ MinChildren(o) \in Nat \ {0}
      /\ 2 * MinChildren(o) <= o + 1
  BY DEF MinChildren
<1>2. /\ MaxLeafEntries(o) \in Nat \ {0}
      /\ MinLeafEntries(o) \in Nat \ {0}
      /\ 2 * MinLeafEntries(o) <= MaxLeafEntries(o) + 1
  BY <1>1 DEF MinLeafEntries, MaxLeafEntries
<1>3. QED
  BY <1>1, <1>2, SizesWithinBounds

\* The nodes lie side by side: the first starts at 0, each starts where the one
\* before ends, and the last ends at total (_sized_offsets).
THEOREM NodesCoverEverything ==
    ASSUME NEW total \in Nat, NEW count \in Nat \ {0}
    PROVE  /\ NodeOffset(total, count, 1) = 0
           /\ \A i \in 1..(count - 1) :
                NodeOffset(total, count, i + 1)
                = NodeOffset(total, count, i) + NodeSize(total, count, i)
           /\ NodeOffset(total, count, count) + NodeSize(total, count, count)
              = total
<1>1. PICK q \in Nat, r \in 0..(count - 1) :
        total \div count = q /\ total % count = r /\ total = count * q + r
  BY Division
<1>2. /\ \A i \in 1..count : NodeOffset(total, count, i)
            = (i - 1) * q + (IF i <= r THEN i - 1 ELSE r)
      /\ \A i \in 1..count : NodeSize(total, count, i)
            = q + (IF i <= r THEN 1 ELSE 0)
  BY <1>1 DEF NodeOffset, NodeSize
<1>3. NodeOffset(total, count, 1) = 0
  BY <1>1, <1>2
<1>4. ASSUME NEW i \in 1..(count - 1)
      PROVE  NodeOffset(total, count, i + 1)
             = NodeOffset(total, count, i) + NodeSize(total, count, i)
  <2>1. (i + 1 - 1) * q = (i - 1) * q + q /\ (i - 1) * q \in Int
    BY <1>1
  <2>2. CASE i + 1 <= r
    BY <1>1, <1>2, <2>1, <2>2
  <2>3. CASE i = r
    BY <1>1, <1>2, <2>1, <2>3
  <2>4. CASE i > r
    BY <1>1, <1>2, <2>1, <2>4
  <2>5. QED
    BY <1>1, <2>2, <2>3, <2>4
<1>5. NodeOffset(total, count, count) + NodeSize(total, count, count) = total
  <2>1. (count - 1) * q = count * q - q /\ count * q \in Int
    BY <1>1
  <2>2. NodeOffset(total, count, count) = (count - 1) * q + r
    BY <1>1, <1>2
  <2>3. NodeSize(total, count, count) = q
    BY <1>1, <1>2
  <2>4. QED
    BY <1>1, <2>1, <2>2, <2>3
<1>6. QED
  BY <1>3, <1>4, <1>5

-----------------------------------------------------------------------------
(* Consecutive parts *)

\* Offsets that add up the sizes.
Consecutive(off, size, c) ==
    /\ \A i \in 1..c : off[i] \in Nat /\ size[i] \in Nat
    /\ off[1] = 0
    /\ \A i \in 1..(c - 1) : off[i + 1] = off[i] + size[i]

\* Consecutive parts do not overlap, and cover all places.
LEMMA ConsecutiveRules ==
    ASSUME NEW c \in Nat \ {0}, NEW off, NEW size, Consecutive(off, size, c)
    PROVE  /\ \A i, j \in 1..c : i < j => off[i] + size[i] <= off[j]
           /\ \A i \in 1..c : off[i] + size[i] <= off[c] + size[c]
           /\ \A x \in 1..(off[c] + size[c]) :
                \E i \in 1..c : x \in (off[i] + 1)..(off[i] + size[i])
<1> DEFINE P(m) == m <= c => \A i \in 1..c : i < m => off[i] + size[i] <= off[m]
           T == {m \in Nat : P(m)}
           Q(m) == m + 1 <= c =>
                     \A x \in 1..(off[m + 1] + size[m + 1]) :
                        \E i \in 1..c : x \in (off[i] + 1)..(off[i] + size[i])
           U == {m \in Nat : Q(m)}
<1>1. /\ \A i \in 1..c : off[i] \in Nat /\ size[i] \in Nat
      /\ off[1] = 0
      /\ \A i \in 1..(c - 1) : off[i + 1] = off[i] + size[i]
  BY DEF Consecutive
<1>2. 0 \in T
  OBVIOUS
<1>3. ASSUME NEW m \in Nat, P(m)
      PROVE  P(m + 1)
  <2>1. SUFFICES ASSUME m + 1 <= c, NEW i \in 1..c, i < m + 1
                 PROVE  off[i] + size[i] <= off[m + 1]
    OBVIOUS
  <2>2. m \in 1..(c - 1) /\ m \in 1..c
    BY <2>1
  <2>3. /\ off[m + 1] = off[m] + size[m] /\ off[m] \in Nat /\ size[m] \in Nat
        /\ off[i] \in Nat /\ size[i] \in Nat
    BY <1>1, <2>2
  <2>4. i = m \/ i < m
    BY <2>1
  <2>5. i < m => off[i] + size[i] <= off[m]
    BY <1>3, <2>1, <2>2
  <2>6. QED
    BY <2>3, <2>4, <2>5
<1>4. Nat \subseteq T
  <2>1. \A m \in Nat : m \in T => m + 1 \in T
    BY <1>3
  <2> HIDE DEF T
  <2>2. QED
    BY <1>2, <2>1, TreeRecursion!Induction
<1>5. \A i, j \in 1..c : i < j => off[i] + size[i] <= off[j]
  <2>1. \A j \in 1..c : P(j)
    BY <1>4
  <2>2. QED
    BY <2>1
<1>6. \A i \in 1..c : off[i] + size[i] <= off[c] + size[c]
  <2>1. SUFFICES ASSUME NEW i \in 1..c
                 PROVE  off[i] + size[i] <= off[c] + size[c]
    OBVIOUS
  <2>2. c \in 1..c /\ (i = c \/ i < c)
    OBVIOUS
  <2>3. off[i] \in Nat /\ size[i] \in Nat /\ off[c] \in Nat /\ size[c] \in Nat
    BY <1>1, <2>2
  <2>4. i < c => off[i] + size[i] <= off[c]
    BY <1>5, <2>2
  <2>5. QED
    BY <2>2, <2>3, <2>4
<1>7. 0 \in U
  <2>1. 0 + 1 = 1 /\ 1 \in 1..c
    OBVIOUS
  <2>2. \A x \in 1..(off[1] + size[1]) : x \in (off[1] + 1)..(off[1] + size[1])
    BY <1>1, <2>1
  <2>3. QED
    BY <2>1, <2>2
<1>8. ASSUME NEW m \in Nat, Q(m)
      PROVE  Q(m + 1)
  <2>1. SUFFICES ASSUME (m + 1) + 1 <= c,
                        NEW x \in 1..(off[(m + 1) + 1] + size[(m + 1) + 1])
                 PROVE  \E i \in 1..c : x \in (off[i] + 1)..(off[i] + size[i])
    OBVIOUS
  <2> DEFINE k == m + 1
             l == k + 1
  <2>2. k \in 1..(c - 1) /\ k \in 1..c /\ l \in 1..c /\ k <= c
    BY <2>1
  <2>3. /\ off[l] = off[k] + size[k] /\ off[k] \in Nat /\ size[k] \in Nat
        /\ off[l] \in Nat /\ size[l] \in Nat
    BY <1>1, <2>2
  <2>4. x \in 1..(off[l] + size[l])
    BY <2>1
  <2>5. \A y \in 1..(off[k] + size[k]) :
            \E i \in 1..c : y \in (off[i] + 1)..(off[i] + size[i])
    BY <1>8, <2>2
  <2> HIDE DEF k, l
  <2>6. x \in 1..(off[k] + size[k]) \/ x \in (off[l] + 1)..(off[l] + size[l])
    BY <2>3, <2>4
  <2>7. QED
    BY <2>2, <2>5, <2>6
<1>9. Nat \subseteq U
  <2>1. \A m \in Nat : m \in U => m + 1 \in U
    BY <1>8
  <2> HIDE DEF U
  <2>2. QED
    BY <1>7, <2>1, TreeRecursion!Induction
<1>10. \A x \in 1..(off[c] + size[c]) :
            \E i \in 1..c : x \in (off[i] + 1)..(off[i] + size[i])
  <2>1. c - 1 \in Nat /\ (c - 1) + 1 = c
    OBVIOUS
  <2>2. Q(c - 1)
    BY <1>9, <2>1
  <2>3. QED
    BY <2>1, <2>2
<1>11. QED
  BY <1>5, <1>6, <1>10

\* The sequences ss, one after the other, have the elements of s in their order.
InParts(ss, s) ==
    /\ UNION {Range(ss[i]) : i \in 1..Len(ss)} = Range(s)
    /\ \A rel : Chain(s, rel) =>
            /\ \A i \in 1..Len(ss) : Chain(ss[i], rel)
            /\ \A i, j \in 1..Len(ss) : i < j => Linked(ss[i], ss[j], rel)

\* A function on the first n numbers is a sequence.
LEMMA FromMap ==
    ASSUME NEW S, NEW n \in Nat, NEW s, s = [i \in 1..n |-> s[i]],
           \A i \in 1..n : s[i] \in S
    PROVE  s \in Seq(S) /\ Len(s) = n /\ DOMAIN s = 1..n
<1>1. s \in [1..n -> S]
  OBVIOUS
<1>2. QED
  BY <1>1

CutAt(ss, s, off, size, c) ==
    /\ ss = [i \in 1..c |-> ss[i]]
    /\ \A i \in 1..c : ss[i] = SubSeq(s, off[i] + 1, off[i] + size[i])

\* A sequence cut at such offsets.
LEMMA CutRules ==
    ASSUME NEW S, NEW s \in Seq(S), NEW c \in Nat \ {0}, NEW off, NEW size,
           Consecutive(off, size, c), off[c] + size[c] = Len(s),
           NEW ss, CutAt(ss, s, off, size, c)
    PROVE  /\ ss \in Seq(Seq(S))
           /\ Len(ss) = c
           /\ \A i \in 1..c : Len(ss[i]) = size[i]
           /\ InParts(ss, s)
<1>1. /\ \A i, j \in 1..c : i < j => off[i] + size[i] <= off[j]
      /\ \A i \in 1..c : off[i] + size[i] <= Len(s)
      /\ \A x \in 1..Len(s) : \E i \in 1..c : x \in (off[i] + 1)..(off[i] + size[i])
  BY ConsecutiveRules
<1>2. \A i \in 1..c : off[i] \in Nat /\ size[i] \in Nat
  BY DEF Consecutive
<1>3. Len(s) \in Nat /\ DOMAIN s = 1..Len(s)
  BY LenProperties
<1>4. ASSUME NEW i \in 1..c
      PROVE  /\ ss[i] = SubSeq(s, off[i] + 1, off[i] + size[i])
             /\ off[i] + 1 \in 1..(Len(s) + 1)
             /\ off[i] + size[i] \in 0..Len(s)
             /\ ss[i] \in Seq(S)
             /\ Len(ss[i]) = size[i]
             /\ Range(ss[i]) = {s[x] : x \in (off[i] + 1)..(off[i] + size[i])}
  <2> DEFINE a == off[i]
             b == size[i]
  <2>1. a \in Nat /\ b \in Nat /\ a + b <= Len(s)
    BY <1>1, <1>2
  <2>2. ss[i] = SubSeq(s, a + 1, a + b)
    BY DEF CutAt
  <2> HIDE DEF a, b
  <2>3. a + 1 \in 1..(Len(s) + 1) /\ a + b \in 0..Len(s)
    BY <1>3, <2>1
  <2>4. /\ SubSeq(s, a + 1, a + b) \in Seq(S)
        /\ Len(SubSeq(s, a + 1, a + b)) =
              IF a + 1 <= a + b THEN (a + b) - (a + 1) + 1 ELSE 0
        /\ Range(SubSeq(s, a + 1, a + b)) = {s[x] : x \in (a + 1)..(a + b)}
    BY <2>3, SubSeqElements
  <2>5. (IF a + 1 <= a + b THEN (a + b) - (a + 1) + 1 ELSE 0) = b
    <3>1. a + 1 <= a + b => (a + b) - (a + 1) + 1 = b
      BY <2>1
    <3>2. ~(a + 1 <= a + b) => b = 0
      BY <2>1
    <3>3. QED
      BY <3>1, <3>2
  <2>6. QED
    BY <2>2, <2>3, <2>4, <2>5 DEF a, b
<1>5. ss \in Seq(Seq(S)) /\ Len(ss) = c
  <2>1. ss = [i \in 1..c |-> ss[i]]
    BY DEF CutAt
  <2>2. \A i \in 1..c : ss[i] \in Seq(S)
    BY <1>4
  <2>3. QED
    BY <2>1, <2>2, FromMap
<1>6. UNION {Range(ss[i]) : i \in 1..c} = Range(s)
  <2>1. \A x \in 1..Len(s) : \E i \in 1..c : s[x] \in Range(ss[i])
    BY <1>1, <1>4
  <2>2. \A i \in 1..c : \A a \in Range(ss[i]) : a \in Range(s)
    <3>1. \A i \in 1..c : \A x \in (off[i] + 1)..(off[i] + size[i]) : x \in 1..Len(s)
      BY <1>1, <1>2, <1>3
    <3>2. \A x \in 1..Len(s) : s[x] \in Range(s)
      BY ElementInRange
    <3>3. SUFFICES ASSUME NEW i \in 1..c, NEW a \in Range(ss[i]) PROVE a \in Range(s)
      OBVIOUS
    <3>4. Range(ss[i]) = {s[x] : x \in (off[i] + 1)..(off[i] + size[i])}
      BY <1>4
    <3>5. PICK x \in (off[i] + 1)..(off[i] + size[i]) : a = s[x]
      BY <3>3, <3>4
    <3>6. x \in 1..Len(s)
      BY <3>1
    <3>7. QED
      BY <3>2, <3>5, <3>6
  <2>3. \A a \in Range(s) : \E x \in 1..Len(s) : s[x] = a
    BY RangeElement
  <2>4. QED
    BY <2>1, <2>2, <2>3
<1>7. ASSUME NEW rel, Chain(s, rel)
      PROVE  /\ \A i \in 1..c : Chain(ss[i], rel)
             /\ \A i, j \in 1..c : i < j => Linked(ss[i], ss[j], rel)
  <2>1. ASSUME NEW i \in 1..c
        PROVE  Chain(ss[i], rel)
    <3>1. Chain(SubSeq(s, off[i] + 1, off[i] + size[i]), rel)
      BY <1>4, <1>7, ChainSub
    <3>2. ss[i] = SubSeq(s, off[i] + 1, off[i] + size[i])
      BY <1>4
    <3>3. QED
      BY <3>1, <3>2, Zenon
  <2>2. ASSUME NEW i \in 1..c, NEW j \in 1..c, i < j
        PROVE  Linked(ss[i], ss[j], rel)
    <3>1. /\ Range(ss[i]) = {s[x] : x \in (off[i] + 1)..(off[i] + size[i])}
          /\ Range(ss[j]) = {s[x] : x \in (off[j] + 1)..(off[j] + size[j])}
      BY <1>4
    <3> DEFINE p == off[i]
               q == off[i] + size[i]
               u == off[j]
               v == off[j] + size[j]
    <3>2. p \in Nat /\ q \in Nat /\ u \in Nat /\ v \in Nat /\ q <= u /\ v <= Len(s)
      <4>1. q <= u /\ v <= Len(s)
        BY <1>1, <2>2
      <4>2. /\ off[i] \in Nat /\ size[i] \in Nat
            /\ off[j] \in Nat /\ size[j] \in Nat
        BY <1>2
      <4>3. p \in Nat /\ q \in Nat /\ u \in Nat /\ v \in Nat
        <5>1. \A a, b \in Nat : a + b \in Nat
          OBVIOUS
        <5>2. off[i] + size[i] \in Nat /\ off[j] + size[j] \in Nat
          BY <4>2, <5>1
        <5>3. QED
          BY <4>2, <5>2
      <4>4. QED
        BY <4>1, <4>3
    <3>3. Range(ss[i]) = {s[x] : x \in (p + 1)..q} /\ Range(ss[j]) = {s[x] : x \in (u + 1)..v}
      BY <3>1
    <3> HIDE DEF p, q, u, v
    <3>4. ASSUME NEW x \in (p + 1)..q, NEW y \in (u + 1)..v
          PROVE  <<s[x], s[y]>> \in rel
      <4>1. x \in 1..Len(s) /\ y \in 1..Len(s) /\ x < y
        BY <1>3, <3>2
      <4>2. QED
        BY <1>3, <1>7, <4>1 DEF Chain
    <3>5. QED
      BY <3>3, <3>4 DEF Linked
  <2>3. QED
    BY <2>1, <2>2
<1>8. QED
  BY <1>4, <1>5, <1>6, <1>7 DEF InParts

\* Parts are consecutive, and neither too small nor too large.
LEMMA PartsRules ==
    ASSUME NEW S, NEW s \in Seq(S), s # <<>>,
           NEW max \in Nat \ {0}, NEW min \in Nat \ {0}, 2 * min <= max + 1
    PROVE  LET ss == Parts(s, max, min)
           IN /\ ss \in Seq(Seq(S))
              /\ Len(ss) \in Nat \ {0}
              /\ Len(ss) * min <= Len(s) \/ Len(ss) = 1
              /\ Len(ss) = 1 => Len(ss[1]) = Len(s)
              /\ \A i \in 1..Len(ss) : /\ Len(ss[i]) \in Nat
                                       /\ Len(ss[i]) <= max
                                       /\ Len(ss) # 1 => Len(ss[i]) >= min
              /\ InParts(ss, s)
<1> DEFINE total == Len(s)
           c == NodeCount(total, max, min)
           off == [i \in 1..c |-> NodeOffset(total, c, i)]
           size == [i \in 1..c |-> NodeSize(total, c, i)]
           ss == Parts(s, max, min)
<1>1. total \in Nat \ {0}
  BY EmptySeq
<1>2. CutAt(ss, s, off, size, c)
  BY DEF Parts, CutAt
<1> HIDE DEF total, ss
<1>3. CASE total <= max
  <2>1. c = 1
    BY <1>3 DEF NodeCount
  <2>2. /\ NodeSize(total, 1, 1) = total
        /\ NodeOffset(total, 1, 1) + NodeSize(total, 1, 1) = total
        /\ NodeOffset(total, 1, 1) = 0
    BY <1>1 DEF NodeSize, NodeOffset
  <2> HIDE DEF c
  <2>3. 1..c = {1}
    BY <2>1
  <2>4. off[1] = 0 /\ size[1] = total
    BY <2>1, <2>2, <2>3
  <2> HIDE DEF off, size
  <2>5. Consecutive(off, size, c) /\ off[c] + size[c] = total
    BY <1>1, <2>1, <2>3, <2>4 DEF Consecutive
  <2>6. c \in Nat \ {0}
    BY <2>1
  <2>7. /\ ss \in Seq(Seq(S))
        /\ Len(ss) = c
        /\ \A i \in 1..c : Len(ss[i]) = size[i]
        /\ InParts(ss, s)
    <3>1. off[c] + size[c] = Len(s)
      BY <2>5 DEF total
    <3>2. Consecutive(off, size, c)
      BY <2>5
    <3>3. QED
      BY <1>2, <2>6, <3>1, <3>2, CutRules
  <2>8. \A i \in 1..c : Len(ss[i]) = total
    BY <2>1, <2>3, <2>4, <2>7
  <2>9. \A i \in 1..c : Len(ss[i]) \in Nat /\ Len(ss[i]) <= max
    BY <1>1, <1>3, <2>8
  <2>10. QED
    BY <2>1, <2>3, <2>6, <2>7, <2>8, <2>9 DEF ss, total
<1>4. CASE ~(total <= max)
  <2>1. total > max
    BY <1>1, <1>4
  <2>2. /\ c = (total + max - 1) \div max
        /\ c \in Nat /\ c > 1 /\ c * min <= total
    BY <1>1, <2>1, CountIsCeiling, NothingTakenAway
  <2>3. \A i \in 1..c : NodeSize(total, c, i) \in min..max
    BY <1>1, <2>1, SizesWithinBounds
  <2>4. c \in Nat \ {0} /\ c # 1 /\ 1 \in 1..c /\ c \in 1..c
    BY <2>2
  <2> HIDE DEF c
  <2>5. /\ NodeOffset(total, c, 1) = 0
        /\ \A i \in 1..(c - 1) : NodeOffset(total, c, i + 1)
                                 = NodeOffset(total, c, i) + NodeSize(total, c, i)
        /\ NodeOffset(total, c, c) + NodeSize(total, c, c) = total
    BY <1>1, <2>4, NodesCoverEverything
  <2>6. \A i \in 1..c : NodeOffset(total, c, i) \in Nat /\ NodeSize(total, c, i) \in Nat
    <3>1. SUFFICES ASSUME NEW i \in 1..c
                   PROVE  NodeOffset(total, c, i) \in Nat
      BY <2>3
    <3>2. total \div c \in Nat /\ total % c \in Nat /\ i - 1 \in Nat
      <4>1. total \div c \in Nat /\ total % c \in 0..(c - 1)
        BY <1>1, <2>4, Division
      <4>2. QED
        BY <4>1
    <3>3. (i - 1) * (total \div c) \in Nat
      BY <3>2, Products
    <3>4. QED
      BY <3>2, <3>3 DEF NodeOffset
  <2>7. \A i \in 1..c : /\ off[i] = NodeOffset(total, c, i)
                        /\ size[i] = NodeSize(total, c, i)
    OBVIOUS
  <2> HIDE DEF off, size
  <2>8. Consecutive(off, size, c)
    <3>1. \A i \in 1..(c - 1) : i \in 1..c /\ i + 1 \in 1..c
      BY <2>4
    <3>2. QED
      BY <2>4, <2>5, <2>6, <2>7, <3>1 DEF Consecutive
  <2>9. off[c] + size[c] = total
    BY <2>4, <2>5, <2>7
  <2>10. /\ ss \in Seq(Seq(S))
         /\ Len(ss) = c
         /\ \A i \in 1..c : Len(ss[i]) = size[i]
         /\ InParts(ss, s)
    <3>1. off[c] + size[c] = Len(s)
      BY <2>9 DEF total
    <3>2. c \in Nat \ {0}
      BY <2>4
    <3>3. QED
      BY <1>2, <2>8, <3>1, <3>2, CutRules
  <2>11. \A i \in 1..c : Len(ss[i]) \in Nat /\ Len(ss[i]) <= max /\ Len(ss[i]) >= min
    <3>1. SUFFICES ASSUME NEW i \in 1..c
                   PROVE  Len(ss[i]) \in Nat /\ Len(ss[i]) <= max /\ Len(ss[i]) >= min
      OBVIOUS
    <3>2. Len(ss[i]) \in min..max
      BY <2>3, <2>7, <2>10
    <3>3. QED
      BY <3>2
  <2>12. QED
    BY <2>2, <2>4, <2>10, <2>11 DEF ss, total
<1>5. QED
  BY <1>3, <1>4

\* Some nodes of h levels that are to be the children of others, from left to
\* right, with the entries es.
Level(level, o, h, es) ==
    /\ level \in Seq(RightTrees(o)[h])
    /\ level # <<>>
    /\ Len(level) # 1 => \A i \in 1..Len(level) : LargeEnough(level[i], o)
    /\ Apart(level)
    /\ ContentsOf(level) = es

\* The leaves of a bulk load are right, apart and large enough.
LEMMA LeavesAreLevel ==
    ASSUME NEW o \in Orders, NEW es \in Seq(Entry), Ascending(es), es # <<>>
    PROVE  Level(Leaves(es, o), o, 1, Range(es))
<1> DEFINE max == MaxLeafEntries(o)
           min == MinLeafEntries(o)
           ss == Parts(es, max, min)
           ls == Leaves(es, o)
<1>1. max \in Nat \ {0} /\ min \in Nat \ {0} /\ 2 * min <= max + 1
  <2>1. /\ o \in Nat /\ MaxLeafEntries(o) = o - 1 /\ MaxLeafEntries(o) >= 2
        /\ MinLeafEntries(o) \in Nat /\ MinLeafEntries(o) >= 1
        /\ 2 * MinLeafEntries(o) <= o
    BY Bounds
  <2>2. QED
    BY <2>1
<1>2. ls = [i \in DOMAIN ss |-> MakeLeaf(ss[i])]
  BY DEF Leaves
<1> HIDE DEF max, min
<1>3. Chain(es, InThisOrder)
  BY AscendingIsChain
<1>4. /\ ss \in Seq(Seq(Entry))
      /\ Len(ss) \in Nat \ {0}
      /\ \A i \in 1..Len(ss) : /\ Len(ss[i]) \in Nat
                               /\ Len(ss[i]) <= max
                               /\ Len(ss) # 1 => Len(ss[i]) >= min
      /\ InParts(ss, es)
  BY <1>1, PartsRules
<1> HIDE DEF ss
<1>5. /\ UNION {Range(ss[i]) : i \in 1..Len(ss)} = Range(es)
      /\ \A i \in 1..Len(ss) : Chain(ss[i], InThisOrder)
      /\ \A i, j \in 1..Len(ss) : i < j => Linked(ss[i], ss[j], InThisOrder)
  BY <1>3, <1>4 DEF InParts
<1>6. DOMAIN ss = 1..Len(ss) /\ \A i \in 1..Len(ss) : ss[i] \in Seq(Entry)
  BY <1>4, LenProperties, ElementOfSeq
<1>7. \A i \in 1..Len(ss) :
            /\ MakeLeaf(ss[i]) \in RightTrees(o)[1]
            /\ Contents(MakeLeaf(ss[i])) = Range(ss[i])
            /\ Len(ss) # 1 => LargeEnough(MakeLeaf(ss[i]), o)
  BY <1>4, <1>5, <1>6, AscendingIsChain, LeafIsTree, LeafIsRight DEF max, min
<1>8. /\ ls \in Seq(RightTrees(o)[1])
      /\ Len(ls) = Len(ss) /\ DOMAIN ls = 1..Len(ls)
      /\ \A i \in 1..Len(ls) : ls[i] = MakeLeaf(ss[i])
  <2>1. \A i \in 1..Len(ss) : ls[i] = MakeLeaf(ss[i]) /\ ls[i] \in RightTrees(o)[1]
    BY <1>2, <1>6, <1>7
  <2>2. ls = [i \in 1..Len(ss) |-> ls[i]]
    BY <1>2, <1>6
  <2> HIDE DEF ls
  <2>3. ls \in Seq(RightTrees(o)[1]) /\ Len(ls) = Len(ss) /\ DOMAIN ls = 1..Len(ss)
    BY <1>4, <2>1, <2>2, FromMap
  <2>4. QED
    BY <2>1, <2>3
<1> HIDE DEF ls
<1>9. ls # <<>>
  BY <1>4, <1>8, EmptySeq
<1>10. \A i \in 1..Len(ls) : Contents(ls[i]) = Range(ss[i])
  BY <1>7, <1>8
<1>11. Apart(ls)
  <2>1. SUFFICES ASSUME NEW i \in 1..Len(ls), NEW j \in 1..Len(ls), i < j,
                        NEW e \in Range(ss[i]), NEW f \in Range(ss[j])
                 PROVE  Precedes(e, f)
    BY <1>8, <1>10 DEF Apart
  <2>2. <<e, f>> \in InThisOrder
    BY <1>5, <1>8, <2>1 DEF Linked
  <2>3. QED
    BY <2>2 DEF InThisOrder
<1>12. ContentsOf(ls) = Range(es)
  BY <1>5, <1>8, <1>10 DEF ContentsOf
<1>13. Level(ls, o, 1, Range(es))
  BY <1>7, <1>8, <1>9, <1>11, <1>12 DEF Level
<1>14. QED
  BY <1>13 DEF ls

\* The nodes on top of a level are right, apart and large enough, and fewer.
LEMMA AboveIsLevel ==
    ASSUME NEW o \in Orders, NEW h \in Nat, h >= 1, NEW es, NEW level,
           Level(level, o, h, es), Len(level) # 1
    PROVE  /\ Level(Above(level, o), o, h + 1, es)
           /\ Len(Above(level, o)) < Len(level)
<1> DEFINE min == MinChildren(o)
           ss == Parts(level, o, min)
           ls == Above(level, o)
<1>1. /\ level \in Seq(RightTrees(o)[h])
      /\ level # <<>>
      /\ \A i \in 1..Len(level) : LargeEnough(level[i], o)
      /\ Apart(level)
      /\ ContentsOf(level) = es
  BY DEF Level
<1>2. o \in Nat \ {0} /\ min \in Nat \ {0} /\ 2 * min <= o + 1 /\ min >= 2
  <2>1. /\ o \in Nat /\ o >= 3 /\ MinChildren(o) \in Nat
        /\ MinChildren(o) >= 2 /\ 2 * MinChildren(o) <= o + 1
    BY Bounds
  <2>2. QED
    BY <2>1
<1>3. ls = [i \in DOMAIN ss |-> MakeInternal(ss[i])]
  BY DEF Above
<1> HIDE DEF min, ls
<1>4. Chain(level, InThisOrderOfTrees)
  BY <1>1, RightIsTree, OfAllTrees, ApartIsChain
<1>5. /\ ss \in Seq(Seq(RightTrees(o)[h]))
      /\ Len(ss) \in Nat \ {0}
      /\ Len(ss) * min <= Len(level) \/ Len(ss) = 1
      /\ Len(ss) = 1 => Len(ss[1]) = Len(level)
      /\ \A i \in 1..Len(ss) : /\ Len(ss[i]) \in Nat
                               /\ Len(ss[i]) <= o
                               /\ Len(ss) # 1 => Len(ss[i]) >= min
      /\ InParts(ss, level)
  BY <1>1, <1>2, PartsRules
<1> HIDE DEF ss
<1>6. /\ UNION {Range(ss[i]) : i \in 1..Len(ss)} = Range(level)
      /\ \A i \in 1..Len(ss) : Chain(ss[i], InThisOrderOfTrees)
      /\ \A i, j \in 1..Len(ss) : i < j => Linked(ss[i], ss[j], InThisOrderOfTrees)
  BY <1>4, <1>5 DEF InParts
<1>7. DOMAIN ss = 1..Len(ss) /\ \A i \in 1..Len(ss) : ss[i] \in Seq(RightTrees(o)[h])
  BY <1>5, LenProperties, ElementOfSeq
<1>8. Len(level) \in Nat /\ Len(level) >= 2
  <2>1. Len(level) \in Nat /\ Len(level) # 0
    BY <1>1, EmptySeq
  <2>2. \A k \in Nat : k # 0 /\ k # 1 => k >= 2
    OBVIOUS
  <2>3. QED
    BY <2>1, <2>2
<1>9. \A i \in 1..Len(ss) : Len(ss[i]) \in 2..o /\ (Len(ss) # 1 => Len(ss[i]) >= min)
  <2>1. SUFFICES ASSUME NEW i \in 1..Len(ss)
                 PROVE  Len(ss[i]) \in 2..o /\ (Len(ss) # 1 => Len(ss[i]) >= min)
    OBVIOUS
  <2>2. CASE Len(ss) = 1
    <3>1. i = 1
      BY <2>2
    <3>2. QED
      BY <1>2, <1>5, <1>8, <2>2, <3>1
  <2>3. CASE Len(ss) # 1
    BY <1>2, <1>5, <2>3
  <2>4. QED
    BY <2>2, <2>3
<1>10. \A c \in Range(level) : LargeEnough(c, o)
  BY <1>1, RangeElement
<1>11. ASSUME NEW i \in 1..Len(ss)
       PROVE  /\ MakeInternal(ss[i]) \in RightTrees(o)[h + 1]
              /\ Contents(MakeInternal(ss[i])) = AllContents(Range(ss[i]))
              /\ Len(ss) # 1 => LargeEnough(MakeInternal(ss[i]), o)
  <2> DEFINE cs == ss[i]
  <2>1. cs \in Seq(RightTrees(o)[h]) /\ Len(cs) \in 2..o /\ (Len(ss) # 1 => Len(cs) >= min)
    BY <1>7, <1>9
  <2>2. Chain(cs, InThisOrderOfTrees) /\ Range(cs) \subseteq Range(level)
    BY <1>6
  <2> HIDE DEF cs
  <2>3. Apart(cs)
    BY <2>1, <2>2, RightIsTree, OfAllTrees, ApartIsChain
  <2>4. \A j \in 1..Len(cs) : LargeEnough(cs[j], o)
    BY <1>10, <2>1, <2>2, ElementInRange
  <2>5. /\ MakeInternal(cs) \in RightTrees(o)[h + 1]
        /\ LargeEnough(MakeInternal(cs), o) <=> Len(cs) >= MinChildren(o)
        /\ Contents(MakeInternal(cs)) = ContentsOf(cs)
    BY <2>1, <2>3, <2>4, InternalIsRight DEF ContentsOf
  <2>6. ContentsOf(cs) = AllContents(Range(cs))
    BY <2>1, ContentsOfRange DEF AllContents
  <2>7. QED
    BY <2>1, <2>5, <2>6 DEF cs, min
<1>12. /\ ls \in Seq(RightTrees(o)[h + 1])
       /\ Len(ls) = Len(ss) /\ DOMAIN ls = 1..Len(ls)
       /\ \A i \in 1..Len(ls) : ls[i] = MakeInternal(ss[i])
  <2>1. \A i \in 1..Len(ss) : /\ ls[i] = MakeInternal(ss[i])
                              /\ ls[i] \in RightTrees(o)[h + 1]
    BY <1>3, <1>7, <1>11
  <2>2. ls = [i \in 1..Len(ss) |-> ls[i]]
    BY <1>3, <1>7
  <2> DEFINE R == RightTrees(o)[h + 1]
  <2>3. ls \in Seq(R) /\ Len(ls) = Len(ss) /\ DOMAIN ls = 1..Len(ss)
    <3>1. Len(ss) \in Nat /\ \A i \in 1..Len(ss) : ls[i] \in R
      BY <1>5, <2>1
    <3> HIDE DEF R
    <3>2. QED
      BY <2>2, <3>1, FromMap
  <2>4. QED
    BY <2>1, <2>3
<1>13. ls # <<>>
  BY <1>5, <1>12, EmptySeq
<1>14. \A i \in 1..Len(ls) : Contents(ls[i]) = AllContents(Range(ss[i]))
  BY <1>11, <1>12
<1>15. Apart(ls)
  <2>1. SUFFICES ASSUME NEW i \in 1..Len(ls), NEW j \in 1..Len(ls), i < j,
                        NEW e \in AllContents(Range(ss[i])),
                        NEW f \in AllContents(Range(ss[j]))
                 PROVE  Precedes(e, f)
    BY <1>12, <1>14 DEF Apart
  <2>2. PICK a \in Range(ss[i]) : e \in Contents(a)
    BY DEF AllContents
  <2>3. PICK b \in Range(ss[j]) : f \in Contents(b)
    BY DEF AllContents
  <2>4. <<a, b>> \in InThisOrderOfTrees
    BY <1>6, <1>12, <2>1 DEF Linked
  <2>5. QED
    BY <2>2, <2>3, <2>4 DEF InThisOrderOfTrees
<1>16. ContentsOf(ls) = es
  <2>1. es = AllContents(Range(level))
    BY <1>1, ContentsOfRange DEF AllContents
  <2>2. \A x : x \in es <=> \E c \in Range(level) : x \in Contents(c)
    BY <2>1 DEF AllContents
  <2>3. \A x : x \in ContentsOf(ls) <=> \E i \in 1..Len(ss) : x \in AllContents(Range(ss[i]))
    BY <1>12, <1>14 DEF ContentsOf
  <2>4. \A x : x \in ContentsOf(ls)
               <=> \E i \in 1..Len(ss) : \E c \in Range(ss[i]) : x \in Contents(c)
    BY <2>3 DEF AllContents
  <2>5. \A c : c \in Range(level) <=> \E i \in 1..Len(ss) : c \in Range(ss[i])
    BY <1>6
  <2>6. QED
    BY <2>2, <2>4, <2>5
<1>17. Len(ss) < Len(level)
  <2>1. CASE Len(ss) = 1
    BY <1>8, <2>1
  <2>2. CASE Len(ss) # 1
    <3> DEFINE n == Len(ss)
    <3>1. n \in Nat \ {0} /\ n * min <= Len(level)
      BY <1>5, <2>2
    <3> HIDE DEF n
    <3>2. n * 2 <= n * min
      BY <1>2, <3>1, Monotone
    <3>3. n * min \in Nat
      BY <1>2, <3>1, Products
    <3>4. n < Len(level)
      BY <1>8, <3>1, <3>2, <3>3
    <3>5. QED
      BY <3>4 DEF n
  <2>3. QED
    BY <2>1, <2>2
<1>18. Level(ls, o, h + 1, es)
  BY <1>11, <1>12, <1>13, <1>15, <1>16 DEF Level
<1>19. QED
  BY <1>12, <1>17, <1>18 DEF ls

\* The levels of a bulk load end with a right tree that contains the entries.
LEMMA GrowKeeps ==
    ASSUME NEW o \in Orders, NEW es, NEW level, Level(level, o, 1, es)
    PROVE  /\ \E h \in Nat : Grow(level, o) \in RightTrees(o)[h]
           /\ Contents(Grow(level, o)) = es
<1>1. PICK f : Levels(level, o, f) /\ Grow(level, o) = f[Len(level)][1]
  BY GrowRule
<1> DEFINE P(k) == /\ \E h \in Nat : h >= 1 /\ Level(f[k], o, h, es)
                   /\ Len(f[k]) = 1 \/ Len(f[k]) <= Len(level) - k
           T == {k \in Nat : P(k)}
<1>2. /\ f[0] = level
      /\ \A k \in Nat : k # 0 => f[k] = Above(f[k - 1], o)
  BY <1>1 DEF Levels
<1>3. Len(level) \in Nat /\ level # <<>>
  BY LenProperties DEF Level
<1>4. 0 \in T
  <2>1. 1 \in Nat /\ 1 >= 1 /\ 0 \in Nat /\ Len(level) <= Len(level) - 0
    BY <1>3
  <2>2. QED
    BY <1>2, <2>1
<1>5. ASSUME NEW k \in Nat, P(k)
      PROVE  P(k + 1)
  <2>1. PICK h \in Nat : h >= 1 /\ Level(f[k], o, h, es)
    BY <1>5
  <2>2. f[k + 1] = Above(f[k], o)
    <3>1. k + 1 \in Nat /\ k + 1 # 0 /\ (k + 1) - 1 = k
      OBVIOUS
    <3>2. f[k + 1] = Above(f[(k + 1) - 1], o)
      BY <1>2, <3>1
    <3>3. QED
      BY <3>1, <3>2
  <2>3. CASE Len(f[k]) = 1
    <3>1. f[k + 1] = f[k]
      BY <2>2, <2>3 DEF Above
    <3>2. QED
      BY <2>1, <2>3, <3>1
  <2>4. CASE Len(f[k]) # 1
    <3>1. /\ Level(f[k + 1], o, h + 1, es)
          /\ Len(f[k + 1]) < Len(f[k])
      BY <2>1, <2>2, <2>4, AboveIsLevel
    <3>2. h + 1 \in Nat /\ h + 1 >= 1
      BY <2>1
    <3>3. Len(f[k]) <= Len(level) - k
      BY <1>5, <2>4
    <3>4. Len(f[k + 1]) \in Nat /\ Len(f[k]) \in Nat
      BY <2>1, <3>1, LenProperties DEF Level
    <3>5. Len(f[k + 1]) <= Len(level) - (k + 1)
      BY <1>3, <3>1, <3>3, <3>4
    <3>6. QED
      BY <3>1, <3>2, <3>5
  <2>5. QED
    BY <2>3, <2>4
<1>6. Nat \subseteq T
  <2>1. \A k \in Nat : k \in T => k + 1 \in T
    BY <1>5
  <2> HIDE DEF T
  <2>2. QED
    BY <1>4, <2>1, TreeRecursion!Induction
<1> DEFINE top == f[Len(level)]
<1>7. P(Len(level))
  BY <1>3, <1>6
<1>8. PICK h \in Nat : h >= 1 /\ Level(top, o, h, es)
  BY <1>7
<1>9. Len(top) = 1 \/ Len(top) <= Len(level) - Len(level)
  BY <1>7
<1> HIDE DEF top
<1>10. Len(top) = 1
  <2>1. top \in Seq(RightTrees(o)[h]) /\ top # <<>>
    BY <1>8 DEF Level
  <2>2. Len(top) \in Nat /\ Len(top) # 0
    BY <2>1, EmptySeq
  <2>3. QED
    BY <1>3, <1>9, <2>2
<1>11. top[1] \in RightTrees(o)[h]
  <2>1. 1 \in 1..Len(top)
    BY <1>10
  <2>2. QED
    BY <1>8, <2>1, ElementOfSeq DEF Level
<1>12. Contents(top[1]) = es
  <2>1. 1..1 = {1}
    OBVIOUS
  <2>2. ContentsOf(top) = Contents(top[1])
    BY <1>10, <2>1 DEF ContentsOf
  <2>3. QED
    BY <1>8, <2>2 DEF Level
<1>13. Grow(level, o) = top[1]
  BY <1>1 DEF top
<1>14. QED
  BY <1>11, <1>12, <1>13

\* A bulk load makes a right tree of ascending entries, and keeps their order.
LEMMA BulkLoadKeeps ==
    ASSUME NEW o \in Orders, NEW es \in Seq(Entry), Ascending(es)
    PROVE  /\ \E h \in Nat : BulkLoad(es, o) \in RightTrees(o)[h]
           /\ Walk(BulkLoad(es, o)) = es
<1>1. CASE es = <<>>
  <2>1. BulkLoad(es, o) = MakeLeaf(es)
    BY <1>1, LeafIsTree DEF BulkLoad
  <2>2. Len(es) = 0 /\ Len(es) <= MaxLeafEntries(o) /\ 1 \in Nat
    BY <1>1, Bounds
  <2>3. MakeLeaf(es) \in RightTrees(o)[1] /\ Walk(MakeLeaf(es)) = es
    BY <2>2, LeafIsRight, LeafIsTree
  <2>4. QED
    BY <2>1, <2>2, <2>3
<1>2. CASE es # <<>>
  <2> DEFINE t == Grow(Leaves(es, o), o)
  <2>1. BulkLoad(es, o) = t
    BY <1>2 DEF BulkLoad
  <2>2. Contents(t) = Range(es) /\ \E h \in Nat : t \in RightTrees(o)[h]
    BY <1>2, LeavesAreLevel, GrowKeeps
  <2> HIDE DEF t
  <2>3. PICK h \in Nat : t \in RightTrees(o)[h]
    BY <2>2
  <2>4. Walk(t) \in Seq(Entry) /\ Ascending(Walk(t))
    BY <2>3, RightIsTree, WalkType, RightWalk
  <2>5. Walk(t) = es
    BY <2>2, <2>4, AscendingUnique DEF Contents
  <2>6. QED
    BY <2>1, <2>2, <2>5
<1>3. QED
  BY <1>1, <1>2

-----------------------------------------------------------------------------
(* The invariant *)

Unique(es) == \A e, f \in es : e.sequence = f.sequence => e = f

\* A right tree of order o, whose entries have unique numbers below next.
Held(n, o, next) ==
    /\ o \in Orders
    /\ next \in Nat
    /\ \E h \in Nat : n \in RightTrees(o)[h]
    /\ Unique(Contents(n))
    /\ \A e \in Contents(n) : e.sequence < next

TreePage == [kind : {"tree"}, order : Orders, generation : Nat,
             nextSequence : Nat, root : AllTrees]

Page == LegacyPages \cup TreePage

PageOK(p) == p \in TreePage => Held(p.root, p.order, p.nextSequence)

\* What all pages of the file have, whether a transaction wrote them or an earlier
\* format, and the page that is written next will have.
PagesOK(ps) ==
    /\ ps \in Seq(Page)
    /\ \A i \in 1..Len(ps) : PageOK(ps[i])
    /\ \A i, j \in 1..Len(ps) : i < j => ps[i].generation < ps[j].generation

\* The tree and those on the pages are right and numbered, and the pages have
\* ascending generations, none of them after that of the index.
IInv ==
    /\ Held(root, order, nextSequence)
    /\ generation \in Nat
    /\ PagesOK(pages)
    /\ \A i \in 1..Len(pages) : pages[i].generation <= generation
    /\ Len(pages) <= MaxPages

\* What is known of a tree that an index holds.
LEMMA HeldIsTree ==
    ASSUME NEW n, NEW o, NEW next, Held(n, o, next)
    PROVE  /\ n \in AllTrees
           /\ n \in Tree[Height(n)]
           /\ n \in RightTrees(o)[Height(n)]
           /\ Walk(n) \in Seq(Entry)
           /\ Ascending(Walk(n))
           /\ Contents(n) \subseteq Entry
<1>1. PICK h \in Nat : n \in RightTrees(o)[h]
  BY DEF Held
<1>2. o \in Orders
  BY DEF Held
<1>3. n \in Tree[h] /\ Height(n) = h
  BY <1>1, <1>2, RightIsTree, RightHeight
<1>4. n \in AllTrees /\ Walk(n) \in Seq(Entry) /\ Contents(n) \subseteq Entry
  BY <1>3, OfAllTrees, WalkType, ContentsOfTree
<1>5. Ascending(Walk(n))
  BY <1>1, <1>2, RightWalk
<1>6. QED
  BY <1>1, <1>3, <1>4, <1>5

\* The elements of an ascending sequence differ.
LEMMA UniqueNumbered ==
    ASSUME NEW es \in Seq(Entry), Ascending(es), Unique(Range(es))
    PROVE  Numbered(es)
<1>1. DOMAIN es = 1..Len(es) /\ Len(es) \in Nat
  BY LenProperties
<1>2. SUFFICES ASSUME NEW i \in 1..Len(es), NEW j \in 1..Len(es),
                      es[i].sequence = es[j].sequence
               PROVE  i = j
  BY <1>1 DEF Numbered, IsInjective
<1>3. es[i] \in Entry /\ es[j] \in Entry /\ es[i] \in Range(es) /\ es[j] \in Range(es)
  BY ElementInRange
<1>4. es[i] = es[j]
  BY <1>2, <1>3 DEF Unique
<1>5. ~Precedes(es[i], es[j]) /\ ~Precedes(es[j], es[i])
  BY <1>3, <1>4, OrderLaws
<1>6. ~(i < j) /\ ~(j < i)
  BY <1>1, <1>5 DEF Ascending
<1>7. i \in Nat /\ j \in Nat
  BY <1>1
<1>8. QED
  BY <1>6, <1>7

\* Numbered entries, as a set, have unique numbers.
LEMMA NumberedUnique ==
    ASSUME NEW es \in Seq(Entry), Numbered(es)
    PROVE  Unique(Range(es))
<1>1. DOMAIN es = 1..Len(es)
  BY LenProperties
<1>2. \A i, j \in 1..Len(es) : es[i].sequence = es[j].sequence => i = j
  BY <1>1 DEF Numbered, IsInjective
<1>3. SUFFICES ASSUME NEW e \in Range(es), NEW f \in Range(es), e.sequence = f.sequence
               PROVE  e = f
  BY DEF Unique
<1>4. PICK i \in 1..Len(es) : es[i] = e
  BY RangeElement
<1>5. PICK j \in 1..Len(es) : es[j] = f
  BY RangeElement
<1>6. QED
  BY <1>2, <1>3, <1>4, <1>5

\* A bulk load of ascending and numbered entries.
LEMMA BulkLoadHeld ==
    ASSUME NEW o \in Orders, NEW next \in Nat, NEW es \in Seq(Entry), Ascending(es),
           Unique(Range(es)), \A e \in Range(es) : e.sequence < next
    PROVE  Held(BulkLoad(es, o), o, next)
<1>1. /\ \E h \in Nat : BulkLoad(es, o) \in RightTrees(o)[h]
      /\ Contents(BulkLoad(es, o)) = Range(es)
  BY BulkLoadKeeps DEF Contents
<1>2. QED
  BY <1>1 DEF Held

\* Numbers from NextAfter on are new.
LEMMA NextAfterRule ==
    ASSUME NEW es \in Seq(Entry)
    PROVE  /\ NextAfter(es) \in Nat
           /\ \A e \in Range(es) : e.sequence < NextAfter(es)
<1>1. Len(es) \in Nat /\ DOMAIN es = 1..Len(es)
  BY LenProperties
<1>2. \A i \in 1..Len(es) : es[i].sequence \in Nat
  BY ElementOfSeq, EntryIsRecord
<1>3. CASE es = <<>>
  BY <1>3, SingleChain DEF NextAfter
<1>4. CASE es # <<>>
  <2> DEFINE S == {es[i].sequence : i \in DOMAIN es}
             P(m) == m + 1 <= Len(es) =>
                        \E x \in S : \A i \in 1..(m + 1) : es[i].sequence <= x
             T == {m \in Nat : P(m)}
  <2>1. 1 \in 1..Len(es)
    BY <1>1, <1>4, EmptySeq
  <2>2. 0 \in T
    <3>1. \A i \in 1..(0 + 1) : i = 1
      OBVIOUS
    <3>2. es[1].sequence \in S /\ es[1].sequence \in Nat
      BY <1>1, <1>2, <2>1
    <3>3. \A i \in 1..(0 + 1) : es[i].sequence <= es[1].sequence
      BY <3>1, <3>2
    <3>4. QED
      BY <3>2, <3>3
  <2>3. ASSUME NEW m \in Nat, P(m)
        PROVE  P(m + 1)
    <3>1. SUFFICES ASSUME (m + 1) + 1 <= Len(es)
                   PROVE  \E x \in S : \A i \in 1..((m + 1) + 1) : es[i].sequence <= x
      OBVIOUS
    <3>2. PICK x \in S : \A i \in 1..(m + 1) : es[i].sequence <= x
      BY <1>1, <2>3, <3>1
    <3>3. (m + 1) + 1 \in 1..Len(es)
      BY <1>1, <3>1
    <3> DEFINE y == es[(m + 1) + 1].sequence
    <3>4. y \in S /\ y \in Nat /\ x \in Nat
      BY <1>1, <1>2, <3>3
    <3>5. \A i \in 1..((m + 1) + 1) : i \in 1..(m + 1) \/ i = (m + 1) + 1
      OBVIOUS
    <3>6. \A i \in 1..((m + 1) + 1) : es[i].sequence <= x \/ es[i].sequence = y
      BY <3>2, <3>5
    <3>7. \A i \in 1..((m + 1) + 1) : i \in 1..Len(es)
      BY <1>1, <3>1
    <3> HIDE DEF y, S
    <3>8. CASE x <= y
      <4>1. \A i \in 1..((m + 1) + 1) : es[i].sequence <= y
        BY <1>2, <3>4, <3>6, <3>7, <3>8
      <4>2. QED
        BY <3>4, <4>1
    <3>9. CASE ~(x <= y)
      <4>1. \A i \in 1..((m + 1) + 1) : es[i].sequence <= x
        BY <1>2, <3>4, <3>6, <3>7, <3>9
      <4>2. QED
        BY <4>1
    <3>10. QED
      BY <3>8, <3>9
  <2>4. Nat \subseteq T
    <3> HIDE DEF P
    <3>1. \A m \in Nat : m \in T => m + 1 \in T
      BY <2>3
    <3> HIDE DEF T
    <3>2. QED
      BY <2>2, <3>1, TreeRecursion!Induction
  <2>5. PICK x \in S : \A i \in 1..Len(es) : es[i].sequence <= x
    <3>1. Len(es) - 1 \in Nat /\ (Len(es) - 1) + 1 = Len(es)
      BY <1>1, <2>1
    <3>2. P(Len(es) - 1)
      BY <2>4, <3>1
    <3>3. QED
      BY <1>1, <3>1, <3>2
  <2>6. S \subseteq Nat /\ \A y \in S : x >= y
    BY <1>1, <1>2, <2>5
  <2>7. Max(S) \in S /\ \A y \in S : Max(S) >= y
    BY <2>6 DEF Max
  <2>8. NextAfter(es) = Max(S) + 1
    BY <1>4 DEF NextAfter
  <2>9. \A e \in Range(es) : e.sequence \in S
    BY <1>1, RangeElement
  <2> HIDE DEF S
  <2>10. Max(S) \in Nat
    BY <2>6, <2>7
  <2>11. \A e \in Range(es) : e.sequence \in Nat /\ Max(S) >= e.sequence
    BY <2>6, <2>7, <2>9
  <2>12. QED
    BY <2>8, <2>10, <2>11
<1>5. QED
  BY <1>3, <1>4

\* What is known of a page of the old format.
LEMMA LegacyPage ==
    ASSUME NEW p \in LegacyPages
    PROVE  /\ p.kind = "legacy" /\ p.order \in Orders /\ p.generation \in Nat
           /\ p.entries \in Seq(Entry) /\ Numbered(p.entries)
           /\ p \notin TreePage /\ PageOK(p)
<1>1. /\ p.kind = "legacy" /\ p.order \in Orders /\ p.generation \in Nat
      /\ p.entries \in Seq(Entry) /\ Numbered(p.entries)
  BY LegacyAssumption
<1>2. \A t \in TreePage : t.kind = "tree"
  BY DEF TreePage
<1>3. p \notin TreePage
  BY <1>1, <1>2
<1>4. QED
  BY <1>1, <1>3 DEF PageOK

\* What is known of a page.
LEMMA PageFields ==
    ASSUME NEW p \in Page
    PROVE  /\ p.generation \in Nat
           /\ p.kind = "tree" => p \in TreePage
           /\ p.kind # "tree" => p \in LegacyPages
<1>1. p \in TreePage => p.generation \in Nat /\ p.kind = "tree"
  BY DEF TreePage
<1>2. p \in LegacyPages => p.generation \in Nat /\ p.kind = "legacy"
  BY LegacyPage
<1>3. QED
  BY <1>1, <1>2 DEF Page

\* The page with the largest generation is the last.
LEMMA LatestIsLast ==
    ASSUME NEW ps, PagesOK(ps), ps # <<>>
    PROVE  /\ Len(ps) \in 1..Len(ps)
           /\ LatestPage(ps) = ps[Len(ps)]
           /\ ps[Len(ps)] \in Page
           /\ \A i \in 1..Len(ps) : ps[i].generation <= ps[Len(ps)].generation
<1> DEFINE n == Len(ps)
           Is(i) == \A j \in DOMAIN ps : \/ ps[j].generation < ps[i].generation
                                         \/ ps[j].generation = ps[i].generation /\ j <= i
<1>1. ps \in Seq(Page)
  BY DEF PagesOK
<1>2. n \in 1..n /\ DOMAIN ps = 1..n /\ n \in Nat
  BY <1>1, EmptySeq, LenProperties
<1>3. \A i \in 1..n : ps[i] \in Page
  BY <1>1, ElementOfSeq
<1>4. \A i \in 1..n : ps[i].generation \in Nat
  BY <1>3, PageFields
<1>5. \A i \in 1..n : i < n => ps[i].generation < ps[n].generation
  BY <1>2 DEF PagesOK
<1>6. \A i \in 1..n : i = n \/ i < n
  <2>1. n \in Nat
    BY <1>2
  <2> HIDE DEF n
  <2>2. QED
    BY <2>1
<1>7. Is(n)
  <2>1. SUFFICES ASSUME NEW j \in 1..n
                 PROVE  \/ ps[j].generation < ps[n].generation
                        \/ ps[j].generation = ps[n].generation /\ j <= n
    BY <1>2
  <2>2. n <= n
    BY <1>2
  <2>3. QED
    BY <1>5, <1>6, <2>2
<1>8. \A i \in DOMAIN ps : Is(i) => i = n
  <2>1. SUFFICES ASSUME NEW i \in 1..n, Is(i), i < n PROVE FALSE
    BY <1>2, <1>6
  <2>2. ps[i].generation < ps[n].generation
    BY <1>5, <2>1
  <2>3. \/ ps[n].generation < ps[i].generation
        \/ ps[n].generation = ps[i].generation /\ n <= i
    BY <1>2, <2>1
  <2>4. ps[i].generation \in Nat /\ ps[n].generation \in Nat
    BY <1>2, <1>4
  <2>5. QED
    BY <2>2, <2>3, <2>4
<1>9. (CHOOSE i \in DOMAIN ps : Is(i)) = n
  BY <1>2, <1>7, <1>8
<1>10. LatestPage(ps) = ps[n]
  BY <1>9 DEF LatestPage
<1>11. \A i \in 1..n : ps[i].generation <= ps[n].generation
  <2>1. SUFFICES ASSUME NEW i \in 1..n PROVE ps[i].generation <= ps[n].generation
    OBVIOUS
  <2>2. ps[i].generation \in Nat /\ ps[n].generation \in Nat
    BY <1>2, <1>4
  <2>3. i = n \/ ps[i].generation < ps[n].generation
    BY <1>5, <1>6
  <2>4. QED
    BY <2>2, <2>3
<1>12. QED
  BY <1>2, <1>3, <1>10, <1>11

\* What opening the index makes of any pages that are right.
LEMMA LoadedIsHeld ==
    ASSUME NEW ps, PagesOK(ps), NEW o \in Orders
    PROVE  LET l == Loaded(ps, o)
           IN /\ Held(l.root, l.order, l.nextSequence)
              /\ l.generation \in Nat
              /\ \A i \in 1..Len(ps) : ps[i].generation <= l.generation
<1> DEFINE l == Loaded(ps, o)
<1>1. CASE ps = <<>>
  <2>1. l = [order |-> o, root |-> Empty, generation |-> 0, nextSequence |-> 0]
    BY <1>1 DEF Loaded
  <2>2. l.order = o /\ l.root = Empty /\ l.generation = 0 /\ l.nextSequence = 0
    BY <2>1
  <2> HIDE DEF l
  <2>3. Held(Empty, o, 0)
    <3>1. Contents(Empty) = {}
      BY EmptyIsTree
    <3>2. <<>> \in Seq(Entry) /\ Ascending(<<>>) /\ Range(<<>>) = {}
      <4>1. Ascending(<<>>)
        BY DEF Ascending
      <4>2. QED
        BY <4>1, EmptySeq, SingleChain
    <3>3. Unique({})
      BY DEF Unique
    <3>4. BulkLoad(<<>>, o) = Empty
      BY DEF BulkLoad
    <3>5. QED
      BY <3>2, <3>3, <3>4, BulkLoadHeld
  <2>4. Len(ps) = 0
    BY <1>1
  <2>5. QED
    BY <2>2, <2>3, <2>4 DEF l
<1>2. CASE ps # <<>>
  <2> DEFINE page == ps[Len(ps)]
  <2>1. /\ Len(ps) \in 1..Len(ps) /\ LatestPage(ps) = page /\ page \in Page
        /\ \A i \in 1..Len(ps) : ps[i].generation <= page.generation
    BY <1>2, LatestIsLast
  <2>2. PageOK(page)
    BY <2>1 DEF PagesOK
  <2>3. page.generation \in Nat
    BY <2>1, PageFields
  <2>4. CASE page.kind = "tree"
    <3>1. l = [order |-> page.order, root |-> page.root,
               generation |-> page.generation, nextSequence |-> page.nextSequence]
      BY <1>2, <2>1, <2>4 DEF Loaded
    <3>2. Held(page.root, page.order, page.nextSequence)
      BY <2>1, <2>2, <2>4, PageFields DEF PageOK
    <3>3. /\ l.order = page.order /\ l.root = page.root
          /\ l.generation = page.generation /\ l.nextSequence = page.nextSequence
      BY <3>1
    <3> HIDE DEF l, page
    <3>4. QED
      BY <2>1, <2>3, <3>2, <3>3 DEF l
  <2>5. CASE page.kind # "tree"
    <3> DEFINE s == Sorted(page.entries)
    <3>1. l = [order |-> page.order,
               root |-> BulkLoad(s, page.order),
               generation |-> page.generation,
               nextSequence |-> NextAfter(page.entries)]
      BY <1>2, <2>1, <2>5 DEF Loaded
    <3>2. page.order \in Orders /\ page.entries \in Seq(Entry) /\ Numbered(page.entries)
      BY <2>1, <2>5, PageFields, LegacyPage
    <3>3. s \in Seq(Entry) /\ Ascending(s) /\ Range(s) = Range(page.entries)
      BY <3>2, SortedKeeps
    <3>4. Unique(Range(s))
      BY <3>2, <3>3, NumberedUnique
    <3>5. /\ NextAfter(page.entries) \in Nat
          /\ \A e \in Range(s) : e.sequence < NextAfter(page.entries)
      BY <3>2, <3>3, NextAfterRule
    <3> HIDE DEF s
    <3>6. Held(BulkLoad(s, page.order), page.order, NextAfter(page.entries))
      BY <3>2, <3>3, <3>4, <3>5, BulkLoadHeld
    <3>7. /\ l.order = page.order /\ l.root = BulkLoad(s, page.order)
          /\ l.generation = page.generation /\ l.nextSequence = NextAfter(page.entries)
      BY <3>1
    <3> HIDE DEF l, page
    <3>8. QED
      BY <2>1, <2>3, <3>6, <3>7 DEF l
  <2>6. QED
    BY <2>4, <2>5
<1>3. QED
  BY <1>1, <1>2

\* The pages are a sequence with generations.
LEMMA PagesType ==
    ASSUME NEW ps, PagesOK(ps)
    PROVE  /\ ps \in Seq(Page)
           /\ Len(ps) \in Nat
           /\ DOMAIN ps = 1..Len(ps)
           /\ \A i \in 1..Len(ps) : ps[i] \in Page /\ ps[i].generation \in Nat
<1>1. ps \in Seq(Page)
  BY DEF PagesOK
<1>2. \A i \in 1..Len(ps) : ps[i] \in Page
  BY <1>1, ElementOfSeq
<1>3. QED
  BY <1>1, <1>2, LenProperties, PageFields

\* A page is written after all others.
LEMMA PersistKeeps ==
    ASSUME NEW ps, PagesOK(ps), NEW g \in Nat,
           \A i \in 1..Len(ps) : ps[i].generation <= g,
           NEW p \in TreePage, PageOK(p), p.generation = g + 1
    PROVE  /\ PagesOK(Append(ps, p))
           /\ Len(Append(ps, p)) = Len(ps) + 1
           /\ \A i \in 1..Len(Append(ps, p)) : Append(ps, p)[i].generation <= g + 1
<1> DEFINE qs == Append(ps, p)
<1>1. /\ ps \in Seq(Page) /\ Len(ps) \in Nat
      /\ \A i \in 1..Len(ps) : ps[i] \in Page /\ ps[i].generation \in Nat
  BY PagesType
<1>2. p \in Page
  BY DEF Page
<1>3. /\ qs \in Seq(Page) /\ Len(qs) = Len(ps) + 1
      /\ \A i \in 1..Len(ps) : qs[i] = ps[i]
      /\ qs[Len(ps) + 1] = p
  BY <1>1, <1>2, AppendProperties
<1> HIDE DEF qs
<1>4. \A i \in 1..Len(qs) : i \in 1..Len(ps) \/ i = Len(ps) + 1
  BY <1>1, <1>3
<1>5. \A i \in 1..Len(qs) : PageOK(qs[i])
  BY <1>3, <1>4 DEF PagesOK
<1>6. \A i \in 1..Len(qs) : qs[i].generation <= g + 1
  <2>1. SUFFICES ASSUME NEW i \in 1..Len(qs) PROVE qs[i].generation <= g + 1
    OBVIOUS
  <2>2. CASE i = Len(ps) + 1
    BY <1>3, <2>2
  <2>3. CASE i \in 1..Len(ps)
    <3>1. ps[i].generation \in Nat /\ ps[i].generation <= g
      BY <1>1, <2>3
    <3>2. QED
      BY <1>3, <2>3, <3>1
  <2>4. QED
    BY <1>4, <2>2, <2>3
<1>7. ASSUME NEW i \in 1..Len(qs), NEW j \in 1..Len(qs), i < j
      PROVE  qs[i].generation < qs[j].generation
  <2>1. i \in 1..Len(ps)
    BY <1>1, <1>3, <1>7
  <2>2. CASE j = Len(ps) + 1
    <3>1. ps[i].generation \in Nat /\ ps[i].generation <= g
      BY <1>1, <2>1
    <3>2. QED
      BY <1>3, <2>1, <2>2, <3>1
  <2>3. CASE j \in 1..Len(ps)
    BY <1>3, <1>7, <2>1, <2>3 DEF PagesOK
  <2>4. QED
    BY <1>4, <2>2, <2>3
<1>8. PagesOK(qs)
  BY <1>3, <1>5, <1>7 DEF PagesOK
<1>9. QED
  BY <1>3, <1>6, <1>8 DEF qs

\* A rollback that cuts off pages leaves the others as they are.
LEMMA CutKeeps ==
    ASSUME NEW ps, PagesOK(ps), NEW n \in 0..Len(ps)
    PROVE  /\ PagesOK(SubSeq(ps, 1, n))
           /\ Len(SubSeq(ps, 1, n)) = n
           /\ \A i \in 1..n : SubSeq(ps, 1, n)[i] = ps[i]
<1> DEFINE qs == SubSeq(ps, 1, n)
<1>1. ps \in Seq(Page) /\ Len(ps) \in Nat
  BY PagesType
<1>2. n \in Nat /\ n <= Len(ps)
  BY <1>1
<1>3. qs \in Seq(Page) /\ Len(qs) = n
  BY <1>1, Halves
<1>4. \A i \in 1..n : qs[i] = ps[i]
  <2>1. 1 \in 1..(Len(ps) + 1) /\ n \in 0..Len(ps)
    BY <1>1
  <2>2. \A i \in 1..(n - 1 + 1) : qs[i] = ps[1 + i - 1]
    BY <1>1, <2>1, SubSeqElements
  <2>3. \A i \in 1..n : i \in 1..(n - 1 + 1) /\ 1 + i - 1 = i
    BY <1>2
  <2>4. QED
    BY <2>2, <2>3
<1> HIDE DEF qs
<1>5. \A i \in 1..n : i \in 1..Len(ps)
  BY <1>1, <1>2
<1>6. PagesOK(qs)
  BY <1>3, <1>4, <1>5 DEF PagesOK
<1>7. QED
  BY <1>3, <1>4, <1>6 DEF qs

-----------------------------------------------------------------------------
(* The steps keep the invariant *)

\* The invariant holds for an index that was just opened.
LEMMA InitInv == Init => IInv
<1>1. SUFFICES ASSUME Init PROVE IInv
  OBVIOUS
<1>2. PICK o \in Orders : LET l == Loaded(pages, o)
                          IN /\ order = l.order
                             /\ root = l.root
                             /\ generation = l.generation
                             /\ nextSequence = l.nextSequence
  BY <1>1 DEF Init
<1>3. pages = <<>> \/ \E l \in LegacyPages : pages = <<l>>
  BY <1>1 DEF Init
<1>4. PagesOK(pages) /\ Len(pages) <= 1
  <2>1. CASE pages = <<>>
    <3>1. Len(pages) = 0 /\ pages \in Seq(Page)
      BY <2>1, EmptySeq
    <3>2. QED
      BY <3>1 DEF PagesOK
  <2>2. ASSUME NEW l \in LegacyPages, pages = <<l>>
        PROVE  PagesOK(pages) /\ Len(pages) <= 1
    <3>1. l \in Page /\ PageOK(l)
      BY LegacyPage DEF Page
    <3>2. pages \in Seq(Page) /\ Len(pages) = 1 /\ pages[1] = l
      BY <2>2, <3>1, ShortSequences
    <3>3. \A i \in 1..1 : i = 1
      OBVIOUS
    <3>4. QED
      BY <3>1, <3>2, <3>3 DEF PagesOK
  <2>3. QED
    BY <1>3, <2>1, <2>2
<1>5. /\ Held(root, order, nextSequence) /\ generation \in Nat
      /\ \A i \in 1..Len(pages) : pages[i].generation <= generation
  BY <1>2, <1>4, LoadedIsHeld
<1>6. Len(pages) <= MaxPages
  <2>1. Len(pages) \in Nat
    BY <1>4, PagesType
  <2>2. QED
    BY <1>4, <2>1, MaxPagesAssumption
<1>7. QED
  BY <1>4, <1>5, <1>6 DEF IInv

\* What is to be shown of a change: the rest is _persist.
LEMMA ChangeInv ==
    ASSUME IInv, Persist, Len(pages) < MaxPages, order' = order,
           Held(root', order, nextSequence')
    PROVE  IInv'
<1> DEFINE p == [kind |-> "tree", order |-> order, generation |-> generation + 1,
                 nextSequence |-> nextSequence', root |-> root']
<1>1. /\ generation \in Nat /\ PagesOK(pages) /\ Len(pages) \in Nat
      /\ \A i \in 1..Len(pages) : pages[i].generation <= generation
  BY PagesType DEF IInv
<1>2. generation' = generation + 1 /\ pages' = Append(pages, p)
  BY DEF Persist
<1>3. /\ p.kind = "tree" /\ p.order = order /\ p.generation = generation + 1
      /\ p.nextSequence = nextSequence' /\ p.root = root'
  OBVIOUS
<1>4. p \in TreePage
  <2>1. root' \in AllTrees
    BY HeldIsTree
  <2>2. order \in Orders /\ nextSequence' \in Nat
    BY DEF Held
  <2>3. generation + 1 \in Nat
    BY <1>1
  <2>4. QED
    BY <2>1, <2>2, <2>3 DEF TreePage
<1>5. PageOK(p)
  BY <1>3 DEF PageOK
<1> HIDE DEF p
<1>6. /\ PagesOK(pages') /\ Len(pages') = Len(pages) + 1
      /\ \A i \in 1..Len(pages') : pages'[i].generation <= generation + 1
  BY <1>1, <1>2, <1>3, <1>4, <1>5, PersistKeeps
<1>7. Len(pages') <= MaxPages
  BY <1>1, <1>6, MaxPagesAssumption
<1>8. generation' \in Nat
  BY <1>1, <1>2
<1>9. QED
  BY <1>2, <1>6, <1>7, <1>8 DEF IInv

\* An insertion keeps the invariant.
LEMMA InsertInv ==
    ASSUME IInv, NEW k \in Keys, NEW p \in Pointers, Insert(k, p)
    PROVE  IInv'
<1> DEFINE e == [key |-> k, pointer |-> p, sequence |-> nextSequence]
           ns == InsertInto(root, e, order)
           m == IF Len(ns) = 1 THEN ns[1] ELSE MakeInternal(ns)
<1>1. /\ root' = m /\ nextSequence' = nextSequence + 1
      /\ Len(pages) < MaxPages /\ Persist /\ order' = order
  BY DEF Insert
<1>2. Held(root, order, nextSequence)
  BY DEF IInv
<1>3. PICK h \in Nat : root \in RightTrees(order)[h]
  BY <1>2 DEF Held
<1>4. /\ order \in Orders /\ nextSequence \in Nat /\ Unique(Contents(root))
      /\ \A f \in Contents(root) : f.sequence < nextSequence
  BY <1>2 DEF Held
<1>5. e \in Entry /\ e.sequence = nextSequence
  BY <1>4 DEF Entry
<1> HIDE DEF e
<1>6. (\E j \in Nat : m \in RightTrees(order)[j]) /\ Contents(m) = Contents(root) \cup {e}
  BY <1>3, <1>4, <1>5, InsertKeepsRight
<1> HIDE DEF m
<1>7. \A f \in Contents(root) : f.sequence \in Nat
  BY <1>2, HeldIsTree, EntryIsRecord
<1>8. Unique(Contents(m))
  <2>1. \A f \in Contents(root) : f.sequence # e.sequence
    BY <1>4, <1>5, <1>7
  <2>2. QED
    BY <1>4, <1>6, <2>1 DEF Unique
<1>9. nextSequence + 1 \in Nat /\ \A f \in Contents(m) : f.sequence < nextSequence + 1
  <2>1. \A f \in Contents(root) : f.sequence < nextSequence + 1
    BY <1>4, <1>7
  <2>2. e.sequence < nextSequence + 1 /\ nextSequence + 1 \in Nat
    BY <1>4, <1>5
  <2>3. QED
    BY <1>6, <2>1, <2>2
<1>10. Held(root', order, nextSequence')
  BY <1>1, <1>4, <1>6, <1>8, <1>9 DEF Held
<1>11. QED
  BY <1>1, <1>10, ChangeInv

\* What a batch makes is a right tree with new numbers.
LEMMA BuiltIsHeld ==
    ASSUME NEW o \in Orders, NEW next \in Nat,
           NEW b \in Seq([key : Keys, pointer : Pointers])
    PROVE  LET es == [i \in DOMAIN b |-> [key |-> b[i].key, pointer |-> b[i].pointer,
                                          sequence |-> next + i - 1]]
           IN /\ Held(BulkLoad(Sorted(es), o), o, next + Len(b))
              /\ es \in Seq(Entry)
              /\ Numbered(es)
<1> DEFINE es == [i \in DOMAIN b |-> [key |-> b[i].key, pointer |-> b[i].pointer,
                                      sequence |-> next + i - 1]]
<1>1. DOMAIN b = 1..Len(b) /\ Len(b) \in Nat
  BY LenProperties
<1>2. \A i \in 1..Len(b) : b[i].key \in Keys /\ b[i].pointer \in Pointers
  <2>1. \A i \in 1..Len(b) : b[i] \in [key : Keys, pointer : Pointers]
    BY ElementOfSeq
  <2>2. QED
    BY <2>1
<1>3. \A i \in 1..Len(b) : es[i].sequence = next + i - 1 /\ next + i - 1 \in Nat
  BY <1>1
<1>4. \A i \in 1..Len(b) : es[i] \in Entry
  <2>1. SUFFICES ASSUME NEW i \in 1..Len(b) PROVE es[i] \in Entry
    OBVIOUS
  <2>2. es[i] = [key |-> b[i].key, pointer |-> b[i].pointer, sequence |-> next + i - 1]
    BY <1>1
  <2> HIDE DEF es
  <2>3. QED
    BY <1>2, <1>3, <2>2 DEF Entry
<1>5. es = [i \in 1..Len(b) |-> es[i]]
  BY <1>1
<1> HIDE DEF es
<1>6. es \in Seq(Entry) /\ Len(es) = Len(b) /\ DOMAIN es = 1..Len(b)
  BY <1>1, <1>4, <1>5, FromMap
<1>7. Numbered(es)
  <2>1. \A i, j \in 1..Len(b) : es[i].sequence = es[j].sequence => i = j
    BY <1>3
  <2>2. QED
    BY <1>6, <2>1 DEF Numbered, IsInjective
<1>8. /\ Sorted(es) \in Seq(Entry) /\ Ascending(Sorted(es))
      /\ Range(Sorted(es)) = Range(es)
  BY <1>6, <1>7, SortedKeeps
<1>9. \A e \in Range(es) : e.sequence < next + Len(b)
  <2>1. \A i \in 1..Len(b) : es[i].sequence < next + Len(b)
    BY <1>1, <1>3
  <2>2. QED
    BY <1>6, <2>1, RangeElement
<1>10. next + Len(b) \in Nat
  BY <1>1
<1>11. Unique(Range(Sorted(es)))
  BY <1>6, <1>7, <1>8, NumberedUnique
<1>12. Held(BulkLoad(Sorted(es), o), o, next + Len(b))
  BY <1>8, <1>9, <1>10, <1>11, BulkLoadHeld
<1>13. QED
  BY <1>6, <1>7, <1>12 DEF es

\* Building an index from a batch keeps the invariant.
LEMMA BuildInv ==
    ASSUME IInv, NEW b \in Batches, Build(b)
    PROVE  IInv'
<1> DEFINE es == [i \in DOMAIN b |-> [key |-> b[i].key, pointer |-> b[i].pointer,
                                      sequence |-> nextSequence + i - 1]]
<1>1. /\ root' = BulkLoad(Sorted(es), order) /\ nextSequence' = nextSequence + Len(b)
      /\ Len(pages) < MaxPages /\ Persist /\ order' = order
  BY DEF Build
<1>2. order \in Orders /\ nextSequence \in Nat
  BY DEF IInv, Held
<1>3. b \in Seq([key : Keys, pointer : Pointers])
  BY BatchesAssumption
<1>4. Held(BulkLoad(Sorted(es), order), order, nextSequence + Len(b))
  BY <1>2, <1>3, BuiltIsHeld
<1> HIDE DEF es
<1>5. Held(root', order, nextSequence')
  BY <1>1, <1>4
<1>6. QED
  BY <1>1, <1>5, ChangeInv

\* What a deletion leaves, loaded in bulk, is a right tree.
LEMMA DeletedIsHeld ==
    ASSUME NEW n, NEW o, NEW next, Held(n, o, next), NEW k, NEW ps
    PROVE  LET w == Walk(DeleteFrom(n, k, ps))
           IN /\ w \in Seq(Entry) /\ Ascending(w)
              /\ Range(w) = Remaining(Contents(n), k, ps)
              /\ Held(BulkLoad(w, o), o, next)
<1> DEFINE d == DeleteFrom(n, k, ps)
           w == Walk(d)
<1>1. PICK h \in Nat : n \in RightTrees(o)[h]
  BY DEF Held
<1>2. /\ o \in Orders /\ next \in Nat /\ Unique(Contents(n))
      /\ \A e \in Contents(n) : e.sequence < next
  BY DEF Held
<1>3. Left(n, d, k, ps, h)
  BY <1>1, <1>2, DeleteKeeps
<1> HIDE DEF d
<1>4. w \in Seq(Entry) /\ Ascending(w) /\ Range(w) = Remaining(Contents(n), k, ps)
  BY <1>3, WalkType DEF Left, Contents
<1> HIDE DEF w
<1>5. Range(w) \subseteq Contents(n)
  BY <1>4 DEF Remaining
<1>6. Unique(Range(w)) /\ \A e \in Range(w) : e.sequence < next
  BY <1>2, <1>5 DEF Unique
<1>7. Held(BulkLoad(w, o), o, next)
  BY <1>2, <1>4, <1>6, BulkLoadHeld
<1>8. QED
  BY <1>4, <1>7 DEF w, d

\* A deletion keeps the invariant.
LEMMA DeleteInv ==
    ASSUME IInv, NEW k, NEW ps, Delete(k, ps)
    PROVE  IInv'
<1> DEFINE w == Walk(DeleteFrom(root, k, ps))
<1>1. /\ root' = BulkLoad(w, order) /\ nextSequence' = nextSequence
      /\ Len(pages) < MaxPages /\ Persist /\ order' = order
  BY DEF Delete
<1>2. Held(root, order, nextSequence)
  BY DEF IInv
<1>3. Held(BulkLoad(w, order), order, nextSequence)
  BY <1>2, DeletedIsHeld
<1> HIDE DEF w
<1>4. QED
  BY <1>1, <1>3, ChangeInv

\* Opening the index again, after a rollback or not, keeps the invariant.
LEMMA ReopenInv ==
    ASSUME IInv, NEW n \in 0..Len(pages), Reopen(n)
    PROVE  IInv'
<1>1. PagesOK(pages) /\ order \in Orders /\ Len(pages) <= MaxPages
  BY DEF IInv, Held
<1>2. PICK o \in Orders : Load(pages', o)
  BY <1>1 DEF Reopen
<1>3. pages' = SubSeq(pages, 1, n)
  BY DEF Reopen
<1>4. PagesOK(pages') /\ Len(pages') = n
  BY <1>1, <1>3, CutKeeps
<1>5. /\ Held(root', order', nextSequence') /\ generation' \in Nat
      /\ \A i \in 1..Len(pages') : pages'[i].generation <= generation'
  <2> DEFINE l == Loaded(pages', o)
  <2>1. /\ order' = l.order /\ root' = l.root /\ generation' = l.generation
        /\ nextSequence' = l.nextSequence
    BY <1>2 DEF Load
  <2>2. /\ Held(l.root, l.order, l.nextSequence) /\ l.generation \in Nat
        /\ \A i \in 1..Len(pages') : pages'[i].generation <= l.generation
    BY <1>4, LoadedIsHeld
  <2> HIDE DEF l
  <2>3. QED
    BY <2>1, <2>2
<1>6. Len(pages') <= MaxPages
  <2>1. Len(pages) \in Nat
    BY <1>1, PagesType
  <2>2. QED
    BY <1>1, <1>4, <2>1, MaxPagesAssumption
<1>7. QED
  BY <1>4, <1>5, <1>6 DEF IInv

\* The inductive invariant.
LEMMA StepInv == IInv /\ [Next]_vars => IInv'
<1>1. SUFFICES ASSUME IInv, [Next]_vars PROVE IInv'
  OBVIOUS
<1>2. ASSUME NEW k \in Keys, NEW p \in Pointers, Insert(k, p) PROVE IInv'
  BY <1>1, <1>2, InsertInv
<1>3. ASSUME NEW k \in Keys, NEW ps \in {{p} : p \in Pointers} \cup {Pointers},
             Delete(k, ps)
      PROVE  IInv'
  BY <1>1, <1>3, DeleteInv
<1>4. ASSUME NEW b \in Batches, Build(b) PROVE IInv'
  BY <1>1, <1>4, BuildInv
<1>5. ASSUME NEW n \in 0..Len(pages), Reopen(n) PROVE IInv'
  BY <1>1, <1>5, ReopenInv
<1>6. CASE UNCHANGED vars
  BY <1>1, <1>6 DEF vars, IInv
<1>7. QED
  BY <1>1, <1>2, <1>3, <1>4, <1>5, <1>6 DEF Next

\* The tree and every tree in the file are right, in every reachable state.
THEOREM InductiveInvariant == Spec => []IInv
<1>1. Init => IInv
  BY InitInv
<1>2. IInv /\ [Next]_vars => IInv'
  BY StepInv
<1>3. QED
  BY <1>1, <1>2, PTL DEF Spec

\* Sequence numbers are unique and all in the past, in every reachable state.
THEOREM TypeCorrect == Spec => []TypeOK
<1>1. IInv => TypeOK
  <2>1. SUFFICES ASSUME IInv PROVE TypeOK
    OBVIOUS
  <2>2. Held(root, order, nextSequence) /\ generation \in Nat /\ Len(pages) <= MaxPages
    BY <2>1 DEF IInv
  <2>3. /\ order \in Orders /\ nextSequence \in Nat /\ Unique(Contents(root))
        /\ \A e \in Contents(root) : e.sequence < nextSequence
    BY <2>2 DEF Held
  <2>4. /\ root \in Tree[Height(root)] /\ Walk(root) \in Seq(Entry)
        /\ Ascending(Walk(root))
    BY <2>2, HeldIsTree
  <2>5. Numbered(Walk(root))
    BY <2>3, <2>4, UniqueNumbered DEF Contents
  <2>6. \A i \in DOMAIN Walk(root) : Walk(root)[i].sequence < nextSequence
    BY <2>3 DEF Contents, Range
  <2>7. Len(pages) \in 0..MaxPages
    <3>1. Len(pages) \in Nat
      BY <2>1, PagesType DEF IInv
    <3>2. QED
      BY <2>2, <3>1, MaxPagesAssumption
  <2>8. QED
    BY <2>2, <2>3, <2>4, <2>5, <2>6, <2>7 DEF TypeOK
<1>2. QED
  BY <1>1, InductiveInvariant, PTL

\* The tree is what assert_btree_invariants of the tests asks for, whatever was
\* inserted, built, deleted, rolled back and opened again.
THEOREM AlwaysWellFormed == Spec => []WellFormed
<1>1. IInv => WellFormed
  BY HeldIsTree DEF IInv, WellFormed
<1>2. QED
  BY <1>1, InductiveInvariant, PTL

-----------------------------------------------------------------------------
(* The pairs of entries *)

\* The pairs of entries, place by place.
LEMMA PairsRule ==
    ASSUME NEW s \in Seq(Entry)
    PROVE  /\ PairsOf[s] = [i \in 1..Len(s) |-> Pair(s[i])]
           /\ PairsOf[s] \in Seq(SI!Pair)
           /\ Len(PairsOf[s]) = Len(s)
           /\ DOMAIN PairsOf[s] = 1..Len(s)
           /\ \A i \in 1..Len(s) : PairsOf[s][i] = Pair(s[i])
<1>1. DOMAIN s = 1..Len(s) /\ Len(s) \in Nat
  BY LenProperties
<1>2. PairsOf[s] = [i \in 1..Len(s) |-> Pair(s[i])]
  BY <1>1 DEF PairsOf
<1> DEFINE t == PairsOf[s]
<1>3. t = [i \in 1..Len(s) |-> t[i]] /\ \A i \in 1..Len(s) : t[i] = Pair(s[i])
  BY <1>2
<1> HIDE DEF t
<1>4. \A i \in 1..Len(s) : t[i] \in SI!Pair
  <2>1. \A i \in 1..Len(s) : s[i] \in Entry
    BY ElementOfSeq
  <2>2. \A i \in 1..Len(s) : Pair(s[i]) \in SI!Pair
    BY <2>1, EntryIsRecord DEF Pair, SI!Pair
  <2>3. QED
    BY <1>3, <2>2
<1>5. t \in Seq(SI!Pair) /\ Len(t) = Len(s) /\ DOMAIN t = 1..Len(s)
  BY <1>1, <1>3, <1>4, FromMap
<1>6. QED
  BY <1>2, <1>3, <1>5 DEF t

\* Sequences of the same length with the same elements.
LEMMA SameSequence ==
    ASSUME NEW S, NEW s \in Seq(S), NEW t \in Seq(S), Len(s) = Len(t),
           \A i \in 1..Len(s) : s[i] = t[i]
    PROVE  s = t
BY SeqEqual

\* The pairs of two sequences one after the other.
LEMMA PairsOfConcat ==
    ASSUME NEW s \in Seq(Entry), NEW t \in Seq(Entry)
    PROVE  PairsOf[s \o t] = PairsOf[s] \o PairsOf[t]
<1> DEFINE st == s \o t
           l == PairsOf[st]
           r == PairsOf[s] \o PairsOf[t]
<1>1. /\ st \in Seq(Entry) /\ Len(st) = Len(s) + Len(t)
      /\ \A i \in 1..Len(st) : st[i] = IF i <= Len(s) THEN s[i] ELSE t[i - Len(s)]
  BY ConcatProperties
<1>2. Len(s) \in Nat /\ Len(t) \in Nat
  BY LenProperties
<1> HIDE DEF st
<1>3. /\ l \in Seq(SI!Pair) /\ Len(l) = Len(st)
      /\ \A i \in 1..Len(st) : l[i] = Pair(st[i])
  BY <1>1, PairsRule
<1> DEFINE a == PairsOf[s]
           b == PairsOf[t]
<1>4. /\ a \in Seq(SI!Pair) /\ Len(a) = Len(s) /\ \A i \in 1..Len(s) : a[i] = Pair(s[i])
      /\ b \in Seq(SI!Pair) /\ Len(b) = Len(t) /\ \A i \in 1..Len(t) : b[i] = Pair(t[i])
  BY PairsRule
<1>5. r = a \o b
  OBVIOUS
<1> HIDE DEF a, b, r
<1>6. /\ r \in Seq(SI!Pair) /\ Len(r) = Len(a) + Len(b)
      /\ \A i \in 1..Len(r) : r[i] = IF i <= Len(a) THEN a[i] ELSE b[i - Len(a)]
  <2>1. a \in Seq(SI!Pair) /\ b \in Seq(SI!Pair)
    BY <1>4
  <2>2. /\ a \o b \in Seq(SI!Pair) /\ Len(a \o b) = Len(a) + Len(b)
        /\ \A i \in 1..Len(a \o b) :
              (a \o b)[i] = IF i <= Len(a) THEN a[i] ELSE b[i - Len(a)]
    BY <2>1, ConcatProperties
  <2>3. QED
    BY <1>5, <2>2
<1>7. Len(l) = Len(r)
  BY <1>1, <1>3, <1>4, <1>6
<1> HIDE DEF l
<1>8. ASSUME NEW i \in 1..Len(l)
      PROVE  l[i] = r[i]
  <2>1. i \in 1..Len(st) /\ i \in 1..Len(r) /\ i \in Nat /\ i <= Len(s) + Len(t)
    BY <1>1, <1>2, <1>3, <1>7
  <2>2. CASE i <= Len(s)
    <3>1. i \in 1..Len(s)
      BY <1>2, <2>1, <2>2
    <3>2. l[i] = Pair(s[i])
      BY <1>1, <1>3, <2>1, <2>2
    <3>3. r[i] = Pair(s[i])
      BY <1>4, <1>6, <2>1, <2>2, <3>1
    <3>4. QED
      BY <3>2, <3>3
  <2>3. CASE ~(i <= Len(s))
    <3>1. i - Len(s) \in 1..Len(t)
      BY <1>2, <2>1, <2>3
    <3>2. l[i] = Pair(t[i - Len(s)])
      BY <1>1, <1>3, <2>1, <2>3
    <3>3. r[i] = Pair(t[i - Len(s)])
      BY <1>4, <1>6, <2>1, <2>3, <3>1
    <3>4. QED
      BY <3>2, <3>3
  <2>4. QED
    BY <2>2, <2>3
<1>9. l = r
  BY <1>3, <1>6, <1>7, <1>8, SameSequence
<1>10. QED
  BY <1>9 DEF l, r, a, b, st

\* The pairs of a part of a sequence.
LEMMA PairsOfSub ==
    ASSUME NEW s \in Seq(Entry), NEW m \in 1..(Len(s) + 1), NEW n \in 0..Len(s)
    PROVE  PairsOf[SubSeq(s, m, n)] = SubSeq(PairsOf[s], m, n)
<1> DEFINE u == SubSeq(s, m, n)
           p == PairsOf[s]
           l == PairsOf[u]
           r == SubSeq(p, m, n)
           k == IF m <= n THEN n - m + 1 ELSE 0
<1>1. m \in Nat /\ n \in Nat /\ Len(s) \in Nat
  BY LenProperties
<1>2. /\ u \in Seq(Entry) /\ Len(u) = k
      /\ \A i \in 1..(n - m + 1) : u[i] = s[m + i - 1]
  BY SubSeqElements
<1>3. /\ p \in Seq(SI!Pair) /\ Len(p) = Len(s)
      /\ \A i \in 1..Len(s) : p[i] = Pair(s[i])
  BY PairsRule
<1> HIDE DEF p
<1>4. /\ r \in Seq(SI!Pair) /\ Len(r) = k
      /\ \A i \in 1..(n - m + 1) : r[i] = p[m + i - 1]
  <2>1. m \in 1..(Len(p) + 1) /\ n \in 0..Len(p)
    BY <1>3
  <2>2. QED
    BY <1>3, <2>1, SubSeqElements
<1> HIDE DEF u, r
<1>5. /\ l \in Seq(SI!Pair) /\ Len(l) = Len(u)
      /\ \A i \in 1..Len(u) : l[i] = Pair(u[i])
  BY <1>2, PairsRule
<1> HIDE DEF l
<1>6. \A i \in 1..Len(l) : l[i] = r[i]
  <2>1. SUFFICES ASSUME NEW i \in 1..Len(l) PROVE l[i] = r[i]
    OBVIOUS
  <2>2. i \in 1..k
    BY <1>2, <1>5
  <2>3. i \in 1..(n - m + 1) /\ m + i - 1 \in 1..Len(s)
    BY <1>1, <2>2
  <2>4. l[i] = Pair(s[m + i - 1])
    BY <1>2, <1>5, <2>3
  <2>5. r[i] = Pair(s[m + i - 1])
    BY <1>3, <1>4, <2>3
  <2>6. QED
    BY <2>4, <2>5
<1>7. l = r
  BY <1>2, <1>4, <1>5, <1>6, SameSequence
<1>8. QED
  BY <1>7 DEF l, r, u, p

\* The pairs of one entry, and of none.
LEMMA PairsOfFew ==
    ASSUME NEW e \in Entry
    PROVE  /\ PairsOf[<<e>>] = <<Pair(e)>>
           /\ PairsOf[<<>>] = <<>>
<1>1. /\ <<e>> \in Seq(Entry) /\ Len(<<e>>) = 1 /\ <<e>>[1] = e
  BY ShortSequences
<1>2. /\ PairsOf[<<e>>] = [i \in 1..Len(<<e>>) |-> Pair(<<e>>[i])]
  BY <1>1, PairsRule
<1>3. 1..1 = {1}
  OBVIOUS
<1>4. PairsOf[<<e>>] = [i \in {1} |-> Pair(e)]
  BY <1>1, <1>2, <1>3
<1>5. PairsOf[<<>>] = <<>>
  <2>1. <<>> \in Seq(Entry)
    BY EmptySeq
  <2>2. PairsOf[<<>>] \in Seq(SI!Pair) /\ Len(PairsOf[<<>>]) = Len(<<>>) /\ Len(<<>>) = 0
    BY <2>1, PairsRule
  <2>3. QED
    BY <2>2, EmptySeq
<1>6. QED
  BY <1>3, <1>4, <1>5

\* The pairs of no entries.
LEMMA PairsOfNothing == PairsOf[<<>>] = <<>>
<1>1. <<>> \in Seq(Entry)
  BY EmptySeq
<1>2. PairsOf[<<>>] \in Seq(SI!Pair) /\ Len(PairsOf[<<>>]) = Len(<<>>) /\ Len(<<>>) = 0
  BY <1>1, PairsRule
<1>3. QED
  BY <1>2, EmptySeq

\* The pairs of a sequence and one entry more.
LEMMA PairsOfAppend ==
    ASSUME NEW s \in Seq(Entry), NEW e \in Entry
    PROVE  PairsOf[Append(s, e)] = Append(PairsOf[s], Pair(e))
<1>1. <<e>> \in Seq(Entry) /\ PairsOf[<<e>>] = <<Pair(e)>>
  BY ShortSequences, PairsOfFew
<1>2. PairsOf[s \o <<e>>] = PairsOf[s] \o PairsOf[<<e>>]
  BY <1>1, PairsOfConcat
<1>3. Append(s, e) = s \o <<e>>
  BY AppendIsConcat
<1> DEFINE t == PairsOf[s]
           x == Pair(e)
<1>4. t \in Seq(SI!Pair) /\ x \in SI!Pair
  <2>1. t \in Seq(SI!Pair)
    BY PairsRule
  <2>2. x \in SI!Pair
    BY EntryIsRecord DEF Pair, SI!Pair
  <2>3. QED
    BY <2>1, <2>2
<1> HIDE DEF t, x
<1>5. Append(t, x) = t \o <<x>>
  BY <1>4, AppendIsConcat
<1>6. QED
  BY <1>1, <1>2, <1>3, <1>5, Zenon DEF t, x

\* A new entry has the largest number, so that it comes after all with its key.
LEMMA InsertedPairs ==
    ASSUME NEW es \in Seq(Entry), Ascending(es), NEW e \in Entry,
           \A f \in Range(es) : f.sequence < e.sequence
    PROVE  PairsOf[Inserted(es, e)] = SI!With(PairsOf[es], Pair(e))
<1> DEFINE p == InsertPosition(es, e)
           s == PairsOf[es]
           x == Pair(e)
           l == SubSeq(es, 1, p - 1)
           r == SubSeq(es, p, Len(es))
           Is(n) == \A i \in DOMAIN s : i <= n <=> s[i].key <= x.key
           q == CHOOSE n \in 0..Len(s) : Is(n)
<1>1. \A f \in Range(es) : f \in Entry /\ f.sequence # e.sequence
  <2>1. \A f \in Range(es) : f \in Entry
    BY RangeOfSeq
  <2>2. QED
    BY <2>1, EntryIsRecord
<1>2. /\ p \in 1..(Len(es) + 1)
      /\ \A i \in 1..Len(es) : IF i < p THEN Precedes(es[i], e) ELSE Precedes(e, es[i])
  BY <1>1, InsertPositionRule
<1> HIDE DEF p
<1>3. Len(es) \in Nat /\ p \in Nat /\ p - 1 \in 0..Len(es) /\ p - 1 \in Nat
  BY <1>2, LenProperties
<1>4. /\ s \in Seq(SI!Pair) /\ Len(s) = Len(es) /\ DOMAIN s = 1..Len(es)
      /\ \A i \in 1..Len(es) : s[i] = Pair(es[i])
  BY PairsRule
<1>5. \A i \in 1..Len(es) : s[i].key = es[i].key /\ x.key = e.key
  <2>1. \A f : Pair(f).key = f.key
    BY DEF Pair
  <2>2. \A i \in 1..Len(es) : s[i].key = Pair(es[i]).key
    BY <1>4
  <2>3. QED
    BY <2>1, <2>2
<1> HIDE DEF s, x
<1>6. Is(p - 1)
  <2>1. SUFFICES ASSUME NEW i \in 1..Len(es)
                 PROVE  i <= p - 1 <=> es[i].key <= e.key
    BY <1>4, <1>5
  <2>2. es[i] \in Range(es) /\ es[i] \in Entry
    BY ElementInRange
  <2>3. /\ es[i].key \in Int /\ e.key \in Int
        /\ es[i].sequence \in Nat /\ e.sequence \in Nat
        /\ es[i].sequence < e.sequence
    BY <2>2, EntryIsRecord
  <2>4. Precedes(es[i], e) <=> es[i].key <= e.key
    BY <2>3 DEF Precedes
  <2>5. Precedes(e, es[i]) <=> ~(es[i].key <= e.key)
    BY <2>3 DEF Precedes
  <2>6. i < p <=> i <= p - 1
    BY <1>3
  <2>7. QED
    BY <1>2, <2>4, <2>5, <2>6
<1>7. \A n \in 0..Len(s) : Is(n) => n = p - 1
  <2>1. SUFFICES ASSUME NEW n \in 0..Len(es), Is(n), n # p - 1 PROVE FALSE
    BY <1>4
  <2>2. n \in Nat /\ (n < p - 1 \/ p - 1 < n)
    BY <1>3, <2>1
  <2>3. CASE n < p - 1
    <3>1. p - 1 \in DOMAIN s /\ p - 1 <= p - 1 /\ ~(p - 1 <= n)
      BY <1>3, <1>4, <2>2, <2>3
    <3>2. QED
      BY <1>6, <2>1, <3>1
  <2>4. CASE p - 1 < n
    <3>1. n \in DOMAIN s /\ n <= n /\ ~(n <= p - 1)
      BY <1>3, <1>4, <2>2, <2>4
    <3>2. QED
      BY <1>6, <2>1, <3>1
  <2>5. QED
    BY <2>2, <2>3, <2>4
<1>8. q = p - 1
  <2>1. p - 1 \in 0..Len(s)
    BY <1>3, <1>4
  <2>2. QED
    BY <1>6, <1>7, <2>1
<1>9. SI!With(s, x) = SubSeq(s, 1, q) \o <<x>> \o SubSeq(s, q + 1, Len(s))
  BY DEF SI!With
<1> HIDE DEF q
<1>10. q + 1 = p
  BY <1>3, <1>8
<1>11. SI!With(s, x) = SubSeq(s, 1, p - 1) \o <<x>> \o SubSeq(s, p, Len(es))
  BY <1>4, <1>8, <1>9, <1>10
<1>12. Inserted(es, e) = l \o <<e>> \o r
  BY DEF Inserted, InsertAt, p
<1>13. l \in Seq(Entry) /\ r \in Seq(Entry)
  <2>1. 1 \in 1..(Len(es) + 1) /\ Len(es) \in 0..Len(es)
    BY <1>3
  <2>2. QED
    BY <1>2, <1>3, <2>1, SubSeqElements
<1>14. PairsOf[l] = SubSeq(s, 1, p - 1) /\ PairsOf[r] = SubSeq(s, p, Len(es))
  <2>1. 1 \in 1..(Len(es) + 1) /\ Len(es) \in 0..Len(es)
    BY <1>3
  <2>2. QED
    BY <1>2, <1>3, <2>1, PairsOfSub DEF s
<1> HIDE DEF l, r
<1> DEFINE le == l \o <<e>>
<1>15. <<e>> \in Seq(Entry) /\ PairsOf[<<e>>] = <<x>>
  BY PairsOfFew, ShortSequences DEF x
<1>16. le \in Seq(Entry) /\ PairsOf[le] = PairsOf[l] \o <<x>>
  <2>1. le \in Seq(Entry)
    BY <1>13, <1>15, ConcatProperties
  <2>2. PairsOf[le] = PairsOf[l] \o PairsOf[<<e>>]
    BY <1>13, <1>15, PairsOfConcat
  <2>3. QED
    BY <1>15, <2>1, <2>2
<1> HIDE DEF le
<1>17. PairsOf[le \o r] = PairsOf[le] \o PairsOf[r]
  BY <1>13, <1>16, PairsOfConcat
<1>18. QED
  BY <1>11, <1>12, <1>14, <1>16, <1>17, Zenon DEF le, s, x

WithoutStep(p, i, x) ==
    IF i = 0 THEN <<>>
    ELSE IF p[1][i].key = p[2] /\ p[1][i].pointer \in p[3] THEN x
    ELSE Append(x, p[1][i])
WithoutRecursion == INSTANCE Recursion WITH Step <- WithoutStep

\* The first i of the pairs, without those meant.
Withouts(s, k, ps, f) ==
    f = [i \in Nat |-> IF i = 0 THEN <<>>
                       ELSE IF s[i].key = k /\ s[i].pointer \in ps THEN f[i - 1]
                       ELSE Append(f[i - 1], s[i])]

\* The abstract deletion goes through the pairs, one at a time.
LEMMA WithoutRule ==
    ASSUME NEW s, NEW k, NEW ps
    PROVE  \E f : Withouts(s, k, ps, f) /\ SI!Without(s, k, ps) = f[Len(s)]
<1>1. \E f : Withouts(s, k, ps, f)
  <2> DEFINE p == <<s, k, ps>>
  <2>1. \A x, y : WithoutStep(p, 0, x) = WithoutStep(p, 0, y)
    BY DEF WithoutStep
  <2>2. \E f : f = [h \in Nat |-> WithoutStep(p, h, f[h - 1])]
    BY <2>1, WithoutRecursion!RecursionExists
  <2>3. p[1] = s /\ p[2] = k /\ p[3] = ps
    OBVIOUS
  <2> HIDE DEF p
  <2>4. QED
    BY <2>2, <2>3 DEF WithoutStep, Withouts
<1> DEFINE F == CHOOSE f : Withouts(s, k, ps, f)
<1>2. Withouts(s, k, ps, F)
  BY <1>1
<1>3. SI!Without(s, k, ps) = F[Len(s)]
  BY DEF SI!Without, Withouts
<1> HIDE DEF F
<1>4. QED
  BY <1>2, <1>3

PairsSortedStep(s, i, x) == IF i = 0 THEN <<>> ELSE SI!With(x, s[i])
PairsSortedRecursion == INSTANCE Recursion WITH Step <- PairsSortedStep

\* The first i of the pairs, put in one after the other.
PairsSorts(s, f) == f = [i \in Nat |-> IF i = 0 THEN <<>> ELSE SI!With(f[i - 1], s[i])]

\* The abstract sorting inserts the pairs, one at a time.
LEMMA PairsSortedRule ==
    ASSUME NEW s
    PROVE  \E f : PairsSorts(s, f) /\ SI!Sorted(s) = f[Len(s)]
<1>1. \E f : PairsSorts(s, f)
  <2>1. \A x, y : PairsSortedStep(s, 0, x) = PairsSortedStep(s, 0, y)
    BY DEF PairsSortedStep
  <2>2. \E f : f = [h \in Nat |-> PairsSortedStep(s, h, f[h - 1])]
    BY <2>1, PairsSortedRecursion!RecursionExists
  <2>3. QED
    BY <2>2 DEF PairsSortedStep, PairsSorts
<1> DEFINE F == CHOOSE f : PairsSorts(s, f)
<1>2. PairsSorts(s, F)
  BY <1>1
<1>3. SI!Sorted(s) = F[Len(s)]
  BY DEF SI!Sorted, PairsSorts
<1> HIDE DEF F
<1>4. QED
  BY <1>2, <1>3

\* What is not meant stays, in its order.
LEMMA RemainingPairs ==
    ASSUME NEW w \in Seq(Entry), Ascending(w), NEW v \in Seq(Entry), Ascending(v),
           NEW k, NEW ps, Range(v) = Remaining(Range(w), k, ps)
    PROVE  PairsOf[v] = SI!Without(PairsOf[w], k, ps)
<1> DEFINE places == {i \in 1..Len(w) : ~Meant(w[i], k, ps)}
           s == PairsOf[w]
<1>1. Len(w) \in Nat /\ DOMAIN w = 1..Len(w)
  BY LenProperties
<1>2. places \subseteq 1..Len(w)
  OBVIOUS
<1>3. /\ s \in Seq(SI!Pair) /\ Len(s) = Len(w)
      /\ \A i \in 1..Len(w) : s[i] = Pair(w[i])
  BY PairsRule
<1> HIDE DEF s
<1>4. OnPlaces(w, places) = v
  <2> DEFINE u == OnPlaces(w, places)
  <2>1. Chain(w, InThisOrder)
    BY AscendingIsChain
  <2>2. u \in Seq(Entry) /\ Range(u) = {w[i] : i \in places}
    <3> HIDE DEF places
    <3>1. QED
      BY <1>2, OnPlacesKeeps
  <2>3. Chain(u, InThisOrder)
    <3> HIDE DEF places
    <3>1. QED
      BY <1>2, <2>1, OnPlacesKeeps
  <2>4. Range(u) = Range(v)
    <3>1. {w[i] : i \in places} = Remaining(Range(w), k, ps)
      BY <1>1 DEF Range, Remaining
    <3>2. QED
      BY <2>2, <3>1
  <2> HIDE DEF u
  <2>5. Ascending(u)
    BY <2>2, <2>3, AscendingIsChain
  <2>6. u = v
    BY <2>2, <2>4, <2>5, AscendingUnique
  <2>7. QED
    BY <2>6 DEF u
<1>5. PICK f : Picks(w, places, f) /\ OnPlaces(w, places) = f[Len(w)]
  BY PlacesRule
<1>6. PICK g : Withouts(s, k, ps, g) /\ SI!Without(s, k, ps) = g[Len(s)]
  BY WithoutRule
<1>7. /\ f[0] = <<>>
      /\ \A i \in Nat : i # 0 => f[i] = IF i \in places THEN Append(f[i - 1], w[i])
                                        ELSE f[i - 1]
  BY <1>5 DEF Picks
<1>8. /\ g[0] = <<>>
      /\ \A i \in Nat : i # 0 => g[i] = IF s[i].key = k /\ s[i].pointer \in ps
                                        THEN g[i - 1] ELSE Append(g[i - 1], s[i])
  BY <1>6 DEF Withouts
<1> DEFINE P(m) == m <= Len(w) => f[m] \in Seq(Entry) /\ PairsOf[f[m]] = g[m]
           T == {m \in Nat : P(m)}
<1>9. 0 \in T
  <2>1. f[0] \in Seq(Entry) /\ PairsOf[f[0]] = g[0]
    BY <1>7, <1>8, PairsOfNothing, EmptySeq
  <2>2. QED
    BY <2>1
<1>10. ASSUME NEW m \in Nat, P(m)
       PROVE  P(m + 1)
  <2>1. SUFFICES ASSUME m + 1 <= Len(w)
                 PROVE  f[m + 1] \in Seq(Entry) /\ PairsOf[f[m + 1]] = g[m + 1]
    OBVIOUS
  <2> DEFINE i == m + 1
  <2>2. i \in Nat /\ i # 0 /\ i - 1 = m /\ i \in 1..Len(w) /\ m <= Len(w)
    BY <1>1, <2>1
  <2> HIDE DEF i
  <2>3. f[m] \in Seq(Entry) /\ PairsOf[f[m]] = g[m]
    BY <1>10, <2>2
  <2>4. w[i] \in Entry /\ s[i] = Pair(w[i])
    BY <1>3, <2>2, ElementOfSeq
  <2>5. s[i].key = w[i].key /\ s[i].pointer = w[i].pointer
    BY <2>4 DEF Pair
  <2>6. f[i] = IF i \in places THEN Append(f[m], w[i]) ELSE f[m]
    BY <1>7, <2>2
  <2>7. g[i] = IF s[i].key = k /\ s[i].pointer \in ps THEN g[m] ELSE Append(g[m], s[i])
    BY <1>8, <2>2
  <2>8. i \in places <=> ~(s[i].key = k /\ s[i].pointer \in ps)
    BY <2>2, <2>5 DEF Meant
  <2> HIDE DEF places
  <2>9. CASE i \in places
    <3>1. f[i] = Append(f[m], w[i]) /\ g[i] = Append(g[m], s[i])
      BY <2>6, <2>7, <2>8, <2>9
    <3>2. Append(f[m], w[i]) \in Seq(Entry)
      BY <2>3, <2>4, AppendProperties
    <3>3. PairsOf[Append(f[m], w[i])] = Append(PairsOf[f[m]], Pair(w[i]))
      BY <2>3, <2>4, PairsOfAppend
    <3>4. QED
      BY <2>3, <2>4, <3>1, <3>2, <3>3 DEF i
  <2>10. CASE i \notin places
    <3>1. f[i] = f[m] /\ g[i] = g[m]
      BY <2>6, <2>7, <2>8, <2>10
    <3>2. QED
      BY <2>3, <3>1 DEF i
  <2>11. QED
    BY <2>9, <2>10
<1>11. Nat \subseteq T
  <2> HIDE DEF P
  <2>1. \A m \in Nat : m \in T => m + 1 \in T
    BY <1>10
  <2> HIDE DEF T
  <2>2. QED
    BY <1>9, <2>1, TreeRecursion!Induction
<1>12. P(Len(w))
  BY <1>1, <1>11
<1>13. PairsOf[f[Len(w)]] = g[Len(w)]
  BY <1>1, <1>12
<1>14. PairsOf[v] = SI!Without(s, k, ps)
  BY <1>3, <1>4, <1>5, <1>6, <1>13
<1>15. QED
  BY <1>14 DEF s

\* Pairs that are put in one after the other come as those of sorted entries.
LEMMA SortedPairs ==
    ASSUME NEW b \in Seq([key : Keys, pointer : Pointers]), NEW es \in Seq(Entry),
           Len(es) = Len(b), \A i \in 1..Len(es) : Pair(es[i]) = b[i],
           \A i, j \in 1..Len(es) : i < j => es[i].sequence < es[j].sequence
    PROVE  PairsOf[Sorted(es)] = SI!Sorted(b)
<1>1. Len(es) \in Nat /\ DOMAIN es = 1..Len(es) /\ \A i \in 1..Len(es) : es[i] \in Entry
  BY LenProperties, ElementOfSeq
<1>2. PICK f : Sorts(es, f) /\ Sorted(es) = f[Len(es)]
  BY SortedRule
<1>3. PICK g : PairsSorts(b, g) /\ SI!Sorted(b) = g[Len(b)]
  BY PairsSortedRule
<1>4. f[0] = <<>> /\ \A i \in Nat : i # 0 => f[i] = Inserted(f[i - 1], es[i])
  BY <1>2 DEF Sorts
<1>5. g[0] = <<>> /\ \A i \in Nat : i # 0 => g[i] = SI!With(g[i - 1], b[i])
  BY <1>3 DEF PairsSorts
<1> DEFINE Good(m, u, v) == /\ u \in Seq(Entry) /\ Ascending(u)
                            /\ Range(u) = {es[i] : i \in 1..m}
                            /\ PairsOf[u] = v
           P(m) == m <= Len(es) => Good(m, f[m], g[m])
           T == {m \in Nat : P(m)}
<1>6. 0 \in T
  <2>1. <<>> \in Seq(Entry) /\ Ascending(<<>>) /\ Range(<<>>) = {}
    <3>1. Ascending(<<>>)
      BY DEF Ascending
    <3>2. QED
      BY <3>1, EmptySeq, SingleChain
  <2>2. {es[i] : i \in 1..0} = {}
    OBVIOUS
  <2>3. Good(0, f[0], g[0])
    BY <1>4, <1>5, <2>1, <2>2, PairsOfNothing
  <2> HIDE DEF Good
  <2>4. QED
    BY <2>3
<1>7. ASSUME NEW m \in Nat, P(m)
      PROVE  P(m + 1)
  <2>1. SUFFICES ASSUME m + 1 <= Len(es)
                 PROVE  Good(m + 1, f[m + 1], g[m + 1])
    OBVIOUS
  <2> DEFINE i == m + 1
             u == f[m]
             e == es[i]
  <2>2. i \in Nat /\ i # 0 /\ i - 1 = m /\ i \in 1..Len(es) /\ m <= Len(es)
    BY <1>1, <2>1
  <2>3. Good(m, u, g[m])
    BY <1>7, <2>2
  <2> HIDE DEF i
  <2>4. f[i] = Inserted(u, e) /\ g[i] = SI!With(g[m], b[i])
    BY <1>4, <1>5, <2>2
  <2> HIDE DEF u
  <2>5. /\ u \in Seq(Entry) /\ Ascending(u)
        /\ Range(u) = {es[j] : j \in 1..m} /\ PairsOf[u] = g[m]
    BY <2>3
  <2>6. e \in Entry /\ Pair(e) = b[i]
    BY <1>1, <2>2
  <2>7. \A h \in Range(u) : h.sequence < e.sequence
    <3>1. \A j \in 1..m : j \in 1..Len(es) /\ j < i
      BY <1>1, <2>2
    <3>2. \A j \in 1..m : es[j].sequence < e.sequence
      BY <2>2, <3>1
    <3>3. QED
      BY <2>5, <3>2
  <2>8. \A h \in Range(u) : h.sequence # e.sequence
    <3>1. \A h \in Range(u) : h \in Entry
      BY <2>5, RangeOfSeq
    <3>2. QED
      BY <2>6, <2>7, <3>1, EntryIsRecord
  <2> HIDE DEF e
  <2>9. /\ Inserted(u, e) \in Seq(Entry) /\ Ascending(Inserted(u, e))
        /\ Range(Inserted(u, e)) = Range(u) \cup {e}
    BY <2>5, <2>6, <2>8, InsertedKeeps
  <2>10. PairsOf[Inserted(u, e)] = SI!With(g[m], b[i])
    <3>1. PairsOf[Inserted(u, e)] = SI!With(PairsOf[u], Pair(e))
      BY <2>5, <2>6, <2>7, InsertedPairs
    <3>2. QED
      BY <2>5, <2>6, <3>1
  <2>11. Range(u) \cup {e} = {es[j] : j \in 1..i}
    <3>1. \A j : j \in 1..i <=> j \in 1..m \/ j = i
      BY <2>2
    <3>2. QED
      BY <2>5, <3>1 DEF e
  <2>12. Good(i, f[i], g[i])
    BY <2>4, <2>9, <2>10, <2>11
  <2> HIDE DEF Good
  <2>13. QED
    BY <2>12 DEF i
<1> HIDE DEF Good
<1>8. Nat \subseteq T
  <2>1. \A m \in Nat : m \in T => m + 1 \in T
    BY <1>7
  <2> HIDE DEF T
  <2>2. QED
    BY <1>6, <2>1, TreeRecursion!Induction
<1>9. Good(Len(es), f[Len(es)], g[Len(es)])
  BY <1>1, <1>8
<1>10. PairsOf[f[Len(es)]] = g[Len(es)]
  BY <1>9 DEF Good
<1>11. QED
  BY <1>2, <1>3, <1>10

-----------------------------------------------------------------------------
(* The index implements a sorted index *)

VersionsOf(ps) == [i \in DOMAIN ps |-> PairsIn(LatestPage(SubSeq(ps, 1, i)))]

\* The latest of the first i pages is page i: generations ascend.
LEMMA VersionsRule ==
    ASSUME NEW ps, PagesOK(ps)
    PROVE  /\ VersionsOf(ps) = [i \in 1..Len(ps) |-> PairsIn(ps[i])]
           /\ VersionsOf(ps) \in Seq(Range(VersionsOf(ps)))
           /\ Len(VersionsOf(ps)) = Len(ps)
           /\ \A i \in 1..Len(ps) : VersionsOf(ps)[i] = PairsIn(ps[i])
<1>1. Len(ps) \in Nat /\ DOMAIN ps = 1..Len(ps)
  BY PagesType
<1>2. ASSUME NEW i \in 1..Len(ps)
      PROVE  LatestPage(SubSeq(ps, 1, i)) = ps[i]
  <2> DEFINE qs == SubSeq(ps, 1, i)
  <2>1. i \in 0..Len(ps) /\ i \in 1..i
    BY <1>1
  <2>2. PagesOK(qs) /\ Len(qs) = i /\ qs[i] = ps[i]
    BY <2>1, CutKeeps
  <2> HIDE DEF qs
  <2>3. qs # <<>>
    BY <2>1, <2>2
  <2>4. LatestPage(qs) = qs[i]
    BY <2>2, <2>3, LatestIsLast
  <2>5. QED
    BY <2>2, <2>4 DEF qs
<1> DEFINE v == VersionsOf(ps)
<1>3. /\ v = [i \in 1..Len(ps) |-> PairsIn(ps[i])]
      /\ v = [i \in 1..Len(ps) |-> v[i]]
      /\ \A i \in 1..Len(ps) : v[i] = PairsIn(ps[i]) /\ v[i] \in Range(v)
  BY <1>1, <1>2 DEF VersionsOf, Range
<1> HIDE DEF v
<1>4. v \in Seq(Range(v)) /\ Len(v) = Len(ps)
  BY <1>1, <1>3, FromMap
<1>5. QED
  BY <1>3, <1>4 DEF v

\* A page that is written is a new version.
LEMMA VersionsOfAppend ==
    ASSUME NEW ps, NEW p, PagesOK(ps), PagesOK(Append(ps, p))
    PROVE  VersionsOf(Append(ps, p)) = Append(VersionsOf(ps), PairsIn(p))
<1> DEFINE qs == Append(ps, p)
           v == VersionsOf(ps)
           x == PairsIn(p)
           l == VersionsOf(qs)
           r == Append(v, x)
           S == Range(v) \cup {x}
<1>1. Len(ps) \in Nat /\ ps \in Seq(Page)
  BY PagesType
<1>2. /\ Len(qs) = Len(ps) + 1
      /\ \A i \in 1..Len(ps) : qs[i] = ps[i]
      /\ qs[Len(ps) + 1] = p
  BY <1>1
<1> HIDE DEF qs
<1>3. /\ Len(l) = Len(qs)
      /\ \A i \in 1..Len(qs) : l[i] = PairsIn(qs[i])
      /\ l \in Seq(Range(l))
  BY VersionsRule DEF qs
<1>4. /\ Len(v) = Len(ps)
      /\ \A i \in 1..Len(ps) : v[i] = PairsIn(ps[i])
      /\ v \in Seq(Range(v))
  BY VersionsRule
<1> HIDE DEF l, v
<1>5. v \in Seq(S) /\ x \in S
  BY <1>4, SeqMonotonic
<1> HIDE DEF x, S
<1>6. /\ r \in Seq(S) /\ Len(r) = Len(v) + 1
      /\ \A i \in 1..Len(v) : r[i] = v[i]
      /\ r[Len(v) + 1] = x
  BY <1>5, AppendProperties
<1> HIDE DEF r
<1>7. ASSUME NEW i \in 1..Len(l)
      PROVE  l[i] = r[i]
  <2>1. i \in 1..Len(ps) \/ i = Len(ps) + 1
    BY <1>1, <1>2, <1>3, <1>7
  <2>2. i \in 1..Len(qs)
    BY <1>3
  <2>3. CASE i \in 1..Len(ps)
    BY <1>2, <1>3, <1>4, <1>6, <2>2, <2>3
  <2>4. CASE i = Len(ps) + 1
    BY <1>2, <1>3, <1>4, <1>6, <2>2, <2>4 DEF x
  <2>5. QED
    BY <2>1, <2>3, <2>4
<1>8. Len(l) = Len(r)
  BY <1>2, <1>3, <1>4, <1>6
<1>9. l = r
  <2>1. l = [i \in 1..Len(l) |-> l[i]] /\ r = [i \in 1..Len(r) |-> r[i]]
    BY <1>3, <1>6
  <2>2. QED
    BY <1>7, <1>8, <2>1
<1>10. QED
  BY <1>9 DEF l, r, v, x, qs

\* A rollback that cuts off pages cuts off versions.
LEMMA VersionsOfCut ==
    ASSUME NEW ps, PagesOK(ps), NEW n \in 0..Len(ps)
    PROVE  VersionsOf(SubSeq(ps, 1, n)) = SubSeq(VersionsOf(ps), 1, n)
<1> DEFINE qs == SubSeq(ps, 1, n)
           v == VersionsOf(ps)
           l == VersionsOf(qs)
           r == SubSeq(v, 1, n)
<1>1. n \in Nat /\ n <= Len(ps) /\ Len(ps) \in Nat
  BY PagesType
<1>2. PagesOK(qs) /\ Len(qs) = n /\ \A i \in 1..n : qs[i] = ps[i]
  BY CutKeeps
<1> HIDE DEF qs
<1>3. l = [i \in 1..n |-> PairsIn(qs[i])] /\ \A i \in 1..n : l[i] = PairsIn(qs[i])
  BY <1>2, VersionsRule
<1>4. /\ Len(v) = Len(ps) /\ v \in Seq(Range(v))
      /\ \A i \in 1..Len(ps) : v[i] = PairsIn(ps[i])
  BY VersionsRule
<1> HIDE DEF v
<1>5. r \in Seq(Range(v)) /\ Len(r) = n /\ \A i \in 1..n : r[i] = v[i]
  <2>1. n \in 0..Len(v) /\ 1 \in 1..(Len(v) + 1)
    BY <1>1, <1>4
  <2>2. r \in Seq(Range(v)) /\ Len(r) = n
    BY <1>4, <2>1, Halves
  <2>3. \A i \in 1..(n - 1 + 1) : r[i] = v[1 + i - 1]
    BY <1>4, <2>1, SubSeqElements
  <2>4. \A i \in 1..n : i \in 1..(n - 1 + 1) /\ 1 + i - 1 = i
    BY <1>1
  <2>5. QED
    BY <2>2, <2>3, <2>4
<1> HIDE DEF r
<1>6. r = [i \in 1..n |-> r[i]]
  BY <1>5
<1>7. \A i \in 1..n : r[i] = PairsIn(qs[i])
  <2>1. \A i \in 1..n : i \in 1..Len(ps)
    BY <1>1
  <2>2. QED
    BY <1>2, <1>4, <1>5, <2>1
<1>8. l = r
  BY <1>3, <1>6, <1>7
<1>9. QED
  BY <1>8 DEF l, r, v, qs

\* Opening the index finds the last version.
LEMMA OpenedIsLatest ==
    ASSUME NEW ps, PagesOK(ps), NEW o \in Orders
    PROVE  PairsOf[Walk(Loaded(ps, o).root)] = SI!Latest(VersionsOf(ps))
<1> DEFINE v == VersionsOf(ps)
           page == ps[Len(ps)]
<1>1. /\ Len(v) = Len(ps) /\ v \in Seq(Range(v)) /\ Len(ps) \in Nat
      /\ \A i \in 1..Len(ps) : v[i] = PairsIn(ps[i])
      /\ ps \in Seq(Page)
  BY VersionsRule, PagesType
<1> HIDE DEF v
<1>2. CASE ps = <<>>
  <2>1. Loaded(ps, o).root = Empty
    BY <1>2 DEF Loaded
  <2>2. Walk(Empty) = <<>>
    <3>1. 1 \in Nat /\ 1 >= 1
      OBVIOUS
    <3>2. QED
      BY <3>1, EmptyIsTree
  <2>3. v = <<>>
    <3>1. Len(v) = 0
      BY <1>1, <1>2
    <3>2. QED
      BY <1>1, <3>1, EmptySeq
  <2>4. SI!Latest(v) = <<>>
    BY <2>3 DEF SI!Latest
  <2>5. QED
    BY <2>1, <2>2, <2>4, PairsOfNothing DEF v
<1>3. CASE ps # <<>>
  <2>1. Len(ps) \in 1..Len(ps) /\ LatestPage(ps) = page /\ page \in Page
    BY <1>3, LatestIsLast
  <2>2. SI!Latest(v) = PairsIn(page)
    <3>1. v # <<>>
      <4>1. Len(v) # 0
        BY <1>1, <2>1
      <4>2. QED
        BY <4>1
    <3>2. QED
      BY <1>1, <2>1, <3>1 DEF SI!Latest
  <2>3. Loaded(ps, o).root = IF page.kind = "tree" THEN page.root
                             ELSE BulkLoad(Sorted(page.entries), page.order)
    BY <1>3, <2>1 DEF Loaded
  <2>4. CASE page.kind = "tree"
    BY <2>2, <2>3, <2>4 DEF PairsIn, v
  <2>5. CASE page.kind # "tree"
    <3>1. page.order \in Orders /\ page.entries \in Seq(Entry) /\ Numbered(page.entries)
      BY <2>1, <2>5, PageFields, LegacyPage
    <3>2. Sorted(page.entries) \in Seq(Entry) /\ Ascending(Sorted(page.entries))
      BY <3>1, SortedKeeps
    <3>3. Walk(BulkLoad(Sorted(page.entries), page.order)) = Sorted(page.entries)
      BY <3>1, <3>2, BulkLoadKeeps
    <3>4. QED
      BY <2>2, <2>3, <2>5, <3>3 DEF PairsIn, v
  <2>6. QED
    BY <2>4, <2>5
<1>4. QED
  BY <1>2, <1>3

\* A change writes what the index holds after it.
LEMMA ChangeRefines ==
    ASSUME IInv, IInv', Persist
    PROVE  SI!Change(PairsOf[Walk(root')])
<1> DEFINE p == [kind |-> "tree", order |-> order, generation |-> generation + 1,
                 nextSequence |-> nextSequence', root |-> root']
<1>1. pages' = Append(pages, p) /\ PagesOK(pages) /\ PagesOK(pages')
  BY DEF IInv, Persist
<1>2. PairsIn(p) = PairsOf[Walk(root')]
  BY DEF PairsIn
<1> HIDE DEF p
<1>3. VersionsOf(pages') = Append(VersionsOf(pages), PairsOf[Walk(root')])
  BY <1>1, <1>2, VersionsOfAppend
<1>4. QED
  BY <1>3 DEF SI!Change, VersionsOf

\* An insertion into the tree is one into the sorted pairs.
LEMMA InsertRefines ==
    ASSUME IInv, IInv', NEW k \in Keys, NEW p \in Pointers, Insert(k, p)
    PROVE  SI!Insert(k, p)
<1> DEFINE e == [key |-> k, pointer |-> p, sequence |-> nextSequence]
           ns == InsertInto(root, e, order)
           m == IF Len(ns) = 1 THEN ns[1] ELSE MakeInternal(ns)
<1>1. root' = m /\ Persist
  BY DEF Insert
<1>2. Held(root, order, nextSequence) /\ Held(root', order', nextSequence')
  BY DEF IInv
<1>3. PICK h \in Nat : root \in RightTrees(order)[h]
  BY <1>2 DEF Held
<1>4. /\ order \in Orders /\ nextSequence \in Nat
      /\ \A f \in Contents(root) : f.sequence < nextSequence
  BY <1>2 DEF Held
<1>5. e \in Entry /\ e.sequence = nextSequence /\ Pair(e) = [key |-> k, pointer |-> p]
  BY <1>4 DEF Entry, Pair
<1> HIDE DEF e
<1>6. Contents(m) = Contents(root) \cup {e}
  BY <1>3, <1>4, <1>5, InsertKeepsRight
<1> HIDE DEF m
<1> DEFINE w == Walk(root)
           v == Walk(m)
<1>7. w \in Seq(Entry) /\ Ascending(w) /\ v \in Seq(Entry) /\ Ascending(v)
  BY <1>1, <1>2, HeldIsTree
<1>8. Range(v) = Range(w) \cup {e} /\ \A f \in Range(w) : f.sequence < e.sequence
  BY <1>4, <1>5, <1>6 DEF Contents
<1> HIDE DEF w, v
<1>9. \A f \in Range(w) : f.sequence # e.sequence
  <2>1. \A f \in Range(w) : f \in Entry
    BY <1>7, RangeOfSeq
  <2>2. QED
    BY <1>5, <1>8, <2>1, EntryIsRecord
<1>10. /\ Inserted(w, e) \in Seq(Entry) /\ Ascending(Inserted(w, e))
       /\ Range(Inserted(w, e)) = Range(w) \cup {e}
  BY <1>5, <1>7, <1>9, InsertedKeeps
<1>11. v = Inserted(w, e)
  BY <1>7, <1>8, <1>10, AscendingUnique
<1>12. PairsOf[v] = SI!With(PairsOf[w], [key |-> k, pointer |-> p])
  <2>1. PairsOf[Inserted(w, e)] = SI!With(PairsOf[w], Pair(e))
    BY <1>5, <1>7, <1>8, InsertedPairs
  <2>2. QED
    BY <1>5, <1>11, <2>1
<1>13. SI!Change(PairsOf[v])
  BY <1>1, ChangeRefines DEF v
<1>14. QED
  BY <1>12, <1>13 DEF SI!Insert, w

\* A deletion from the tree is one from the sorted pairs.
LEMMA DeleteRefines ==
    ASSUME IInv, IInv', NEW k, NEW ps, Delete(k, ps)
    PROVE  SI!Delete(k, ps)
<1> DEFINE w == Walk(root)
           v == Walk(DeleteFrom(root, k, ps))
<1>1. root' = BulkLoad(v, order) /\ Persist
  BY DEF Delete
<1>2. Held(root, order, nextSequence) /\ order \in Orders
  BY DEF IInv, Held
<1>3. v \in Seq(Entry) /\ Ascending(v) /\ Range(v) = Remaining(Contents(root), k, ps)
  BY <1>2, DeletedIsHeld
<1>4. w \in Seq(Entry) /\ Ascending(w) /\ Contents(root) = Range(w)
  BY <1>2, HeldIsTree DEF Contents
<1> HIDE DEF w, v
<1>5. Walk(root') = v
  BY <1>1, <1>2, <1>3, BulkLoadKeeps
<1>6. PairsOf[v] = SI!Without(PairsOf[w], k, ps)
  BY <1>3, <1>4, RemainingPairs
<1>7. SI!Change(PairsOf[v])
  BY <1>1, <1>5, ChangeRefines
<1>8. QED
  BY <1>6, <1>7 DEF SI!Delete, w

\* Building the tree from a batch is sorting its pairs.
LEMMA BuildRefines ==
    ASSUME IInv, IInv', NEW b \in Batches, Build(b)
    PROVE  \E s \in SI!Contents : SI!Build(s)
<1> DEFINE es == [i \in DOMAIN b |-> [key |-> b[i].key, pointer |-> b[i].pointer,
                                      sequence |-> nextSequence + i - 1]]
<1>1. root' = BulkLoad(Sorted(es), order) /\ Persist
  BY DEF Build
<1>2. order \in Orders /\ nextSequence \in Nat
  BY DEF IInv, Held
<1>3. /\ b \in Seq([key : Keys, pointer : Pointers])
      /\ Len(b) \in Nat /\ DOMAIN b = 1..Len(b)
  BY BatchesAssumption, LenProperties
<1>4. es \in Seq(Entry) /\ Numbered(es)
  BY <1>2, <1>3, BuiltIsHeld
<1>5. Len(es) = Len(b)
  BY <1>3
<1>6. \A i \in 1..Len(es) : Pair(es[i]) = b[i]
  <2>1. SUFFICES ASSUME NEW i \in 1..Len(b) PROVE Pair(es[i]) = b[i]
    BY <1>5
  <2>2. b[i] \in [key : Keys, pointer : Pointers]
    BY <1>3, ElementOfSeq
  <2>3. es[i].key = b[i].key /\ es[i].pointer = b[i].pointer
    BY <1>3
  <2> HIDE DEF es
  <2>4. b[i] = [key |-> b[i].key, pointer |-> b[i].pointer]
    BY <2>2
  <2>5. QED
    BY <2>3, <2>4 DEF Pair
<1>7. \A i, j \in 1..Len(es) : i < j => es[i].sequence < es[j].sequence
  <2>1. \A i \in 1..Len(b) : es[i].sequence = nextSequence + i - 1
    BY <1>3
  <2> HIDE DEF es
  <2>2. SUFFICES ASSUME NEW i \in 1..Len(b), NEW j \in 1..Len(b), i < j
                 PROVE  es[i].sequence < es[j].sequence
    BY <1>5
  <2>3. \A a, c, m \in Nat : a < c => m + a - 1 < m + c - 1
    OBVIOUS
  <2>4. i \in Nat /\ j \in Nat /\ nextSequence \in Nat
    BY <1>2, <1>3
  <2>5. nextSequence + i - 1 < nextSequence + j - 1
    BY <2>2, <2>3, <2>4
  <2>6. es[i].sequence = nextSequence + i - 1 /\ es[j].sequence = nextSequence + j - 1
    BY <2>1
  <2>7. QED
    BY <2>5, <2>6
<1> HIDE DEF es
<1>8. Sorted(es) \in Seq(Entry) /\ Ascending(Sorted(es))
  BY <1>4, SortedKeeps
<1>9. Walk(root') = Sorted(es)
  BY <1>1, <1>2, <1>8, BulkLoadKeeps
<1>10. PairsOf[Sorted(es)] = SI!Sorted(b)
  BY <1>3, <1>4, <1>5, <1>6, <1>7, SortedPairs
<1>11. SI!Change(PairsOf[Walk(root')])
  BY <1>1, ChangeRefines
<1>12. SI!Change(SI!Sorted(b))
  BY <1>9, <1>10, <1>11
<1>13. SI!Sorted(b) \in SI!Contents
  BY DEF SI!Contents
<1>14. QED
  BY <1>12, <1>13 DEF SI!Build

\* Opening the index again is going back to a version.
LEMMA ReopenRefines ==
    ASSUME IInv, NEW n \in 0..Len(pages), Reopen(n)
    PROVE  /\ n \in 0..Len(VersionsOf(pages))
           /\ SI!GoBack(n)
<1>1. PagesOK(pages) /\ order \in Orders
  BY DEF IInv, Held
<1>2. PICK o \in Orders : Load(pages', o)
  BY <1>1 DEF Reopen
<1>3. pages' = SubSeq(pages, 1, n) /\ root' = Loaded(pages', o).root
  BY <1>2 DEF Reopen, Load
<1>4. PagesOK(pages')
  BY <1>1, <1>3, CutKeeps
<1>5. VersionsOf(pages') = SubSeq(VersionsOf(pages), 1, n)
  BY <1>1, <1>3, VersionsOfCut
<1>6. PairsOf[Walk(root')] = SI!Latest(VersionsOf(pages'))
  BY <1>3, <1>4, OpenedIsLatest
<1>7. SI!GoBack(n)
  BY <1>5, <1>6 DEF SI!GoBack, VersionsOf
<1>8. Len(VersionsOf(pages)) = Len(pages)
  BY <1>1, VersionsRule
<1>9. QED
  BY <1>7, <1>8

\* An index that was just opened is a sorted index.
LEMMA InitRefines == Init => SI!Init
<1>1. SUFFICES ASSUME Init PROVE SI!Init
  OBVIOUS
<1>2. PICK o \in Orders : root = Loaded(pages, o).root
  BY <1>1 DEF Init
<1>3. PagesOK(pages)
  BY <1>1, InitInv DEF IInv
<1>4. PairsOf[Walk(root)] = SI!Latest(VersionsOf(pages))
  BY <1>2, <1>3, OpenedIsLatest
<1>5. VersionsOf(pages) = [i \in 1..Len(pages) |-> PairsIn(pages[i])]
  BY <1>3, VersionsRule
<1>6. VersionsOf(pages) \in {<<>>} \cup {<<s>> : s \in {PairsIn(l) : l \in LegacyPages}}
  <2>1. CASE pages = <<>>
    <3>1. Len(pages) = 0
      BY <2>1
    <3>2. VersionsOf(pages) = <<>>
      BY <1>3, <3>1, VersionsRule, EmptySeq
    <3>3. QED
      BY <3>2
  <2>2. ASSUME NEW l \in LegacyPages, pages = <<l>>
        PROVE  VersionsOf(pages) = <<PairsIn(l)>>
    <3>1. Len(pages) = 1 /\ pages[1] = l /\ 1..1 = {1}
      BY <2>2
    <3>2. \A i \in 1..1 : pages[i] = l
      BY <3>1
    <3>3. VersionsOf(pages) = [i \in 1..1 |-> PairsIn(l)]
      BY <1>5, <3>1, <3>2
    <3>4. QED
      BY <3>3
  <2>3. pages = <<>> \/ \E l \in LegacyPages : pages = <<l>>
    BY <1>1 DEF Init
  <2>4. QED
    BY <2>1, <2>2, <2>3
<1>7. QED
  BY <1>4, <1>6 DEF SI!Init, VersionsOf

\* Every step of the index is a step of a sorted index.
LEMMA StepRefines == IInv /\ IInv' /\ [Next]_vars => [SI!Next]_(SI!vars)
<1>1. SUFFICES ASSUME IInv, IInv', [Next]_vars PROVE [SI!Next]_(SI!vars)
  OBVIOUS
<1>2. ASSUME NEW k \in Keys, NEW p \in Pointers, Insert(k, p) PROVE SI!Next
  <2>1. SI!Insert(k, p)
    BY <1>1, <1>2, InsertRefines
  <2>2. QED
    BY <2>1 DEF SI!Next
<1>3. ASSUME NEW k \in Keys, NEW ps \in {{p} : p \in Pointers} \cup {Pointers},
             Delete(k, ps)
      PROVE  SI!Next
  <2>1. SI!Delete(k, ps)
    BY <1>1, <1>3, DeleteRefines
  <2>2. ps \in SUBSET Pointers
    OBVIOUS
  <2>3. QED
    BY <2>1, <2>2 DEF SI!Next
<1>4. ASSUME NEW b \in Batches, Build(b) PROVE SI!Next
  <2>1. \E s \in SI!Contents : SI!Build(s)
    BY <1>1, <1>4, BuildRefines
  <2>2. QED
    BY <2>1 DEF SI!Next
<1>5. ASSUME NEW n \in 0..Len(pages), Reopen(n) PROVE SI!Next
  <2>1. n \in 0..Len(VersionsOf(pages)) /\ SI!GoBack(n)
    BY <1>1, <1>5, ReopenRefines
  <2>2. QED
    BY <2>1 DEF SI!Next, VersionsOf
<1>6. CASE UNCHANGED vars
  BY <1>6 DEF vars, SI!vars
<1>7. QED
  BY <1>1, <1>2, <1>3, <1>4, <1>5, <1>6 DEF Next

\* The tree, split and merged, written and read again, is the sorted list of pairs
\* that a caller of the index sees, and a file with one version after each change.
THEOREM IndexIsSorted == Spec => ImplementsSortedIndex
<1>1. Init => SI!Init
  BY InitRefines
<1>2. IInv /\ IInv' /\ [Next]_vars => [SI!Next]_(SI!vars)
  BY StepRefines
<1>3. QED
  BY <1>1, <1>2, InductiveInvariant, PTL DEF Spec, ImplementsSortedIndex, SI!Spec

===============================================================================
