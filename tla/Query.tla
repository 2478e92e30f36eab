------------------------------- MODULE Query -------------------------------
(***************************************************************************)
(* SELECT, on the tables of module Dml: the rows that a plan gives, their  *)
(* order and pages, groups and aggregates, and joins                       *)
(* (tinydb/executor.py, tinydb/planner.py).                                *)
(*                                                                         *)
(* A row is the page that it is on.  A joined row is the sequence of the   *)
(* rows of its sources; columns of a join are pairs of the position of a   *)
(* source, which is what an alias stands for, and a column of its table.   *)
(* SELECT changes nothing here (Transactions has the header that it may    *)
(* write).                                                                 *)
(***************************************************************************)
EXTENDS Dml, SequencesExt

CONSTANTS
    Orderings,  \* ORDER BY clauses: sequences of columns with a direction
    Groupings,  \* GROUP BY clauses: sequences of columns
    Joins       \* joins: sequences of sources and of predicates

ASSUME OrderingsAssumption ==
    Orderings \subseteq Seq([column : Columns, descending : BOOLEAN])
ASSUME JoinsAssumption == \A j \in Joins :
    /\ j.sources \in Seq(Tables)
    /\ \A i \in DOMAIN j.predicates :
        {j.predicates[i].left[1], j.predicates[i].right[1]} \subseteq DOMAIN j.sources

\* The elements of a set in the order of the pairs in less.
Sorted(S, less) ==
    LET Rank(x) == 1 + Cardinality({y \in S : <<y, x>> \in less})
    IN [r \in 1..Cardinality(S) |-> CHOOSE x \in S : Rank(x) = r]

\* Numbers by size: records in the order of the header are in that of their pages.
InOrder(S) == Sorted(S, {x \in S \X S : x[1] < x[2]})

\* Pairs of numbers in the order in which two loops, one in the other, meet them.
InNestedOrder(S) ==
    Sorted(S, {x \in S \X S : \/ x[1][1] < x[2][1]
                              \/ x[1][1] = x[2][1] /\ x[1][2] < x[2][2]})

\* The i-th element of s comes before the j-th when s is sorted: it is less, or
\* neither is and it came first.
Before(s, less, i, j) ==
    <<s[i], s[j]>> \in less \/ (i < j /\ <<s[j], s[i]>> \notin less)

\* list.sort(), which keeps in place what is not less.
StableSort(s, less) ==
    LET order == Sorted(DOMAIN s, {x \in (DOMAIN s) \X (DOMAIN s) :
                                     Before(s, less, x[1], x[2])})
    IN [i \in DOMAIN s |-> s[order[i]]]

-----------------------------------------------------------------------------
(* ORDER BY, LIMIT and OFFSET *)

\* The order of the pairs (value is None, value).
KeyLess(a, b) == a # NULL /\ (b = NULL \/ a < b)

\* Whether p comes before q in a column.
Precedes(p, q, o) ==
    IF o.descending
    THEN KeyLess(pages[q][o.column], pages[p][o.column])
    ELSE KeyLess(pages[p][o.column], pages[q][o.column])

SortBy(rows, o) ==
    StableSort(rows, {x \in ToSet(rows) \X ToSet(rows) : Precedes(x[1], x[2], o)})

\* The rows in the order of the plan: that of the records, or of the keys.
MatchingRows(t, w) ==
    LET rows == InOrder(Matching(t, w))
        key == Lookup(schema[t], w).column
    IN IF Candidates(schema[t], w) = {}
       THEN rows
       ELSE SortBy(rows, [column |-> key, descending |-> FALSE])

\* Mutant: the first column is sorted by first.
ApplyOrderingMutant(rows, os) ==
    LET Pass[k \in 0..Len(os)] ==
            IF k = 0 THEN rows ELSE SortBy(Pass[k - 1], os[k])
    IN Pass[Len(os)]

\* One stable sort for each column, the last column first.
ApplyOrdering(rows, os) ==
    LET Pass[k \in 0..Len(os)] ==
            IF k = 0 THEN rows ELSE SortBy(Pass[k - 1], os[Len(os) + 1 - k])
    IN Pass[Len(os)]

ApplyOffsetLimit(rows, offset, limit) ==
    SubSeq(rows, offset + 1, IF offset + limit < Len(rows) THEN offset + limit
                                                          ELSE Len(rows))

-----------------------------------------------------------------------------
(* GROUP BY and aggregates *)

\* Mutant: rows without a value belong to no group.
GroupKeysMutant(rows, g) ==
    {k \in {[e \in DOMAIN g |-> pages[p][g[e]]] : p \in ToSet(rows)} :
        \A e \in DOMAIN g : k[e] # NULL}

\* One group for each combination of values, NULL being a value.
GroupKeys(rows, g) == {[e \in DOMAIN g |-> pages[p][g[e]]] : p \in ToSet(rows)}

\* The places of the rows of a group.
Group(rows, g, k) == {i \in DOMAIN rows : \A e \in DOMAIN g : pages[rows[i]][g[e]] = k[e]}

\* The sum of two values, of which there may be none.
Plus(a, b) == IF a = NULL THEN b ELSE IF b = NULL THEN a ELSE a + b

Total(s, zero) ==
    LET UpTo[k \in 0..Len(s)] == IF k = 0 THEN zero ELSE Plus(UpTo[k - 1], s[k])
    IN UpTo[Len(s)]

\* COUNT(*), COUNT(c) and SUM(c) of the rows on some places.  There is no sum of no
\* values.
CountAll(places) == Cardinality(places)

Count(rows, places, c) == Cardinality({i \in places : pages[rows[i]][c] # NULL})

SumOf(rows, places, c) ==
    Total([i \in DOMAIN rows |-> IF i \in places THEN pages[rows[i]][c] ELSE NULL], NULL)

-----------------------------------------------------------------------------
(* INNER JOIN *)

ValueIn(r, column) == pages[r[column[1]]][column[2]]

\* Mutant: a predicate whose sources are not there yet does not hold.
PredicatesMatchMutant(predicates, r) ==
    \A i \in DOMAIN predicates :
        LET on == predicates[i]
        IN /\ {on.left[1], on.right[1]} \subseteq DOMAIN r
           /\ ValueIn(r, on.left) = ValueIn(r, on.right)

\* The predicates whose sources are all in r hold; NULL is equal to NULL.
PredicatesMatch(predicates, r) ==
    \A i \in DOMAIN predicates :
        LET on == predicates[i]
        IN {on.left[1], on.right[1]} \subseteq DOMAIN r
            => ValueIn(r, on.left) = ValueIn(r, on.right)

\* The rows of one more source, t, in a loop for each row so far: a row is dropped as
\* soon as a predicate fails.
Extended(rows, t, predicates) ==
    LET Matches(x) == PredicatesMatch(predicates, Append(rows[x[1]], x[2]))
        pairs == InNestedOrder({x \in (DOMAIN rows) \X records[t] : Matches(x)})
    IN [i \in DOMAIN pairs |-> Append(rows[pairs[i][1]], pairs[i][2])]

JoinRows(j) ==
    LET UpTo[k \in 0..Len(j.sources)] ==
            IF k = 0
            THEN << <<>> >>
            ELSE Extended(UpTo[k - 1], j.sources[k], j.predicates)
    IN UpTo[Len(j.sources)]

-----------------------------------------------------------------------------
(* Properties *)

\* The tables between statements, and the clauses that give rows of a table.
Answered(t) == IF stmt = Idle /\ schema[t] # NoTable
               THEN {w \in Wheres : ~MatchingFails(t, w)}
               ELSE {}

Precede(p, q, os) == \E i \in DOMAIN os :
    /\ Precedes(p, q, os[i])
    /\ \A k \in 1..(i - 1) : pages[p][os[k].column] = pages[q][os[k].column]

\* The sorts one after the other give the order that ORDER BY asks for, with
\* every row once and NULL as the largest value, and limits cut it into pages
\* that neither lose nor repeat a row.
OrderIsLexicographic ==
    \A t \in Tables : \A w \in Answered(t) : \A os \in Orderings :
        LET rows == ApplyOrdering(MatchingRows(t, w), os)
            Page(offset, limit) == ApplyOffsetLimit(rows, offset, limit)
        IN /\ ToSet(rows) = Matching(t, w) /\ IsInjective(rows)
           /\ \A i, k \in DOMAIN rows : i < k => ~Precede(rows[k], rows[i], os)
           /\ Page(0, Len(rows)) = rows
           /\ \A n, m \in 0..(Len(rows) + 1) : Page(0, n) \o Page(n, m) = Page(0, n + m)

\* Groups are a partition of the rows: what is counted and summed over the groups
\* is what is counted and summed without GROUP BY, rows with NULL included.
GroupsAddUp ==
    \A t \in Tables : \A w \in Answered(t) : \A g \in Groupings :
        LET rows == MatchingRows(t, w)
            keys == SetToSeq(GroupKeys(rows, g))
            Of(l) == Group(rows, g, keys[l])
        IN /\ Total([l \in DOMAIN keys |-> CountAll(Of(l))], 0) = CountAll(DOMAIN rows)
           /\ \A c \in Columns :
                /\ Total([l \in DOMAIN keys |-> Count(rows, Of(l), c)], 0)
                     = Count(rows, DOMAIN rows, c)
                /\ Total([l \in DOMAIN keys |-> SumOf(rows, Of(l), c)], NULL)
                     = SumOf(rows, DOMAIN rows, c)

\* A join gives each combination of rows that all predicates hold for, and gives
\* it once: dropping rows early loses none, wherever a predicate refers to.
JoinsAreComplete ==
    stmt = Idle =>
        \A j \in Joins : (\A i \in DOMAIN j.sources : schema[j.sources[i]] # NoTable) =>
            LET rows == JoinRows(j)
                Combination(r) == \A i \in DOMAIN r : r[i] \in records[j.sources[i]]
                Holds(r) == \A i \in DOMAIN j.predicates :
                    ValueIn(r, j.predicates[i].left) = ValueIn(r, j.predicates[i].right)
            IN /\ IsInjective(rows)
               /\ ToSet(rows) = {r \in [DOMAIN j.sources -> DOMAIN pages] :
                                    Combination(r) /\ Holds(r)}
=============================================================================
