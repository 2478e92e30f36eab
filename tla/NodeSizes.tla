----------------------------- MODULE NodeSizes -----------------------------
(***************************************************************************)
(* How BTreeIndex (tinydb/index/btree.py) cuts a sequence into nodes when  *)
(* it loads a tree in bulk: as few nodes as possible, whose sizes differ   *)
(* by one at most.                                                         *)
(***************************************************************************)
EXTENDS Integers

MaxLeafEntries(order) == order - 1

MinChildren(order) == (order + 1) \div 2

MinLeafEntries(order) ==
    IF MinChildren(order) - 1 > 1 THEN MinChildren(order) - 1 ELSE 1

\* Mutant: one node too few where the last one would not be full.
NodeCountMutant(total, max, min) ==
    IF total <= max THEN 1 ELSE total \div max

\* The number of nodes: total elements fit with max in each, and the loop of
\* _balanced_sizes takes away nodes as long as some would have less than min.
NodeCount(total, max, min) ==
    LET Enough(c) == c = 1 \/ total \div c >= min
    IN IF total <= max
       THEN 1
       ELSE CHOOSE c \in 1..((total + max - 1) \div max) :
                /\ Enough(c)
                /\ \A d \in (c + 1)..((total + max - 1) \div max) : ~Enough(d)

\* The size of the i-th of count nodes.
NodeSize(total, count, i) ==
    total \div count + IF i <= total % count THEN 1 ELSE 0

\* What comes before the i-th of count nodes.
NodeOffset(total, count, i) ==
    (i - 1) * (total \div count)
    + IF i <= total % count THEN i - 1 ELSE total % count
=============================================================================
