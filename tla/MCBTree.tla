------------------------------ MODULE MCBTree ------------------------------
(* An instance of BTree for TLC. *)
EXTENDS BTree

CONSTANTS p1, p2

MCKeys == 1..3
MCPointers == {p1, p2}
MCOrders == {3, 4}

\* Pairs with the given keys, in this order, and the pointers in turn.
PairsWith(ks) ==
    [i \in DOMAIN ks |->
        [key |-> ks[i], pointer |-> IF i % 2 = 1 THEN p1 ELSE p2]]

\* A new table has an empty index.  Twelve entries fill every node of a tree of
\* order 3 and three levels, and of order 4 and two levels: one insertion more
\* splits nodes up to the root.
MCBatches == {<<>>, PairsWith(<<3, 1, 2, 2>>),
              PairsWith(<<2, 1, 2, 3, 2, 1, 2, 3, 1, 3, 2, 1>>)}

\* A page with the entries in another order than their keys.
MCLegacyPages ==
    {[kind |-> "legacy", order |-> o, generation |-> 0,
      entries |-> <<[key |-> 2, pointer |-> p2, sequence |-> 4],
                    [key |-> 1, pointer |-> p1, sequence |-> 3],
                    [key |-> 2, pointer |-> p1, sequence |-> 1]>>] : o \in MCOrders}
=============================================================================
