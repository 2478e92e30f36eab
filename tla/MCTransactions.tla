--------------------------- MODULE MCTransactions ---------------------------
(* Instances of Transactions for TLC. *)
EXTENDS TransactionsInv, TLC

CONSTANTS h1, h2, v1, v2

\* Handles are opened one after the other: what a second one would do, the
\* first does when it opens the file again.
OneHandle == {h1}

TwoHandles == {h1, h2}

MCValues == {v1, v2}

\* Enough for properties that do not read the values.
OneValue == {v1}

\* The values of rows and indexes are only written and compared.
ValueSymmetry == Permutations(MCValues)

\* So are the handles.
HandleSymmetry == Permutations(TwoHandles)
=============================================================================
