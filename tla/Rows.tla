-------------------------------- MODULE Rows --------------------------------
(***************************************************************************)
(* Schemas and rows: tinydb/catalog.py, tinydb/types.py, and the checks of *)
(* a row in tinydb/storage/table.py.  Every table has the same columns,    *)
(* all of type INT; a literal of another type stands for what validate     *)
(* refuses.  The constraints of a column are UNIQUE, NOT NULL, PRIMARY KEY *)
(* (which is both) or none of them.                                        *)
(***************************************************************************)
EXTENDS Predicates

CONSTANT Columns    \* the columns

Constraints == {"none", "not null", "unique", "primary key"}

Indexed(s) == {c \in Columns : s[c] \in {"unique", "primary key"}}

NotNull(s) == {c \in Columns : s[c] \in {"not null", "primary key"}}

\* An integer, or none: NULL is of every type.
HasType(v) == v \in Int \cup {NULL}

\* Mutant: no check of the types.
ValidMutant(s, row) == \A c \in NotNull(s) : row[c] # NULL

\* What the schema wants of each value of a row.
Valid(s, row) ==
    /\ \A c \in NotNull(s) : row[c] # NULL
    /\ \A c \in Columns : HasType(row[c])

\* Two rows that may not be in one table.  NULL is equal to nothing here.
Collide(s, r, q) == \E c \in Indexed(s) : r[c] # NULL /\ r[c] = q[c]

\* The row after an UPDATE.  All operands are evaluated with the old one.
Assigned(row, a) ==
    [c \in Columns |-> IF c \in DOMAIN a THEN ValueOf(a[c], row) ELSE row[c]]
=============================================================================
