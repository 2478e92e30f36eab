------------------------------- MODULE MCDml -------------------------------
(* One or two tables with two columns, two integers, and a literal of       *)
(* another type.                                                            *)
EXTENDS Query, DmlInv

CONSTANTS c, d,       \* columns
          t, u,       \* tables
          text        \* a literal of another type

MCColumns == {c, d}

Row(x, y) == [k \in Columns |-> IF k = c THEN x ELSE y]

MCSchemas == {Row("primary key", "none"), Row("unique", "unique"),
              Row("not null", "unique")}

\* Every column has an index of its own.
OwnIndex == [x \in Tables \X Columns |-> x]

\* Table a_b with columns c and b_c, and table a with columns c and b_c: the
\* names of the indexes of column c of a_b and of column b_c of a are both a_b_c.
SharedIndex == [x \in Tables \X Columns |-> IF x = <<u, d>> THEN <<t, c>> ELSE x]

MCInserts == {Row(1, NULL), Row(2, 1), Row(NULL, 2), Row(NULL, NULL), Row(1, text)}

Cmp(l, op, r) == [left |-> l, op |-> op, right |-> r]
Is(k, op, v) == <<Cmp(Column(k), op, Literal(v))>>

MCWheres ==
    { <<>>,
      <<Is(c, "=", 1)>>,
      <<<<Cmp(Literal(1), "<", Column(c))>>>>,
      <<<<Cmp(Literal(2), ">=", Column(d))>>>>,
      <<Is(c, "<=", 1), Is(d, ">", 1)>>,      \* the index of c spares rows with NULL in d
      <<Is(d, "!=", 1), Is(c, "=", 2)>>,      \* the first term has no use for an index
      <<Is(c, "=", NULL)>>,                   \* NULL is equal to NULL here
      <<Is(c, "=", 1) \o Is(d, "=", 2), Is(c, ">=", 1)>>,
      <<Is(d, "=", text)>>,
      <<<<Cmp(Column(c), "=", Column(d))>>>> }

Set(k, o) == [x \in {k} |-> o]

MCAssignments ==
    { Set(c, Literal(1)), Set(d, Literal(NULL)), Set(d, Literal(text)),
      [x \in Columns |-> IF x = c THEN Column(d) ELSE Column(c)] }

By(k, down) == [column |-> k, descending |-> down]

MCOrderings == { <<>>, <<By(d, TRUE), By(c, FALSE)>>, <<By(c, FALSE), By(d, TRUE)>> }

MCGroupings == { <<d>>, <<d, c>> }

On(i, k, j, l) == [left |-> <<i, k>>, right |-> <<j, l>>]

\* Joins of t with itself.  A predicate may refer to a source that comes later.
MCJoins ==
    { [sources |-> <<t, t>>, predicates |-> <<On(1, d, 2, c)>>],
      [sources |-> <<t, t, t>>, predicates |-> <<On(1, d, 3, d), On(3, c, 2, d)>>] }
=============================================================================
