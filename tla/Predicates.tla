----------------------------- MODULE Predicates -----------------------------
(***************************************************************************)
(* WHERE clauses and how they are evaluated: tinydb/sql/expressions.py.    *)
(*                                                                         *)
(* A clause is a sequence of terms joined by AND, a term a sequence of     *)
(* comparisons joined by OR; no clause at all is <<>>.  Values are the     *)
(* integers, NULL, and literals of another type, which stand for what      *)
(* cannot be ordered with an integer.                                      *)
(***************************************************************************)
EXTENDS Integers, Sequences

CONSTANT NULL    \* None

ASSUME NullAssumption == NULL \notin Int

Operators == {"=", "!=", "<", "<=", ">", ">="}

Column(c) == [kind |-> "column", of |-> c]
Literal(v) == [kind |-> "literal", of |-> v]

\* Of a column, or of any other value.
IsOperand(o) == o.kind \in {"column", "literal"}

\* A sequence of sequences of comparisons.
IsWhere(w) ==
    /\ DOMAIN w = 1..Len(w)
    /\ \A i \in DOMAIN w :
        /\ DOMAIN w[i] = 1..Len(w[i])
        /\ \A j \in DOMAIN w[i] :
            w[i][j].op \in Operators /\ IsOperand(w[i][j].left) /\ IsOperand(w[i][j].right)

ValueOf(operand, row) ==
    IF operand.kind = "column" THEN row[operand.of] ELSE operand.of

\* Otherwise Python raises a TypeError.
Ordered(a, b) == a \in Int /\ b \in Int

Satisfies(op, a, b) ==
    \/ op = "=" /\ a = b
    \/ op = "!=" /\ a # b
    \/ op = "<" /\ a < b
    \/ op = "<=" /\ a <= b
    \/ op = ">" /\ a > b
    \/ op = ">=" /\ a >= b

\* A comparison is true, false, or an error, which fails the statement.
Compare(c, row) ==
    LET a == ValueOf(c.left, row)
        b == ValueOf(c.right, row)
    IN IF c.op \notin {"=", "!="} /\ ~Ordered(a, b) THEN "error"
       ELSE IF Satisfies(c.op, a, b) THEN "true" ELSE "false"

\* The first result that is not v decides, and ends the evaluation.
ShortCircuit(results, v) ==
    IF \A i \in DOMAIN results : results[i] = v
    THEN v
    ELSE results[CHOOSE i \in DOMAIN results :
                    results[i] # v /\ \A j \in 1..(i - 1) : results[j] = v]

Eval(where, row) ==
    LET Term(t) == ShortCircuit([i \in DOMAIN t |-> Compare(t[i], row)], "false")
    IN ShortCircuit([i \in DOMAIN where |-> Term(where[i])], "true")
=============================================================================
