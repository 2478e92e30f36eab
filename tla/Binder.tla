------------------------------- MODULE Binder -------------------------------
(***************************************************************************)
(* Statements on the tables of a database: which names they may use, and   *)
(* how they can end (tinydb/planner.py, tinydb/executor.py and             *)
(* tinydb/catalog.py).                                                     *)
(*                                                                         *)
(* A database is a function from the names of its tables to their columns  *)
(* and to whether they have rows.  What depends on the values of the rows  *)
(* is left open: a statement has a set of results, each with how it ends   *)
(* and the tables it leaves.  Locks, pages and files are in Transactions   *)
(* and Dml.                                                                *)
(***************************************************************************)
EXTENDS Parser, Errors, FiniteSets

\* The first check that fails decides.
FirstFailure(checks) ==
    LET Fails(c) == c # Ok
        failures == SelectSeq(checks, Fails)
    IN IF failures = <<>> THEN Ok ELSE Head(failures)

Check(condition, error) == IF condition THEN Ok ELSE error

Elements(s) == {s[i] : i \in DOMAIN s}

ColumnNames(table) == {c.name : c \in Elements(table.columns)}

RECURSIVE Leaves(_)

\* The operands of an expression.
Leaves(e) == CASE e.kind = "none" -> {}
               [] e.kind = "binary" -> Leaves(e.left) \union Leaves(e.right)
               [] OTHER -> {e}

-----------------------------------------------------------------------------
(* Names in joins *)

Qualifier(source) == IF source.alias = None THEN source.table ELSE source.alias.name

\* The tables of a join in their order, each with its qualifier.
SourcesOf(s) == <<s.source>> \o s.sources

\* The qualifiers of a join: distinct, and for tables that exist.
SourceSchemas(s, tables) ==
    LET sources == SourcesOf(s)
        qualifiers == Each(sources, Qualifier)
    IN Check(/\ IsInjective(qualifiers)
             /\ \A i \in DOMAIN sources : sources[i].table \in DOMAIN tables,
             "ConstraintError")

\* The sources with a column of this name.
Having(s, tables, name) ==
    {i \in DOMAIN SourcesOf(s) : name \in ColumnNames(tables[SourcesOf(s)[i].table])}

\* Mutant: an ambiguous name is that of the first source that has it.
ResolveColumnMutant(s, tables, e) ==
    LET sources == SourcesOf(s)
        Matches(i) == /\ i \in Having(s, tables, e.name)
                      /\ e.kind = "column_ref" => Qualifier(sources[i]) = e.qualifier
        matches == {i \in DOMAIN sources : Matches(i)}
    IN IF matches = {} THEN None
       ELSE ColumnRef(Qualifier(sources[CHOOSE i \in matches : \A j \in matches : i <= j]), e.name)

\* The column that a name stands for; None if it is unknown or ambiguous.
ResolveColumn(s, tables, e) ==
    LET sources == SourcesOf(s)
        Matches(i) == /\ i \in Having(s, tables, e.name)
                      /\ e.kind = "column_ref" => Qualifier(sources[i]) = e.qualifier
        matches == {i \in DOMAIN sources : Matches(i)}
    IN IF Cardinality(matches) # 1
       THEN None
       ELSE ColumnRef(Qualifier(sources[CHOOSE i \in matches : TRUE]), e.name)

IsName(e) == e.kind \in {"identifier", "column_ref"}

Resolves(s, tables, e) ==
    Check(IsName(e) => ResolveColumn(s, tables, e) # None, "ConstraintError")

\* The columns of the rows that a join gives.
OutputColumns(s, tables) ==
    LET All(source) == Each(tables[source.table].columns,
                            LAMBDA c : ColumnRef(Qualifier(source), c.name))
        Columns(e) == IF e = Identifier("*")
                      THEN FlattenSeq(Each(SourcesOf(s), All))
                      ELSE <<ResolveColumn(s, tables, e)>>
    IN FlattenSeq(Each(s.projections, Columns))

\* The qualifiers, predicates and projections of a join are those of its tables.
PlanJoin(s, tables) ==
    LET Known(e) == Resolves(s, tables, e)
        Both(on) == FirstFailure(Each(on, Known))
        Projected(e) == CASE e = Identifier("*") -> Ok
                          [] IsName(e) -> Known(e)
                          [] OTHER -> "ConstraintError"
    IN IF SourceSchemas(s, tables) # Ok
       THEN SourceSchemas(s, tables)
       ELSE FirstFailure(Each(s.predicates, Both) \o Each(s.projections, Projected))

\* So are the names in WHERE and ORDER BY.  GROUP BY is not looked at.
BindJoinExpressions(s, tables) ==
    LET Known(e) == Resolves(s, tables, e)
        names == Leaves(s.where) \union {s.order_by[i].by : i \in DOMAIN s.order_by}
    IN Check(\A e \in names : Known(e) = Ok, "ConstraintError")

-----------------------------------------------------------------------------
(* Names in statements on one table *)

KnownColumns(table, names) ==
    Check(Elements(names) \subseteq ColumnNames(table), "ConstraintError")

RECURSIVE ValidateExpression(_, _, _, _)

\* Qualified names are not looked at.
ValidateExpression(table, e, star, aggregate) ==
    CASE e = Identifier("*") -> Check(star, "ConstraintError")
      [] e.kind = "identifier" /\ e # Identifier("*") -> KnownColumns(table, <<e.name>>)
      [] e.kind = "call" ->
            ValidateExpression(table, e.argument, aggregate /\ e.name = "COUNT", FALSE)
      [] e.kind = "binary" ->
            FirstFailure(<< ValidateExpression(table, e.left, star, FALSE),
                            ValidateExpression(table, e.right, star, FALSE) >>)
      [] OTHER -> Ok

\* A qualified name in ORDER BY has no attribute "name".
ValidateSelect(table, s) ==
    LET star == s.projections = <<Identifier("*")>>
        Projected(e) == ValidateExpression(table, e, star, e.kind = "call")
        Named(o) == Check(o.by.kind = "identifier", "AttributeError")
    IN FirstFailure(Each(s.projections, Projected)
                    \o << ValidateExpression(table, s.where, FALSE, FALSE) >>
                    \o Each(s.order_by, Named)
                    \o << KnownColumns(table, Each(s.order_by, LAMBDA o : o.by.name)),
                          KnownColumns(table, s.group_by) >>)

-----------------------------------------------------------------------------
(* Evaluation: the ways in which it can end *)

\* First ends with one of first; if it does not fail, next decides.
Then(first, next) == (first \ {Ok}) \union (IF Ok \in first THEN next ELSE {})

InTurn(ends) == FoldLeft(Then, {Ok}, ends)

RECURSIVE Evaluate(_, _)

\* On a row with these columns.  AND and OR may not need their right side, and
\* values of different types cannot be ordered.
Evaluate(e, columns) ==
    CASE e.kind \in {"none", "literal"} -> {Ok}
      [] IsName(e) -> {Check(e \in columns, "ConstraintError")}
      [] e.kind = "call" -> {"ExecutionError"}
      [] e.kind = "binary" /\ e.op \in {"AND", "OR"} ->
            Then(Evaluate(e.left, columns), {Ok} \union Evaluate(e.right, columns))
      [] e.kind = "binary" /\ e.op \in Comparisons ->
            InTurn(<< Evaluate(e.left, columns), Evaluate(e.right, columns),
                      IF e.op \in {"=", "!="} THEN {Ok} ELSE {Ok, "ExecutionError"} >>)

RowColumns(table) == {Identifier(n) : n \in ColumnNames(table)}

RECURSIVE IndexCandidate(_, _)

\* The indexed column that a clause gives a bound for.
IndexCandidate(table, e) ==
    LET Bound(column, literal) ==
            /\ column.kind = "identifier" /\ literal.kind = "literal" /\ literal.value # <<"NULL">>
            /\ \E c \in Elements(table.columns) :
                    c.name = column.name /\ (c.primary_key \/ c.unique)
    IN CASE e.kind = "binary" /\ e.op = "AND" ->
                IF IndexCandidate(table, e.left) # None
                THEN IndexCandidate(table, e.left)
                ELSE IndexCandidate(table, e.right)
         [] e.kind = "binary" /\ e.op \in Comparisons \ {"!="} /\ Bound(e.left, e.right) -> e.left
         [] e.kind = "binary" /\ e.op \in Comparisons \ {"!="} /\ Bound(e.right, e.left) -> e.right
         [] OTHER -> None

\* _matching_rows(): an error, or whether there are rows.  The values of an index
\* may be of another type than the literal.
MatchingRows(table, where) ==
    LET rows == IF where = None THEN {"rows"} ELSE {"rows", "no rows"}
        fetched == IF IndexCandidate(table, where) = None
                   THEN {Ok}
                   ELSE {Ok, "no rows", "ExecutionError"}
    IN IF table.filled
       THEN Then(Then(fetched, Evaluate(where, RowColumns(table))), rows)
       ELSE {"no rows"}

Aggregate(table, e, rows) ==
    LET value == Evaluate(e.argument, RowColumns(table))
        numeric == \E c \in Elements(table.columns) :
                        e.argument = Identifier(c.name) /\ c.type \in {"INT", "FLOAT"}
    IN IF ~rows \/ e.argument = Identifier("*")
       THEN {Ok}
       ELSE Then(value, IF e.name = "COUNT" \/ numeric THEN {Ok} ELSE {Ok, "ExecutionError"})

\* Groups, of which there is one without GROUP BY, have what is projected only.
SelectAggregate(table, s, rows) ==
    LET Projected(e) ==
            CASE e.kind = "call" -> Aggregate(table, e, rows)
              [] e \in {Identifier(n) : n \in Elements(s.group_by)} -> {Ok}
              [] OTHER -> {"ExecutionError"}
        Ordered(o) == {Check(o.by \in Elements(s.projections), "ConstraintError")}
    IN IF s.group_by # <<>> /\ ~rows THEN {Ok}
       ELSE IF s.group_by = <<>> /\ \E e \in Elements(s.projections) : e.kind # "call"
       THEN {"ExecutionError"}
       ELSE InTurn(Each(s.projections, Projected) \o Each(s.order_by, Ordered))

\* LIMIT and OFFSET may leave no row to project.
ProjectRows(table, s, rows) ==
    LET ends == InTurn(Each(s.projections, LAMBDA e : Evaluate(e, RowColumns(table))))
    IN IF ~rows \/ s.projections = <<Identifier("*")>>
       THEN {Ok}
       ELSE ends \union (IF s.limit = None /\ s.offset = None THEN {} ELSE {Ok})

Select(tables, s) ==
    LET table == tables[s.source.table]
        Answer(rows) == IF s.group_by # <<>> \/ \E e \in Elements(s.projections) : e.kind = "call"
                        THEN SelectAggregate(table, s, rows)
                        ELSE ProjectRows(table, s, rows)
        After(match) == CASE match = "rows" -> Answer(TRUE)
                          [] match = "no rows" -> Answer(FALSE)
                          [] OTHER -> {match}
    IN IF ValidateSelect(table, s) # Ok
       THEN {ValidateSelect(table, s)}
       ELSE UNION {After(match) : match \in MatchingRows(table, s.where)}

\* WHERE is evaluated if all sources have rows, and some of them fit together.
JoinSelect(tables, s) ==
    LET filled == \A i \in DOMAIN SourcesOf(s) : tables[SourcesOf(s)[i].table].filled
        Answer(bound) ==
            IF bound # Ok THEN {bound}
            ELSE {Ok} \union (IF filled THEN Evaluate(s.where, Leaves(s.where)) ELSE {})
        Bound(planned) == IF planned # Ok THEN planned ELSE BindJoinExpressions(s, tables)
    IN Answer(Bound(PlanJoin(s, tables)))

-----------------------------------------------------------------------------
(* Statements that change tables *)

\* Mutant: a second column of a name is not refused.
MayCreateMutant(tables, s) ==
    LET keys == {i \in DOMAIN s.columns : s.columns[i].primary_key}
    IN Check(s.table \notin DOMAIN tables /\ Cardinality(keys) <= 1, "ConstraintError")

\* apply_create_table() refuses a second table of the name, a second column of a
\* name, and a second primary key.
MayCreate(tables, s) ==
    LET keys == {i \in DOMAIN s.columns : s.columns[i].primary_key}
    IN Check(/\ s.table \notin DOMAIN tables
             /\ IsInjective(Each(s.columns, LAMBDA c : c.name))
             /\ Cardinality(keys) <= 1,
             "ConstraintError")

\* A primary key is a unique column without NULL.
Schema(s) ==
    Each(s.columns, LAMBDA c : [c EXCEPT !.not_null = @ \/ c.primary_key,
                                         !.unique = @ \/ c.primary_key])

\* _row_from_insert(): values are evaluated without a row.
RowFromInsert(table, s) ==
    LET Value(i) == IF \E j \in 1..(i - 1) : s.columns[j] = s.columns[i]
                    THEN {"ConstraintError"}
                    ELSE Evaluate(s.values[i], {})
    IN IF Len(s.columns) # Len(s.values) \/ KnownColumns(table, s.columns) # Ok
       THEN {"ConstraintError"}
       ELSE InTurn([i \in DOMAIN s.columns |-> Value(i)])

\* What UPDATE and DELETE look at before the rows.
ValidateChange(tables, s, columns) ==
    IF s.table \notin DOMAIN tables
    THEN "ConstraintError"
    ELSE FirstFailure(<< KnownColumns(tables[s.table], columns),
                         ValidateExpression(tables[s.table], s.where, FALSE, FALSE) >>)

\* Rows are checked against their types and constraints when they are stored.
Stored == {Ok, "ConstraintError"}

Update(tables, s) ==
    LET table == tables[s.table]
        values == InTurn(Each(s.assignments, LAMBDA a : Evaluate(a.value, RowColumns(table))))
        checked == ValidateChange(tables, s, Each(s.assignments, LAMBDA a : a.column))
        After(match) == CASE match = "rows" -> Then(values, Stored)
                          [] match = "no rows" -> {Ok}
                          [] OTHER -> {match}
    IN IF checked # Ok THEN {checked}
       ELSE UNION {After(match) : match \in MatchingRows(table, s.where)}

\* The ends of a statement and the tables it leaves.  One that fails leaves them
\* as they were.
Results(tables, s) ==
    LET Same(ends) == {[end |-> e, tables |-> tables] : e \in ends}
        Fail == Same({"ConstraintError"})
        Filled(f) == [end |-> Ok, tables |-> [tables EXCEPT ![s.table].filled = f]]
        Deleted(match) == CASE match = "rows" ->
                                 {Filled(f) : f \in {FALSE, s.where # None}}
                            [] match = "no rows" -> Same({Ok})
                            [] OTHER -> Same({match})
    IN CASE s.statement = "error" -> Same({"ParseError"})
         [] s.statement = "create" ->
                IF MayCreate(tables, s) # Ok THEN Fail
                ELSE {[end |-> Ok, tables |-> tables @@ s.table :>
                                        [columns |-> Schema(s), filled |-> FALSE]]}
         [] s.statement = "drop" ->
                IF s.table \notin DOMAIN tables THEN Fail
                ELSE {[end |-> Ok, tables |-> Restrict(tables, DOMAIN tables \ {s.table})]}
         [] s.statement = "insert" ->
                IF s.table \notin DOMAIN tables THEN Fail
                ELSE LET ends == Then(RowFromInsert(tables[s.table], s), Stored)
                     IN Same(ends \ {Ok}) \union (IF Ok \in ends THEN {Filled(TRUE)} ELSE {})
         [] s.statement = "update" -> Same(Update(tables, s))
         [] s.statement = "delete" ->
                IF ValidateChange(tables, s, <<>>) # Ok THEN Fail
                ELSE UNION {Deleted(m) : m \in MatchingRows(tables[s.table], s.where)}
         [] s.statement = "select" ->
                IF s.source.table \notin DOMAIN tables THEN Fail
                ELSE Same(IF s.sources = <<>> THEN Select(tables, s) ELSE JoinSelect(tables, s))

-----------------------------------------------------------------------------
(* EXPLAIN *)

\* explain(): the plan of a SELECT, or the error that is shown.
Explained(tables, s) ==
    CASE s.statement = "error" -> "ParseError"
      [] s.statement \notin {"error", "select"} -> "ExecutionError"
      [] s.statement = "select" /\ s.sources # <<>> ->
            IF PlanJoin(s, tables) = Ok THEN "JOIN" ELSE PlanJoin(s, tables)
      [] s.statement = "select" /\ s.sources = <<>> /\ s.source.table \notin DOMAIN tables ->
            "ConstraintError"
      [] OTHER -> IF IndexCandidate(tables[s.source.table], s.where) = None
                  THEN "SCAN" ELSE "INDEX SCAN"
=============================================================================
