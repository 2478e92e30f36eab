------------------------------ MODULE FrontEnd ------------------------------
(***************************************************************************)
(* What the SQL front end and the command line promise, with reference     *)
(* definitions for what Lexer, Parser, Binder and Cli compute.             *)
(***************************************************************************)
EXTENDS Cli, Binder

\* A text that can still become a statement.
IsViable(text) == Tree(text).next > Len(Tokens(text))


\* The types of the variables that the input does not give.  A table has columns of
\* different names, and one primary key at most, which is not null and unique
\* (apply_create_table()).
TypeOK ==
    /\ status \in {"reading", "executing", "exit 0", "exit 1", "traceback"}
    /\ session \in DOMAIN Sessions /\ room \in 0..Sessions[session].length /\ ended \in BOOLEAN
    /\ \A i \in DOMAIN history :
        history[i].end \in {Ok, "AttributeError"} \union PublicErrors
    /\ \A t \in DOMAIN db.tables :
        LET columns == db.tables[t].columns
            keys == {i \in DOMAIN columns : columns[i].primary_key}
        IN /\ t \in Names /\ db.tables[t].filled \in BOOLEAN
           /\ Cardinality(ColumnNames(db.tables[t])) = Len(columns)
           /\ Cardinality(keys) <= 1
           /\ \A i \in keys : columns[i].not_null /\ columns[i].unique
    /\ db.saved # NoTransaction => DOMAIN db.saved.tables \subseteq Names

-----------------------------------------------------------------------------
(* Statements and their trees *)

IsOpen(token) == token.class = "LPAREN"
IsClose(token) == token.class = "RPAREN"

\* The tokens of these classes that are in no parentheses.
Outside(ts, classes) ==
    LET Opened(i) == Len(SelectSeq(SubSeq(ts, 1, i), IsOpen))
                     - Len(SelectSeq(SubSeq(ts, 1, i), IsClose))
    IN {i \in DOMAIN ts : ts[i].class \in classes /\ Opened(i) = 0}

Enclosed(ts) == Len(ts) > 2 /\ IsOpen(ts[1]) /\ IsClose(Last(ts))

Inner(ts) == SubSeq(ts, 2, Len(ts) - 1)

RECURSIVE ValueOf(_), PredicateOf(_)

\* The value that tokens are written for, None if there is none.
ValueOf(ts) ==
    LET classes == Each(ts, LAMBDA t : t.class)
        Argument(s) == IF classes[1] = "COUNT" /\ Len(s) = 1 /\ s[1].class = "STAR"
                       THEN Identifier("*") ELSE ValueOf(s)
    IN CASE ts = <<>> -> None
         [] Len(ts) = 1 /\ classes[1] \in Literals -> Literal(ts[1].value)
         [] classes = <<"IDENTIFIER">> -> Identifier(WordOf(ts[1]))
         [] classes = <<"IDENTIFIER", "DOT", "IDENTIFIER">> ->
                ColumnRef(WordOf(ts[1]), WordOf(ts[3]))
         [] Enclosed(ts) -> ValueOf(Inner(ts))
         [] Len(ts) > 3 /\ classes[1] \in Aggregates /\ Enclosed(Tail(ts)) ->
                IF Argument(Inner(Tail(ts))) = None THEN None
                ELSE Call(classes[1], Argument(Inner(Tail(ts))))
         [] OTHER -> None

Joined(l, op, r) == IF None \in {l, r} THEN None ELSE Binary(l, op, r)

\* The predicate that tokens are written for: the last OR outside of parentheses
\* separates it, then the last AND.
PredicateOf(ts) ==
    LET Split(i, op, Of(_)) ==
            Joined(Of(SubSeq(ts, 1, i - 1)), op, Of(SubSeq(ts, i + 1, Len(ts))))
        ors == Outside(ts, {"OR"})
        ands == Outside(ts, {"AND"})
        compared == Outside(ts, Comparisons)
    IN CASE ts = <<>> -> None
         [] ors # {} -> Split(Max(ors), "OR", PredicateOf)
         [] ors = {} /\ ands # {} -> Split(Max(ands), "AND", PredicateOf)
         [] ors \union ands = {} /\ IsOpen(ts[1]) ->
                IF Enclosed(ts) THEN PredicateOf(Inner(ts)) ELSE None
         [] ors \union ands = {} /\ ~IsOpen(ts[1]) /\ Cardinality(compared) = 1 ->
                LET i == CHOOSE k \in compared : TRUE IN Split(i, ts[i].class, ValueOf)
         [] OTHER -> None

ReadsAs(s, predicate) ==
    IF predicate = None
    THEN s.statement = "error"
    ELSE s.statement = "select" /\ s.where = predicate

After(tokens, class) ==
    SubSeq(tokens, 1 + Min({i \in DOMAIN tokens : tokens[i].class = class}), Len(tokens))

\* A WHERE clause is accepted if and only if it is a predicate, and is read as that
\* one: AND binds more tightly than OR, both associate to the left, and
\* parentheses group (parse_or_predicate() and what it calls).
PredicatesAreReadAsWritten ==
    LET start == Sessions[session].start
    IN Mode = "execute" /\ Len(start) > 1 /\ Last(start) = "WHERE" =>
        \A text \in Elements(pending) :
            ReadsAs(Parsed(text), PredicateOf(After(Tokens(text), "WHERE")))

RECURSIVE Written(_)

\* The words of an expression, without parentheses.
Written(e) ==
    CASE e.kind = "identifier" -> <<e.name>>
      [] e.kind = "column_ref" -> <<e.qualifier, ".", e.name>>
      [] e.kind = "literal" -> e.value
      [] e.kind = "call" -> <<e.name>> \o Written(e.argument)
      [] e.kind = "binary" ->
            Written(e.left) \o (CASE e.op = "<=" -> <<"<", "=">> [] e.op = ">=" -> <<">", "=">>
                                  [] e.op = "!=" -> <<"!", "=">> [] OTHER -> <<e.op>>)
            \o Written(e.right)

Commas(s, Of(_)) ==
    FlattenSeq([i \in DOMAIN s |-> (IF i = 1 THEN <<>> ELSE <<",">>) \o Of(s[i])])

Optional(words, e) == IF e = None THEN <<>> ELSE words \o Written(e)

WrittenStatement(s) ==
    LET One1(w) == <<w>>
        Typed(c) == <<c.name, c.type>>
        Set(a) == <<a.column, "=">> \o Written(a.value)
        From(source) == <<source.table>> \o Optional(<<>>, source.alias)
        By(o) == Written(o.by) \o (IF o.descending THEN <<"DESC">> ELSE <<>>)
        Clauses(words, items, Of(_)) == IF items = <<>> THEN <<>> ELSE words \o Commas(items, Of)
        Join(i) == <<"INNER", "JOIN">> \o From(s.sources[i]) \o <<"ON">>
                   \o Written(s.predicates[i][1]) \o <<"=">> \o Written(s.predicates[i][2])
    IN CASE s.statement = "drop" -> <<"DROP", "TABLE", s.table>>
         [] s.statement = "create" -> <<"CREATE", "TABLE", s.table>> \o Commas(s.columns, Typed)
         [] s.statement = "insert" ->
                <<"INSERT", "INTO", s.table>> \o Commas(s.columns, One1)
                \o <<"VALUES">> \o Commas(s.values, Written)
         [] s.statement = "select" ->
                <<"SELECT">> \o Commas(s.projections, Written) \o <<"FROM">> \o From(s.source)
                \o FlattenSeq([i \in DOMAIN s.sources |-> Join(i)])
                \o Optional(<<"WHERE">>, s.where) \o Clauses(<<"GROUP", "BY">>, s.group_by, One1)
                \o Clauses(<<"ORDER", "BY">>, s.order_by, By)
                \o Optional(<<"LIMIT">>, s.limit) \o Optional(<<"OFFSET">>, s.offset)
         [] s.statement = "update" ->
                <<"UPDATE", s.table, "SET">> \o Commas(s.assignments, Set)
                \o Optional(<<"WHERE">>, s.where)
         [] s.statement = "delete" ->
                <<"DELETE", "FROM", s.table>> \o Optional(<<"WHERE">>, s.where)
         [] OTHER -> <<s.statement>>

\* What may be written or left out without a difference.  A constraint of a column is
\* a flag of it, and may be given twice.
Redundant == {"LPAREN", "RPAREN", "SEMICOLON", "AS", "ASC", "PRIMARY", "KEY", "UNIQUE"}

IsWhatWasWritten(s, tokens) ==
    LET flags == IF s.statement = "create" THEN {"NOT", "NULL"} ELSE {}
        kept == SelectSeq(tokens, LAMBDA t : t.class \notin Redundant \union flags)
    IN WrittenStatement(s) = FlattenSeq(Each(kept, LAMBDA t : t.value))

\* An accepted statement has every token of its text in its place, and nothing that
\* was not written: no clause, column or value is dropped, repeated or exchanged
\* (parse_sql()).
NothingIsLost ==
    LET Kept(s, text) == s.statement # "error" => IsWhatWasWritten(s, Tokens(text))
    IN Mode = "execute" => \A text \in Elements(pending) : Kept(Parsed(text), text)

-----------------------------------------------------------------------------
(* Statements and their results *)

\* Each name of a join, and each column of its result, has one source.
ColumnsAreCertain(s, tables) ==
    LET sources == SourcesOf(s)
        columns == Elements(OutputColumns(s, tables))
        Has(k, n) == n \in ColumnNames(tables[sources[k].table])
        Means(k, e) == Has(k, e.name)
                       /\ (e.kind = "column_ref" => e.qualifier = Qualifier(sources[k]))
        Certain(e) == Cardinality({k \in DOMAIN sources : Means(k, e)}) = 1
        names == UNION {Elements(s.predicates[k]) : k \in DOMAIN s.predicates}
                 \union {e \in Elements(s.projections) : e # Identifier("*")}
                 \union {e \in Leaves(s.where) : IsName(e)}
                 \union {s.order_by[k].by : k \in DOMAIN s.order_by}
    IN /\ \A e \in names \union columns : Certain(e)
       /\ \A k \in DOMAIN sources : Identifier("*") \in Elements(s.projections) =>
            \A n \in ColumnNames(tables[sources[k].table]) :
                ColumnRef(Qualifier(sources[k]), n) \in columns

\* A join that gives a result takes each of its columns from one source, which is
\* the only one that the name can mean: _source_schemas() and _resolve_column().
JoinColumnsAreCertain ==
    LET IsJoin(s) == s.statement = "select" /\ s.sources # <<>>
        Certain(s, tables) == IsJoin(s) => ColumnsAreCertain(s, tables)
    IN \A i \in DOMAIN history :
            history[i].end = Ok => Certain(Parsed(history[i].sql), history[i].before)

\* What .schema prints creates the table that it describes.
SchemaIsExecutable ==
    \A t \in DOMAIN db.tables :
        LET columns == db.tables[t].columns
            Creates(s) == s.statement = "create" /\ s.table = t /\ Schema(s) = columns
        IN Creates(Parsed(FormatSchema(t, columns)))
=============================================================================
