----------------------------- MODULE MCFrontEnd -----------------------------
(* An instance of FrontEnd for TLC: a table with rows, an empty one, and inputs *)
(* that each turn around one part of the language or of the command line.       *)
EXTENDS FrontEnd

MCNames == {"t", "u", "v", "x", "a", "b", "c",
            "help", "quit", "exit", "tables", "schema", "explain"}

MCColumn(name, type, key) ==
    [name |-> name, type |-> type, primary_key |-> key, not_null |-> key, unique |-> key]

MCTables ==
    "t" :> [columns |-> <<MCColumn("a", "INT", TRUE), MCColumn("b", "TEXT", FALSE)>>,
            filled |-> TRUE]
    @@ "u" :> [columns |-> <<MCColumn("a", "INT", FALSE), MCColumn("c", "INT", FALSE)>>,
               filled |-> FALSE]

MCSession(mode, start, phrases, length) ==
    [mode |-> mode, start |-> start, phrases |-> phrases, length |-> length]

FromT == <<"SELECT", "a", "FROM", "t">>

\* Strings, semicolons, lines and commands in all orders.
MCLines == MCSession("repl", <<>>,
    {<<"a">>, <<"'">>, <<";">>, <<" ">>, <<"\n">>, <<".", "tables">>}, 5)

\* Whole statements, their ends, and commands between them.
MCStatements == MCSession("repl", <<>>,
    {<<"BEGIN", ";", "\n">>, <<"ROLLBACK", ";", "\n">>, <<"COMMIT", ";">>,
     <<"DELETE", "FROM", "t", ";", "\n">>, FromT \o <<"ORDER", "BY", "t", ".", "a">>, <<";">>, <<"\n">>,
     <<".", "schema", "t", "\n">>, <<".", "explain">> \o FromT \o <<"\n">>,
     <<".", "exit", "\n">>}, 4)

\* Scripts, with and without transactions.
MCScript == MCSession("script", <<>>,
    {<<"BEGIN", ";">>, <<"COMMIT", ";">>, <<"ROLLBACK", ";">>, <<"DROP", "TABLE", "t", ";">>,
     <<"CREATE", "TABLE", "t", "(", "a", "INT", "UNIQUE", "NOT", "NULL", ")", ";">>,
     <<"INSERT", "INTO", "u", "(", "a", ")", "VALUES", "(", "1", ")", ";">>, <<"a", ";">>}, 4)

MCScriptText == MCSession("script", <<>>, {<<"a">>, <<"'">>, <<";">>, <<" ">>, <<"!">>}, 5)

MCPredicate == MCSession("execute", FromT \o <<"WHERE">>,
    {<<"a">>, <<"1">>, <<".">>, <<"=">>, <<"<">>, <<"AND">>, <<"OR">>, <<"(">>, <<")">>,
     <<"COUNT">>, <<"*">>}, 6)

\* Longer predicates, made of comparisons.
MCPredicates == MCSession("execute", FromT \o <<"WHERE">>,
    {<<"a", "=", "1">>, <<"b", "!", "=", "a">>, <<"AND">>, <<"OR">>, <<"(">>, <<")">>}, 7)

MCClauses == MCSession("execute", <<"SELECT">>,
    {<<"b">>, <<"*">>, <<"COUNT", "(", "*", ")">>, <<"SUM", "(", "b", ")">>, <<",">>,
     <<"FROM", "t">>, <<"FROM", "u">>, <<"WHERE", "b", "<", "1">>, <<"GROUP", "BY", "b">>,
     <<"ORDER", "BY", "b">>, <<"DESC">>, <<"LIMIT", "1">>, <<"OFFSET", "1">>,
     <<"t", ".", "b">>}, 6)

MCJoins == MCSession("execute", <<"SELECT">>,
    {<<"a">>, <<"c">>, <<"x", ".", "a">>, <<"*">>, <<",">>, <<"FROM", "t">>, <<"AS", "x">>,
     <<"INNER", "JOIN", "u", "ON">>, <<"INNER", "JOIN", "t", "x", "ON">>, <<"LEFT">>,
     <<"t", ".", "a", "=", "u", ".", "a">>, <<"t", ".", "a", "=", "x", ".", "a">>,
     <<"WHERE", "COUNT", "(", "c", ")", "=", "b">>, <<"GROUP", "BY", "v">>,
     <<"ORDER", "BY", "a">>}, 6)

MCChanges == MCSession("execute", <<>>,
    {<<"CREATE", "TABLE", "v", "(">>, <<"a", "INT">>, <<"b", "BOOL">>, <<"PRIMARY", "KEY">>,
     <<"NOT", "NULL">>, <<"UNIQUE">>, <<"FOREIGN">>, <<",">>, <<")">>, <<";">>,
     <<"INSERT", "INTO", "t", "(">>, <<"a">>, <<"b">>, <<")", "VALUES", "(">>, <<"1">>,
     <<"DROP", "TABLE">>, <<"t">>, <<"UPDATE", "t", "SET">>, <<"a", "=">>,
     <<"DELETE", "FROM", "t">>, <<"WHERE", "a", "=">>}, 6)

MCSessions ==
    [lines |-> MCLines, statements |-> MCStatements, script |-> MCScript,
     script_text |-> MCScriptText, predicate |-> MCPredicate, predicates |-> MCPredicates,
     clauses |-> MCClauses, joins |-> MCJoins, changes |-> MCChanges]
=============================================================================
