-------------------------------- MODULE Cli --------------------------------
(***************************************************************************)
(* The command line: tinydb/cli.py, tinydb/cli_commands.py and             *)
(* tinydb/explain.py, on a database of one process.                        *)
(*                                                                         *)
(* Input comes phrase by phrase: the lines of the REPL, a script file, or  *)
(* the argument of --execute.  Prompts, colours and the layout of results  *)
(* are left out.                                                           *)
(*                                                                         *)
(* What statements are, and what they do to tables, is left to constants,  *)
(* which FrontEnd gives the definitions of Parser and Binder: what is      *)
(* proved of this module holds for any of them.                            *)
(***************************************************************************)
EXTENDS Lexer, Errors, FiniteSets

CONSTANTS
    ParseSql(_),            \* the statement that a text is read as
    ResultsOf(_, _),        \* the ways in which a statement may end on tables, and
                            \* the tables that each leaves
    ExplainStatement(_, _), \* the plan of a statement on tables, or an error
    MayGoOn(_),             \* the texts that are typed on in --execute
    Sessions,       \* for each kind of input [mode, start, phrases, length], length
                    \* being the bound on the phrases that are typed after the start
    InitialTables   \* the tables that the file has

\* What is typed is made of strings.  That blanks are strings is not known to provers.
Pieces == STRING \union Blanks

ASSUME SessionsAssumption == \A k \in DOMAIN Sessions :
    /\ Sessions[k].mode \in {"repl", "script", "execute"}
    /\ Sessions[k].start \in Seq(Pieces)
    /\ Sessions[k].phrases \subseteq Seq(Pieces)

VARIABLES
    session,   \* the kind of input that this run of the program has
    room,      \* how many phrases may still be typed
    typed,     \* the text that has not been read: in the REPL, of the current line
    ended,     \* whether the input has ended
    lines,     \* the text that has been read, but for dot commands
    buffer,    \* buffered_lines, joined
    pending,   \* the statements of a script that are still to run
    history,   \* the statements that were executed, how they ended and what they left
    db,        \* the tables, and those at the start of the explicit transaction
    shown,     \* what was printed last
    status     \* of the process

vars == <<session, room, typed, ended, lines, buffer, pending, history, db, shown, status>>
input == <<session, room, typed, ended>>

Mode == Sessions[session].mode

-----------------------------------------------------------------------------
(* Text *)

StripRight(text, blanks) ==
    SubSeq(text, 1, Max({0} \union {i \in DOMAIN text : text[i] \notin blanks}))

Strip(text) ==
    LET right == StripRight(text, Blanks)
    IN SubSeq(right, Min({i \in DOMAIN right : right[i] \notin Blanks} \union {Len(right) + 1}),
              Len(right))

\* Whether the piece behind piece i is in a string, or the second of two quotes in one.
Quotes(state, text, i) ==
    IF state = "second" THEN "in"
    ELSE IF text[i] # "'" THEN state
    ELSE IF state = "out" THEN "in"
    ELSE IF PieceAt(text, i + 1) = "'" THEN "second" ELSE "out"

Quoting(text) ==
    LET At[i \in Nat] == IF i <= 1 THEN "out" ELSE Quotes(At[i - 1], text, i - 1)
    IN [i \in DOMAIN text |-> At[i]]

Terminators(text) ==
    LET quoting == Quoting(text)
    IN {i \in DOMAIN text : text[i] = ";" /\ quoting[i] = "out"}

\* Mutant: a line ends a statement if it ends with a semicolon.
IsTerminatedMutant(text) == PieceAt(Strip(text), Len(Strip(text))) = ";"

\* statement_is_terminated()
IsTerminated(text) == Terminators(text) # {}

\* One more statement, unless there is nothing in it.
WithStatement(statements, text) ==
    IF Strip(text) = <<>> THEN statements ELSE Append(statements, Strip(text))

\* If piece i ends a statement, that is what there is from start to the piece before it.
SplitAt(before, text, i) ==
    IF i \in Terminators(text)
    THEN [statements |-> WithStatement(before.statements, SubSeq(text, before.start, i - 1)),
          start |-> i + 1]
    ELSE before

\* split_script(): the last statement need not have a semicolon.
SplitScript(text) ==
    LET UpTo[i \in Nat] == IF i = 0 THEN [statements |-> <<>>, start |-> 1]
                           ELSE SplitAt(UpTo[i - 1], text, i)
        last == UpTo[Len(text)]
    IN WithStatement(last.statements, SubSeq(text, last.start, Len(text)))

-----------------------------------------------------------------------------
(* The database *)

\* There is no explicit transaction.
NoTransaction == [kind |-> "none"]

\* Mutant: an open transaction is committed when the database is closed.
ClosedMutant(d) == [d EXCEPT !.saved = NoTransaction]

\* close() rolls back an open transaction.
Closed(d) == IF d.saved = NoTransaction THEN d ELSE [tables |-> d.saved.tables, saved |-> NoTransaction]

\* The ways in which execute() may end.  A statement that fails leaves the tables as
\* they were (TransactionManager.statement).
Execute(s, d) ==
    LET End(end, tables, saved) == [end |-> end, db |-> [tables |-> tables, saved |-> saved]]
        Fail == End("TransactionError", d.tables, d.saved)
    IN CASE s.statement = "BEGIN" ->
                {IF d.saved # NoTransaction THEN Fail
                 ELSE End(Ok, d.tables, [kind |-> "saved", tables |-> d.tables])}
         [] s.statement = "COMMIT" ->
                {IF d.saved = NoTransaction THEN Fail ELSE End(Ok, d.tables, NoTransaction)}
         [] s.statement = "ROLLBACK" ->
                {IF d.saved = NoTransaction THEN Fail ELSE End(Ok, d.saved.tables, NoTransaction)}
         [] OTHER -> {End(r.end, IF r.end = Ok THEN r.tables ELSE d.tables, d.saved) :
                          r \in ResultsOf(d.tables, s)}

\* A statement was executed.  An error that is not a TinyDBError ends the process.
Record(raw, sql, r) ==
    /\ history' = Append(history, [raw |-> raw, sql |-> sql, end |-> r.end,
                                   before |-> db.tables, after |-> r.db.tables])
    /\ shown' = [of |-> "statement", output |-> r.end]

\* Only a TinyDBError is caught.
Stops(r) == r.end \notin {Ok} \union PublicErrors

-----------------------------------------------------------------------------
(* Dot commands *)

\* Mutant: a column has one constraint at most.
ConstraintsMutant(c) ==
    CASE c.primary_key -> <<"PRIMARY", "KEY">>
      [] c.not_null /\ ~c.primary_key -> <<"NOT", "NULL">>
      [] c.unique /\ ~c.not_null -> <<"UNIQUE">>
      [] OTHER -> <<>>

\* _format_column(): a primary key is known to be unique and not null.
Constraints(c) ==
    IF c.primary_key THEN <<"PRIMARY", "KEY">>
    ELSE (IF c.not_null THEN <<"NOT", "NULL">> ELSE <<>>)
         \o (IF c.unique THEN <<"UNIQUE">> ELSE <<>>)

\* _format_table_schema()
FormatSchema(name, columns) ==
    LET Line(i) == <<columns[i].name, columns[i].type>> \o Constraints(columns[i])
                   \o (IF i < Len(columns) THEN <<",">> ELSE <<>>)
    IN <<"CREATE", "TABLE", name, "(", "\n">>
       \o FlattenSeq([i \in DOMAIN columns |-> Line(i) \o <<"\n">>]) \o <<")">>

\* The word after the dot, unless something is written right behind it.
CommandName(command) ==
    IF /\ PieceAt(command, 2) \in Words
       /\ PieceAt(command, 3) \in {" ", "end"} \union Words \union Numbers
    THEN command[2] ELSE "unknown"

\* dispatch(), but for .quit.
Output(command) ==
    LET argument == Strip(SubSeq(command, 3, Len(command)))
        selected == IF argument = <<>> THEN DOMAIN db.tables
                    ELSE {t \in DOMAIN db.tables : argument = <<t>>}
        name == CommandName(command)
    IN CASE name = "tables" -> [of |-> name, output |-> DOMAIN db.tables]
         [] name = "schema" -> [of |-> name, output |->
                {FormatSchema(t, db.tables[t].columns) : t \in selected}]
         [] name = "explain" -> [of |-> name, output |-> ExplainStatement(db.tables, ParseSql(argument))]
         [] name = "help" -> [of |-> name, output |-> ""]
         [] OTHER -> [of |-> "unknown command", output |-> ""]

IsQuit(command) == CommandName(command) = "quit" \/ command = <<".", "exit">>

-----------------------------------------------------------------------------
(* Input *)

Type(phrase) ==
    /\ status = "reading" /\ ~ended /\ room > 0
    /\ Mode = "repl" => PieceAt(typed, Len(typed)) # "\n"
    /\ Mode = "execute" => MayGoOn(typed)
    /\ typed' = typed \o phrase
    /\ room' = room - 1
    /\ UNCHANGED <<session, ended, lines, buffer, pending, history, db, shown, status>>

EndInput ==
    /\ status = "reading" /\ ~ended
    /\ Mode = "repl" => PieceAt(typed, Len(typed)) # "\n"
    /\ ended' = TRUE
    /\ UNCHANGED <<session, room, typed, lines, buffer, pending, history, db, shown, status>>

-----------------------------------------------------------------------------
(* run_repl() *)

\* readline() gives a line, which the end of the input may end.
ReadLine ==
    /\ Mode = "repl" /\ status = "reading"
    /\ typed # <<>> /\ (ended \/ Last(typed) = "\n")
    /\ typed' = <<>>
    /\ UNCHANGED <<session, room, ended, pending>>

IsCommand == PieceAt(Strip(typed), 1) = "."

\* Mutant: a command gives up the statement that was begun.
RunCommandMutant ==
    /\ ReadLine /\ IsCommand /\ ~IsQuit(Strip(typed))
    /\ shown' = Output(Strip(typed))
    /\ buffer' = <<>>
    /\ UNCHANGED <<lines, history, db, status>>

\* Also between the lines of a statement.
RunCommand ==
    /\ ReadLine /\ IsCommand /\ ~IsQuit(Strip(typed))
    /\ shown' = Output(Strip(typed))
    /\ UNCHANGED <<lines, buffer, history, db, status>>

Quit ==
    /\ ReadLine /\ IsCommand /\ IsQuit(Strip(typed))
    /\ status' = "exit 0"
    /\ db' = Closed(db)
    /\ UNCHANGED <<lines, buffer, history, shown>>

SkipLine ==
    /\ ReadLine /\ Strip(typed) = <<>> /\ buffer = <<>>
    /\ UNCHANGED <<lines, buffer, history, db, shown, status>>

\* The statement with the line that was read.
Buffered ==
    (IF buffer = <<>> THEN <<>> ELSE buffer \o <<"\n">>) \o StripRight(typed, {"\n"})

IsStatementLine == ~IsCommand /\ (Strip(typed) # <<>> \/ buffer # <<>>)

BufferLine ==
    /\ ReadLine /\ IsStatementLine /\ ~IsTerminated(Buffered)
    /\ lines' = lines \o typed
    /\ buffer' = Buffered
    /\ UNCHANGED <<history, db, shown, status>>

RunStatement ==
    /\ ReadLine /\ IsStatementLine /\ IsTerminated(Buffered)
    /\ lines' = lines \o typed
    /\ buffer' = <<>>
    /\ LET sql == Strip(StripRight(Buffered, {";"}))
       IN \E r \in Execute(ParseSql(sql), db) :
            /\ Record(Buffered, sql, r)
            /\ db' = IF Stops(r) THEN Closed(r.db) ELSE r.db
            /\ status' = IF Stops(r) THEN "traceback" ELSE status

EndRepl ==
    /\ Mode = "repl" /\ status = "reading" /\ ended /\ typed = <<>>
    /\ status' = "exit 0"
    /\ db' = Closed(db)
    /\ shown' = IF buffer = <<>> THEN shown ELSE [of |-> "incomplete statement", output |-> ""]
    /\ UNCHANGED <<input, lines, buffer, pending, history>>

-----------------------------------------------------------------------------
(* execute_statements() *)

\* --script is split into statements, --execute is one.
ReadStatements ==
    /\ Mode # "repl" /\ status = "reading" /\ ended
    /\ status' = "executing"
    /\ lines' = typed
    /\ pending' = IF Mode = "script" THEN SplitScript(typed) ELSE <<typed>>
    /\ UNCHANGED <<input, buffer, history, db, shown>>

\* Mutant: an error does not stop the script.
ExecuteNextMutant ==
    /\ status = "executing" /\ pending # <<>>
    /\ pending' = Tail(pending)
    /\ \E r \in Execute(ParseSql(Head(pending)), db) :
        /\ Record(Head(pending), Head(pending), r)
        /\ db' = IF Stops(r) THEN Closed(r.db) ELSE r.db
        /\ status' = IF Stops(r) THEN "traceback" ELSE status
    /\ UNCHANGED <<input, lines, buffer>>

\* The first error ends the program.
ExecuteNext ==
    /\ status = "executing" /\ pending # <<>>
    /\ pending' = Tail(pending)
    /\ \E r \in Execute(ParseSql(Head(pending)), db) :
        /\ Record(Head(pending), Head(pending), r)
        /\ db' = IF r.end = Ok THEN r.db ELSE Closed(r.db)
        /\ status' = CASE Stops(r) -> "traceback"
                       [] r.end \in PublicErrors -> "exit 1"
                       [] OTHER -> status
    /\ UNCHANGED <<input, lines, buffer>>

FinishStatements ==
    /\ status = "executing" /\ pending = <<>>
    /\ status' = "exit 0"
    /\ db' = Closed(db)
    /\ UNCHANGED <<input, lines, buffer, pending, history, shown>>

Init ==
    /\ session \in DOMAIN Sessions
    /\ room = Sessions[session].length /\ typed = Sessions[session].start /\ ended = FALSE
    /\ lines = <<>> /\ buffer = <<>> /\ pending = <<>> /\ history = <<>>
    /\ db = [tables |-> InitialTables, saved |-> NoTransaction]
    /\ shown = [of |-> "nothing", output |-> ""]
    /\ status = "reading"

Ended == status \in {"exit 0", "exit 1", "traceback"}

\* Only a program that has ended does nothing: in every other state it takes a step,
\* or waits for input.
Stay == Ended /\ UNCHANGED vars

Next ==
    \/ \E phrase \in Sessions[session].phrases : Type(phrase)
    \/ EndInput
    \/ RunCommand \/ Quit \/ SkipLine \/ BufferLine \/ RunStatement \/ EndRepl
    \/ ReadStatements \/ ExecuteNext \/ FinishStatements
    \/ Stay

Spec == Init /\ [][Next]_vars

-----------------------------------------------------------------------------
(* Properties *)

\* The i-th statement was one of these, and did what it says.
Succeeded(i, statements) ==
    history[i].end = Ok /\ ParseSql(history[i].sql).statement \in statements

\* After the k-th statement no transaction is open.
Settled(k) == \A i \in 1..k : Succeeded(i, {"BEGIN"}) =>
    \E j \in (i + 1)..k : Succeeded(j, {"COMMIT", "ROLLBACK"})

\* What the last statement left after which no transaction was open.
Committed ==
    LET settled == {k \in DOMAIN history : Settled(k)}
    IN IF settled = {} THEN InitialTables ELSE history[Max(settled)].after

\* When the program has ended, however it ended, the file has what was committed:
\* what statements outside of a transaction and committed transactions left, and
\* nothing of a transaction that was not committed.
EndKeepsWhatWasCommitted == Ended => db.tables = Committed

\* --script and --execute: the exit code is 0 if and only if every statement of the
\* input ended well, and no statement runs after one that failed.
ExitCodeIsRight ==
    Mode # "repl" =>
        /\ status = "exit 0" => pending = <<>> /\ \A i \in DOMAIN history : history[i].end = Ok
        /\ status \in {"exit 1", "traceback"} => Last(history).end # Ok
        /\ \A i \in 1..(Len(history) - 1) : history[i].end = Ok

\* What is left of a text without blanks and semicolons.
Squeezed(text) ==
    LET UpTo[i \in Nat] == IF i = 0 THEN <<>>
                           ELSE IF text[i] \in Blanks \union {";"} THEN UpTo[i - 1]
                           ELSE Append(UpTo[i - 1], text[i])
    IN UpTo[Len(text)]

AllSqueezed(texts) ==
    LET UpTo[i \in Nat] == IF i = 0 THEN <<>> ELSE UpTo[i - 1] \o Squeezed(texts[i])
    IN UpTo[Len(texts)]

\* The statements that were executed and those of a script that are still to run.
StatementTexts == [i \in DOMAIN history |-> history[i].sql] \o pending

\* Every word that was read is in exactly one statement, and statements run in the
\* order of the input, whatever lines, commands, strings and semicolons it is
\* made of: run_repl(), split_script() and execute_statements().
StatementsAreReadOnce ==
    Squeezed(lines) = AllSqueezed(StatementTexts) \o Squeezed(buffer)

IsSemicolon(token) == token.class = "SEMICOLON"

\* One more group, unless there is nothing in it.
WithGroup(groups, group) == IF group = <<>> THEN groups ELSE Append(groups, group)

\* The group that is open has one more token, or a semicolon ends it.
Grouped(state, token) ==
    IF IsSemicolon(token) THEN [done |-> WithGroup(state.done, state.open), open |-> <<>>]
    ELSE [done |-> state.done, open |-> Append(state.open, token)]

GroupState(tokens) ==
    LET UpTo[i \in Nat] == IF i = 0 THEN [done |-> <<>>, open |-> <<>>]
                           ELSE Grouped(UpTo[i - 1], tokens[i])
    IN UpTo[Len(tokens)]

\* The tokens between semicolons.
Groups(tokens) == WithGroup(GroupState(tokens).done, GroupState(tokens).open)

\* The two loops of cli.py that look for semicolons agree with the lexer on which of
\* them are in strings: a script is cut at each that is a token and nowhere else,
\* a line of the REPL that ends a statement runs it, and no other line does.
SemicolonsAreTheLexers ==
    LET Ends(text) == \E i \in DOMAIN Tokens(text) :
                        Tokens(text)[i].class \in {"SEMICOLON", "ERROR"}
    IN /\ Mode = "script" /\ ~HasError(Tokens(lines)) =>
            [i \in DOMAIN StatementTexts |-> Tokens(StatementTexts[i])] = Groups(Tokens(lines))
       /\ Mode = "repl" =>
            /\ \A i \in DOMAIN Tokens(buffer) : ~IsSemicolon(Tokens(buffer)[i])
            /\ \A i \in DOMAIN history : Ends(history[i].raw)

-----------------------------------------------------------------------------
(* Inductive invariants *)

\* What was executed, as far as the end of the program is about it.
HistoryOK == history \in Seq({history[i] : i \in DOMAIN history})

\* No transaction is open in d if none is in the statements that succeeded, and what
\* was committed is what d has, or what it had when the transaction began.
Keeps(d) ==
    IF d.saved = NoTransaction
    THEN Settled(Len(history)) /\ d.tables = Committed
    ELSE ~Settled(Len(history)) /\ d.saved.tables = Committed

CommittedInv == HistoryOK /\ IF Ended THEN db.tables = Committed ELSE Keeps(db)

ExitInv ==
    /\ HistoryOK
    /\ status \in {"reading", "executing", "exit 0", "exit 1", "traceback"}
    /\ Mode # "repl" =>
        /\ status = "reading" => history = <<>>
        /\ status \in {"executing", "exit 0"} => \A i \in DOMAIN history : history[i].end = Ok
        /\ status = "exit 0" => pending = <<>>
        /\ status \in {"exit 1", "traceback"} => history # <<>> /\ Last(history).end # Ok
        /\ \A i \in 1..(Len(history) - 1) : history[i].end = Ok

\* Only the REPL has a buffer, and only scripts have statements still to run, once
\* they were read.
ReadInv ==
    /\ HistoryOK
    /\ session \in DOMAIN Sessions
    /\ typed \in Seq(Pieces) /\ lines \in Seq(Pieces) /\ buffer \in Seq(Pieces)
    /\ pending \in Seq(Seq(Pieces))
    /\ \A i \in DOMAIN history : history[i].sql \in Seq(Pieces)
    /\ Mode = "repl" => pending = <<>>
    /\ Mode # "repl" => buffer = <<>>
    /\ Mode # "repl" /\ status = "reading" => history = <<>> /\ pending = <<>>
    /\ StatementsAreReadOnce

\* The statements of a script are what split_script() made of it, the buffer of the
\* REPL is not a statement yet, and what was executed was one.
CutInv ==
    /\ ReadInv
    /\ Mode = "script" => StatementTexts = SplitScript(lines)
    /\ Mode = "repl" =>
        /\ ~IsTerminated(buffer)
        /\ \A i \in DOMAIN history :
             history[i].raw \in Seq(Pieces) /\ IsTerminated(history[i].raw)
=============================================================================
