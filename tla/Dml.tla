-------------------------------- MODULE Dml --------------------------------
(***************************************************************************)
(* The statements that change tables, as tinydb/executor.py executes them  *)
(* on row pages, records and constraint indexes, with the plans of         *)
(* tinydb/planner.py for their WHERE clauses.                              *)
(*                                                                         *)
(* A statement works on one row after the other, and on the row and its    *)
(* index entries one after the other; if it fails, everything that it has  *)
(* done is undone (TransactionManager.statement).  The order of the rows,  *)
(* that of the records or of an index, is left open.                       *)
(*                                                                         *)
(* A row page has a row or Deleted; pages are never used again.  An index  *)
(* is the set of its entries (module BTree has the tree), by name.         *)
(***************************************************************************)
EXTENDS Rows, FiniteSets

CONSTANTS
    Tables,       \* the names of tables
    Schemas,      \* functions from columns to constraints
    NoTable,      \* in place of the schema of a table that does not exist
    IndexName,    \* IndexName[<<t, c>>]: the name of the index of column c of t
    Wheres,       \* the clauses of statements
    Inserts,      \* the rows of INSERT statements
    Assignments,  \* functions from some columns to operands
    Deleted,      \* in place of the row of a page that is marked as deleted
    Idle,         \* no statement
    MaxPages      \* bound on the row pages

TableRow == [Columns -> Int \cup {NULL}]

\* Statements that run.
StatementRecord ==
    [kind : {"insert", "update", "delete"}, table : Tables, todo : SUBSET Nat,
     assignment : Assignments \cup {<<>>}, busy : BOOLEAN, page : Nat,
     old : TableRow]

ASSUME SchemasAssumption ==
    Schemas \subseteq [Columns -> {"none", "not null", "unique", "primary key"}]
ASSUME WheresAssumption == \A w \in Wheres : IsWhere(w)
ASSUME InsertsAssumption == \A row \in Inserts : row = [c \in Columns |-> row[c]]
ASSUME DeletedAssumption == Deleted \notin TableRow
ASSUME IdleAssumption == Idle \notin StatementRecord
ASSUME NoTableAssumption == NoTable \notin Schemas
ASSUME MaxPagesAssumption == MaxPages \in Nat

VARIABLES
    schema,    \* schema[t]: the schema of t in the catalog, or NoTable
    pages,     \* the row pages
    records,   \* records[t]: the pages of t that are not deleted
    index,     \* index[n]: the entries of the index with name n
    stmt,      \* the statement that runs, or Idle
    savepoint  \* what the statement started from

store == <<schema, pages, records, index>>
vars == <<schema, pages, records, index, stmt, savepoint>>

-----------------------------------------------------------------------------
(* The plan of a WHERE clause *)

IndexNames == {IndexName[x] : x \in Tables \X Columns}

\* Mutant: the operator is not turned around.
ReversedMutant(op) == op

Reversed(op) ==
    CASE op = "<" -> ">" [] op = "<=" -> ">=" [] op = ">" -> "<"
      [] op = ">=" -> "<=" [] OTHER -> op

IsLookup(c) == {c.left.kind, c.right.kind} = {"column", "literal"}

\* A comparison of a column and a literal, turned so that the column is left.
LookupOf(c) ==
    IF c.left.kind = "column"
    THEN [column |-> c.left.of, op |-> c.op, value |-> c.right.of]
    ELSE [column |-> c.right.of, op |-> Reversed(c.op), value |-> c.left.of]

\* The terms of a clause that an index can answer.  An OR is none of them.
Candidates(s, w) == {i \in DOMAIN w :
    /\ Len(w[i]) = 1 /\ IsLookup(w[i][1])
    /\ LET l == LookupOf(w[i][1])
       IN l.column \in Indexed(s) /\ l.value # NULL /\ l.op # "!="}

\* The leftmost candidate is taken.
Lookup(s, w) ==
    LookupOf(w[CHOOSE i \in Candidates(s, w) :
                \A j \in Candidates(s, w) : i <= j][1])

Entries(t, c) == index[IndexName[<<t, c>>]]

\* A key that cannot be compared with the literal.
LookupFails(t, w) ==
    /\ Candidates(schema[t], w) # {}
    /\ LET l == Lookup(schema[t], w)
       IN \E e \in Entries(t, l.column) : ~Ordered(e.key, l.value)

\* The pages that the plan reads: entries that lead to other tables or to
\* deleted records are passed over.
Fetched(t, w) ==
    IF Candidates(schema[t], w) = {}
    THEN records[t]
    ELSE LET l == Lookup(schema[t], w)
         IN {p \in records[t] : \E e \in Entries(t, l.column) :
                e.table = t /\ e.page = p /\ Satisfies(l.op, e.key, l.value)}

MatchingFails(t, w) ==
    \/ LookupFails(t, w)
    \/ \E p \in Fetched(t, w) : Eval(w, pages[p]) = "error"

Matching(t, w) == {p \in Fetched(t, w) : Eval(w, pages[p]) = "true"}

-----------------------------------------------------------------------------
(* Index entries of a row *)

NoRow == [c \in Columns |-> NULL]

EntryOf(t, p, row, c) == [key |-> row[c], table |-> t, page |-> p]

\* Mutant: the entry of the old key goes only if there is no new one.
ReindexedMutant(t, p, old, new) ==
    LET Changed(c) == c \in Indexed(schema[t]) /\ old[c] # new[c]
        Gone(n) == {EntryOf(t, p, old, c) :
                      c \in {d \in Columns : Changed(d) /\ IndexName[<<t, d>>] = n
                                                        /\ new[d] = NULL}}
        Come(n) == {EntryOf(t, p, new, c) :
                      c \in {d \in Columns : Changed(d) /\ IndexName[<<t, d>>] = n
                                                        /\ new[d] # NULL}}
    IN [n \in IndexNames |-> (index[n] \ Gone(n)) \cup Come(n)]

\* Entries of row old of page p go, those of row new come.
Reindexed(t, p, old, new) ==
    LET Changed(c) == c \in Indexed(schema[t]) /\ old[c] # new[c]
        Gone(n) == {EntryOf(t, p, old, c) :
                      c \in {d \in Columns : Changed(d) /\ IndexName[<<t, d>>] = n
                                                        /\ old[d] # NULL}}
        Come(n) == {EntryOf(t, p, new, c) :
                      c \in {d \in Columns : Changed(d) /\ IndexName[<<t, d>>] = n
                                                        /\ new[d] # NULL}}
    IN [n \in IndexNames |-> (index[n] \ Gone(n)) \cup Come(n)]

-----------------------------------------------------------------------------
(* Statements *)

\* A statement that has todo, some rows of t, still to change.  While it is
\* busy, page has been changed and its index entries not, or the other way
\* round; old is what its row was.
Statement(kind, t, todo, a) ==
    [kind |-> kind, table |-> t, todo |-> todo, assignment |-> a,
     busy |-> FALSE, page |-> 0, old |-> NoRow]

Busy(p, old) == [stmt EXCEPT !.busy = TRUE, !.page = p, !.old = old]

\* The row of stmt.page is done.
RowDone == [stmt EXCEPT !.busy = FALSE, !.page = 0, !.old = NoRow,
                        !.todo = @ \ {stmt.page}]

Running(kind) == stmt # Idle /\ stmt.kind = kind

\* Some live row of t other than the one of page p has a key of row.
Conflicts(t, p, row) ==
    \E q \in records[t] \ {p} : Collide(schema[t], row, pages[q])

Init ==
    /\ schema = [t \in Tables |-> NoTable]
    /\ pages = <<>>
    /\ records = [t \in Tables |-> {}]
    /\ index = [n \in IndexNames |-> {}]
    /\ stmt = Idle
    /\ savepoint = <<>>

\* What the catalog asks for.
MayCreate(t, s) ==
    /\ schema[t] = NoTable
    /\ Cardinality({c \in Columns : s[c] = "primary key"}) <= 1

\* Mutant: the indexes stay what they are.
CreateTableMutant(t, s) ==
    /\ stmt = Idle
    /\ MayCreate(t, s)
    /\ schema' = [schema EXCEPT ![t] = s]
    /\ UNCHANGED <<pages, records, index, stmt, savepoint>>

\* CREATE TABLE, which builds an empty index for every column that needs one:
\* a table of this name may have existed before.
CreateTable(t, s) ==
    /\ stmt = Idle
    /\ MayCreate(t, s)
    /\ schema' = [schema EXCEPT ![t] = s]
    /\ index' = [n \in IndexNames |->
                    IF \E c \in Indexed(s) : IndexName[<<t, c>>] = n THEN {} ELSE index[n]]
    /\ UNCHANGED <<pages, records, stmt, savepoint>>

\* Mutant: the records stay in the header.
DropTableMutant(t) ==
    /\ stmt = Idle
    /\ schema[t] # NoTable
    /\ schema' = [schema EXCEPT ![t] = NoTable]
    /\ UNCHANGED <<pages, records, index, stmt, savepoint>>

\* DROP TABLE, which leaves the pages and the indexes behind.
DropTable(t) ==
    /\ stmt = Idle
    /\ schema[t] # NoTable
    /\ schema' = [schema EXCEPT ![t] = NoTable]
    /\ records' = [records EXCEPT ![t] = {}]
    /\ UNCHANGED <<pages, index, stmt, savepoint>>

\* INSERT: the row gets a page, and its entries are next.
InsertRow(t, row) ==
    LET p == Len(pages) + 1
    IN /\ stmt = Idle
       /\ p <= MaxPages
       /\ schema[t] # NoTable
       /\ Valid(schema[t], row)
       /\ ~Conflicts(t, p, row)
       /\ pages' = Append(pages, row)
       /\ records' = [records EXCEPT ![t] = @ \cup {p}]
       /\ stmt' = [Statement("insert", t, {p}, <<>>)
                     EXCEPT !.busy = TRUE, !.page = p]
       /\ savepoint' = store
       /\ UNCHANGED <<schema, index>>

\* UPDATE or DELETE: the rows are looked up before the first is changed.
Start(kind, t, w, a) ==
    /\ stmt = Idle
    /\ schema[t] # NoTable
    /\ ~MatchingFails(t, w)
    /\ stmt' = Statement(kind, t, Matching(t, w), a)
    /\ savepoint' = store
    /\ UNCHANGED store

\* Mutant: compares with the rows as they were when they were looked up.
UpdateRowMutant(p) ==
    /\ Running("update") /\ ~stmt.busy /\ p \in stmt.todo
    /\ LET row == Assigned(pages[p], stmt.assignment)
       IN /\ Valid(schema[stmt.table], row)
          /\ \A q \in records[stmt.table] \ {p} :
                ~Collide(schema[stmt.table], row, savepoint[2][q])
          /\ pages' = [pages EXCEPT ![p] = row]
    /\ stmt' = Busy(p, pages[p])
    /\ UNCHANGED <<schema, records, index, savepoint>>

\* UPDATE of a row: first its page, if the constraints allow it ...
UpdateRow(p) ==
    /\ Running("update") /\ ~stmt.busy /\ p \in stmt.todo
    /\ LET row == Assigned(pages[p], stmt.assignment)
       IN /\ Valid(schema[stmt.table], row)
          /\ ~Conflicts(stmt.table, p, row)
          /\ pages' = [pages EXCEPT ![p] = row]
    /\ stmt' = Busy(p, pages[p])
    /\ UNCHANGED <<schema, records, index, savepoint>>

\* ... and then, as in INSERT, its entries.
UpdateEntries ==
    /\ Running("insert") \/ Running("update")
    /\ stmt.busy
    /\ index' = Reindexed(stmt.table, stmt.page, stmt.old, pages[stmt.page])
    /\ stmt' = RowDone
    /\ UNCHANGED <<schema, pages, records, savepoint>>

\* DELETE of a row: first its entries ...
DeleteEntries(p) ==
    /\ Running("delete") /\ ~stmt.busy /\ p \in stmt.todo
    /\ index' = Reindexed(stmt.table, p, pages[p], NoRow)
    /\ stmt' = Busy(p, pages[p])
    /\ UNCHANGED <<schema, pages, records, savepoint>>

\* ... and then the page and its record.
DeleteRow ==
    /\ Running("delete") /\ stmt.busy
    /\ pages' = [pages EXCEPT ![stmt.page] = Deleted]
    /\ records' = [records EXCEPT ![stmt.table] = @ \ {stmt.page}]
    /\ stmt' = RowDone
    /\ UNCHANGED <<schema, index, savepoint>>

StatementOk ==
    /\ stmt # Idle /\ stmt.todo = {}
    /\ stmt' = Idle
    /\ savepoint' = <<>>
    /\ UNCHANGED store

\* A constraint that does not hold, or a page that is too large for what it has
\* to hold: everything is as before the statement.
StatementFail ==
    /\ stmt # Idle
    /\ schema' = savepoint[1]
    /\ pages' = savepoint[2]
    /\ records' = savepoint[3]
    /\ index' = savepoint[4]
    /\ stmt' = Idle
    /\ savepoint' = <<>>

Next ==
    \/ \E t \in Tables :
        \/ \E s \in Schemas : CreateTable(t, s)
        \/ DropTable(t)
        \/ \E row \in Inserts : InsertRow(t, row)
        \/ \E w \in Wheres, a \in Assignments : Start("update", t, w, a)
        \/ \E w \in Wheres : Start("delete", t, w, <<>>)
    \/ \E p \in DOMAIN pages : UpdateRow(p) \/ DeleteEntries(p)
    \/ UpdateEntries \/ DeleteRow
    \/ StatementOk \/ StatementFail

Spec == Init /\ [][Next]_vars

-----------------------------------------------------------------------------
(* Properties *)

\* Types.  No statement stores a value that the column's type refuses.
TypeOK ==
    /\ schema \in [Tables -> Schemas \cup {NoTable}]
    /\ pages \in Seq(TableRow \cup {Deleted})
    /\ records \in [Tables -> SUBSET DOMAIN pages]
    /\ \A n \in IndexNames : \A e \in index[n] :
        e.key \in Int /\ e.table \in Tables /\ e.page \in 1..MaxPages
    /\ stmt # Idle => stmt.table \in Tables /\ stmt.todo \subseteq records[stmt.table]
    /\ stmt = Idle <=> savepoint = <<>>

Existing == {t \in Tables : schema[t] # NoTable}

\* What should be in the index of column c of t: live rows, NULLs left out.
EntriesOfRows(t, c) ==
    {EntryOf(t, p, pages[p], c) : p \in {q \in records[t] : pages[q][c] # NULL}}

\* The index of a column has exactly the entries of the live rows of the table,
\* between any two rows of a statement, after failures, and also if a table of
\* the same name was dropped before.
IndexesAgree ==
    \A t \in Existing : \A c \in Indexed(schema[t]) :
        (stmt = Idle \/ ~stmt.busy) => Entries(t, c) = EntriesOfRows(t, c)

\* No two live rows of a table share a key, and no value is missing that must
\* be there; UPDATE checks each row while others of the statement are unchanged.
KeysAreUnique ==
    \A t \in Existing : \A p \in records[t] :
        /\ \A c \in NotNull(schema[t]) : pages[p][c] # NULL
        /\ \A q \in records[t] \ {p} : \A c \in Indexed(schema[t]) :
            pages[p][c] # NULL => pages[p][c] # pages[q][c]

\* Where both give rows and no error, the plan with an index finds what a scan
\* of the whole table would find, for NULL and reversed comparisons too.
IndexScanMatchesTableScan ==
    stmt = Idle =>
        \A t \in Existing : \A w \in Wheres :
            ~MatchingFails(t, w) =>
                Matching(t, w) = {p \in records[t] : Eval(w, pages[p]) = "true"}

\* What other statements see: while one runs, what it started from.
Shown == IF stmt = Idle THEN store ELSE savepoint

R == INSTANCE Relations WITH
        schema <- Shown[1],
        content <- [t \in Tables |-> [p \in Shown[3][t] |-> Shown[2][p]]],
        Ids <- 1..MaxPages

\* Statements change all rows that their clause selects, or none: plans, indexes,
\* checks row by row and the undoing of failures implement sets of rows.
ImplementsRelations == R!Spec
=============================================================================
