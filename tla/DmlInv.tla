------------------------------- MODULE DmlInv -------------------------------
(***************************************************************************)
(* Inductive invariants of module Dml.  StoreInv is about types, records   *)
(* and keys; AgreeInv is about indexes, and needs that every column has an *)
(* index of its own.  Both hold of the savepoint too, because a statement  *)
(* that fails returns to it.  ProgressInv is about the tables while a      *)
(* statement runs: what it has done since the savepoint, and what is left. *)
(***************************************************************************)
EXTENDS Dml

Entry == [key : Int, table : Tables, page : 1..MaxPages]

\* What the header says of tables: their records are pages with rows, which no
\* two tables share, and a table that does not exist has none.
TablesOK(sc, pg, rc) ==
    /\ sc \in [Tables -> Schemas \cup {NoTable}]
    /\ pg \in Seq(TableRow \cup {Deleted})
    /\ Len(pg) <= MaxPages
    /\ rc \in [Tables -> SUBSET DOMAIN pg]
    /\ \A t \in Tables : sc[t] = NoTable => rc[t] = {}
    /\ \A t \in Tables : \A p \in rc[t] : pg[p] # Deleted
    /\ \A t, u \in Tables : t # u => rc[t] \cap rc[u] = {}

KeysOK(sc, pg, rc) ==
    \A t \in Tables : sc[t] # NoTable => \A p \in rc[t] :
        /\ \A c \in NotNull(sc[t]) : pg[p][c] # NULL
        /\ \A q \in rc[t] \ {p} : \A c \in Indexed(sc[t]) :
            pg[p][c] # NULL => pg[p][c] # pg[q][c]

StoreOK(sc, pg, rc, ix) ==
    /\ TablesOK(sc, pg, rc)
    /\ KeysOK(sc, pg, rc)
    /\ ix \in [IndexNames -> SUBSET Entry]

StatementOK ==
    /\ stmt \in StatementRecord
    /\ schema[stmt.table] # NoTable
    /\ stmt.todo \subseteq records[stmt.table]
    /\ stmt.busy => stmt.page \in stmt.todo
    /\ stmt.busy /\ stmt.kind = "delete" => stmt.old = pages[stmt.page]

SavepointOK ==
    /\ savepoint = <<savepoint[1], savepoint[2], savepoint[3], savepoint[4]>>
    /\ StoreOK(savepoint[1], savepoint[2], savepoint[3], savepoint[4])

StoreInv ==
    /\ StoreOK(schema, pages, records, index)
    /\ IF stmt = Idle THEN savepoint = <<>> ELSE StatementOK /\ SavepointOK

EntriesOf(pg, rc, t, c) ==
    {EntryOf(t, p, pg[p], c) : p \in {q \in rc[t] : pg[q][c] # NULL}}

Agree(sc, pg, rc, ix) ==
    \A t \in Tables : sc[t] # NoTable => \A c \in Indexed(sc[t]) :
        ix[IndexName[<<t, c>>]] = EntriesOf(pg, rc, t, c)

\* The rows as the indexes have them: those of a busy statement have the old row,
\* and none if it is deleted.
Seen ==
    IF stmt # Idle /\ stmt.busy
    THEN [pages EXCEPT ![stmt.page] = IF stmt.kind = "delete" THEN NoRow ELSE stmt.old]
    ELSE pages

AgreeInv ==
    /\ Agree(schema, Seen, records, index)
    /\ stmt # Idle => Agree(savepoint[1], savepoint[2], savepoint[3], savepoint[4])

OwnIndexes == \A x, y \in Tables \X Columns : IndexName[x] = IndexName[y] => x = y

-----------------------------------------------------------------------------
(***************************************************************************)
(* What a statement has done of what its clause selects, in terms of the   *)
(* pages pg and the records rc that it started from.                       *)
(***************************************************************************)

SelectedRows(pg, rows, w) == {p \in rows : Eval(w, pg[p]) = "true"}

\* The rows that the statement has still to write to.
Untouched == IF stmt.busy /\ stmt.kind = "update"
             THEN stmt.todo \ {stmt.page}
             ELSE stmt.todo

InsertInv(pg, rc) == \E row \in Inserts :
    /\ pages = Append(pg, row)
    /\ records = [rc EXCEPT ![stmt.table] = @ \cup {Len(pg) + 1}]

UpdateInv(pg, rc) == \E w \in Wheres :
    LET selected == SelectedRows(pg, rc[stmt.table], w)
    IN /\ stmt.todo \subseteq selected
       /\ stmt.assignment \in Assignments
       /\ records = rc
       /\ \A t \in Tables : \A p \in rc[t] :
            pages[p] = IF p \in selected \ Untouched
                       THEN Assigned(pg[p], stmt.assignment) ELSE pg[p]

DeleteInv(pg, rc) == \E w \in Wheres :
    LET selected == SelectedRows(pg, rc[stmt.table], w)
    IN /\ stmt.todo \subseteq selected
       /\ records = [rc EXCEPT ![stmt.table] = @ \ (selected \ stmt.todo)]
       /\ \A t \in Tables : \A p \in records[t] : pages[p] = pg[p]

ProgressInv == stmt # Idle =>
    /\ schema = savepoint[1]
    /\ stmt.kind = "insert" => InsertInv(savepoint[2], savepoint[3])
    /\ stmt.kind = "update" => UpdateInv(savepoint[2], savepoint[3])
    /\ stmt.kind = "delete" => DeleteInv(savepoint[2], savepoint[3])

\* All of them together: what holds in the middle of a statement as well.
DmlInvariant == StoreInv /\ AgreeInv /\ ProgressInv
=============================================================================
