----------------------------- MODULE DmlProofs -----------------------------
(***************************************************************************)
(* Theorems about module Dml: keys stay unique, and, if every column has   *)
(* an index of its own, indexes agree with the rows, plans find what scans *)
(* find, and statements are changes of sets of rows (module Relations).    *)
(***************************************************************************)
EXTENDS DmlInv, TLAPS, WellFoundedInduction

-----------------------------------------------------------------------------
(* Types and keys *)

LEMMA NoRowIsRow == NoRow \in TableRow /\ \A c \in Columns : NoRow[c] = NULL
  BY DEF NoRow, TableRow

\* What Valid accepts is a row.
LEMMA ValidRow ==
  ASSUME NEW s, NEW row, row = [c \in Columns |-> row[c]], Valid(s, row)
  PROVE  row \in TableRow /\ \A c \in NotNull(s) : row[c] # NULL
  BY DEF Valid, HasType, TableRow

LEMMA LiveRow ==
  ASSUME NEW sc, NEW pg, NEW rc, TablesOK(sc, pg, rc),
         NEW t \in Tables, NEW p \in rc[t]
  PROVE  p \in 1..Len(pg) /\ p \in Nat /\ pg[p] \in TableRow
  BY DeletedAssumption DEF TablesOK

\* Entries of a row in an index are entries.
LEMMA ReindexedType ==
  ASSUME index \in [IndexNames -> SUBSET Entry],
         NEW t \in Tables, NEW p \in 1..MaxPages,
         NEW old, NEW new \in TableRow
  PROVE  Reindexed(t, p, old, new) \in [IndexNames -> SUBSET Entry]
<1>1. \A c \in Columns : new[c] # NULL => EntryOf(t, p, new, c) \in Entry
  BY DEF TableRow, EntryOf, Entry
<1>2. QED
  BY <1>1 DEF Reindexed

LEMMA StoreInit == Init => StoreInv
<1>1. SUFFICES ASSUME Init PROVE StoreInv
  OBVIOUS
<1>2. TablesOK(schema, pages, records)
  BY <1>1, MaxPagesAssumption DEF Init, TablesOK
<1>3. KeysOK(schema, pages, records)
  BY <1>1 DEF Init, KeysOK
<1>4. index \in [IndexNames -> SUBSET Entry]
  BY <1>1 DEF Init
<1>5. QED
  BY <1>1, <1>2, <1>3, <1>4 DEF Init, StoreInv, StoreOK

LEMMA StoreCreate ==
  ASSUME StoreInv, NEW t \in Tables, NEW s \in Schemas, CreateTable(t, s)
  PROVE  StoreInv'
<1>. USE DEF CreateTable, MayCreate
<1>1. TablesOK(schema', pages', records')
  BY NoTableAssumption DEF StoreInv, StoreOK, TablesOK
<1>2. KeysOK(schema', pages', records')
  <2>1. records[t] = {}
    BY DEF StoreInv, StoreOK, TablesOK
  <2>2. \A u \in Tables : u # t => schema'[u] = schema[u]
    BY DEF StoreInv, StoreOK, TablesOK
  <2>3. pages' = pages /\ records' = records
    OBVIOUS
  <2>4. KeysOK(schema, pages, records)
    BY DEF StoreInv, StoreOK
  <2>. HIDE DEF CreateTable, MayCreate
  <2>5. SUFFICES ASSUME NEW u \in Tables, records[u] # {}
                 PROVE  schema'[u] = schema[u]
    BY <2>3, <2>4 DEF KeysOK
  <2>6. QED
    BY <2>1, <2>2, <2>5
<1>3. index' \in [IndexNames -> SUBSET Entry]
  BY DEF StoreInv, StoreOK
<1>4. QED
  BY <1>1, <1>2, <1>3 DEF StoreInv, StoreOK

LEMMA StoreDrop ==
  ASSUME StoreInv, NEW t \in Tables, DropTable(t)
  PROVE  StoreInv'
<1>. USE DEF DropTable
<1>1. TablesOK(schema', pages', records')
  BY DEF StoreInv, StoreOK, TablesOK
<1>2. KeysOK(schema', pages', records')
  <2>1. \A u \in Tables : u # t => schema'[u] = schema[u] /\ records'[u] = records[u]
    BY DEF StoreInv, StoreOK, TablesOK
  <2>2. schema'[t] = NoTable
    BY DEF StoreInv, StoreOK, TablesOK
  <2>3. QED
    BY <2>1, <2>2 DEF StoreInv, StoreOK, KeysOK
<1>3. QED
  BY <1>1, <1>2 DEF StoreInv, StoreOK

\* A statement's record, when it starts.
LEMMA StatementType ==
  ASSUME NEW t \in Tables, NEW kind \in {"insert", "update", "delete"},
         NEW todo \in SUBSET Nat, NEW a \in Assignments \cup {<<>>}
  PROVE  /\ Statement(kind, t, todo, a) \in StatementRecord
         /\ Statement(kind, t, todo, a) # Idle
<1>1. Statement(kind, t, todo, a) \in StatementRecord
  BY NoRowIsRow DEF Statement, StatementRecord
<1>2. QED
  BY <1>1, IdleAssumption

LEMMA SavepointTaken ==
  ASSUME StoreInv, savepoint' = store
  PROVE  SavepointOK'
<1>1. /\ savepoint'[1] = schema /\ savepoint'[2] = pages
      /\ savepoint'[3] = records /\ savepoint'[4] = index
  BY DEF store
<1>2. QED
  BY <1>1 DEF SavepointOK, store, StoreInv

LEMMA StoreInsert ==
  ASSUME StoreInv, NEW t \in Tables, NEW row \in Inserts, InsertRow(t, row)
  PROVE  StoreInv'
<1>. DEFINE p == Len(pages) + 1
<1>. USE DEF InsertRow
<1>1. row \in TableRow /\ \A c \in NotNull(schema[t]) : row[c] # NULL
  BY InsertsAssumption, ValidRow
<1>2. /\ pages \in Seq(TableRow \cup {Deleted})
      /\ records \in [Tables -> SUBSET (1..Len(pages))]
      /\ Len(pages) \in Nat
  BY DEF StoreInv, StoreOK, TablesOK
<1>3. /\ pages' \in Seq(TableRow \cup {Deleted})
      /\ Len(pages') = p /\ pages'[p] = row
      /\ \A q \in 1..Len(pages) : pages'[q] = pages[q]
      /\ DOMAIN pages' = 1..p
  BY <1>1, <1>2
<1>4. /\ records' \in [Tables -> SUBSET (1..p)]
      /\ records'[t] = records[t] \cup {p}
      /\ \A u \in Tables : u # t => records'[u] = records[u]
      /\ \A u \in Tables : p \notin records[u]
  BY <1>2
<1>5. TablesOK(schema', pages', records')
  <2>1. \A u \in Tables : \A q \in records'[u] : pages'[q] # Deleted
    <3>1. TAKE u \in Tables
    <3>2. TAKE q \in records'[u]
    <3>3. CASE q = p
      BY <3>3, <1>1, <1>3, DeletedAssumption
    <3>4. CASE q # p
      <4>1. q \in records[u] /\ q \in 1..Len(pages)
        BY <3>4, <1>4, <1>2
      <4>2. QED
        BY <4>1, <1>3 DEF StoreInv, StoreOK, TablesOK
    <3>5. QED
      BY <3>3, <3>4
  <2>2. \A u, v \in Tables : u # v => records'[u] \cap records'[v] = {}
    BY <1>4 DEF StoreInv, StoreOK, TablesOK
  <2>3. \A u \in Tables : schema'[u] = NoTable => records'[u] = {}
    BY <1>4 DEF StoreInv, StoreOK, TablesOK
  <2>4. QED
    BY <1>3, <1>4, <2>1, <2>2, <2>3 DEF StoreInv, StoreOK, TablesOK
<1>6. KeysOK(schema', pages', records')
  <2>0. schema' = schema /\ schema[t] # NoTable
    OBVIOUS
  <2>1. \A u \in Tables : u # t => \A q \in records[u] : pages'[q] = pages[q]
    BY <1>2, <1>3
  <2>2. \A q \in records[t] : pages'[q] = pages[q] /\ q # p
    BY <1>2, <1>3
  <2>3. \A q \in records[t] : \A c \in Indexed(schema[t]) :
            row[c] # NULL => row[c] # pages[q][c]
    BY <1>4 DEF Conflicts, Collide
  <2>. HIDE DEF InsertRow, p
  <2>4. ASSUME NEW q \in records'[t]
        PROVE  /\ \A c \in NotNull(schema[t]) : pages'[q][c] # NULL
               /\ \A r \in records'[t] \ {q} : \A c \in Indexed(schema[t]) :
                    pages'[q][c] # NULL => pages'[q][c] # pages'[r][c]
    <3>1. CASE q = p
      BY <3>1, <1>1, <1>3, <1>4, <2>2, <2>3
    <3>2. CASE q # p
      <4>1. q \in records[t]
        BY <3>2, <1>4
      <4>2. KeysOK(schema, pages, records)
        BY DEF StoreInv, StoreOK
      <4>3. \A r \in records[t] \ {q} : \A c \in Indexed(schema[t]) :
                pages'[q][c] # NULL => pages'[q][c] # pages'[r][c]
        BY <4>1, <4>2, <2>0, <2>2 DEF KeysOK
      <4>4. \A c \in Indexed(schema[t]) : pages'[q][c] # NULL => pages'[q][c] # pages'[p][c]
        BY <4>1, <2>2, <2>3, <1>3
      <4>5. \A c \in NotNull(schema[t]) : pages'[q][c] # NULL
        BY <4>1, <4>2, <2>0, <2>2 DEF KeysOK
      <4>6. QED
        BY <4>3, <4>4, <4>5, <1>4
    <3>3. QED
      BY <3>1, <3>2
  <2>5. QED
    BY <1>4, <2>0, <2>1, <2>4 DEF StoreInv, StoreOK, KeysOK
<1>7. StatementOK'
  <2>1. p \in Nat /\ {p} \in SUBSET Nat
    BY <1>2
  <2>2. stmt' = [Statement("insert", t, {p}, <<>>) EXCEPT !.busy = TRUE, !.page = p]
    OBVIOUS
  <2>3. Statement("insert", t, {p}, <<>>) \in StatementRecord
    BY <2>1, StatementType
  <2>4. stmt' \in StatementRecord
    BY <2>1, <2>2, <2>3 DEF StatementRecord
  <2>5. stmt'.kind = "insert" /\ stmt'.table = t /\ stmt'.todo = {p} /\ stmt'.page = p
    BY <2>2 DEF Statement
  <2>6. QED
    BY <2>4, <2>5, <1>4 DEF StatementOK
<1>8. stmt' # Idle
  BY <1>7, IdleAssumption DEF StatementOK
<1>9. QED
  BY <1>5, <1>6, <1>7, <1>8, SavepointTaken DEF StoreInv, StoreOK

LEMMA StoreStart ==
  ASSUME StoreInv, NEW t \in Tables, NEW w, NEW kind \in {"update", "delete"},
         NEW a \in Assignments \cup {<<>>}, Start(kind, t, w, a)
  PROVE  StoreInv'
<1>. USE DEF Start
<1>1. Matching(t, w) \subseteq records[t]
  BY DEF Matching, Fetched
<1>2. records[t] \subseteq Nat
  BY LiveRow DEF StoreInv, StoreOK
<1>3. stmt' \in StatementRecord /\ stmt' # Idle
  BY <1>1, <1>2, StatementType
<1>4. StatementOK'
  BY <1>1, <1>3 DEF StatementOK, Statement, store
<1>5. QED
  BY <1>3, <1>4, SavepointTaken DEF StoreInv, store

\* The facts about a statement that changes row p of its table.
LEMMA RunningStatement ==
  ASSUME StoreInv, stmt # Idle
  PROVE  /\ stmt \in StatementRecord /\ stmt.table \in Tables
         /\ schema[stmt.table] # NoTable
         /\ stmt.todo \subseteq records[stmt.table]
         /\ stmt.todo \subseteq 1..MaxPages
         /\ \A p \in stmt.todo : p \in 1..Len(pages) /\ pages[p] \in TableRow
         /\ SavepointOK
<1>1. /\ stmt \in StatementRecord /\ schema[stmt.table] # NoTable
      /\ stmt.todo \subseteq records[stmt.table] /\ SavepointOK
  BY DEF StoreInv, StatementOK
<1>2. stmt.table \in Tables
  BY <1>1 DEF StatementRecord
<1>3. TablesOK(schema, pages, records)
  BY DEF StoreInv, StoreOK
<1>4. \A p \in stmt.todo : p \in 1..Len(pages) /\ pages[p] \in TableRow
  BY <1>1, <1>2, <1>3, LiveRow
<1>5. Len(pages) \in Nat /\ Len(pages) <= MaxPages
  BY <1>3 DEF TablesOK
<1>6. QED
  BY <1>1, <1>2, <1>4, <1>5, MaxPagesAssumption

\* What the updates of stmt leave of its record.
LEMMA StatementGoesOn ==
  ASSUME stmt \in StatementRecord, NEW p \in Nat, NEW old \in TableRow
  PROVE  /\ Busy(p, old) \in StatementRecord /\ RowDone \in StatementRecord
         /\ Busy(p, old) # Idle /\ RowDone # Idle
         /\ Busy(p, old).table = stmt.table /\ RowDone.table = stmt.table
         /\ Busy(p, old).kind = stmt.kind /\ RowDone.kind = stmt.kind
         /\ Busy(p, old).todo = stmt.todo
         /\ RowDone.todo = stmt.todo \ {stmt.page}
         /\ Busy(p, old).busy /\ ~RowDone.busy
         /\ Busy(p, old).page = p /\ Busy(p, old).old = old
<1>1. Busy(p, old) \in StatementRecord
  BY DEF Busy, StatementRecord
<1>2. RowDone \in StatementRecord
  BY NoRowIsRow DEF RowDone, StatementRecord
<1>3. QED
  BY <1>1, <1>2, IdleAssumption DEF Busy, RowDone, StatementRecord

LEMMA StoreUpdateRow ==
  ASSUME StoreInv, NEW p, UpdateRow(p)
  PROVE  StoreInv'
<1>. DEFINE t == stmt.table
            row == Assigned(pages[p], stmt.assignment)
<1>1. /\ stmt # Idle /\ ~stmt.busy /\ p \in stmt.todo /\ stmt.kind = "update"
      /\ Valid(schema[t], row) /\ ~Conflicts(t, p, row)
      /\ pages' = [pages EXCEPT ![p] = row]
      /\ stmt' = Busy(p, pages[p])
      /\ schema' = schema /\ records' = records /\ index' = index
      /\ savepoint' = savepoint
  BY DEF UpdateRow, Running
<1>2. /\ stmt \in StatementRecord /\ t \in Tables /\ schema[t] # NoTable
      /\ stmt.todo \subseteq records[t] /\ p \in records[t]
      /\ p \in 1..Len(pages) /\ pages[p] \in TableRow /\ SavepointOK
  BY <1>1, RunningStatement
<1>3. row \in TableRow /\ \A c \in NotNull(schema[t]) : row[c] # NULL
  <2>1. row = [c \in Columns |-> row[c]]
    BY DEF Assigned
  <2>2. QED
    BY <1>1, <2>1, ValidRow
<1>. HIDE DEF row
<1>4. TablesOK(schema, pages, records) /\ KeysOK(schema, pages, records)
  BY DEF StoreInv, StoreOK
<1>5. /\ pages' \in Seq(TableRow \cup {Deleted}) /\ Len(pages') = Len(pages)
      /\ pages'[p] = row /\ \A q \in 1..Len(pages) : q # p => pages'[q] = pages[q]
      /\ DOMAIN pages' = DOMAIN pages
  BY <1>1, <1>2, <1>3, <1>4 DEF TablesOK
<1>6. \A u \in Tables : \A q \in records[u] : q # p => pages'[q] = pages[q]
  BY <1>4, <1>5, LiveRow
<1>7. TablesOK(schema', pages', records')
  <2>1. \A u \in Tables : \A q \in records[u] : pages'[q] # Deleted
    BY <1>3, <1>4, <1>5, <1>6, DeletedAssumption DEF TablesOK
  <2>2. QED
    BY <1>1, <1>4, <1>5, <2>1 DEF TablesOK
<1>8. KeysOK(schema', pages', records')
  <2>1. \A u \in Tables : u # t => p \notin records[u]
    BY <1>2, <1>4 DEF TablesOK
  <2>2. \A q \in records[t] \ {p} : \A c \in Indexed(schema[t]) :
            row[c] # NULL => row[c] # pages'[q][c]
    BY <1>1, <1>2, <1>6 DEF Conflicts, Collide
  <2>3. ASSUME NEW u \in Tables, schema[u] # NoTable, NEW q \in records[u]
        PROVE  /\ \A c \in NotNull(schema[u]) : pages'[q][c] # NULL
               /\ \A r \in records[u] \ {q} : \A c \in Indexed(schema[u]) :
                    pages'[q][c] # NULL => pages'[q][c] # pages'[r][c]
    <3>1. CASE q = p
      BY <3>1, <1>3, <1>5, <2>1, <2>2, <2>3
    <3>2. CASE q # p
      <4>1. pages'[q] = pages[q]
        BY <3>2, <1>6
      <4>2. \A r \in records[u] \ {q} : r # p =>
                \A c \in Indexed(schema[u]) :
                    pages'[q][c] # NULL => pages'[q][c] # pages'[r][c]
        BY <4>1, <1>4, <1>6, <2>3 DEF KeysOK
      <4>3. p \in records[u] => \A c \in Indexed(schema[u]) :
                pages'[q][c] # NULL => pages'[q][c] # pages'[p][c]
        BY <3>2, <2>1, <2>2, <2>3, <1>5
      <4>4. \A c \in NotNull(schema[u]) : pages'[q][c] # NULL
        BY <4>1, <1>4, <2>3 DEF KeysOK
      <4>5. QED
        BY <4>2, <4>3, <4>4
    <3>3. QED
      BY <3>1, <3>2
  <2>4. QED
    BY <1>1, <2>3 DEF KeysOK
<1>9. StatementOK'
  BY <1>1, <1>2, StatementGoesOn DEF StatementOK
<1>10. SavepointOK'
  BY <1>1, <1>2 DEF SavepointOK
<1>11. stmt' # Idle
  BY <1>1, <1>2, StatementGoesOn
<1>12. QED
  BY <1>1, <1>7, <1>8, <1>9, <1>10, <1>11 DEF StoreInv, StoreOK

LEMMA StoreUpdateEntries ==
  ASSUME StoreInv, UpdateEntries
  PROVE  StoreInv'
<1>1. /\ stmt # Idle /\ stmt.busy /\ stmt.kind # "delete"
      /\ index' = Reindexed(stmt.table, stmt.page, stmt.old, pages[stmt.page])
      /\ stmt' = RowDone
      /\ schema' = schema /\ records' = records /\ pages' = pages
      /\ savepoint' = savepoint
  BY DEF UpdateEntries, Running
<1>2. stmt.page \in stmt.todo
  BY <1>1 DEF StoreInv, StatementOK
<1>3. index' \in [IndexNames -> SUBSET Entry]
  BY <1>1, <1>2, RunningStatement, ReindexedType DEF StoreInv, StoreOK
<1>4. /\ RowDone \in StatementRecord /\ RowDone # Idle /\ ~RowDone.busy
      /\ RowDone.table = stmt.table /\ RowDone.todo \subseteq stmt.todo
  BY <1>1, RunningStatement, StatementGoesOn, NoRowIsRow
<1>5. StatementOK'
  BY <1>1, <1>4, RunningStatement DEF StatementOK
<1>6. SavepointOK'
  BY <1>1, RunningStatement DEF SavepointOK
<1>7. QED
  BY <1>1, <1>3, <1>4, <1>5, <1>6 DEF StoreInv, StoreOK

LEMMA StoreDeleteEntries ==
  ASSUME StoreInv, NEW p, DeleteEntries(p)
  PROVE  StoreInv'
<1>1. /\ stmt # Idle /\ p \in stmt.todo /\ stmt.kind = "delete"
      /\ index' = Reindexed(stmt.table, p, pages[p], NoRow)
      /\ stmt' = Busy(p, pages[p])
      /\ schema' = schema /\ records' = records /\ pages' = pages
      /\ savepoint' = savepoint
  BY DEF DeleteEntries, Running
<1>2. p \in Nat /\ pages[p] \in TableRow
  BY <1>1, RunningStatement
<1>3. index' \in [IndexNames -> SUBSET Entry]
  BY <1>1, NoRowIsRow, RunningStatement, ReindexedType DEF StoreInv, StoreOK
<1>4. StatementOK'
  BY <1>1, <1>2, RunningStatement, StatementGoesOn DEF StatementOK
<1>5. stmt' # Idle
  BY <1>1, <1>2, RunningStatement, StatementGoesOn
<1>6. SavepointOK'
  BY <1>1, RunningStatement DEF SavepointOK
<1>7. QED
  BY <1>1, <1>3, <1>4, <1>5, <1>6 DEF StoreInv, StoreOK

LEMMA StoreDeleteRow ==
  ASSUME StoreInv, DeleteRow
  PROVE  StoreInv'
<1>. DEFINE t == stmt.table
            p == stmt.page
<1>1. /\ stmt # Idle /\ stmt.busy /\ stmt.kind = "delete"
      /\ pages' = [pages EXCEPT ![p] = Deleted]
      /\ records' = [records EXCEPT ![t] = @ \ {p}]
      /\ stmt' = RowDone
      /\ schema' = schema /\ index' = index /\ savepoint' = savepoint
  BY DEF DeleteRow, Running
<1>2. p \in stmt.todo
  BY <1>1 DEF StoreInv, StatementOK
<1>3. /\ stmt \in StatementRecord /\ t \in Tables /\ schema[t] # NoTable
      /\ stmt.todo \subseteq records[t] /\ p \in records[t]
      /\ p \in 1..Len(pages) /\ SavepointOK
  BY <1>1, <1>2, RunningStatement
<1>4. TablesOK(schema, pages, records) /\ KeysOK(schema, pages, records)
  BY DEF StoreInv, StoreOK
<1>5. /\ pages' \in Seq(TableRow \cup {Deleted}) /\ Len(pages') = Len(pages)
      /\ \A q \in 1..Len(pages) : q # p => pages'[q] = pages[q]
      /\ DOMAIN pages' = DOMAIN pages
  BY <1>1, <1>3, <1>4 DEF TablesOK
<1>6. /\ records' \in [Tables -> SUBSET DOMAIN pages]
      /\ records'[t] = records[t] \ {p}
      /\ \A u \in Tables : u # t => records'[u] = records[u]
      /\ \A u \in Tables : records'[u] \subseteq records[u] /\ p \notin records'[u]
  BY <1>1, <1>3, <1>4 DEF TablesOK
<1>7. \A u \in Tables : \A q \in records'[u] : pages'[q] = pages[q]
  <2>1. TAKE u \in Tables
  <2>2. TAKE q \in records'[u]
  <2>3. q \in records[u] /\ q # p
    BY <1>6
  <2>4. q \in 1..Len(pages)
    BY <2>3, <1>4, LiveRow
  <2>5. QED
    BY <2>3, <2>4, <1>5
<1>. HIDE DEF t, p
<1>8. TablesOK(schema', pages', records')
  <2>1. \A u \in Tables : \A q \in records'[u] : pages'[q] # Deleted
    BY <1>4, <1>6, <1>7 DEF TablesOK
  <2>2. \A u, v \in Tables : u # v => records'[u] \cap records'[v] = {}
    BY <1>4, <1>6 DEF TablesOK
  <2>3. \A u \in Tables : schema'[u] = NoTable => records'[u] = {}
    BY <1>1, <1>4, <1>6 DEF TablesOK
  <2>4. QED
    BY <1>1, <1>4, <1>5, <1>6, <2>1, <2>2, <2>3 DEF TablesOK
<1>9. KeysOK(schema', pages', records')
  BY <1>1, <1>4, <1>6, <1>7 DEF KeysOK
<1>10. /\ RowDone \in StatementRecord /\ RowDone # Idle /\ ~RowDone.busy
       /\ RowDone.table = t /\ RowDone.todo = stmt.todo \ {p}
  BY <1>3, StatementGoesOn, NoRowIsRow DEF t, p
<1>11. StatementOK'
  BY <1>1, <1>3, <1>6, <1>10 DEF StatementOK
<1>12. SavepointOK'
  BY <1>1, <1>3 DEF SavepointOK
<1>13. QED
  BY <1>1, <1>8, <1>9, <1>10, <1>11, <1>12 DEF StoreInv, StoreOK

LEMMA StoreFail ==
  ASSUME StoreInv, StatementFail
  PROVE  StoreInv'
  BY RunningStatement DEF StatementFail, StoreInv, SavepointOK

LEMMA StoreStep == StoreInv /\ [Next]_vars => StoreInv'
<1>1. SUFFICES ASSUME StoreInv, [Next]_vars PROVE StoreInv'
  OBVIOUS
<1>2. ASSUME NEW t \in Tables, NEW s \in Schemas, CreateTable(t, s) PROVE StoreInv'
  BY <1>1, <1>2, StoreCreate
<1>3. ASSUME NEW t \in Tables, DropTable(t) PROVE StoreInv'
  BY <1>1, <1>3, StoreDrop
<1>4. ASSUME NEW t \in Tables, NEW row \in Inserts, InsertRow(t, row) PROVE StoreInv'
  BY <1>1, <1>4, StoreInsert
<1>5. ASSUME NEW t \in Tables, NEW w \in Wheres, NEW a \in Assignments,
             Start("update", t, w, a)
      PROVE  StoreInv'
  BY <1>1, <1>5, StoreStart
<1>6. ASSUME NEW t \in Tables, NEW w \in Wheres, Start("delete", t, w, <<>>)
      PROVE  StoreInv'
  BY <1>1, <1>6, StoreStart
<1>7. ASSUME NEW p \in DOMAIN pages, UpdateRow(p) \/ DeleteEntries(p) PROVE StoreInv'
  BY <1>1, <1>7, StoreUpdateRow, StoreDeleteEntries
<1>8. CASE UpdateEntries
  BY <1>1, <1>8, StoreUpdateEntries
<1>9. CASE DeleteRow
  BY <1>1, <1>9, StoreDeleteRow
<1>10. CASE StatementOk
  BY <1>1, <1>10 DEF StatementOk, store, StoreInv
<1>11. CASE StatementFail
  BY <1>1, <1>11, StoreFail
<1>12. CASE UNCHANGED vars
  BY <1>1, <1>12 DEF vars, StoreInv, StatementOK, SavepointOK
<1>13. QED
  BY <1>1, <1>2, <1>3, <1>4, <1>5, <1>6, <1>7, <1>8, <1>9, <1>10, <1>11, <1>12 DEF Next

\* No step breaks the invariant of types, records and keys.
THEOREM StoreInvariant == Spec => []StoreInv
  BY StoreInit, StoreStep, PTL DEF Spec

\* Types, for any tables, schemas, statements and number of pages.
THEOREM Typing == Spec => []TypeOK
<1>1. StoreInv => TypeOK
  <2>1. SUFFICES ASSUME StoreInv PROVE TypeOK
    OBVIOUS
  <2>2. TablesOK(schema, pages, records) /\ index \in [IndexNames -> SUBSET Entry]
    BY <2>1 DEF StoreInv, StoreOK
  <2>3. \A n \in IndexNames : \A e \in index[n] :
            e.key \in Int /\ e.table \in Tables /\ e.page \in 1..MaxPages
    BY <2>2 DEF Entry
  <2>4. stmt # Idle => stmt.table \in Tables /\ stmt.todo \subseteq records[stmt.table]
    BY <2>1, RunningStatement
  <2>5. SavepointOK => savepoint # <<>>
    BY DEF SavepointOK
  <2>6. stmt = Idle <=> savepoint = <<>>
    BY <2>1, <2>5 DEF StoreInv
  <2>7. QED
    BY <2>2, <2>3, <2>4, <2>6 DEF TablesOK, TypeOK
<1>2. QED
  BY <1>1, StoreInvariant, PTL

\* Between any two rows of a statement the live rows of a table have the keys
\* that its schema wants, and no two of them the same.
THEOREM KeysTheorem == Spec => []KeysAreUnique
<1>1. StoreInv => KeysAreUnique
  BY DEF StoreInv, StoreOK, KeysOK, KeysAreUnique, Existing
<1>2. QED
  BY <1>1, StoreInvariant, PTL

-----------------------------------------------------------------------------
(* Indexes *)

\* Indexes that agree with some rows agree with rows that have the same keys.
LEMMA SameEntries ==
  ASSUME NEW sc, NEW pg, NEW rc, NEW ix, NEW pg2, NEW rc2,
         Agree(sc, pg, rc, ix),
         \A t \in Tables : sc[t] # NoTable => \A c \in Indexed(sc[t]) : \A p :
            /\ p \in rc[t] /\ pg[p][c] # NULL <=> p \in rc2[t] /\ pg2[p][c] # NULL
            /\ p \in rc[t] /\ pg[p][c] # NULL => pg2[p][c] = pg[p][c]
  PROVE  Agree(sc, pg2, rc2, ix)
<1>1. SUFFICES ASSUME NEW t \in Tables, sc[t] # NoTable, NEW c \in Indexed(sc[t])
               PROVE  EntriesOf(pg, rc, t, c) = EntriesOf(pg2, rc2, t, c)
  BY DEF Agree
<1>2. QED
  BY <1>1 DEF EntriesOf, EntryOf

\* The index of one column after a change of one row: of an index of its own, the
\* entry of the old key goes and that of the new one comes.
LEMMA ReindexedColumn ==
  ASSUME OwnIndexes, NEW t \in Tables, NEW p, NEW old, NEW new,
         NEW c \in Indexed(schema[t]), NEW e
  PROVE  e \in Reindexed(t, p, old, new)[IndexName[<<t, c>>]] <=>
            \/ /\ e \in index[IndexName[<<t, c>>]]
               /\ old[c] # new[c] /\ old[c] # NULL => e # EntryOf(t, p, old, c)
            \/ old[c] # new[c] /\ new[c] # NULL /\ e = EntryOf(t, p, new, c)
<1>1. c \in Columns /\ <<t, c>> \in Tables \X Columns
  BY DEF Indexed
<1>2. IndexName[<<t, c>>] \in IndexNames
  BY <1>1 DEF IndexNames
<1>3. \A d \in Columns : IndexName[<<t, d>>] = IndexName[<<t, c>>] => d = c
  BY <1>1 DEF OwnIndexes
<1>4. QED
  BY <1>1, <1>2, <1>3 DEF Reindexed

LEMMA ReindexedElsewhere ==
  ASSUME OwnIndexes, NEW t \in Tables, NEW p, NEW old, NEW new,
         NEW u \in Tables, u # t, NEW c \in Columns
  PROVE  Reindexed(t, p, old, new)[IndexName[<<u, c>>]] = index[IndexName[<<u, c>>]]
<1>1. IndexName[<<u, c>>] \in IndexNames
  BY DEF IndexNames
<1>2. \A d \in Columns : IndexName[<<t, d>>] # IndexName[<<u, c>>]
  BY DEF OwnIndexes
<1>3. QED
  BY <1>1, <1>2 DEF Reindexed

\* Reindexed turns indexes that agree with rows sn into such that agree with sn2,
\* where only page p of table t is different.
LEMMA ReindexedAgree ==
  ASSUME OwnIndexes, NEW t \in Tables, NEW p \in records[t], NEW sn, NEW sn2,
         schema[t] # NoTable,
         \A u \in Tables : u # t => p \notin records[u],
         \A u \in Tables : \A q \in records[u] : q # p => sn2[q] = sn[q],
         Agree(schema, sn, records, index)
  PROVE  Agree(schema, sn2, records, Reindexed(t, p, sn[p], sn2[p]))
<1>. DEFINE after == Reindexed(t, p, sn[p], sn2[p])
<1>1. SUFFICES ASSUME NEW u \in Tables, schema[u] # NoTable, NEW c \in Indexed(schema[u])
               PROVE  after[IndexName[<<u, c>>]] = EntriesOf(sn2, records, u, c)
  BY DEF Agree
<1>2. index[IndexName[<<u, c>>]] = EntriesOf(sn, records, u, c)
  BY <1>1 DEF Agree
<1>3. CASE u # t
  <2>0. c \in Columns
    BY DEF Indexed
  <2>1. after[IndexName[<<u, c>>]] = index[IndexName[<<u, c>>]]
    BY <1>3, <2>0, ReindexedElsewhere
  <2>2. \A q \in records[u] : sn2[q] = sn[q]
    BY <1>3
  <2>3. EntriesOf(sn, records, u, c) = EntriesOf(sn2, records, u, c)
    BY <2>2 DEF EntriesOf, EntryOf
  <2>4. QED
    BY <1>2, <2>1, <2>3
<1>4. CASE u = t
  <2>1. \A e : e \in after[IndexName[<<t, c>>]] <=>
            \/ /\ e \in index[IndexName[<<t, c>>]]
               /\ sn[p][c] # sn2[p][c] /\ sn[p][c] # NULL => e # EntryOf(t, p, sn[p], c)
            \/ sn[p][c] # sn2[p][c] /\ sn2[p][c] # NULL /\ e = EntryOf(t, p, sn2[p], c)
    BY <1>4, ReindexedColumn
  <2>. HIDE DEF after
  <2>2. \A e : e \in index[IndexName[<<t, c>>]] <=>
            \E q \in records[t] : sn[q][c] # NULL /\ e = EntryOf(t, q, sn[q], c)
    <3>1. index[IndexName[<<t, c>>]] = EntriesOf(sn, records, t, c)
      BY <1>2, <1>4
    <3>2. QED
      BY <3>1 DEF EntriesOf
  <2>3. \A e : e \in EntriesOf(sn2, records, t, c) <=>
            \E q \in records[t] : sn2[q][c] # NULL /\ e = EntryOf(t, q, sn2[q], c)
    BY DEF EntriesOf
  <2>4. \A q \in records[t] : q # p =>
            /\ EntryOf(t, q, sn2[q], c) = EntryOf(t, q, sn[q], c)
            /\ EntryOf(t, q, sn[q], c) # EntryOf(t, p, sn[p], c)
    BY DEF EntryOf
  <2>5. sn[p][c] = sn2[p][c] => EntryOf(t, p, sn[p], c) = EntryOf(t, p, sn2[p], c)
    BY DEF EntryOf
  <2>6. ASSUME NEW e, e \in after[IndexName[<<t, c>>]]
        PROVE  e \in EntriesOf(sn2, records, t, c)
    BY <2>6, <2>1, <2>2, <2>3, <2>4, <2>5
  <2>7. ASSUME NEW q \in records[t], sn2[q][c] # NULL
        PROVE  EntryOf(t, q, sn2[q], c) \in after[IndexName[<<t, c>>]]
    <3>1. CASE q = p /\ sn[p][c] = sn2[p][c]
      <4>1. EntryOf(t, q, sn2[q], c) \in index[IndexName[<<t, c>>]]
        BY <3>1, <2>2, <2>5, <2>7
      <4>2. QED
        BY <3>1, <4>1, <2>1
    <3>2. CASE q = p /\ sn[p][c] # sn2[p][c]
      BY <3>2, <2>1, <2>7
    <3>3. CASE q # p
      <4>1. EntryOf(t, q, sn2[q], c) \in index[IndexName[<<t, c>>]]
        BY <3>3, <2>2, <2>4, <2>7
      <4>2. EntryOf(t, q, sn2[q], c) # EntryOf(t, p, sn[p], c)
        BY <3>3, <2>4
      <4>3. QED
        BY <4>1, <4>2, <2>1
    <3>4. QED
      BY <3>1, <3>2, <3>3
  <2>8. after[IndexName[<<t, c>>]] = EntriesOf(sn2, records, t, c)
    <3>1. \A e \in EntriesOf(sn2, records, t, c) : e \in after[IndexName[<<t, c>>]]
      BY <2>3, <2>7
    <3>2. \A e \in after[IndexName[<<t, c>>]] : e \in EntriesOf(sn2, records, t, c)
      BY <2>6
    <3>3. QED
      BY <3>1, <3>2
  <2>9. QED
    BY <1>4, <2>8
<1>5. QED
  BY <1>3, <1>4

LEMMA AgreeInit == Init => AgreeInv
  BY DEF Init, AgreeInv, Agree

LEMMA AgreeCreate ==
  ASSUME OwnIndexes, StoreInv, AgreeInv,
         NEW t \in Tables, NEW s \in Schemas, CreateTable(t, s)
  PROVE  AgreeInv'
<1>1. /\ stmt = Idle /\ stmt' = Idle
      /\ schema[t] = NoTable
      /\ schema' = [schema EXCEPT ![t] = s]
      /\ index' = [n \in IndexNames |->
                    IF \E c \in Indexed(s) : IndexName[<<t, c>>] = n THEN {} ELSE index[n]]
      /\ pages' = pages /\ records' = records
  BY DEF CreateTable, MayCreate
<1>2. TablesOK(schema, pages, records)
  BY DEF StoreInv, StoreOK
<1>3. /\ schema'[t] = s /\ records[t] = {}
      /\ \A u \in Tables : u # t => schema'[u] = schema[u]
  BY <1>1, <1>2 DEF TablesOK
<1>4. Seen = pages /\ Seen' = pages
  BY <1>1 DEF Seen
<1>5. ASSUME NEW u \in Tables, schema'[u] # NoTable, NEW c \in Indexed(schema'[u])
      PROVE  index'[IndexName[<<u, c>>]] = EntriesOf(pages, records, u, c)
  <2>1. c \in Columns /\ IndexName[<<u, c>>] \in IndexNames
    BY DEF Indexed, IndexNames
  <2>2. CASE u = t
    <3>1. index'[IndexName[<<u, c>>]] = {}
      BY <1>1, <1>3, <1>5, <2>1, <2>2
    <3>2. QED
      BY <1>3, <2>2, <3>1 DEF EntriesOf
  <2>3. CASE u # t
    <3>1. \A d \in Indexed(s) : IndexName[<<t, d>>] # IndexName[<<u, c>>]
      BY <2>1, <2>3 DEF OwnIndexes, Indexed
    <3>2. index'[IndexName[<<u, c>>]] = index[IndexName[<<u, c>>]]
      BY <1>1, <2>1, <3>1
    <3>3. QED
      BY <1>3, <1>4, <1>5, <2>3, <3>2 DEF AgreeInv, Agree
  <2>4. QED
    BY <2>2, <2>3
<1>6. Agree(schema', pages, records, index')
  BY <1>5 DEF Agree
<1>7. QED
  BY <1>1, <1>4, <1>6 DEF AgreeInv

LEMMA AgreeDrop ==
  ASSUME StoreInv, AgreeInv, NEW t \in Tables, DropTable(t)
  PROVE  AgreeInv'
<1>1. /\ stmt = Idle /\ stmt' = Idle
      /\ schema' = [schema EXCEPT ![t] = NoTable]
      /\ records' = [records EXCEPT ![t] = {}]
      /\ pages' = pages /\ index' = index
  BY DEF DropTable
<1>2. TablesOK(schema, pages, records)
  BY DEF StoreInv, StoreOK
<1>3. /\ schema'[t] = NoTable
      /\ \A u \in Tables : u # t => schema'[u] = schema[u] /\ records'[u] = records[u]
  BY <1>1, <1>2 DEF TablesOK
<1>4. Seen = pages /\ Seen' = pages
  BY <1>1 DEF Seen
<1>5. ASSUME NEW u \in Tables, schema'[u] # NoTable, NEW c \in Indexed(schema'[u])
      PROVE  index[IndexName[<<u, c>>]] = EntriesOf(pages, records', u, c)
  <2>1. u # t /\ schema'[u] = schema[u] /\ records'[u] = records[u]
    BY <1>3, <1>5
  <2>2. QED
    BY <1>4, <1>5, <2>1 DEF AgreeInv, Agree, EntriesOf
<1>6. QED
  BY <1>1, <1>4, <1>5 DEF AgreeInv, Agree

LEMMA AgreeInsert ==
  ASSUME StoreInv, AgreeInv, NEW t \in Tables, NEW row \in Inserts, InsertRow(t, row)
  PROVE  AgreeInv'
<1>. DEFINE p == Len(pages) + 1
<1>1. /\ stmt = Idle
      /\ row = [c \in Columns |-> row[c]] /\ Valid(schema[t], row)
      /\ pages' = Append(pages, row)
      /\ records' = [records EXCEPT ![t] = @ \cup {p}]
      /\ stmt' = [Statement("insert", t, {p}, <<>>) EXCEPT !.busy = TRUE, !.page = p]
      /\ savepoint' = <<schema, pages, records, index>>
      /\ schema' = schema /\ index' = index
  BY InsertsAssumption DEF InsertRow, store
<1>2. TablesOK(schema, pages, records)
  BY DEF StoreInv, StoreOK
<1>3. row \in TableRow
  BY <1>1, ValidRow
<1>4. /\ Len(pages) \in Nat
      /\ \A u \in Tables : \A q \in records[u] : q \in 1..Len(pages) /\ q # p
      /\ \A u \in Tables : records'[u] = IF u = t THEN records[u] \cup {p} ELSE records[u]
      /\ DOMAIN pages' = 1..p
      /\ \A q \in 1..Len(pages) : pages'[q] = pages[q]
  <2>1. /\ pages \in Seq(TableRow \cup {Deleted})
        /\ records \in [Tables -> SUBSET (1..Len(pages))]
        /\ Len(pages) \in Nat
    BY <1>2 DEF TablesOK
  <2>2. \A u \in Tables : records'[u] = IF u = t THEN records[u] \cup {p} ELSE records[u]
    BY <1>1, <2>1
  <2>3. DOMAIN pages' = 1..p /\ \A q \in 1..Len(pages) : pages'[q] = pages[q]
    BY <1>1, <1>3, <2>1
  <2>4. \A u \in Tables : \A q \in records[u] : q \in 1..Len(pages) /\ q # p
    BY <2>1
  <2>5. QED
    BY <2>1, <2>2, <2>3, <2>4
<1>5. stmt'.busy /\ stmt'.kind = "insert" /\ stmt'.page = p /\ stmt'.old = NoRow
  BY <1>1 DEF Statement
<1>6. stmt' # Idle
  <2>1. savepoint' # <<>>
    BY <1>1
  <2>2. StoreInv'
    BY StoreInsert
  <2>3. QED
    BY <2>1, <2>2 DEF StoreInv
<1>7. Seen' = [pages' EXCEPT ![p] = NoRow]
  BY <1>5, <1>6 DEF Seen
<1>8. Seen = pages
  BY <1>1 DEF Seen
<1>9. /\ Seen'[p] = NoRow
      /\ \A u \in Tables : \A q \in records[u] : Seen'[q] = pages[q]
  BY <1>4, <1>7
<1>10. \A c \in Columns : NoRow[c] = NULL
  BY NoRowIsRow
<1>. HIDE DEF p
<1>11. ASSUME NEW u \in Tables, NEW c \in Indexed(schema[u]), NEW q
       PROVE  /\ q \in records[u] /\ pages[q][c] # NULL
                    <=> q \in records'[u] /\ Seen'[q][c] # NULL
              /\ q \in records[u] /\ pages[q][c] # NULL => Seen'[q][c] = pages[q][c]
  <2>1. c \in Columns
    BY DEF Indexed
  <2>2. q = p => Seen'[q][c] = NULL
    BY <1>9, <1>10, <2>1
  <2>3. q \in records[u] => Seen'[q] = pages[q]
    BY <1>9
  <2>4. QED
    BY <1>4, <2>2, <2>3
<1>12. Agree(schema, pages, records, index)
  BY <1>8 DEF AgreeInv
<1>13. Agree(schema, Seen', records', index)
  BY <1>11, <1>12, SameEntries
<1>14. Agree(savepoint'[1], savepoint'[2], savepoint'[3], savepoint'[4])
  BY <1>1, <1>12
<1>15. QED
  BY <1>1, <1>13, <1>14 DEF AgreeInv

LEMMA AgreeStart ==
  ASSUME StoreInv, AgreeInv, NEW t \in Tables, NEW w, NEW kind \in {"update", "delete"},
         NEW a \in Assignments \cup {<<>>}, Start(kind, t, w, a)
  PROVE  AgreeInv'
<1>1. /\ stmt = Idle /\ ~stmt'.busy
      /\ savepoint' = <<schema, pages, records, index>>
      /\ schema' = schema /\ pages' = pages /\ records' = records /\ index' = index
  BY DEF Start, Statement, store
<1>2. Seen = pages /\ Seen' = pages
  BY <1>1 DEF Seen
<1>3. QED
  BY <1>1, <1>2 DEF AgreeInv

LEMMA AgreeUpdateRow ==
  ASSUME StoreInv, AgreeInv, NEW p, UpdateRow(p)
  PROVE  AgreeInv'
<1>1. /\ stmt # Idle /\ ~stmt.busy /\ p \in stmt.todo /\ stmt.kind = "update"
      /\ pages' = [pages EXCEPT ![p] = Assigned(pages[p], stmt.assignment)]
      /\ stmt' = Busy(p, pages[p])
      /\ schema' = schema /\ records' = records /\ index' = index
      /\ savepoint' = savepoint
  BY DEF UpdateRow, Running
<1>2. /\ stmt \in StatementRecord /\ p \in 1..Len(pages) /\ pages[p] \in TableRow
      /\ pages \in Seq(TableRow \cup {Deleted})
  BY <1>1, RunningStatement DEF StoreInv, StoreOK, TablesOK
<1>3. /\ stmt' # Idle /\ stmt'.busy /\ stmt'.kind = "update"
      /\ stmt'.page = p /\ stmt'.old = pages[p]
  BY <1>1, <1>2, StatementGoesOn
<1>4. Seen = pages
  BY <1>1 DEF Seen
<1>5. Seen' = [pages' EXCEPT ![p] = pages[p]]
  BY <1>3 DEF Seen
<1>6. Seen' = pages
  BY <1>1, <1>2, <1>5
<1>7. QED
  BY <1>1, <1>4, <1>6 DEF AgreeInv

\* No other table has a record of a page that a statement changes.
LEMMA OnlyInOneTable ==
  ASSUME StoreInv, stmt # Idle, NEW p \in stmt.todo
  PROVE  /\ p \in records[stmt.table]
         /\ \A u \in Tables : u # stmt.table => p \notin records[u]
         /\ \A u \in Tables : records[u] \subseteq 1..Len(pages)
         /\ p \in 1..Len(pages) /\ pages \in Seq(TableRow \cup {Deleted})
<1>1. TablesOK(schema, pages, records)
  BY DEF StoreInv, StoreOK
<1>2. p \in records[stmt.table] /\ stmt.table \in Tables /\ p \in 1..Len(pages)
  BY RunningStatement
<1>3. QED
  BY <1>1, <1>2 DEF TablesOK

LEMMA AgreeUpdateEntries ==
  ASSUME OwnIndexes, StoreInv, AgreeInv, UpdateEntries
  PROVE  AgreeInv'
<1>. DEFINE t == stmt.table
            p == stmt.page
<1>1. /\ stmt # Idle /\ stmt.busy /\ stmt.kind # "delete"
      /\ index' = Reindexed(t, p, stmt.old, pages[p])
      /\ stmt' = RowDone
      /\ schema' = schema /\ records' = records /\ pages' = pages
      /\ savepoint' = savepoint
  BY DEF UpdateEntries, Running
<1>2. p \in stmt.todo
  BY <1>1 DEF StoreInv, StatementOK
<1>3. /\ stmt \in StatementRecord /\ t \in Tables /\ schema[t] # NoTable /\ p \in records[t]
      /\ \A u \in Tables : u # t => p \notin records[u]
      /\ \A u \in Tables : records[u] \subseteq 1..Len(pages)
      /\ p \in 1..Len(pages) /\ pages \in Seq(TableRow \cup {Deleted})
  BY <1>1, <1>2, RunningStatement, OnlyInOneTable
<1>4. stmt' # Idle /\ ~stmt'.busy
  BY <1>1, <1>3, NoRowIsRow, StatementGoesOn
<1>. HIDE DEF t, p
<1>5. Seen = [pages EXCEPT ![p] = stmt.old] /\ Seen' = pages
  BY <1>1, <1>4 DEF Seen, p
<1>6. Seen[p] = stmt.old /\ \A u \in Tables : \A q \in records[u] : q # p => pages[q] = Seen[q]
  BY <1>3, <1>5
<1>7. Agree(schema, Seen, records, index)
  BY DEF AgreeInv
<1>8. Agree(schema, pages, records, Reindexed(t, p, Seen[p], pages[p]))
  BY <1>3, <1>6, <1>7, ReindexedAgree
<1>9. QED
  BY <1>1, <1>4, <1>5, <1>6, <1>8 DEF AgreeInv

LEMMA AgreeDeleteEntries ==
  ASSUME OwnIndexes, StoreInv, AgreeInv, NEW p, DeleteEntries(p)
  PROVE  AgreeInv'
<1>. DEFINE t == stmt.table
<1>1. /\ stmt # Idle /\ ~stmt.busy /\ p \in stmt.todo /\ stmt.kind = "delete"
      /\ index' = Reindexed(t, p, pages[p], NoRow)
      /\ stmt' = Busy(p, pages[p])
      /\ schema' = schema /\ records' = records /\ pages' = pages
      /\ savepoint' = savepoint
  BY DEF DeleteEntries, Running
<1>2. /\ stmt \in StatementRecord /\ t \in Tables /\ schema[t] # NoTable /\ p \in records[t]
      /\ \A u \in Tables : u # t => p \notin records[u]
      /\ \A u \in Tables : records[u] \subseteq 1..Len(pages)
      /\ p \in 1..Len(pages) /\ pages \in Seq(TableRow \cup {Deleted})
      /\ pages[p] \in TableRow
  BY <1>1, RunningStatement, OnlyInOneTable
<1>3. stmt' # Idle /\ stmt'.busy /\ stmt'.kind = "delete" /\ stmt'.page = p
  BY <1>1, <1>2, StatementGoesOn
<1>. HIDE DEF t
<1>4. Seen = pages /\ Seen' = [pages EXCEPT ![p] = NoRow]
  BY <1>1, <1>3 DEF Seen
<1>5. Seen'[p] = NoRow /\ \A u \in Tables : \A q \in records[u] : q # p => Seen'[q] = pages[q]
  BY <1>2, <1>4
<1>6. Agree(schema, pages, records, index)
  BY <1>4 DEF AgreeInv
<1>7. Agree(schema, Seen', records, Reindexed(t, p, pages[p], Seen'[p]))
  BY <1>2, <1>5, <1>6, ReindexedAgree
<1>8. QED
  BY <1>1, <1>5, <1>7 DEF AgreeInv

LEMMA AgreeDeleteRow ==
  ASSUME StoreInv, AgreeInv, DeleteRow
  PROVE  AgreeInv'
<1>. DEFINE t == stmt.table
            p == stmt.page
<1>1. /\ stmt # Idle /\ stmt.busy /\ stmt.kind = "delete"
      /\ pages' = [pages EXCEPT ![p] = Deleted]
      /\ records' = [records EXCEPT ![t] = @ \ {p}]
      /\ stmt' = RowDone
      /\ schema' = schema /\ index' = index /\ savepoint' = savepoint
  BY DEF DeleteRow, Running
<1>2. p \in stmt.todo
  BY <1>1 DEF StoreInv, StatementOK
<1>3. /\ stmt \in StatementRecord /\ t \in Tables
      /\ \A u \in Tables : u # t => p \notin records[u]
      /\ \A u \in Tables : records[u] \subseteq 1..Len(pages)
      /\ p \in 1..Len(pages) /\ pages \in Seq(TableRow \cup {Deleted})
      /\ records \in [Tables -> SUBSET DOMAIN pages]
  BY <1>1, <1>2, RunningStatement, OnlyInOneTable DEF StoreInv, StoreOK, TablesOK
<1>4. stmt' # Idle /\ ~stmt'.busy
  BY <1>1, <1>3, NoRowIsRow, StatementGoesOn
<1>. HIDE DEF t, p
<1>5. Seen = [pages EXCEPT ![p] = NoRow] /\ Seen' = pages'
  BY <1>1, <1>4 DEF Seen, p
<1>6. \A u \in Tables : records'[u] = records[u] \ {p}
  BY <1>1, <1>3
<1>7. Seen[p] = NoRow /\ \A q \in 1..Len(pages) : q # p => Seen'[q] = Seen[q]
  BY <1>1, <1>3, <1>5
<1>8. ASSUME NEW u \in Tables, NEW c \in Indexed(schema[u]), NEW q
      PROVE  /\ q \in records[u] /\ Seen[q][c] # NULL
                   <=> q \in records'[u] /\ Seen'[q][c] # NULL
             /\ q \in records[u] /\ Seen[q][c] # NULL => Seen'[q][c] = Seen[q][c]
  <2>1. Seen[p][c] = NULL
    BY <1>7, NoRowIsRow DEF Indexed
  <2>2. q \in records[u] /\ q # p => Seen'[q] = Seen[q]
    BY <1>3, <1>7
  <2>3. QED
    BY <1>6, <2>1, <2>2
<1>9. Agree(schema, Seen, records, index)
  BY DEF AgreeInv
<1>10. Agree(schema, Seen', records', index)
  BY <1>8, <1>9, SameEntries
<1>11. QED
  BY <1>1, <1>10 DEF AgreeInv

LEMMA AgreeOk ==
  ASSUME StoreInv, AgreeInv, StatementOk
  PROVE  AgreeInv'
<1>1. /\ stmt # Idle /\ stmt.todo = {} /\ stmt' = Idle
      /\ schema' = schema /\ pages' = pages /\ records' = records /\ index' = index
  BY DEF StatementOk, store
<1>2. ~stmt.busy
  BY <1>1 DEF StoreInv, StatementOK
<1>3. Seen = pages /\ Seen' = pages
  BY <1>1, <1>2 DEF Seen
<1>4. QED
  BY <1>1, <1>3 DEF AgreeInv

LEMMA AgreeFail ==
  ASSUME AgreeInv, StatementFail
  PROVE  AgreeInv'
<1>1. /\ stmt # Idle /\ stmt' = Idle
      /\ schema' = savepoint[1] /\ pages' = savepoint[2]
      /\ records' = savepoint[3] /\ index' = savepoint[4]
  BY DEF StatementFail
<1>2. Seen' = pages'
  BY <1>1 DEF Seen
<1>3. QED
  BY <1>1, <1>2 DEF AgreeInv

LEMMA AgreeStep == OwnIndexes /\ StoreInv /\ AgreeInv /\ [Next]_vars => AgreeInv'
<1>1. SUFFICES ASSUME OwnIndexes, StoreInv, AgreeInv, [Next]_vars PROVE AgreeInv'
  OBVIOUS
<1>2. ASSUME NEW t \in Tables, NEW s \in Schemas, CreateTable(t, s) PROVE AgreeInv'
  BY <1>1, <1>2, AgreeCreate
<1>3. ASSUME NEW t \in Tables, DropTable(t) PROVE AgreeInv'
  BY <1>1, <1>3, AgreeDrop
<1>4. ASSUME NEW t \in Tables, NEW row \in Inserts, InsertRow(t, row) PROVE AgreeInv'
  BY <1>1, <1>4, AgreeInsert
<1>5. ASSUME NEW t \in Tables, NEW w \in Wheres, NEW a \in Assignments,
             Start("update", t, w, a)
      PROVE  AgreeInv'
  BY <1>1, <1>5, AgreeStart
<1>6. ASSUME NEW t \in Tables, NEW w \in Wheres, Start("delete", t, w, <<>>)
      PROVE  AgreeInv'
  BY <1>1, <1>6, AgreeStart
<1>7. ASSUME NEW p \in DOMAIN pages, UpdateRow(p) \/ DeleteEntries(p) PROVE AgreeInv'
  BY <1>1, <1>7, AgreeUpdateRow, AgreeDeleteEntries
<1>8. CASE UpdateEntries
  BY <1>1, <1>8, AgreeUpdateEntries
<1>9. CASE DeleteRow
  BY <1>1, <1>9, AgreeDeleteRow
<1>10. CASE StatementOk
  BY <1>1, <1>10, AgreeOk
<1>11. CASE StatementFail
  BY <1>1, <1>11, AgreeFail
<1>12. CASE UNCHANGED vars
  BY <1>1, <1>12 DEF vars, AgreeInv, Seen
<1>13. QED
  BY <1>1, <1>2, <1>3, <1>4, <1>5, <1>6, <1>7, <1>8, <1>9, <1>10, <1>11, <1>12 DEF Next

\* Indexes and rows agree in the sense of AgreeInv.
LEMMA AgreeInvariant == OwnIndexes => (Spec => [](StoreInv /\ AgreeInv))
<1>1. OwnIndexes => OwnIndexes'
  BY DEF OwnIndexes
<1>2. OwnIndexes /\ StoreInv /\ AgreeInv /\ [Next]_vars => AgreeInv'
  BY AgreeStep
<1>3. QED
  BY <1>1, <1>2, AgreeInit, StoreInvariant, PTL DEF Spec

\* If every column of every table has an index of its own, an index has exactly
\* the entries of the live rows of its table, after any statements and failures.
THEOREM IndexesTheorem == OwnIndexes => (Spec => []IndexesAgree)
<1>1. AgreeInv => IndexesAgree
  <2>1. stmt = Idle \/ ~stmt.busy => Seen = pages
    BY DEF Seen
  <2>2. ASSUME Agree(schema, pages, records, index) PROVE IndexesAgree
    BY <2>2 DEF Agree, IndexesAgree, Existing, Entries, EntriesOf, EntriesOfRows
  <2>3. ~(stmt = Idle \/ ~stmt.busy) => IndexesAgree
    BY DEF IndexesAgree
  <2>4. QED
    BY <2>1, <2>2, <2>3 DEF AgreeInv
<1>2. QED
  BY <1>1, AgreeInvariant, PTL

-----------------------------------------------------------------------------
(* Plans *)

LEMMA LeastNumber ==
  ASSUME NEW S, S \subseteq Nat, S # {}
  PROVE  \E m \in S : \A k \in S : m <= k
<1> DEFINE Below == {pair \in Nat \X Nat : pair[1] < pair[2]}
<1>1. IsWellFoundedOn(Below, Nat)
  BY NatLessThanWellFounded DEF OpToRel
<1> HIDE DEF Below
<1>2. PICK m \in S : \A k \in S : <<k, m>> \notin Below
  BY <1>1, WFMin, Zenon
<1>3. \A k \in S : k < m => <<k, m>> \in Below
  BY DEF Below
<1>4. \A k \in S : ~(k < m)
  BY <1>2, <1>3, Zenon
<1>5. \A k \in S : m <= k
  BY <1>4
<1>6. QED
  BY <1>5

\* Short circuits end early with another result only.
LEMMA AllHaveTheResult ==
  ASSUME NEW n \in Nat, NEW r, DOMAIN r = 1..n, NEW v, ShortCircuit(r, v) = v
  PROVE  \A i \in 1..n : r[i] = v
<1> DEFINE Others == {i \in 1..n : r[i] # v}
           Decides(i) == r[i] # v /\ \A j \in 1..(i - 1) : r[j] = v
<1>1. SUFFICES ASSUME Others # {} PROVE FALSE
  OBVIOUS
<1>2. PICK m \in Others : \A k \in Others : m <= k
  <2>1. Others \subseteq Nat
    OBVIOUS
  <2> HIDE DEF Others
  <2>2. QED
    BY <1>1, <2>1, LeastNumber
<1>3. Decides(m)
  BY <1>2
<1>4. m \in DOMAIN r
  BY <1>2
<1>5. ShortCircuit(r, v) = r[CHOOSE i \in DOMAIN r : Decides(i)]
  BY <1>1 DEF ShortCircuit
<1> HIDE DEF Decides
<1>6. Decides(CHOOSE i \in DOMAIN r : Decides(i))
  BY <1>3, <1>4
<1>7. QED
  BY <1>5, <1>6 DEF Decides

\* An OR of one comparison is that comparison.
LEMMA OneComparison ==
  ASSUME NEW r, DOMAIN r = 1..1, ShortCircuit(r, "false") = "true"
  PROVE  r[1] = "true"
<1>1. DOMAIN r = {1}
  OBVIOUS
<1>2. \A i \in DOMAIN r : i = 1
  BY <1>1
<1>3. r[1] # "false"
  BY <1>1, <1>2 DEF ShortCircuit
<1>4. \A j \in 1..0 : r[j] = "false"
  OBVIOUS
<1> DEFINE Decides(i) == r[i] # "false" /\ \A j \in 1..(i - 1) : r[j] = "false"
<1>5. Decides(1)
  BY <1>3, <1>4
<1>6. ShortCircuit(r, "false") = r[CHOOSE i \in DOMAIN r : Decides(i)]
  BY <1>1, <1>3 DEF ShortCircuit
<1> HIDE DEF Decides
<1>7. (CHOOSE i \in DOMAIN r : Decides(i)) = 1
  BY <1>1, <1>2, <1>5
<1>8. QED
  BY <1>6, <1>7

\* A comparison that is true has an order where it needs one.
LEMMA TrueComparison ==
  ASSUME NEW c, NEW row, NEW a, NEW b, a = ValueOf(c.left, row), b = ValueOf(c.right, row),
         Compare(c, row) = "true"
  PROVE  Satisfies(c.op, a, b) /\ (c.op \in {"=", "!="} \/ Ordered(a, b))
<1>1. Compare(c, row) = IF c.op \notin {"=", "!="} /\ ~Ordered(a, b) THEN "error"
                        ELSE IF Satisfies(c.op, a, b) THEN "true" ELSE "false"
  BY Zenon DEF Compare
<1>2. QED
  BY <1>1, Zenon

LEMMA IndexedColumns == ASSUME NEW s PROVE Indexed(s) \subseteq Columns
  BY Zenon DEF Indexed

\* A row that a clause selects satisfies each term of it that an index can answer,
\* also when the term has the literal on the left.
LEMMA CandidateIsSatisfied ==
  ASSUME NEW s, NEW w \in Wheres, NEW row \in TableRow, NEW i \in Candidates(s, w),
         Indexed(s) \subseteq Columns, Eval(w, row) = "true"
  PROVE  LET l == LookupOf(w[i][1])
         IN row[l.column] # NULL /\ Satisfies(l.op, row[l.column], l.value)
<1> DEFINE c == w[i][1]
           l == LookupOf(c)
           Term(t) == ShortCircuit([k \in DOMAIN t |-> Compare(t[k], row)], "false")
<1>1. /\ DOMAIN w = 1..Len(w) /\ Len(w) \in Nat /\ i \in DOMAIN w
      /\ DOMAIN w[i] = 1..1
      /\ c.op \in Operators /\ IsLookup(c)
      /\ l.column \in Columns /\ l.value # NULL /\ l.op # "!="
  BY WheresAssumption DEF IsWhere, Candidates
<1>2. Term(w[i]) = "true"
  <2> DEFINE r == [k \in DOMAIN w |-> Term(w[k])]
  <2>1. ShortCircuit(r, "true") = "true"
    BY DEF Eval
  <2>2. DOMAIN r = 1..Len(w)
    BY <1>1
  <2> HIDE DEF r
  <2>3. r[i] = "true"
    BY <1>1, <2>1, <2>2, AllHaveTheResult
  <2>4. QED
    BY <1>1, <2>3 DEF r
<1>3. Compare(c, row) = "true"
  <2> DEFINE r == [k \in DOMAIN w[i] |-> Compare(w[i][k], row)]
  <2>1. DOMAIN r = 1..1 /\ r[1] = Compare(c, row)
    BY <1>1
  <2>2. ShortCircuit(r, "false") = "true"
    BY <1>2
  <2> HIDE DEF r
  <2>3. QED
    BY <2>1, <2>2, OneComparison
<1>4. /\ ValueOf(Column(l.column), row) = row[l.column]
      /\ row[l.column] \in Int \cup {NULL}
  BY <1>1 DEF ValueOf, Column, TableRow
<1>5. CASE c.left.kind = "column"
  <2>1. c.right.kind = "literal"
    BY <1>1, <1>5 DEF IsLookup
  <2>2. ValueOf(c.left, row) = row[l.column] /\ ValueOf(c.right, row) = l.value
    BY <1>5, <2>1 DEF ValueOf, LookupOf
  <2>3. l.op = c.op
    BY <1>5 DEF LookupOf
  <2> HIDE DEF c, l
  <2>4. Satisfies(l.op, row[l.column], l.value)
    BY <1>3, <2>2, <2>3, TrueComparison
  <2>5. l.op = "=" \/ Ordered(row[l.column], l.value)
    BY <1>1, <1>3, <2>2, <2>3, TrueComparison
  <2>6. row[l.column] # NULL
    BY <1>1, <2>4, <2>5, NullAssumption DEF Ordered, Satisfies
  <2>7. QED
    BY <2>4, <2>6 DEF l, c
<1>6. CASE c.left.kind # "column"
  <2>1. c.left.kind = "literal" /\ c.right.kind = "column"
    BY <1>1, <1>6 DEF IsLookup
  <2>2. ValueOf(c.right, row) = row[l.column] /\ ValueOf(c.left, row) = l.value
    BY <1>6, <2>1 DEF ValueOf, LookupOf
  <2>3. l.op = Reversed(c.op)
    BY <1>6 DEF LookupOf
  <2> HIDE DEF c, l
  <2>4. Satisfies(c.op, l.value, row[l.column])
    BY <1>3, <2>2, TrueComparison
  <2>5. c.op # "!="
    BY <1>1, <2>3 DEF Reversed
  <2>6. c.op = "=" \/ Ordered(l.value, row[l.column])
    BY <1>3, <2>2, <2>5, TrueComparison
  <2>7. row[l.column] # NULL
    BY <1>1, <2>4, <2>5, <2>6, NullAssumption DEF Ordered, Satisfies
  <2>8. Satisfies(l.op, row[l.column], l.value)
    BY <1>1, <2>3, <2>4, <2>5, <2>6 DEF Ordered, Satisfies, Reversed, Operators
  <2>9. QED
    BY <2>7, <2>8 DEF l, c
<1>7. QED
  BY <1>5, <1>6

\* The plan takes one of the terms that an index can answer.
LEMMA LookupIsCandidate ==
  ASSUME NEW s, NEW w \in Wheres, Candidates(s, w) # {}
  PROVE  \E i \in Candidates(s, w) : Lookup(s, w) = LookupOf(w[i][1])
<1> DEFINE Leftmost(i) == \A j \in Candidates(s, w) : i <= j
<1>1. Candidates(s, w) \subseteq Nat
  BY WheresAssumption DEF IsWhere, Candidates
<1>2. \E i \in Candidates(s, w) : Leftmost(i)
  BY <1>1, LeastNumber
<1> HIDE DEF Leftmost
<1>3. (CHOOSE i \in Candidates(s, w) : Leftmost(i)) \in Candidates(s, w)
  BY <1>2
<1>4. Lookup(s, w) = LookupOf(w[CHOOSE i \in Candidates(s, w) : Leftmost(i)][1])
  BY DEF Lookup, Leftmost
<1>5. QED
  BY <1>3, <1>4

\* A plan that gives no error finds the rows that a scan of the whole table finds.
LEMMA PlanFindsSelected ==
  ASSUME StoreInv, AgreeInv, stmt = Idle, NEW t \in Existing, NEW w \in Wheres
  PROVE  Matching(t, w) = {p \in records[t] : Eval(w, pages[p]) = "true"}
<1>1. ASSUME NEW p \in records[t], Eval(w, pages[p]) = "true"
      PROVE  p \in Fetched(t, w)
  <2> DEFINE s == schema[t]
  <2>1. CASE Candidates(s, w) = {}
    BY <1>1, <2>1 DEF Fetched
  <2>2. CASE Candidates(s, w) # {}
    <3>1. t \in Tables /\ s # NoTable /\ TablesOK(schema, pages, records)
      BY DEF StoreInv, StoreOK, Existing
    <3>2. pages[p] \in TableRow
      BY <1>1, <3>1, DeletedAssumption DEF TablesOK
    <3>3. Indexed(s) \subseteq Columns
      BY IndexedColumns
    <3>4. PICK i \in Candidates(s, w) : Lookup(s, w) = LookupOf(w[i][1])
      BY <2>2, LookupIsCandidate
    <3> DEFINE l == LookupOf(w[i][1])
    <3>5. pages[p][l.column] # NULL /\ Satisfies(l.op, pages[p][l.column], l.value)
      BY <1>1, <3>2, <3>3, CandidateIsSatisfied
    <3>6. l.column \in Indexed(s)
      BY DEF Candidates
    <3> HIDE DEF l
    <3>7. Entries(t, l.column) = EntriesOf(pages, records, t, l.column)
      BY <3>1, <3>6 DEF AgreeInv, Agree, Seen, Entries
    <3>8. EntryOf(t, p, pages[p], l.column) \in Entries(t, l.column)
      BY <1>1, <3>5, <3>7 DEF EntriesOf
    <3>9. Fetched(t, w) =
            {q \in records[t] : \E e \in Entries(t, l.column) :
               e.table = t /\ e.page = q /\ Satisfies(l.op, e.key, l.value)}
      BY <2>2, <3>4 DEF Fetched, l
    <3>10. QED
      BY <1>1, <3>5, <3>8, <3>9 DEF EntryOf
  <2>3. QED
    BY <2>1, <2>2
<1>2. Fetched(t, w) \subseteq records[t]
  BY DEF Fetched
<1>3. QED
  BY <1>1, <1>2 DEF Matching

\* Where both give rows and no error, the plan with an index finds the rows that a
\* scan of the whole table finds, whatever the clause, if every column has an index
\* of its own: planner.py and executor.py agree on what an index can answer.
THEOREM PlansTheorem == OwnIndexes => (Spec => []IndexScanMatchesTableScan)
<1>1. StoreInv /\ AgreeInv => IndexScanMatchesTableScan
  BY PlanFindsSelected DEF IndexScanMatchesTableScan
<1>2. QED
  BY <1>1, AgreeInvariant, PTL

-----------------------------------------------------------------------------
(* How far a statement is *)

LEMMA ProgressInit == Init => ProgressInv
  BY DEF Init, ProgressInv

\* Statements that are over, and those that were not one.
LEMMA ProgressIdle ==
  ASSUME stmt' = Idle
  PROVE  ProgressInv'
  BY DEF ProgressInv

LEMMA ProgressInsert ==
  ASSUME StoreInv, NEW t \in Tables, NEW row \in Inserts, InsertRow(t, row)
  PROVE  ProgressInv'
<1>1. /\ pages' = Append(pages, row)
      /\ records' = [records EXCEPT ![t] = @ \cup {Len(pages) + 1}]
      /\ savepoint' = store /\ schema' = schema
      /\ stmt'.kind = "insert" /\ stmt'.table = t
  BY DEF InsertRow, Statement
<1>2. /\ savepoint'[1] = schema /\ savepoint'[2] = pages /\ savepoint'[3] = records
  BY <1>1 DEF store
<1>3. InsertInv(savepoint[2], savepoint[3])'
  BY <1>1, <1>2 DEF InsertInv
<1>4. QED
  BY <1>1, <1>2, <1>3 DEF ProgressInv

LEMMA ProgressStart ==
  ASSUME StoreInv, AgreeInv, NEW t \in Tables, NEW w \in Wheres,
         NEW kind \in {"update", "delete"}, NEW a, kind = "update" => a \in Assignments,
         Start(kind, t, w, a)
  PROVE  ProgressInv'
<1>1. /\ stmt = Idle /\ t \in Existing /\ UNCHANGED <<schema, pages, records, index>>
      /\ savepoint' = store
      /\ stmt'.kind = kind /\ stmt'.table = t /\ stmt'.assignment = a
      /\ stmt'.busy = FALSE /\ stmt'.todo = Matching(t, w)
  BY DEF Start, Statement, Existing, store
<1>2. stmt'.todo = SelectedRows(pages, records[t], w)
  BY <1>1, PlanFindsSelected DEF SelectedRows
<1>3. savepoint'[1] = schema /\ savepoint'[2] = pages /\ savepoint'[3] = records
  BY <1>1 DEF store
<1>4. kind = "update" => UpdateInv(savepoint[2], savepoint[3])'
  BY <1>1, <1>2, <1>3 DEF UpdateInv, Untouched
<1>5. kind = "delete" => DeleteInv(savepoint[2], savepoint[3])'
  <2>1. records = [records EXCEPT ![t] = @ \ ({} \ {})]
    BY DEF StoreInv, StoreOK, TablesOK
  <2>2. QED
    BY <1>1, <1>2, <1>3, <2>1 DEF DeleteInv
<1>6. QED
  BY <1>1, <1>3, <1>4, <1>5 DEF ProgressInv

LEMMA ProgressUpdateRow ==
  ASSUME StoreInv, ProgressInv, NEW p, UpdateRow(p)
  PROVE  ProgressInv'
<1>. DEFINE pg == savepoint[2]
            rc == savepoint[3]
            t == stmt.table
<1>1. /\ stmt # Idle /\ stmt.kind = "update" /\ ~stmt.busy /\ p \in stmt.todo
      /\ pages' = [pages EXCEPT ![p] = Assigned(pages[p], stmt.assignment)]
      /\ stmt' = Busy(p, pages[p])
      /\ schema' = schema /\ records' = records /\ savepoint' = savepoint
  BY DEF UpdateRow, Running
<1>2. /\ stmt \in StatementRecord /\ t \in Tables /\ stmt.todo \subseteq records[t]
      /\ p \in 1..Len(pages) /\ pages[p] \in TableRow
  BY <1>1, RunningStatement
<1>3. /\ stmt'.kind = "update" /\ stmt'.table = t /\ stmt'.todo = stmt.todo
      /\ stmt'.assignment = stmt.assignment /\ stmt'.busy /\ stmt'.page = p
  BY <1>1, <1>2 DEF StatementRecord, Busy
<1>4. PICK w \in Wheres :
        /\ stmt.todo \subseteq SelectedRows(pg, rc[t], w)
        /\ stmt.assignment \in Assignments
        /\ records = rc
        /\ \A u \in Tables : \A q \in rc[u] :
             pages[q] = IF q \in SelectedRows(pg, rc[t], w) \ Untouched
                        THEN Assigned(pg[q], stmt.assignment) ELSE pg[q]
  BY <1>1 DEF ProgressInv, UpdateInv
<1>. DEFINE selected == SelectedRows(pg, rc[t], w)
<1>5. Untouched = stmt.todo /\ Untouched' = stmt.todo \ {p}
  BY <1>1, <1>3 DEF Untouched
<1>6. pages[p] = pg[p]
  BY <1>1, <1>2, <1>4, <1>5
<1>7. p \in selected
  BY <1>1, <1>4
<1>8. selected' = selected
  BY <1>1, <1>3 DEF SelectedRows
<1>. HIDE DEF selected
<1>9. ASSUME NEW u \in Tables, NEW q \in rc[u]
      PROVE  pages'[q] = IF q \in selected \ Untouched'
                         THEN Assigned(pg[q], stmt.assignment) ELSE pg[q]
  <2>1. CASE q = p
    <3>1. pages'[p] = Assigned(pg[p], stmt.assignment)
      <4>1. pages \in Seq(TableRow \cup {Deleted})
        BY DEF StoreInv, StoreOK, TablesOK
      <4>2. QED
        BY <1>1, <1>2, <1>6, <4>1
    <3>2. QED
      BY <2>1, <3>1, <1>5, <1>7
  <2>2. CASE q # p
    <3>1. pages'[q] = pages[q]
      <4>1. pages \in Seq(TableRow \cup {Deleted}) /\ q \in DOMAIN pages
        BY <1>4 DEF StoreInv, StoreOK, TablesOK
      <4>2. QED
        BY <1>1, <2>2, <4>1
    <3>2. q \in selected \ Untouched' <=> q \in selected \ Untouched
      BY <2>2, <1>5
    <3>3. QED
      BY <3>1, <3>2, <1>4 DEF selected
  <2>3. QED
    BY <2>1, <2>2
<1>10. UpdateInv(savepoint[2], savepoint[3])'
  BY <1>1, <1>3, <1>4, <1>9 DEF UpdateInv, selected
<1>11. QED
  BY <1>1, <1>3, <1>10 DEF ProgressInv

LEMMA ProgressUpdateEntries ==
  ASSUME StoreInv, ProgressInv, UpdateEntries
  PROVE  ProgressInv'
<1>1. /\ stmt # Idle /\ stmt.busy /\ stmt.kind # "delete" /\ stmt' = RowDone
      /\ UNCHANGED <<schema, pages, records, savepoint>>
  BY DEF UpdateEntries, Running
<1>2. stmt \in StatementRecord
  BY <1>1, RunningStatement
<1>3. /\ stmt'.kind = stmt.kind /\ stmt'.table = stmt.table
      /\ stmt'.assignment = stmt.assignment
      /\ ~stmt'.busy /\ stmt'.todo = stmt.todo \ {stmt.page}
  BY <1>1, <1>2 DEF StatementRecord, RowDone
<1>4. stmt.kind = "insert" => ProgressInv'
  BY <1>1, <1>3 DEF ProgressInv, InsertInv
<1>5. ASSUME stmt.kind = "update"
      PROVE  ProgressInv'
  <2>1. Untouched' = Untouched
    BY <1>1, <1>3, <1>5 DEF Untouched
  <2>2. UpdateInv(savepoint[2], savepoint[3])
    BY <1>1, <1>5 DEF ProgressInv
  <2>3. UpdateInv(savepoint[2], savepoint[3])'
    BY <1>1, <1>3, <2>1, <2>2 DEF UpdateInv
  <2>4. QED
    BY <1>1, <1>3, <1>5, <2>3 DEF ProgressInv
<1>6. QED
  BY <1>1, <1>2, <1>4, <1>5 DEF StatementRecord

LEMMA ProgressDeleteEntries ==
  ASSUME StoreInv, ProgressInv, NEW p, DeleteEntries(p)
  PROVE  ProgressInv'
<1>1. /\ stmt # Idle /\ stmt.kind = "delete" /\ stmt' = Busy(p, pages[p])
      /\ UNCHANGED <<schema, pages, records, savepoint>>
  BY DEF DeleteEntries, Running
<1>2. stmt \in StatementRecord
  BY <1>1, RunningStatement
<1>3. /\ stmt'.kind = "delete" /\ stmt'.table = stmt.table /\ stmt'.todo = stmt.todo
  BY <1>1, <1>2 DEF StatementRecord, Busy
<1>4. QED
  BY <1>1, <1>3 DEF ProgressInv, DeleteInv

LEMMA ProgressDeleteRow ==
  ASSUME StoreInv, ProgressInv, DeleteRow
  PROVE  ProgressInv'
<1>. DEFINE pg == savepoint[2]
            rc == savepoint[3]
            t == stmt.table
            p == stmt.page
<1>1. /\ stmt # Idle /\ stmt.kind = "delete" /\ stmt.busy /\ stmt' = RowDone
      /\ pages' = [pages EXCEPT ![p] = Deleted]
      /\ records' = [records EXCEPT ![t] = @ \ {p}]
      /\ schema' = schema /\ savepoint' = savepoint
  BY DEF DeleteRow, Running
<1>2. /\ stmt \in StatementRecord /\ t \in Tables /\ p \in stmt.todo
      /\ stmt.todo \subseteq records[t]
  BY <1>1, RunningStatement DEF StoreInv, StatementOK
<1>3. stmt'.kind = "delete" /\ stmt'.table = t /\ stmt'.todo = stmt.todo \ {p}
  BY <1>1, <1>2 DEF StatementRecord, RowDone
<1>4. /\ pages \in Seq(TableRow \cup {Deleted}) /\ records \in [Tables -> SUBSET DOMAIN pages]
      /\ \A u \in Tables : u # t => records[u] \cap records[t] = {}
      /\ rc \in [Tables -> SUBSET DOMAIN pg]
  BY <1>1, <1>2 DEF StoreInv, SavepointOK, StoreOK, TablesOK
<1>5. PICK w \in Wheres :
        /\ stmt.todo \subseteq SelectedRows(pg, rc[t], w)
        /\ records = [rc EXCEPT ![t] = @ \ (SelectedRows(pg, rc[t], w) \ stmt.todo)]
        /\ \A u \in Tables : \A q \in records[u] : pages[q] = pg[q]
  BY <1>1 DEF ProgressInv, DeleteInv
<1>. DEFINE selected == SelectedRows(pg, rc[t], w)
<1>6. p \in selected
  BY <1>2, <1>5
<1>. HIDE DEF selected
<1>7. records' = [rc EXCEPT ![t] = @ \ (selected \ (stmt.todo \ {p}))]
  BY <1>1, <1>2, <1>4, <1>5, <1>6 DEF selected
<1>8. ASSUME NEW u \in Tables, NEW q \in records'[u]
      PROVE  pages'[q] = pg[q]
  <2>1. q \in records[u] /\ q # p
    BY <1>1, <1>2, <1>4, <1>8
  <2>2. QED
    BY <1>1, <1>4, <1>5, <2>1
<1>9. selected' = selected
  BY <1>1, <1>3 DEF selected, SelectedRows
<1>10. stmt.todo \ {p} \subseteq selected
  BY <1>5 DEF selected
<1>11. DeleteInv(savepoint[2], savepoint[3])'
  BY <1>1, <1>3, <1>7, <1>8, <1>10 DEF DeleteInv, selected
<1>12. QED
  BY <1>1, <1>3, <1>11 DEF ProgressInv

LEMMA ProgressStep ==
  OwnIndexes /\ StoreInv /\ AgreeInv /\ ProgressInv /\ [Next]_vars => ProgressInv'
<1>1. SUFFICES ASSUME OwnIndexes, StoreInv, AgreeInv, ProgressInv, [Next]_vars
               PROVE  ProgressInv'
  OBVIOUS
<1>2. ASSUME NEW t \in Tables, NEW s \in Schemas, CreateTable(t, s) PROVE ProgressInv'
  BY <1>2, ProgressIdle DEF CreateTable
<1>3. ASSUME NEW t \in Tables, DropTable(t) PROVE ProgressInv'
  BY <1>3, ProgressIdle DEF DropTable
<1>4. ASSUME NEW t \in Tables, NEW row \in Inserts, InsertRow(t, row) PROVE ProgressInv'
  BY <1>1, <1>4, ProgressInsert
<1>5. ASSUME NEW t \in Tables, NEW w \in Wheres, NEW a \in Assignments,
             Start("update", t, w, a)
      PROVE  ProgressInv'
  BY <1>1, <1>5, ProgressStart
<1>6. ASSUME NEW t \in Tables, NEW w \in Wheres, Start("delete", t, w, <<>>)
      PROVE  ProgressInv'
  BY <1>1, <1>6, ProgressStart
<1>7. ASSUME NEW p \in DOMAIN pages, UpdateRow(p) \/ DeleteEntries(p) PROVE ProgressInv'
  BY <1>1, <1>7, ProgressUpdateRow, ProgressDeleteEntries
<1>8. CASE UpdateEntries
  BY <1>1, <1>8, ProgressUpdateEntries
<1>9. CASE DeleteRow
  BY <1>1, <1>9, ProgressDeleteRow
<1>10. CASE StatementOk \/ StatementFail
  BY <1>10, ProgressIdle DEF StatementOk, StatementFail
<1>11. CASE UNCHANGED vars
  BY <1>1, <1>11 DEF vars, ProgressInv, InsertInv, UpdateInv, DeleteInv, Untouched
<1>12. QED
  BY <1>1, <1>2, <1>3, <1>4, <1>5, <1>6, <1>7, <1>8, <1>9, <1>10, <1>11 DEF Next

\* If every column of every table has an index of its own, the whole invariant holds,
\* in the middle of a statement as well.
THEOREM DmlInvariantTheorem == OwnIndexes => (Spec => []DmlInvariant)
<1>1. OwnIndexes => OwnIndexes'
  BY DEF OwnIndexes
<1>2. StoreInv /\ AgreeInv /\ ProgressInv => DmlInvariant
  BY DEF DmlInvariant
<1>3. QED
  BY <1>1, <1>2, ProgressInit, ProgressStep, AgreeInvariant, PTL DEF Spec
-----------------------------------------------------------------------------
(* What statements do to sets of rows *)

\* The content of the tables, as Relations has it.
Content(pg, rc) == [t \in Tables |-> [p \in rc[t] |-> pg[p]]]

\* Relations reads clauses and rows in the same way.
LEMMA SameReading ==
  ASSUME NEW s, NEW w, NEW r, NEW q, NEW a
  PROVE  /\ R!Valid(s, r) = Valid(s, r)
         /\ R!Collide(s, r, q) = Collide(s, r, q)
         /\ R!Assigned(r, a) = Assigned(r, a)
         /\ R!Eval(w, r) = Eval(w, r)
<1>1. R!Valid(s, r) = Valid(s, r)
  BY DEF R!Valid, Valid, R!NotNull, NotNull, R!HasType, HasType
<1>2. R!Collide(s, r, q) = Collide(s, r, q)
  BY DEF R!Collide, Collide, R!Indexed, Indexed
<1>3. \A o : R!ValueOf(o, r) = ValueOf(o, r)
  BY DEF R!ValueOf, ValueOf
<1>4. R!Assigned(r, a) = Assigned(r, a)
  BY <1>3 DEF R!Assigned, Assigned
<1>5. \A c : R!Compare(c, r) = Compare(c, r)
  BY <1>3 DEF R!Compare, Compare, R!Ordered, Ordered, R!Satisfies, Satisfies
<1>6. \A x, v : R!ShortCircuit(x, v) = ShortCircuit(x, v)
  BY DEF R!ShortCircuit, ShortCircuit
<1>7. R!Eval(w, r) = Eval(w, r)
  BY <1>5, <1>6 DEF R!Eval, Eval
<1>8. QED
  BY <1>1, <1>2, <1>4, <1>7

LEMMA NoRows == ASSUME NEW pg PROVE [p \in {} |-> pg[p]] = <<>>
OBVIOUS

\* Keys and types of rows are what Relations asks for.
LEMMA ConsistentRows ==
  ASSUME NEW sc, NEW pg, NEW rc, NEW t \in Tables, sc[t] # NoTable,
         TablesOK(sc, pg, rc), KeysOK(sc, pg, rc)
  PROVE  R!Consistent(sc[t], [p \in rc[t] |-> pg[p]])
<1>1. \A p \in rc[t] : pg[p] \in TableRow
  BY LiveRow
<1>2. ASSUME NEW p \in rc[t] PROVE Valid(sc[t], pg[p])
  BY <1>1, <1>2 DEF KeysOK, Valid, HasType, TableRow
<1>3. ASSUME NEW p \in rc[t], NEW q \in rc[t], p # q
      PROVE  ~Collide(sc[t], pg[p], pg[q])
  BY <1>3 DEF KeysOK, Collide
<1>4. QED
  BY <1>2, <1>3, SameReading DEF R!Consistent

LEMMA InitImplements == Init => R!Init
<1>1. SUFFICES ASSUME Init PROVE R!Init
  OBVIOUS
<1>2. Shown[1] = schema /\ Shown[2] = pages /\ Shown[3] = records
  BY <1>1 DEF Init, Shown, store
<1>3. \A t \in Tables : [p \in records[t] |-> pages[p]] = <<>>
  BY <1>1, NoRows DEF Init
<1>4. QED
  BY <1>1, <1>2, <1>3 DEF Init, R!Init

LEMMA CreateImplements ==
  ASSUME StoreInv, NEW t \in Tables, NEW s \in Schemas, CreateTable(t, s)
  PROVE  R!Create(t, s)
<1>1. /\ Shown = store /\ Shown' = <<schema', pages, records, index'>>
  BY DEF CreateTable, Shown, store
<1>2. QED
  BY <1>1 DEF CreateTable, MayCreate, R!Create, store

LEMMA DropImplements ==
  ASSUME StoreInv, NEW t \in Tables, DropTable(t)
  PROVE  R!Drop(t)
<1>1. /\ Shown = store /\ Shown' = <<schema', pages, records', index>>
      /\ records' = [records EXCEPT ![t] = {}]
  BY DEF DropTable, Shown, store
<1>2. records \in [Tables -> SUBSET DOMAIN pages]
  BY DEF StoreInv, StoreOK, TablesOK
<1>3. Content(pages, records') = [Content(pages, records) EXCEPT ![t] = <<>>]
  BY <1>1, <1>2, NoRows DEF Content
<1>4. QED
  BY <1>1, <1>3 DEF DropTable, R!Drop, store, Content
\* The statement that is over started from tables as StoreInv has them.
LEMMA OverStatement ==
  ASSUME StoreInv, StoreInv', ProgressInv, StatementOk
  PROVE  /\ stmt # Idle /\ stmt \in StatementRecord /\ stmt.todo = {} /\ ~stmt.busy
         /\ stmt.table \in Tables /\ schema[stmt.table] # NoTable
         /\ Shown = savepoint /\ Shown' = store /\ savepoint[1] = schema
         /\ TablesOK(schema, pages, records) /\ KeysOK(schema, pages, records)
         /\ TablesOK(schema, savepoint[2], savepoint[3])
         /\ UNCHANGED <<schema, pages, records>>
<1>1. /\ stmt # Idle /\ stmt.todo = {} /\ stmt' = Idle /\ UNCHANGED store
  BY DEF StatementOk
<1>2. /\ stmt \in StatementRecord /\ schema[stmt.table] # NoTable
      /\ stmt.busy => stmt.page \in stmt.todo
      /\ StoreOK(savepoint[1], savepoint[2], savepoint[3], savepoint[4])
  BY <1>1 DEF StoreInv, StatementOK, SavepointOK
<1>3. Shown = savepoint /\ Shown' = store /\ UNCHANGED <<schema, pages, records>>
  BY <1>1 DEF Shown, store
<1>4. QED
  BY <1>1, <1>2, <1>3 DEF StoreInv, StoreOK, ProgressInv, StatementRecord

\* Selections, insertions, updates and deletions of Relations, read on pages and records.
LEMMA ShownContent ==
  ASSUME NEW t \in Tables
  PROVE  LET content == [u \in Tables |-> [p \in Shown[3][u] |-> Shown[2][p]]]
         IN /\ DOMAIN content[t] = Shown[3][t]
            /\ \A p \in Shown[3][t] : content[t][p] = Shown[2][p]
OBVIOUS

LEMMA ShownSelected ==
  ASSUME NEW t \in Tables, NEW w
  PROVE  R!Selected(t, w) = SelectedRows(Shown[2], Shown[3][t], w)
<1>1. \A p : R!Eval(w, Shown[2][p]) = Eval(w, Shown[2][p])
  BY SameReading
<1>2. QED
  BY <1>1, ShownContent DEF R!Selected, SelectedRows

LEMMA ShownInsert ==
  ASSUME NEW t \in Tables, NEW row \in Inserts, NEW id \in 1..MaxPages, id \notin Shown[3][t],
         NEW rows, rows = [p \in Shown[3][t] \cup {id} |->
                       IF p = id THEN row ELSE Shown[2][p]],
         Shown[1][t] # NoTable, R!Consistent(Shown[1][t], rows), Shown[1]' = Shown[1],
         [u \in Tables |-> [p \in Shown[3][u] |-> Shown[2][p]]]'
           = [[u \in Tables |-> [p \in Shown[3][u] |-> Shown[2][p]]] EXCEPT ![t] = rows]
  PROVE  R!Next
<1>. DEFINE content == [u \in Tables |-> [p \in Shown[3][u] |-> Shown[2][p]]]
            changed == [p \in DOMAIN content[t] \cup {id} |->
                       IF p = id THEN row ELSE content[t][p]]
<1>1. changed = rows
  BY ShownContent
<1>2. id \in 1..MaxPages \ DOMAIN content[t]
  BY ShownContent
<1>3. R!Insert(t, row)
  BY <1>1, <1>2 DEF R!Insert, R!Change
<1>4. QED
  BY <1>3 DEF R!Next

LEMMA ShownUpdate ==
  ASSUME NEW t \in Tables, NEW w \in Wheres, NEW a \in Assignments,
         NEW rows, rows = [p \in Shown[3][t] |->
                       IF p \in SelectedRows(Shown[2], Shown[3][t], w)
                       THEN Assigned(Shown[2][p], a) ELSE Shown[2][p]],
         Shown[1][t] # NoTable, R!Consistent(Shown[1][t], rows), Shown[1]' = Shown[1],
         [u \in Tables |-> [p \in Shown[3][u] |-> Shown[2][p]]]'
           = [[u \in Tables |-> [p \in Shown[3][u] |-> Shown[2][p]]] EXCEPT ![t] = rows]
  PROVE  R!Next
<1>. DEFINE content == [u \in Tables |-> [p \in Shown[3][u] |-> Shown[2][p]]]
            changed == [p \in DOMAIN content[t] |->
                       IF p \in R!Selected(t, w)
                       THEN R!Assigned(content[t][p], a) ELSE content[t][p]]
<1>1. \A p : R!Assigned(Shown[2][p], a) = Assigned(Shown[2][p], a)
  BY SameReading
<1>2. changed = rows
  BY <1>1, ShownContent, ShownSelected
<1>3. R!Update(t, w, a)
  BY <1>2 DEF R!Update, R!Change
<1>4. QED
  BY <1>3 DEF R!Next

LEMMA ShownDelete ==
  ASSUME NEW t \in Tables, NEW w \in Wheres,
         NEW rows, rows = [p \in Shown[3][t] \ SelectedRows(Shown[2], Shown[3][t], w) |->
                       Shown[2][p]],
         Shown[1][t] # NoTable, R!Consistent(Shown[1][t], rows), Shown[1]' = Shown[1],
         [u \in Tables |-> [p \in Shown[3][u] |-> Shown[2][p]]]'
           = [[u \in Tables |-> [p \in Shown[3][u] |-> Shown[2][p]]] EXCEPT ![t] = rows]
  PROVE  R!Next
<1>. DEFINE content == [u \in Tables |-> [p \in Shown[3][u] |-> Shown[2][p]]]
            changed == [p \in DOMAIN content[t] \ R!Selected(t, w) |-> content[t][p]]
<1>1. changed = rows
  BY ShownContent, ShownSelected
<1>2. R!Delete(t, w)
  BY <1>1 DEF R!Delete, R!Change
<1>3. QED
  BY <1>2 DEF R!Next

\* When a statement is over, the rows that it had to change have changed at once, and
\* those of other tables have not.
LEMMA StatementImplements ==
  ASSUME StoreInv, StoreInv', ProgressInv, StatementOk
  PROVE  R!Next
<1>. DEFINE t == stmt.table
            pg == savepoint[2]
            rc == savepoint[3]
            before == Content(pg, rc)
            after == Content(pages, records)
<1>1. /\ stmt # Idle /\ stmt \in StatementRecord /\ stmt.todo = {} /\ ~stmt.busy
      /\ t \in Tables /\ schema[t] # NoTable
      /\ Shown = savepoint /\ Shown' = store /\ savepoint[1] = schema
      /\ TablesOK(schema, pages, records) /\ KeysOK(schema, pages, records)
      /\ TablesOK(schema, pg, rc)
      /\ UNCHANGED <<schema, pages, records>>
  BY OverStatement
<1>2. Shown[1][t] # NoTable /\ R!Consistent(Shown[1][t], after[t]) /\ Shown[1]' = Shown[1]
  <2>1. R!Consistent(Shown[1][t], after[t])
    BY <1>1, ConsistentRows DEF Content
  <2>2. QED
    BY <1>1, <2>1 DEF store
<1>3. ASSUME \A u \in Tables : u # t => /\ records[u] = rc[u]
                                        /\ \A p \in rc[u] : pages[p] = pg[p]
      PROVE  [u \in Tables |-> [p \in Shown[3][u] |-> Shown[2][p]]]'
               = [[u \in Tables |-> [p \in Shown[3][u] |-> Shown[2][p]]]
                    EXCEPT ![t] = after[t]]
  <2>1. after = [before EXCEPT ![t] = after[t]]
    BY <1>3 DEF Content
  <2>2. [u \in Tables |-> [p \in Shown[3][u] |-> Shown[2][p]]]' = after
    BY <1>1 DEF Content, store
  <2>3. [u \in Tables |-> [p \in Shown[3][u] |-> Shown[2][p]]] = before
    BY <1>1 DEF Content
  <2>4. QED
    BY <2>1, <2>2, <2>3
<1>4. after[t] = [p \in records[t] |-> pages[p]]
  BY <1>1 DEF Content
<1>. HIDE DEF before, after
<1>5. CASE stmt.kind = "insert"
  <2>. DEFINE id == Len(pg) + 1
  <2>1. PICK row \in Inserts : /\ pages = Append(pg, row)
                               /\ records = [rc EXCEPT ![t] = @ \cup {id}]
    BY <1>1, <1>5 DEF ProgressInv, InsertInv
  <2>2. /\ pg \in Seq(TableRow \cup {Deleted}) /\ Len(pg) + 1 <= MaxPages
        /\ \A u \in Tables : \A p \in rc[u] : p \in 1..Len(pg)
        /\ rc \in [Tables -> SUBSET DOMAIN pg]
    BY <1>1, <2>1 DEF TablesOK
  <2>3. /\ \A u \in Tables : \A p \in rc[u] : pages[p] = pg[p] /\ p # id
        /\ pages[id] = row /\ id \in 1..MaxPages
    BY <2>1, <2>2
  <2>4. records[t] = rc[t] \cup {id} /\ \A u \in Tables : u # t => records[u] = rc[u]
    BY <1>1, <2>1, <2>2
  <2>5. [u \in Tables |-> [p \in Shown[3][u] |-> Shown[2][p]]]'
         = [[u \in Tables |-> [p \in Shown[3][u] |-> Shown[2][p]]] EXCEPT ![t] = after[t]]
    BY <1>3, <2>3, <2>4
  <2>6. row \in Inserts /\ id \in 1..MaxPages /\ id \notin Shown[3][t]
    BY <1>1, <2>1, <2>3
  <2>. HIDE DEF id
  <2>7. after[t] = [p \in Shown[3][t] \cup {id} |-> IF p = id THEN row ELSE Shown[2][p]]
    BY <1>1, <1>4, <2>3, <2>4
  <2>8. t \in Tables
    BY <1>1
  <2>9. PICK i \in 1..MaxPages :
          /\ i \notin Shown[3][t]
          /\ after[t] = [p \in Shown[3][t] \cup {i} |-> IF p = i THEN row ELSE Shown[2][p]]
    BY <2>6, <2>7
  <2>. HIDE DEF t
  <2>10. QED
    BY <1>2, <2>1, <2>5, <2>8, <2>9, ShownInsert
<1>6. CASE stmt.kind = "update"
  <2>1. PICK w \in Wheres :
          /\ stmt.assignment \in Assignments
          /\ records = rc
          /\ \A u \in Tables : \A p \in rc[u] :
               pages[p] = IF p \in SelectedRows(pg, rc[t], w)
                          THEN Assigned(pg[p], stmt.assignment) ELSE pg[p]
    BY <1>1, <1>6 DEF ProgressInv, UpdateInv, Untouched
  <2>2. \A u \in Tables : u # t => \A p \in rc[u] : p \notin SelectedRows(pg, rc[t], w)
    BY <1>1 DEF TablesOK, SelectedRows
  <2>3. [u \in Tables |-> [p \in Shown[3][u] |-> Shown[2][p]]]'
         = [[u \in Tables |-> [p \in Shown[3][u] |-> Shown[2][p]]] EXCEPT ![t] = after[t]]
    BY <1>3, <2>1, <2>2
  <2>4. after[t] = [p \in Shown[3][t] |->
                      IF p \in SelectedRows(Shown[2], Shown[3][t], w)
                      THEN Assigned(Shown[2][p], stmt.assignment) ELSE Shown[2][p]]
    BY <1>1, <1>4, <2>1
  <2>5. QED
    BY <1>1, <1>2, <2>1, <2>3, <2>4, ShownUpdate
<1>7. CASE stmt.kind = "delete"
  <2>1. PICK w \in Wheres :
          /\ records = [rc EXCEPT ![t] = @ \ SelectedRows(pg, rc[t], w)]
          /\ \A u \in Tables : \A p \in records[u] : pages[p] = pg[p]
    BY <1>1, <1>7 DEF ProgressInv, DeleteInv
  <2>2. /\ records[t] = rc[t] \ SelectedRows(pg, rc[t], w)
        /\ \A u \in Tables : u # t => records[u] = rc[u]
    BY <1>1, <2>1 DEF TablesOK
  <2>3. [u \in Tables |-> [p \in Shown[3][u] |-> Shown[2][p]]]'
         = [[u \in Tables |-> [p \in Shown[3][u] |-> Shown[2][p]]] EXCEPT ![t] = after[t]]
    BY <1>3, <2>1, <2>2
  <2>4. after[t] = [p \in Shown[3][t] \ SelectedRows(Shown[2], Shown[3][t], w) |->
                      Shown[2][p]]
    BY <1>1, <1>4, <2>1, <2>2
  <2>5. QED
    BY <1>1, <1>2, <2>1, <2>3, <2>4, ShownDelete
<1>8. QED
  BY <1>1, <1>5, <1>6, <1>7 DEF StatementRecord

\* The start of a statement, its steps, and its undoing if it fails, show nothing.
LEMMA HiddenSteps ==
  ASSUME StoreInv, StoreInv',
         \/ stmt = Idle /\ savepoint' = store
         \/ stmt # Idle /\ savepoint' = savepoint
         \/ StatementFail
  PROVE  Shown' = Shown
<1>1. savepoint' # <<>> => Shown' = savepoint'
  BY DEF StoreInv, Shown
<1>2. CASE stmt = Idle /\ savepoint' = store
  <2>1. savepoint' # <<>>
    BY <1>2 DEF store
  <2>2. QED
    BY <1>1, <1>2, <2>1 DEF Shown
<1>3. CASE stmt # Idle /\ savepoint' = savepoint
  <2>1. savepoint # <<>>
    BY <1>3 DEF StoreInv, SavepointOK
  <2>2. QED
    BY <1>1, <1>3, <2>1 DEF Shown
<1>4. CASE StatementFail
  <2>1. stmt # Idle /\ stmt' = Idle
        /\ store' = <<savepoint[1], savepoint[2], savepoint[3], savepoint[4]>>
    BY <1>4 DEF StatementFail, store
  <2>2. savepoint = <<savepoint[1], savepoint[2], savepoint[3], savepoint[4]>>
    BY <2>1 DEF StoreInv, SavepointOK
  <2>3. QED
    BY <2>1, <2>2 DEF Shown
<1>5. QED
  BY <1>2, <1>3, <1>4

LEMMA StepImplements ==
  ASSUME StoreInv, StoreInv', ProgressInv, [Next]_vars
  PROVE  [R!Next]_<<Shown[1], [t \in Tables |-> [p \in Shown[3][t] |-> Shown[2][p]]]>>
<1>1. ASSUME NEW t \in Tables, NEW s \in Schemas, CreateTable(t, s) PROVE R!Next
  BY <1>1, CreateImplements DEF R!Next
<1>2. ASSUME NEW t \in Tables, DropTable(t) PROVE R!Next
  BY <1>2, DropImplements DEF R!Next
<1>3. CASE StatementOk
  BY <1>3, StatementImplements
<1>4. CASE \/ \E t \in Tables, row \in Inserts : InsertRow(t, row)
           \/ \E t \in Tables, w \in Wheres, a \in Assignments : Start("update", t, w, a)
           \/ \E t \in Tables, w \in Wheres : Start("delete", t, w, <<>>)
  <2>1. stmt = Idle /\ savepoint' = store
    BY <1>4 DEF InsertRow, Start
  <2>2. QED
    BY <2>1, HiddenSteps
<1>5. CASE \/ \E p \in DOMAIN pages : UpdateRow(p) \/ DeleteEntries(p)
           \/ UpdateEntries \/ DeleteRow
  <2>1. stmt # Idle /\ savepoint' = savepoint
    BY <1>5 DEF UpdateRow, DeleteEntries, UpdateEntries, DeleteRow, Running
  <2>2. QED
    BY <2>1, HiddenSteps
<1>6. CASE StatementFail
  BY <1>6, HiddenSteps
<1>7. CASE UNCHANGED vars
  <2>1. Shown' = Shown
    BY <1>7 DEF vars, store, Shown
  <2>2. QED
    BY <2>1
<1>8. QED
  BY <1>1, <1>2, <1>3, <1>4, <1>5, <1>6, <1>7 DEF Next

\* Statements that work row by row on pages and indexes, look rows up through plans, and
\* undo what they did if they fail, change all rows that their clause selects or none,
\* and keep the constraints, if every column has an index of its own.
THEOREM RelationsTheorem == OwnIndexes => (Spec => ImplementsRelations)
<1>1. OwnIndexes => (Spec => [](StoreInv /\ ProgressInv))
  <2>1. DmlInvariant => StoreInv /\ ProgressInv
    BY DEF DmlInvariant
  <2>2. QED
    BY <2>1, DmlInvariantTheorem, PTL
<1>2. QED
  BY <1>1, InitImplements, StepImplements, PTL DEF Spec, ImplementsRelations, R!Spec
=============================================================================
