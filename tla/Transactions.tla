---------------------------- MODULE Transactions ----------------------------
(***************************************************************************)
(* Transactions and crash recovery on one TinyDB file: TransactionManager  *)
(* of tinydb/transaction.py over StorageManager of tinydb/storage/file.py, *)
(* with the writes that TableStore and BTreeIndex issue inside a statement.*)
(*                                                                         *)
(* The file is a header page and numbered pages.  The header holds the     *)
(* page ids of the live rows and, while a transaction is open, a marker:   *)
(* where the file keeps the copy of itself that begin appended to it.      *)
(* Commit erases the marker, rollback writes the copy back from memory,    *)
(* and whoever opens a file with a marker, and gets the writer lock,       *)
(* writes the copy back from the file.  Every write of the file is a step  *)
(* of its own, and a process may die before any of them; the writes with   *)
(* which a transaction ends may also fail, which leaves its marker behind. *)
(*                                                                         *)
(* Each handle has its own copy of the header in memory (_state), read     *)
(* when the file is opened or restored, and never otherwise.               *)
(*                                                                         *)
(* Abstractions: one table and one index; a run of snapshot pages is one   *)
(* page; the writer lock is the atomic one of SingleWriter, which          *)
(* WriterLock implements; a write of the header page is atomic.            *)
(***************************************************************************)
EXTENDS Integers, Sequences

CONSTANTS
    Handles,      \* Database objects, each in a process of its own
    Nobody,       \* the holder of a free writer lock
    Values,       \* what a row, or a persisted index, can be
    Overlap,      \* TRUE iff several handles may be open at a time
    ReadAhead,    \* TRUE iff a file object buffers more than one page
    TornWrites,   \* TRUE iff a process may die in the middle of a write of
                  \* several pages
    EmptyTable,   \* TRUE iff the catalog has tables without records, and the table that
                  \* is modelled starts as one
    Interrupts,   \* TRUE iff KeyboardInterrupt may end a statement
    IOErrors,     \* TRUE iff the write of a commit may fail
    MaxPages,     \* bound on the pages of the file
    MaxBegins,    \* bound on the transactions begun
    MaxCrashes    \* bound on the crashes and failed commits

ASSUME NobodyAssumption == Nobody \notin Handles
ASSUME FlagsAssumption ==
    {Overlap, ReadAhead, TornWrites, EmptyTable, Interrupts, IOErrors} \subseteq BOOLEAN
ASSUME BoundsAssumption ==
    MaxPages \in Nat \ {0} /\ MaxBegins \in Nat /\ MaxCrashes \in Nat

VARIABLES
    disk,       \* the file
    snaps,      \* the contents of the snapshot runs ever appended
    lock,       \* the handle that owns the writer lock
    pc,         \* where each handle is
    mem,        \* _state of each handle: its copy of the header
    undo,       \* _snapshot of each handle, or the snapshot it recovers from
    savepoint,  \* the snapshot a statement inside a transaction starts from
    mode,       \* who begins and ends the transaction of the handle
    begins,     \* number of transactions begun
    crashes     \* number of crashes and failed commits

vars == <<disk, snaps, lock, pc, mem, undo, savepoint, mode, begins, crashes>>

-----------------------------------------------------------------------------
(* The file *)

PageIds == 0..(MaxPages - 1)

NoMarker == -1    \* the header has no "transaction" entry
Oversized == -2   \* a marker in memory that does not fit in the header page

Header == [recs : SUBSET PageIds, marker : PageIds \cup {NoMarker, Oversized}]

RowPage(v) == [kind |-> "row", val |-> v]
DeletedPage(v) == [kind |-> "deleted", val |-> v]
IndexPage(v) == [kind |-> "index", val |-> v]
SnapPage(n) == [kind |-> "snapshot", val |-> n]   \* holds snaps[n]
NoPage == [kind |-> "none", val |-> 0]            \* past the end of the file

Page == [kind : {"row", "deleted", "index"}, val : Values]
        \cup [kind : {"snapshot"}, val : Nat]
        \cup {NoPage}

File == [recs : SUBSET PageIds,
         marker : PageIds \cup {NoMarker, Oversized},
         size : 0..MaxPages,
         page : [PageIds -> Page]]

NoFile == [recs |-> {}, marker |-> NoMarker, size |-> 0,
           page |-> [p \in PageIds |-> NoPage]]

HeaderOf(f) == [recs |-> f.recs, marker |-> f.marker]

WriteHeader(f, h) == [f EXCEPT !.recs = h.recs, !.marker = h.marker]

AppendPage(f, x) ==
    [f EXCEPT !.size = f.size + 1, !.page = [f.page EXCEPT ![f.size] = x]]

WritePage(f, p, x) == [f EXCEPT !.page = [f.page EXCEPT ![p] = x]]

\* The header and the first n pages of g are written over f.
Overwrite(f, g, n) ==
    [recs |-> g.recs,
     marker |-> g.marker,
     size |-> IF f.size < n THEN n ELSE f.size,
     page |-> [p \in PageIds |-> IF p < n THEN g.page[p] ELSE f.page[p]]]

Truncate(f, n) ==
    [f EXCEPT !.size = n,
              !.page = [p \in PageIds |-> IF p < n THEN f.page[p] ELSE NoPage]]

\* The rows that a scan finds which follows the records recs in f.
RowsAt(recs, f) == [p \in PageIds |-> IF p \in recs THEN f.page[p] ELSE NoPage]

Rows(f) == RowsAt(f.recs, f)

\* BTreeIndex._load reads every page of the file and takes the index page that
\* was written last.
IndexPages(f) == {p \in PageIds : f.page[p].kind = "index"}
Index(f) ==
    {f.page[p] : p \in {q \in IndexPages(f) : \A r \in IndexPages(f) : r <= q}}

\* Page m of f starts a copy of the file that can be read back.
HasSnapshot(f, m) ==
    /\ m \in PageIds
    /\ f.page[m].kind = "snapshot"
    /\ f.page[m].val \in 1..Len(snaps)

\* What opening f restores, if nothing fails.
Recovered(f) ==
    IF f.marker = NoMarker THEN f ELSE snaps[f.page[f.marker].val]

-----------------------------------------------------------------------------
(***************************************************************************)
(* The states of a handle.                                                 *)
(*   closed                                                                *)
(*   waiting   in __init__, saw a marker, wants the lock to recover        *)
(*   recover   in __init__, has the lock and the snapshot                  *)
(*   idle      open, no transaction                                        *)
(*   begin     has the lock and the image to roll back to                  *)
(*   appended  the copy is in the file, no marker yet                      *)
(*   active    in a transaction, between statements                        *)
(*   body      inside a write statement                                    *)
(*   persist   inside a write statement, about to write the header         *)
(*   done      after a statement that began its own transaction            *)
(*   revert    about to restore the savepoint                              *)
(*   rollback  about to restore the image taken by begin                   *)
(*   recoverCut, revertCut, rollbackCut                                    *)
(*             restored, the file not yet truncated                        *)
(***************************************************************************)
States == {"closed", "waiting", "recover", "recoverCut", "idle", "begin",
           "appended", "active", "body", "persist", "done", "revert",
           "revertCut", "rollback", "rollbackCut"}

(***************************************************************************)
(* Who ends the transaction: the BEGIN statement leaves that to a later    *)
(* one, a write statement outside a transaction ends its own, and          *)
(* "lingering" is a transaction of the second sort that was not ended.     *)
(***************************************************************************)
Modes == {"none", "explicit", "auto", "lingering"}

\* A table that never had a row, or one that has a row.
InitialFiles ==
    IF EmptyTable THEN {NoFile}
    ELSE {AppendPage([NoFile EXCEPT !.recs = {0}], RowPage(v)) : v \in Values}

Init ==
    /\ disk \in InitialFiles
    /\ snaps = <<>>
    /\ lock = Nobody
    /\ pc = [h \in Handles |-> "closed"]
    /\ mem = [h \in Handles |-> HeaderOf(NoFile)]
    /\ undo = [h \in Handles |-> NoFile]
    /\ savepoint = [h \in Handles |-> NoFile]
    /\ mode = [h \in Handles |-> "none"]
    /\ begins = 0
    /\ crashes = 0

\* What a handle forgets when its transaction ends or its process dies.
Forget(h) ==
    /\ undo' = [undo EXCEPT ![h] = NoFile]
    /\ savepoint' = [savepoint EXCEPT ![h] = NoFile]
    /\ mode' = [mode EXCEPT ![h] = "none"]

Goto(h, s) == pc' = [pc EXCEPT ![h] = s]

-----------------------------------------------------------------------------
(* StorageManager.__init__ and close *)

\* The header is read without a lock; a marker in it means work.
Open(h) ==
    /\ pc[h] = "closed"
    /\ Overlap \/ \A g \in Handles : pc[g] = "closed"
    /\ mem' = [mem EXCEPT ![h] = HeaderOf(disk)]
    /\ Goto(h, IF disk.marker = NoMarker THEN "idle" ELSE "waiting")
    /\ UNCHANGED <<disk, snaps, lock, undo, savepoint, mode, begins, crashes>>

\* Mutant: the header is not read again under the lock.
RecoverLockMutant(h) ==
    /\ pc[h] = "waiting"
    /\ lock = Nobody
    /\ HasSnapshot(disk, mem[h].marker)
    /\ undo' = [undo EXCEPT ![h] = snaps[disk.page[mem[h].marker].val]]
    /\ lock' = h
    /\ Goto(h, "recover")
    /\ UNCHANGED <<disk, snaps, mem, savepoint, mode, begins, crashes>>

\* The lock is free.  The header is read again; a file object that reads ahead
\* may answer from its buffer.  Without a marker there is nothing to do.
RecoverLock(h) ==
    /\ pc[h] = "waiting"
    /\ lock = Nobody
    /\ \E hdr \in {HeaderOf(disk)} \cup IF ReadAhead THEN {mem[h]} ELSE {} :
        /\ mem' = [mem EXCEPT ![h] = hdr]
        /\ \/ /\ hdr.marker = NoMarker
              /\ Goto(h, "idle")
              /\ UNCHANGED <<lock, undo>>
           \/ /\ hdr.marker # NoMarker
              /\ HasSnapshot(disk, hdr.marker)
              /\ undo' = [undo EXCEPT ![h] = snaps[disk.page[hdr.marker].val]]
              /\ lock' = h
              /\ Goto(h, "recover")
           \/ /\ hdr.marker # NoMarker
              /\ ~HasSnapshot(disk, hdr.marker)
              /\ Goto(h, "closed")
              /\ UNCHANGED <<lock, undo>>
    /\ UNCHANGED <<disk, snaps, savepoint, mode, begins, crashes>>

\* The lock is taken, and stays so until the timeout.
RecoverTimeout(h) ==
    /\ pc[h] = "waiting"
    /\ lock # Nobody
    /\ mem' = [mem EXCEPT ![h] = HeaderOf(NoFile)]
    /\ Goto(h, "closed")
    /\ UNCHANGED <<disk, snaps, lock, undo, savepoint, mode, begins, crashes>>

Close(h) ==
    /\ pc[h] = "idle"
    /\ mem' = [mem EXCEPT ![h] = HeaderOf(NoFile)]
    /\ Goto(h, "closed")
    /\ UNCHANGED <<disk, snaps, lock, undo, savepoint, mode, begins, crashes>>

-----------------------------------------------------------------------------
(* TransactionManager.begin *)

\* The lock is free.  A begin that finds a marker in memory fails and leaves
\* everything as it was, as does one that times out.
Begin(h, m) ==
    /\ pc[h] = "idle"
    /\ lock = Nobody
    /\ mem[h].marker = NoMarker
    /\ begins < MaxBegins
    /\ disk.size < MaxPages
    /\ lock' = h
    /\ undo' = [undo EXCEPT ![h] = disk]
    /\ mode' = [mode EXCEPT ![h] = m]
    /\ begins' = begins + 1
    /\ Goto(h, "begin")
    /\ UNCHANGED <<disk, snaps, mem, savepoint, crashes>>

AppendSnapshot(h) ==
    /\ pc[h] = "begin"
    /\ disk.size < MaxPages
    /\ snaps' = Append(snaps, disk)
    /\ disk' = AppendPage(disk, SnapPage(Len(snaps) + 1))
    /\ Goto(h, "appended")
    /\ UNCHANGED <<lock, mem, undo, savepoint, mode, begins, crashes>>

\* Mutant: the id of the page after the copy.
WriteMarkerMutant(h) ==
    /\ pc[h] = "appended"
    /\ disk.size < MaxPages
    /\ \E hdr \in {[mem[h] EXCEPT !.marker = disk.size]} :
        /\ mem' = [mem EXCEPT ![h] = hdr]
        /\ disk' = WriteHeader(disk, hdr)
    /\ Goto(h, IF mode[h] = "explicit" THEN "active" ELSE "body")
    /\ UNCHANGED <<snaps, lock, undo, savepoint, mode, begins, crashes>>

\* Mutant: the header with the marker is not written.
WriteMarkerMemoryMutant(h) ==
    /\ pc[h] = "appended"
    /\ mem' = [mem EXCEPT ![h].marker = disk.size - 1]
    /\ Goto(h, IF mode[h] = "explicit" THEN "active" ELSE "body")
    /\ UNCHANGED <<disk, snaps, lock, undo, savepoint, mode, begins, crashes>>

\* The marker goes into the memory copy of the header, and that is written.
WriteMarker(h) ==
    /\ pc[h] = "appended"
    /\ \E hdr \in {[mem[h] EXCEPT !.marker = disk.size - 1]} :
        /\ mem' = [mem EXCEPT ![h] = hdr]
        /\ disk' = WriteHeader(disk, hdr)
    /\ Goto(h, IF mode[h] = "explicit" THEN "active" ELSE "body")
    /\ UNCHANGED <<snaps, lock, undo, savepoint, mode, begins, crashes>>

\* The header with the marker is longer than a page.  The write is refused,
\* but the marker stays in memory.
MarkerTooLarge(h) ==
    /\ pc[h] = "appended"
    /\ mem' = [mem EXCEPT ![h].marker = Oversized]
    /\ lock' = Nobody
    /\ Forget(h)
    /\ Goto(h, "idle")
    /\ UNCHANGED <<disk, snaps, begins, crashes>>

-----------------------------------------------------------------------------
(* A write statement *)

\* A write statement inside a transaction takes a savepoint first.
StatementStart(h) ==
    /\ pc[h] = "active"
    /\ savepoint' = [savepoint EXCEPT ![h] = disk]
    /\ Goto(h, "body")
    /\ UNCHANGED <<disk, snaps, lock, mem, undo, mode, begins, crashes>>

\* Mutant: the id that the next page will have.
InsertRowMutant(h, v) ==
    /\ pc[h] = "body"
    /\ disk.size < MaxPages
    /\ disk' = AppendPage(disk, RowPage(v))
    /\ mem' = [mem EXCEPT ![h].recs = @ \cup {disk.size + 1}]
    /\ Goto(h, "persist")
    /\ UNCHANGED <<snaps, lock, undo, savepoint, mode, begins, crashes>>

\* TableStore.insert: the page first, the record that refers to it second.
InsertRow(h, v) ==
    /\ pc[h] = "body"
    /\ disk.size < MaxPages
    /\ disk' = AppendPage(disk, RowPage(v))
    /\ mem' = [mem EXCEPT ![h].recs = @ \cup {disk.size}]
    /\ Goto(h, "persist")
    /\ UNCHANGED <<snaps, lock, undo, savepoint, mode, begins, crashes>>

\* TableStore.delete: marks the page, then the record.
DeleteRow(h, p) ==
    /\ pc[h] = "body"
    /\ p \in mem[h].recs
    /\ p < disk.size /\ disk.page[p].kind = "row"
    /\ disk' = WritePage(disk, p, DeletedPage(disk.page[p].val))
    /\ mem' = [mem EXCEPT ![h].recs = @ \ {p}]
    /\ Goto(h, "persist")
    /\ UNCHANGED <<snaps, lock, undo, savepoint, mode, begins, crashes>>

\* _write_table_records
PersistRecords(h) ==
    /\ pc[h] = "persist"
    /\ disk' = WriteHeader(disk, mem[h])
    /\ Goto(h, "body")
    /\ UNCHANGED <<snaps, lock, mem, undo, savepoint, mode, begins, crashes>>

\* TableStore.update: in place.
UpdateRow(h, p, v) ==
    /\ pc[h] = "body"
    /\ p \in mem[h].recs
    /\ p < disk.size /\ disk.page[p].kind = "row"
    /\ disk' = WritePage(disk, p, RowPage(v))
    /\ UNCHANGED <<snaps, lock, pc, mem, undo, savepoint, mode, begins,
                   crashes>>

\* BTreeIndex._persist: always a new page.
PersistIndex(h, v) ==
    /\ pc[h] = "body"
    /\ disk.size < MaxPages
    /\ disk' = AppendPage(disk, IndexPage(v))
    /\ UNCHANGED <<snaps, lock, pc, mem, undo, savepoint, mode, begins,
                   crashes>>

StatementOk(h) ==
    /\ pc[h] = "body"
    /\ savepoint' = [savepoint EXCEPT ![h] = NoFile]
    /\ Goto(h, IF mode[h] = "auto" THEN "done" ELSE "active")
    /\ UNCHANGED <<disk, snaps, lock, mem, undo, mode, begins, crashes>>

\* Any Exception: a constraint, a type, a page or header that is too large.
StatementFail(h) ==
    /\ pc[h] \in {"body", "persist"}
    /\ Goto(h, IF mode[h] = "auto" THEN "rollback" ELSE "revert")
    /\ UNCHANGED <<disk, snaps, lock, mem, undo, savepoint, mode, begins,
                   crashes>>

\* KeyboardInterrupt is no Exception: nothing is restored, and a transaction
\* that the statement began stays open.
Interrupt(h) ==
    /\ Interrupts
    /\ pc[h] \in {"body", "persist"}
    /\ savepoint' = [savepoint EXCEPT ![h] = NoFile]
    /\ mode' = [mode EXCEPT ![h] = IF @ = "auto" THEN "lingering" ELSE @]
    /\ Goto(h, "active")
    /\ UNCHANGED <<disk, snaps, lock, mem, undo, begins, crashes>>

\* KeyboardInterrupt between the page of a row and its record, which changes in memory
\* after the page has been written.
InterruptedWrite(h) ==
    /\ Interrupts
    /\ pc[h] = "body"
    /\ \/ /\ disk.size < MaxPages
          /\ \E v \in Values : disk' = AppendPage(disk, RowPage(v))
       \/ \E p \in mem[h].recs :
            /\ p < disk.size /\ disk.page[p].kind = "row"
            /\ disk' = WritePage(disk, p, DeletedPage(disk.page[p].val))
    /\ savepoint' = [savepoint EXCEPT ![h] = NoFile]
    /\ mode' = [mode EXCEPT ![h] = IF @ = "auto" THEN "lingering" ELSE @]
    /\ Goto(h, "active")
    /\ UNCHANGED <<snaps, lock, mem, undo, begins, crashes>>

\* Every statement on a table without records writes the header from memory
\* (TableStore.__init__); a SELECT outside a transaction does so with no lock.
InitTableStore(h) ==
    /\ EmptyTable
    /\ pc[h] \in {"idle", "active", "body"}
    /\ mem[h].marker # Oversized
    /\ disk' = WriteHeader(disk, mem[h])
    /\ UNCHANGED <<snaps, lock, pc, mem, undo, savepoint, mode, begins,
                   crashes>>

-----------------------------------------------------------------------------
(* The end of a transaction *)

\* One write of the header, without the marker; none if memory has no marker.
Commit(h) ==
    /\ pc[h] \in {"active", "done"}
    /\ mem' = [mem EXCEPT ![h].marker = NoMarker]
    /\ disk' = IF mem[h].marker = NoMarker
               THEN disk
               ELSE WriteHeader(disk, [mem[h] EXCEPT !.marker = NoMarker])
    /\ lock' = Nobody
    /\ Forget(h)
    /\ Goto(h, "idle")
    /\ UNCHANGED <<snaps, begins, crashes>>

\* The header cannot be written.  The transaction is over all the same: without a
\* marker in memory, with its records there and with its marker in the file.
CommitFail(h) ==
    /\ IOErrors
    /\ pc[h] \in {"active", "done"}
    /\ mem[h].marker # NoMarker
    /\ crashes < MaxCrashes
    /\ crashes' = crashes + 1
    /\ mem' = [mem EXCEPT ![h].marker = NoMarker]
    /\ lock' = Nobody
    /\ Forget(h)
    /\ Goto(h, "idle")
    /\ UNCHANGED <<disk, snaps, begins>>

\* ROLLBACK, or close inside a transaction.
Rollback(h) ==
    /\ pc[h] = "active"
    /\ Goto(h, "rollback")
    /\ UNCHANGED <<disk, snaps, lock, mem, undo, savepoint, mode, begins,
                   crashes>>

\* Mutant: a failed statement restores what begin saved.
ImageMutant(h) == undo[h]

\* What a restore restores.
Image(h) == IF pc[h] = "revert" THEN savepoint[h] ELSE undo[h]

\* Mutant: the lock is released before the file is truncated.
RestoreWriteMutant(h) ==
    /\ pc[h] \in {"recover", "revert", "rollback"}
    /\ disk' = Overwrite(disk, Image(h), Image(h).size)
    /\ lock' = Nobody
    /\ Goto(h, CASE pc[h] = "recover" -> "recoverCut"
                 [] pc[h] = "revert" -> "revertCut"
                 [] OTHER -> "rollbackCut")
    /\ UNCHANGED <<snaps, mem, undo, savepoint, mode, begins, crashes>>

\* _restore_file_snapshot, first half: the image is written from the start of
\* the file.
RestoreWrite(h) ==
    /\ pc[h] \in {"recover", "revert", "rollback"}
    /\ disk' = Overwrite(disk, Image(h), Image(h).size)
    /\ Goto(h, CASE pc[h] = "recover" -> "recoverCut"
                 [] pc[h] = "revert" -> "revertCut"
                 [] OTHER -> "rollbackCut")
    /\ UNCHANGED <<snaps, lock, mem, undo, savepoint, mode, begins, crashes>>

\* Mutant: the header is not read back.
RevertTruncateMutant(h) ==
    /\ pc[h] = "revertCut"
    /\ disk' = Truncate(disk, savepoint[h].size)
    /\ savepoint' = [savepoint EXCEPT ![h] = NoFile]
    /\ Goto(h, "active")
    /\ UNCHANGED <<snaps, lock, mem, undo, mode, begins, crashes>>

\* Mutant: the header is not read back, only the marker goes from memory.
RestoreTruncateMutant(h) ==
    /\ pc[h] \in {"recoverCut", "rollbackCut"}
    /\ disk' = Truncate(disk, undo[h].size)
    /\ mem' = [mem EXCEPT ![h].marker = NoMarker]
    /\ lock' = Nobody
    /\ Forget(h)
    /\ Goto(h, "idle")
    /\ UNCHANGED <<snaps, begins, crashes>>

\* Second half: the file is truncated to the image and the header read back.
RevertTruncate(h) ==
    /\ pc[h] = "revertCut"
    /\ disk' = Truncate(disk, savepoint[h].size)
    /\ mem' = [mem EXCEPT ![h] = HeaderOf(disk)]
    /\ savepoint' = [savepoint EXCEPT ![h] = NoFile]
    /\ Goto(h, "active")
    /\ UNCHANGED <<snaps, lock, undo, mode, begins, crashes>>

RestoreTruncate(h) ==
    /\ pc[h] \in {"recoverCut", "rollbackCut"}
    /\ disk' = Truncate(disk, undo[h].size)
    /\ mem' = [mem EXCEPT ![h] = HeaderOf(disk)]
    /\ lock' = Nobody
    /\ Forget(h)
    /\ Goto(h, "idle")
    /\ UNCHANGED <<snaps, begins, crashes>>

\* The image cannot be written, or only a part of it, or the file not be truncated.
\* A transaction goes on after its statement, and is over after its rollback.
\* What is in memory stays as it was.
RestoreFail(h) ==
    /\ IOErrors
    /\ pc[h] \in {"recover", "revert", "rollback"}
    /\ disk' \in {disk} \cup {Overwrite(disk, Image(h), n) : n \in 0..Image(h).size}
    /\ crashes < MaxCrashes
    /\ crashes' = crashes + 1
    /\ \/ /\ pc[h] = "revert"
          /\ savepoint' = [savepoint EXCEPT ![h] = NoFile]
          /\ Goto(h, "active")
          /\ UNCHANGED <<lock, mem, undo, mode>>
       \/ /\ pc[h] # "revert"
          /\ mem' = IF pc[h] = "recover" THEN [mem EXCEPT ![h] = HeaderOf(NoFile)] ELSE mem
          /\ Goto(h, IF pc[h] = "recover" THEN "closed" ELSE "idle")
          /\ lock' = Nobody
          /\ Forget(h)
    /\ UNCHANGED <<snaps, begins>>

-----------------------------------------------------------------------------
(* Crashes *)

Die(h) ==
    /\ crashes < MaxCrashes
    /\ crashes' = crashes + 1
    /\ lock' = IF lock = h THEN Nobody ELSE lock
    /\ mem' = [mem EXCEPT ![h] = HeaderOf(NoFile)]
    /\ Forget(h)
    /\ Goto(h, "closed")
    /\ UNCHANGED <<snaps, begins>>

\* The process dies between two writes of the file.
Crash(h) ==
    /\ pc[h] # "closed"
    /\ Die(h)
    /\ UNCHANGED disk

\* The process dies in RestoreWrite, with the header and n pages written.
TornCrash(h) ==
    /\ TornWrites
    /\ pc[h] \in {"recover", "revert", "rollback"}
    /\ \E n \in 0..(Image(h).size - 1) :
        disk' = Overwrite(disk, Image(h), n)
    /\ Die(h)

-----------------------------------------------------------------------------

Statement(h) ==
    \/ StatementStart(h) \/ PersistRecords(h)
    \/ StatementOk(h) \/ StatementFail(h) \/ Interrupt(h) \/ InterruptedWrite(h)
    \/ \E v \in Values : InsertRow(h, v) \/ PersistIndex(h, v)
    \/ \E p \in PageIds :
        DeleteRow(h, p) \/ \E v \in Values : UpdateRow(h, p, v)

Transaction(h) ==
    \/ \E m \in {"explicit", "auto"} : Begin(h, m)
    \/ AppendSnapshot(h) \/ WriteMarker(h) \/ MarkerTooLarge(h)
    \/ Commit(h) \/ CommitFail(h) \/ Rollback(h)
    \/ RestoreWrite(h) \/ RestoreFail(h) \/ RevertTruncate(h) \/ RestoreTruncate(h)

Step(h) ==
    \/ Open(h) \/ RecoverLock(h) \/ RecoverTimeout(h) \/ Close(h)
    \/ Transaction(h) \/ Statement(h) \/ InitTableStore(h)
    \/ Crash(h) \/ TornCrash(h)

Next == \E h \in Handles : Step(h)

Spec == Init /\ [][Next]_vars

-----------------------------------------------------------------------------
(* Properties *)

TypeOK ==
    /\ disk \in File
    /\ snaps \in Seq(File)
    /\ lock \in Handles \cup {Nobody}
    /\ pc \in [Handles -> States]
    /\ mem \in [Handles -> Header]
    /\ undo \in [Handles -> File]
    /\ savepoint \in [Handles -> File]
    /\ mode \in [Handles -> Modes]
    /\ begins \in 0..MaxBegins
    /\ crashes \in 0..MaxCrashes

\* Whenever the file has a marker, the copy it leads to is there: no sequence
\* of crashes, also of recoveries, makes the database impossible to open.
AlwaysRecoverable == disk.marker # NoMarker => HasSnapshot(disk, disk.marker)

\* Every record of the content that opening the file restores refers to a page
\* of the file that holds a live row: a scan of it never fails.
RowsReadable ==
    LET f == Recovered(disk) IN
    \A p \in f.recs : p < f.size /\ f.page[p].kind = "row"

\* The file changes only in steps of the handle that owns the writer lock, so that no two
\* handles change pages, or the length of the file, at the same time
\* (specs/concurrency-control, Single Writer Safety).  There is one exception: where a
\* table has no records, a SELECT writes the header with no lock (TableStore.__init__),
\* and it changes nothing but the header.
OnlyTheOwnerWrites ==
    [][disk' # disk => \/ \E h \in Handles : lock = h /\ Step(h)
                       \/ EmptyTable /\ UNCHANGED <<disk.size, disk.page>>]_vars

\* A recovery runs only on a transaction whose process has died, or whose commit
\* or rollback failed: it never takes one that is open, or that has ended, for an
\* interrupted one
\* (StorageManager._recover_incomplete_transaction reads the header again once
\* it has the lock).
RecoveryOnlyAfterCrash ==
    crashes = 0 => \A h \in Handles : pc[h] \notin {"recover", "recoverCut"}

\* What handle h sees when it reads the table.
View(h) == RowsAt(mem[h].recs, disk)

\* A transaction begins from the last committed rows, so that its commit keeps
\* what others committed before (specs/transactions, Commit a transaction).
BeginsFromCommitted ==
    \A h \in Handles : pc[h] = "begin" => mem[h].recs = disk.recs

\* The index that opening the file would find changes by commits only: the
\* index of a transaction that did not commit is never found
\* (specs/transactions, Discard incomplete transaction changes).
IndexChangesByCommitOnly ==
    [][Index(Recovered(disk))' # Index(Recovered(disk))
       => \E h \in Handles : pc[h] \in {"active", "done"} /\ pc'[h] = "idle"]_vars

(***************************************************************************)
(* The abstract store: the durable content is what opening the file would  *)
(* restore at this moment, and the work of a transaction is what its       *)
(* handle sees between statements, or saw when the statement started.      *)
(***************************************************************************)
Contents == [PageIds -> Page]

NoWork == [p \in {NoMarker} |-> NoPage]

InTransaction(h) == pc[h] \in {"active", "body", "persist", "done", "revert",
                               "revertCut"}

WorkOf(h) ==
    IF pc[h] \in {"active", "done"} THEN View(h)
    ELSE Rows(IF mode[h] = "auto" THEN undo[h] ELSE savepoint[h])

Work == IF \E h \in Handles : InTransaction(h)
        THEN WorkOf(CHOOSE h \in Handles : InTransaction(h))
        ELSE NoWork

Store == Rows(Recovered(disk))

\* The work of a transaction changes when a statement of it completes, and at
\* no other moment: a statement that fails leaves no row changed, added or
\* removed, in the file or in memory (specs/transactions, Statement Atomicity).
OnlyCompletedStatementsCount ==
    [][\A h \in Handles :
        InTransaction(h) /\ InTransaction(h)' /\ WorkOf(h)' # WorkOf(h)
        => pc[h] = "body" /\ pc'[h] \in {"active", "done"}]_vars

AS == INSTANCE AtomicStore WITH
        store <- Store, work <- Work,
        InitialContents <- {Rows(f) : f \in InitialFiles}

ImplementsAtomicStore == AS!Spec
=============================================================================
