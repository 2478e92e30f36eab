--------------------------- MODULE TransactionsInv ---------------------------
(***************************************************************************)
(* The inductive invariant of Transactions when the handles on a file are  *)
(* open one at a time: how header, marker, copy, memory and images relate  *)
(* in every state of the only open handle.                                 *)
(***************************************************************************)
EXTENDS Transactions

\* The states in which a handle owns the writer lock.
Owning == States \ {"closed", "waiting", "idle"}

\* The states in which the marker of the transaction of a handle is in the file.
InMarked == {"active", "body", "persist", "done", "revert", "revertCut",
             "rollback"}

\* A file whose records refer to pages that it has.
RecordsInside(recs, f) == \A p \in recs : p < f.size

\* f begins with the whole of g, whatever follows.
StartsWith(f, g) ==
    /\ f.recs = g.recs
    /\ f.marker = g.marker
    /\ g.size <= f.size
    /\ \A p \in PageIds : p < g.size => f.page[p] = g.page[p]

\* A committed file: no marker, no dangling record.
Clean(f) == f.marker = NoMarker /\ RecordsInside(f.recs, f)

OneOpen == \A g, h \in Handles : g # h => pc[g] = "closed" \/ pc[h] = "closed"

OwnerHasLock == \A h \in Handles : lock = h <=> pc[h] \in Owning

CopiesAreClean == \A i \in 1..Len(snaps) : Clean(snaps[i])

\* The file can be opened, and its size covers what that restores.
FileIsSound ==
    /\ RecordsInside(disk.recs, disk)
    /\ disk.marker # NoMarker =>
        /\ HasSnapshot(disk, disk.marker)
        /\ disk.marker < disk.size
        /\ Recovered(disk).size <= disk.size

WaitingInv(h) == pc[h] = "waiting" =>
    disk.marker # NoMarker /\ mem[h] = HeaderOf(disk)

IdleInv(h) == pc[h] = "idle" =>
    /\ disk.marker = NoMarker
    /\ \/ mem[h] = HeaderOf(disk)
       \/ mem[h].marker = Oversized

BeginInv(h) == pc[h] \in {"begin", "appended"} =>
    /\ Clean(disk)
    /\ mem[h] = HeaderOf(disk)
    /\ StartsWith(disk, undo[h])
    /\ Clean(undo[h])
    /\ mode[h] \in {"explicit", "auto"}
    /\ pc[h] = "begin" => undo[h] = disk

AppendedInv(h) == pc[h] = "appended" =>
    /\ disk.size > 0
    /\ HasSnapshot(disk, disk.size - 1)
    /\ snaps[disk.page[disk.size - 1].val] = undo[h]

MarkedInv(h) == pc[h] \in InMarked =>
    /\ disk.marker # NoMarker
    /\ Recovered(disk) = undo[h]
    /\ Clean(undo[h])
    /\ mem[h].marker = disk.marker
    /\ RecordsInside(mem[h].recs, disk)

SavepointInv(h) ==
    \/ pc[h] \in {"revert", "revertCut"}
    \/ pc[h] \in {"body", "persist"} /\ mode[h] # "auto"
    => /\ savepoint[h].marker = disk.marker
       /\ RecordsInside(savepoint[h].recs, savepoint[h])
       /\ disk.marker < savepoint[h].size
       /\ undo[h].size <= savepoint[h].size
       /\ savepoint[h].size <= disk.size
       /\ savepoint[h].page[disk.marker] = disk.page[disk.marker]

RevertedInv(h) == pc[h] = "revertCut" => StartsWith(disk, savepoint[h])

RecoverInv(h) == pc[h] = "recover" =>
    disk.marker # NoMarker /\ undo[h] = Recovered(disk)

RestoredInv(h) == pc[h] \in {"recoverCut", "rollbackCut"} =>
    /\ Clean(undo[h])
    /\ StartsWith(disk, undo[h])

HandleInv(h) ==
    /\ WaitingInv(h) /\ IdleInv(h) /\ BeginInv(h) /\ AppendedInv(h)
    /\ MarkedInv(h) /\ SavepointInv(h) /\ RevertedInv(h)
    /\ RecoverInv(h) /\ RestoredInv(h)

\* Everything that the recovery of the last committed rows rests on, while the
\* file has one handle at a time: the copy that the marker leads to, the images
\* in memory and the header in memory agree with the file in every step of a
\* transaction, a failure or a recovery, also after a crash inside one.
SoloInv ==
    /\ OneOpen
    /\ OwnerHasLock
    /\ CopiesAreClean
    /\ FileIsSound
    /\ \A h \in Handles : HandleInv(h)

-----------------------------------------------------------------------------
(***************************************************************************)
(* The rows that opening the file would give.  While a transaction is open *)
(* they are in its copy, so that its pages may be out of step with its     *)
(* records; they are in step again between its writes of the header, for   *)
(* which no interrupt must come between a page and its record.             *)
(***************************************************************************)

Live(recs, f) == \A p \in recs : f.page[p].kind = "row"

\* What a handle writes into the header, and the images that it may restore.
ReadableHandle(h) ==
    /\ pc[h] \in {"active", "body", "done"} => mem[h].recs = disk.recs
    /\ pc[h] \in {"active", "body", "persist", "done"} => Live(mem[h].recs, disk)
    /\ pc[h] \in Owning => Live(undo[h].recs, undo[h])
    /\ \/ pc[h] \in {"revert", "revertCut"}
       \/ pc[h] \in {"body", "persist"} /\ mode[h] # "auto"
       => Live(savepoint[h].recs, savepoint[h])

ReadableInv ==
    /\ disk.marker = NoMarker => Live(disk.recs, disk)
    /\ \A i \in 1..Len(snaps) : Live(snaps[i].recs, snaps[i])
    /\ \A h \in Handles : ReadableHandle(h)

-----------------------------------------------------------------------------
(***************************************************************************)
(* What a handle sees of its transaction.  Between its writes the header   *)
(* in memory has the records of the file, and a statement that takes no    *)
(* savepoint is one that began its own transaction.                        *)
(***************************************************************************)

WorkInv(h) ==
    /\ pc[h] \in {"active", "body", "done"} => mem[h].recs = disk.recs
    /\ pc[h] \in {"active", "revert", "revertCut"} => mode[h] # "auto"
    /\ pc[h] = "done" => mode[h] = "auto"
=============================================================================
