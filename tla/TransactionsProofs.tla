------------------------- MODULE TransactionsProofs -------------------------
(***************************************************************************)
(* Theorems about Transactions, for every number of handles, pages, values,*)
(* transactions and crashes.  First what holds whatever the handles do,    *)
(* then what holds while the handles on a file are open one at a time:     *)
(* proofs from the inductive invariant SoloInv, and at the end that        *)
(* Transactions implements AtomicStore while no write of a snapshot is     *)
(* torn, and that statements are atomic while none is interrupted.         *)
(***************************************************************************)
EXTENDS TransactionsInv, TLAPS

-----------------------------------------------------------------------------
(* The operations on files stay within the files. *)

LEMMA NoFileIsFile == NoFile \in File
BY BoundsAssumption DEF NoFile, File, Page, NoPage, PageIds, NoMarker

LEMMA HeaderOfType ==
  ASSUME NEW f \in File
  PROVE  HeaderOf(f) \in Header
BY DEF HeaderOf, File, Header

LEMMA WriteHeaderType ==
  ASSUME NEW f \in File, NEW h \in Header
  PROVE  WriteHeader(f, h) \in File
BY DEF WriteHeader, File, Header

LEMMA AppendPageType ==
  ASSUME NEW f \in File, NEW x \in Page, f.size < MaxPages
  PROVE  AppendPage(f, x) \in File
<1>1. f.size \in PageIds /\ f.size + 1 \in 0..MaxPages
  BY BoundsAssumption DEF PageIds, File
<1>2. [f.page EXCEPT ![f.size] = x] \in [PageIds -> Page]
  BY <1>1 DEF File
<1>3. QED
  BY <1>1, <1>2 DEF AppendPage, File

LEMMA WritePageType ==
  ASSUME NEW f \in File, NEW x \in Page, NEW p \in PageIds
  PROVE  WritePage(f, p, x) \in File
BY DEF WritePage, File

LEMMA OverwriteType ==
  ASSUME NEW f \in File, NEW g \in File, NEW n \in 0..MaxPages
  PROVE  Overwrite(f, g, n) \in File
BY BoundsAssumption DEF Overwrite, File

LEMMA TruncateType ==
  ASSUME NEW f \in File, NEW n \in 0..MaxPages
  PROVE  Truncate(f, n) \in File
BY DEF Truncate, File, Page

LEMMA InitialFilesType == InitialFiles \subseteq File
<1>1. NoFile \in File /\ 0 \in PageIds
  BY NoFileIsFile, BoundsAssumption DEF PageIds
<1>2. [NoFile EXCEPT !.recs = {0}] \in File
  BY <1>1 DEF File
<1>3. [NoFile EXCEPT !.recs = {0}].size = 0
  BY <1>1 DEF File, NoFile
<1>4. ASSUME NEW v \in Values
      PROVE  AppendPage([NoFile EXCEPT !.recs = {0}], RowPage(v)) \in File
  <2>1. RowPage(v) \in Page /\ 0 < MaxPages
    BY BoundsAssumption DEF RowPage, Page
  <2> DEFINE f == [NoFile EXCEPT !.recs = {0}]
  <2>2. f \in File /\ f.size < MaxPages
    BY <1>2, <1>3, <2>1
  <2> HIDE DEF f
  <2>3. AppendPage(f, RowPage(v)) \in File
    BY <2>1, <2>2, AppendPageType
  <2>4. QED
    BY <2>3 DEF f
<1>5. QED
  BY <1>1, <1>4 DEF InitialFiles

\* What the file may be at first, field by field.
LEMMA InitialFilesFields ==
  ASSUME NEW f \in InitialFiles
  PROVE  /\ f \in File /\ f.marker = NoMarker
         /\ \A p \in f.recs : p < f.size /\ f.page[p].kind = "row"
<1>1. f \in File
  BY InitialFilesType
<1>2. CASE f = NoFile
  BY <1>1, <1>2 DEF NoFile
<1>3. CASE \E v \in Values : f = AppendPage([NoFile EXCEPT !.recs = {0}], RowPage(v))
  <2>1. 0 \in PageIds
    BY BoundsAssumption DEF PageIds
  <2>2. PICK v \in Values : f = AppendPage([NoFile EXCEPT !.recs = {0}], RowPage(v))
    BY <1>3
  <2> DEFINE g == [NoFile EXCEPT !.recs = {0}]
  <2>3. /\ g.recs = {0} /\ g.marker = NoMarker /\ g.size = 0
        /\ g.page = [p \in PageIds |-> NoPage]
    BY DEF NoFile
  <2>4. f.recs = {0} /\ f.marker = NoMarker /\ f.size = 1 /\ f.page[0] = RowPage(v)
    BY <2>1, <2>2, <2>3 DEF AppendPage, NoFile
  <2>5. QED
    BY <1>1, <2>4 DEF RowPage
<1>4. QED
  BY <1>1, <1>2, <1>3 DEF InitialFiles

\* Every variable keeps its type.
THEOREM Typing == Spec => []TypeOK
<1> USE NoFileIsFile, HeaderOfType, BoundsAssumption
<1>1. Init => TypeOK
  BY InitialFilesType DEF Init, TypeOK, States, Modes
<1>2. TypeOK /\ [Next]_vars => TypeOK'
  <2> SUFFICES ASSUME TypeOK, [Next]_vars PROVE TypeOK'
    OBVIOUS
  <2> USE DEF TypeOK, Goto
  <2>1. CASE UNCHANGED vars
    BY <2>1 DEF vars
  <2>2. ASSUME NEW h \in Handles, Open(h) PROVE TypeOK'
    BY <2>2 DEF Open, States
  <2>3. ASSUME NEW h \in Handles, RecoverLock(h) PROVE TypeOK'
    <3>1. PICK hdr \in {HeaderOf(disk)} \cup IF ReadAhead THEN {mem[h]} ELSE {} :
            /\ mem' = [mem EXCEPT ![h] = hdr]
            /\ \/ /\ hdr.marker = NoMarker
                  /\ Goto(h, "idle")
                  /\ UNCHANGED <<lock, undo>>
               \/ /\ hdr.marker # NoMarker
                  /\ HasSnapshot(disk, hdr.marker)
                  /\ undo' = [undo EXCEPT ![h] =
                                snaps[disk.page[hdr.marker].val]]
                  /\ lock' = h
                  /\ Goto(h, "recover")
               \/ /\ hdr.marker # NoMarker
                  /\ ~HasSnapshot(disk, hdr.marker)
                  /\ Goto(h, "closed")
                  /\ UNCHANGED <<lock, undo>>
      BY <2>3 DEF RecoverLock
    <3>2. hdr \in Header
      OBVIOUS
    <3>3. HasSnapshot(disk, hdr.marker)
            => snaps[disk.page[hdr.marker].val] \in File
      BY DEF HasSnapshot
    <3>4. UNCHANGED <<disk, snaps, savepoint, mode, begins, crashes>>
      BY <2>3 DEF RecoverLock
    <3>5. QED
      BY <3>1, <3>2, <3>3, <3>4 DEF States
  <2>4. ASSUME NEW h \in Handles, RecoverTimeout(h) PROVE TypeOK'
    BY <2>4 DEF RecoverTimeout, States
  <2>5. ASSUME NEW h \in Handles, Close(h) PROVE TypeOK'
    BY <2>5 DEF Close, States
  <2>6. ASSUME NEW h \in Handles, NEW m \in {"explicit", "auto"}, Begin(h, m)
        PROVE  TypeOK'
    BY <2>6 DEF Begin, States, Modes
  <2>7. ASSUME NEW h \in Handles, AppendSnapshot(h) PROVE TypeOK'
    <3>1. SnapPage(Len(snaps) + 1) \in Page
      BY DEF SnapPage, Page
    <3>2. AppendPage(disk, SnapPage(Len(snaps) + 1)) \in File
      BY <2>7, <3>1, AppendPageType DEF AppendSnapshot
    <3>3. QED
      BY <2>7, <3>2 DEF AppendSnapshot, States
  <2>8. ASSUME NEW h \in Handles, WriteMarker(h) PROVE TypeOK'
    <3> DEFINE hdr == [mem[h] EXCEPT !.marker = disk.size - 1]
    <3>1. hdr \in Header
      <4>1. disk.size \in 0..MaxPages
        BY DEF File
      <4>2. disk.size - 1 \in PageIds \cup {NoMarker}
        BY <4>1 DEF PageIds, NoMarker
      <4>3. QED
        BY <4>2 DEF Header
    <3>2. WriteHeader(disk, hdr) \in File
      BY <3>1, WriteHeaderType
    <3>3. mem' = [mem EXCEPT ![h] = hdr] /\ disk' = WriteHeader(disk, hdr)
      BY <2>8 DEF WriteMarker
    <3> HIDE DEF hdr
    <3>4. QED
      BY <2>8, <3>1, <3>2, <3>3 DEF WriteMarker, States
  <2>9. ASSUME NEW h \in Handles, MarkerTooLarge(h) PROVE TypeOK'
    BY <2>9 DEF MarkerTooLarge, Forget, States, Modes, Header
  <2>10. ASSUME NEW h \in Handles, Commit(h) PROVE TypeOK'
    <3> DEFINE hdr == [mem[h] EXCEPT !.marker = NoMarker]
    <3>1. hdr \in Header
      BY DEF Header
    <3>2. WriteHeader(disk, hdr) \in File
      BY <3>1, WriteHeaderType
    <3>3. mem' = [mem EXCEPT ![h] = hdr]
          /\ disk' \in {disk, WriteHeader(disk, hdr)}
      BY <2>10 DEF Commit
    <3> HIDE DEF hdr
    <3>4. QED
      BY <2>10, <3>1, <3>2, <3>3 DEF Commit, Forget, States, Modes
  <2>11. ASSUME NEW h \in Handles, Rollback(h) PROVE TypeOK'
    BY <2>11 DEF Rollback, States
  <2>12. ASSUME NEW h \in Handles, RestoreWrite(h) PROVE TypeOK'
    <3>1. Image(h) \in File /\ Image(h).size \in 0..MaxPages
      BY DEF Image, File
    <3>2. disk' \in File
      BY <2>12, <3>1, OverwriteType DEF RestoreWrite
    <3>3. QED
      BY <2>12, <3>2 DEF RestoreWrite, States
  <2>13. ASSUME NEW h \in Handles, RevertTruncate(h) PROVE TypeOK'
    <3>1. disk' \in File
      BY <2>13, TruncateType DEF RevertTruncate, File
    <3>2. QED
      BY <2>13, <3>1 DEF RevertTruncate, States
  <2>14. ASSUME NEW h \in Handles, RestoreTruncate(h) PROVE TypeOK'
    <3>1. disk' \in File
      BY <2>14, TruncateType DEF RestoreTruncate, File
    <3>2. QED
      BY <2>14, <3>1 DEF RestoreTruncate, Forget, States, Modes
  <2>15. ASSUME NEW h \in Handles, StatementStart(h) PROVE TypeOK'
    BY <2>15 DEF StatementStart, States
  <2>16. ASSUME NEW h \in Handles, PersistRecords(h) PROVE TypeOK'
    BY <2>16, WriteHeaderType DEF PersistRecords, States
  <2>17. ASSUME NEW h \in Handles, StatementOk(h) PROVE TypeOK'
    BY <2>17 DEF StatementOk, States
  <2>18. ASSUME NEW h \in Handles, StatementFail(h) PROVE TypeOK'
    BY <2>18 DEF StatementFail, States
  <2>19. ASSUME NEW h \in Handles, Interrupt(h) PROVE TypeOK'
    BY <2>19 DEF Interrupt, States, Modes
  <2>20. ASSUME NEW h \in Handles, NEW v \in Values, InsertRow(h, v)
         PROVE  TypeOK'
    <3>1. RowPage(v) \in Page
      BY DEF RowPage, Page
    <3>2. disk' \in File
      BY <2>20, <3>1, AppendPageType DEF InsertRow
    <3>3. disk.size \in PageIds
      BY <2>20 DEF InsertRow, PageIds, File
    <3>4. QED
      BY <2>20, <3>2, <3>3 DEF InsertRow, States, Header
  <2>21. ASSUME NEW h \in Handles, NEW v \in Values, PersistIndex(h, v)
         PROVE  TypeOK'
    <3>1. IndexPage(v) \in Page
      BY DEF IndexPage, Page
    <3>2. disk' \in File
      BY <2>21, <3>1, AppendPageType DEF PersistIndex
    <3>3. QED
      BY <2>21, <3>2 DEF PersistIndex
  <2>22. ASSUME NEW h \in Handles, NEW p \in PageIds, DeleteRow(h, p)
         PROVE  TypeOK'
    <3>1. DeletedPage(disk.page[p].val) \in Page
      <4>1. disk.page[p] \in Page /\ disk.page[p].kind = "row"
        BY <2>22 DEF DeleteRow, File
      <4>2. disk.page[p].val \in Values
        BY <4>1 DEF Page, NoPage
      <4>3. QED
        BY <4>2 DEF DeletedPage, Page
    <3>2. disk' \in File
      BY <2>22, <3>1, WritePageType DEF DeleteRow
    <3>3. QED
      BY <2>22, <3>2 DEF DeleteRow, States, Header
  <2>23. ASSUME NEW h \in Handles, NEW p \in PageIds, NEW v \in Values,
                UpdateRow(h, p, v)
         PROVE  TypeOK'
    <3>1. RowPage(v) \in Page
      BY DEF RowPage, Page
    <3>2. disk' \in File
      BY <2>23, <3>1, WritePageType DEF UpdateRow
    <3>3. QED
      BY <2>23, <3>2 DEF UpdateRow
  <2>24. ASSUME NEW h \in Handles, InitTableStore(h) PROVE TypeOK'
    BY <2>24, WriteHeaderType DEF InitTableStore
  <2>25. ASSUME NEW h \in Handles, Crash(h) PROVE TypeOK'
    BY <2>25 DEF Crash, Die, Forget, States, Modes
  <2>26. ASSUME NEW h \in Handles, TornCrash(h) PROVE TypeOK'
    <3>1. PICK n \in 0..(Image(h).size - 1) :
            disk' = Overwrite(disk, Image(h), n)
      BY <2>26 DEF TornCrash
    <3>2. Image(h) \in File /\ n \in 0..MaxPages
      BY <3>1 DEF Image, File
    <3>3. disk' \in File
      BY <3>1, <3>2, OverwriteType
    <3>4. QED
      BY <2>26, <3>3 DEF TornCrash, Die, Forget, States, Modes
  <2>27. ASSUME NEW h \in Handles, CommitFail(h) PROVE TypeOK'
    <3>1. [mem[h] EXCEPT !.marker = NoMarker] \in Header
      BY DEF Header
    <3>2. crashes' \in 0..MaxCrashes
      BY <2>27 DEF CommitFail
    <3>3. QED
      BY <2>27, <3>1, <3>2 DEF CommitFail, Forget, States, Modes
  <2>28. ASSUME NEW h \in Handles, RestoreFail(h) PROVE TypeOK'
    <3>1. Image(h) \in File /\ Image(h).size \in 0..MaxPages
      BY DEF Image, File
    <3>2. disk' \in File
      <4>1. \/ disk' = disk
            \/ \E n \in 0..Image(h).size : disk' = Overwrite(disk, Image(h), n)
        BY <2>28, Zenon DEF RestoreFail
      <4>2. \A n \in 0..Image(h).size : n \in 0..MaxPages
        BY <3>1
      <4>3. QED
        BY <3>1, <4>1, <4>2, OverwriteType
    <3>3. crashes' \in 0..MaxCrashes
      BY <2>28 DEF RestoreFail
    <3>4. mem' \in [Handles -> Header] /\ pc' \in [Handles -> States]
      BY <2>28 DEF RestoreFail, States
    <3>5. CASE pc[h] = "revert"
      BY <2>28, <3>2, <3>3, <3>4, <3>5 DEF RestoreFail
    <3>6. CASE pc[h] # "revert"
      BY <2>28, <3>2, <3>3, <3>4, <3>6 DEF RestoreFail, Forget, Modes
    <3>7. QED
      BY <3>5, <3>6
  <2>29. ASSUME NEW h \in Handles, InterruptedWrite(h) PROVE TypeOK'
    <3>1. \A v \in Values : RowPage(v) \in Page /\ DeletedPage(v) \in Page
      BY DEF RowPage, DeletedPage, Page
    <3>2. CASE \E v \in Values : disk.size < MaxPages /\ disk' = AppendPage(disk, RowPage(v))
      BY <2>29, <3>1, <3>2, AppendPageType DEF InterruptedWrite, States, Modes
    <3>3. CASE \E p \in mem[h].recs :
                 /\ disk.page[p].kind = "row"
                 /\ disk' = WritePage(disk, p, DeletedPage(disk.page[p].val))
      <4>1. PICK p \in mem[h].recs :
              /\ disk.page[p].kind = "row"
              /\ disk' = WritePage(disk, p, DeletedPage(disk.page[p].val))
        BY <3>3
      <4>2. p \in PageIds /\ disk.page[p] \in Page
        BY DEF Header, File
      <4>3. disk.page[p].val \in Values
        BY <4>1, <4>2 DEF Page, NoPage
      <4>4. disk' \in File
        BY <3>1, <4>1, <4>2, <4>3, WritePageType
      <4>5. QED
        BY <2>29, <4>4 DEF InterruptedWrite, States, Modes
    <3>4. QED
      BY <2>29, <3>2, <3>3 DEF InterruptedWrite
  <2>30. QED
    BY <2>1, <2>2, <2>3, <2>4, <2>5, <2>6, <2>7, <2>8, <2>9, <2>10, <2>11,
       <2>12, <2>13, <2>14, <2>15, <2>16, <2>17, <2>18, <2>19, <2>20, <2>21,
       <2>22, <2>23, <2>24, <2>25, <2>26, <2>27, <2>28, <2>29
       DEF Next, Step, Transaction, Statement
<1>3. QED
  BY <1>1, <1>2, PTL DEF Spec

-----------------------------------------------------------------------------
(***************************************************************************)
(* What the operations on files do, field by field.                        *)
(***************************************************************************)

LEMMA FileFields ==
  ASSUME NEW f \in File
  PROVE  /\ f.recs \subseteq PageIds
         /\ f.marker \in PageIds \cup {NoMarker, Oversized}
         /\ f.size \in Nat /\ f.size <= MaxPages
         /\ f.page \in [PageIds -> Page]
         /\ \A p \in PageIds : p \in Int
BY BoundsAssumption DEF File, PageIds

LEMMA AppendPageFields ==
  ASSUME NEW f \in File, NEW x, f.size < MaxPages
  PROVE  /\ AppendPage(f, x).recs = f.recs
         /\ AppendPage(f, x).marker = f.marker
         /\ AppendPage(f, x).size = f.size + 1
         /\ f.size \in PageIds
         /\ AppendPage(f, x).page[f.size] = x
         /\ \A p \in PageIds : p < f.size => AppendPage(f, x).page[p] = f.page[p]
<1>1. f.size \in PageIds
  BY BoundsAssumption DEF File, PageIds
<1>2. AppendPage(f, x).page = [f.page EXCEPT ![f.size] = x]
  BY DEF AppendPage, File
<1>3. QED
  BY <1>1, <1>2, FileFields DEF AppendPage, File

LEMMA WritePageFields ==
  ASSUME NEW f \in File, NEW x, NEW q \in PageIds
  PROVE  /\ WritePage(f, q, x).recs = f.recs
         /\ WritePage(f, q, x).marker = f.marker
         /\ WritePage(f, q, x).size = f.size
         /\ \A p \in PageIds : p # q => WritePage(f, q, x).page[p] = f.page[p]
BY DEF WritePage, File

LEMMA WriteHeaderFields ==
  ASSUME NEW f \in File, NEW h
  PROVE  /\ WriteHeader(f, h).recs = h.recs
         /\ WriteHeader(f, h).marker = h.marker
         /\ WriteHeader(f, h).size = f.size
         /\ WriteHeader(f, h).page = f.page
BY DEF WriteHeader, File

LEMMA OverwriteFields ==
  ASSUME NEW f \in File, NEW g \in File, NEW n \in Nat
  PROVE  /\ Overwrite(f, g, n).recs = g.recs
         /\ Overwrite(f, g, n).marker = g.marker
         /\ n <= Overwrite(f, g, n).size
         /\ f.size <= Overwrite(f, g, n).size
         /\ \A p \in PageIds : Overwrite(f, g, n).page[p] =
                                 IF p < n THEN g.page[p] ELSE f.page[p]
BY FileFields DEF Overwrite

LEMMA TruncateFields ==
  ASSUME NEW f \in File, NEW n
  PROVE  /\ Truncate(f, n).recs = f.recs
         /\ Truncate(f, n).marker = f.marker
         /\ Truncate(f, n).size = n
         /\ \A p \in PageIds : p < n => Truncate(f, n).page[p] = f.page[p]
BY DEF Truncate, File

\* A marker is a page id wherever the copy is there.
LEMMA CopyKept ==
  ASSUME snaps' = snaps,
         disk.marker # NoMarker,
         HasSnapshot(disk, disk.marker),
         disk'.marker = disk.marker,
         disk'.page[disk.marker] = disk.page[disk.marker]
  PROVE  HasSnapshot(disk, disk.marker)' /\ Recovered(disk)' = Recovered(disk)
BY DEF HasSnapshot, Recovered

-----------------------------------------------------------------------------
(***************************************************************************)
(* Recoveries, with any number of open handles.  As long as nothing has    *)
(* crashed or failed, a file without an owner has no marker.  The memory   *)
(* of a handle may be out of date, but its marker is then gone as well.    *)
(***************************************************************************)

LiveHandle(h) ==
    /\ pc[h] \notin {"closed", "waiting", "idle"} => lock = h
    /\ pc[h] \notin {"recover", "recoverCut"}
    /\ pc[h] = "idle" => mem[h].marker \in {NoMarker, Oversized}
    /\ pc[h] \in {"begin", "appended", "rollbackCut"} => disk.marker = NoMarker
    /\ pc[h] \in {"active", "body", "persist", "done"} /\ mem[h].marker = NoMarker
        => disk.marker = NoMarker
    /\ pc[h] \notin {"closed", "waiting", "idle"} => undo[h].marker = NoMarker

LiveInv ==
    crashes = 0 =>
        /\ lock = Nobody => disk.marker = NoMarker
        /\ \A h \in Handles : LiveHandle(h)

LEMMA LiveInit == Init => LiveInv
BY InitialFilesFields, NobodyAssumption DEF Init, LiveInv, LiveHandle

LEMMA FailuresAreCounted == [Next]_vars => crashes' \in {crashes, crashes + 1}
BY DEF vars, Next, Step, Transaction, Statement, Open, RecoverLock, RecoverTimeout, Close,
       Begin, AppendSnapshot, WriteMarker, MarkerTooLarge, Commit, CommitFail, Rollback,
       RestoreWrite, RestoreFail, RevertTruncate, RestoreTruncate, StatementStart,
       InsertRow, DeleteRow, PersistRecords, UpdateRow, PersistIndex, StatementOk,
       StatementFail, Interrupt, InterruptedWrite, InitTableStore, Crash, TornCrash, Die

LEMMA LiveStep == ~ReadAhead /\ TypeOK /\ LiveInv /\ [Next]_vars => LiveInv'
<1>1. SUFFICES ASSUME ~ReadAhead, TypeOK, LiveInv, [Next]_vars, crashes' = 0
               PROVE  LiveInv'
  BY DEF LiveInv
<1> USE NobodyAssumption DEF TypeOK, Goto
<1>2. CASE UNCHANGED vars
  BY <1>1, <1>2 DEF vars, LiveInv, LiveHandle
<1>3. crashes = 0
  BY <1>1, FailuresAreCounted, BoundsAssumption
<1>4. ASSUME NEW h \in Handles, crashes = 0, Open(h) PROVE LiveInv'
  BY <1>1, <1>4 DEF LiveInv, LiveHandle, Open, HeaderOf
<1>5. ASSUME NEW h \in Handles, crashes = 0, RecoverTimeout(h) PROVE LiveInv'
  BY <1>1, <1>5 DEF LiveInv, LiveHandle, RecoverTimeout
<1>6. ASSUME NEW h \in Handles, crashes = 0, Close(h) PROVE LiveInv'
  BY <1>1, <1>6 DEF LiveInv, LiveHandle, Close
<1>7. ASSUME NEW h \in Handles, crashes = 0, MarkerTooLarge(h) PROVE LiveInv'
  BY <1>1, <1>7 DEF LiveInv, LiveHandle, MarkerTooLarge, Forget
<1>8. ASSUME NEW h \in Handles, crashes = 0, Rollback(h) PROVE LiveInv'
  BY <1>1, <1>8 DEF LiveInv, LiveHandle, Rollback
<1>9. ASSUME NEW h \in Handles, crashes = 0, StatementStart(h) PROVE LiveInv'
  BY <1>1, <1>9 DEF LiveInv, LiveHandle, StatementStart
<1>10. ASSUME NEW h \in Handles, crashes = 0, StatementOk(h) PROVE LiveInv'
  BY <1>1, <1>10 DEF LiveInv, LiveHandle, StatementOk
<1>11. ASSUME NEW h \in Handles, crashes = 0, StatementFail(h) PROVE LiveInv'
  BY <1>1, <1>11 DEF LiveInv, LiveHandle, StatementFail
<1>12. ASSUME NEW h \in Handles, crashes = 0, Interrupt(h) PROVE LiveInv'
  BY <1>1, <1>12 DEF LiveInv, LiveHandle, Interrupt
<1>13. ASSUME NEW h \in Handles, crashes = 0, InitTableStore(h) PROVE LiveInv'
  BY <1>1, <1>13 DEF LiveInv, LiveHandle, InitTableStore, WriteHeader
<1>14. ASSUME NEW h \in Handles, crashes = 0, PersistRecords(h) PROVE LiveInv'
  BY <1>1, <1>14 DEF LiveInv, LiveHandle, PersistRecords, WriteHeader
<1>15. ASSUME NEW h \in Handles, crashes = 0, AppendSnapshot(h) PROVE LiveInv'
  BY <1>1, <1>15 DEF LiveInv, LiveHandle, AppendSnapshot, AppendPage
<1>16. ASSUME NEW h \in Handles, crashes = 0, WriteMarker(h) PROVE LiveInv'
  BY <1>1, <1>16 DEF LiveInv, LiveHandle, WriteMarker, WriteHeader
<1>17. ASSUME NEW h \in Handles, crashes = 0, Commit(h) PROVE LiveInv'
  BY <1>1, <1>17 DEF LiveInv, LiveHandle, Commit, Forget, WriteHeader
<1>18. ASSUME NEW h \in Handles, crashes = 0, RestoreWrite(h) PROVE LiveInv'
  BY <1>1, <1>18 DEF LiveInv, LiveHandle, RestoreWrite, Image, Overwrite
<1>19. ASSUME NEW h \in Handles, crashes = 0, RevertTruncate(h) PROVE LiveInv'
  BY <1>1, <1>19 DEF LiveInv, LiveHandle, RevertTruncate, HeaderOf, Truncate
<1>20. ASSUME NEW h \in Handles, crashes = 0, RestoreTruncate(h) PROVE LiveInv'
  BY <1>1, <1>20 DEF LiveInv, LiveHandle, RestoreTruncate, Forget, HeaderOf, Truncate
<1>21. ASSUME NEW h \in Handles, crashes = 0, RecoverLock(h) PROVE LiveInv'
  BY <1>1, <1>21 DEF LiveInv, LiveHandle, RecoverLock, HeaderOf
<1>22. ASSUME NEW h \in Handles, crashes = 0, NEW m \in {"explicit", "auto"}, Begin(h, m)
       PROVE  LiveInv'
  BY <1>1, <1>22 DEF LiveInv, LiveHandle, Begin
<1>23. ASSUME NEW h \in Handles, crashes = 0, NEW v \in Values, InsertRow(h, v) PROVE LiveInv'
  BY <1>1, <1>23 DEF LiveInv, LiveHandle, InsertRow, AppendPage
<1>24. ASSUME NEW h \in Handles, crashes = 0, NEW v \in Values, PersistIndex(h, v)
       PROVE  LiveInv'
  BY <1>1, <1>24 DEF LiveInv, LiveHandle, PersistIndex, AppendPage
<1>25. ASSUME NEW h \in Handles, crashes = 0, NEW p \in PageIds, DeleteRow(h, p) PROVE LiveInv'
  BY <1>1, <1>25 DEF LiveInv, LiveHandle, DeleteRow, WritePage
<1>26. ASSUME NEW h \in Handles, crashes = 0, NEW p \in PageIds, NEW v \in Values,
              UpdateRow(h, p, v)
       PROVE  LiveInv'
  BY <1>1, <1>26 DEF LiveInv, LiveHandle, UpdateRow, WritePage
<1>27. ASSUME NEW h \in Handles, crashes = 0,
              CommitFail(h) \/ RestoreFail(h) \/ Crash(h) \/ TornCrash(h)
       PROVE  FALSE
  BY <1>1, <1>27 DEF CommitFail, RestoreFail, Crash, TornCrash, Die
<1>28. ASSUME NEW h \in Handles, crashes = 0, InterruptedWrite(h) PROVE LiveInv'
  <2>1. disk'.marker = disk.marker
    <3>1. \A x : AppendPage(disk, x).marker = disk.marker
      BY DEF AppendPage, File
    <3>2. \A p, x : WritePage(disk, p, x).marker = disk.marker
      BY DEF WritePage, File
    <3>3. QED
      BY <1>28, <3>1, <3>2 DEF InterruptedWrite
  <2>2. /\ pc[h] = "body" /\ pc' = [pc EXCEPT ![h] = "active"]
        /\ UNCHANGED <<lock, mem, undo, crashes>>
    BY <1>28 DEF InterruptedWrite
  <2>3. QED
    BY <1>1, <1>28, <2>1, <2>2 DEF LiveInv, LiveHandle
<1>29. QED
  BY <1>1, <1>2, <1>3, <1>4, <1>5, <1>6, <1>7, <1>8, <1>9, <1>10, <1>11,
     <1>12, <1>13, <1>14, <1>15, <1>16, <1>17, <1>18, <1>19, <1>20, <1>21,
     <1>22, <1>23, <1>24, <1>25, <1>26, <1>27, <1>28 DEF Next, Step, Transaction, Statement

\* No recovery takes a live or a committed transaction for an interrupted one, however
\* many handles are open, with KeyboardInterrupt as well: what opening a file
\* finds without the lock is looked at again with it.  It takes a file object
\* that reads the header from the file (_recover_incomplete_transaction()).
THEOREM RecoveryTheorem ==
  ASSUME ~ReadAhead
  PROVE  Spec => []RecoveryOnlyAfterCrash
<1>1. LiveInv => RecoveryOnlyAfterCrash
  BY DEF LiveInv, LiveHandle, RecoveryOnlyAfterCrash
<1>2. TypeOK /\ LiveInv /\ [Next]_vars => LiveInv'
  BY LiveStep
<1>3. QED
  BY <1>1, <1>2, LiveInit, Typing, PTL DEF Spec

-----------------------------------------------------------------------------
(* The lock and the file: for any handles, open at the same time or not. *)

\* A handle takes the lock on its way into the states of Owning, and releases it on
\* every way out of them.
LEMMA OwnerStep == TypeOK /\ OwnerHasLock /\ [Next]_vars => OwnerHasLock'
<1>1. SUFFICES ASSUME TypeOK, OwnerHasLock, [Next]_vars
               PROVE  OwnerHasLock'
  OBVIOUS
<1>2. CASE UNCHANGED vars
  BY <1>1, <1>2 DEF vars, OwnerHasLock
<1>3. CASE Next
  <2>1. PICK h \in Handles : Step(h)
    BY <1>3 DEF Next
  <2> USE <1>1, NobodyAssumption DEF TypeOK, OwnerHasLock, Owning, States, Goto
  <2>2. CASE Open(h) \/ RecoverTimeout(h) \/ Close(h)
    BY <2>2 DEF Open, RecoverTimeout, Close
  <2>3. CASE RecoverLock(h)
    <3>1. \/ lock' = lock /\ pc' \in {[pc EXCEPT ![h] = "idle"], [pc EXCEPT ![h] = "closed"]}
          \/ lock' = h /\ pc' = [pc EXCEPT ![h] = "recover"]
      BY <2>3 DEF RecoverLock
    <3>2. pc[h] = "waiting" /\ lock = Nobody
      BY <2>3 DEF RecoverLock
    <3>3. QED
      BY <3>1, <3>2
  <2>4. CASE Crash(h) \/ TornCrash(h)
    BY <2>4 DEF Crash, TornCrash, Die
  <2>5. CASE (\E m \in {"explicit", "auto"} : Begin(h, m)) \/ AppendSnapshot(h)
                 \/ WriteMarker(h) \/ MarkerTooLarge(h)
    BY <2>5 DEF Begin, AppendSnapshot, WriteMarker, MarkerTooLarge
  <2>6. CASE Statement(h) \/ InitTableStore(h)
    BY <2>6 DEF Statement, StatementStart, InsertRow, DeleteRow, PersistRecords, UpdateRow,
                PersistIndex, StatementOk, StatementFail, Interrupt, InterruptedWrite,
                InitTableStore
  <2>7. CASE Commit(h) \/ CommitFail(h) \/ Rollback(h)
    BY <2>7 DEF Commit, CommitFail, Rollback
  <2>8. CASE RestoreWrite(h) \/ RevertTruncate(h) \/ RestoreTruncate(h)
    BY <2>8 DEF RestoreWrite, RevertTruncate, RestoreTruncate
  <2>9. CASE RestoreFail(h)
    BY <2>9 DEF RestoreFail
  <2>10. QED
    BY <2>1, <2>2, <2>3, <2>4, <2>5, <2>6, <2>7, <2>8, <2>9 DEF Step, Transaction
<1>4. QED
  BY <1>1, <1>2, <1>3

\* Whatever handles are open, and whatever fails, is interrupted or crashes: the file
\* changes in steps of the owner of the lock, except for the header that a SELECT on a
\* table without records writes (TableStore.__init__).
THEOREM OwnerWrites == Spec => OnlyTheOwnerWrites
<1>1. Init => OwnerHasLock
  BY NobodyAssumption DEF Init, OwnerHasLock, Owning
<1>2. Spec => []OwnerHasLock
  BY <1>1, OwnerStep, Typing, PTL DEF Spec
<1>3. ASSUME TypeOK, NEW h \in Handles, InitTableStore(h)
      PROVE  EmptyTable /\ UNCHANGED <<disk.size, disk.page>>
  BY <1>3 DEF TypeOK, File, InitTableStore, WriteHeader
<1>4. ASSUME NEW h \in Handles, Crash(h) PROVE disk' = disk
  BY <1>4 DEF Crash
<1>5. ASSUME NEW h \in Handles,
             Open(h) \/ RecoverLock(h) \/ RecoverTimeout(h) \/ Close(h)
      PROVE  disk' = disk
  BY <1>5 DEF Open, RecoverLock, RecoverTimeout, Close
<1>6. ASSUME NEW h \in Handles, Transaction(h) \/ Statement(h) \/ TornCrash(h), disk' # disk
      PROVE  pc[h] \in Owning
  BY <1>6
     DEF Owning, States, Transaction, Statement, Begin, AppendSnapshot, WriteMarker,
         MarkerTooLarge, StatementStart, InsertRow, DeleteRow, PersistRecords,
         UpdateRow, PersistIndex, StatementOk, StatementFail, Interrupt, InterruptedWrite,
         Commit, CommitFail, Rollback, RestoreWrite, RestoreFail, RevertTruncate,
         RestoreTruncate, TornCrash
<1>7. ASSUME TypeOK, OwnerHasLock, NEW h \in Handles, Step(h), disk' # disk
      PROVE  \/ lock = h
             \/ EmptyTable /\ UNCHANGED <<disk.size, disk.page>>
  BY <1>3, <1>4, <1>5, <1>6, <1>7 DEF Step, OwnerHasLock
<1>8. ASSUME TypeOK, OwnerHasLock, [Next]_vars, disk' # disk
      PROVE  \/ \E h \in Handles : lock = h /\ Step(h)
             \/ EmptyTable /\ UNCHANGED <<disk.size, disk.page>>
  <2>1. PICK h \in Handles : Step(h)
    BY <1>8 DEF vars, Next
  <2>2. QED
    BY <1>7, <1>8, <2>1
<1>9. TypeOK /\ OwnerHasLock /\ [Next]_vars
        => [disk' # disk => \/ \E h \in Handles : lock = h /\ Step(h)
                            \/ EmptyTable /\ UNCHANGED <<disk.size, disk.page>>]_vars
  BY <1>8
<1>10. QED
  BY <1>2, <1>9, Typing, PTL DEF Spec, OnlyTheOwnerWrites

-----------------------------------------------------------------------------
(***************************************************************************)
(* One handle at a time: SoloInv is inductive.                             *)
(***************************************************************************)

\* If the other handles are closed and stay so, the invariant is a matter of
\* the file and of the handle that takes the step.
LEMMA OneHandleSuffices ==
  ASSUME NEW h \in Handles,
         pc' \in [Handles -> States],
         \A g \in Handles : g # h => pc'[g] = "closed",
         lock' = h <=> pc'[h] \in Owning,
         lock' \in {h, Nobody},
         CopiesAreClean', FileIsSound', HandleInv(h)'
  PROVE  SoloInv'
<1>1. OneOpen'
  BY DEF OneOpen
<1>2. OwnerHasLock'
  BY NobodyAssumption DEF OwnerHasLock, Owning
<1>3. ASSUME NEW g \in Handles, g # h PROVE HandleInv(g)'
  BY <1>3 DEF HandleInv, WaitingInv, IdleInv, BeginInv, AppendedInv, MarkedInv,
              SavepointInv, RevertedInv, RecoverInv, RestoredInv, InMarked
<1>4. QED
  BY <1>1, <1>2, <1>3 DEF SoloInv

\* A handle that is open is the only one, and owns the lock if anybody does.
LEMMA OthersAreClosed ==
  ASSUME TypeOK, SoloInv, NEW h \in Handles, pc[h] # "closed"
  PROVE  /\ \A g \in Handles : g # h => pc[g] = "closed"
         /\ lock \in {h, Nobody}
         /\ lock = h <=> pc[h] \in Owning
BY DEF TypeOK, SoloInv, OneOpen, OwnerHasLock, Owning

\* A step inside a transaction leaves the marker and its copy alone.
LEMMA InsideTransaction ==
  ASSUME TypeOK, TypeOK', SoloInv, NEW h \in Handles,
         pc[h] \in {"active", "body", "persist"},
         \/ pc'[h] = "active"
         \/ /\ pc[h] \in {"body", "persist"} /\ pc'[h] \in {"body", "persist"}
            /\ UNCHANGED <<savepoint, mode>>,
         UNCHANGED <<snaps, undo>>,
         disk'.marker = disk.marker,
         disk'.page[disk.marker] = disk.page[disk.marker],
         disk.size <= disk'.size,
         RecordsInside(disk'.recs, disk'),
         mem'[h].marker = mem[h].marker,
         RecordsInside(mem'[h].recs, disk')
  PROVE  CopiesAreClean' /\ FileIsSound' /\ HandleInv(h)'
<1>1. MarkedInv(h) /\ SavepointInv(h) /\ FileIsSound
  BY DEF SoloInv, HandleInv
<1>2. /\ disk.marker # NoMarker /\ HasSnapshot(disk, disk.marker)
      /\ disk.marker < disk.size
      /\ Recovered(disk) = undo[h] /\ undo[h].size <= disk.size
  BY <1>1 DEF MarkedInv, InMarked, FileIsSound
<1>3. HasSnapshot(disk, disk.marker)' /\ Recovered(disk)' = Recovered(disk)
  BY <1>2, CopyKept
<1>4. disk \in File /\ disk' \in File /\ undo \in [Handles -> File]
      /\ savepoint \in [Handles -> File] /\ disk.marker \in PageIds
  BY <1>2 DEF TypeOK, HasSnapshot
<1>5. CopiesAreClean'
  BY DEF SoloInv, CopiesAreClean, Clean, RecordsInside
<1>6. FileIsSound'
  BY <1>2, <1>3, <1>4, FileFields DEF FileIsSound
<1>7. MarkedInv(h)'
  BY <1>1, <1>2, <1>3 DEF MarkedInv, InMarked, Clean, RecordsInside
<1>8. SavepointInv(h)'
  BY <1>1, <1>4, FileFields DEF SavepointInv, RecordsInside
<1>9. QED
  BY <1>5, <1>6, <1>7, <1>8
     DEF HandleInv, WaitingInv, IdleInv, BeginInv, AppendedInv, RevertedInv,
         RecoverInv, RestoredInv

\* A step that leaves the file alone leaves the copies alone.
LEMMA FileUntouched ==
  ASSUME SoloInv, UNCHANGED <<disk, snaps>>
  PROVE  CopiesAreClean' /\ FileIsSound'
BY DEF SoloInv, CopiesAreClean, FileIsSound, Clean, RecordsInside, HasSnapshot,
       Recovered

\* Records that refer to pages of f refer to pages of any longer file.
LEMMA LongerFile ==
  ASSUME NEW f \in File, NEW g \in File, NEW recs \in SUBSET PageIds,
         RecordsInside(recs, f), f.size <= g.size
  PROVE  RecordsInside(recs, g)
BY FileFields DEF RecordsInside

\* What HandleInv asks of a handle in the states that follow a restore.
LEMMA AfterRestore ==
  ASSUME NEW h \in Handles,
         \/ pc'[h] = "closed"
         \/ pc'[h] = "revertCut" /\ MarkedInv(h)' /\ SavepointInv(h)'
                                 /\ RevertedInv(h)'
         \/ pc'[h] \in {"recoverCut", "rollbackCut"} /\ RestoredInv(h)'
  PROVE  HandleInv(h)'
BY DEF HandleInv, WaitingInv, IdleInv, BeginInv, AppendedInv, MarkedInv,
       SavepointInv, RevertedInv, RecoverInv, RestoredInv, InMarked

LEMMA SoloStep ==
  ASSUME ~Overlap, ~IOErrors, TypeOK, TypeOK', SoloInv, [Next]_vars
  PROVE  SoloInv'
<1> USE DEF Goto, HandleInv, WaitingInv, IdleInv, BeginInv, AppendedInv,
            MarkedInv, SavepointInv, RevertedInv, RecoverInv, RestoredInv,
            InMarked
<1> DEFINE Alone(h) == /\ pc' \in [Handles -> States]
                       /\ \A g \in Handles : g # h => pc'[g] = "closed"
                       /\ lock' = h <=> pc'[h] \in Owning
                       /\ lock' \in {h, Nobody}
           Kept(h) == CopiesAreClean' /\ FileIsSound' /\ HandleInv(h)'
<1>a. \A h \in Handles : Alone(h) /\ Kept(h) => SoloInv'
  BY OneHandleSuffices
<1> USE DEF SoloInv
<1>1. CASE UNCHANGED vars
  <2>1. CopiesAreClean' /\ FileIsSound'
    BY <1>1, FileUntouched DEF vars
  <2>2. ASSUME NEW h \in Handles PROVE HandleInv(h)'
    BY <1>1 DEF vars, HeaderOf, HasSnapshot, Recovered, StartsWith, Clean,
                RecordsInside
  <2>3. QED
    BY <1>1, <2>1, <2>2 DEF vars, OneOpen, OwnerHasLock
<1>2. ASSUME NEW h \in Handles, Open(h)
      PROVE  SoloInv'
  <2>1. Alone(h)
    BY <1>2, OthersAreClosed, NobodyAssumption
       DEF Open, TypeOK, OneOpen, OwnerHasLock, Owning, States
  <2>2. CopiesAreClean' /\ FileIsSound'
    BY <1>2, FileUntouched DEF Open
  <2>3. Kept(h)
    BY <1>2, <2>2 DEF Open, TypeOK, HeaderOf
  <2>4. QED
    BY <2>1, <2>3, <1>a
<1>3. ASSUME NEW h \in Handles, RecoverLock(h)
      PROVE  SoloInv'
  <2>1. Alone(h)
    BY <1>3, OthersAreClosed, NobodyAssumption
       DEF RecoverLock, TypeOK, OneOpen, OwnerHasLock, Owning, States
  <2>2. CopiesAreClean' /\ FileIsSound'
    BY <1>3, FileUntouched DEF RecoverLock
  <2>3. disk.marker # NoMarker /\ mem[h] = HeaderOf(disk)
    BY <1>3 DEF RecoverLock
  <2>4. HasSnapshot(disk, disk.marker)
    BY <2>3 DEF FileIsSound
  <2>5. pc' = [pc EXCEPT ![h] = "recover"]
        /\ undo' = [undo EXCEPT ![h] = snaps[disk.page[disk.marker].val]]
    BY <1>3, <2>3, <2>4 DEF RecoverLock, HeaderOf
  <2>6. UNCHANGED <<disk, snaps>>
    BY <1>3 DEF RecoverLock
  <2>7. Kept(h)
    BY <1>3, <2>2, <2>3, <2>5, <2>6 DEF TypeOK, Recovered
  <2>8. QED
    BY <2>1, <2>7, <1>a
<1>4. ASSUME NEW h \in Handles, RecoverTimeout(h)
      PROVE  SoloInv'
  <2>1. Alone(h)
    BY <1>4, OthersAreClosed, NobodyAssumption
       DEF RecoverTimeout, TypeOK, OneOpen, OwnerHasLock, Owning, States
  <2>2. CopiesAreClean' /\ FileIsSound'
    BY <1>4, FileUntouched DEF RecoverTimeout
  <2>3. Kept(h)
    BY <1>4, <2>2 DEF RecoverTimeout, TypeOK
  <2>4. QED
    BY <2>1, <2>3, <1>a
<1>5. ASSUME NEW h \in Handles, Close(h)
      PROVE  SoloInv'
  <2>1. Alone(h)
    BY <1>5, OthersAreClosed, NobodyAssumption
       DEF Close, TypeOK, OneOpen, OwnerHasLock, Owning, States
  <2>2. CopiesAreClean' /\ FileIsSound'
    BY <1>5, FileUntouched DEF Close
  <2>3. Kept(h)
    BY <1>5, <2>2 DEF Close, TypeOK
  <2>4. QED
    BY <2>1, <2>3, <1>a
<1>6. ASSUME NEW h \in Handles, NEW m \in {"explicit", "auto"}, Begin(h, m)
      PROVE  SoloInv'
  <2>1. Alone(h)
    BY <1>6, OthersAreClosed, NobodyAssumption
       DEF Begin, TypeOK, OneOpen, OwnerHasLock, Owning, States
  <2>2. CopiesAreClean' /\ FileIsSound'
    BY <1>6, FileUntouched DEF Begin
  <2>3. Kept(h)
    BY <1>6, <2>2 DEF Begin, TypeOK, FileIsSound, Clean, StartsWith, HeaderOf, Oversized,
                  NoMarker, File
  <2>4. QED
    BY <2>1, <2>3, <1>a
<1>7. ASSUME NEW h \in Handles, AppendSnapshot(h)
      PROVE  SoloInv'
  <2>1. Alone(h)
    BY <1>7, OthersAreClosed, NobodyAssumption
       DEF AppendSnapshot, TypeOK, OneOpen, OwnerHasLock, Owning, States
  <2> DEFINE x == SnapPage(Len(snaps) + 1)
  <2>2. disk' = AppendPage(disk, x) /\ snaps' = Append(snaps, disk)
    BY <1>7 DEF AppendSnapshot
  <2>3. disk \in File /\ disk.size < MaxPages /\ snaps \in Seq(File)
    BY <1>7 DEF AppendSnapshot, TypeOK
  <2>4. /\ disk'.recs = disk.recs /\ disk'.marker = disk.marker
        /\ disk'.size = disk.size + 1
        /\ disk.size \in PageIds
        /\ disk'.page[disk.size] = x
        /\ \A p \in PageIds : p < disk.size => disk'.page[p] = disk.page[p]
    BY <2>2, <2>3, AppendPageFields
  <2>5. /\ Clean(disk) /\ undo[h] = disk /\ mem[h] = HeaderOf(disk)
        /\ mode[h] \in {"explicit", "auto"}
    BY <1>7 DEF AppendSnapshot
  <2>6. CopiesAreClean'
    BY <2>2, <2>3, <2>5 DEF CopiesAreClean, Clean, RecordsInside
  <2>7. Clean(disk)' /\ FileIsSound'
    BY <2>3, <2>4, <2>5, FileFields DEF FileIsSound, Clean, RecordsInside
  <2>8. HandleInv(h)'
    <3>1. pc'[h] = "appended" /\ UNCHANGED <<mem, undo, mode>>
      BY <1>7 DEF AppendSnapshot, TypeOK
    <3>2. mem'[h] = HeaderOf(disk)'
      BY <2>4, <2>5, <3>1 DEF HeaderOf
    <3>3. StartsWith(disk, undo[h])' /\ Clean(undo[h])'
      BY <2>3, <2>4, <2>5, <3>1, FileFields
         DEF StartsWith, Clean, RecordsInside
    <3>4. AppendedInv(h)'
      <4>1. disk'.size > 0 /\ disk'.size - 1 = disk.size
        BY <2>3, <2>4, FileFields
      <4>2. /\ x.kind = "snapshot" /\ x.val = Len(snaps) + 1
            /\ Len(snaps') = Len(snaps) + 1 /\ Len(snaps) \in Nat
            /\ snaps'[Len(snaps) + 1] = disk
        BY <2>2, <2>3 DEF SnapPage
      <4>3. disk'.page[disk'.size - 1] = x /\ disk'.size - 1 \in PageIds
        BY <2>4, <4>1
      <4>4. HasSnapshot(disk, disk.size - 1)'
        BY <4>2, <4>3 DEF HasSnapshot
      <4>5. QED
        BY <2>5, <3>1, <4>1, <4>2, <4>3, <4>4
    <3>5. QED
      BY <2>5, <2>7, <3>1, <3>2, <3>3, <3>4
  <2>9. Kept(h)
    BY <2>6, <2>7, <2>8
  <2>10. QED
    BY <2>1, <2>9, <1>a
<1>8. ASSUME NEW h \in Handles, WriteMarker(h)
      PROVE  SoloInv'
  <2>1. Alone(h)
    BY <1>8, OthersAreClosed, NobodyAssumption
       DEF WriteMarker, TypeOK, OneOpen, OwnerHasLock, Owning, States
  <2> DEFINE hdr == [mem[h] EXCEPT !.marker = disk.size - 1]
  <2>2. disk' = WriteHeader(disk, hdr) /\ mem'[h] = hdr
    BY <1>8 DEF WriteMarker, TypeOK
  <2>3. disk \in File /\ mem[h] \in Header /\ mem[h] = HeaderOf(disk)
    BY <1>8 DEF WriteMarker, TypeOK
  <2>4. /\ disk'.recs = disk.recs /\ disk'.marker = disk.size - 1
        /\ disk'.size = disk.size /\ disk'.page = disk.page
    BY <2>2, <2>3, WriteHeaderFields DEF HeaderOf, Header
  <2>5. /\ Clean(disk) /\ Clean(undo[h]) /\ StartsWith(disk, undo[h])
        /\ mode[h] \in {"explicit", "auto"}
        /\ disk.size > 0 /\ HasSnapshot(disk, disk.size - 1)
        /\ snaps[disk.page[disk.size - 1].val] = undo[h]
    BY <1>8 DEF WriteMarker
  <2>6. /\ UNCHANGED <<snaps, undo, mode>>
        /\ pc'[h] = IF mode[h] = "explicit" THEN "active" ELSE "body"
    BY <1>8 DEF WriteMarker, TypeOK
  <2>7. disk'.marker # NoMarker
    BY <2>3, <2>4, <2>5, FileFields DEF NoMarker
  <2>8. Recovered(disk)' = undo[h] /\ HasSnapshot(disk, disk.marker)'
    BY <2>4, <2>5, <2>6, <2>7 DEF Recovered, HasSnapshot
  <2>9. Kept(h)
    <3>1. CopiesAreClean'
      BY <2>6 DEF CopiesAreClean, Clean, RecordsInside
    <3>2. FileIsSound'
      BY <2>3, <2>4, <2>5, <2>7, <2>8, FileFields
         DEF FileIsSound, Clean, RecordsInside, StartsWith
    <3>3. mem'[h].marker = disk'.marker /\ mem'[h].recs = disk'.recs
      BY <2>2, <2>3, <2>4 DEF HeaderOf
    <3>4. MarkedInv(h)'
      BY <2>4, <2>5, <2>6, <2>7, <2>8, <3>3 DEF Clean, RecordsInside
    <3>5. QED
      BY <2>5, <2>6, <3>1, <3>2, <3>4
  <2>10. QED
    BY <2>1, <2>9, <1>a
<1>9. ASSUME NEW h \in Handles, MarkerTooLarge(h)
      PROVE  SoloInv'
  <2>1. Alone(h)
    BY <1>9, OthersAreClosed, NobodyAssumption
       DEF MarkerTooLarge, Forget, TypeOK, OneOpen, OwnerHasLock, Owning, States
  <2>2. CopiesAreClean' /\ FileIsSound'
    BY <1>9, FileUntouched DEF MarkerTooLarge
  <2>3. Kept(h)
    BY <1>9, <2>2 DEF MarkerTooLarge, TypeOK, Clean, Header
  <2>4. QED
    BY <2>1, <2>3, <1>a
<1>10. ASSUME NEW h \in Handles, Commit(h)
      PROVE  SoloInv'
  <2>1. Alone(h)
    BY <1>10, OthersAreClosed, NobodyAssumption
       DEF Commit, Forget, TypeOK, OneOpen, OwnerHasLock, Owning, States
  <2> DEFINE hdr == [mem[h] EXCEPT !.marker = NoMarker]
  <2>2. /\ disk \in File /\ mem[h] \in Header
        /\ mem[h].marker = disk.marker /\ disk.marker # NoMarker
        /\ RecordsInside(mem[h].recs, disk)
    BY <1>10 DEF Commit, TypeOK
  <2>3. disk' = WriteHeader(disk, hdr) /\ mem'[h] = hdr
    BY <1>10, <2>2 DEF Commit, TypeOK
  <2>4. /\ disk'.recs = mem[h].recs /\ disk'.marker = NoMarker
        /\ disk'.size = disk.size
        /\ mem'[h] = HeaderOf(disk)'
    BY <2>2, <2>3, WriteHeaderFields DEF HeaderOf, Header
  <2>5. UNCHANGED snaps /\ pc'[h] = "idle"
    BY <1>10 DEF Commit, TypeOK
  <2>6. CopiesAreClean'
    BY <2>5 DEF CopiesAreClean, Clean, RecordsInside
  <2>7. Kept(h)
    BY <2>2, <2>4, <2>5, <2>6 DEF FileIsSound, RecordsInside
  <2>8. QED
    BY <2>1, <2>7, <1>a
<1>11. ASSUME NEW h \in Handles, Rollback(h)
      PROVE  SoloInv'
  <2>1. Alone(h)
    BY <1>11, OthersAreClosed, NobodyAssumption
       DEF Rollback, TypeOK, OneOpen, OwnerHasLock, Owning, States
  <2>2. CopiesAreClean' /\ FileIsSound'
    BY <1>11, FileUntouched DEF Rollback
  <2>3. Kept(h)
    BY <1>11, <2>2 DEF Rollback, TypeOK, Recovered, Clean, RecordsInside
  <2>4. QED
    BY <2>1, <2>3, <1>a
<1>12. ASSUME NEW h \in Handles, RestoreWrite(h)
      PROVE  SoloInv'
  <2>1. Alone(h)
    BY <1>12, OthersAreClosed, NobodyAssumption
       DEF RestoreWrite, TypeOK, OneOpen, OwnerHasLock, Owning, States
  <2>2. /\ disk \in File /\ undo[h] \in File /\ savepoint[h] \in File
        /\ Image(h) \in File
    BY DEF TypeOK, Image
  <2>3. /\ disk'.recs = Image(h).recs
        /\ disk'.marker = Image(h).marker
        /\ Image(h).size <= disk'.size
        /\ disk.size <= disk'.size
        /\ \A p \in PageIds : disk'.page[p] =
             IF p < Image(h).size THEN Image(h).page[p] ELSE disk.page[p]
    BY <1>12, <2>2, FileFields, OverwriteFields DEF RestoreWrite
  <2>4. /\ UNCHANGED <<snaps, undo, savepoint, mem>>
        /\ CopiesAreClean'
    BY <1>12 DEF RestoreWrite, CopiesAreClean, Clean, RecordsInside
  <2>5. StartsWith(disk', Image(h))
    BY <2>2, <2>3 DEF StartsWith
  <2>6. CASE pc[h] = "revert"
    <3>1. Image(h) = savepoint[h] /\ pc'[h] = "revertCut"
      BY <1>12, <2>6 DEF Image, RestoreWrite, TypeOK
    <3>2. /\ savepoint[h].marker = disk.marker /\ disk.marker # NoMarker
          /\ RecordsInside(savepoint[h].recs, savepoint[h])
          /\ disk.marker < savepoint[h].size
          /\ undo[h].size <= savepoint[h].size
          /\ savepoint[h].size <= disk.size
          /\ savepoint[h].page[disk.marker] = disk.page[disk.marker]
          /\ HasSnapshot(disk, disk.marker) /\ disk.marker \in PageIds
          /\ Recovered(disk) = undo[h]
      BY <2>6 DEF FileIsSound, HasSnapshot
    <3>3. disk'.page[disk.marker] = disk.page[disk.marker]
      BY <2>3, <3>1, <3>2
    <3>4. HasSnapshot(disk, disk.marker)' /\ Recovered(disk)' = Recovered(disk)
      BY <2>3, <2>4, <3>1, <3>2, <3>3, CopyKept
    <3>5. FileIsSound'
      <4>1. disk' \in File /\ disk.marker \in Int
        BY <3>2, FileFields DEF TypeOK
      <4>2. RecordsInside(savepoint[h].recs, disk')
        BY <2>2, <2>3, <3>1, <3>2, <4>1, FileFields, LongerFile
      <4>3. disk.marker < disk'.size /\ undo[h].size <= disk'.size
        BY <2>2, <2>3, <3>1, <3>2, <4>1, FileFields
      <4>4. QED
        BY <2>3, <3>1, <3>2, <3>4, <4>2, <4>3 DEF FileIsSound
    <3>6. MarkedInv(h)'
      BY <2>2, <2>3, <2>4, <2>6, <3>1, <3>2, <3>4, FileFields
         DEF RecordsInside, Clean, TypeOK, Header
    <3>7. SavepointInv(h)'
      BY <2>2, <2>3, <2>4, <3>1, <3>2, <3>3, FileFields DEF RecordsInside
    <3>8. RevertedInv(h)'
      BY <2>4, <2>5, <3>1 DEF StartsWith
    <3>9. QED
      <4> HIDE DEF HandleInv, WaitingInv, IdleInv, BeginInv, AppendedInv,
                   MarkedInv, SavepointInv, RevertedInv, RecoverInv,
                   RestoredInv, InMarked
      <4> QED
        BY <1>a, <2>1, <2>4, <3>1, <3>5, <3>6, <3>7, <3>8, AfterRestore
  <2>7. CASE pc[h] \in {"recover", "rollback"}
    <3>1. Image(h) = undo[h] /\ pc'[h] \in {"recoverCut", "rollbackCut"}
      BY <1>12, <2>7 DEF Image, RestoreWrite, TypeOK
    <3>2. Clean(undo[h])
      BY <2>7 DEF CopiesAreClean, FileIsSound, Recovered, HasSnapshot
    <3>3. RecordsInside(undo[h].recs, disk')
      BY <2>2, <2>3, <3>1, <3>2, FileFields, LongerFile DEF Clean, TypeOK
    <3>4. FileIsSound'
      BY <2>3, <3>1, <3>2, <3>3 DEF FileIsSound, Clean
    <3>5. RestoredInv(h)'
      BY <2>4, <2>5, <3>1, <3>2 DEF StartsWith, Clean, RecordsInside
    <3>6. QED
      <4> HIDE DEF HandleInv, WaitingInv, IdleInv, BeginInv, AppendedInv,
                   MarkedInv, SavepointInv, RevertedInv, RecoverInv,
                   RestoredInv, InMarked
      <4> QED
        BY <1>a, <2>1, <2>4, <3>1, <3>4, <3>5, AfterRestore
  <2>8. QED
    BY <1>12, <2>6, <2>7 DEF RestoreWrite
<1>13. ASSUME NEW h \in Handles, RevertTruncate(h)
      PROVE  SoloInv'
  <2>1. Alone(h)
    BY <1>13, OthersAreClosed, NobodyAssumption
       DEF RevertTruncate, TypeOK, OneOpen, OwnerHasLock, Owning, States
  <2>2. /\ disk \in File /\ undo[h] \in File /\ savepoint[h] \in File
        /\ pc[h] = "revertCut" /\ pc'[h] = "active"
        /\ UNCHANGED <<snaps, undo, mode>>
        /\ mem'[h] = HeaderOf(disk)
        /\ disk' = Truncate(disk, savepoint[h].size)
    BY <1>13 DEF RevertTruncate, TypeOK
  <2>3. /\ disk'.recs = disk.recs /\ disk'.marker = disk.marker
        /\ disk'.size = savepoint[h].size
        /\ \A p \in PageIds : p < savepoint[h].size
                                => disk'.page[p] = disk.page[p]
    BY <2>2, TruncateFields
  <2>4. /\ disk.marker # NoMarker /\ disk.marker < savepoint[h].size
        /\ HasSnapshot(disk, disk.marker) /\ disk.marker \in PageIds
        /\ RecordsInside(savepoint[h].recs, savepoint[h])
        /\ undo[h].size <= savepoint[h].size
        /\ disk.recs = savepoint[h].recs
        /\ Recovered(disk) = undo[h] /\ Clean(undo[h])
    BY <2>2 DEF FileIsSound, HasSnapshot, StartsWith
  <2>5. HasSnapshot(disk, disk.marker)' /\ Recovered(disk)' = Recovered(disk)
    BY <2>2, <2>3, <2>4, CopyKept
  <2>6. CopiesAreClean' /\ FileIsSound'
    BY <2>2, <2>3, <2>4, <2>5 DEF FileIsSound, RecordsInside, CopiesAreClean,
                                  Clean
  <2>7. Kept(h)
    BY <2>2, <2>3, <2>4, <2>5, <2>6 DEF HeaderOf, Clean, RecordsInside
  <2>8. QED
    BY <2>1, <2>7, <1>a
<1>14. ASSUME NEW h \in Handles, RestoreTruncate(h)
      PROVE  SoloInv'
  <2>1. Alone(h)
    BY <1>14, OthersAreClosed, NobodyAssumption
       DEF RestoreTruncate, Forget, TypeOK, OneOpen, OwnerHasLock, Owning, States
  <2>2. /\ disk \in File
        /\ pc[h] \in {"recoverCut", "rollbackCut"} /\ pc'[h] = "idle"
        /\ UNCHANGED snaps
        /\ mem'[h] = HeaderOf(disk)
        /\ disk' = Truncate(disk, undo[h].size)
    BY <1>14 DEF RestoreTruncate, TypeOK
  <2>3. /\ disk'.recs = disk.recs /\ disk'.marker = disk.marker
        /\ disk'.size = undo[h].size
    BY <2>2, TruncateFields
  <2>4. Clean(undo[h]) /\ disk.recs = undo[h].recs /\ disk.marker = NoMarker
    BY <2>2 DEF StartsWith, Clean
  <2>5. Kept(h)
    BY <2>2, <2>3, <2>4 DEF FileIsSound, RecordsInside, CopiesAreClean, Clean,
                            HeaderOf
  <2>6. QED
    BY <2>1, <2>5, <1>a
<1>15. ASSUME NEW h \in Handles, StatementStart(h)
      PROVE  SoloInv'
  <2>1. Alone(h)
    BY <1>15, OthersAreClosed, NobodyAssumption
       DEF StatementStart, TypeOK, OneOpen, OwnerHasLock, Owning, States
  <2>2. CopiesAreClean' /\ FileIsSound'
    BY <1>15, FileUntouched DEF StatementStart
  <2>3. /\ pc[h] = "active" /\ pc'[h] = "body"
        /\ savepoint'[h] = disk /\ disk \in File
        /\ UNCHANGED <<disk, snaps, mem, undo>>
    BY <1>15 DEF StatementStart, TypeOK
  <2>4. MarkedInv(h)'
    BY <2>3 DEF Recovered, Clean, RecordsInside
  <2>5. SavepointInv(h)'
    <3>1. disk.size <= disk.size
      BY <2>3, FileFields
    <3>2. QED
      BY <2>3, <3>1 DEF FileIsSound, RecordsInside
  <2>6. Kept(h)
    BY <2>2, <2>3, <2>4, <2>5
  <2>7. QED
    BY <2>1, <2>6, <1>a
<1>16. ASSUME NEW h \in Handles, PersistRecords(h)
      PROVE  SoloInv'
  <2>1. Alone(h)
    BY <1>16, OthersAreClosed, NobodyAssumption
       DEF PersistRecords, TypeOK, OneOpen, OwnerHasLock, Owning, States
  <2>2. disk \in File /\ mem[h].marker = disk.marker
        /\ RecordsInside(mem[h].recs, disk)
    BY <1>16 DEF PersistRecords, TypeOK
  <2>3. /\ disk'.recs = mem[h].recs /\ disk'.marker = disk.marker
        /\ disk'.size = disk.size /\ disk'.page = disk.page
    BY <1>16, <2>2, WriteHeaderFields DEF PersistRecords
  <2>4. /\ pc[h] = "persist" /\ pc'[h] = "body"
        /\ UNCHANGED <<snaps, mem, undo, savepoint, mode>>
    BY <1>16 DEF PersistRecords, TypeOK
  <2>5. disk.size <= disk'.size
    BY <2>2, <2>3, FileFields
  <2>6. RecordsInside(mem[h].recs, disk')
    BY <2>2, <2>3 DEF RecordsInside
  <2>7. Kept(h)
    BY <2>2, <2>3, <2>4, <2>5, <2>6, InsideTransaction
  <2>8. QED
    BY <2>1, <2>7, <1>a
<1>17. ASSUME NEW h \in Handles, StatementOk(h)
      PROVE  SoloInv'
  <2>1. Alone(h)
    BY <1>17, OthersAreClosed, NobodyAssumption
       DEF StatementOk, TypeOK, OneOpen, OwnerHasLock, Owning, States
  <2>2. CopiesAreClean' /\ FileIsSound'
    BY <1>17, FileUntouched DEF StatementOk
  <2>3. Kept(h)
    BY <1>17, <2>2 DEF StatementOk, TypeOK, Recovered, Clean, RecordsInside
  <2>4. QED
    BY <2>1, <2>3, <1>a
<1>18. ASSUME NEW h \in Handles, StatementFail(h)
      PROVE  SoloInv'
  <2>1. Alone(h)
    BY <1>18, OthersAreClosed, NobodyAssumption
       DEF StatementFail, TypeOK, OneOpen, OwnerHasLock, Owning, States
  <2>2. CopiesAreClean' /\ FileIsSound'
    BY <1>18, FileUntouched DEF StatementFail
  <2>3. Kept(h)
    BY <1>18, <2>2 DEF StatementFail, TypeOK, Recovered, Clean, RecordsInside
  <2>4. QED
    BY <2>1, <2>3, <1>a
<1>19. ASSUME NEW h \in Handles, Interrupt(h)
      PROVE  SoloInv'
  <2>1. Alone(h)
    BY <1>19, OthersAreClosed, NobodyAssumption
       DEF Interrupt, TypeOK, OneOpen, OwnerHasLock, Owning, States
  <2>2. CopiesAreClean' /\ FileIsSound'
    BY <1>19, FileUntouched DEF Interrupt
  <2>3. Kept(h)
    BY <1>19, <2>2 DEF Interrupt, TypeOK, Recovered, Clean, RecordsInside
  <2>4. QED
    BY <2>1, <2>3, <1>a
<1>20. ASSUME NEW h \in Handles, NEW v \in Values, InsertRow(h, v)
      PROVE  SoloInv'
  <2>1. Alone(h)
    BY <1>20, OthersAreClosed, NobodyAssumption
       DEF InsertRow, TypeOK, OneOpen, OwnerHasLock, Owning, States
  <2>2. /\ disk \in File /\ disk.size < MaxPages /\ mem[h] \in Header
        /\ disk' = AppendPage(disk, RowPage(v))
        /\ RecordsInside(mem[h].recs, disk) /\ RecordsInside(disk.recs, disk)
        /\ disk.marker \in PageIds /\ disk.marker < disk.size
    BY <1>20 DEF InsertRow, TypeOK, FileIsSound, HasSnapshot
  <2>3. /\ disk'.recs = disk.recs /\ disk'.marker = disk.marker
        /\ disk'.size = disk.size + 1
        /\ disk'.page[disk.marker] = disk.page[disk.marker]
    BY <2>2, AppendPageFields
  <2>4. mem'[h].marker = mem[h].marker /\
        mem'[h].recs = mem[h].recs \cup {disk.size}
    BY <1>20, <2>2 DEF InsertRow, TypeOK, Header
  <2>5. disk.size \in Nat /\ \A p \in PageIds : p \in Int
    BY <2>2, FileFields
  <2>6. RecordsInside(disk'.recs, disk') /\ RecordsInside(mem'[h].recs, disk')
    BY <2>2, <2>3, <2>4, <2>5 DEF RecordsInside, File, Header
  <2>7. /\ pc[h] = "body" /\ pc'[h] = "persist"
        /\ UNCHANGED <<snaps, undo, savepoint, mode>>
    BY <1>20 DEF InsertRow, TypeOK
  <2>8. disk.size <= disk'.size
    BY <2>3, <2>5
  <2>9. Kept(h)
    BY <2>3, <2>4, <2>6, <2>7, <2>8, InsideTransaction
  <2>10. QED
    BY <2>1, <2>9, <1>a
<1>21. ASSUME NEW h \in Handles, NEW v \in Values, PersistIndex(h, v)
      PROVE  SoloInv'
  <2>1. Alone(h)
    BY <1>21, OthersAreClosed, NobodyAssumption
       DEF PersistIndex, TypeOK, OneOpen, OwnerHasLock, Owning, States
  <2>2. /\ disk \in File /\ disk.size < MaxPages /\ mem[h] \in Header
        /\ disk' = AppendPage(disk, IndexPage(v))
        /\ RecordsInside(mem[h].recs, disk) /\ RecordsInside(disk.recs, disk)
        /\ disk.marker \in PageIds /\ disk.marker < disk.size
    BY <1>21 DEF PersistIndex, TypeOK, FileIsSound, HasSnapshot
  <2>3. /\ disk'.recs = disk.recs /\ disk'.marker = disk.marker
        /\ disk'.size = disk.size + 1
        /\ disk'.page[disk.marker] = disk.page[disk.marker]
    BY <2>2, AppendPageFields
  <2>4. disk.size \in Nat /\ \A p \in PageIds : p \in Int
    BY <2>2, FileFields
  <2>5. RecordsInside(disk'.recs, disk') /\ RecordsInside(mem[h].recs, disk')
    BY <2>2, <2>3, <2>4 DEF RecordsInside, File, Header
  <2>6. Kept(h)
    BY <1>21, <2>3, <2>4, <2>5, InsideTransaction DEF PersistIndex, TypeOK
  <2>7. QED
    BY <2>1, <2>6, <1>a
<1>22. ASSUME NEW h \in Handles, NEW p \in PageIds, DeleteRow(h, p)
      PROVE  SoloInv'
  <2>1. Alone(h)
    BY <1>22, OthersAreClosed, NobodyAssumption
       DEF DeleteRow, TypeOK, OneOpen, OwnerHasLock, Owning, States
  <2>2. /\ disk \in File /\ mem[h] \in Header
        /\ disk' = WritePage(disk, p, DeletedPage(disk.page[p].val))
        /\ RecordsInside(mem[h].recs, disk) /\ RecordsInside(disk.recs, disk)
        /\ disk.marker \in PageIds /\ disk.marker # p
    BY <1>22 DEF DeleteRow, TypeOK, FileIsSound, HasSnapshot
  <2>3. /\ disk'.recs = disk.recs /\ disk'.marker = disk.marker
        /\ disk'.size = disk.size
        /\ disk'.page[disk.marker] = disk.page[disk.marker]
    BY <2>2, WritePageFields
  <2>4. mem'[h].marker = mem[h].marker /\ mem'[h].recs = mem[h].recs \ {p}
    BY <1>22, <2>2 DEF DeleteRow, TypeOK, Header
  <2>5. RecordsInside(disk'.recs, disk') /\ RecordsInside(mem'[h].recs, disk')
    BY <2>2, <2>3, <2>4 DEF RecordsInside
  <2>6. /\ pc[h] = "body" /\ pc'[h] = "persist"
        /\ UNCHANGED <<snaps, undo, savepoint, mode>>
    BY <1>22 DEF DeleteRow, TypeOK
  <2>7. disk.size <= disk'.size
    BY <2>2, <2>3, FileFields
  <2>8. Kept(h)
    BY <2>3, <2>4, <2>5, <2>6, <2>7, InsideTransaction
  <2>9. QED
    BY <2>1, <2>8, <1>a
<1>23. ASSUME NEW h \in Handles, NEW p \in PageIds, NEW v \in Values,
             UpdateRow(h, p, v)
      PROVE  SoloInv'
  <2>1. Alone(h)
    BY <1>23, OthersAreClosed, NobodyAssumption
       DEF UpdateRow, TypeOK, OneOpen, OwnerHasLock, Owning, States
  <2>2. /\ disk \in File
        /\ disk' = WritePage(disk, p, RowPage(v))
        /\ RecordsInside(mem[h].recs, disk) /\ RecordsInside(disk.recs, disk)
        /\ disk.marker \in PageIds /\ disk.marker # p
    BY <1>23 DEF UpdateRow, TypeOK, FileIsSound, HasSnapshot
  <2>3. /\ disk'.recs = disk.recs /\ disk'.marker = disk.marker
        /\ disk'.size = disk.size
        /\ disk'.page[disk.marker] = disk.page[disk.marker]
    BY <2>2, WritePageFields
  <2>4. RecordsInside(disk'.recs, disk') /\ RecordsInside(mem[h].recs, disk')
    BY <2>2, <2>3 DEF RecordsInside
  <2>5. Kept(h)
    BY <1>23, <2>2, <2>3, <2>4, FileFields, InsideTransaction DEF UpdateRow, TypeOK
  <2>6. QED
    BY <2>1, <2>5, <1>a
<1>24. ASSUME NEW h \in Handles, InitTableStore(h)
      PROVE  SoloInv'
  <2>1. Alone(h)
    BY <1>24, OthersAreClosed, NobodyAssumption
       DEF InitTableStore, TypeOK, OneOpen, OwnerHasLock, Owning, States
  <2>2. CASE pc[h] = "idle"
    <3>1. disk \in File /\ mem[h] = HeaderOf(disk) /\ disk.marker = NoMarker
      BY <1>24, <2>2 DEF InitTableStore, TypeOK
    <3>2. /\ disk'.recs = disk.recs /\ disk'.marker = disk.marker
          /\ disk'.size = disk.size
      BY <1>24, <3>1, WriteHeaderFields DEF InitTableStore, HeaderOf
    <3>3. Kept(h)
      BY <1>24, <2>2, <3>1, <3>2
         DEF InitTableStore, FileIsSound, RecordsInside, CopiesAreClean, Clean,
             HeaderOf
    <3>4. QED
      BY <2>1, <3>3, <1>a
  <2>3. CASE pc[h] \in {"active", "body"}
    <3>1. disk \in File /\ mem[h].marker = disk.marker
          /\ RecordsInside(mem[h].recs, disk)
      BY <2>3 DEF TypeOK
    <3>2. /\ disk'.recs = mem[h].recs /\ disk'.marker = disk.marker
          /\ disk'.size = disk.size /\ disk'.page = disk.page
      BY <1>24, <3>1, WriteHeaderFields DEF InitTableStore
    <3>3. UNCHANGED <<snaps, pc, mem, undo, savepoint, mode>>
      BY <1>24 DEF InitTableStore
    <3>4. disk.size <= disk'.size
      BY <3>1, <3>2, FileFields
    <3>5. RecordsInside(mem[h].recs, disk')
      BY <3>1, <3>2 DEF RecordsInside
    <3>6. Kept(h)
      BY <2>3, <3>1, <3>2, <3>3, <3>4, <3>5, InsideTransaction
    <3>7. QED
      BY <2>1, <3>6, <1>a
  <2>4. QED
    BY <1>24, <2>2, <2>3 DEF InitTableStore
<1>25. ASSUME NEW h \in Handles, Crash(h)
      PROVE  SoloInv'
  <2>1. Alone(h)
    BY <1>25, OthersAreClosed, NobodyAssumption
       DEF Crash, Die, Forget, TypeOK, OneOpen, OwnerHasLock, Owning, States
  <2>2. CopiesAreClean' /\ FileIsSound'
    BY <1>25, FileUntouched DEF Crash, Die
  <2>3. Kept(h)
    BY <1>25, <2>2 DEF Crash, TypeOK, Die
  <2>4. QED
    BY <2>1, <2>3, <1>a
<1>26. ASSUME NEW h \in Handles, TornCrash(h)
      PROVE  SoloInv'
  <2>1. Alone(h)
    BY <1>26, OthersAreClosed, NobodyAssumption
       DEF TornCrash, Die, Forget, TypeOK, OneOpen, OwnerHasLock, Owning, States
  <2>2. PICK n \in 0..(Image(h).size - 1) : disk' = Overwrite(disk, Image(h), n)
    BY <1>26 DEF TornCrash
  <2>3. /\ disk \in File /\ undo[h] \in File /\ savepoint[h] \in File
        /\ Image(h) \in File
    BY DEF TypeOK, Image
  <2>4. /\ disk'.recs = Image(h).recs
        /\ disk'.marker = Image(h).marker
        /\ disk.size <= disk'.size
        /\ \A p \in PageIds :
             disk'.page[p] = IF p < n THEN Image(h).page[p] ELSE disk.page[p]
    BY <2>2, <2>3, FileFields, OverwriteFields
  <2>5. UNCHANGED snaps /\ CopiesAreClean' /\ pc'[h] = "closed"
    BY <1>26 DEF TornCrash, Die, CopiesAreClean, Clean, RecordsInside, TypeOK
  <2>6. CASE pc[h] = "revert"
    <3>1. Image(h) = savepoint[h]
      BY <2>6 DEF Image
    <3>2. /\ savepoint[h].marker = disk.marker /\ disk.marker # NoMarker
          /\ RecordsInside(savepoint[h].recs, savepoint[h])
          /\ savepoint[h].size <= disk.size
          /\ disk.marker < disk.size
          /\ Recovered(disk).size <= disk.size
          /\ savepoint[h].page[disk.marker] = disk.page[disk.marker]
          /\ HasSnapshot(disk, disk.marker) /\ disk.marker \in PageIds
          /\ Recovered(disk) = undo[h]
      BY <2>6 DEF FileIsSound, HasSnapshot
    <3>3. HasSnapshot(disk, disk.marker)' /\ Recovered(disk)' = Recovered(disk)
      BY <2>4, <2>5, <3>1, <3>2, CopyKept
    <3>4. FileIsSound'
      <4>1. disk' \in File /\ disk.marker \in Int
        BY <3>2, FileFields DEF TypeOK
      <4>2. RecordsInside(savepoint[h].recs, disk')
        <5>1. savepoint[h].size <= disk'.size
          BY <2>3, <2>4, <3>2, <4>1, FileFields
        <5>2. QED
          BY <2>3, <3>2, <4>1, <5>1, FileFields, LongerFile
      <4>3. disk.marker < disk'.size /\ Recovered(disk).size <= disk'.size
        BY <2>3, <2>4, <3>2, <4>1, FileFields
      <4>4. QED
        BY <2>4, <3>1, <3>2, <3>3, <4>2, <4>3 DEF FileIsSound
    <3>5. QED
      <4> HIDE DEF HandleInv, WaitingInv, IdleInv, BeginInv, AppendedInv,
                   MarkedInv, SavepointInv, RevertedInv, RecoverInv,
                   RestoredInv, InMarked
      <4> QED
        BY <1>a, <2>1, <2>5, <3>4, AfterRestore
  <2>7. CASE pc[h] \in {"recover", "rollback"}
    <3>1. Image(h) = undo[h]
      BY <2>7 DEF Image
    <3>2. Clean(undo[h]) /\ undo[h].size <= disk.size
      BY <2>7 DEF CopiesAreClean, FileIsSound, Recovered, HasSnapshot
    <3>3. RecordsInside(undo[h].recs, disk')
      <4>1. disk' \in File
        BY DEF TypeOK
      <4>2. undo[h].size <= disk'.size
        BY <2>3, <2>4, <3>2, <4>1, FileFields
      <4>3. QED
        BY <2>3, <3>2, <4>1, <4>2, FileFields, LongerFile DEF Clean
    <3>4. FileIsSound'
      BY <2>4, <3>1, <3>2, <3>3 DEF FileIsSound, Clean
    <3>5. QED
      <4> HIDE DEF HandleInv, WaitingInv, IdleInv, BeginInv, AppendedInv,
                   MarkedInv, SavepointInv, RevertedInv, RecoverInv,
                   RestoredInv, InMarked
      <4> QED
        BY <1>a, <2>1, <2>5, <3>4, AfterRestore
  <2>8. QED
    BY <1>26, <2>6, <2>7 DEF TornCrash
<1>27. ASSUME NEW h \in Handles, InterruptedWrite(h)
      PROVE  SoloInv'
  <2>1. Alone(h)
    BY <1>27, OthersAreClosed, NobodyAssumption
       DEF InterruptedWrite, TypeOK, OneOpen, OwnerHasLock, Owning, States
  <2>2. /\ pc[h] = "body" /\ pc'[h] = "active" /\ UNCHANGED <<snaps, mem, undo>>
        /\ disk \in File /\ disk' \in File /\ mem[h] \in Header
    BY <1>27 DEF InterruptedWrite, TypeOK
  <2>3. /\ RecordsInside(mem[h].recs, disk) /\ RecordsInside(disk.recs, disk)
        /\ mem[h].marker = disk.marker /\ HasSnapshot(disk, disk.marker)
        /\ disk.marker \in PageIds /\ disk.marker < disk.size
    BY <2>2 DEF FileIsSound, HasSnapshot
  <2>4. /\ disk'.recs = disk.recs /\ disk'.marker = disk.marker
        /\ disk.size <= disk'.size
        /\ disk'.page[disk.marker] = disk.page[disk.marker]
    <3>1. CASE \E v \in Values : disk.size < MaxPages /\ disk' = AppendPage(disk, RowPage(v))
      BY <2>2, <2>3, <3>1, AppendPageFields, FileFields
    <3>2. CASE \E p \in mem[h].recs :
                 /\ disk.page[p].kind = "row"
                 /\ disk' = WritePage(disk, p, DeletedPage(disk.page[p].val))
      <4>1. PICK p \in mem[h].recs :
              /\ disk.page[p].kind = "row"
              /\ disk' = WritePage(disk, p, DeletedPage(disk.page[p].val))
        BY <3>2
      <4>2. p \in PageIds /\ p # disk.marker
        BY <2>2, <2>3, <4>1 DEF Header, HasSnapshot
      <4>3. QED
        BY <2>2, <2>3, <4>1, <4>2, WritePageFields, FileFields
    <3>3. QED
      BY <1>27, <3>1, <3>2 DEF InterruptedWrite
  <2>5. RecordsInside(disk'.recs, disk') /\ RecordsInside(mem'[h].recs, disk')
    BY <2>2, <2>3, <2>4, LongerFile DEF File, Header
  <2>6. Kept(h)
    BY <2>2, <2>3, <2>4, <2>5, InsideTransaction
  <2>7. QED
    BY <2>1, <2>6, <1>a
<1>28. QED
  BY <1>1, <1>2, <1>3, <1>4, <1>5, <1>6, <1>7, <1>8, <1>9, <1>10, <1>11,
     <1>12, <1>13, <1>14, <1>15, <1>16, <1>17, <1>18, <1>19, <1>20, <1>21, <1>22,
     <1>23, <1>24, <1>25, <1>26, <1>27
     DEF Next, Step, Transaction, Statement, CommitFail, RestoreFail

LEMMA SoloInit ==
  Init => SoloInv
BY InitialFilesFields, NobodyAssumption
   DEF Init, SoloInv, OneOpen, OwnerHasLock, Owning, CopiesAreClean, Clean,
       FileIsSound, RecordsInside, HandleInv, WaitingInv, IdleInv,
       BeginInv, AppendedInv, MarkedInv, SavepointInv, RevertedInv, RecoverInv,
       RestoredInv, InMarked

\* While the file has one handle at a time, header, marker, copy, memory and
\* images agree in every state, whatever statements fail, are interrupted or
\* die half way, in a transaction or in a recovery.
THEOREM SoloInvariant ==
  ASSUME ~Overlap, ~IOErrors
  PROVE  Spec => []SoloInv
<1>1. TypeOK /\ TypeOK' /\ SoloInv /\ [Next]_vars => SoloInv'
  BY SoloStep
<1>2. QED
  BY <1>1, SoloInit, Typing, PTL DEF Spec

\* No sequence of crashes and recoveries makes the database impossible to open:
\* StorageManager finds the copy wherever it finds a marker.
THEOREM SoloRecoverable ==
  ASSUME ~Overlap, ~IOErrors
  PROVE  Spec => []AlwaysRecoverable
<1>1. SoloInv => AlwaysRecoverable
  BY DEF SoloInv, FileIsSound, AlwaysRecoverable
<1>2. QED
  BY <1>1, SoloInvariant, PTL

\* A transaction of the only handle begins from the committed rows.
THEOREM SoloBeginsFromCommitted ==
  ASSUME ~Overlap, ~IOErrors
  PROVE  Spec => []BeginsFromCommitted
<1>1. SoloInv => BeginsFromCommitted
  BY DEF SoloInv, HandleInv, BeginInv, BeginsFromCommitted, HeaderOf
<1>2. QED
  BY <1>1, SoloInvariant, PTL

-----------------------------------------------------------------------------
(* That the rows of a file can be read: proofs from the inductive invariant *)
(* ReadableInv.  It needs that no interrupt comes between the writes of a   *)
(* statement, and no crash between the pages of a restore; both fail        *)
(* otherwise.                                                               *)

\* The invariant is a matter of the file and of the handle that takes the step.
LEMMA ReadableSuffices ==
  ASSUME NEW h \in Handles,
         \A g \in Handles : g # h => pc'[g] = "closed",
         disk'.marker = NoMarker => Live(disk'.recs, disk'),
         \A i \in 1..Len(snaps') : Live(snaps'[i].recs, snaps'[i]),
         ReadableHandle(h)'
  PROVE  ReadableInv'
<1>1. ASSUME NEW g \in Handles, g # h PROVE ReadableHandle(g)'
  BY <1>1 DEF ReadableHandle, Owning
<1>2. QED
  BY <1>1 DEF ReadableInv

\* What a file restores, and the file itself without a marker, has live rows.
LEMMA CopyIsLive ==
  ASSUME SoloInv, ReadableInv
  PROVE  Live(Recovered(disk).recs, Recovered(disk))
BY DEF SoloInv, FileIsSound, ReadableInv, Recovered, HasSnapshot

\* Records stay live in a file that has the same pages where they are.
LEMMA LiveKept ==
  ASSUME NEW f \in File, NEW g, NEW recs \in SUBSET PageIds, Live(recs, f),
         RecordsInside(recs, f),
         \A p \in PageIds : p < f.size => g.page[p] = f.page[p]
  PROVE  Live(recs, g)
BY DEF Live, RecordsInside

LEMMA ReadableStep ==
  ASSUME ~Overlap, ~IOErrors, ~TornWrites, ~Interrupts, TypeOK, TypeOK', SoloInv, SoloInv',
         ReadableInv, [Next]_vars
  PROVE  ReadableInv'
<1> DEFINE Others(h) == \A g \in Handles : g # h => pc'[g] = "closed"
           Kept(h) == /\ disk'.marker = NoMarker => Live(disk'.recs, disk')
                      /\ \A i \in 1..Len(snaps') : Live(snaps'[i].recs, snaps'[i])
                      /\ ReadableHandle(h)'
<1>a. \A h \in Handles : Others(h) /\ Kept(h) => ReadableInv'
  BY ReadableSuffices
<1>b. ASSUME NEW h \in Handles, pc[h] # "closed",
             \/ UNCHANGED pc
             \/ \E s : pc' = [pc EXCEPT ![h] = s]
      PROVE  Others(h)
  BY <1>b, OthersAreClosed DEF TypeOK
<1> HIDE DEF Others
<1> USE DEF Goto, ReadableInv, ReadableHandle, Owning, States
<1>1. CASE UNCHANGED vars
  BY <1>1 DEF vars, Live
<1>2. ASSUME NEW h \in Handles, Open(h)
      PROVE  ReadableInv'
  <2>1. Others(h)
    BY <1>2 DEF Open, TypeOK, Others
  <2>2. Kept(h)
    BY <1>2 DEF Open, TypeOK, Live
  <2>3. QED
    BY <2>1, <2>2, <1>a
<1>3. ASSUME NEW h \in Handles, RecoverLock(h)
      PROVE  ReadableInv'
  <2>1. Others(h)
    BY <1>3, <1>b DEF RecoverLock
  <2>2. UNCHANGED <<disk, snaps>>
    BY <1>3 DEF RecoverLock
  <2>3. pc'[h] \in {"idle", "closed"} \/ pc'[h] = "recover"
    BY <1>3 DEF RecoverLock, TypeOK
  <2>4. CASE pc'[h] = "recover"
    <3>1. undo'[h] = Recovered(disk)'
      BY <2>4 DEF SoloInv, HandleInv, RecoverInv
    <3>2. Recovered(disk)' = Recovered(disk)
      BY <2>2 DEF Recovered
    <3>3. Live(undo'[h].recs, undo'[h])
      BY <3>1, <3>2, CopyIsLive
    <3>4. Kept(h)
      BY <2>2, <2>4, <3>3 DEF Live
    <3>5. QED
      BY <2>1, <3>4, <1>a
  <2>5. CASE pc'[h] \in {"idle", "closed"}
    <3>1. Kept(h)
      BY <2>2, <2>5 DEF Live
    <3>2. QED
      BY <2>1, <3>1, <1>a
  <2>6. QED
    BY <2>3, <2>4, <2>5
<1>4. ASSUME NEW h \in Handles, RecoverTimeout(h) \/ Close(h)
      PROVE  ReadableInv'
  <2>1. Others(h)
    BY <1>4, <1>b DEF RecoverTimeout, Close
  <2>2. UNCHANGED <<disk, snaps>> /\ pc'[h] = "closed"
    BY <1>4 DEF RecoverTimeout, Close, TypeOK
  <2>3. Kept(h)
    BY <2>2 DEF Live
  <2>4. QED
    BY <2>1, <2>3, <1>a
<1>5. ASSUME NEW h \in Handles, NEW m \in {"explicit", "auto"}, Begin(h, m)
      PROVE  ReadableInv'
  <2>1. Others(h)
    BY <1>5, <1>b DEF Begin
  <2>2. disk.marker = NoMarker
    BY <1>5 DEF Begin, SoloInv, HandleInv, IdleInv
  <2>3. UNCHANGED <<disk, snaps>> /\ pc'[h] = "begin" /\ undo'[h] = disk
    BY <1>5 DEF Begin, TypeOK
  <2>4. Kept(h)
    BY <2>2, <2>3 DEF Live
  <2>5. QED
    BY <2>1, <2>4, <1>a
<1>6. ASSUME NEW h \in Handles, AppendSnapshot(h)
      PROVE  ReadableInv'
  <2>1. Others(h)
    BY <1>6, <1>b DEF AppendSnapshot
  <2>2. /\ disk' = AppendPage(disk, SnapPage(Len(snaps) + 1)) /\ snaps' = Append(snaps, disk)
        /\ disk.size < MaxPages /\ pc[h] = "begin" /\ pc'[h] = "appended" /\ UNCHANGED undo
    BY <1>6 DEF AppendSnapshot, TypeOK
  <2>3. disk \in File /\ snaps \in Seq(File) /\ Clean(disk)
    BY <2>2 DEF TypeOK, SoloInv, HandleInv, BeginInv
  <2>4. Live(disk.recs, disk)
    BY <2>3 DEF Clean
  <2>5. Live(disk'.recs, disk')
    BY <2>2, <2>3, <2>4, AppendPageFields, FileFields, LiveKept DEF Clean
  <2>6. \A i \in 1..Len(snaps') : Live(snaps'[i].recs, snaps'[i])
    BY <2>2, <2>3, <2>4
  <2>7. Live(undo'[h].recs, undo'[h])
    BY <2>2 DEF Live
  <2>8. QED
    BY <2>1, <2>2, <2>5, <2>6, <2>7, <1>a
<1>7. ASSUME NEW h \in Handles, WriteMarker(h)
      PROVE  ReadableInv'
  <2>1. Others(h)
    BY <1>7, <1>b DEF WriteMarker
  <2>2. PICK hdr : /\ hdr = [mem[h] EXCEPT !.marker = disk.size - 1]
                   /\ mem' = [mem EXCEPT ![h] = hdr] /\ disk' = WriteHeader(disk, hdr)
    BY <1>7 DEF WriteMarker
  <2>3. /\ disk \in File /\ mem \in [Handles -> Header] /\ mem[h] = HeaderOf(disk)
        /\ disk.marker = NoMarker
    BY <1>7 DEF WriteMarker, TypeOK, SoloInv, HandleInv, BeginInv, Clean
  <2>4. hdr.recs = disk.recs /\ mem'[h] = hdr
    BY <2>2, <2>3 DEF HeaderOf, Header
  <2>5. disk'.recs = disk.recs /\ disk'.page = disk.page
    BY <2>2, <2>3, <2>4, WriteHeaderFields
  <2>6. UNCHANGED <<snaps, undo>> /\ pc'[h] \in {"active", "body"}
        /\ (mode'[h] # "auto" => pc'[h] = "active")
    BY <1>7 DEF WriteMarker, TypeOK, SoloInv, HandleInv, BeginInv
  <2>7. Live(disk'.recs, disk') /\ Live(mem'[h].recs, disk')
    BY <2>3, <2>4, <2>5 DEF Live
  <2>8. Live(undo'[h].recs, undo'[h])
    BY <1>7, <2>6 DEF WriteMarker, Live
  <2>9. Kept(h)
    BY <2>4, <2>5, <2>6, <2>7, <2>8 DEF Live
  <2>10. QED
    BY <2>1, <2>9, <1>a
<1>8. ASSUME NEW h \in Handles, MarkerTooLarge(h) \/ Rollback(h)
      PROVE  ReadableInv'
  <2>1. Others(h)
    BY <1>8, <1>b DEF MarkerTooLarge, Rollback
  <2>2. /\ UNCHANGED <<disk, snaps>>
        /\ \/ pc'[h] = "idle"
           \/ pc'[h] = "rollback" /\ UNCHANGED undo /\ pc[h] = "active"
    BY <1>8 DEF MarkerTooLarge, Rollback, TypeOK
  <2>3. Kept(h)
    BY <2>2 DEF Live
  <2>4. QED
    BY <2>1, <2>3, <1>a
<1>9. ASSUME NEW h \in Handles, Commit(h)
      PROVE  ReadableInv'
  <2>1. Others(h)
    BY <1>9, <1>b DEF Commit
  <2>2. /\ disk \in File /\ mem[h] \in Header /\ mem[h].marker # NoMarker
        /\ Live(mem[h].recs, disk) /\ UNCHANGED snaps /\ pc'[h] = "idle"
    BY <1>9 DEF Commit, TypeOK, SoloInv, HandleInv, MarkedInv, InMarked
  <2>3. disk' = WriteHeader(disk, [mem[h] EXCEPT !.marker = NoMarker])
    BY <1>9, <2>2 DEF Commit
  <2>4. disk'.recs = mem[h].recs /\ disk'.page = disk.page
    BY <2>2, <2>3, WriteHeaderFields DEF Header
  <2>5. Kept(h)
    BY <2>2, <2>4 DEF Live
  <2>6. QED
    BY <2>1, <2>5, <1>a
<1>10. ASSUME NEW h \in Handles, RestoreWrite(h)
       PROVE  ReadableInv'
  <2>1. Others(h)
    BY <1>10, <1>b DEF RestoreWrite
  <2>2. /\ disk \in File /\ undo \in [Handles -> File] /\ savepoint \in [Handles -> File]
        /\ UNCHANGED <<snaps, undo, savepoint, mode>>
        /\ pc[h] \in {"recover", "revert", "rollback"}
        /\ disk' = Overwrite(disk, Image(h), Image(h).size)
        /\ pc[h] # "revert" => pc'[h] \in {"recoverCut", "rollbackCut"}
        /\ pc[h] = "revert" => pc'[h] = "revertCut"
    BY <1>10 DEF RestoreWrite, TypeOK
  <2>3. Live(Image(h).recs, Image(h)) /\ RecordsInside(Image(h).recs, Image(h))
    BY <2>2 DEF Image, SoloInv, HandleInv, SavepointInv, MarkedInv, InMarked, RecoverInv,
                CopiesAreClean, FileIsSound, Recovered, HasSnapshot, Clean
  <2>4. Image(h) \in File
    BY <2>2 DEF Image
  <2>5. /\ disk'.recs = Image(h).recs
        /\ \A p \in PageIds : p < Image(h).size => disk'.page[p] = Image(h).page[p]
    BY <2>2, <2>4, FileFields, OverwriteFields
  <2>6. Live(disk'.recs, disk')
    BY <2>3, <2>4, <2>5, FileFields, LiveKept
  <2>7. Kept(h)
    BY <2>2, <2>6 DEF Live
  <2>8. QED
    BY <2>1, <2>7, <1>a
<1>11. ASSUME NEW h \in Handles, RevertTruncate(h)
       PROVE  ReadableInv'
  <2>1. Others(h)
    BY <1>11, <1>b DEF RevertTruncate
  <2>2. /\ disk \in File /\ savepoint[h] \in File /\ pc[h] = "revertCut" /\ pc'[h] = "active"
        /\ disk' = Truncate(disk, savepoint[h].size) /\ mem'[h] = HeaderOf(disk)
        /\ UNCHANGED <<snaps, undo>>
    BY <1>11 DEF RevertTruncate, TypeOK
  <2>3. /\ StartsWith(disk, savepoint[h])
        /\ RecordsInside(savepoint[h].recs, savepoint[h])
        /\ Live(savepoint[h].recs, savepoint[h])
    BY <2>2 DEF SoloInv, HandleInv, RevertedInv, SavepointInv
  <2>4. /\ disk'.recs = savepoint[h].recs /\ mem'[h].recs = disk'.recs
        /\ \A p \in PageIds : p < savepoint[h].size => disk'.page[p] = savepoint[h].page[p]
    BY <2>2, <2>3, TruncateFields DEF StartsWith, HeaderOf
  <2>5. Live(disk'.recs, disk')
    BY <2>2, <2>3, <2>4, FileFields, LiveKept
  <2>6. Kept(h)
    BY <2>2, <2>4, <2>5 DEF Live
  <2>7. QED
    BY <2>1, <2>6, <1>a
<1>12. ASSUME NEW h \in Handles, RestoreTruncate(h)
       PROVE  ReadableInv'
  <2>1. Others(h)
    BY <1>12, <1>b DEF RestoreTruncate
  <2>2. /\ disk \in File /\ undo[h] \in File /\ pc[h] \in {"recoverCut", "rollbackCut"}
        /\ disk' = Truncate(disk, undo[h].size) /\ pc'[h] = "idle" /\ UNCHANGED snaps
    BY <1>12 DEF RestoreTruncate, TypeOK
  <2>3. /\ StartsWith(disk, undo[h]) /\ RecordsInside(undo[h].recs, undo[h])
        /\ Live(undo[h].recs, undo[h])
    BY <2>2 DEF SoloInv, HandleInv, RestoredInv, Clean
  <2>4. /\ disk'.recs = undo[h].recs
        /\ \A p \in PageIds : p < undo[h].size => disk'.page[p] = undo[h].page[p]
    BY <2>2, <2>3, TruncateFields DEF StartsWith
  <2>5. Live(disk'.recs, disk')
    BY <2>2, <2>3, <2>4, FileFields, LiveKept
  <2>6. Kept(h)
    BY <2>2, <2>5 DEF Live
  <2>7. QED
    BY <2>1, <2>6, <1>a
<1>13. ASSUME NEW h \in Handles, StatementStart(h)
       PROVE  ReadableInv'
  <2>1. Others(h)
    BY <1>13, <1>b DEF StatementStart
  <2>2. /\ UNCHANGED <<disk, snaps, mem, undo>> /\ pc[h] = "active" /\ pc'[h] = "body"
        /\ savepoint'[h] = disk
    BY <1>13 DEF StatementStart, TypeOK
  <2>3. Live(disk.recs, disk)
    BY <2>2 DEF Live
  <2>4. Kept(h)
    BY <2>2, <2>3 DEF Live
  <2>5. QED
    BY <2>1, <2>4, <1>a
<1>14. ASSUME NEW h \in Handles, StatementOk(h) \/ StatementFail(h)
       PROVE  ReadableInv'
  <2>1. Others(h)
    BY <1>14, <1>b DEF StatementOk, StatementFail
  <2>2. CASE StatementOk(h)
    <3>1. /\ UNCHANGED <<disk, snaps, mem, undo>> /\ pc[h] = "body"
          /\ pc'[h] \in {"active", "done"}
      BY <2>2 DEF StatementOk, TypeOK
    <3>2. Kept(h)
      BY <3>1 DEF Live
    <3>3. QED
      BY <2>1, <3>2, <1>a
  <2>3. CASE StatementFail(h)
    <3>1. /\ UNCHANGED <<disk, snaps, undo, savepoint, mode>> /\ pc[h] \in {"body", "persist"}
          /\ pc'[h] = IF mode[h] = "auto" THEN "rollback" ELSE "revert"
      BY <2>3 DEF StatementFail, TypeOK
    <3>2. Kept(h)
      BY <3>1 DEF Live
    <3>3. QED
      BY <2>1, <3>2, <1>a
  <2>4. QED
    BY <1>14, <2>2, <2>3
<1>15. ASSUME NEW h \in Handles, pc[h] \in {"body", "persist"}, pc'[h] \in {"body", "persist"},
              \/ UNCHANGED pc
              \/ \E s : pc' = [pc EXCEPT ![h] = s],
              UNCHANGED <<snaps, undo, savepoint, mode>>,
              disk'.marker = disk.marker,
              pc'[h] = "body" => mem'[h].recs = disk'.recs,
              Live(mem'[h].recs, disk')
       PROVE  ReadableInv'
  <2>1. Others(h)
    BY <1>15, <1>b
  <2>2. disk.marker # NoMarker
    BY <1>15 DEF SoloInv, HandleInv, MarkedInv, InMarked
  <2>3. Kept(h)
    BY <1>15, <2>2 DEF Live
  <2>4. QED
    BY <2>1, <2>3, <1>a
<1>16. ASSUME NEW h \in Handles, NEW v \in Values, InsertRow(h, v)
       PROVE  ReadableInv'
  <2>1. /\ disk \in File /\ disk.size < MaxPages /\ mem \in [Handles -> Header]
        /\ disk' = AppendPage(disk, RowPage(v))
        /\ mem'[h].recs = mem[h].recs \cup {disk.size} /\ pc[h] = "body"
    BY <1>16 DEF InsertRow, TypeOK, Header
  <2>2. /\ disk'.marker = disk.marker /\ disk'.page[disk.size] = RowPage(v)
        /\ \A p \in PageIds : p < disk.size => disk'.page[p] = disk.page[p]
    BY <2>1, AppendPageFields
  <2>3. Live(mem[h].recs, disk) /\ RecordsInside(mem[h].recs, disk)
    BY <2>1 DEF SoloInv, HandleInv, MarkedInv, InMarked
  <2>4. Live(mem[h].recs, disk')
    BY <2>1, <2>2, <2>3, LiveKept DEF Header
  <2>5. Live(mem'[h].recs, disk')
    BY <2>1, <2>2, <2>4 DEF Live, RowPage
  <2>6. QED
    BY <1>15, <1>16, <2>2, <2>5 DEF InsertRow, TypeOK
<1>17. ASSUME NEW h \in Handles, NEW p \in PageIds, DeleteRow(h, p)
       PROVE  ReadableInv'
  <2>1. /\ disk \in File /\ mem \in [Handles -> Header]
        /\ disk' = WritePage(disk, p, DeletedPage(disk.page[p].val))
        /\ mem'[h].recs = mem[h].recs \ {p} /\ mem[h].recs \subseteq PageIds
        /\ pc[h] = "body" /\ Live(mem[h].recs, disk)
    BY <1>17 DEF DeleteRow, TypeOK, Header
  <2>2. disk'.marker = disk.marker /\ \A q \in PageIds : q # p => disk'.page[q] = disk.page[q]
    BY <2>1, WritePageFields
  <2>3. Live(mem'[h].recs, disk')
    BY <2>1, <2>2 DEF Live
  <2>4. QED
    BY <1>15, <1>17, <2>2, <2>3 DEF DeleteRow, TypeOK
<1>18. ASSUME NEW h \in Handles, PersistRecords(h)
       PROVE  ReadableInv'
  <2>1. /\ disk \in File /\ mem[h] \in Header /\ UNCHANGED mem
        /\ disk' = WriteHeader(disk, mem[h]) /\ pc[h] = "persist"
        /\ Live(mem[h].recs, disk) /\ mem[h].marker = disk.marker
    BY <1>18 DEF PersistRecords, TypeOK, SoloInv, HandleInv, MarkedInv, InMarked
  <2>2. /\ disk'.recs = mem[h].recs /\ disk'.marker = disk.marker
        /\ disk'.page = disk.page
    BY <2>1, WriteHeaderFields
  <2>3. Live(mem'[h].recs, disk') /\ mem'[h].recs = disk'.recs
    BY <2>1, <2>2 DEF Live
  <2>4. QED
    BY <1>15, <1>18, <2>1, <2>2, <2>3 DEF PersistRecords, TypeOK
<1>19. ASSUME NEW h \in Handles, NEW p \in PageIds, NEW v \in Values, UpdateRow(h, p, v)
       PROVE  ReadableInv'
  <2>1. /\ disk \in File /\ mem[h] \in Header /\ UNCHANGED mem
        /\ disk' = WritePage(disk, p, RowPage(v)) /\ pc[h] = "body"
        /\ Live(mem[h].recs, disk) /\ mem[h].recs = disk.recs
        /\ mem[h].recs \subseteq PageIds
    BY <1>19 DEF UpdateRow, TypeOK, Header
  <2>2. /\ disk'.recs = disk.recs /\ disk'.marker = disk.marker
        /\ \A q \in PageIds : q # p => disk'.page[q] = disk.page[q]
        /\ disk'.page[p] = RowPage(v)
    BY <2>1, WritePageFields DEF WritePage, File
  <2>3. Live(mem'[h].recs, disk')
    BY <2>1, <2>2 DEF Live, RowPage
  <2>4. QED
    BY <1>15, <1>19, <2>1, <2>2, <2>3 DEF UpdateRow, TypeOK
<1>20. ASSUME NEW h \in Handles, NEW v \in Values, PersistIndex(h, v)
       PROVE  ReadableInv'
  <2>1. /\ disk \in File /\ disk.size < MaxPages /\ mem[h] \in Header /\ UNCHANGED mem
        /\ disk' = AppendPage(disk, IndexPage(v)) /\ pc[h] = "body"
        /\ Live(mem[h].recs, disk) /\ mem[h].recs = disk.recs
        /\ mem[h].recs \subseteq PageIds
    BY <1>20 DEF PersistIndex, TypeOK, Header
  <2>2. /\ disk'.recs = disk.recs /\ disk'.marker = disk.marker
        /\ \A p \in PageIds : p < disk.size => disk'.page[p] = disk.page[p]
    BY <2>1, AppendPageFields
  <2>3. RecordsInside(mem[h].recs, disk)
    BY <2>1 DEF SoloInv, HandleInv, MarkedInv, InMarked
  <2>4. Live(mem[h].recs, disk')
    BY <2>1, <2>2, <2>3, LiveKept
  <2>5. QED
    BY <1>15, <1>20, <2>1, <2>2, <2>4 DEF PersistIndex, TypeOK
<1>21. ASSUME NEW h \in Handles, InitTableStore(h)
       PROVE  ReadableInv'
  <2>1. Others(h)
    BY <1>21, <1>b DEF InitTableStore
  <2>2. /\ disk \in File /\ mem[h].recs = disk.recs /\ mem[h].marker = disk.marker
        /\ disk' = WriteHeader(disk, mem[h])
        /\ UNCHANGED <<snaps, pc, mem, undo, savepoint, mode>>
    BY <1>21 DEF InitTableStore, TypeOK, SoloInv, HandleInv, IdleInv, MarkedInv, InMarked,
                 HeaderOf
  <2>3. disk'.recs = disk.recs /\ disk'.marker = disk.marker /\ disk'.page = disk.page
    BY <2>2, WriteHeaderFields
  <2>4. Kept(h)
    BY <2>2, <2>3 DEF Live
  <2>5. QED
    BY <2>1, <2>4, <1>a
<1>22. ASSUME NEW h \in Handles, Crash(h)
       PROVE  ReadableInv'
  <2>1. Others(h)
    BY <1>22, <1>b DEF Crash, Die
  <2>2. UNCHANGED <<disk, snaps>> /\ pc'[h] = "closed"
    BY <1>22 DEF Crash, Die, TypeOK
  <2>3. Kept(h)
    BY <2>2 DEF Live
  <2>4. QED
    BY <2>1, <2>3, <1>a
<1>23. QED
  BY <1>1, <1>2, <1>3, <1>4, <1>5, <1>6, <1>7, <1>8, <1>9, <1>10, <1>11, <1>12, <1>13,
     <1>14, <1>16, <1>17, <1>18, <1>19, <1>20, <1>21, <1>22
     DEF Next, Step, Transaction, Statement, Interrupt, InterruptedWrite, CommitFail,
         RestoreFail, TornCrash

\* Whatever fails or dies in transactions, statements, rollbacks and recoveries of one
\* handle at a time, opening the file gives rows that can all be read.
THEOREM SoloRowsReadable ==
  ASSUME ~Overlap, ~IOErrors, ~TornWrites, ~Interrupts
  PROVE  Spec => []RowsReadable
<1>1. Init => ReadableInv
  BY InitialFilesFields DEF Init, ReadableInv, ReadableHandle, Live, Owning
<1>2. TypeOK /\ TypeOK' /\ SoloInv /\ SoloInv' /\ ReadableInv /\ [Next]_vars => ReadableInv'
  BY ReadableStep
<1>3. SoloInv /\ ReadableInv => RowsReadable
  <2> SUFFICES ASSUME SoloInv, ReadableInv PROVE RowsReadable
    OBVIOUS
  <2>1. RecordsInside(Recovered(disk).recs, Recovered(disk))
    BY DEF SoloInv, FileIsSound, CopiesAreClean, Clean, Recovered, HasSnapshot
  <2>2. QED
    BY <2>1, CopyIsLive DEF RowsReadable, RecordsInside, Live
<1>4. QED
  BY <1>1, <1>2, <1>3, Typing, SoloInvariant, PTL DEF Spec

-----------------------------------------------------------------------------
(* Transactions implements AtomicStore. *)

\* A file that begins with the whole of a committed file has its rows.
LEMMA SameRows ==
  ASSUME NEW f \in File, NEW g \in File,
         StartsWith(f, g), RecordsInside(g.recs, g)
  PROVE  Rows(f) = Rows(g)
BY DEF StartsWith, RecordsInside, Rows, RowsAt

LEMMA RowsAreContents ==
  ASSUME NEW f \in File, NEW recs
  PROVE  RowsAt(recs, f) \in Contents
BY DEF RowsAt, Contents, File, Page

LEMMA NoWorkIsNoContent ==
  NoWork \notin Contents
<1>1. DOMAIN NoWork = {NoMarker} /\ NoMarker \notin PageIds
  BY DEF NoWork, NoMarker, PageIds
<1>2. \A c \in Contents : DOMAIN c = PageIds
  BY DEF Contents
<1>3. QED
  BY <1>1, <1>2

\* Before the marker is written and once it is gone, the durable rows are
\* those of the file.
LEMMA StoreWithoutMarker ==
  ASSUME disk.marker = NoMarker
  PROVE  Store = Rows(disk)
BY DEF Store, Recovered

\* In a transaction they are those of the image that begin took.
LEMMA StoreInTransaction ==
  ASSUME SoloInv, NEW h \in Handles, pc[h] \in InMarked
  PROVE  Store = Rows(undo[h])
BY DEF SoloInv, HandleInv, MarkedInv, Store

\* The work is that of the only open handle, before a step and after it.
LEMMA WorkOfTheOnly ==
  ASSUME NEW h \in Handles,
         \A g \in Handles : g # h => pc[g] = "closed" /\ pc'[g] = "closed"
  PROVE  /\ Work = IF InTransaction(h) THEN WorkOf(h) ELSE NoWork
         /\ Work' = IF InTransaction(h)' THEN WorkOf(h)' ELSE NoWork
<1>1. \A g \in Handles : g # h => ~InTransaction(g) /\ ~InTransaction(g)'
  BY DEF InTransaction
<1>2. InTransaction(h) => (CHOOSE g \in Handles : InTransaction(g)) = h
  BY <1>1
<1>3. InTransaction(h)' => (CHOOSE g \in Handles : InTransaction(g)') = h
  BY <1>1
<1>4. Work = IF InTransaction(h) THEN WorkOf(h) ELSE NoWork
  BY <1>1, <1>2 DEF Work
<1>5. Work' = IF InTransaction(h)' THEN WorkOf(h)' ELSE NoWork
  BY <1>1, <1>3 DEF Work
<1>6. QED
  BY <1>4, <1>5

LEMMA WorkIsContent ==
  ASSUME TypeOK, TypeOK', NEW h \in Handles
  PROVE  WorkOf(h) \in Contents /\ WorkOf(h)' \in Contents
<1>1. /\ disk \in File /\ undo[h] \in File /\ savepoint[h] \in File
      /\ disk' \in File /\ undo'[h] \in File /\ savepoint'[h] \in File
  BY DEF TypeOK
<1>2. /\ View(h) \in Contents
      /\ Rows(undo[h]) \in Contents
      /\ Rows(savepoint[h]) \in Contents
  BY <1>1, RowsAreContents DEF View, Rows
<1>3. /\ View(h)' \in Contents
      /\ Rows(undo'[h]) \in Contents
      /\ Rows(savepoint'[h]) \in Contents
  BY <1>1, RowsAreContents DEF View, Rows
<1>4. QED
  BY <1>2, <1>3 DEF WorkOf

\* A step that leaves the durable rows alone is a statement, the end of a
\* transaction or nothing to the abstract store, unless it starts one.
LEMMA StoreKept ==
  ASSUME TypeOK, TypeOK', NEW h \in Handles,
         \A g \in Handles : g # h => pc[g] = "closed" /\ pc'[g] = "closed",
         Store' = Store,
         InTransaction(h)' => InTransaction(h)
  PROVE  [AS!Next]_<<Store, Work>>
<1>1. /\ Work = IF InTransaction(h) THEN WorkOf(h) ELSE NoWork
      /\ Work' = IF InTransaction(h)' THEN WorkOf(h)' ELSE NoWork
  BY WorkOfTheOnly
<1>2. WorkOf(h) \in Contents /\ WorkOf(h)' \in Contents
  BY WorkIsContent
<1>3. QED
  BY <1>1, <1>2, NoWorkIsNoContent DEF AS!Next, AS!Work, AS!Abort

\* Only the handle that takes the step is open before it or after it.
LEMMA OthersStayClosed ==
  ASSUME ~Overlap, TypeOK, SoloInv, NEW h \in Handles, NEW s \in States,
         \/ pc[h] # "closed"
         \/ \A g \in Handles : pc[g] = "closed",
         pc' = pc \/ pc' = [pc EXCEPT ![h] = s]
  PROVE  \A g \in Handles : g # h => pc[g] = "closed" /\ pc'[g] = "closed"
BY DEF TypeOK, SoloInv, OneOpen

\* The steps that leave file and copies alone.
LEMMA QuietSteps ==
  ASSUME ~Overlap, TypeOK, TypeOK', SoloInv, NEW h \in Handles,
         \/ Open(h) \/ RecoverLock(h) \/ RecoverTimeout(h) \/ Close(h)
         \/ \E m \in {"explicit", "auto"} : Begin(h, m)
         \/ MarkerTooLarge(h) \/ StatementStart(h) \/ StatementOk(h)
         \/ StatementFail(h) \/ Interrupt(h) \/ Rollback(h) \/ Crash(h)
  PROVE  [AS!Next]_<<Store, Work>>
<1>1. Store' = Store
  BY DEF Store, Recovered, Open, RecoverLock, RecoverTimeout, Close, Begin,
         MarkerTooLarge, StatementStart, StatementOk, StatementFail, Interrupt,
         Rollback, Crash, Die
<1>2. PICK s \in States : pc' = [pc EXCEPT ![h] = s]
  BY DEF States, Goto, Open, RecoverLock, RecoverTimeout, Close, Begin,
         MarkerTooLarge, StatementStart, StatementOk, StatementFail, Interrupt,
         Rollback, Crash, Die
<1>3. pc[h] # "closed" \/ \A g \in Handles : pc[g] = "closed"
  BY DEF Open, RecoverLock, RecoverTimeout, Close, Begin,
         MarkerTooLarge, StatementStart, StatementOk, StatementFail, Interrupt,
         Rollback, Crash
<1>4. InTransaction(h)' => InTransaction(h)
  BY DEF InTransaction, TypeOK, Goto, Open, RecoverLock, RecoverTimeout, Close,
         Begin, MarkerTooLarge, StatementStart, StatementOk, StatementFail,
         Interrupt, Rollback, Crash, Die
<1>5. QED
  BY <1>1, <1>2, <1>3, <1>4, OthersStayClosed, StoreKept

\* The steps inside a transaction, between its marker and its end.
LEMMA TransactionSteps ==
  ASSUME ~Overlap, TypeOK, TypeOK', SoloInv, SoloInv', NEW h \in Handles,
         \/ PersistRecords(h) \/ RevertTruncate(h) \/ InterruptedWrite(h)
         \/ pc[h] # "idle" /\ InitTableStore(h)
         \/ pc[h] = "revert" /\ RestoreWrite(h)
         \/ \E v \in Values : InsertRow(h, v) \/ PersistIndex(h, v)
         \/ \E p \in PageIds :
             DeleteRow(h, p) \/ \E v \in Values : UpdateRow(h, p, v)
  PROVE  [AS!Next]_<<Store, Work>>
<1>1. /\ pc[h] \in InMarked /\ pc'[h] \in InMarked
      /\ UNCHANGED undo
      /\ InTransaction(h)
  BY DEF InMarked, InTransaction, TypeOK, Goto, PersistRecords, RevertTruncate,
         RestoreWrite, InsertRow, PersistIndex, DeleteRow, UpdateRow, InterruptedWrite,
         InitTableStore
<1>2. PICK s \in States : pc' = pc \/ pc' = [pc EXCEPT ![h] = s]
  BY DEF States, Goto, PersistRecords, RevertTruncate, RestoreWrite, InsertRow,
         PersistIndex, DeleteRow, UpdateRow, InterruptedWrite, InitTableStore
<1>3. Store = Rows(undo[h])
  BY <1>1, StoreInTransaction
<1>4. Store' = Rows(undo'[h])
  BY <1>1 DEF SoloInv, HandleInv, MarkedInv, Store
<1>5. pc[h] # "closed"
  BY <1>1 DEF InMarked
<1>6. QED
  BY <1>1, <1>2, <1>3, <1>4, <1>5, OthersStayClosed, StoreKept

\* The copy is appended after the last row.
LEMMA AppendSnapshotStep ==
  ASSUME ~Overlap, TypeOK, TypeOK', SoloInv, NEW h \in Handles,
         AppendSnapshot(h)
  PROVE  [AS!Next]_<<Store, Work>>
<1>1. /\ disk \in File /\ disk' \in File /\ disk.size < MaxPages
      /\ disk' = AppendPage(disk, SnapPage(Len(snaps) + 1))
      /\ Clean(disk)
      /\ pc[h] # "closed" /\ pc' = [pc EXCEPT ![h] = "appended"]
  BY DEF AppendSnapshot, TypeOK, SoloInv, HandleInv, BeginInv, Goto
<1>2. StartsWith(disk', disk) /\ disk'.marker = NoMarker
  BY <1>1, AppendPageFields, FileFields DEF StartsWith, Clean
<1>3. Store' = Store
  BY <1>1, <1>2, SameRows DEF Clean, Store, Recovered
<1>4. ~InTransaction(h)'
  BY <1>1 DEF InTransaction, TypeOK
<1>5. QED
  BY <1>1, <1>3, <1>4, OthersStayClosed, StoreKept DEF States

\* The abstract transaction begins when the marker is in the file.
LEMMA WriteMarkerStep ==
  ASSUME ~Overlap, TypeOK, TypeOK', SoloInv, SoloInv', NEW h \in Handles,
         WriteMarker(h)
  PROVE  AS!Begin
<1> DEFINE hdr == [mem[h] EXCEPT !.marker = disk.size - 1]
<1>1. /\ disk \in File /\ undo[h] \in File /\ mem[h] \in Header
      /\ disk' = WriteHeader(disk, hdr) /\ mem'[h] = hdr
      /\ UNCHANGED <<undo, mode>>
      /\ pc[h] = "appended"
      /\ pc'[h] = IF mode[h] = "explicit" THEN "active" ELSE "body"
      /\ pc' = [pc EXCEPT ![h] = IF mode[h] = "explicit" THEN "active"
                                                        ELSE "body"]
  BY DEF WriteMarker, TypeOK, Goto
<1>2. /\ Clean(disk) /\ mem[h] = HeaderOf(disk)
      /\ StartsWith(disk, undo[h]) /\ Clean(undo[h])
      /\ mode[h] \in {"explicit", "auto"}
  BY <1>1 DEF SoloInv, HandleInv, BeginInv
<1>3. Store = Rows(disk) /\ Rows(disk) = Rows(undo[h])
  BY <1>1, <1>2, StoreWithoutMarker, SameRows DEF Clean
<1>4. Store' = Rows(undo[h])
  <2>1. pc'[h] \in InMarked
    BY <1>1 DEF InMarked
  <2>2. QED
    BY <1>1, <2>1 DEF SoloInv, HandleInv, MarkedInv, Store
<1>5. View(h)' = Rows(disk)
  <2>1. mem'[h].recs = disk.recs /\ disk'.page = disk.page
    BY <1>1, <1>2, WriteHeaderFields DEF HeaderOf, Header
  <2>2. QED
    BY <2>1 DEF View, Rows, RowsAt
<1>6. ~InTransaction(h) /\ InTransaction(h)'
  BY <1>1 DEF InTransaction
<1>7. WorkOf(h)' = Rows(undo[h])
  BY <1>1, <1>2, <1>3, <1>5 DEF WorkOf
<1>8. \A g \in Handles : g # h => pc[g] = "closed" /\ pc'[g] = "closed"
  BY <1>1, OthersStayClosed DEF States
<1>9. Work = NoWork /\ Work' = WorkOf(h)'
  BY <1>6, <1>8, WorkOfTheOnly
<1>10. QED
  BY <1>3, <1>4, <1>7, <1>9 DEF AS!Begin

\* The header without the marker makes what the handle sees durable.
LEMMA CommitStep ==
  ASSUME ~Overlap, TypeOK, TypeOK', SoloInv, NEW h \in Handles, Commit(h)
  PROVE  AS!Commit
<1> DEFINE hdr == [mem[h] EXCEPT !.marker = NoMarker]
<1>1. /\ disk \in File /\ mem[h] \in Header
      /\ pc[h] \in {"active", "done"} /\ pc'[h] = "idle"
      /\ pc' = [pc EXCEPT ![h] = "idle"]
  BY DEF Commit, TypeOK, Goto
<1>2. mem[h].marker = disk.marker /\ disk.marker # NoMarker
  BY <1>1 DEF SoloInv, HandleInv, MarkedInv, InMarked
<1>3. disk' = WriteHeader(disk, hdr)
  BY <1>2 DEF Commit
<1>4. disk'.marker = NoMarker /\ disk'.recs = mem[h].recs
      /\ disk'.page = disk.page
  BY <1>1, <1>3, WriteHeaderFields DEF Header
<1>5. Store' = View(h)
  BY <1>4 DEF Store, Recovered, Rows, RowsAt, View
<1>6. InTransaction(h) /\ ~InTransaction(h)' /\ WorkOf(h) = View(h)
  BY <1>1 DEF InTransaction, WorkOf
<1>7. \A g \in Handles : g # h => pc[g] = "closed" /\ pc'[g] = "closed"
  BY <1>1, OthersStayClosed DEF States
<1>8. Work = View(h) /\ Work' = NoWork
  BY <1>6, <1>7, WorkOfTheOnly
<1>9. View(h) # NoWork
  BY <1>1, RowsAreContents, NoWorkIsNoContent DEF View
<1>10. QED
  BY <1>5, <1>8, <1>9 DEF AS!Commit

\* The image of a transaction, or of the copy that its marker leads to, is what
\* opening the file restores: writing it back changes nothing durable.
LEMMA RestoreWriteStep ==
  ASSUME ~Overlap, TypeOK, TypeOK', SoloInv, SoloInv', NEW h \in Handles,
         pc[h] \in {"recover", "rollback"}, RestoreWrite(h)
  PROVE  [AS!Next]_<<Store, Work>>
<1>1. /\ disk' \in File /\ undo[h] \in File /\ UNCHANGED undo
      /\ pc'[h] \in {"recoverCut", "rollbackCut"}
  BY DEF RestoreWrite, TypeOK, Goto
<1>2. Store = Rows(undo[h])
  BY DEF SoloInv, HandleInv, MarkedInv, RecoverInv, InMarked, Store
<1>3. Clean(undo[h]) /\ StartsWith(disk', undo[h])
  BY <1>1 DEF SoloInv, HandleInv, RestoredInv, StartsWith
<1>4. Store' = Store
  BY <1>1, <1>2, <1>3, SameRows DEF Clean, StartsWith, Store, Recovered
<1>5. PICK s \in States : pc' = [pc EXCEPT ![h] = s]
  BY DEF RestoreWrite, Goto, States
<1>6. ~InTransaction(h)'
  BY <1>1 DEF InTransaction
<1>7. QED
  BY <1>4, <1>5, <1>6, OthersStayClosed, StoreKept

\* What lies behind the image is no row of it.
LEMMA RestoreTruncateStep ==
  ASSUME ~Overlap, TypeOK, TypeOK', SoloInv, NEW h \in Handles,
         RestoreTruncate(h)
  PROVE  [AS!Next]_<<Store, Work>>
<1>1. /\ disk \in File /\ disk' \in File /\ undo[h] \in File
      /\ disk' = Truncate(disk, undo[h].size)
      /\ pc[h] \in {"recoverCut", "rollbackCut"}
      /\ pc' = [pc EXCEPT ![h] = "idle"]
  BY DEF RestoreTruncate, TypeOK, Goto
<1>2. Clean(undo[h]) /\ StartsWith(disk, undo[h])
  BY <1>1 DEF SoloInv, HandleInv, RestoredInv
<1>3. StartsWith(disk', undo[h])
  BY <1>1, <1>2, TruncateFields, FileFields DEF StartsWith
<1>4. Store = Rows(undo[h]) /\ Store' = Rows(undo[h])
  BY <1>1, <1>2, <1>3, SameRows DEF Clean, StartsWith, Store, Recovered
<1>5. ~InTransaction(h)'
  BY <1>1 DEF InTransaction, TypeOK
<1>6. QED
  BY <1>1, <1>4, <1>5, OthersStayClosed, StoreKept DEF States

\* Outside a transaction the header in memory is that of the file.
LEMMA InitTableStoreStep ==
  ASSUME ~Overlap, TypeOK, TypeOK', SoloInv, NEW h \in Handles, InitTableStore(h),
         pc[h] = "idle"
  PROVE  [AS!Next]_<<Store, Work>>
<1>1. disk \in File /\ mem[h] = HeaderOf(disk)
  BY DEF TypeOK, InitTableStore, SoloInv, HandleInv, IdleInv
<1>2. disk' = WriteHeader(disk, HeaderOf(disk))
  BY <1>1 DEF InitTableStore
<1>3. disk' = disk
  BY <1>1, <1>2 DEF WriteHeader, HeaderOf, File
<1>4. /\ Store' = Store /\ pc' = pc /\ pc[h] # "closed"
      /\ InTransaction(h)' => InTransaction(h)
  BY <1>3 DEF InitTableStore, Store, Recovered, InTransaction
<1>5. QED
  BY <1>4, OthersStayClosed, StoreKept DEF States

\* The transactions of a file whose handles are open one at a time are atomic
\* and durable: opening the file, at any moment and after any crashes, also in
\* rollbacks and recoveries, shows exactly the rows of the last transaction
\* that committed (specs/transactions, Commit, Rollback, Crash Recovery).
THEOREM SoloImplementsAtomicStore ==
  ASSUME ~Overlap, ~TornWrites, ~IOErrors
  PROVE  Spec => ImplementsAtomicStore
<1>1. Init => AS!Init
  BY InitialFilesFields DEF Init, AS!Init, Store, Recovered, Work, InTransaction
<1>2. TypeOK /\ TypeOK' /\ SoloInv /\ SoloInv' /\ [Next]_vars
        => [AS!Next]_<<Store, Work>>
  <2> SUFFICES ASSUME TypeOK, TypeOK', SoloInv, SoloInv', [Next]_vars
               PROVE  [AS!Next]_<<Store, Work>>
    OBVIOUS
  <2>1. CASE UNCHANGED vars
    BY <2>1 DEF vars, Store, Recovered, Work, WorkOf, InTransaction, View
  <2>2. ASSUME NEW h \in Handles, AppendSnapshot(h)
        PROVE  [AS!Next]_<<Store, Work>>
    BY <2>2, AppendSnapshotStep
  <2>3. ASSUME NEW h \in Handles, WriteMarker(h)
        PROVE  [AS!Next]_<<Store, Work>>
    BY <2>3, WriteMarkerStep DEF AS!Next
  <2>4. ASSUME NEW h \in Handles, Commit(h)
        PROVE  [AS!Next]_<<Store, Work>>
    BY <2>4, CommitStep DEF AS!Next
  <2>5. ASSUME NEW h \in Handles, RestoreWrite(h)
        PROVE  [AS!Next]_<<Store, Work>>
    BY <2>5, RestoreWriteStep, TransactionSteps DEF RestoreWrite
  <2>6. ASSUME NEW h \in Handles, RestoreTruncate(h)
        PROVE  [AS!Next]_<<Store, Work>>
    BY <2>6, RestoreTruncateStep
  <2>7. ASSUME NEW h \in Handles, InitTableStore(h)
        PROVE  [AS!Next]_<<Store, Work>>
    BY <2>7, InitTableStoreStep, TransactionSteps
  <2>8. ASSUME NEW h \in Handles, TornCrash(h)
        PROVE  [AS!Next]_<<Store, Work>>
    BY <2>8 DEF TornCrash
  <2>9. QED
    BY <2>1, <2>2, <2>3, <2>4, <2>5, <2>6, <2>7, <2>8, QuietSteps,
       TransactionSteps
       DEF Next, Step, Transaction, Statement, CommitFail, RestoreFail
<1>3. QED
  BY <1>1, <1>2, Typing, SoloInvariant, PTL
     DEF Spec, ImplementsAtomicStore, AS!Spec, AS!vars

-----------------------------------------------------------------------------
(* What a statement changes, and when *)

\* A step of h leaves the other handles closed.
LEMMA OnlyOneMoves ==
  ASSUME ~Overlap, TypeOK, SoloInv, NEW h \in Handles, Step(h)
  PROVE  \A g \in Handles : g # h => pc[g] = "closed" /\ pc'[g] = "closed"
<1>1. pc[h] # "closed" \/ \A g \in Handles : pc[g] = "closed"
  BY DEF Step, Transaction, Statement, Open, RecoverLock, RecoverTimeout, Close,
         Begin, AppendSnapshot, WriteMarker, MarkerTooLarge, Commit, CommitFail,
         Rollback, RestoreWrite, RestoreFail, RevertTruncate, RestoreTruncate,
         StatementStart, PersistRecords, StatementOk, StatementFail, Interrupt,
         InterruptedWrite, InsertRow, PersistIndex, DeleteRow, UpdateRow, InitTableStore,
         Crash, TornCrash
<1>2. \E s \in States : pc' = pc \/ pc' = [pc EXCEPT ![h] = s]
  BY DEF Step, Transaction, Statement, Open, RecoverLock, RecoverTimeout, Close,
         Begin, AppendSnapshot, WriteMarker, MarkerTooLarge, Commit, CommitFail,
         Rollback, RestoreWrite, RestoreFail, RevertTruncate, RestoreTruncate,
         StatementStart, PersistRecords, StatementOk, StatementFail, Interrupt,
         InterruptedWrite, InsertRow, PersistIndex, DeleteRow, UpdateRow, InitTableStore,
         Crash, TornCrash, Die, Goto, States
<1>3. QED
  BY <1>1, <1>2, OthersStayClosed

\* Without failing restores and interrupts, memory and file have the same records
\* whenever a statement may begin or end.
LEMMA WorkStep ==
  ASSUME ~Overlap, ~IOErrors, ~Interrupts, TypeOK, TypeOK', SoloInv,
         NEW h \in Handles, WorkInv(h), Step(h)
  PROVE  WorkInv(h)'
<1>1. CASE WriteMarker(h)
  <2>1. /\ disk \in File /\ mem[h] = HeaderOf(disk) /\ mode[h] \in {"explicit", "auto"}
        /\ mem'[h].recs = mem[h].recs
        /\ disk' = WriteHeader(disk, mem'[h]) /\ mode' = mode
        /\ pc'[h] = IF mode[h] = "explicit" THEN "active" ELSE "body"
    BY <1>1 DEF WriteMarker, TypeOK, Header, Goto, SoloInv, HandleInv, BeginInv
  <2>2. disk'.recs = mem'[h].recs
    BY <2>1, WriteHeaderFields
  <2>3. QED
    BY <2>1, <2>2 DEF WorkInv
<1>2. CASE PersistRecords(h)
  <2>1. disk'.recs = mem[h].recs /\ mem' = mem /\ pc'[h] = "body"
    BY <1>2, WriteHeaderFields DEF PersistRecords, TypeOK, Goto
  <2>2. QED
    BY <2>1 DEF WorkInv
<1>3. CASE \/ \E v \in Values : PersistIndex(h, v)
           \/ \E p \in PageIds, v \in Values : UpdateRow(h, p, v)
  <2>1. disk'.recs = disk.recs /\ UNCHANGED <<mem, pc, mode>>
    BY <1>3, AppendPageFields, WritePageFields DEF PersistIndex, UpdateRow, TypeOK
  <2>2. QED
    BY <2>1 DEF WorkInv
<1>4. CASE StatementStart(h) \/ StatementOk(h) \/ StatementFail(h)
  BY <1>4 DEF StatementStart, StatementOk, StatementFail, WorkInv, TypeOK, Goto
<1>5. CASE RestoreWrite(h)
  BY <1>5 DEF RestoreWrite, WorkInv, TypeOK, Goto
<1>6. CASE RevertTruncate(h)
  <2>1. disk'.recs = disk.recs /\ mem'[h].recs = disk.recs /\ mode' = mode
        /\ pc[h] = "revertCut" /\ pc'[h] = "active"
    BY <1>6, TruncateFields DEF RevertTruncate, TypeOK, Goto, HeaderOf
  <2>2. QED
    BY <2>1 DEF WorkInv
<1>7. CASE \/ Open(h) \/ RecoverLock(h) \/ RecoverTimeout(h) \/ Close(h)
           \/ \E m \in {"explicit", "auto"} : Begin(h, m)
           \/ AppendSnapshot(h) \/ MarkerTooLarge(h) \/ Commit(h) \/ Rollback(h)
           \/ \E v \in Values : InsertRow(h, v)
           \/ \E p \in PageIds : DeleteRow(h, p)
           \/ RestoreTruncate(h) \/ Crash(h) \/ TornCrash(h)
  <2>1. pc'[h] \notin {"active", "body", "done", "revert", "revertCut"}
    BY <1>7 DEF Open, RecoverLock, RecoverTimeout, Close, Begin, AppendSnapshot,
                MarkerTooLarge, Commit, Rollback, InsertRow, DeleteRow,
                RestoreTruncate, Crash, TornCrash, Die, TypeOK, Goto
  <2>2. QED
    BY <2>1 DEF WorkInv
<1>8. CASE InitTableStore(h)
  <2>1. disk'.recs = mem[h].recs /\ UNCHANGED <<pc, mem, mode>>
    BY <1>8, WriteHeaderFields DEF InitTableStore, TypeOK
  <2>2. QED
    BY <2>1 DEF WorkInv
<1>9. QED
  BY <1>1, <1>2, <1>3, <1>4, <1>5, <1>6, <1>7, <1>8
     DEF Step, Transaction, Statement, Interrupt, InterruptedWrite, CommitFail, RestoreFail

\* Inside a transaction its rows change only where a statement is over: what a
\* savepoint or an image gives back is what the statement started from.
LEMMA WorkKept ==
  ASSUME ~Overlap, ~IOErrors, ~Interrupts, TypeOK, TypeOK', SoloInv,
         NEW h \in Handles, WorkInv(h), Step(h), InTransaction(h), InTransaction(h)',
         ~(pc[h] = "body" /\ pc'[h] \in {"active", "done"})
  PROVE  WorkOf(h)' = WorkOf(h)
<1>1. CASE StatementStart(h)
  <2>1. /\ pc[h] = "active" /\ pc'[h] = "body" /\ mode' = mode /\ mode[h] # "auto"
        /\ savepoint'[h] = disk /\ mem[h].recs = disk.recs
    BY <1>1 DEF StatementStart, TypeOK, Goto, WorkInv
  <2>2. QED
    BY <2>1 DEF WorkOf, View, Rows
<1>2. CASE RevertTruncate(h)
  <2>1. /\ pc[h] = "revertCut" /\ pc'[h] = "active" /\ mode[h] # "auto"
        /\ disk' = Truncate(disk, savepoint[h].size) /\ mem'[h].recs = disk.recs
        /\ disk \in File /\ disk' \in File /\ savepoint[h] \in File
    BY <1>2 DEF RevertTruncate, TypeOK, Goto, WorkInv, HeaderOf
  <2>2. StartsWith(disk, savepoint[h]) /\ RecordsInside(savepoint[h].recs, savepoint[h])
    BY <2>1 DEF SoloInv, HandleInv, SavepointInv, RevertedInv
  <2>3. StartsWith(disk', savepoint[h]) /\ disk'.recs = disk.recs
    BY <2>1, <2>2, TruncateFields, FileFields DEF StartsWith
  <2>4. Rows(disk') = Rows(savepoint[h])
    BY <2>1, <2>2, <2>3, SameRows
  <2>5. QED
    BY <2>1, <2>3, <2>4 DEF WorkOf, View, Rows
<1>3. CASE \/ PersistRecords(h) \/ StatementFail(h) \/ RestoreWrite(h)
           \/ \E v \in Values : InsertRow(h, v) \/ PersistIndex(h, v)
           \/ \E p \in PageIds :
               DeleteRow(h, p) \/ \E v \in Values : UpdateRow(h, p, v)
  <2>1. /\ UNCHANGED <<undo, mode, savepoint>>
        /\ pc[h] \notin {"active", "done"} /\ pc'[h] \notin {"active", "done"}
    BY <1>3 DEF PersistRecords, StatementFail, RestoreWrite, InsertRow, PersistIndex,
                DeleteRow, UpdateRow, TypeOK, Goto
  <2>2. QED
    BY <2>1 DEF WorkOf
<1>4. CASE StatementOk(h) \/ WriteMarker(h)
  BY <1>4 DEF StatementOk, WriteMarker, InTransaction, TypeOK, Goto
<1>5. CASE \/ Open(h) \/ RecoverLock(h) \/ RecoverTimeout(h) \/ Close(h)
           \/ \E m \in {"explicit", "auto"} : Begin(h, m)
           \/ AppendSnapshot(h) \/ MarkerTooLarge(h) \/ Commit(h) \/ Rollback(h)
           \/ RestoreTruncate(h) \/ Crash(h) \/ TornCrash(h)
  <2>1. ~InTransaction(h)'
    BY <1>5 DEF InTransaction, Open, RecoverLock, RecoverTimeout, Close, Begin,
                AppendSnapshot, MarkerTooLarge, Commit, Rollback, RestoreTruncate,
                Crash, TornCrash, Die, TypeOK, Goto
  <2>2. QED
    BY <2>1
<1>6. CASE InitTableStore(h)
  <2>1. disk'.page = disk.page /\ UNCHANGED <<pc, mem, undo, savepoint, mode>>
    BY <1>6, WriteHeaderFields DEF InitTableStore, TypeOK
  <2>2. QED
    BY <2>1 DEF WorkOf, View, Rows, RowsAt
<1>7. QED
  BY <1>1, <1>2, <1>3, <1>4, <1>5, <1>6
     DEF Step, Transaction, Statement, Interrupt, InterruptedWrite, CommitFail, RestoreFail

\* A statement is atomic for the transaction that it belongs to: its rows change when
\* the statement completes, and a statement that fails, also half way through its
\* writes, leaves in the file and in memory what it found there
\* (specs/transactions, Statement Atomicity).
THEOREM SoloStatementsAreAtomic ==
  ASSUME ~Overlap, ~IOErrors, ~Interrupts
  PROVE  Spec => OnlyCompletedStatementsCount
<1>1. Init => \A h \in Handles : WorkInv(h)
  BY DEF Init, WorkInv
<1>2. TypeOK /\ TypeOK' /\ SoloInv /\ (\A h \in Handles : WorkInv(h)) /\ [Next]_vars
        => (\A h \in Handles : WorkInv(h))'
  <2> SUFFICES ASSUME TypeOK, TypeOK', SoloInv, \A h \in Handles : WorkInv(h), [Next]_vars
               PROVE  \A h \in Handles : WorkInv(h)'
    OBVIOUS
  <2>1. CASE UNCHANGED vars
    BY <2>1 DEF vars, WorkInv
  <2>2. ASSUME NEW h \in Handles, Step(h)
        PROVE  \A g \in Handles : WorkInv(g)'
    <3>1. WorkInv(h)'
      BY <2>2, WorkStep
    <3>2. \A g \in Handles : g # h => pc'[g] = "closed"
      BY <2>2, OnlyOneMoves
    <3>3. QED
      BY <3>1, <3>2 DEF WorkInv
  <2>3. QED
    BY <2>1, <2>2 DEF Next
<1>3. TypeOK /\ TypeOK' /\ SoloInv /\ (\A h \in Handles : WorkInv(h)) /\ [Next]_vars
        => [\A h \in Handles :
              InTransaction(h) /\ InTransaction(h)' /\ WorkOf(h)' # WorkOf(h)
              => pc[h] = "body" /\ pc'[h] \in {"active", "done"}]_vars
  <2> SUFFICES ASSUME TypeOK, TypeOK', SoloInv, \A h \in Handles : WorkInv(h), Next,
                      NEW h \in Handles, InTransaction(h), InTransaction(h)',
                      WorkOf(h)' # WorkOf(h)
               PROVE  pc[h] = "body" /\ pc'[h] \in {"active", "done"}
    OBVIOUS
  <2>1. PICK g \in Handles : Step(g)
    BY DEF Next
  <2>2. g = h
    BY <2>1, OnlyOneMoves DEF InTransaction
  <2>3. QED
    BY <2>1, <2>2, WorkKept
<1>4. QED
  BY <1>1, <1>2, <1>3, Typing, SoloInvariant, PTL DEF Spec, OnlyCompletedStatementsCount
=============================================================================
