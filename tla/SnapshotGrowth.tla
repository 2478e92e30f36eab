--------------------------- MODULE SnapshotGrowth ---------------------------
(***************************************************************************)
(* The pages and the bytes of the crash recovery snapshot of tinydb:       *)
(* StorageManager._begin_transaction_recovery_snapshot appends a copy of   *)
(* the whole file to the file, and lists the ids of the pages of the copy  *)
(* in the header page.  A rollback cuts the copy off, a commit leaves it.  *)
(*                                                                         *)
(* Sizes are exact: a page has 4096 bytes, of which a page of the copy     *)
(* holds 4092, and the header is compact JSON with sorted keys.  There is  *)
(* one table; its rows have no content here.  A statement that would make  *)
(* the header too long fails and is undone: no step of this module.        *)
(***************************************************************************)
EXTENDS Integers

CONSTANTS
    TableBytes,   \* bytes that the table adds to the header
    Indexes,      \* number of unique columns, each with a B-tree page per write
    MaxRows,      \* bound on the records of the table
    MaxPages      \* bound on the pages of a file in which begin is tried

ASSUME SizesAssumption ==
    TableBytes \in Nat /\ Indexes \in Nat /\ MaxRows \in Nat /\ MaxPages \in Nat

VARIABLES
    pages,    \* pages of the file, the header included
    meta,     \* bytes of the header state without the marker
    records,  \* records of the table in the header, deleted ones included
    live,     \* records that are not deleted
    created,  \* the table exists
    marker,   \* bytes of the marker
    status,   \* "idle", "open" in a transaction, "stuck" after a refused begin
    saved,    \* the file before begin
    commits   \* number of transactions committed

vars == <<pages, meta, records, live, created, marker, status, saved, commits>>

-----------------------------------------------------------------------------
PAGE_SIZE == 4096
SNAPSHOT_CHUNK_SIZE == PAGE_SIZE - 4
HeaderCapacity == PAGE_SIZE - 15   \* magic, version and length come first

EmptyBytes == 37    \* {"catalog":{"tables":[]},"tables":{}}
RecordBytes == 37   \* {"deleted":false,"page_id":,"slot":0}
MarkerBytes == 87   \* ,"transaction":{"snapshot_page_ids":[],...}

\* Pages of a copy of n pages.
CopyPages(n) == (n * PAGE_SIZE + SNAPSHOT_CHUNK_SIZE - 1) \div SNAPSHOT_CHUNK_SIZE

\* How many of the numbers from a to b are at least t.
CountFrom(a, b, t) == IF b < t THEN 0 ELSE IF a < t THEN b - t + 1 ELSE b - a + 1

\* Decimal digits of all the numbers from a to b together (b < 100000000).
DigitsOf(a, b) ==
    (b - a + 1)
    + CountFrom(a, b, 10) + CountFrom(a, b, 100) + CountFrom(a, b, 1000)
    + CountFrom(a, b, 10000) + CountFrom(a, b, 100000)
    + CountFrom(a, b, 1000000) + CountFrom(a, b, 10000000)

Digits(n) == DigitsOf(n, n)

\* Mutant: the marker has the first page id and the number of pages.
MarkerOfMutant(n) ==
    MarkerBytes + Digits(n * PAGE_SIZE) + Digits(n - 1) + 1 + Digits(CopyPages(n))

\* Bytes of the marker of a file of n pages: the ids of the pages of its copy,
\* with commas between them, and its size in bytes.
MarkerOf(n) ==
    MarkerBytes + Digits(n * PAGE_SIZE)
    + DigitsOf(n - 1, n + CopyPages(n) - 2) + CopyPages(n) - 1

Fits(m) == m <= HeaderCapacity

-----------------------------------------------------------------------------
Init ==
    /\ pages = 1 /\ meta = EmptyBytes
    /\ records = 0 /\ live = 0 /\ created = FALSE
    /\ marker = 0 /\ status = "idle"
    /\ saved = [pages |-> 1, meta |-> EmptyBytes, records |-> 0, live |-> 0,
                created |-> FALSE]
    /\ commits = 0

Begin ==
    /\ status = "idle"
    /\ pages <= MaxPages
    /\ Fits(meta + MarkerOf(pages))
    /\ pages' = pages + CopyPages(pages)
    /\ marker' = MarkerOf(pages)
    /\ status' = "open"
    /\ saved' = [pages |-> pages, meta |-> meta, records |-> records,
                 live |-> live, created |-> created]
    /\ UNCHANGED <<meta, records, live, created, commits>>

\* The copy is in the file before the header turns out to be too long.
BeginRefused ==
    /\ status = "idle"
    /\ pages <= MaxPages
    /\ ~Fits(meta + MarkerOf(pages))
    /\ pages' = pages + CopyPages(pages)
    /\ status' = "stuck"
    /\ UNCHANGED <<meta, records, live, created, marker, saved, commits>>

\* Closes the file and opens it.  The marker that was refused stayed in memory
\* until now, and refused every begin before it wrote anything.
Reopen ==
    /\ status \in {"idle", "stuck"}
    /\ status' = "idle"
    /\ UNCHANGED <<pages, meta, records, live, created, marker, saved, commits>>

\* A statement appends n pages and makes the header b bytes longer.
Write(n, b) ==
    /\ status = "open"
    /\ Fits(meta + b + marker)
    /\ pages' = pages + n
    /\ meta' = meta + b
    /\ UNCHANGED <<marker, status, saved, commits>>

CreateTable ==
    /\ ~created
    /\ Write(Indexes, TableBytes)
    /\ created' = TRUE
    /\ UNCHANGED <<records, live>>

\* The record names the page of the row, which is the next one of the file.
Insert ==
    /\ created
    /\ records < MaxRows
    /\ Write(1 + Indexes,
             RecordBytes + Digits(pages - 1) + IF records = 0 THEN 0 ELSE 1)
    /\ records' = records + 1
    /\ live' = live + 1
    /\ UNCHANGED created

\* A deleted row keeps its page and its record ("true" for "false").
Delete ==
    /\ live > 0
    /\ Write(Indexes, -1)
    /\ live' = live - 1
    /\ UNCHANGED <<records, created>>

\* In place; a changed key is deleted from its index and inserted again.
Update ==
    /\ live > 0
    /\ Write(2 * Indexes, 0)
    /\ UNCHANGED <<records, live, created>>

\* Mutant: the copy is cut off.
CommitMutant ==
    /\ status = "open"
    /\ pages' = pages - CopyPages(saved.pages)
    /\ marker' = 0
    /\ status' = "idle"
    /\ commits' = commits + 1
    /\ UNCHANGED <<meta, records, live, created, saved>>

\* The header is written without the marker; the copy stays in the file.
Commit ==
    /\ status = "open"
    /\ marker' = 0
    /\ status' = "idle"
    /\ commits' = commits + 1
    /\ UNCHANGED <<pages, meta, records, live, created, saved>>

\* The file is what it was before begin.
Rollback ==
    /\ status = "open"
    /\ pages' = saved.pages
    /\ meta' = saved.meta
    /\ records' = saved.records
    /\ live' = saved.live
    /\ created' = saved.created
    /\ marker' = 0
    /\ status' = "idle"
    /\ UNCHANGED <<saved, commits>>

Next ==
    \/ Begin \/ BeginRefused \/ Reopen
    \/ CreateTable \/ Insert \/ Delete \/ Update
    \/ Commit \/ Rollback

Spec == Init /\ [][Next]_vars

-----------------------------------------------------------------------------
(* Properties *)

TypeOK ==
    /\ pages \in Nat \ {0}
    /\ meta \in Int
    /\ records \in 0..MaxRows
    /\ live \in 0..records
    /\ created \in BOOLEAN
    /\ marker \in Nat
    /\ status \in {"idle", "open", "stuck"}
    /\ saved \in [pages : Nat \ {0}, meta : Int, records : 0..MaxRows,
                  live : Nat, created : BOOLEAN]
    /\ saved.live <= saved.records
    /\ commits \in Nat

\* A committed transaction, also an empty one, more than doubles the file.
CommitDoublesTheFile ==
    [][commits' # commits => pages' > 2 * saved.pages]_vars

\* No file ever takes more than nine write transactions, however few rows it
\* has: after them the list of page ids of the copy does not fit in the header,
\* begin is refused, and nothing but a write could shorten the header.
AtMostNineTransactions == commits <= 9
=============================================================================
