------------------------ MODULE SnapshotGrowthProofs ------------------------
(***************************************************************************)
(* A committed transaction doubles a TinyDB file, and nine exhaust it: for *)
(* any table, indexes and rows.                                            *)
(***************************************************************************)
EXTENDS SnapshotGrowth, TLAPS

-----------------------------------------------------------------------------
(* The sizes of files *)

\* The copy of a file has more pages than the file.
LEMMA CopyIsLonger ==
  ASSUME NEW n \in Nat \ {0}
  PROVE  CopyPages(n) \in Nat /\ CopyPages(n) > n
BY DEF CopyPages, PAGE_SIZE, SNAPSHOT_CHUNK_SIZE

LEMMA CountFromType ==
  ASSUME NEW a \in Int, NEW b \in Int, NEW t \in Int, a <= b + 1
  PROVE  CountFrom(a, b, t) \in Nat
BY DEF CountFrom

\* Every number has a digit.
LEMMA DigitsOfType ==
  ASSUME NEW a \in Int, NEW b \in Int, a <= b
  PROVE  DigitsOf(a, b) \in Nat /\ DigitsOf(a, b) >= b - a + 1
<1>1. \A t \in Int : CountFrom(a, b, t) \in Nat
  BY CountFromType
<1>2. QED
  BY <1>1 DEF DigitsOf

LEMMA DigitsType ==
  ASSUME NEW n \in Int
  PROVE  Digits(n) \in Nat
BY DigitsOfType DEF Digits

LEMMA MarkerType ==
  ASSUME NEW n \in Nat \ {0}
  PROVE  MarkerOf(n) \in Nat
<1>1. Digits(n * PAGE_SIZE) \in Nat
  BY DigitsType DEF PAGE_SIZE
<1>2. CopyPages(n) \in Nat /\ CopyPages(n) > n
  BY CopyIsLonger
<1>3. DigitsOf(n - 1, n + CopyPages(n) - 2) \in Nat
  <2>1. n - 1 \in Int /\ n + CopyPages(n) - 2 \in Int
        /\ n - 1 <= n + CopyPages(n) - 2
    BY <1>2
  <2>2. QED
    BY <2>1, DigitsOfType
<1>4. QED
  BY <1>1, <1>2, <1>3 DEF MarkerOf, MarkerBytes

\* The page ids of the copy of a file of 1023 pages, all of four digits or more,
\* do not fit in the header page.
LEMMA LongMarker ==
  ASSUME NEW n \in Nat, n >= 1023
  PROVE  MarkerOf(n) > HeaderCapacity
<1> DEFINE c == CopyPages(n)
           a == n - 1
           b == n + c - 2
<1>1. c \in Nat /\ c > n
  BY CopyIsLonger
<1> HIDE DEF c
<1>2. Digits(n * PAGE_SIZE) \in Nat
  BY DigitsType DEF PAGE_SIZE
<1>3. /\ CountFrom(a, b, 10) = c
      /\ CountFrom(a, b, 100) = c
      /\ CountFrom(a, b, 1000) = c
  BY <1>1 DEF CountFrom
<1>4. \A t \in Int : CountFrom(a, b, t) \in Nat
  BY <1>1, CountFromType
<1>5. DigitsOf(a, b) >= 4 * c
  BY <1>1, <1>3, <1>4 DEF DigitsOf
<1>6. DigitsOf(a, b) \in Int
  BY <1>1, DigitsOfType
<1>7. MarkerOf(n) = MarkerBytes + Digits(n * PAGE_SIZE) + DigitsOf(a, b) + c - 1
  BY DEF MarkerOf, c
<1>8. QED
  BY <1>1, <1>2, <1>5, <1>6, <1>7 DEF HeaderCapacity, MarkerBytes, PAGE_SIZE

-----------------------------------------------------------------------------
(* Types *)

\* Every variable keeps its type: no page count or length turns negative.
THEOREM Typing == Spec => []TypeOK
<1>1. Init => TypeOK
  <2> SUFFICES ASSUME Init PROVE TypeOK
    OBVIOUS
  <2>1. 1 \in Nat \ {0} /\ 37 \in Int /\ 0 \in 0..MaxRows /\ 0 \in 0..0
    BY SizesAssumption
  <2>2. saved \in [pages : Nat \ {0}, meta : Int, records : 0..MaxRows,
                  live : Nat, created : BOOLEAN]
    BY <2>1 DEF Init, EmptyBytes
  <2>3. saved.live <= saved.records
    BY DEF Init
  <2>4. live \in 0..records /\ records \in 0..MaxRows
    BY <2>1 DEF Init
  <2>5. QED
    BY <2>1, <2>2, <2>3, <2>4 DEF Init, TypeOK, EmptyBytes
<1>2. TypeOK /\ [Next]_vars => TypeOK'
  <2> SUFFICES ASSUME TypeOK, [Next]_vars PROVE TypeOK'
    OBVIOUS
  <2> USE SizesAssumption DEF TypeOK
  <2>1. CASE UNCHANGED vars
    BY <2>1 DEF vars
  <2>2. CASE Begin
    BY <2>2, CopyIsLonger, MarkerType DEF Begin
  <2>3. CASE BeginRefused
    BY <2>3, CopyIsLonger DEF BeginRefused
  <2>4. CASE Reopen
    BY <2>4 DEF Reopen
  <2>5. CASE CreateTable
    BY <2>5 DEF CreateTable, Write
  <2>6. CASE Insert
    <3>1. Digits(pages - 1) \in Nat
      BY DigitsType
    <3>2. QED
      BY <2>6, <3>1 DEF Insert, Write, RecordBytes
  <2>7. CASE Delete
    BY <2>7 DEF Delete, Write
  <2>8. CASE Update
    <3>1. 2 * Indexes \in Nat
      OBVIOUS
    <3>2. QED
      BY <2>8, <3>1 DEF Update, Write
  <2>9. CASE Commit
    BY <2>9 DEF Commit
  <2>10. CASE Rollback
    BY <2>10 DEF Rollback
  <2>11. QED
    BY <2>1, <2>2, <2>3, <2>4, <2>5, <2>6, <2>7, <2>8, <2>9, <2>10 DEF Next
<1>3. QED
  BY <1>1, <1>2, PTL DEF Spec

-----------------------------------------------------------------------------
(* Growth *)

\* What a file has at least, after c transactions.
AtLeast(c, n) ==
    \/ c = 0 /\ n >= 1
    \/ c = 1 /\ n >= 3
    \/ c = 2 /\ n >= 7
    \/ c = 3 /\ n >= 15
    \/ c = 4 /\ n >= 31
    \/ c = 5 /\ n >= 63
    \/ c = 6 /\ n >= 127
    \/ c = 7 /\ n >= 255
    \/ c = 8 /\ n >= 511
    \/ c = 9 /\ n >= 1023

\* The file has doubled with every commit, a transaction has begun only where
\* the marker fits, and a header has a byte, at least, for each record in it.
GrowthInv ==
    /\ AtLeast(commits, pages)
    /\ meta >= live /\ saved.meta >= saved.live
    /\ status = "open" => /\ pages > 2 * saved.pages
                          /\ AtLeast(commits, saved.pages)
                          /\ saved.pages < 1023

\* GrowthInv is inductive.
THEOREM GrowthInvariant == Spec => []GrowthInv
<1>1. Init => GrowthInv
  BY DEF Init, GrowthInv, AtLeast, EmptyBytes
<1>2. TypeOK /\ GrowthInv /\ [Next]_vars => GrowthInv'
  <2> SUFFICES ASSUME TypeOK, GrowthInv, [Next]_vars PROVE GrowthInv'
    OBVIOUS
  <2> USE SizesAssumption DEF TypeOK, GrowthInv
  <2>1. CASE UNCHANGED vars
    BY <2>1 DEF vars
  <2>2. CASE Begin
    <3>1. CopyPages(pages) \in Nat /\ CopyPages(pages) > pages
      BY CopyIsLonger
    <3>2. pages < 1023
      <4>1. MarkerOf(pages) \in Nat /\ HeaderCapacity \in Nat
        BY MarkerType DEF HeaderCapacity, PAGE_SIZE
      <4>2. meta + MarkerOf(pages) <= HeaderCapacity
        BY <2>2 DEF Begin, Fits
      <4>3. QED
        BY <4>1, <4>2, LongMarker
    <3>3. QED
      BY <2>2, <3>1, <3>2 DEF Begin, AtLeast
  <2>3. CASE BeginRefused
    BY <2>3, CopyIsLonger DEF BeginRefused, AtLeast
  <2>4. CASE Reopen
    BY <2>4 DEF Reopen
  <2>5. CASE CreateTable
    BY <2>5 DEF CreateTable, Write, AtLeast
  <2>6. CASE Insert
    <3>1. Digits(pages - 1) \in Nat
      BY DigitsType
    <3>2. QED
      BY <2>6, <3>1 DEF Insert, Write, AtLeast, RecordBytes
  <2>7. CASE Delete
    BY <2>7 DEF Delete, Write, AtLeast
  <2>8. CASE Update
    <3>1. 2 * Indexes \in Nat
      OBVIOUS
    <3>2. QED
      BY <2>8, <3>1 DEF Update, Write, AtLeast
  <2>9. CASE Commit
    BY <2>9 DEF Commit, AtLeast
  <2>10. CASE Rollback
    BY <2>10 DEF Rollback
  <2>11. QED
    BY <2>1, <2>2, <2>3, <2>4, <2>5, <2>6, <2>7, <2>8, <2>9, <2>10 DEF Next
<1>3. QED
  BY <1>1, <1>2, Typing, PTL DEF Spec

\* Whatever the table, its indexes and its rows: no file takes a tenth
\* transaction.
THEOREM NineTransactionsExhaust == Spec => []AtMostNineTransactions
<1>1. GrowthInv => AtMostNineTransactions
  BY DEF GrowthInv, AtLeast, AtMostNineTransactions
<1>2. QED
  BY <1>1, GrowthInvariant, PTL

\* Every transaction that commits more than doubles the file.
THEOREM CommitDoubles == Spec => CommitDoublesTheFile
<1>1. TypeOK /\ GrowthInv /\ [Next]_vars
        => [commits' # commits => pages' > 2 * saved.pages]_vars
  BY DEF GrowthInv, TypeOK, Next, Begin, BeginRefused, Reopen, CreateTable,
         Insert, Delete, Update, Write, Commit, Rollback, vars
<1>2. QED
  BY <1>1, Typing, GrowthInvariant, PTL DEF Spec, CommitDoublesTheFile
=============================================================================
