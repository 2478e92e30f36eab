# TinyDB in TLA+

Specifications, model checking and proofs for TinyDB, the single-file SQL
database of this repository (`tinydb/`). The modules are read from the code;
`PROJECT.json` names, for every definition, the lines that it stands for, and
for every hazard of the code the properties that watch it.

1. [The system](#the-system)
2. [The modules](#the-modules)
3. [What is checked](#what-is-checked)
4. [What the checks found](#what-the-checks-found)
5. [What is proved](#what-is-proved)
6. [What is not modelled](#what-is-not-modelled)
7. [Plan](#plan)

## The system

A `Database` handle runs SQL text on one file. There is no server: processes
and threads that open the same path share nothing but the file, a sidecar lock
file beside it and, inside a process, one module variable.

| Component | State | Operations | Correct when |
|---|---|---|---|
| Database (`api.py`) | one `RLock` per handle, storage, transaction manager | `open`, `execute`, `close` | calls of a handle are serialised; `close` ends its transaction |
| Writer lock (`locking.py`, parts of `storage/file.py` and `transaction.py`) | `_ACTIVE_WRITERS` per process, the `flock` on `<path>.lock` | acquire with a timeout by polling, release | one writer at a time over all threads and processes; waits end; nothing is left behind |
| Transactions (`transaction.py`) | `_snapshot`, `_writer_handle` | `begin`, `commit`, `rollback`, `close`, `statement` | atomic, durable, a failed statement is undone alone |
| Page file (`storage/file.py`, `storage/page.py`) | the file: header page and numbered pages; `_state`, the header in memory | allocate, read, write, snapshot, restore, recover | wherever a process dies, the next open finds the last committed content |
| Table store (`storage/table.py`) | row pages; the list of records in the header | `insert`, `read`, `update`, `delete`, `scan` | every live record leads to a live row; constraints hold |
| B-tree index (`index/btree.py`) | a tree in memory, one page per persisted generation | `insert`, `delete`, `build`, `equal`, `range`, load, persist | sorted, balanced, complete |
| Executor (`executor.py`) | none | one method per statement | indexes agree with tables; statements are atomic |
| Planner (`planner.py`) | none | table scan, index scan or join | the index scan returns what the table scan would |
| Catalog, types (`catalog.py`, `types.py`) | schemas, in the header | create, drop, validate | names unique; values of the declared types |
| SQL front end (`sql/`) | none | lexing, parsing, evaluation | a statement is read as it is written, or refused |
| Command line (`cli*.py`, `explain.py`) | buffer of an unfinished statement, statements of a script still to run | read, split, execute, dot commands, end | every statement runs once and in order; errors end what they should; the file keeps what was committed |

How they interact. `execute` parses one statement. A `SELECT` goes to the
executor directly, **with no lock and in no transaction**. A write statement
runs inside `TransactionManager.statement()`: if no transaction is open it
begins one and commits or rolls it back itself, otherwise it takes a savepoint.
`begin` enters `_ACTIVE_WRITERS`, polls the sidecar lock, keeps a copy of the
whole file in memory, appends a second copy to the file, and writes a header
with a marker that leads to it. The statements then change pages *in place*.
`commit` writes a header without the marker. `rollback` writes the copy from
memory back. Whoever opens a file that has a marker takes the lock and writes
the copy in the file back.

What is hard about it:

* **Crashes.** A process can die between any two writes of the file, also of
  a rollback or a recovery, and within the longer writes.
* **Interleaving.** Readers take no lock while a writer changes pages in place;
  a handle trusts the header that it read when it was opened; the registry is
  tested and changed in two steps; the header read again under the recovery lock
  goes through a buffered file object.
* **Timeouts.** The lock is polled; whoever gives up must leave no trace and must
  not disturb the holder, although both may be in one process.
* **Partial failure.** A statement writes pages, then records, then indexes; it
  can fail after each, inside a transaction that goes on.
* **Text.** Three loops look for the ends of strings (the lexer and two of the
  command line); clauses are optional and lists open-ended; a name may be
  qualified, unqualified, ambiguous or of a table joined with itself.
* **Limits.** One page for the header, which also lists the pages of the copy;
  one page for each index.

## The modules

| Module | Models | Extends or uses |
|---|---|---|
| `SingleWriter` | what a writer lock promises | |
| `WriterLock` | registry, polled lock, timeouts, interrupts, process death | implements `SingleWriter` |
| `MCWriterLock` | three handles in two processes | `WriterLock` |
| `WriterLockProofs` | theorems about the lock | `WriterLock` |
| `AtomicStore` | what transactions promise: a durable content, private work | |
| `Transactions` | every write that begin, statement, commit, rollback and recovery issue, with crashes before each | implements `AtomicStore` |
| `TransactionsInv` | `SoloInv`, `ReadableInv` and `WorkInv`, the inductive invariants with one handle at a time | `Transactions` |
| `MCTransactions` | one or two handles | `TransactionsInv` |
| `TransactionsProofs` | types, recovery, `SoloInv` and what follows from it; `Transactions` implements `AtomicStore`; statements are atomic | `TransactionsInv` |
| `SnapshotGrowth` | the exact sizes of file, copy and marker | |
| `MCSnapshotGrowth` | the table `t(id INT)` | `SnapshotGrowth` |
| `SnapshotGrowthProofs` | theorems about the sizes of files | `SnapshotGrowth` |
| `SortedIndex` | what an index promises: pairs in order, with versions to go back to | |
| `NodeSizes` | the sizes of the nodes of a bulk load | |
| `BTree` | the tree, its changes and its pages | `NodeSizes`; implements `SortedIndex` |
| `MCBTree` | three keys, two pointers | `BTree` |
| `Recursion` | a function defined by recursion on the numbers exists; induction for a set of numbers | |
| `BTreeProofs` | theorems about nodes, trees, pages and `SortedIndex` | `BTree`; instances of `Recursion` |
| `Predicates` | WHERE clauses and their evaluation | |
| `Rows` | schemas, the checks of a row, assignments | `Predicates` |
| `Relations` | what statements promise: sets of rows with keys | `Rows` |
| `Dml` | statements on pages, records and indexes, and the plans of their clauses | `Rows`; implements `Relations` |
| `Query` | order, pages, groups and joins of SELECT | `Dml` |
| `DmlInv` | `DmlInvariant`, what holds in the middle of a statement too | `Dml` |
| `MCDml` | tables of two columns | `Query`, `DmlInv` |
| `DmlProofs` | `DmlInvariant` is inductive: keys, indexes and plans; `Dml` implements `Relations` | `DmlInv` |
| `QueryProofs` | theorems about order and pages, joins and groups | `Query`, `DmlProofs` |
| `Lexer` | texts and their tokens | |
| `Parser` | the rules of the parser, the statements that it builds | `Lexer` |
| `Errors` | how statements end | |
| `Binder` | which names a statement may use, how it can end, EXPLAIN | `Parser`, `Errors` |
| `Cli` | the REPL, scripts and dot commands on a database, for any statements | `Lexer`, `Errors` |
| `CliProofs` | theorems about what the program reads, its semicolons and its end | `Cli`, `Recursion` |
| `FrontEnd` | `Cli` with the statements of `Parser` and `Binder`; what all four promise, with reference definitions | `Cli`, `Binder` |
| `MCFrontEnd` | two tables and nine kinds of input | `FrontEnd` |

### WriterLock

A client is a handle; `ThreadOf` and `ProcOf` place it. `registry` is the set
of processes whose `_ACTIVE_WRITERS` has the path, `flock` the client whose open
lock file holds the lock. `CheckRegistry` and `Register` are the two halves of
`_acquire_same_process_writer`, apart because there is no mutex. `Lock`,
`Sleep`, `Wake` and `Expire` are the loop of `acquire_exclusive`; time is the
number of polls, and a sleep may take longer than asked for (`Wake` advances
by any amount up to the timeout). `GiveUp` is the handler of the `ConcurrencyError`.
`Unregister` and `Unlock` are `_release_writer` in its order. `StartRecovery` is
an open that found a marker: it consults the registry but does not enter it.
`Interrupt` is a `KeyboardInterrupt` in `time.sleep`; `Crash` ends a process.
The calls of one thread do not overlap, which is what `ThreadIsFree` says.

The refinement of `SingleWriter` maps its owner to the client between acquiring
and releasing the sidecar lock.

### Transactions

The file is a record: the records of the header, its marker, its size and its
pages. A row, a deleted row and a persisted index keep an abstract value; a run
of snapshot pages is one page that refers to the copy (`snaps`). Every handle
has the header in memory (`mem`), the copy to roll back to (`undo`), and a
savepoint. Each action is one write of the file, or what lies between two:

| Action | Code |
|---|---|
| `Open`, `RecoverLock`, `RecoverTimeout` | `StorageManager.__init__`, `_recover_incomplete_transaction` |
| `Begin`, `AppendSnapshot`, `WriteMarker`, `MarkerTooLarge` | `TransactionManager.begin`, `_begin_transaction_recovery_snapshot` |
| `StatementStart`, `StatementOk`, `StatementFail`, `Interrupt` | `TransactionManager.statement` |
| `InsertRow`, `DeleteRow`, `UpdateRow`, `PersistRecords`, `PersistIndex` | the writes of `TableStore` and `BTreeIndex` |
| `InterruptedWrite` | a `KeyboardInterrupt` between the page of a row and its record in memory, in `TableStore.insert` and `delete` |
| `InitTableStore` | `TableStore.__init__` for a table without records, in any statement |
| `Commit`, `Rollback`, `RestoreWrite`, `RevertTruncate`, `RestoreTruncate` | `commit`, `rollback`, `close`, `_restore_file_snapshot` |
| `CommitFail`, `RestoreFail` | the same when the operating system refuses a write: the `finally` of `commit` and `rollback`, the exception in `statement` and in the constructor |
| `Crash`, `TornCrash` | the death of a process, between writes or in a restore |

The writer lock is the atomic one of `SingleWriter`. Six constants choose what
the environment does: `Overlap` (several handles open at once), `ReadAhead` (a
file object that buffers more than a page, as CPython's does), `TornWrites`,
`EmptyTable`, `Interrupts` and `IOErrors`. With `EmptyTable` the catalog has tables without records,
and the table of the model starts as one of them, so that any statement may write the header from memory
(`InitTableStore`); otherwise it starts with a row. A list of records never becomes empty
again, since `delete` only marks them, so that a table that has had a row is out of reach
of that write for good. A page of a row and its record in memory change in one step, except
where a `KeyboardInterrupt` comes between them, which nothing else could tell apart. A write that
fails with `IOErrors` may have written any part of the image that it restores; what is in
memory stays as it was. `MaxCrashes` bounds crashes and failing writes together.

The refinement of `AtomicStore` maps the durable content to the rows that opening
the file *now* would restore, and the work of a transaction to what its handle
reads between statements. The index is not part of it: `IndexChangesByCommitOnly`
is about that.

### SnapshotGrowth

Numbers of pages and of header bytes, to the byte: the copy of *n* pages takes
⌈4096·n / 4092⌉ pages, the marker lists their ids as decimal JSON numbers. The
actions are the statements and the ends of a transaction, with the header bytes
and pages that each adds. The sizes agree with the program: for `t(id INT)` both
give 1, 3, 8, 18, 38, 78, 158, 318, 638, 1278 pages and then a refused `begin`.

### BTree

`root` is the tree, `order`, `generation` and `nextSequence` the other fields of a
`BTreeIndex`, `pages` the index's own pages in the file. `Insert`, `Delete` and `Build` are
the methods of those names; each ends in `Persist`, which appends the whole tree as a
page. `Reopen` is the constructor: it may find fewer pages, because a transaction was
rolled back. A change that cannot be written raises an error and its object is
dropped, which again is `Reopen`. The file may start with a page of the older format,
a list of entries without a tree. `Tree[h]` is the set of trees of up to `h` levels. What a
method does to one node is an operator of the node and of what was done to its children
(`WalkNode`, `InsertNode`, `DeleteNode`), and the method is a function defined by recursion
on the number of levels, so that it can be proved about. A bulk load cuts a level into parts
of the sizes of `NodeSizes`.

The refinement of `SortedIndex` maps the tree to the sequence of its pairs, and the file to
the sequence of what a reader would have loaded after each change.

### Dml and Query

The pages of rows, the records of each table and the entries of each index are the state;
an index is a set of entries here, which is what `BTree` shows it to be. The actions
are the writes that an executor method makes, one row at a time:

| Action | Code |
|---|---|
| `CreateTable`, `DropTable` | `_execute_create_table` with an empty `build` for each index, `_execute_drop_table` |
| `InsertRow`, `UpdateEntries` | `TableStore.insert`, `_insert_index_entries` |
| `Start` | the matched rows of `_execute_update`, `_execute_delete` |
| `UpdateRow`, `UpdateEntries` | `TableStore.update`, `_update_index_entries` |
| `DeleteEntries`, `DeleteRow` | `_delete_index_entries`, `TableStore.delete` |
| `StatementOk`, `StatementFail` | the two ends of `TransactionManager.statement` |

A statement fails when a constraint leaves no other step, and may fail anywhere else,
which is a page that gets too large. `Matching` is `_matching_rows`: the
leftmost term of the clause that an index can answer is looked up, what it leads to is
read if it is live and of the same table, and the whole clause is evaluated on it.

`Relations` knows none of this: it evaluates the clause on every row and changes all
selected rows in one step. A table is mapped to what it was when the running statement began.

`Query` has SELECT as operators on the same state, so that what it promises is
checked in every state that statements reach. What the code does in a loop, one sort for each column or
one source of a join after the other, is a function of the number of passes.

### Lexer, Parser, Binder and Cli

A text is a sequence of pieces: a word, a run of digits, or a single character of any other
kind. Words and numbers that follow each other are written with a blank between them.
`Tokens` is `tokenize`: `Lex` is its loop, piece by piece, and `TokenAt` says which token begins at
a piece; the class of a token is its kind, or what it is for keywords,
operators and numbers. `NamesAssumption` is what the character classes of the lexer come to:
nothing is a word and a number, and no name or number is one of the other characters.

The methods of `_Parser` look at the current token only and never go back, so each is a *rule*,
the sequence of what it expects: a token of some classes, another rule, an optional part, a
repetition, a choice. `Items` reads tokens as rules say and gives the tree of what it followed;
`StatementOf` builds the statement, as `ast.py` has it, from the tree.

`Binder` is about names: `ResolveColumn` and what calls it for joins, `ValidateExpression`
for one table. It knows which columns a table has and whether it has rows, and not their
values; what depends on values is left open, so that a statement has a *set* of ends. A
comparison by order may fail, `AND` and `OR` may not need their right side, a stored row may
violate a constraint. The set is larger than what any one file allows, and the properties are
about all of it. `Explained` is `PlanExplainer`.

`Cli` is the process: `Type` and `EndInput` are whoever writes the input, phrase by phrase.

| Action | Code |
|---|---|
| `RunCommand`, `Quit`, `SkipLine`, `BufferLine`, `RunStatement`, `EndRepl` | the branches of the loop of `run_repl`, each for one line |
| `ReadStatements` | `main` for `--script` (with `split_script`) and `--execute` |
| `ExecuteNext`, `FinishStatements` | the loop of `execute_statements`, and its end |

What a statement is, how it may end and what it leaves are constant operators of `Cli`
(`ParseSql`, `ResultsOf`, `ExplainStatement`), to which `FrontEnd.cfg` gives the definitions of
`Parser` and `Binder`; the theorems about `Cli` hold for any. `MayGoOn` says after which texts
whoever writes an argument of `--execute` goes on.

The database is its tables and, in an explicit transaction, the tables at its start; a statement
that fails leaves the tables that it found (`TransactionManager.statement`); leaving
the `with` of `main` closes it, also after an exception that is not a `TinyDBError`.

The translation was compared with the program on every history of the run `frontend`: the same
tokens, statements, output and exit codes, with the program's result always among the ends that
the model allows.

## What is checked

| Run | Bounds | Properties |
|---|---|---|
| `lock_single` | 3 handles, 2 processes of one thread; timeouts 0, 2, none | `RegistryNotLeaked`, `SameProcessConflictIsImmediate`, `NoSelfWait`, `FiniteWaitsEnd` |
| `lock_threads` | the same with 2 threads in a process, interrupts | `MutualExclusion`, `NoOrphanLock`, `ImplementsSingleWriter` |
| `tx_solo` | 1 handle, 5 pages, 2 transactions, 2 crashes | `SoloInv`, `ImplementsAtomicStore`, `OnlyCompletedStatementsCount`, `RowsReadable`, `BeginsFromCommitted` |
| `tx_overlap` | 2 handles, 4 pages, 2 transactions, 2 crashes or failing writes, torn writes, interrupts; a table with a row | `RecoveryOnlyAfterCrash`, `AlwaysRecoverable`, `OnlyTheOwnerWrites` |
| `growth` | 3 rows, no index, files up to 4000 pages | `AtMostNineTransactions`, `CommitDoublesTheFile` |
| `btree` | keys 1 to 3, 2 pointers, orders 3 and 4, batches of 0, 4 and 12, a page of the old format, 3 pages | `WellFormed`, `ImplementsSortedIndex` |
| `dml` | 1 table of 2 columns, 3 schemas, 3 pages, 2 integers, NULL and a text; 10 clauses, 4 assignments | `DmlInvariant`, `IndexesAgree`, `KeysAreUnique`, `IndexScanMatchesTableScan`, `ImplementsRelations`, `OrderIsLexicographic`, `GroupsAddUp`, `JoinsAreComplete` |
| `frontend` | 2 tables, one of them empty; 9 kinds of input of 4 to 7 phrases | `StatementsAreReadOnce`, `SemicolonsAreTheLexers`, `PredicatesAreReadAsWritten`, `NothingIsLost`, `JoinColumnsAreCertain`, `SchemaIsExecutable`, `EndKeepsWhatWasCommitted`, `ExitCodeIsRight` |

Each run with a `TypeOK` checks it too. `AlwaysRecoverable` is
proved of one handle. With two it holds while every table has records, as in `tx_overlap`; where one
has none it fails, which `tx_unopenable` shows. `OnlyTheOwnerWrites` is proved of any handles and any tables:
it names the one write without the lock that there is, the header that `TableStore.__init__` writes for a table without
records, and says that it changes nothing but the header. The other runs of `PROJECT.json` expect a
violation; they are described [below](#what-the-checks-found).

Why the bounds are enough. Two processes, one of them with two handles, give every
pair that the lock distinguishes: same thread, same process, other process; the
three timeouts are the three branches of the deadline test. In `tx_solo`, two transactions
let one find what the other left, and two crashes let a recovery die and be
repeated; five pages hold a row, an index and the copies of both transactions. A third
handle in `tx_overlap` could only do what one of the two does; four pages hold the row, the copies
of both transactions and one more row or index. The properties of
`tx_overlap` do not read the values of rows, so one value is enough there; the two handles are
alike, so their exchange is a symmetry. Two faults let a failed commit or rollback be
followed by the crash, or the failure, of the recovery that it needs. `growth`
begins no transaction in a file of more than 4000 pages, and the marker stops
fitting at less than 1023.

In `btree`, orders 3 and 4 are the smallest of each parity; a batch of 12 fills the nodes of
a tree of order 3, so that the next insertion splits every level up to a new root. Three
pages are three changes in a row, or two after an old page. In `dml`, three rows let an update
fail after two, or meet a key of a changed and of an unchanged row; two integers and NULL give
all the results of comparing. The clauses are one for each branch of the planner: none, equality
and ranges, the literal on the left, an eligible term first or second, an OR, `!=`, NULL, a literal of
another type, two columns.

The inputs of `frontend` each turn around one part: quotes, semicolons, line ends and commands
(`lines`, `script_text`, 5 and 6 pieces: enough for a string with a doubled quote, or with a
semicolon, and a statement after it); whole statements with transactions, errors, commands and a
missing end (`statements`, `script`); every piece of a WHERE clause (`predicate`), and whole
comparisons with AND, OR and parentheses (`predicates`, up to four comparisons); the clauses of
SELECT in all orders (`clauses`); joins of two and three sources, with a table joined with itself
(`joins`); and the statements that change tables (`changes`). A phrase is added only to a text that can
still become a statement (`IsViable`), except in the REPL and in scripts, where any text may follow any
other: what follows a refused beginning cannot make it a statement. The input is finite, so there
is no liveness to state: that the program is never stuck before it has ended is the absence of
deadlock, since only `Stay`, in the states where it has ended, does nothing.

Deadlock is checked in every run.

Fairness. Only `FiniteWaitsEnd` needs it: weak fairness of the steps a thread takes
inside a call (`Register`, a poll, `GiveUp`, `Unlock`), which is the scheduling of a
runnable thread. Nothing makes a client begin or end a transaction: the wait must
end even if the holder keeps the lock. The safety runs assume no fairness
(`lock_threads` uses the same `FairSpec`, where it changes nothing).

## What the checks found

Each of these is a run with one property, for which TLC finds a behaviour of the
code that breaks what a document of the repository says. All of them were also
reproduced on the program itself.

* `tx_lost_update` — `begin` does not read the header again. A handle that was open
  while another committed writes its older records over the newer ones: the rows of
  the other are lost.
* `tx_residue` — a restore writes the old content, whose header has no marker, and
  truncates afterwards. After a crash in between, index pages of the discarded
  transaction are found by `BTreeIndex._load`, which takes the last one in the file.
* `tx_unopenable` — `SELECT` on a table without rows writes the header from memory,
  with no lock. If that memory has the marker of a transaction that was recovered
  since, the file gets a marker without a copy, and cannot be opened any more.
  The write is in the model also without any fault: while one process is in a
  transaction, a `SELECT` of another on a table without rows changes the header, for which
  `specs/concurrency-control/spec.md:7` allows one writer only and `OnlyTheOwnerWrites` makes its exception.
  If the reader opened the file before the transaction began, it erases the marker, and a crash of
  the writer then leaves what it had written so far.
* `dml_shared_index` — the index of column `c` of table `a_b` and that of column `b_c` of
  table `a` have the same name. Creating the second table empties the index of the first, and
  `SELECT` with `c = 1` finds nothing that a full scan would find.

More things the model shows that have no run of their own. In transactions:

* A handle that is open reads rows that a transaction of another has changed in place and not
  committed (`specs/concurrency-control/spec.md:47` asks for the last committed state or an error).
* When the write of a commit fails, the transaction is over for its handle, and the lock is free,
  but the marker is still in the file: another handle that opens it rolls the transaction back. The
  handle itself still has its rows in memory, and they become durable with its next commit.
* When the undoing of a failed statement fails, the transaction goes on with what the statement
  had written so far, and can be committed.
* Recovery reads the header a second time under its lock, but the buffered file object
  answers with what it read the first time. A transaction that committed in between is rolled
  back (`RecoveryOnlyAfterCrash` fails in `TransactionsOverlap.cfg` with `ReadAhead = TRUE`).
* A restore starts with the header, without the marker. If the process dies before the rest
  is written, the rows of the discarded transaction stay (`ImplementsAtomicStore`, and already
  `RowsReadable`, fail in `TransactionsSolo.cfg` with `TornWrites = TRUE`).
* `WHERE d = 'text'` on an INT column is an error if an index answers it and no row if a scan
  does; and `WHERE d > 1 AND c = 1` is an error in a scan that meets a NULL in `d`, but not
  through the index of `c`. `IndexScanMatchesTableScan` is therefore about rows, where there are any.
* With two threads, `_ACTIVE_WRITERS` is tested by both before either adds to it
  (set `ThreadOf` to `TwoThreadsOf` in `WriterLockSingle.cfg`): the second waits for the
  sidecar lock, and a release by the first takes the entry of the second. If one of the two gives up, the
  other is in a transaction without an entry; when its thread then opens the file again, it waits for its
  own lock (`NoSelfWait` fails with two handles of one thread and one of another).
* With `Interrupts = TRUE`, a `KeyboardInterrupt` during the wait leaves the entry in the
  registry: `RegistryNotLeaked` fails, and the process refuses every later writer.
* A `KeyboardInterrupt` in a write statement leaves its implicit transaction, and the lock,
  with the handle; one in the middle of a delete, before or after the record in memory has changed,
  leaves a record without a row (`RowsReadable` fails in `TransactionsSolo.cfg` with `Interrupts = TRUE`).
* `specs/storage-engine/spec.md:21` says that pages are managed "rather than rewriting
  the whole database for every row operation"; every transaction appends a copy of the
  whole file to it, so that nine transactions exhaust a file (`growth`).

In the front end and the command line:

* `SELECT ... FROM t ORDER BY t.a` ends the program with a traceback, because a qualified name has
  no attribute `name` (`executor.py:282`; `specs/cli-repl/spec.md:22` asks for errors without
  tracebacks). `EndKeepsWhatWasCommitted` covers this end of the program with the others.
* Qualified names in the other clauses of a query of one table are not looked at: they are an error
  if there are rows to evaluate them on, and accepted if there are none.
* `GROUP BY` is ignored in joins, whatever it names (`specs/sql-interface/spec.md:59` wants
  unsupported features rejected instead of silently accepted).
* `WHERE (a) = 1` is refused: a parenthesis at the start of a comparison is taken for
  that of a predicate.
* `SELECT 1; SELECT 2` on one line of the REPL is run as one text, which is a `ParseError`.
* A line that starts with a dot is a command also between the lines of a statement, and inside a
  string that goes over several lines: the string then lacks it.
* `.exit` works without an argument only, unlike `.quit`.
* `.explain` gives plans for statements that are refused when they are executed, for columns that do
  not exist for instance.

## What is proved

All theorems are checked by TLAPS, for every value of the constants that meets
the named assumptions of the modules.

**The lock** (`WriterLockProofs`). `LockIsNotLeaked` and `LockExcludes` rest on one
inductive fact: `flock = c` exactly when `c` is between acquiring and releasing. Mutual
exclusion owes nothing to the registry, so it holds with any number of threads. `SelfWaitNeedsARace` and `ConflictNeedsARace` are about the registry, with any number of threads
too. Both take as a hypothesis on the behaviour (`TestAndAddAreOne`) that nobody enters the registry
while its process has an entry, which is what a mutex around `file.py:41-49` would give; the code
has none. So they do not say that a thread never waits for itself or that a second writer never gets
past the registry, but that this one race is all that it takes, and that nothing else
does it: no timeout, recovery, crash or interrupt. The invariant (`RegistryInv`) is that the entry of a writer is there
until that writer removes it, because in a process at most one client is between its entry and
its release, and that a thread that recovers has no transaction. `OneThreadDoesNotRace` shows the hypothesis
for programs with one thread per process, whence `ConflictIsImmediate` and
`NoThreadWaitsForItself`, under that assumption. `RegistryIsNotLeaked` needs neither, only `~Interrupts`: whoever leaves the registry takes out the entry of its own
process, so every entry that stays has kept its writer. `LockImplementsSingleWriter`
maps every step to a step of `SingleWriter` or a stutter.

**Recovery** (`TransactionsProofs`), for any number of overlapping handles, crashes, torn
writes, interrupts and failing writes. `RecoveryTheorem`: who finds a transaction to recover, when it has
the lock, finds one whose process has died or whose commit or rollback has failed; it assumes
`~ReadAhead`, without which the statement is false. While nothing has failed, a file
whose lock is free has no marker (`LiveInv`), so that a handle that waited for the lock reads a
header without one and recovers nothing. Every fault increases the counter of the statement
(`FailuresAreCounted`), after which nothing is left to show.

`OwnerWrites` proves `OnlyTheOwnerWrites` with no assumption: any number of handles open at the same
time, crashes, torn and failing writes, interrupts, tables without records. The invariant is that a handle is in
a state between `acquire` and `release` exactly if it owns the lock (`OwnerHasLock`); what changes the file is
then either such a state's step or `InitTableStore`.

**Transactions, one handle at a time** (`TransactionsProofs`; `~Overlap`, `~IOErrors`; any number of crashes, torn
writes, interrupts, empty tables). `SoloInv` (in `TransactionsInv`) says, for every state of a
handle, how file, memory, images and copy are related: outside a transaction memory and file
have the same records and no marker; inside one, the copy that the marker leads to equals the
image in memory; while an image is being written back, either the marker and the copy are still
there or the file is a longer version of the image. Without the last part a crash within a
recovery could not be passed. `SoloInvariant` proves it inductive;
`SoloRecoverable` and `SoloBeginsFromCommitted` follow.
`SoloImplementsAtomicStore` proves, under `SoloInv` and without torn writes, that every step is
a step of `AtomicStore` or a stutter. The assumptions are what the counterexamples
above make necessary: with overlapping handles, torn or failing writes the statement is false.

`SoloStatementsAreAtomic` proves `OnlyCompletedStatementsCount`: whatever writes
of rows, records and indexes a statement has made when it fails, the work of the transaction is then
what it was when the statement began. `WorkInv` adds to `SoloInv` that between writes the header in memory
has the records of the file, and that a statement without a savepoint is one that began its own
transaction, so that its failure ends the transaction too. The theorem assumes, besides, `~Interrupts`:
an interrupted statement stays half done in its transaction.

`SoloRowsReadable` proves `RowsReadable` from a second invariant on top of
`SoloInv`. `ReadableInv` says that every record leads to a live row in the file outside a
transaction, in each copy, in each image and, inside a transaction, in memory. In the middle of a
statement the file itself need not meet it, because a row that is deleted loses its page before its
record is gone from the header; then the copy is what opening the file reads. `~Interrupts`
keeps a delete whole, and `~TornWrites` a restore.

**Sizes** (`SnapshotGrowthProofs`). `NineTransactionsExhaust`: no file commits a tenth
transaction, for every table, number of indexes and rows. The invariant bounds the file from
below by 2^(c+1) − 1 pages after c commits; with 1023 pages the ids of the copy alone
take more than the header page (`MarkerOf` lemma), and no step makes the header shorter than its
live records allow. `CommitDoubles` is the step version.

**The B-tree** (`BTreeProofs`), for any keys, pointers, batches and old pages, every order that the
constructor accepts (three or more) and trees of every height.

* `AlwaysWellFormed` proves `WellFormed`: all leaves have the same depth, separators are the
  largest keys to their left, entries are in order, and every node but the root is within both
  bounds. It follows from `InductiveInvariant`. `IInv` says of the tree in memory *and of the tree on each page of the file*
  that it is right for its order and that its sequence numbers are unique and below the next one
  that goes with it (`Held`), because a rollback may bring back any of them; and that generations
  ascend from page to page, so that the page with the largest is the last one that is left.
* What a method does to a tree of any height is proved by induction on the number of levels.
  The induction hypothesis for an insertion is `Grown`: one or two right trees of as many levels as before,
  apart, with the entries that there were and the new one, and large enough if the node was.
  The new entry has the largest number of all, so `ChildFor` leads
  to the child where it belongs also when its key equals a separator. For a deletion it is
  `Left`: what is not meant remains in order, although the tree that remains is neither balanced nor within
  its bounds until it is loaded in bulk. For a bulk load it is `Level`, a row of right trees that are apart and
  large enough; the level above has fewer of them, so the loop ends with one.
* `BulkLoadKeepsBounds`: the sizes that `_balanced_sizes` computes lie between the minimum and
  the maximum of the node, but for a root; its loop that takes a node away never runs,
  because twice the minimum is at most one more than the maximum. `NodesCoverEverything`: the
  parts lie side by side and end with the last entry.
* `TypeCorrect` proves `TypeOK`, whose point are the sequence numbers.
* `IndexIsSorted` proves `ImplementsSortedIndex`: each step of the index is one of `SortedIndex`.
  What a tree contains is a set of entries, and an ascending sequence is determined by the set of
  its elements (`AscendingUnique`), so that what an insertion or a deletion makes of the walk follows from what it makes
  of the set. Equal keys stay in the order of their insertion because new
  numbers are larger than all there are.

A function that is defined by recursion need not exist, as far as the provers know. `Recursion` shows
that it does, from the well-foundedness of the numbers, for any step that ignores what is
below zero; `BTreeProofs` has an instance of it for each of its recursive functions (`TreeRule` to `DeleteRule`).
`Induction` there is about sets of numbers, as the provers cannot instantiate a predicate.

**Statements** (`DmlProofs`), for any tables, schemas, clauses, rows and number of pages.
`KeysTheorem`: between any two steps of a statement the live rows of a table have the keys that
its schema wants, no two of them the same; `Typing` is about types. `StoreInv` strengthens this:
records lead to pages with rows, no two tables share a page (or the update of one would
change a row of the other), a table that does not exist has no records, and the rows that a
statement has still to do are live. All of it is said of the savepoint as well, because
a statement that fails returns to it. `IndexesTheorem` assumes `OwnIndexes`, that no two columns
share the name of an index: then an index has exactly the entries of the live rows of its
table. In the middle of a row this is false, so `AgreeInv` states it for `Seen`, the rows as they
are before the change that the index has not followed yet (or, in a DELETE, after the
change that it anticipates). The `ReindexedAgree` lemma carries it over a change of the entries of
one row, `SameEntries` over a change of pages that `Seen` hides. `StoreInv`,
`AgreeInv` and `ProgressInv` (below) together are `DmlInvariant`, which the run checks and `DmlInvariantTheorem` proves.
`PlansTheorem` is about what a plan finds: a row that a clause selects satisfies each of its
terms that an index can answer (`CandidateIsSatisfied`: short circuits, `NULL`, and the literal on the
left), and by `DmlInvariant` the index of the term that the planner takes has an entry of that row. It
needs that clauses are well-formed (`WheresAssumption`), whatever their length. Without `OwnIndexes` the
statement is false (run `dml_shared_index`).

`RelationsTheorem` proves that `Dml` implements `Relations`, under `OwnIndexes`. A table is mapped to the
rows that it had when the running statement began, so the steps in the middle of a statement are
stutters and its end is one step of `Relations`; a failure is a stutter, because what the savepoint
keeps shows the same rows. That the end of an UPDATE or DELETE has changed *all* selected rows,
as *one* evaluation of the clause on the rows at the beginning chose them, is not in `StoreInv`:
`ProgressInv` says that the pages and records are those of the savepoint, with the rows that are done changed and
those still to do untouched, and that the two together are what the clause selects there. `PlanFindsSelected`, the
lemma behind `PlansTheorem`, turns what the plan found into what the clause selects. Without `OwnIndexes`
this too is false: the plan may not find a row.

**SELECT** (`QueryProofs`), on any state that statements reach. That state is described by `StoreInv`,
from which these theorems take that rows have values of their columns and that no table has a record twice.

* `OrderTheorem`. Sorting is by rank: the place of an element is the number of those that are less. The ranks
  in a total order of *n* elements are 1 to *n* (`RankHasElement`, by counting), and the places of a sequence
  are in such an order when equal elements keep their order (`BeforeIsTotal`); so a sort loses and
  repeats nothing and is stable (`StableSortKeeps`). The invariant of the passes (`OnePass`) is that
  after *k* of them no row precedes one before it in the order of the last *k* columns: the pass of
  the column before them separates rows that differ in it, and stability keeps the others. Pages:
  `PagesAreAdjacent`, for any offset and limit. It needs that ORDER BY names columns (`OrderingsAssumption`).
* `JoinsTheorem`. After *k* loops the rows are the combinations of rows of the first *k* sources for which those
  predicates hold whose sources are among them (`ExtendedCombinations`): a row that is
  dropped is the front of no combination (`FrontMatches`), and two combinations that differ do so in the front or in
  the row that is added. When all sources are there, all predicates can be evaluated, because they name sources
  of the join (`JoinsAssumption`).
* `GroupsTheorem`. Each place has exactly one key, and so one group (`GroupsPartition`). Sizes of the parts of a
  set add up (`CountsAddUp`). For sums, one more value is added to one group and to the whole
  (`OneMoreValue`, since values may be added in any order), and `SumsAddUp` goes from no values to all of them.
  Sums are exact here: they are of integers, which the program adds before it converts them to a float.

Loops are functions of the number of passes; that such a function exists, and what it has at each pass, is shown for
each of them (`PassesExist`, `LoopsExist`, `SumsExist`) by the induction of `InductionUpTo`, which is about a
set of numbers.

**The end of the program** (`CliProofs`), for any input, any reading of statements and any results
of them. `CommittedTheorem` proves `EndKeepsWhatWasCommitted`, which defines what was committed
from the *history* of statements: what the last one left after which no transaction was open.
`CommittedInv` relates the history to the database that is open: outside a transaction (where the last
statement of the history left none open) its tables are those, and inside one the tables that it
will return to are. `ExitTheorem` proves `ExitCodeIsRight` from `ExitInv`: a
script that still runs has only statements behind it that ended well, and one that ended with an error
has no other error before its last statement.

**What the program reads** (`CliProofs`), for any input and any reading of statements.
`ReadOnceTheorem` proves `StatementsAreReadOnce`: the texts of the statements that were executed,
of those of the script that are still to run and of the buffer, one after the other, are all that was read,
up to blanks and semicolons. `ReadInv` adds that only the REPL has a buffer and only a script
has statements to run. Its steps are the code's: a line goes into the buffer but for its end
(`BufferedKeeps`), a statement is the buffer but for what is stripped from it (`StripKeeps`), and a script is what
its statements are (`SplitKeeps`, whose loop invariant is `SplitUpTo`: what has been read of the script is in
the statements that have ended, and behind the last of them). That `Squeezed`, `AllSqueezed` and
`SplitScript` are functions, being recursive, is the theorem of `Recursion`; that squeezing goes text by text
(`SqueezedConcat`) is shown by induction on a set of numbers. The one assumption is that what is
typed are sequences of strings.

**Where statements end** (`CliProofs`), for any input and any names. `SemicolonsTheorem` proves
`SemicolonsAreTheLexers`: the statements that `split_script` makes of a script have the tokens that its
text has between its semicolons, if it can be read at all; what the REPL buffers has no semicolon that
is a token, and what it runs has one, or cannot be read. `CutInv` adds to `ReadInv` that the statements of a script are
what `split_script` made of it, that the buffer is not terminated and that what was run was. What is left is
about texts:

* *The two readers.* `cli.py` looks for quotes, the lexer for tokens, and they stay in step (`Agree`): both are in
  a string or neither is, except that the lexer takes two quotes in one turn. `LexRule` takes one piece, and `ReadersAgree` is
  its induction: wherever the text can be read, a semicolon ends a statement if and only if it is a token
  (`PieceRule`). `NoSemicolon` and `SomeSemicolon` are what the REPL needs of it.
* *Parts of a text.* `tokenize` reads a statement alone, and not in its script. That this makes no difference
  (`Embedded`) is because a statement ends before a blank, a semicolon or the end of the script, and none of
  them is part of what can be a longer token (`TokenAtSame`): what was a decimal number or `<=` in one
  text is so in the other. `SegmentTokens` adds the blanks that are stripped.
* *The script.* The loop of `split_script` and the groups of tokens, in step (`CutAs`, `CutStep`): the statements so
  far have the groups that have ended, and the tokens of the open group are those since the last cut.

The assumptions are those above and `NamesAssumption`.

Model-checked only, and why:

* `FiniteWaitsEnd`: liveness.
* `AlwaysRecoverable` with overlapping handles: it needs a bound on how they overlap that no
  inductive invariant found here expresses.
* What `FrontEnd` says of statements and names: the parser and the binder are RECURSIVE operators on
  rules and expressions, which the provers cannot use.

## What is not modelled

* An error of the operating system while `begin` appends its copy or while a statement writes
  its pages, a reordering of writes by the system, a torn write of the header page. A commit is
  modelled as one write, which succeeds or fails.
* The creation of the file (`storage/file.py:73`), where a second process can truncate what the
  first has just written, and the validation of a file that is not TinyDB's.
* In `Transactions`, several tables and indexes and the values of rows; in `Dml`, column
  types other than INT, WHERE clauses nested deeper than a conjunction of disjunctions, and
  readers of another handle in the middle of a statement.
* Keys of different types in one index, and the bytes of an index page, which limit its entries.
* The characters of words and numbers: Unicode digits and very long numbers, on which Python's `int`
  raises a `ValueError`; the depth of nesting at which Python stops a recursion; the case of words.
* The values of projections and AVG.
* Rendering, colours, help texts and error messages; the options of the program, and script or
  database files that cannot be opened. None of them has state that later behaviour depends on.

## Plan

The order is that of importance. Each module is written to be checked and, where the
provers reach, proved.

1. Done: the writer lock, transactions and recovery, the sizes of snapshots.
2. Done: the B-tree, and the sizes of bulk loads proved.
3. Done: statements on tables and indexes, the plans of clauses, SELECT as operators.
4. Done: the text of statements, names, the command line.
5. Done: failing writes at the end of transactions, proved for recovery; what plans find, proved.
6. The creation of the file by two processes; failing writes in `begin`.
7. Done: statements refine changes of sets of rows, statements are atomic, the end of the program; proved.
8. Done: order and pages, joins and groups of SELECT; proved.
9. Done: the B-tree as functions by height in place of recursive operators; well-formed, and a sorted index; proved.
10. Done: what the REPL and scripts read (`StatementsAreReadOnce`), proved.
11. Done: where statements end (`SemicolonsAreTheLexers`), proved.
