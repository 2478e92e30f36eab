----------------------------- MODULE AtomicStore -----------------------------
(***************************************************************************)
(* What the transactions of TinyDB promise about one database file: there  *)
(* is a durable content; a transaction works on a private copy of it that  *)
(* replaces it in one step, at commit; whatever else ends a transaction -  *)
(* a rollback, a failed statement, the death of the process, at any        *)
(* moment - leaves the durable content as it was.                          *)
(*                                                                         *)
(* Transactions is the protocol of tinydb/transaction.py and               *)
(* tinydb/storage/file.py that implements this.                            *)
(***************************************************************************)
CONSTANTS
    Contents,         \* what a database can contain
    InitialContents,  \* what it may contain at first
    NoWork            \* there is no transaction

VARIABLES
    store,   \* the durable content: what opening the file would show
    work     \* the content as the open transaction sees it, or NoWork

vars == <<store, work>>

Init == store \in InitialContents /\ work = NoWork

\* A transaction starts from the durable content.
Begin ==
    /\ work = NoWork
    /\ work' = store
    /\ UNCHANGED store

\* A statement of the transaction.
Work ==
    /\ work # NoWork
    /\ work' \in Contents
    /\ UNCHANGED store

Commit ==
    /\ work # NoWork
    /\ store' = work
    /\ work' = NoWork

\* Rollback, close, or a crash.
Abort ==
    /\ work # NoWork
    /\ work' = NoWork
    /\ UNCHANGED store

Next == Begin \/ Work \/ Commit \/ Abort

Spec == Init /\ [][Next]_vars
=============================================================================
