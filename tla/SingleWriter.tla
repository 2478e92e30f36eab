---------------------------- MODULE SingleWriter ----------------------------
(***************************************************************************)
(* What the writer lock of TinyDB promises to the rest of the program: at  *)
(* any moment the database file has at most one owner, an owner gives the  *)
(* file up before another client gets it, and nobody takes it from a       *)
(* living owner.  The owner may also lose it by dying with its process.    *)
(*                                                                         *)
(* WriterLock is the protocol of tinydb/locking.py, tinydb/transaction.py  *)
(* and tinydb/storage/file.py that implements this.                        *)
(***************************************************************************)
CONSTANTS
    Clients,   \* the Database handles that may write or recover the file
    Nobody     \* the value of owner when the file is free

VARIABLE owner

Init == owner = Nobody

\* The file is free and c becomes its owner.
Acquire(c) ==
    /\ owner = Nobody
    /\ owner' = c

\* The owner gives the file up, or dies.
Release(c) ==
    /\ owner = c
    /\ owner' = Nobody

Next == \E c \in Clients : Acquire(c) \/ Release(c)

Spec == Init /\ [][Next]_owner
=============================================================================
