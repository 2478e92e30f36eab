------------------------------- MODULE Errors -------------------------------
(***************************************************************************)
(* How statements end: tinydb/errors.py.                                   *)
(***************************************************************************)

Ok == "ok"

\* What TinyDBError is the base of, and the CLI reports.
PublicErrors ==
    {"DatabaseError", "ParseError", "ExecutionError", "ConstraintError", "ConcurrencyError",
     "StorageError", "TransactionError"}
=============================================================================
