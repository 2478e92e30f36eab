-------------------------- MODULE MCSnapshotGrowth --------------------------
(***************************************************************************)
(* SnapshotGrowth for TLC: the table t(id INT) without an index, or with   *)
(* the one of t(id INT PRIMARY KEY).                                       *)
(***************************************************************************)
EXTENDS SnapshotGrowth

PlainTableBytes == 109   \* t(id INT)
=============================================================================
