---------------------------- MODULE SortedIndex ----------------------------
(***************************************************************************)
(* What a BTreeIndex promises: pairs of a key and a pointer in the order   *)
(* of their keys, those of one key in the order of their insertion, and a  *)
(* version of them in the file after each change, to which a rollback and  *)
(* an opening of the index go back.                                        *)
(***************************************************************************)
EXTENDS Integers, Sequences, FiniteSets

CONSTANTS
    Keys,       \* integers that stand for keys of one type
    Pointers,   \* where rows are
    Batches,    \* the sequences of pairs that an index is built from
    Stored      \* what an index can contain that is already in the file

VARIABLES
    entries,    \* the pairs of the index
    versions    \* what the file has of it, the latest last

vars == <<entries, versions>>

Pair == [key : Keys, pointer : Pointers]

\* A new pair comes after those with its key.
With(s, x) ==
    LET n == CHOOSE n \in 0..Len(s) : \A i \in DOMAIN s : i <= n <=> s[i].key <= x.key
    IN SubSeq(s, 1, n) \o <<x>> \o SubSeq(s, n + 1, Len(s))

Without(s, k, ps) ==
    LET UpTo[i \in Nat] ==
            IF i = 0 THEN <<>>
            ELSE IF s[i].key = k /\ s[i].pointer \in ps THEN UpTo[i - 1]
            ELSE Append(UpTo[i - 1], s[i])
    IN UpTo[Len(s)]

\* What an index has that the pairs of s were put into, one after the other.
Sorted(s) ==
    LET UpTo[i \in Nat] == IF i = 0 THEN <<>> ELSE With(UpTo[i - 1], s[i])
    IN UpTo[Len(s)]

Latest(vs) == IF vs = <<>> THEN <<>> ELSE vs[Len(vs)]

Init ==
    /\ versions \in {<<>>} \cup {<<s>> : s \in Stored}
    /\ entries = Latest(versions)

Change(s) ==
    /\ entries' = s
    /\ versions' = Append(versions, s)

Insert(k, p) == Change(With(entries, [key |-> k, pointer |-> p]))

Delete(k, ps) == Change(Without(entries, k, ps))

Contents == {Sorted(b) : b \in Batches}

\* The index is built from a batch.
Build(s) == Change(s)

\* All but the first n versions are gone, as after a rollback.
GoBack(n) ==
    /\ versions' = SubSeq(versions, 1, n)
    /\ entries' = Latest(versions')

Next ==
    \/ \E k \in Keys : \/ \E p \in Pointers : Insert(k, p)
                       \/ \E ps \in SUBSET Pointers : Delete(k, ps)
    \/ \E s \in Contents : Build(s)
    \/ \E n \in 0..Len(versions) : GoBack(n)

Spec == Init /\ [][Next]_vars
=============================================================================
