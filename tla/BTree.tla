------------------------------- MODULE BTree -------------------------------
(***************************************************************************)
(* A B-tree index of TinyDB: BTreeIndex of tinydb/index/btree.py.          *)
(*                                                                         *)
(* A leaf has entries, an inner node has children and between them the     *)
(* largest keys of all but the last.  An insertion splits nodes that get   *)
(* too large; a deletion loads what remains in bulk.  Every change appends *)
(* the whole tree to the file as one page with a generation number, and    *)
(* opening the index looks for the latest generation.  A change that       *)
(* cannot be written is an error after which the index object is dropped,  *)
(* so that what follows is Reopen.                                         *)
(*                                                                         *)
(* Keys are integers here: the code compares keys of one type only, and    *)
(* tables check the types.  pages are the pages of this index in the file. *)
(*                                                                         *)
(* What the code does node by node is an operator here, like WalkNode, of  *)
(* a node and of below: what was done to nodes of fewer levels.            *)
(***************************************************************************)
EXTENDS NodeSizes, SequencesExt

CONSTANTS
    Keys,        \* the keys
    Pointers,    \* the RecordPointers
    Orders,      \* the orders an index may be created with
    Batches,     \* the sequences of keys and pointers for build
    LegacyPages, \* pages of the format before trees, a list of entries
    MaxPages     \* bound on the pages of the index

Entry == [key : Keys, pointer : Pointers, sequence : Nat]

\* Distinct entries have distinct sequence numbers.
Numbered(es) == IsInjective([i \in DOMAIN es |-> es[i].sequence])

ASSUME KeysAssumption == Keys \subseteq Int
ASSUME OrdersAssumption == Orders \subseteq Nat \ {0, 1, 2}
ASSUME BatchesAssumption == Batches \subseteq Seq([key : Keys, pointer : Pointers])
ASSUME MaxPagesAssumption == MaxPages \in Nat \ {0}
ASSUME LegacyAssumption == \A l \in LegacyPages :
    /\ l.kind = "legacy"
    /\ l.order \in Orders
    /\ l.generation \in Nat
    /\ l.entries \in Seq(Entry)
    /\ Numbered(l.entries)

VARIABLES
    order,         \* the largest number of children of a node
    root,          \* the tree
    generation,    \* the number of the last page written
    nextSequence,  \* the sequence number of the next entry
    pages          \* the pages of the index in the file

vars == <<order, root, generation, nextSequence, pages>>

-----------------------------------------------------------------------------
(* Nodes *)

Node(S) == [keys : Seq(Keys), entries : Seq(Entry), children : Seq(S)]

\* The trees of up to h levels, a leaf being one.
Tree[h \in Nat] == IF h = 0 THEN {} ELSE Node(Tree[h - 1])

\* The levels of a tree.
Height(n) ==
    LET From[h \in Nat] == IF n \in Tree[h] THEN h ELSE From[h + 1]
    IN From[0]

Empty == [keys |-> <<>>, entries |-> <<>>, children |-> <<>>]

IsLeaf(n) == n.children = <<>>

\* Compare entries: by key, and by sequence number among equal keys.
Precedes(e, f) == \/ e.key < f.key
                  \/ e.key = f.key /\ e.sequence < f.sequence

\* Sequences one after the other.
Concat(ss) ==
    LET UpTo[i \in Nat] == IF i = 0 THEN <<>> ELSE UpTo[i - 1] \o ss[i]
    IN UpTo[Len(ss)]

\* The entries of a tree from left to right.
WalkNode(n, below) ==
    IF IsLeaf(n)
    THEN n.entries
    ELSE Concat([i \in DOMAIN n.children |-> below[n.children[i]]])

WalkAt[h \in Nat] == [n \in Tree[h] |-> WalkNode(n, WalkAt[h - 1])]

Walk(n) == WalkAt[Height(n)][n]

MaxKey(n) == Last(Walk(n)).key

SeparatorKeys(cs) == [i \in 1..(Len(cs) - 1) |-> MaxKey(cs[i])]

MakeLeaf(es) == [keys |-> [i \in DOMAIN es |-> es[i].key],
                 entries |-> es, children |-> <<>>]

MakeInternal(cs) == [keys |-> SeparatorKeys(cs), entries |-> <<>>, children |-> cs]

-----------------------------------------------------------------------------
(* Bulk load *)

\* s in consecutive parts of sizes between min and max.
Parts(s, max, min) ==
    LET n == NodeCount(Len(s), max, min)
        Part(i) == LET o == NodeOffset(Len(s), n, i)
                   IN SubSeq(s, o + 1, o + NodeSize(Len(s), n, i))
    IN [i \in 1..n |-> Part(i)]

\* The level on top of level, or level itself if that is one node.
Above(level, o) ==
    LET parts == Parts(level, o, MinChildren(o))
    IN IF Len(level) = 1
       THEN level
       ELSE [i \in DOMAIN parts |-> MakeInternal(parts[i])]

\* Levels are put on top of level until one node is left, which takes fewer steps
\* than there are nodes.
Grow(level, o) ==
    LET Level[k \in Nat] == IF k = 0 THEN level ELSE Above(Level[k - 1], o)
    IN Level[Len(level)][1]

Leaves(es, o) ==
    LET parts == Parts(es, MaxLeafEntries(o), MinLeafEntries(o))
    IN [i \in DOMAIN parts |-> MakeLeaf(parts[i])]

BulkLoad(es, o) == IF es = <<>> THEN Empty ELSE Grow(Leaves(es, o), o)

-----------------------------------------------------------------------------
(* Insertion and deletion *)

\* The first of the places, or the one after s.
FirstOf(places, s) == Min(places \cup {Len(s) + 1})

\* After the entries that do not follow e.
InsertPosition(es, e) == FirstOf({i \in DOMAIN es : Precedes(e, es[i])}, es)

\* Mutant: goes left of a separator that equals the key.
ChildForMutant(keys, key) == FirstOf({i \in DOMAIN keys : ~(key > keys[i])}, keys)

\* Past all separators that are not larger than the key.
ChildFor(keys, key) == FirstOf({i \in DOMAIN keys : ~(key >= keys[i])}, keys)

Inserted(es, e) == InsertAt(es, InsertPosition(es, e), e)

\* sorted() of entries, whose sequence numbers are unique.
Sorted(es) ==
    LET UpTo[i \in Nat] == IF i = 0 THEN <<>> ELSE Inserted(UpTo[i - 1], es[i])
    IN UpTo[Len(es)]

\* A leaf or an inner node, or the two halves where it has become too large.
SplitLeaf(es) == LET half == Len(es) \div 2
                 IN <<MakeLeaf(SubSeq(es, 1, half)),
                      MakeLeaf(SubSeq(es, half + 1, Len(es)))>>

SplitInternal(cs) == LET half == Len(cs) \div 2
                     IN <<MakeInternal(SubSeq(cs, 1, half)),
                          MakeInternal(SubSeq(cs, half + 1, Len(cs)))>>

LeafOrTwo(es, o) ==
    IF Len(es) <= MaxLeafEntries(o) THEN <<MakeLeaf(es)>> ELSE SplitLeaf(es)

InternalOrTwo(cs, o) ==
    IF Len(cs) <= o THEN <<MakeInternal(cs)>> ELSE SplitInternal(cs)

\* What takes the place of child i.
Replaced(cs, i, ns) == SubSeq(cs, 1, i - 1) \o ns \o SubSeq(cs, i + 1, Len(cs))

InsertNode(n, e, o, below) ==
    LET i == ChildFor(n.keys, e.key)
    IN IF IsLeaf(n)
       THEN LeafOrTwo(Inserted(n.entries, e), o)
       ELSE InternalOrTwo(Replaced(n.children, i, below[n.children[i]]), o)

\* The node or the two nodes that replace n.
InsertInto(n, e, o) ==
    LET Into[h \in Nat] == [m \in Tree[h] |-> InsertNode(m, e, o, Into[h - 1])]
    IN Into[Height(n)][n]

\* The elements of s on some places.
OnPlaces(s, places) ==
    LET UpTo[i \in Nat] == IF i = 0 THEN <<>>
                           ELSE IF i \in places THEN Append(UpTo[i - 1], s[i])
                           ELSE UpTo[i - 1]
    IN UpTo[Len(s)]

Meant(e, key, ps) == e.key = key /\ e.pointer \in ps

\* A single child takes the place of its parent.
InternalOrOne(cs) ==
    CASE Len(cs) = 0 -> Empty
      [] Len(cs) = 1 -> cs[1]
      [] OTHER -> MakeInternal(cs)

\* Children that become empty are dropped.
DeleteNode(n, key, ps, below) ==
    LET cs == [i \in DOMAIN n.children |-> below[n.children[i]]]
    IN IF IsLeaf(n)
       THEN MakeLeaf(OnPlaces(n.entries, {i \in DOMAIN n.entries :
                                            ~Meant(n.entries[i], key, ps)}))
       ELSE InternalOrOne(OnPlaces(cs, {i \in DOMAIN cs : cs[i] # Empty}))

\* n without the entries with the key and a pointer of ps.
DeleteFrom(n, key, ps) ==
    LET From[h \in Nat] == [m \in Tree[h] |-> DeleteNode(m, key, ps, From[h - 1])]
    IN From[Height(n)][n]

-----------------------------------------------------------------------------
(* The file *)

\* The last of the pages with the largest generation.
LatestPage(ps) ==
    ps[CHOOSE i \in DOMAIN ps :
        \A j \in DOMAIN ps : \/ ps[j].generation < ps[i].generation
                             \/ ps[j].generation = ps[i].generation /\ j <= i]

\* Mutant: the largest number in use.
NextAfterMutant(es) ==
    IF es = <<>> THEN 0 ELSE Max({es[i].sequence : i \in DOMAIN es})

\* An old page has no next sequence number: it is one more than the largest.
NextAfter(es) ==
    IF es = <<>> THEN 0 ELSE Max({es[i].sequence : i \in DOMAIN es}) + 1

\* What _load makes of the pages ps, for an index opened with order o.
Loaded(ps, o) ==
    IF ps = <<>>
    THEN [order |-> o, root |-> Empty, generation |-> 0, nextSequence |-> 0]
    ELSE LET page == LatestPage(ps)
         IN IF page.kind = "tree"
            THEN [order |-> page.order, root |-> page.root,
                  generation |-> page.generation,
                  nextSequence |-> page.nextSequence]
            ELSE [order |-> page.order,
                  root |-> BulkLoad(Sorted(page.entries), page.order),
                  generation |-> page.generation,
                  nextSequence |-> NextAfter(page.entries)]

\* The index object is a new one that has read the pages ps.
Load(ps, o) ==
    LET l == Loaded(ps, o)
    IN /\ order' = l.order
       /\ root' = l.root
       /\ generation' = l.generation
       /\ nextSequence' = l.nextSequence

\* _persist, the end of every change.
Persist ==
    /\ generation' = generation + 1
    /\ pages' = Append(pages, [kind |-> "tree", order |-> order,
                               generation |-> generation + 1,
                               nextSequence |-> nextSequence', root |-> root'])

-----------------------------------------------------------------------------

Init ==
    /\ pages \in {<<>>} \cup {<<l>> : l \in LegacyPages}
    /\ \E o \in Orders :
        LET l == Loaded(pages, o)
        IN /\ order = l.order
           /\ root = l.root
           /\ generation = l.generation
           /\ nextSequence = l.nextSequence

Insert(k, p) ==
    /\ Len(pages) < MaxPages
    /\ LET e == [key |-> k, pointer |-> p, sequence |-> nextSequence]
           ns == InsertInto(root, e, order)
       IN root' = IF Len(ns) = 1 THEN ns[1] ELSE MakeInternal(ns)
    /\ nextSequence' = nextSequence + 1
    /\ Persist
    /\ UNCHANGED order

Build(b) ==
    /\ Len(pages) < MaxPages
    /\ LET es == [i \in DOMAIN b |-> [key |-> b[i].key, pointer |-> b[i].pointer,
                                      sequence |-> nextSequence + i - 1]]
       IN root' = BulkLoad(Sorted(es), order)
    /\ nextSequence' = nextSequence + Len(b)
    /\ Persist
    /\ UNCHANGED order

\* The entries with the key and a pointer of ps: one, or all for None.
\* Nothing happens if there are none.
Delete(k, ps) ==
    /\ Len(pages) < MaxPages
    /\ \E i \in DOMAIN Walk(root) : Meant(Walk(root)[i], k, ps)
    /\ root' = BulkLoad(Walk(DeleteFrom(root, k, ps)), order)
    /\ UNCHANGED <<order, nextSequence>>
    /\ Persist

\* The index is opened again, after a rollback that may have cut off pages.
\* The order that it is opened with matters if no page is left.
Reopen(n) ==
    /\ pages' = SubSeq(pages, 1, n)
    /\ \E o \in IF n = 0 THEN Orders ELSE {order} : Load(pages', o)

Next ==
    \/ \E k \in Keys, p \in Pointers : Insert(k, p)
    \/ \E k \in Keys, ps \in {{p} : p \in Pointers} \cup {Pointers} : Delete(k, ps)
    \/ \E b \in Batches : Build(b)
    \/ \E n \in 0..Len(pages) : Reopen(n)

Spec == Init /\ [][Next]_vars

-----------------------------------------------------------------------------
(* Properties *)

\* Sequence numbers are unique and all in the past, whatever was deleted, rolled
\* back or read from an old page: they are what orders the rows of one key.
TypeOK ==
    /\ order \in Orders
    /\ root \in Tree[Height(root)]
    /\ Walk(root) \in Seq(Entry)
    /\ Numbered(Walk(root))
    /\ \A i \in DOMAIN Walk(root) : Walk(root)[i].sequence < nextSequence
    /\ generation \in Nat
    /\ nextSequence \in Nat
    /\ Len(pages) \in 0..MaxPages

Ascending(es) == \A i, j \in DOMAIN es : i < j => Precedes(es[i], es[j])

Contents(n) == Range(Walk(n))

\* The keys of a tree between two separators are those of the child between them.
Apart(cs) == \A i, j \in DOMAIN cs :
    i < j => \A e \in Contents(cs[i]), f \in Contents(cs[j]) : Precedes(e, f)

LeafOK(n, o) ==
    /\ IsLeaf(n)
    /\ Len(n.entries) <= MaxLeafEntries(o)
    /\ n.keys = [i \in DOMAIN n.entries |-> n.entries[i].key]
    /\ Ascending(n.entries)

InternalOK(n, o) ==
    /\ n.entries = <<>>
    /\ Len(n.children) \in 2..o
    /\ n.keys = SeparatorKeys(n.children)
    /\ Apart(n.children)

\* What a node that is not the root has to have.
LargeEnough(n, o) ==
    IF IsLeaf(n) THEN Len(n.entries) >= MinLeafEntries(o)
                 ELSE Len(n.children) >= MinChildren(o)

\* The trees with h levels whose nodes are all right, where below are those with
\* one level less.
Right(h, o, below) == {n \in Tree[h] :
    IF h = 1
    THEN LeafOK(n, o)
    ELSE /\ InternalOK(n, o)
         /\ \A i \in DOMAIN n.children : /\ n.children[i] \in below
                                        /\ LargeEnough(n.children[i], o)}

RightTrees(o) ==
    LET Of[h \in Nat] == IF h = 0 THEN {} ELSE Right(h, o, Of[h - 1])
    IN Of

\* assert_btree_invariants, which the tests call after a few chosen sequences:
\* sorted, balanced, every node within its bounds and neither too small nor too
\* large.  Splits, bulk loads and deletions that collapse nodes all keep it.
WellFormed ==
    /\ root \in RightTrees(order)[Height(root)]
    /\ Ascending(Walk(root))

Pair(e) == [key |-> e.key, pointer |-> e.pointer]

PairsOf[s \in Seq(Entry)] == [i \in DOMAIN s |-> Pair(s[i])]

\* What a page stands for.
PairsIn(page) ==
    PairsOf[IF page.kind = "tree" THEN Walk(page.root) ELSE Sorted(page.entries)]

\* The tree holds the pairs in the order of keys and, among equal keys, of
\* insertion, and the file holds the same: a reader that opens the index after
\* any number of changes finds the last of them, also after a rollback.
SI == INSTANCE SortedIndex WITH
        entries <- PairsOf[Walk(root)],
        versions <- [i \in DOMAIN pages |->
                        PairsIn(LatestPage(SubSeq(pages, 1, i)))],
        Stored <- {PairsIn(l) : l \in LegacyPages}

ImplementsSortedIndex == SI!Spec
=============================================================================
