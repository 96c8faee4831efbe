------------------------------- MODULE BTree --------------------------------
(***************************************************************************)
(* The table b-tree of squrust-core over the page sink of one write        *)
(* transaction: insert with leaf and interior splits and a root that stays *)
(* on its page, overflow chains for long records, delete, point lookup,    *)
(* last_key and the forward cursor.                                        *)
(*                                                                         *)
(* Bytes are counted in abstract units: a record is its length, and which  *)
(* part of which record an overflow page carries is kept instead of the    *)
(* bytes.  A page parses to the node that was last written to it.          *)
(***************************************************************************)
EXTENDS Integers, Sequences, SequencesExt, FiniteSets, TLC

CONSTANTS
    Records,      \* the rows to insert: pairs of a rowid and a record length
    LeafCap,      \* units that the cells of a leaf may take
    HeaderUnits,  \* units that the database header takes on page 1
    InteriorCap,  \* cells that an interior page may hold
    MaxLocal,     \* the longest record kept inline (USABLE - 35)
    MinLocal,     \* what stays inline at least when a record spills
    OverflowCap   \* units that an overflow page carries

ASSUME RecordsAssumption == Records \subseteq Int \X (Nat \ {0})
ASSUME UnitsAssumption == /\ LeafCap \in Nat /\ HeaderUnits \in Nat
                          /\ InteriorCap \in Nat \ {0}
                          /\ MinLocal \in Nat \ {0} /\ MaxLocal \in Nat
                          /\ OverflowCap \in Nat \ {0}

VARIABLES
    store,  \* the pages of the transaction: nodes, freelist and page count
    rows    \* the table as its user knows it: rowid -> record

vars == <<store, rows>>

Keys == {r[1] : r \in Records}
Root == 1
None == [kind |-> "none"]
-----------------------------------------------------------------------------
(* The page sink.  broken records that a node was serialised that does not *)
(* fit its page: the length arithmetic of serialize_into then underflows.  *)

Leaf(cells) == [kind |-> "leaf", cells |-> cells]
Interior(cells, right) == [kind |-> "interior", cells |-> cells, right |-> right]
Overflow(next, part) == [kind |-> "overflow", next |-> next, part |-> part]

\* alloc_page: from the freelist, which is a stack, or past the last page.
NewPage(st) ==
    IF st.free # <<>> THEN [id |-> Last(st.free), st |-> [st EXCEPT !.free = Front(@)]]
    ELSE [id |-> st.count + 1, st |-> [st EXCEPT !.count = @ + 1]]

Put(st, p, node) ==
    [st EXCEPT !.pages = [q \in DOMAIN st.pages \cup {p} |->
                              IF q = p THEN node ELSE st.pages[q]]]

Free(st, p) ==
    [st EXCEPT !.pages = [q \in DOMAIN st.pages \ {p} |-> st.pages[q]],
               !.free = Append(@, p)]
-----------------------------------------------------------------------------
(* Sizes.                                                                  *)

\* (An inline part that may pass the limit.)
Uncapped(len) ==
    IF len <= MaxLocal THEN len ELSE MinLocal + ((len - MinLocal) % OverflowCap)

\* inline_len_for: the part of a spilling record that stays in the cell.
InlineLen(len) ==
    LET k == MinLocal + ((len - MinLocal) % OverflowCap)
    IN IF len <= MaxLocal THEN len ELSE IF k <= MaxLocal THEN k ELSE MinLocal

SizeOf(cell) == InlineLen(cell.len)
CellsSize(cells) == FoldLeft(LAMBDA acc, c : acc + SizeOf(c), 0, cells)

Room(p) == IF p = Root THEN LeafCap - HeaderUnits ELSE LeafCap

Fits(p, node) ==
    IF node.kind = "leaf" THEN CellsSize(node.cells) <= Room(p)
    ELSE Len(node.cells) <= InteriorCap

WriteNode(st, p, node) ==
    [Put(st, p, node) EXCEPT !.broken = @ \/ ~Fits(p, node)]
-----------------------------------------------------------------------------
(* Overflow chains.                                                        *)

\* The parts a record spills into, each as <<rowid, length, number>>.
Parts(key, len) ==
    LET spilled == len - InlineLen(len)
        n == (spilled + OverflowCap - 1) \div OverflowCap
    IN [i \in 1..n |-> <<key, len, i>>]

\* write_overflow: all pages are allocated first, then written in order.
RECURSIVE AllocPages(_, _)
AllocPages(st, n) ==
    IF n = 0 THEN [ids |-> <<>>, st |-> st]
    ELSE LET a == NewPage(st)
             r == AllocPages(a.st, n - 1)
         IN [ids |-> <<a.id>> \o r.ids, st |-> r.st]

WriteOverflow(st, parts) ==
    LET a == AllocPages(st, Len(parts))
        next(i) == IF i < Len(parts) THEN a.ids[i + 1] ELSE 0
    IN [first |-> a.ids[1],
        st |-> FoldLeft(LAMBDA s, i : Put(s, a.ids[i], Overflow(next(i), parts[i])),
                        a.st, [i \in 1..Len(parts) |-> i])]

\* The chain that starts at page p, as long as it leads to overflow pages.
RECURSIVE Chain(_, _)
Chain(st, p) ==
    IF p = 0 \/ p \notin DOMAIN st.pages THEN <<>>
    ELSE IF st.pages[p].kind # "overflow" THEN <<>>
    ELSE <<p>> \o Chain(st, st.pages[p].next)

FreeChain(st, first) == FoldLeft(LAMBDA s, p : Free(s, p), st, Chain(st, first))

\* read_value: the inline part and what the chain carries.
Value(st, cell) ==
    [len |-> cell.len,
     parts |-> [i \in 1..Len(Chain(st, cell.overflow)) |->
                   st.pages[Chain(st, cell.overflow)[i]].part]]
-----------------------------------------------------------------------------
(* Descending.                                                             *)

\* The index of the child for key k; Len(cells) + 1 is the right child.
ChildIndex(node, k) ==
    LET i == SelectInSeq(node.cells, LAMBDA c : k <= c.key)
    IN IF i = 0 THEN Len(node.cells) + 1 ELSE i

ChildAt(node, i) == IF i <= Len(node.cells) THEN node.cells[i].child ELSE node.right

RECURSIVE LeafFor(_, _, _)
LeafFor(st, p, k) ==
    LET node == st.pages[p]
    IN IF node.kind = "leaf" THEN p
       ELSE LeafFor(st, ChildAt(node, ChildIndex(node, k)), k)

\* LeafNode::search: where key k is, or where it belongs.
Position(cells, k) == Cardinality({i \in 1..Len(cells) : cells[i].key < k}) + 1
Found(cells, k) == \E i \in 1..Len(cells) : cells[i].key = k

Get(st, k) ==
    LET cells == st.pages[LeafFor(st, Root, k)].cells
    IN IF Found(cells, k) THEN Value(st, cells[Position(cells, k)]) ELSE None

RECURSIVE RightmostLeaf(_, _)
RightmostLeaf(st, p) ==
    IF st.pages[p].kind = "leaf" THEN p ELSE RightmostLeaf(st, st.pages[p].right)

\* last_key: the set of the rowid it returns, empty for None.
LastKey(st) ==
    LET cells == st.pages[RightmostLeaf(st, Root)].cells
    IN {cells[i].key : i \in DOMAIN cells \cap {Len(cells)}}
-----------------------------------------------------------------------------
(* Splits.                                                                 *)

\* split_leaf: the first index at which half of the bytes are reached, clamped
\* so that neither side is empty (clamp(1, 0) panics, see CanSplit).
SplitIndex(cells) ==
    LET half(i) == 2 * CellsSize(SubSeq(cells, 1, i)) >= CellsSize(cells)
        idx == CHOOSE i \in 1..Len(cells) : half(i) /\ \A j \in 1..(i - 1) : ~half(j)
    IN IF idx > Len(cells) - 1 THEN Len(cells) - 1 ELSE idx

CanSplit(cells) == Len(cells) > 1

NoSplit == [right |-> 0]

SplitLeaf(st, p, cells) ==
    IF ~CanSplit(cells) THEN [st |-> [st EXCEPT !.broken = TRUE], split |-> NoSplit]
    ELSE
    LET i == SplitIndex(cells)
        a == NewPage(st)
        st1 == WriteNode(a.st, p, Leaf(SubSeq(cells, 1, i)))
        st2 == WriteNode(st1, a.id, Leaf(SubSeq(cells, i + 1, Len(cells))))
    IN [st |-> st2, split |-> [key |-> cells[i].key, right |-> a.id]]

SplitInterior(st, p, node) ==
    LET n == Len(node.cells)
        m == n \div 2 + 1
        a == NewPage(st)
        st1 == WriteNode(a.st, p, Interior(SubSeq(node.cells, 1, m - 1), node.cells[m].child))
        st2 == WriteNode(st1, a.id, Interior(SubSeq(node.cells, m + 1, n), node.right))
    IN [st |-> st2, split |-> [key |-> node.cells[m].key, right |-> a.id]]

\* A parent that keeps the old key for the left half as well.
WithOldKey(node, i, split) ==
    LET child == ChildAt(node, i)
    IN IF i <= Len(node.cells)
       THEN Interior(InsertAt(node.cells, i + 1,
                              [child |-> split.right, key |-> node.cells[i].key]), node.right)
       ELSE Interior(Append(node.cells, [child |-> child, key |-> split.key]), split.right)

\* The parent after its child number i was split.
WithSplit(node, i, split) ==
    LET child == ChildAt(node, i)
    IN IF i <= Len(node.cells)
       THEN Interior(InsertAt(ReplaceAt(node.cells, i, [child |-> child, key |-> split.key]),
                              i + 1, [child |-> split.right, key |-> node.cells[i].key]),
                     node.right)
       ELSE Interior(Append(node.cells, [child |-> child, key |-> split.key]), split.right)
-----------------------------------------------------------------------------
(* Insert and delete.                                                      *)

MakeCell(st, k, len) ==
    IF len <= MaxLocal THEN [st |-> st, cell |-> [key |-> k, len |-> len, overflow |-> 0]]
    ELSE LET w == WriteOverflow(st, Parts(k, len))
         IN [st |-> w.st, cell |-> [key |-> k, len |-> len, overflow |-> w.first]]

\* An insert over an existing row that forgets the old overflow chain.
NothingReplaced(cells, k) == 0

\* The overflow chain of the row that an insert at k replaces, or 0.
Replaced(cells, k) ==
    IF Found(cells, k) THEN cells[Position(cells, k)].overflow ELSE 0

InsertLeaf(st, p, cell) ==
    LET old == st.pages[p].cells
        i == Position(old, cell.key)
        cells == IF Found(old, cell.key) THEN ReplaceAt(old, i, cell)
                 ELSE InsertAt(old, i, cell)
        r == IF Fits(p, Leaf(cells))
             THEN [st |-> WriteNode(st, p, Leaf(cells)), split |-> NoSplit]
             ELSE SplitLeaf(st, p, cells)
    IN [r EXCEPT !.st = FreeChain(@, Replaced(old, cell.key))]

RECURSIVE InsertRec(_, _, _)
InsertRec(st, p, cell) ==
    LET node == st.pages[p]
        i == ChildIndex(node, cell.key)
        r == InsertRec(st, ChildAt(node, i), cell)
        parent == WithSplit(node, i, r.split)
    IN IF node.kind = "leaf" THEN InsertLeaf(st, p, cell)
       ELSE IF r.split = NoSplit THEN r
       ELSE IF Fits(p, parent)
       THEN [st |-> WriteNode(r.st, p, parent), split |-> NoSplit]
       ELSE SplitInterior(r.st, p, parent)

\* The root keeps its page: its left half moves to a new one.
GrowRoot(st, split) ==
    LET a == NewPage(st)
        st1 == WriteNode(a.st, a.id, st.pages[Root])
    IN WriteNode(st1, Root, Interior(<<[child |-> a.id, key |-> split.key]>>, split.right))

Inserted(st, k, len) ==
    LET c == MakeCell(st, k, len)
        r == InsertRec(c.st, Root, c.cell)
    IN IF r.split = NoSplit THEN r.st ELSE GrowRoot(r.st, r.split)

Insert(k, len) ==
    /\ ~store.broken
    /\ store' = Inserted(store, k, len)
    /\ rows' = [q \in DOMAIN rows \cup {k} |-> IF q = k THEN len ELSE rows[q]]

Deleted(st, k) ==
    LET p == LeafFor(st, Root, k)
        cells == st.pages[p].cells
        i == Position(cells, k)
    IN IF ~Found(cells, k) THEN st
       ELSE FreeChain(WriteNode(st, p, Leaf(RemoveAt(cells, i))), cells[i].overflow)

Delete(k) ==
    /\ ~store.broken
    /\ store' = Deleted(store, k)
    /\ rows' = [q \in DOMAIN rows \ {k} |-> rows[q]]
-----------------------------------------------------------------------------
(* The forward cursor: a stack of interior nodes with the child taken in   *)
(* each, and a position in a leaf.                                         *)

RECURSIVE Seek(_, _, _, _)
Seek(st, stack, p, k) ==
    LET node == st.pages[p]
        i == ChildIndex(node, k)
    IN IF node.kind = "leaf"
       THEN [stack |-> stack, cells |-> node.cells, at |-> Position(node.cells, k)]
       ELSE Seek(st, Append(stack, [node |-> node, at |-> i]), ChildAt(node, i), k)

\* descend_leftmost
RECURSIVE Leftmost(_, _, _)
Leftmost(st, stack, p) ==
    LET node == st.pages[p]
    IN IF node.kind = "leaf" THEN [stack |-> stack, cells |-> node.cells, at |-> 1]
       ELSE Leftmost(st, Append(stack, [node |-> node, at |-> 1]), ChildAt(node, 1))

\* A cursor that takes the last cell for the last child.
BeforeRight(node) == Len(node.cells)

\* The number of children of an interior node.
Children(node) == Len(node.cells) + 1

\* The rest of the scan: the leaf, then the next child of the deepest node
\* that has one left.
RECURSIVE Remaining(_, _)
Remaining(st, cur) ==
    LET top == Last(cur.stack)
        below == Front(cur.stack)
        moved == [top EXCEPT !.at = @ + 1]
    IN IF cur.at <= Len(cur.cells)
       THEN <<[key |-> cur.cells[cur.at].key, value |-> Value(st, cur.cells[cur.at])]>>
            \o Remaining(st, [cur EXCEPT !.at = @ + 1])
       ELSE IF cur.stack = <<>> THEN <<>>
       ELSE IF moved.at <= Children(top.node)
       THEN Remaining(st, Leftmost(st, Append(below, moved), ChildAt(top.node, moved.at)))
       ELSE Remaining(st, [stack |-> below, cells |-> <<>>, at |-> 1])

\* cursor_from(k) and next until it returns None.
ScanFrom(st, k) == Remaining(st, Seek(st, <<>>, Root, k))
-----------------------------------------------------------------------------
Init ==
    /\ store = [pages |-> (Root :> Leaf(<<>>)), free |-> <<>>, count |-> 1, broken |-> FALSE]
    /\ rows = <<>>

Next ==
    \/ \E r \in Records : Insert(r[1], r[2])
    \/ \E k \in Keys : Delete(k)

Spec == Init /\ [][Next]_vars
-----------------------------------------------------------------------------
(* Properties.                                                             *)

RECURSIVE Reachable(_, _)
Reachable(st, p) ==
    LET node == st.pages[p]
    IN IF node.kind = "leaf"
       THEN <<p>> \o FlattenSeq([i \in 1..Len(node.cells) |-> Chain(st, node.cells[i].overflow)])
       ELSE <<p>> \o FlattenSeq([i \in 1..(Len(node.cells) + 1) |->
                                    Reachable(st, ChildAt(node, i))])

Stored(k) == [len |-> rows[k], parts |-> Parts(k, rows[k])]

\* The b-tree is the map it stands for: after any sequence of inserts,
\* overwrites and deletes, whatever was split, get finds the whole record of
\* every row of the table and of no other.
TreeIsMap ==
    ~store.broken => \A k \in Keys : Get(store, k) = IF k \in DOMAIN rows THEN Stored(k) ELSE None

\* A scan started anywhere returns every row from there on exactly once, in
\* ascending order and with its whole record, across leaves that deletes have
\* emptied.
ScanIsComplete ==
    ~store.broken =>
        \A k \in Keys :
            LET s == ScanFrom(store, k)
            IN /\ ToSet(s) = {[key |-> q, value |-> Stored(q)] : q \in {x \in DOMAIN rows : x >= k}}
               /\ \A i \in 1..(Len(s) - 1) : s[i].key < s[i + 1].key

\* Every page the transaction has allocated is used by exactly one node or
\* overflow chain of the tree, or is on the freelist once: no page leaks when
\* a long record is replaced or deleted and none is used twice.
PagesAccounted ==
    ~store.broken =>
        LET used == Reachable(store, Root) \o store.free
        IN /\ ToSet(used) = 1..store.count
           /\ Len(used) = store.count

\* Both halves of every split fit their pages, so that serialize_into never
\* runs out of room, and no single cell is left to split: what the other
\* properties take for granted.  It holds while no cell takes more than half a
\* leaf; three cells of which the middle one fills a leaf can leave a half that
\* does not fit (split.rs split_leaf).
SplitsFit == ~store.broken

\* last_key returns the largest rowid of the tree, None if there is none.
LastKeyIsLargest ==
    ~store.broken =>
        LastKey(store) = {k \in DOMAIN rows : \A q \in DOMAIN rows : q <= k}
=============================================================================
