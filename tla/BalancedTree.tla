----------------------------- MODULE BalancedTree -----------------------------
(***************************************************************************)
(* The (a,b)-tree of pma/generic/dynamic_index.hpp, which abtree/abtree.cpp *)
(* and pma/external/drui/dynamic_index.hpp repeat: inner nodes of InodeA    *)
(* to InodeB children, leaves of LeafA to LeafB elements, duplicates        *)
(* allowed.  A separator is the least key of the subtree on its right.      *)
(*                                                                         *)
(* A leaf is [id, elems], its address and its elements in key order; an     *)
(* inner node has keys and kids, and no address of its own.  All the leaves *)
(* are at the same depth, so depth and m_height are the shape of the tree.  *)
(*                                                                         *)
(* The heap is [links, ok]: links maps the leaves that are allocated to     *)
(* their previous and next leaf, 0 for a null pointer, and ok is FALSE once *)
(* the code has used a node it had freed or a pointer it never wrote.       *)
(***************************************************************************)
EXTENDS Integers, SequencesExt, FiniteSetsExt

CONSTANTS
    InodeA, InodeB,    \* least and greatest number of children of an inner node
    LeafA, LeafB       \* least and greatest number of elements of a leaf

\* The bounds of nodes that can be split and merged (ABTree::validate_bounds asks for them).
TreeAssumption ==
    /\ InodeA \in Nat /\ InodeA > 1 /\ InodeB \in Nat /\ 2 * InodeA - 1 <= InodeB
    /\ LeafA \in Nat /\ LeafA > 1 /\ LeafB \in Nat /\ 2 * LeafA - 1 <= LeafB

Leaf(id, elems) == [id |-> id, elems |-> elems, keys |-> <<>>, kids |-> <<>>]
Inner(keys, kids) == [id |-> 0, elems |-> <<>>, keys |-> keys, kids |-> kids]

is_leaf(n) == n.id # 0
Size(n) == IF is_leaf(n) THEN Len(n.elems) ELSE Len(n.kids)
lowerbound(n) == IF is_leaf(n) THEN LeafA ELSE InodeA

\* How many keys at the head of a sequence pass a test: where a linear search stops.
Leading(keys, Test(_)) == Cardinality({i \in DOMAIN keys : \A j \in 1 .. i : Test(keys[j])})
Below(keys, key) == Leading(keys, LAMBDA k : k < key)
NotAboveKey(keys, key) == Leading(keys, LAMBDA k : k <= key)

KeysOf(elems) == [i \in DOMAIN elems |-> elems[i][1]]

RECURSIVE LeavesOf(_), Reduced(_)
LeavesOf(n) ==
    IF is_leaf(n) THEN <<n>> ELSE FoldLeft(LAMBDA s, c : s \o LeavesOf(c), <<>>, n.kids)
ElementsOf(n) == FoldLeft(LAMBDA s, leaf : s \o leaf.elems, <<>>, LeavesOf(n))
\* The set of the one bag makes TLC evaluate the sequence once.
BagOf(seq) ==
    CHOOSE bag \in {[e \in Range(s) |-> Cardinality({i \in DOMAIN s : s[i] = e})] : s \in {seq}} : TRUE
IdsOf(n) == {leaf.id : leaf \in Range(LeavesOf(n))}

-----------------------------------------------------------------------------
\* create_leaf: an address that is neither allocated nor still held by a link.
NewAddress(heap) ==
    LET held == DOMAIN heap.links
                    \union UNION {{heap.links[a].prev, heap.links[a].next} : a \in DOMAIN heap.links}
    IN  CHOOSE a \in 1 .. (Cardinality(held) + 1) : a \notin held /\ \A b \in 1 .. (a - 1) : b \in held
create_leaf(heap, prev, next) ==
    LET a == NewAddress(heap)
    IN  [heap EXCEPT !.links =
            [b \in DOMAIN heap.links \union {a} |->
                IF b = a THEN [prev |-> prev, next |-> next] ELSE heap.links[b]]]
delete_node(heap, ids) ==
    [heap EXCEPT !.links = [b \in DOMAIN heap.links \ ids |-> heap.links[b]]]

\* leaf->next->previous = l, which a dangling pointer makes a write into freed memory.
SetPrevious(heap, a, l) ==
    IF a = 0 THEN heap
    ELSE IF a \in DOMAIN heap.links THEN [heap EXCEPT !.links[a].prev = l]
    ELSE [heap EXCEPT !.ok = FALSE]

\* Every link of an allocated leaf leads to an allocated leaf.
Dangling(heap) ==
    \E a \in DOMAIN heap.links :
        ~ ({heap.links[a].prev, heap.links[a].next} \subseteq DOMAIN heap.links \union {0})

NoHeap == [links |-> <<>>, ok |-> TRUE]
EmptyTree == [root |-> Leaf(1, <<>>), heap |-> create_leaf(NoHeap, 0, 0), card |-> 0]

-----------------------------------------------------------------------------
\* split: the child i in two halves; the least key of the second goes up.
WithHalves(n, i, n1, n2, pivot) ==
    Inner(InsertAt(n.keys, i, pivot), InsertAt(ReplaceAt(n.kids, i, n1), i + 1, n2))
SplitLeaf(n, heap, i, c, half, a) ==
    [node |-> WithHalves(n, i, [c EXCEPT !.elems = SubSeq(@, 1, half)],
                         Leaf(a, SubSeq(c.elems, half + 1, Size(c))), c.elems[half + 1][1]),
     heap |-> SetPrevious([create_leaf(heap, c.id, heap.links[c.id].next) EXCEPT !.links[c.id].next = a],
                          heap.links[c.id].next, a)]
SplitInner(n, heap, i, c, half) ==
    [node |-> WithHalves(n, i, Inner(SubSeq(c.keys, 1, half - 1), SubSeq(c.kids, 1, half)),
                         Inner(SubSeq(c.keys, half + 1, Len(c.keys)), SubSeq(c.kids, half + 1, Size(c))),
                         c.keys[half]),
     heap |-> heap]
split(n, heap, i) ==
    IF is_leaf(n.kids[i])
    THEN SplitLeaf(n, heap, i, n.kids[i], (Size(n.kids[i]) + 1) \div 2, NewAddress(heap))
    ELSE SplitInner(n, heap, i, n.kids[i], Size(n.kids[i]) \div 2 + 1)

\* split_root
split_root(root, heap) == split(Inner(<<>>, <<root>>), heap, 1)

\* insert(node): a full leaf is split on the way down, a full inner node on the way back.
IsFull(n) == is_leaf(n) /\ Size(n) = LeafB
SplitFullLeaf(n, heap, i) ==
    IF IsFull(n.kids[i]) THEN split(n, heap, i) ELSE [node |-> n, heap |-> heap]
SplitFullInode(after, r, j) ==
    IF ~ is_leaf(r.node) /\ Size(r.node) > InodeB THEN split(after, r.heap, j)
    ELSE [node |-> after, heap |-> r.heap]
ChildFor(n, key, i, full) == IF full /\ key > n.keys[i] THEN i + 1 ELSE i

InsertedBelow(s, j, r) == SplitFullInode([s.node EXCEPT !.kids[j] = r.node], r, j)

RECURSIVE insert_node(_, _, _)
InsertBelow(s, j, e) == InsertedBelow(s, j, insert_node(s.node.kids[j], s.heap, e))
InsertInto(s, i, full, e) == InsertBelow(s, ChildFor(s.node, e[1], i, full), e)
InsertFrom(n, heap, i, e) == InsertInto(SplitFullLeaf(n, heap, i), i, IsFull(n.kids[i]), e)
insert_node(n, heap, e) ==
    IF is_leaf(n) THEN
        [node |-> [n EXCEPT !.elems = InsertAt(@, NotAboveKey(KeysOf(@), e[1]) + 1, e)], heap |-> heap]
    ELSE InsertFrom(n, heap, Below(n.keys, e[1]) + 1, e)

SplitFullRoot(root, heap) == IF IsFull(root) THEN split_root(root, heap) ELSE [node |-> root, heap |-> heap]
InsertAtRoot(s, e) == insert_node(s.node, s.heap, e)
Grown(r) == IF ~ is_leaf(r.node) /\ Size(r.node) > InodeB THEN split_root(r.node, r.heap) ELSE r
KeyInserted(tree, r) == [root |-> r.node, heap |-> r.heap, card |-> tree.card + 1]
insert_key(tree, e) ==
    KeyInserted(tree, Grown(InsertAtRoot(SplitFullRoot(tree.root, tree.heap), e)))

-----------------------------------------------------------------------------
MergeLeaves(n, heap, i, c, d, next) ==
    [node |-> Inner(RemoveAt(n.keys, i),
                    RemoveAt(ReplaceAt(n.kids, i, [c EXCEPT !.elems = @ \o d.elems]), i + 1)),
     heap |-> delete_node(SetPrevious([heap EXCEPT !.links[c.id].next = next], next, c.id), {d.id})]
MergeInodes(n, heap, i, c, d) ==
    [node |-> Inner(RemoveAt(n.keys, i),
                    RemoveAt(ReplaceAt(n.kids, i, Inner(c.keys \o <<n.keys[i]>> \o d.keys, c.kids \o d.kids)),
                             i + 1)),
     heap |-> heap]

\* A wrong merge: the elements of the second leaf are freed with it.
MergeForgets(n, heap, i) ==
    IF is_leaf(n.kids[i])
    THEN MergeLeaves(n, heap, i, n.kids[i], [n.kids[i + 1] EXCEPT !.elems = <<>>],
                     heap.links[n.kids[i + 1].id].next)
    ELSE MergeInodes(n, heap, i, n.kids[i], n.kids[i + 1])

\* merge: the children i and i + 1 become one.
merge(n, heap, i) ==
    IF is_leaf(n.kids[i])
    THEN MergeLeaves(n, heap, i, n.kids[i], n.kids[i + 1], heap.links[n.kids[i + 1].id].next)
    ELSE MergeInodes(n, heap, i, n.kids[i], n.kids[i + 1])

\* The loops that copy the children of an inner node copy one of need - 1: with three
\* or more, slots are left that hold nothing the code wrote.
CopiesAll(c, need) == is_leaf(c) \/ need <= 2

Rotated(n, heap, i, c, d, pivot, need) ==
    [node |-> Inner(ReplaceAt(n.keys, i, pivot), ReplaceAt(ReplaceAt(n.kids, i, c), i + 1, d)),
     heap |-> [heap EXCEPT !.ok = @ /\ CopiesAll(c, need)]]

\* rotate_right: the child i takes the last ones of its left sibling.
RotateRight(n, heap, i, c, d, stay, need) ==
    IF is_leaf(c) THEN
        Rotated(n, heap, i - 1, [c EXCEPT !.elems = SubSeq(@, 1, stay)],
                [d EXCEPT !.elems = SubSeq(c.elems, stay + 1, Size(c)) \o @], c.elems[stay + 1][1], need)
    ELSE
        Rotated(n, heap, i - 1, Inner(SubSeq(c.keys, 1, stay - 1), SubSeq(c.kids, 1, stay)),
                Inner(SubSeq(c.keys, stay + 1, Len(c.keys)) \o <<n.keys[i - 1]>> \o d.keys,
                      SubSeq(c.kids, stay + 1, Size(c)) \o d.kids),
                c.keys[stay], need)
rotate_right(n, heap, i, need) ==
    RotateRight(n, heap, i, n.kids[i - 1], n.kids[i], Size(n.kids[i - 1]) - need, need)

\* The child i takes the first ones of its right sibling; pivot separates two leaves.
RotateLeft(n, heap, i, c, d, pivot, need) ==
    IF is_leaf(c) THEN
        Rotated(n, heap, i, [c EXCEPT !.elems = @ \o SubSeq(d.elems, 1, need)],
                [d EXCEPT !.elems = SubSeq(@, need + 1, Size(d))], d.elems[pivot][1], need)
    ELSE
        Rotated(n, heap, i,
                Inner(c.keys \o <<n.keys[i]>> \o SubSeq(d.keys, 1, need - 1),
                      c.kids \o SubSeq(d.kids, 1, need)),
                Inner(SubSeq(d.keys, need + 1, Len(d.keys)), SubSeq(d.kids, need + 1, Size(d))),
                d.keys[need], need)

\* A wrong rotation: the separator is the last key that moved.
RotateLeftStaleKey(n, heap, i, need) ==
    RotateLeft(n, heap, i, n.kids[i], n.kids[i + 1], need, need)

\* rotate_left: the separator is the first key that stays.
rotate_left(n, heap, i, need) ==
    RotateLeft(n, heap, i, n.kids[i], n.kids[i + 1], need + 1, need)

\* rebalance_lb: a child with too few takes one more than it needs from a sibling, or
\* what it needs, or merges with one.
LeftHas(n, i, least) == i > 1 /\ Size(n.kids[i - 1]) >= least
RightHas(n, i, least) == i < Size(n) /\ Size(n.kids[i + 1]) >= least
TakeFromSibling(n, heap, i, lb, need) ==
    IF LeftHas(n, i, lb + need) THEN rotate_right(n, heap, i, need)
    ELSE IF RightHas(n, i, lb + need) THEN rotate_left(n, heap, i, need)
    ELSE merge(n, heap, IF i < Size(n) THEN i ELSE i - 1)
Refill(n, heap, i, lb, need) ==
    TakeFromSibling(n, heap, i, lb,
        IF LeftHas(n, i, lb + need + 1) \/ RightHas(n, i, lb + need + 1) THEN need + 1 ELSE need)
rebalance_lb(n, heap, i, root) ==
    IF Size(n.kids[i]) >= lowerbound(n.kids[i]) \/ (root /\ Size(n) <= 1) THEN [node |-> n, heap |-> heap]
    ELSE Refill(n, heap, i, lowerbound(n.kids[i]), lowerbound(n.kids[i]) - Size(n.kids[i]))

-----------------------------------------------------------------------------
\* remove_any(node): one element with the key; follow (omin) asks for the least key that
\* is left, when the separator above is the key itself (-1 if the leaf is left empty).
LeastOf(elems) == IF elems = <<>> THEN <<>> ELSE <<elems[1][1]>>
LeafWithout(n, heap, out, after) ==
    [node |-> [n EXCEPT !.elems = after], heap |-> heap, out |-> out, min |-> LeastOf(after)]
RemoveFromLeaf(n, heap, i) ==
    IF i = 0 THEN LeafWithout(n, heap, <<>>, n.elems)
    ELSE LeafWithout(n, heap, <<n.elems[i][2]>>, RemoveAt(n.elems, i))
PositionInLeaf(n, key) ==
    IF Size(n) > 0 /\ n.elems[Size(n)][1] = key THEN Size(n)
    ELSE SelectInSeq(n.elems, LAMBDA e : e[1] = key)

\* The node once the removal below its child j, right of the separator i or not, returned.
KeysAfter(n, i, separator, r) ==
    IF separator THEN ReplaceAt(n.keys, i, IF r.min = <<>> THEN -1 ELSE r.min[1]) ELSE n.keys
NodeAfter(n, i, j, separator, r) == Inner(KeysAfter(n, i, separator, r), ReplaceAt(n.kids, j, r.node))
Rebalanced(n, i, j, separator, r, root) ==
    IF separator \/ Size(n.kids[j]) <= lowerbound(n.kids[j])
    THEN rebalance_lb(NodeAfter(n, i, j, separator, r), r.heap, j, root)
    ELSE [node |-> NodeAfter(n, i, j, separator, r), heap |-> r.heap]
Removal(r, b) == [node |-> b.node, heap |-> b.heap, out |-> r.out, min |-> r.min]
RemovedBelow(n, i, j, separator, r, root) == Removal(r, Rebalanced(n, i, j, separator, r, root))

RECURSIVE remove_any_node(_, _, _, _, _)
RemoveBelow(n, heap, key, follow, root, i, j) ==
    RemovedBelow(n, i, j, j # i, remove_any_node(n.kids[j], heap, key, follow \/ j # i, FALSE), root)
RemoveFrom(n, heap, key, follow, root, i) ==
    RemoveBelow(n, heap, key, follow, root, i,
                IF ~ follow /\ i < Size(n) /\ n.keys[i] = key THEN i + 1 ELSE i)
remove_any_node(n, heap, key, follow, root) ==
    IF is_leaf(n) THEN RemoveFromLeaf(n, heap, PositionInLeaf(n, key))
    ELSE RemoveFrom(n, heap, key, follow, root, Below(n.keys, key) + 1)

\* remove_any(key): the value of the element removed, if any; a root with one child goes.
RootAfter(r) == IF r.out # <<>> /\ ~ is_leaf(r.node) /\ Size(r.node) = 1 THEN r.node.kids[1] ELSE r.node
AnyRemoved(tree, r) ==
    [tree |-> [root |-> RootAfter(r), heap |-> r.heap,
               card |-> IF r.out = <<>> THEN tree.card ELSE tree.card - 1],
     out |-> r.out]
remove_any(tree, key) == AnyRemoved(tree, remove_any_node(tree.root, tree.heap, key, FALSE, TRUE))

-----------------------------------------------------------------------------
\* remove_subtrees: the children from i on are freed; nobody unlinks their leaves.
remove_subtrees(n, heap, i, length) ==
    LET gone == SubSeq(n.kids, i, i + length - 1)
        k == IF i > 1 THEN i - 1 ELSE 1
    IN  [node |-> IF length = Size(n) THEN Inner(<<>>, <<>>)
                  ELSE Inner(SubSeq(n.keys, 1, k - 1) \o SubSeq(n.keys, k + length, Len(n.keys)),
                             SubSeq(n.kids, 1, i - 1) \o SubSeq(n.kids, i + length, Size(n))),
         heap |-> delete_node(heap, UNION {IdsOf(gone[j]) : j \in DOMAIN gone}),
         removed |-> FoldLeft(LAMBDA s, c : s + Len(ElementsOf(c)), 0, gone)]

\* remove_keys: the elements from min to max. The result says whether a node was left with
\* too few, and the least key of the subtree.
KeptOutside(elems, min, max) == SelectSeq(elems, LAMBDA e : ~ (min <= e[1] /\ e[1] <= max))
LeafKept(n, heap, after) ==
    [node |-> [n EXCEPT !.elems = after], heap |-> heap, rebalance |-> Len(after) < LeafA,
     min |-> LeastOf(after), removed |-> Size(n) - Len(after)]

\* remove_keys, after the children from start to end: the empty ones and those between
\* them go, and two neighbours that fit into one node become one.
FirstGone(start, head) == IF Size(head.node) = 0 THEN start ELSE start + 1
NumberGone(start, end, head, tailEmpty) ==
    (IF end > start + 1 THEN end - start - 1 ELSE 0)
        + (IF Size(head.node) = 0 THEN 1 ELSE 0) + (IF tailEmpty THEN 1 ELSE 0)
Cut(n, heap, first, length) ==
    IF length > 0 THEN remove_subtrees(n, heap, first, length)
    ELSE [node |-> n, heap |-> heap, removed |-> 0]
MergeIfSmall(cut, start, end) ==
    IF /\ start < end /\ start < Size(cut.node)
       /\ Size(cut.node.kids[start]) + Size(cut.node.kids[start + 1])
              <= 2 * lowerbound(cut.node.kids[start]) - 1
    THEN merge(cut.node, cut.heap, start) ELSE [node |-> cut.node, heap |-> cut.heap]
WithEnds(n, start, end, head, tail, tailEmpty) ==
    Inner(IF end > start /\ ~ tailEmpty THEN ReplaceAt(n.keys, end - 1, tail.min[1]) ELSE n.keys,
          ReplaceAt(ReplaceAt(n.kids, end, tail.node), start, head.node))
RangeRemoval(n, start, head, tail, n1, length, cut, m) ==
    [node |-> m.node, heap |-> m.heap,
     rebalance |-> head.rebalance \/ tail.rebalance \/ Size(m.node) < InodeA,
     min |-> IF length = 0 \/ start > 1 THEN head.min
             ELSE IF length < Size(n) THEN <<n1.keys[length]>> ELSE <<>>,
     removed |-> head.removed + tail.removed + cut.removed]
MergedAfter(n, start, end, head, tail, n1, length, cut) ==
    RangeRemoval(n, start, head, tail, n1, length, cut, MergeIfSmall(cut, start, end))
RemovedBetween(n, start, end, head, tail, n1, length) ==
    MergedAfter(n, start, end, head, tail, n1, length,
                Cut(n1, tail.heap, FirstGone(start, head), length))
RemovedAtEnds(n, start, end, head, tail, tailEmpty) ==
    RemovedBetween(n, start, end, head, tail, WithEnds(n, start, end, head, tail, tailEmpty),
                   NumberGone(start, end, head, tailEmpty))

RECURSIVE remove_keys(_, _, _, _)
RemoveTail(n, min, max, start, end, head) ==
    IF end > start THEN remove_keys(n.kids[end], head.heap, min, max) ELSE [head EXCEPT !.removed = 0]
RemoveFromTail(n, start, end, head, tail) ==
    RemovedAtEnds(n, start, end, head, tail, end > start /\ tail.min = <<>>)
RemoveFromHead(n, min, max, start, end, head) ==
    RemoveFromTail(n, start, end, head, RemoveTail(n, min, max, start, end, head))
RemoveBetween(n, heap, min, max, start, end) ==
    RemoveFromHead(n, min, max, start, end, remove_keys(n.kids[start], heap, min, max))
RemoveStarting(n, heap, min, max, start) ==
    RemoveBetween(n, heap, min, max, start,
                  start + NotAboveKey(SubSeq(n.keys, start, Len(n.keys)), max))
remove_keys(n, heap, min, max) ==
    IF is_leaf(n) THEN LeafKept(n, heap, KeptOutside(n.elems, min, max))
    ELSE RemoveStarting(n, heap, min, max, Below(n.keys, min) + 1)

\* reduce_tree: a root with one child goes, as often as there is one.
Reduced(n) == IF ~ is_leaf(n) /\ Size(n) = 1 THEN Reduced(n.kids[1]) ELSE n

\* rebalance_rec: down the path of min, and of what lies to the right of it. When the last
\* child is merged into its left sibling the index leads to the node that merge has freed.
Shrinks(s, root) == root /\ Size(s.node) = 1
Lost(s) == [node |-> s.node, heap |-> [s.heap EXCEPT !.ok = FALSE]]

RECURSIVE rebalance_rec(_, _, _, _, _)
Restart(s, min, max) == rebalance_rec(Reduced(s.node), s.heap, min, max, TRUE)
RefillBelow(s, j, r, root) == rebalance_lb([s.node EXCEPT !.kids[j] = r.node], r.heap, j, root)
Into(s, j, min, max, root) ==
    RefillBelow(s, j, rebalance_rec(s.node.kids[j], s.heap, min, max, FALSE), root)
AfterRight(d, min, max, root) == IF Shrinks(d, root) THEN Restart(d, min, max) ELSE d
BeforeRight(c, i, min, max, root) ==
    IF Shrinks(c, root) THEN Restart(c, min, max)
    ELSE AfterRight(Into(c, i + 1, min, max, root), min, max, root)
AfterLeft(b, i, min, max, root) ==
    IF Shrinks(b, root) THEN Restart(b, min, max)
    ELSE IF Size(b.node) > 1 /\ i < Size(b.node) - 1 /\ b.node.keys[i] < max
         THEN BeforeRight(rebalance_lb(b.node, b.heap, i + 1, root), i, min, max, root)
    ELSE b
BeforeLeft(a, i, min, max, root) ==
    IF Shrinks(a, root) THEN Restart(a, min, max)
    ELSE IF i > Size(a.node) THEN Lost(a)
    ELSE AfterLeft(Into(a, i, min, max, root), i, min, max, root)
RebalanceAt(n, heap, i, min, max, root) ==
    BeforeLeft(rebalance_lb(n, heap, i, root), i, min, max, root)
rebalance_rec(n, heap, min, max, root) ==
    IF is_leaf(n) THEN [node |-> n, heap |-> heap]
    ELSE RebalanceAt(n, heap, Below(n.keys, min) + 1, min, max, root)

\* remove(node, min, max)
RangeRemoved(r, min, max) ==
    IF ~ r.rebalance THEN [node |-> r.node, heap |-> r.heap]
    ELSE IF ~ is_leaf(r.node) /\ Size(r.node) = 0
         THEN [node |-> Leaf(NewAddress(r.heap), <<>>), heap |-> create_leaf(r.heap, 0, 0)]
    ELSE rebalance_rec(r.node, r.heap, min, max, TRUE)
TreeAfterRange(tree, r, b) == [root |-> b.node, heap |-> b.heap, card |-> tree.card - r.removed]
RangeRebalanced(tree, r, min, max) == TreeAfterRange(tree, r, RangeRemoved(r, min, max))
remove_range(tree, min, max) ==
    RangeRebalanced(tree, remove_keys(tree.root, tree.heap, min, max), min, max)

-----------------------------------------------------------------------------
\* The leaf that a search ends in, going past the separators below the key, or also past
\* those equal to it.
RECURSIVE DescendBelow(_, _), DescendNotAbove(_, _)
DescendBelow(n, key) == IF is_leaf(n) THEN n ELSE DescendBelow(n.kids[Below(n.keys, key) + 1], key)
DescendNotAbove(n, key) ==
    IF is_leaf(n) THEN n ELSE DescendNotAbove(n.kids[NotAboveKey(n.keys, key) + 1], key)

LeafAt(tree, a) == CHOOSE leaf \in Range(LeavesOf(tree.root)) : leaf.id = a

\* find_any: an element with the key, or none.
find_any(tree, key) ==
    LET At(elems, i) == IF i <= Len(elems) /\ elems[i][1] = key THEN <<elems[i]>> ELSE <<>>
        In(elems) == At(elems, Below(KeysOf(elems), key) + 1)
    IN  In(DescendNotAbove(tree.root, key).elems)

\* find_first: the first element with the key, else its predecessor, else none.
FirstOfNext(tree, key, leaf, next) ==
    IF next # 0 /\ LeafAt(tree, next).elems[1][1] = key THEN <<LeafAt(tree, next).elems[1]>>
    ELSE <<leaf.elems[Size(leaf)]>>
FirstIn(tree, key, leaf, i) ==
    IF i <= Size(leaf) /\ leaf.elems[i][1] = key THEN <<leaf.elems[i]>>
    ELSE IF i = 1 THEN <<>>
    ELSE IF i > Size(leaf) THEN FirstOfNext(tree, key, leaf, tree.heap.links[leaf.id].next)
    ELSE <<leaf.elems[i - 1]>>
find_first(tree, key) ==
    LET In(leaf) == FirstIn(tree, key, leaf, Below(KeysOf(leaf.elems), key) + 1)
    IN  In(DescendBelow(tree.root, key))

\* find_last: from the right; where two in a row are the key, the first of the two.
RECURSIVE DescendLast(_, _)
DescendLast(n, key) ==
    LET i == NotAboveKey(n.keys, key)
        back == i < Len(n.keys) /\ i > 1 /\ n.keys[i - 1] = key
    IN  IF is_leaf(n) THEN n ELSE DescendLast(n.kids[IF back THEN i ELSE i + 1], key)
find_last(tree, key) ==
    LET At(elems, i) ==
            IF tree.card = 0 \/ i = 0 THEN <<>>
            ELSE IF i > 1 /\ elems[i - 1][1] = key THEN <<elems[i - 1]>>
            ELSE <<elems[i]>>
        In(elems) == At(elems, NotAboveKey(KeysOf(elems), key))
    IN  In(DescendLast(tree.root, key).elems)
=============================================================================
