-------------------------------- MODULE ABTree --------------------------------
(***************************************************************************)
(* abtree/abtree.cpp, the (a,b)-tree the arrays are compared with: insert,  *)
(* load into an empty tree, remove one element or all those of an interval, *)
(* permute the nodes in memory, find, scan along the links of the leaves,   *)
(* and sum.  Splits, merges and rotations are the text of BalancedTree.     *)
(* A missing minimum is -1 in this class: keys are not negative.            *)
(***************************************************************************)
EXTENDS Integers, SequencesExt, FiniteSetsExt, Bags

CONSTANTS
    InodeA, InodeB, LeafA, LeafB,   \* intnode_a, intnode_b, leaf_a, leaf_b
    Elements, Keys, Intervals,      \* what a client inserts, looks for and scans
    Batches,                        \* sequences of elements to load
    MaxPermuted,                    \* bound on the number of leaves that are permuted
    MaxOps                          \* bound on the number of updates

VARIABLES
    tree,              \* root, cardinality and the heap
    ret,               \* <<op, value>>: the last update and what it returned
    ops                \* number of updates

vars == <<tree, ret, ops>>

T == INSTANCE BalancedTree

ABTreeAssumption == T!TreeAssumption /\ Keys \subseteq Nat

-----------------------------------------------------------------------------
split(n, heap, i) == T!split(n, heap, i)
insert_key(t, e) == T!insert_key(t, e)
merge(n, heap, i) == T!merge(n, heap, i)
rotate_right(n, heap, i, need) == T!rotate_right(n, heap, i, need)
rotate_left(n, heap, i, need) == T!rotate_left(n, heap, i, need)
rebalance_lb(n, heap, i, root) == T!rebalance_lb(n, heap, i, root)
reduce_tree(n) == T!Reduced(n)
remove_subtrees(n, heap, i, length) == T!remove_subtrees(n, heap, i, length)
remove_keys(n, heap, min, max) == T!remove_keys(n, heap, min, max)
rebalance_rec(n, heap, min, max) == T!rebalance_rec(n, heap, min, max, TRUE)
remove_range(t, min, max) == T!remove_range(t, min, max)

\* remove(node, key)
remove_node(t, key) == T!remove_any_node(t.root, t.heap, key, FALSE, TRUE)

\* remove(key): only a value that is not negative counts, and shortens the tree.
RootWithout(r, value) ==
    IF value >= 0 /\ ~ T!is_leaf(r.node) /\ T!Size(r.node) = 1 THEN r.node.kids[1] ELSE r.node
TreeWithout(t, r, value) ==
    [tree |-> [root |-> RootWithout(r, value), heap |-> r.heap,
               card |-> IF value >= 0 THEN t.card - 1 ELSE t.card],
     value |-> value]
ValueOf(out) == IF out = <<>> THEN -1 ELSE out[1]
KeyRemoved(t, r) == TreeWithout(t, r, ValueOf(r.out))
remove_key(t, key) == KeyRemoved(t, remove_node(t, key))

find(t, key) ==
    LET out == T!find_any(t, key) IN IF out = <<>> THEN -1 ELSE out[1][2]

-----------------------------------------------------------------------------
\* n things in as few groups of at most b as possible, the larger ones first.
Groups(n, b) ==
    LET groups == (n + b - 1) \div b
        ends[i \in 0 .. groups] ==
            IF i = 0 THEN 0 ELSE ends[i - 1] + n \div groups + IF i <= n % groups THEN 1 ELSE 0
    IN  [i \in 1 .. groups |-> (ends[i - 1] + 1) .. ends[i]]

Slice(seq, range) == SubSeq(seq, Min(range), Max(range))

\* A load that leaves the last element out.
LoadForgets(elements) ==
    [root |-> T!Leaf(1, SubSeq(elements, 1, Min({LeafB, Len(elements) - 1}))),
     heap |-> T!create_leaf(T!NoHeap, 0, 0), card |-> Len(elements)]

\* propagate: levels of inner nodes above nodes and their least keys, up to one root.
RECURSIVE propagate(_)
propagate(nodes) ==
    LET groups == Groups(Len(nodes), InodeB)
        Above(g) == T!Inner([i \in 1 .. (Cardinality(g) - 1) |-> nodes[Min(g) + i][1]],
                            [i \in 1 .. Cardinality(g) |-> nodes[Min(g) + i - 1][2]])
    IN  IF Len(nodes) = 1 THEN nodes[1][2]
        ELSE propagate([g \in DOMAIN groups |-> <<nodes[Min(groups[g])][1], Above(groups[g])>>])

\* initialize_from_array: leaves that are evenly full, linked, and the levels above them.
initialize_from_array(elements) ==
    LET groups == Groups(Len(elements), LeafB)
        n == Len(groups)
        leaves == [i \in 1 .. n |-> T!Leaf(i, Slice(elements, groups[i]))]
    IN  IF Len(elements) <= LeafB THEN
            [root |-> T!Leaf(1, elements), heap |-> T!create_leaf(T!NoHeap, 0, 0), card |-> Len(elements)]
        ELSE
            [root |-> propagate([i \in 1 .. n |-> <<leaves[i].elems[1][1], leaves[i]>>]),
             heap |-> [links |-> [i \in 1 .. n |-> [prev |-> i - 1, next |-> IF i < n THEN i + 1 ELSE 0]],
                       ok |-> TRUE],
             card |-> Len(elements)]

\* Moved: the leaves change places and every pointer to them with them.
RECURSIVE Renamed(_, _)
Renamed(n, p) ==
    IF T!is_leaf(n) THEN [n EXCEPT !.id = p[n.id]]
    ELSE [n EXCEPT !.kids = [i \in DOMAIN n.kids |-> Renamed(n.kids[i], p)]]
Moved(t, p) ==
    LET To(a) == IF a = 0 THEN 0 ELSE p[a]
        links == t.heap.links
    IN  [t EXCEPT !.root = Renamed(t.root, p),
                  !.heap.links = [a \in DOMAIN links |->
                        LET old == CHOOSE b \in DOMAIN links : p[b] = a
                        IN  [prev |-> To(links[old].prev), next |-> To(links[old].next)]]]

\* With nodes of one size (common_memsize) inner nodes and leaves change places with each
\* other; only the addresses of the leaves are modelled.
MovedTogether(t, p) == IF T!is_leaf(t.root) THEN t ELSE Moved(t, p)

-----------------------------------------------------------------------------
\* Along the links from a leaf on, up to the first key above max.
RECURSIVE Chain(_, _, _, _)
Chain(t, a, min, max) ==
    IF a = 0 THEN <<>>
    ELSE LET elems == T!LeafAt(t, a).elems
         IN  SelectSeq(elems, LAMBDA e : min <= e[1] /\ e[1] <= max)
                \o IF elems[Len(elems)][1] > max THEN <<>>
                   ELSE Chain(t, t.heap.links[a].next, min, max)

\* leaf_scan: from the leaf of min on; of the next leaf nothing is below min.
leaf_scan(t, min, max) ==
    LET leaf == T!DescendBelow(t.root, min)
        next == t.heap.links[leaf.id].next
    IN  IF leaf.elems = <<>> THEN <<>>
        ELSE IF leaf.elems[Len(leaf.elems)][1] >= min THEN Chain(t, leaf.id, min, max)
        ELSE IF next = 0 \/ T!LeafAt(t, next).elems[1][1] < min THEN <<>>
        ELSE Chain(t, next, min, max)

Iterator(t, interval) == IF interval[1] > interval[2] THEN <<>> ELSE leaf_scan(t, interval[1], interval[2])

\* sum: where nothing is summed the first and the last key mean nothing.
sum(t, interval) ==
    LET s == IF interval[1] > interval[2] \/ t.card = 0 THEN <<>> ELSE leaf_scan(t, interval[1], interval[2])
    IN  [elements |-> Len(s),
         keys |-> FoldLeft(LAMBDA n, e : n + e[1], 0, s),
         values |-> FoldLeft(LAMBDA n, e : n + e[2], 0, s),
         first |-> IF s = <<>> THEN 0 ELSE s[1][1],
         last |-> IF s = <<>> THEN 0 ELSE s[Len(s)][1]]

-----------------------------------------------------------------------------
Init == tree = T!EmptyTree /\ ret = <<"new", -1>> /\ ops = 0

\* Once the heap is corrupt what the program does is undefined.
Updated(t, r) ==
    /\ tree.heap.ok /\ ops < MaxOps
    /\ ops' = ops + 1
    /\ \/ t.heap.ok /\ tree' = t /\ ret' = r
       \/ ~ t.heap.ok /\ tree' = [tree EXCEPT !.heap.ok = FALSE] /\ UNCHANGED ret

insert(e) == Updated(insert_key(tree, e), <<"insert", -1>>)

UpdatedBy(r) == Updated(r.tree, <<"remove", r.value>>)
remove(key) == UpdatedBy(remove_key(tree, key))

remove_interval(interval) ==
    Updated(remove_range(tree, interval[1], interval[2]), <<"remove_range", -1>>)

\* load: only into an empty tree, else it throws; the elements are sorted if they are not.
load(batch) ==
    /\ tree.card = 0
    /\ Updated(initialize_from_array(SortSeq(batch, LAMBDA e, f : e[1] < f[1])), <<"load", -1>>)

\* permute, called by build; a dangling link is looked up as any other address.
permute ==
    LET ids == DOMAIN tree.heap.links
    IN  /\ Cardinality(ids) <= MaxPermuted
        /\ ret[1] \in {"insert", "load"}
        /\ tree.heap.ok /\ ops < MaxOps
        /\ \E p \in {f \in [ids -> ids] : \A a, b \in ids : f[a] = f[b] => a = b} :
              IF T!Dangling(tree.heap) THEN tree' = [tree EXCEPT !.heap.ok = FALSE]
              ELSE tree' \in {Moved(tree, p), MovedTogether(tree, p)}
        /\ ops' = ops + 1 /\ UNCHANGED ret

Done == (ops = MaxOps \/ ~ tree.heap.ok) /\ UNCHANGED vars

Next ==
    \/ \E e \in Elements : insert(e)
    \/ \E key \in Keys : remove(key)
    \/ \E interval \in Intervals : remove_interval(interval)
    \/ \E batch \in Batches : load(batch)
    \/ permute
    \/ Done

Spec == Init /\ [][Next]_vars

-----------------------------------------------------------------------------
\* What is inserted, loaded and removed, and what find, the iterator and sum return, is as
\* pma/interface.hpp describes, whatever splits, merges, rotations and permutations it took;
\* scans are not looked at while a removed interval has left a link dangling.
Reads ==
    LET scanned == IF T!Dangling(tree.heap) THEN {} ELSE Intervals
    IN  [found |-> [key \in Keys |-> find(tree, key)],
         visited |-> [interval \in scanned |-> Iterator(tree, interval)],
         sum |-> [interval \in scanned |-> sum(tree, interval)]]
Map == INSTANCE OrderedCollection WITH
    content <- T!BagOf(T!ElementsOf(tree.root)), reads <- Reads
ImplementsMap == Map!Spec

\* sum asserts that the next leaf is not empty: the links of the leaves must not lead to a
\* leaf that a removal has emptied and freed.
NextLeafNotEmpty == ~ T!Dangling(tree.heap)

\* sanity_check, and the assertions of split: no node but the root has fewer than its lower
\* bound. The bounds that validate_bounds admits must be enough for it.
RECURSIVE WithinBounds(_)
WithinBounds(n) ==
    \A i \in DOMAIN n.kids : T!Size(n.kids[i]) >= T!lowerbound(n.kids[i]) /\ WithinBounds(n.kids[i])
SplitsWithinBounds == WithinBounds(tree.root)

\* sanity_check and the comments of the rotations: every child moves with its keys, and no
\* slot of a node is left unwritten.
RotationsMoveAll == tree.heap.ok
=============================================================================
