----------------------------- MODULE DynamicIndex -----------------------------
(***************************************************************************)
(* pma/generic/dynamic_index.hpp as its clients see it: elements are        *)
(* inserted, removed one at a time or all those of a key, and looked for.   *)
(***************************************************************************)
EXTENDS BalancedTree, Bags

CONSTANTS
    Elements,          \* the <<key, value>> pairs inserted
    Keys,              \* the keys looked for and removed
    Starts,            \* sequences of elements, each inserted one by one in its first step
    Everything,        \* an interval <<min, max>> that holds all the keys
    MaxOps             \* bound on the number of updates

\* The lower bounds are half the upper ones.
DynamicIndexAssumption == InodeA = InodeB \div 2 /\ LeafA = LeafB \div 2

VARIABLES
    tree,              \* m_root, m_cardinality and the heap
    ret,               \* <<op, value>>: the last update and what it returned
    ops                \* number of updates

vars == <<tree, ret, ops>>

Init ==
    /\ tree = EmptyTree
    /\ ret = <<"new", -1>>
    /\ ops = 0

\* Once the heap is corrupt what the program does is undefined.
Updated(t, r) ==
    /\ tree.heap.ok /\ ops < MaxOps
    /\ ops' = ops + 1
    /\ \/ t.heap.ok /\ tree' = t /\ ret' = r
       \/ ~ t.heap.ok /\ tree' = [tree EXCEPT !.heap.ok = FALSE] /\ UNCHANGED ret

insert(e) == Updated(insert_key(tree, e), <<"insert", -1>>)

\* As many calls of insert in a row.
insert_all(start) == ops = 0 /\ Updated(FoldLeft(insert_key, EmptyTree, start), <<"load", -1>>)

UpdatedBy(r) == Updated(r.tree, <<"remove", IF r.out = <<>> THEN -1 ELSE r.out[1]>>)
remove_one(key) == UpdatedBy(remove_any(tree, key))

remove(key) == Updated(remove_range(tree, key, key), <<"remove_range", -1>>)

clear == Updated(EmptyTree, <<"remove_range", -1>>)

Done == (ops = MaxOps \/ ~ tree.heap.ok) /\ UNCHANGED vars

Next ==
    \/ \E start \in Starts : insert_all(start)
    \/ \E e \in Elements : insert(e)
    \/ \E key \in Keys : remove_one(key) \/ remove(key)
    \/ clear
    \/ Done

Spec == Init /\ [][Next]_vars

-----------------------------------------------------------------------------
Stored == ElementsOf(tree.root)

\* find_first and find_last lead to the greatest key that is not above the one they look
\* for, and find_first to the first element with it: the arrays route a key to its segment
\* with them, so after any splits, rotations and merges an index that leads too far right
\* hides the elements of a segment.
SearchesAgree ==
    tree.heap.ok /\ ~ Dangling(tree.heap) =>
        \A key \in Keys, stored \in {Stored} :
            LET below == {i \in DOMAIN stored : stored[i][1] <= key}
                exact == {i \in below : stored[i][1] = key}
            IN  IF below = {} THEN find_first(tree, key) = <<>> /\ find_last(tree, key) = <<>>
                ELSE /\ find_first(tree, key) = <<stored[IF exact # {} THEN Min(exact) ELSE Max(below)]>>
                     /\ \E e \in Range(find_last(tree, key)) : e[1] = stored[Max(below)][1]

\* The code asserts that rebalance_lb is given a child of the node: the heap is lost when it
\* is given the one that was merged away.
NeverPastTheChildren == tree.heap.ok

\* What the header says of find_last: the last entry. Of two entries in a row with the key
\* the code returns the first.
FindLastIsLast ==
    \A key \in Keys :
        LET exact == {i \in DOMAIN Stored : Stored[i][1] = key}
        IN  tree.heap.ok /\ exact # {} => find_last(tree, key) = <<Stored[Max(exact)]>>

\* What is inserted, removed and found is as the header describes; the cardinality is
\* part of what is read. A corrupt heap ends the run.
Reads ==
    [found |-> [key \in Keys |-> IF find_any(tree, key) = <<>> THEN -1 ELSE find_any(tree, key)[1][2]],
     visited |-> <<>>, sum |-> <<>>]
Map == INSTANCE OrderedCollection WITH
    content <- BagOf(Stored), reads <- Reads, Batches <- Starts,
    Intervals <- {<<key, key>> : key \in Keys} \union {Everything}
ImplementsMap == Map!Spec
=============================================================================
