------------------------------- MODULE DruiPMA -------------------------------
(***************************************************************************)
(* drui::PackedMemoryArray (pma/external/drui/pma_index.cpp) behind         *)
(* PMA_Drui (pma/external.cpp): a packed memory array with gaps anywhere    *)
(* inside a segment, a key of -1 marking a gap, and a DynamicIndex from the *)
(* least key of every segment to the segment.  Only insert is implemented;  *)
(* PMA_Drui raises an exception from every read.                            *)
(*                                                                         *)
(* The array is [slots, cap, count, index, size]: the elements or Gaps,     *)
(* segmentCapacity, segmentElementsCount, the index and numElements.  Where *)
(* a loop looks for the next element past the last one it reads past the    *)
(* window, and past the array at its end, and then uses nothing it read.    *)
(***************************************************************************)
EXTENDS Integers, SequencesExt, FiniteSetsExt

CONSTANTS
    Elements,                      \* the <<key, value>> pairs a client may insert
    Starts,                        \* sequences of elements inserted one after the other
    InitialCapacity,               \* the capacity given to the constructor, a power of two
    MaxElements,                   \* bound on the elements stored
    InodeA, InodeB, LeafA, LeafB   \* the bounds of the nodes of the index

\* A client never inserts the key that marks a gap, nor a key twice.
DruiPMAAssumption ==
    /\ \A e \in Elements : e[1] >= 0
    /\ InitialCapacity \in {2 ^ i : i \in 1 .. 16}

VARIABLES
    pma,       \* storage and index
    ret        \* <<op, value, number>>: the last update and how many there were

vars == <<pma, ret>>

T == INSTANCE BalancedTree

\* DynamicIndex (pma/external/drui/dynamic_index.hpp): the text of
\* pma/generic/dynamic_index.hpp repeated, its dumps left out; each method is the
\* operator of BalancedTree with its name.
index_create_leaf(heap, prev, next) == T!create_leaf(heap, prev, next)
index_delete_node(heap, ids) == T!delete_node(heap, ids)
index_lowerbound(n) == T!lowerbound(n)
index_clear == T!EmptyTree

index_split(n, heap, i) == T!split(n, heap, i)
index_split_root(root, heap) == T!split_root(root, heap)
index_insert_node(n, heap, e) == T!insert_node(n, heap, e)
index_insert(tree, e) == T!insert_key(tree, e)

index_merge(n, heap, i) == T!merge(n, heap, i)
index_rotate_right(n, heap, i, need) == T!rotate_right(n, heap, i, need)
index_rotate_left(n, heap, i, need) == T!rotate_left(n, heap, i, need)
index_rebalance_lb(n, heap, i, root) == T!rebalance_lb(n, heap, i, root)

index_remove_any_node(n, heap, key, follow, root) == T!remove_any_node(n, heap, key, follow, root)
index_remove_any(tree, key) == T!remove_any(tree, key)

\* No caller in the repository; the array only ever removes one entry at a time.
index_remove_subtrees(n, heap, i, length) == T!remove_subtrees(n, heap, i, length)
index_remove_keys(n, heap, min, max) == T!remove_keys(n, heap, min, max)
index_reduce_tree(r) == T!Reduced(r)
index_rebalance_rec(n, heap, min, max, root) == T!rebalance_rec(n, heap, min, max, root)
index_remove(tree, min, max) == T!remove_range(tree, min, max)

index_find_any(tree, key) == T!find_any(tree, key)
index_find_first(tree, key) == T!find_first(tree, key)
index_find_last(tree, key) == T!find_last(tree, key)

Gap == <<-1>>

NumSegments(st) == Len(st.count)
capacity(st) == Len(st.slots)
height(st) == CHOOSE h \in 1 .. 16 : 2 ^ (h - 1) = NumSegments(st)

\* PMA::PMA and allocSegments: one segment of gaps.
Init ==
    /\ pma = [slots |-> [i \in 1 .. InitialCapacity |-> Gap], cap |-> InitialCapacity, count |-> <<0>>,
              index |-> index_clear, size |-> 0]
    /\ ret = <<"new", -1, 0>>

\* The slots of segment s, which starts after slot s * cap.
Segment(st, s) == SubSeq(st.slots, s * st.cap + 1, (s + 1) * st.cap)
NonGaps(slots) == SelectSeq(slots, LAMBDA e : e # Gap)

\* The first key at or after the start of the segment.
getMinimum(st, s) == NonGaps(SubSeq(st.slots, s * st.cap + 1, capacity(st)))[1][1]
getSegmentCount(st, s) == st.count[s + 1]
indexFindLeq(st, key) ==
    LET e == index_find_first(st.index, key) IN IF e = <<>> THEN 0 ELSE e[1][2]
Reinserted(r, key) == index_insert(r.tree, <<key, IF r.out = <<>> THEN 0 ELSE r.out[1]>>)
updateIndex(st, oldKey, newKey) ==
    [st EXCEPT !.index = Reinserted(index_remove_any(@, oldKey), newKey)]

-----------------------------------------------------------------------------
insertEmpty(st, e) == [st EXCEPT !.slots[1] = e, !.count[1] = 1, !.size = 1]

\* The scan stops once it has seen the place of the key and a gap: the gap is the last one
\* before the place, or the first one after it.
lastGap(slots, pos) ==
    LET gaps == {i \in DOMAIN slots : slots[i] = Gap}
        before == {i \in gaps : i < pos}
    IN  IF before # {} THEN Max(before) ELSE Min(gaps)

\* insertCommon: the slots with the element, the gap moved to the place of the key.  The
\* result says whether no key of the segment is smaller.
GapMoved(slots, gap, pos, e) == InsertAt(RemoveAt(slots, gap), IF gap < pos THEN pos - 1 ELSE pos, e)
SlotsWith(slots, pos, e) == GapMoved(slots, lastGap(slots, pos), pos, e)
PlaceOf(st, slots, key) ==
    LET greater == {i \in DOMAIN slots : slots[i] # Gap /\ slots[i][1] > key}
    IN  IF greater = {} THEN st.cap + 1 ELSE Min(greater)
insertCommon(st, s, e) ==
    LET slots == Segment(st, s)
    IN  [st |-> [st EXCEPT !.slots = SubSeq(@, 1, s * st.cap) \o SlotsWith(slots, PlaceOf(st, slots, e[1]), e)
                                         \o SubSeq(@, (s + 1) * st.cap + 1, Len(@)),
                           !.count[s + 1] = @ + 1, !.size = @ + 1],
         minimum |-> \A i \in DOMAIN slots : slots[i] # Gap => slots[i][1] >= e[1]]

\* Mutant: the remainder is not dealt out.
SegmentElementsFloor(length, n) == [i \in 1 .. length |-> n \div length]

\* n elements over so many segments, the first ones with one more.
SegmentElements(length, n) == [i \in 1 .. length |-> n \div length + IF i <= n % length THEN 1 ELSE 0]

\* The elements dealt out from the first slot of every segment on.
Dealt(elements, counts, cap) ==
    FlattenSeq([i \in DOMAIN counts |->
        LET before == FoldLeft(+, 0, SubSeq(counts, 1, i - 1))
        IN  [j \in 1 .. cap |-> IF j <= counts[i] THEN elements[before + j] ELSE Gap]])

\* The entries of segments that were just dealt out: the first key of each.
WithMinima(tree, st, start, length) ==
    FoldLeft(LAMBDA t, i : index_insert(t, <<st.slots[(start + i - 1) * st.cap + 1][1], start + i - 1>>),
             tree, [i \in 1 .. length |-> i])

\* spread: the minima leave the index, the elements are dealt out again and the new minima
\* enter it.  The first slot of the window is copied whatever it holds.
WithoutMinima(st, start, length) ==
    FoldLeft(LAMBDA t, i : index_remove_any(t, getMinimum(st, start + i - 1)).tree,
             st.index, [i \in 1 .. length |-> i])
WindowElements(st, first, last) == <<st.slots[first]>> \o NonGaps(SubSeq(st.slots, first + 1, last))
DealtOut(st, start, length, first, last, counts) ==
    [st EXCEPT !.slots = SubSeq(@, 1, first - 1) \o Dealt(WindowElements(st, first, last), counts, st.cap)
                             \o SubSeq(@, last + 1, Len(@)),
               !.count = SubSeq(@, 1, start) \o counts \o SubSeq(@, start + length + 1, Len(@)),
               !.index = WithoutMinima(st, start, length)]
Indexed(st, start, length) == [st EXCEPT !.index = WithMinima(@, st, start, length)]
spread(st, n, start, length) ==
    Indexed(DealtOut(st, start, length, start * st.cap + 1, (start + length) * st.cap,
                     SegmentElements(length, n)), start, length)

\* resize: twice the capacity, in segments of the least power of two above its logarithm.
Log2(n) == CHOOSE i \in 0 .. 16 : 2 ^ i = n
hyperceil2(n) == Min({c \in {2 ^ i : i \in 0 .. 5} : c >= n})
Resized(st, cap, counts) ==
    [slots |-> Dealt(NonGaps(st.slots), counts, cap), cap |-> cap, count |-> counts,
     index |-> index_clear, size |-> st.size]
resize(st) ==
    LET cap == hyperceil2(Log2(2 * capacity(st)))
        length == (2 * capacity(st)) \div cap
    IN  Indexed(Resized(st, cap, SegmentElements(length, st.size)), 0, length)

\* getThresholds: theta = th - 0.25 * (height(st) - h) / height(st), over 100 * height(st).
getThresholds(st, h) == 75 * height(st) - 25 * (height(st) - h)

\* rebalance: the least window that is not too dense with the new element is spread
\* without it, or else the array is resized; with one segment theta is 1.
Start(s, h) == (s \div 2 ^ (h - 1)) * 2 ^ (h - 1)
After(st, s, h) == FoldLeft(+, 0, SubSeq(st.count, Start(s, h) + 1, Start(s, h) + 2 ^ (h - 1))) + 1
SparseWindows(st, s) ==
    {h \in 2 .. height(st) :
        After(st, s, h) * 100 * height(st) <= getThresholds(st, h) * 2 ^ (h - 1) * st.cap}
SpreadOver(st, s, h) == spread(st, After(st, s, h) - 1, Start(s, h), 2 ^ (h - 1))
rebalance(st, s) ==
    IF SparseWindows(st, s) = {} THEN resize(st) ELSE SpreadOver(st, s, Min(SparseWindows(st, s)))

\* insertElement: into the segment of the key, after a rebalance if it is full.
WithMinimum(st, s, r) ==
    IF r.minimum THEN updateIndex(r.st, getMinimum(st, s), getMinimum(r.st, s)) ELSE r.st
InsertInto(st, s, e) == WithMinimum(st, s, insertCommon(st, s, e))
InsertReady(st, e) == InsertInto(st, indexFindLeq(st, e[1]), e)
Ready(st, s) == IF getSegmentCount(st, s) = st.cap THEN rebalance(st, s) ELSE st
insertElement(st, e) ==
    IF st.size = 0 THEN [insertEmpty(st, e) EXCEPT !.index = index_insert(@, <<e[1], 0>>)]
    ELSE InsertReady(Ready(st, indexFindLeq(st, e[1])), e)

Stored(st) == NonGaps(st.slots)
Holds(st, key) == \E i \in DOMAIN st.slots : st.slots[i][1] = key

insert(e) ==
    /\ pma.size < MaxElements
    /\ ~ Holds(pma, e[1])
    /\ pma' = insertElement(pma, e)
    /\ ret' = <<"insert", -1, ret[3] + 1>>

\* As many insertions in a row.
insert_all(start) ==
    /\ pma.size = 0
    /\ pma' = FoldLeft(insertElement, pma, start)
    /\ ret' = <<"load", -1, ret[3] + 1>>

size(st) == capacity(st)

\* The client stops at the bound, or when it has inserted every key.
Done == (pma.size = MaxElements \/ \A e \in Elements : Holds(pma, e[1])) /\ UNCHANGED vars

Next ==
    \/ \E e \in Elements : insert(e)
    \/ \E start \in Starts : insert_all(start)
    \/ Done

Spec == Init /\ [][Next]_vars

-----------------------------------------------------------------------------
\* "Return the number of elements in the container": PMA_Drui::size gives the capacity.
SizeIsTheNumberOfElements == size(pma) = Len(Stored(pma))

\* Every key that was inserted is stored, and isSorted, which walks over the slots, would
\* say so: the gaps that insertCommon moves, the windows spread from their first slot and
\* the entries the index loses and gains never put a key into the wrong segment.
Everything == <<0, 1000>>
Reads == [found |-> <<>>, visited |-> [i \in {Everything} |-> Stored(pma)], sum |-> <<>>]
BagOf(seq) ==
    CHOOSE bag \in {[e \in Range(s) |-> Cardinality({i \in DOMAIN s : s[i] = e})] : s \in {seq}} : TRUE
Map == INSTANCE OrderedCollection WITH
           content <- BagOf(Stored(pma)), reads <- Reads, Batches <- Starts, Keys <- {}, Intervals <- {}
ImplementsMap == Map!Spec
=============================================================================
