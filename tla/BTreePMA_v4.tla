----------------------------- MODULE BTreePMA_v4 -----------------------------
(***************************************************************************)
(* class BTreePMA_v4 (pma/btree/btreepma_v4.cpp): a packed memory array     *)
(* whose index is a DynamicIndex from the least key of every segment to     *)
(* the segment.  A separator that changes is removed by its old key and     *)
(* inserted again; a window that is spread takes its separators out first   *)
(* and puts the new ones in last.  Nothing is ever removed from the array.  *)
(*                                                                         *)
(* The array is [segs, cap, index, card]: the elements of each segment,     *)
(* m_segment_capacity, the tree of BalancedTree and m_cardinality.  The     *)
(* capacity of the segments may grow with the array.                        *)
(***************************************************************************)
EXTENDS Segments

CONSTANTS
    Elements, Keys, Intervals,     \* as in BTreePMACC5
    MaxElements,                   \* bound on the elements stored
    Distinct,                      \* does the client insert a key only once?
    InodeA, InodeB, LeafA, LeafB   \* the bounds of the nodes of the index

VARIABLES
    pma,       \* m_storage and m_index
    fixed,     \* m_has_fixed_segment_capacity: which constructor was called
    ret        \* <<op, value, number>>: the last update, what it returned, and how many there were

vars == <<pma, fixed, ret>>

T == INSTANCE BalancedTree

\* BTreePMA_v4, PMA::PMA and alloc_workspace: one segment of STORAGE_MIN_CAPACITY slots
\* (here SegmentCapacity), or of the capacity the caller asks for (here the same).
Init ==
    /\ pma = [segs |-> [s \in {0} |-> <<>>], cap |-> SegmentCapacity, index |-> T!EmptyTree, card |-> 0]
    /\ fixed \in BOOLEAN
    /\ ret = <<"new", -1, 0>>

empty(st) == st.card = 0
get_minimum(st, s) == st.segs[s][1][1]
get_cardinality(st, s) == Len(st.segs[s])

\* The segment of the greatest separator that is not above the key, or segment 0; of equal
\* separators the first one, or the one that DynamicIndex::find_last gives.
index_find_leq(st, key) ==
    LET e == T!find_first(st.index, key) IN IF e = <<>> THEN 0 ELSE e[1][2]
index_find_geq(st, key) ==
    LET e == T!find_last(st.index, key) IN IF e = <<>> THEN 0 ELSE e[1][2]

\* index_update: the separator is removed by its key, and its segment inserted again.
Reinserted(r, key) == T!insert_key(r.tree, <<key, IF r.out = <<>> THEN 0 ELSE r.out[1]>>)
index_update(st, key_old, key_new) == [st EXCEPT !.index = Reinserted(T!remove_any(@, key_old), key_new)]

\* The loops of spread: remove_any of every minimum of the window, insert of the new ones.
WithoutSeparators(st, start, length) ==
    FoldLeft(LAMBDA tree, i : T!remove_any(tree, get_minimum(st, start + i - 1)).tree,
             st.index, [i \in 1 .. length |-> i])
WithSeparators(tree, st, start, length) ==
    FoldLeft(LAMBDA t, i : T!insert_key(t, <<get_minimum(st, start + i - 1), start + i - 1>>),
             tree, [i \in 1 .. length |-> i])

-----------------------------------------------------------------------------
insert_empty(st, e) == [st EXCEPT !.segs[0] = <<e>>, !.card = 1]

\* The array with the element, and whether it is the new minimum of its segment.
InsertedAt(st, s, e, i) ==
    [st |-> [st EXCEPT !.segs[s] = InsertAt(@, i, e), !.card = @ + 1], minimum |-> i = 1]
insert_common(st, s, e) ==
    InsertedAt(st, s, e, IF s % 2 = 0 THEN PositionBefore(st.segs[s], e[1])
                         ELSE PositionAfter(st.segs[s], e[1]))

\* thresholds, of a window of so many slots; with one segment theta is 1.
NotTooDense(st, height, n) ==
    LET slots == WindowLength(height) * st.cap
    IN  IF Height(st) = 1 THEN n <= slots
        ELSE n * Scale(Height(st)) <= Theta(Height(st), height) * slots

\* spread_insert_unsafe: a pair of segments copied out with the new element in it.
spread_insert_unsafe(elements, e) == InsertBefore(elements, e)

\* spread: the elements of the window, the new one in its pair of segments, shared out evenly.
WindowWith(st, start, length, pair, e) ==
    Window(st.segs, start, pair - start)
        \o spread_insert_unsafe(Window(st.segs, pair, 2), e)
        \o Window(st.segs, pair + 2, start + length - pair - 2)
Shared(st, start, length, elements) ==
    [st EXCEPT !.segs = Replaced(@, start, Dealt(elements, EvenSizes(length, Len(elements)))),
               !.card = @ + 1, !.index = WithoutSeparators(st, start, length)]
Indexed(st, start, length) == [st EXCEPT !.index = WithSeparators(@, st, start, length)]
spread(st, start, length, s, e) ==
    Indexed(Shared(st, start, length, WindowWith(st, start, length, 2 * (s \div 2), e)), start, length)

\* resize: the capacity doubles until no segment would be full, with segments of the
\* fixed capacity or of about log2 of the capacity; the index is built anew.
SegmentCapacityFor(st, capacity) ==
    IF fixed THEN st.cap
    ELSE Max({hyperceil(CHOOSE i \in 0 .. 16 : 2 ^ i = capacity), SegmentCapacity})
Fullest(n, segments) == n \div segments + IF n % segments > 0 THEN 1 ELSE 0
NewCapacity(st) ==
    Min({c \in {NumSegments(st) * st.cap * 2 ^ i : i \in 1 .. 4} :
            LET cap == SegmentCapacityFor(st, c) IN Fullest(st.card, c \div cap) # cap})
Resized(st, cap, length) ==
    Indexed([st EXCEPT !.cap = cap, !.segs = Dealt(Content(st), EvenSizes(length, st.card)),
                       !.index = T!EmptyTree], 0, length)
ResizedTo(st, capacity, cap) == Resized(st, cap, capacity \div cap)
resize(st) == ResizedTo(st, NewCapacity(st), SegmentCapacityFor(st, NewCapacity(st)))

\* The windows that would not be too dense with one element more.
SparseWindows(st, s) ==
    {h \in (IF Height(st) = 1 THEN {1} ELSE 2 .. Height(st)) :
        NotTooDense(st, h, SumSizes(st.segs, WindowOf(s, h)) + 1)}
SpreadOver(st, s, e, h) == spread(st, WindowStart(s, h), WindowLength(h), s, e)

\* Mutant: a resize is taken for an insertion.
RebalanceClaims(st, s, e) ==
    IF SparseWindows(st, s) = {} THEN [st |-> resize(st), inserted |-> TRUE]
    ELSE [st |-> SpreadOver(st, s, e, Min(SparseWindows(st, s))), inserted |-> TRUE]

\* rebalance: the least window that is not too dense with the new element.  The result
\* says whether the element was inserted.
rebalance(st, s, e) ==
    IF SparseWindows(st, s) = {} THEN [st |-> resize(st), inserted |-> FALSE]
    ELSE [st |-> SpreadOver(st, s, e, Min(SparseWindows(st, s))), inserted |-> TRUE]

\* Into the segment of the key, whose separator follows its minimum.
WithMinimum(st, s, r, key) == IF r.minimum THEN index_update(r.st, get_minimum(st, s), key) ELSE r.st
InsertInto(st, s, e) == WithMinimum(st, s, insert_common(st, s, e), e[1])

\* After a rebalance that did not insert the element its segment is looked up again.
Rebalanced(r, e) == IF r.inserted THEN r.st ELSE InsertInto(r.st, index_find_leq(r.st, e[1]), e)
InsertAtSegment(st, s, e) ==
    IF get_cardinality(st, s) < st.cap THEN InsertInto(st, s, e) ELSE Rebalanced(rebalance(st, s, e), e)
Inserted(st, e) ==
    IF empty(st) THEN [insert_empty(st, e) EXCEPT !.index = T!insert_key(@, <<e[1], 0>>)]
    ELSE InsertAtSegment(st, index_find_leq(st, e[1]), e)

insert(e) ==
    /\ pma.card < MaxElements
    /\ Distinct => \A i \in DOMAIN Content(pma) : Content(pma)[i][1] # e[1]
    /\ pma' = Inserted(pma, e)
    /\ ret' = <<"insert", -1, ret[3] + 1>>
    /\ UNCHANGED fixed

\* The client stops at the bound.
Done == pma.card = MaxElements /\ UNCHANGED vars

Next == (\E e \in Elements : insert(e)) \/ Done

Spec == Init /\ [][Next]_vars

-----------------------------------------------------------------------------
\* The value of the first element with the key in its segment, or -1.
find(st, key) ==
    LET Values == {LET i == FirstWith(st.segs[s], key) IN IF i = 0 THEN -1 ELSE st.segs[s][i][2] :
                      s \in {index_find_leq(st, key)}}
    IN  IF empty(st) THEN -1 ELSE CHOOSE v \in Values : TRUE

\* The elements of a range: the lower end is looked for from its segment on (tail), the
\* upper one back from its own (upto).
Between(tail, upto, interval) ==
    LET from == PositionBefore(tail, interval[1])
        to == PositionAfter(upto, interval[2]) - 1
    IN  IF from > Len(tail) THEN <<>>
        ELSE IF tail[from][1] > interval[2] \/ to < from THEN <<>> ELSE SubSeq(upto, from, to)
RangeOf(st, interval, first, last) ==
    CHOOSE r \in {Between(tail, upto, interval) :
                     tail \in {Window(st.segs, first, NumSegments(st) - first)},
                     upto \in {Window(st.segs, first, last - first + 1)}} : TRUE

\* (Sets of one member, here as elsewhere, make TLC evaluate an expression once.)
Scan(st, interval) ==
    CHOOSE r \in {RangeOf(st, interval, first, last) :
                     first \in {index_find_leq(st, interval[1])},
                     last \in {index_find_geq(st, interval[2])}} : TRUE

Iterator(st, interval) == IF empty(st) THEN <<>> ELSE Scan(st, interval)

sum(st, interval) ==
    IF interval[1] > interval[2] \/ empty(st) THEN SumOf(<<>>)
    ELSE IF index_find_geq(st, interval[2]) < index_find_leq(st, interval[1]) THEN SumOf(<<>>)
    ELSE CHOOSE r \in {SumOf(seq) : seq \in {Scan(st, interval)}} : TRUE

-----------------------------------------------------------------------------
\* With a key stored more than once the header leaves open only which of the elements find
\* returns: one is found for every key that is stored.  Equal separators make the index
\* remove the entry of another segment than the one that is spread.
DuplicatesAreFound ==
    \E st \in {pma} : \A s \in DOMAIN st.segs : \A i \in DOMAIN st.segs[s] : find(st, st.segs[s][i][1]) # -1

\* What is inserted is what find, the iterator and sum return, as pma/interface.hpp says:
\* after any number of spreads and resizes the separators that were removed and inserted
\* one by one lead to the segments that hold the keys.
Reads ==
    [found |-> [key \in Keys |-> find(pma, key)],
     visited |-> [interval \in {i \in Intervals : i[1] <= i[2]} |-> Iterator(pma, interval)],
     sum |-> [interval \in Intervals |-> sum(pma, interval)]]
Map == INSTANCE OrderedCollection WITH
           content <- BagOf(Content(pma)), reads <- Reads, Batches <- {}
ImplementsMap == Map!Spec
=============================================================================
