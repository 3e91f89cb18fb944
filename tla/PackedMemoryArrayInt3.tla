------------------------ MODULE PackedMemoryArrayInt3 ------------------------
(***************************************************************************)
(* class PackedMemoryArray of pma/adaptive/int3: the array that grows by   *)
(* extents beyond a cutoff, as PackedMemoryArray8 does, with the adaptive  *)
(* rebalancing of int2.  Methods whose text is that of PackedMemoryArray8  *)
(* are its operators.                                                      *)
(*                                                                         *)
(* A rebalance may meet any hammered intervals of Hammers: which ones the  *)
(* detector and Weights find is the subject of HammeredSegments and        *)
(* HammeredSegments3, and what the rewired spread does to the slots that   *)
(* of AdaptiveSpreadWithRewiring.                                          *)
(***************************************************************************)
EXTENDS AdaptiveRebalancing3

CONSTANTS
    Elements, Keys, Intervals,     \* as in BTreePMACC5
    MaxElements,                   \* bound on the elements stored
    SegmentsPerExtent, CutoffExtents, PrimaryRho0, RootDensity,   \* as in PackedMemoryArray8
    Hammers                        \* the hammered intervals considered, in percent of the window

VARIABLES
    pma,           \* m_storage and m_index
    ret,           \* <<op, value>>: the last update and what it returned, or -1
    apma           \* what AdaptiveRebalancing made of the last rebalance

vars == <<pma, ret, apma>>

P8 == INSTANCE PackedMemoryArray8

Init == P8!Init /\ apma = [partitions |-> <<>>, moves |-> <<>>, asserted |-> TRUE]

empty(st) == P8!empty(st)
balanced_thresholds_cutoff == P8!balanced_thresholds_cutoff
height(st) == P8!height(st)
hyperheight(st) == P8!hyperheight(st)
capacity(st) == P8!capacity(st)
get_minimum(st, s) == P8!get_minimum(st, s)
get_number_extents(st) == P8!get_number_extents(st)
alloc_workspace(st) == P8!use_rewired_memory(st)
extend(st, length) == P8!extend(st, length)
shrink(st, length) == P8!shrink(st, length)
storage_insert(st, s, e) == P8!storage_insert(st, s, e)
insert_empty(st, e) == P8!insert_empty(st, e)
get_thresholds(st, h) == P8!get_thresholds(st, h)

\* set_thresholds, of the number of segments that the array is going to have.
set_thresholds(length) ==
    [height |-> Min({h \in 1 .. 10 : 2 ^ (h - 1) >= length}),
     bounds |-> IF length > balanced_thresholds_cutoff
                THEN [rho_0 |-> PrimaryRho0, rho_h |-> RootDensity, theta_h |-> RootDensity, theta_0 |-> 100]
                ELSE [rho_0 |-> Rho0, rho_h |-> RhoH, theta_h |-> ThetaH, theta_0 |-> Theta0]]

rebalance_find_window(st, s, new) == P8!rebalance_find_window(st, s, new)

\* rebalance_plan: what to do, and with how many segments.
rebalance_plan(st, window, new, wasteful) ==
    IF ~ window.resize THEN [op |-> "rebalance", start |-> window.start, length |-> window.length]
    ELSE LET plan == IF new = <<>> THEN P8!PlanToShrink(st, wasteful) ELSE P8!PlanToGrow(st)
         IN  [op |-> IF plan.rewires THEN "resize_rebalance" ELSE "resize", start |-> 0, length |-> plan.length]

\* get_cardinality_after
cardinality_after(st, plan, new) ==
    Len(new) + IF plan.op = "rebalance" THEN Len(Window(st.segs, plan.start, plan.length)) ELSE st.card

\* What Weights may give for so many elements: two elements around a place, or a segment.
Interval(hammer, n) ==
    [m_start |-> ((n - hammer.length) * hammer.percent) \div 100, m_length |-> hammer.length,
     m_weight |-> hammer.weight, m_associated_segment |-> 0]
WeightsOf(hammers, n) ==
    IF n <= SegmentCapacity THEN <<>> ELSE [i \in DOMAIN hammers |-> Interval(hammers[i], n)]
BalanceOf(W) == FoldLeft(LAMBDA total, w : total + w.m_weight, 0, W)

\* rebalance_run_apma: with the thresholds that are to hold after the operation.
Recursion(thresholds, length, W, n) ==
    recursion(thresholds.bounds, thresholds.height, 0, length, W, BalanceOf(W), n)
WithWeights(thresholds, length, hammers, n) == Recursion(thresholds, length, WeightsOf(hammers, n), n)
rebalance_run_apma(st, plan, new, hammers) ==
    WithWeights(set_thresholds(IF plan.op = "rebalance" THEN NumSegments(st) ELSE plan.length),
                plan.length, hammers, cardinality_after(st, plan, new))

-----------------------------------------------------------------------------
\* The elements put into the segments of the window as the partitions say.
Dealt_out(st, start, elements, partitions) ==
    P8!C7!C5!WithSegments(st, start, Dealt(elements, PartitionSizes(partitions)),
        Len(elements) - Len(Window(st.segs, start, SegmentsIn(partitions))))

\* spread_insert_unsafe and spread_load: the new element goes into its pair of segments.
spread_insert_unsafe(elements, e) == InsertBefore(elements, e)
spread_load(st, start, length, s, new) == P8!C7!C5!Compacted(st, start, length, 2 * (s \div 2), new)
spread_save(st, start, elements, partitions) == Dealt_out(st, start, elements, partitions)
spread_local(st, plan, partitions, s, new) ==
    spread_save(st, plan.start, spread_load(st, plan.start, plan.length, s, new), partitions)

\* SpreadWithRewiring: from the last element on, the new one after those with its key.
SpreadWithRewiring(st, start, elements, partitions, new) ==
    Dealt_out(st, start, IF new = <<>> THEN elements ELSE InsertAfter(elements, new[1]), partitions)

\* The array extended to so many segments, its elements taken out, with the index of the plan.
Emptied(st, length) ==
    [segs |-> [s \in DOMAIN (IF length > NumSegments(st) THEN extend(st, length) ELSE st).segs |-> <<>>],
     seps |-> [s \in 0 .. (length - 1) |-> MinKey], card |-> 0]
resize_rebalance(st, plan, partitions, new) ==
    LET spreaded == SpreadWithRewiring(Emptied(st, plan.length), 0, Content(st), partitions, new)
    IN  IF plan.length < NumSegments(st) THEN shrink(spreaded, plan.length) ELSE spreaded

NewArray(elements, sizes) == P8!C7!C5!NewArray(Dealt(elements, sizes), Len(elements))

\* Mutant: the element is lost when it is greater than all the others.
ResizeForgets(st, plan, partitions, new) ==
    LET forgotten == new # <<>> /\ \A e \in Range(Content(st)) : e[1] < new[1][1]
    IN  IF forgotten THEN NewArray(Content(st), EvenSizes(plan.length, st.card))
        ELSE NewArray(IF new = <<>> THEN Content(st) ELSE spread_insert_unsafe(Content(st), new[1]),
                      PartitionSizes(partitions))

\* resize: a new workspace; the new element goes before the first one that is not smaller.
resize(st, plan, partitions, new) ==
    NewArray(IF new = <<>> THEN Content(st) ELSE spread_insert_unsafe(Content(st), new[1]),
             PartitionSizes(partitions))

do_rebalance(st, plan, partitions, s, new) ==
    IF plan.op = "resize" THEN resize(st, plan, partitions, new)
    ELSE IF plan.op = "resize_rebalance" THEN resize_rebalance(st, plan, partitions, new)
    ELSE IF plan.length < SegmentsPerExtent THEN spread_local(st, plan, partitions, s, new)
    ELSE SpreadWithRewiring(st, plan.start, Window(st.segs, plan.start, plan.length), partitions, new)

\* rebalance, and the rebalance that remove plans by itself; a failed assertion aborts it.
Apply(st, plan, s, new) ==
    \E hammers \in Hammers : \E result \in {rebalance_run_apma(st, plan, new, hammers)} :
        /\ apma' = result
        /\ pma' = IF result.asserted /\ Fit(result.partitions)
                  THEN do_rebalance(st, plan, result.partitions, s, new) ELSE pma
rebalance(st, s, new, wasteful) ==
    Apply(st, rebalance_plan(st, rebalance_find_window(st, s, new), new, wasteful), s, new)

insert_common(st, s, e) ==
    IF Len(st.segs[s]) = SegmentCapacity THEN rebalance(st, s, <<e>>, FALSE)
    ELSE pma' = P8!C7!C5!InsertInto(st, s, e) /\ UNCHANGED apma

insert(e) ==
    /\ pma.card < MaxElements
    /\ IF empty(pma) THEN pma' = insert_empty(pma, e) /\ UNCHANGED apma
       ELSE insert_common(pma, index_find(pma, e[1]), e)
    /\ ret' = IF apma'.asserted THEN <<"insert", -1>> ELSE ret

-----------------------------------------------------------------------------
minimum_size(st) == P8!minimum_size(st)

\* The array after a key of the segment was taken out: resized when it is far above the
\* cutoff and half empty, else the segment is rebalanced when it became too small.
HalfEmpty(st) == NumSegments(st) >= 2 * balanced_thresholds_cutoff /\ 2 * st.card < capacity(st)
TooSmall(st, s) == NumSegments(st) > 1 /\ Len(st.segs[s]) < minimum_size(st)
Shrunk(st, s, wasteful) ==
    IF HalfEmpty(st) \/ TooSmall(st, s)
    THEN Apply(st, rebalance_plan(st, IF HalfEmpty(st) THEN [resize |-> TRUE]
                                      ELSE rebalance_find_window(st, s, <<>>), <<>>, wasteful), s, <<>>)
    ELSE pma' = st /\ UNCHANGED apma

RemoveAtPosition(s, i) ==
    IF empty(pma) \/ i = 0 THEN ret' = <<"remove", -1>> /\ UNCHANGED <<pma, apma>>
    ELSE /\ \E wasteful \in BOOLEAN :
               IF pma.segs[s][i][2] = -1 THEN pma' = P8!C7!C5!Without(pma, s, i) /\ UNCHANGED apma
               ELSE Shrunk(P8!C7!C5!Without(pma, s, i), s, wasteful)
         /\ ret' = IF apma'.asserted THEN <<"remove", pma.segs[s][i][2]>> ELSE ret
RemoveFrom(s, key) == RemoveAtPosition(s, FirstWith(pma.segs[s], key))
remove(key) == RemoveFrom(index_find(pma, key), key)

find(st, key) == P8!find(st, key)
Iterator(st, interval) == P8!Iterator(st, interval)
sum(st, interval) == P8!sum(st, interval)

Next ==
    \/ apma.asserted /\ \E e \in Elements : insert(e)
    \/ apma.asserted /\ \E key \in Keys : remove(key)

Spec == Init /\ [][Next]_vars

-----------------------------------------------------------------------------
Reads ==
    [found |-> [key \in Keys |-> find(pma, key)],
     visited |-> [interval \in {i \in Intervals : i[1] <= i[2]} |-> Iterator(pma, interval)],
     sum |-> [interval \in Intervals |-> sum(pma, interval)]]
Map == INSTANCE OrderedCollection WITH
           content <- BagOf(Content(pma)), reads <- Reads, Batches <- {}

\* Whatever intervals are hammered when a window is rebalanced or the array resized, across
\* the cutoff and back, the array is the collection that pma/interface.hpp describes.
ImplementsMap == Map!Spec

\* Where every half can be given what it must and may have, no part of a window, its
\* segments a power of two or not, is given more elements than it has slots or fewer than
\* it has segments: the assertions of AdaptiveRebalancing::emit.
PartitionsFit == Fit(apma.partitions)

\* The assertion of AdaptiveRebalancing::validate_thresholds: for the windows that the
\* density thresholds of an insertion select, some split suits both halves.
SplitsExist == apma.asserted
=============================================================================
