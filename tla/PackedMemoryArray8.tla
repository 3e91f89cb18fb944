-------------------------- MODULE PackedMemoryArray8 --------------------------
(***************************************************************************)
(* class PackedMemoryArray8 (pma/btree/08): a clustered packed memory      *)
(* array that grows by doubling up to a cutoff and by extents beyond it,   *)
(* where its primary density bounds replace the user's.  The number of     *)
(* segments is then no power of two and the calibrator tree is re-aligned  *)
(* to the end of the array.                                                *)
(*                                                                         *)
(* Methods whose text is that of BTreePMACC5 or BTreePMACC7 are their      *)
(* operators; what the rewired spread does to the slots is the subject of  *)
(* BulkSpreadWithRewiring, what spread_local does that of SpreadInPlace.   *)
(***************************************************************************)
EXTENDS Segments

CONSTANTS
    Elements, Keys, Intervals,     \* as in BTreePMACC5
    MaxElements,                   \* bound on the elements stored
    SegmentsPerExtent,             \* get_segments_per_extent()
    CutoffExtents,                 \* 64 in balanced_thresholds_cutoff()
    PrimaryRho0, RootDensity       \* rho_0, and rho_h and theta_h, of m_density_bounds1: 0 and 75

\* An array just above the cutoff that shrinks to it has room for its elements, as it has
\* with a cutoff of 64 extents and 75%.  A window that is not too sparse has an element for
\* each of its segments, which a capacity of 32 gives with a lower bound of 0 at the leaves.
PackedMemoryArray8Assumption ==
    /\ SegmentsPerExtent \in {2 ^ i : i \in 1 .. 10}
    /\ (CutoffExtents + 2) * RootDensity <= CutoffExtents * 100

VARIABLES
    pma,     \* m_storage and m_index
    ret      \* <<op, value>>: the last update and what it returned, or -1

vars == <<pma, ret>>

C7 == INSTANCE BTreePMACC7 WITH Batches <- {}, alive <- TRUE
Primary == INSTANCE Segments WITH Rho0 <- PrimaryRho0, RhoH <- RootDensity, ThetaH <- RootDensity, Theta0 <- 100

Init == C7!C5!Init

empty(st) == st.card = 0
get_minimum(st, s) == C7!get_minimum(st, s)
balanced_thresholds_cutoff == CutoffExtents * SegmentsPerExtent

\* floor and ceiling of log2 of the number of segments, plus one, up to 512 segments.
height(st) == Max({h \in 1 .. 10 : 2 ^ (h - 1) <= NumSegments(st)})
hyperheight(st) == Min({h \in 1 .. 10 : 2 ^ (h - 1) >= NumSegments(st)})
capacity(st) == NumSegments(st) * SegmentCapacity

\* alloc_workspace: rewired memory from one extent on, which extend and shrink keep.
use_rewired_memory(st) == NumSegments(st) >= SegmentsPerExtent

get_number_extents(st) ==
    IF use_rewired_memory(st) THEN NumSegments(st) \div SegmentsPerExtent ELSE 1

\* get_thresholds: the bounds cached by set_thresholds at the last resize, for hyperheight.
get_thresholds(st, h) ==
    IF NumSegments(st) > balanced_thresholds_cutoff
    THEN [rho |-> Primary!Rho(hyperheight(st), h), theta |-> Primary!Theta(hyperheight(st), h)]
    ELSE [rho |-> Rho(hyperheight(st), h), theta |-> Theta(hyperheight(st), h)]

storage_insert(st, s, e) == C7!storage_insert_unsafe(st, s, e)
insert_empty(st, e) == C7!insert_empty(st, e)

-----------------------------------------------------------------------------
\* rebalance_find_window: the window at a height, re-aligned to the end of the array.
AlignedStart(st, s, h) == Min({WindowStart(s, h), NumSegments(st) - WindowLength(h)})
CardinalityAfter(st, s, h, new) ==
    SumSizes(st.segs, AlignedStart(st, s, h) .. (AlignedStart(st, s, h) + WindowLength(h) - 1)) + Len(new)

\* With a single segment rho is 0 and theta is 1.
Balanced(st, s, h, new) ==
    LET n == CardinalityAfter(st, s, h, new)
        slots == WindowLength(h) * SegmentCapacity
        bounds == get_thresholds(st, h)
    IN  IF height(st) = 1 THEN n <= SegmentCapacity
        ELSE IF new = <<>> THEN n * Scale(hyperheight(st)) >= bounds.rho * slots
        ELSE n * Scale(hyperheight(st)) <= bounds.theta * slots

rebalance_find_window(st, s, new) ==
    LET balanced == {h \in (IF height(st) = 1 THEN {1} ELSE 2 .. height(st)) : Balanced(st, s, h, new)}
        h == Min(balanced)
    IN  IF balanced = {} THEN [resize |-> TRUE, start |-> 0, length |-> 0]
        ELSE [resize |-> FALSE, start |-> AlignedStart(st, s, h), length |-> WindowLength(h)]

CeilDiv(a, b) == (a + b - 1) \div b

\* rebalance_plan, resize on insertion: twice the segments below the cutoff, and as many
\* extents as the ideal number of segments, one more at least, from there on.
PlanToGrow(st) ==
    LET n == NumSegments(st)
        ideal == Max({CeilDiv((st.card + 1) * 100, RootDensity * SegmentCapacity), n + 1})
        extents == CeilDiv(ideal, SegmentsPerExtent)
        added == IF extents = get_number_extents(st) THEN extents + 1 ELSE extents
    IN  IF ideal < balanced_thresholds_cutoff
        THEN [length |-> 2 * n, rewires |-> 2 * n > SegmentsPerExtent]
        ELSE [length |-> added * SegmentsPerExtent, rewires |-> TRUE]

\* rebalance_plan, resize on deletion.  An array that is not rewired, or whose memory has
\* too many extents and buffers to spare (wasteful), is copied into a new one.
PlanToShrink(st, wasteful) ==
    LET n == NumSegments(st)
        ideal == (st.card * 100) \div (RootDensity * SegmentCapacity)
        extents == ideal \div SegmentsPerExtent
        fewer == IF extents = get_number_extents(st) THEN extents - 1 ELSE extents
    IN  IF fewer * SegmentsPerExtent <= balanced_thresholds_cutoff
        THEN IF n > balanced_thresholds_cutoff
             THEN [length |-> balanced_thresholds_cutoff, rewires |-> TRUE]
             ELSE [length |-> n \div 2, rewires |-> FALSE]
        ELSE [length |-> fewer * SegmentsPerExtent,
              rewires |-> use_rewired_memory(st) /\ ~ wasteful]

\* Mutant: the element is not put into the last segment when no segment ends above it.
InsertForgets(st, new) ==
    IF new = <<>> THEN st ELSE C7!C5!InsertResizedForgets(st, new[1], C7!C5!EndingAbove(st, new[1][1]))
ResizeForgets(st, length, new) == InsertForgets(C7!C5!SharedAnew(Content(st), length), new)

\* resize: all the elements shared out evenly over a new workspace; the new one goes into
\* the first segment that ends above it, or into the last one.
resize(st, length, new) == C7!C5!Resized(C7!C5!SharedAnew(Content(st), length), new)

\* SpreadWithRewiring: the elements over the extents, and over the segments of each.
update_segment_sizes(length, n) == C7!segment_sizes(length, n)
update_index(st, window, new) == C7!update_index(st, window, new)
spread_window(st, start, length, elements) ==
    [st EXCEPT !.segs = Replaced(@, start, Dealt(elements, update_segment_sizes(length, Len(elements))))]
SpreadWithRewiring(st, start, length, elements, new) ==
    update_index(spread_window(st, start, length, elements), start .. (start + length - 1), new)

\* Storage::extend and shrink, to so many segments.
extend(st, length) ==
    [st EXCEPT !.segs = [s \in 0 .. (length - 1) |-> IF s < NumSegments(st) THEN @[s] ELSE <<>>]]
shrink(st, length) == [st EXCEPT !.segs = [s \in 0 .. (length - 1) |-> @[s]]]

\* resize_rebalance: extend, rebuild the index, spread from the last element on, shrink.
resize_rebalance(st, length, new) ==
    LET extended == IF length > NumSegments(st) THEN extend(st, length) ELSE st
        rebuilt == [extended EXCEPT !.seps = [s \in 0 .. (length - 1) |-> MinKey]]
        spreaded == SpreadWithRewiring(rebuilt, 0, length, Content(st), new)
    IN  IF length < NumSegments(st) THEN shrink(spreaded, length) ELSE spreaded

\* spread_local: a window inside an extent, rebalanced in place with the new element in it.
spread_local(st, start, length, s, new) == C7!spread_two_copies(st, start, length, s, new)

do_rebalance(st, window, plan, s, new) ==
    IF window.resize
    THEN IF plan.rewires THEN resize_rebalance(st, plan.length, new) ELSE resize(st, plan.length, new)
    ELSE IF window.length < SegmentsPerExtent THEN spread_local(st, window.start, window.length, s, new)
    ELSE SpreadWithRewiring(st, window.start, window.length, Window(st.segs, window.start, window.length), new)

rebalance(st, s, new, wasteful) ==
    do_rebalance(st, rebalance_find_window(st, s, new),
                 IF new = <<>> THEN PlanToShrink(st, wasteful) ELSE PlanToGrow(st), s, new)

insert_common(st, s, e) ==
    IF Len(st.segs[s]) = SegmentCapacity THEN rebalance(st, s, <<e>>, FALSE)
    ELSE C7!C5!InsertInto(st, s, e)

insert(e) ==
    /\ pma.card < MaxElements
    /\ pma' = IF empty(pma) THEN insert_empty(pma, e)
              ELSE insert_common(pma, index_find(pma, e[1]), e)
    /\ ret' = <<"insert", -1>>

-----------------------------------------------------------------------------
minimum_size(st) ==
    Max({1, (get_thresholds(st, 1).rho * SegmentCapacity) \div Scale(hyperheight(st))})

\* The array after a key of the segment was taken out: resized when less than half full,
\* else the segment is rebalanced when it became too small.
Shrunk(st, s, wasteful) ==
    IF NumSegments(st) = 1 THEN st
    ELSE IF 2 * st.card < capacity(st)
    THEN do_rebalance(st, [resize |-> TRUE], PlanToShrink(st, wasteful), s, <<>>)
    ELSE IF Len(st.segs[s]) < minimum_size(st) THEN rebalance(st, s, <<>>, wasteful) ELSE st

remove(key) ==
    LET s == index_find(pma, key)
        i == FirstWith(pma.segs[s], key)
        value == pma.segs[s][i][2]
        removed == [set_separator_key(pma, s, C7!C5!SeparatorWithout(pma, s, i))
                        EXCEPT !.segs[s] = RemoveAt(@, i), !.card = @ - 1]
    IN  IF empty(pma) \/ i = 0 THEN ret' = <<"remove", -1>> /\ UNCHANGED pma
        ELSE /\ ret' = <<"remove", value>>
             /\ \E wasteful \in BOOLEAN :
                   pma' = IF value = -1 THEN removed ELSE Shrunk(removed, s, wasteful)

find(st, key) == C7!find(st, key)
Iterator(st, interval) == C7!Iterator(st, interval)
sum(st, interval) == C7!sum(st, interval)

Next == (\E e \in Elements : insert(e)) \/ (\E key \in Keys : remove(key))

Spec == Init /\ [][Next]_vars

-----------------------------------------------------------------------------
Reads ==
    [found |-> [key \in Keys |-> find(pma, key)],
     visited |-> [interval \in {i \in Intervals : i[1] <= i[2]} |-> Iterator(pma, interval)],
     sum |-> [interval \in Intervals |-> sum(pma, interval)]]
Map == INSTANCE OrderedCollection WITH
           content <- BagOf(Content(pma)), reads <- Reads, Batches <- {}

\* Across the cutoff, in both directions, what is inserted and removed, and what find, the
\* iterator and sum return, is as pma/interface.hpp describes: no resize, re-aligned window
\* or insertion after a spread loses an element or leaves a separator that hides one.
ImplementsMap == Map!Spec
=============================================================================
