--------------------------------- MODULE Scan ---------------------------------
(***************************************************************************)
(* Range scans of the packed memory array: class Iterator                  *)
(* (pma/adaptive/int2/iterator.cpp) and do_sum (sum.cpp).                  *)
(*                                                                         *)
(* The elements of an even segment are at its right end and those of the   *)
(* following odd one at its left end, so that the two make one run; the    *)
(* other slots hold what was left in them.  Both scans search the slot of  *)
(* the first and of the last element in range, and go from run to run.     *)
(***************************************************************************)
EXTENDS Integers, Sequences, FiniteSets

CONSTANTS
    SegmentCapacity,   \* m_segment_capacity
    Storages,          \* [sizes, keys]: sizes per segment and the key in every slot
    Bounds             \* the minimum and maximum keys of the queries

VARIABLES
    storage,     \* the array scanned, one of Storages
    range,       \* <<min, max>>
    phase,       \* where the scan is
    segment,     \* m_next_segment of the iterator, segment_id of do_sum
    offset,      \* m_offset: the slot to visit next
    stop,        \* m_stop: the end of the current run
    end,         \* m_index_max: the end of the scan
    visited,     \* the slots visited, in order
    sum          \* what do_sum has accumulated

scan_vars == <<storage, range, phase, segment, offset, stop, end, visited, sum>>

Min2(a, b) == IF a < b THEN a ELSE b

NumberSegments(st) == Cardinality(DOMAIN st.sizes)

\* The slots of a segment that hold an element: FirstSlot .. EndSlot - 1.
FirstSlot(st, s) ==
    IF s % 2 = 0 THEN (s + 1) * SegmentCapacity - st.sizes[s] ELSE s * SegmentCapacity
EndSlot(st, s) ==
    IF s % 2 = 0 THEN (s + 1) * SegmentCapacity ELSE s * SegmentCapacity + st.sizes[s]
Holds(st, s, i) == FirstSlot(st, s) <= i /\ i < EndSlot(st, s)
Occupied(st) == {i \in DOMAIN st.keys : \E s \in DOMAIN st.sizes : Holds(st, s, i)}

\* An array at rest: no segment is empty, as WellFormed of PackedMemoryArray says, the
\* elements are sorted, and any other slot, the one before the array included, has any key.
IsArray(st) ==
    LET n == NumberSegments(st)
    IN  /\ n \in Nat \ {0}
        /\ n = 1 \/ n % 2 = 0
        /\ st.sizes \in [0 .. (n - 1) -> 1 .. SegmentCapacity]
        /\ st.keys \in [-1 .. (n * SegmentCapacity - 1) -> Int]
        /\ \A i, j \in Occupied(st) : i <= j => st.keys[i] <= st.keys[j]

ScanAssumption ==
    /\ SegmentCapacity \in Nat \ {0}
    /\ \A st \in Storages : IsArray(st)
    /\ Bounds \subseteq Int

\* m_index.find_first and find_last: see the module StaticIndex.
LastOf(S) == IF S = {} THEN 0 ELSE CHOOSE s \in S : \A t \in S : t <= s
find_first(st, key) == LastOf({s \in DOMAIN st.sizes : st.keys[FirstSlot(st, s)] < key})
find_last(st, key) == LastOf({s \in DOMAIN st.sizes : st.keys[FirstSlot(st, s)] <= key})

NotFound == [found |-> FALSE, segment |-> 0, offset |-> -1]

\* Mutant: the search does not go on in the next segment.
LowerBoundOneSegment(st, key) ==
    LET s == find_first(st, key)
        slots == {i \in FirstSlot(st, s) .. (EndSlot(st, s) - 1) : st.keys[i] >= key}
    IN  IF slots = {} THEN NotFound
        ELSE [found |-> TRUE, segment |-> s,
              offset |-> CHOOSE i \in slots : \A j \in slots : i <= j]

\* From the first segment on: the first slot whose key is not below the minimum.
LowerBound(st, key) ==
    LET In(s) == {i \in FirstSlot(st, s) .. (EndSlot(st, s) - 1) : st.keys[i] >= key}
        candidates == {s \in DOMAIN st.sizes : s >= find_first(st, key) /\ In(s) # {}}
        s == CHOOSE c \in candidates : \A d \in candidates : c <= d
    IN  IF candidates = {} THEN NotFound
        ELSE [found |-> TRUE, segment |-> s,
              offset |-> CHOOSE i \in In(s) : \A j \in In(s) : i <= j]

\* Mutant: the slot after the last one in range.
UpperBoundPast(st, key, from) ==
    LET In(s) == {i \in FirstSlot(st, s) .. (EndSlot(st, s) - 1) : st.keys[i] <= key}
        candidates == {s \in from .. find_last(st, key) : In(s) # {}}
        s == CHOOSE c \in candidates : \A d \in candidates : c >= d
    IN  IF candidates = {} THEN -1 ELSE 1 + CHOOSE i \in In(s) : \A j \in In(s) : i >= j

\* From the last segment back to the segment of the lower bound: the last slot whose key
\* is not above the maximum.  In an even segment the loop runs over one slot more than
\* it has elements, the one before the first, whatever it holds.  The segment of the lower
\* bound is never after find_last, unless its key is above the maximum.
UpperBound(st, key, from) ==
    LET Lowest(s) == IF s % 2 = 0 THEN FirstSlot(st, s) - 1 ELSE FirstSlot(st, s)
        In(s) == {i \in Lowest(s) .. (EndSlot(st, s) - 1) : st.keys[i] <= key}
        candidates == {s \in from .. find_last(st, key) : In(s) # {}}
        s == CHOOSE c \in candidates : \A d \in candidates : c >= d
    IN  IF candidates = {} THEN Lowest(from) - 1
        ELSE CHOOSE i \in In(s) : \A j \in In(s) : i >= j

\* The end of the run that a segment starts or is in: with its odd neighbour.
RunEnd(st, s) ==
    IF s % 2 = 0 /\ s + 1 < NumberSegments(st) THEN EndSlot(st, s + 1) ELSE EndSlot(st, s)

ScanStart ==
    /\ phase = "start"
    /\ segment = 0 /\ offset = 0 /\ stop = 0 /\ end = 0
    /\ visited = <<>>
    /\ sum = [m_num_elements |-> 0, m_sum_keys |-> 0]

ScanInit == storage \in Storages /\ range \in Bounds \X Bounds /\ ScanStart

Enter(kind) == phase = "start" /\ phase' = kind /\ UNCHANGED <<storage, range, visited, sum>>

\* A scan that visits nothing.
Empty == offset' = 0 /\ stop' = 0 /\ end' = 0 /\ UNCHANGED segment
-----------------------------------------------------------------------------
\* The constructor of Iterator; it raises when the segments are in the wrong order.
Iterator ==
    LET low == LowerBound(storage, range[1])
        high == UpperBound(storage, range[2], low.segment)
    IN  \/ /\ find_first(storage, range[1]) > find_last(storage, range[2])
           /\ Enter("raised")
           /\ Empty
        \/ /\ find_first(storage, range[1]) <= find_last(storage, range[2])
           /\ Enter("iterate")
           /\ \/ /\ ~ low.found \/ storage.keys[low.offset] > range[2] \/ high < low.offset
                 /\ Empty
              \/ /\ low.found /\ storage.keys[low.offset] <= range[2] /\ high >= low.offset
                 /\ segment' = low.segment + 1 +
                       (IF low.segment % 2 = 0 /\ low.segment + 1 < NumberSegments(storage)
                        THEN 1 ELSE 0)
                 /\ offset' = low.offset
                 /\ end' = high + 1
                 /\ stop' = Min2(high + 1, RunEnd(storage, low.segment))

\* next_sequence goes on after the pair of an even segment, or after an odd one.
NextSegment == IF segment % 2 = 0 THEN segment + 2 ELSE segment + 1

\* next(), which calls next_sequence at the end of a run.
next ==
    /\ phase = "iterate"
    /\ offset < stop
    /\ visited' = Append(visited, offset)
    /\ IF offset + 1 >= stop /\ segment < NumberSegments(storage)
       THEN /\ offset' = FirstSlot(storage, segment)
            /\ stop' = Min2(end, RunEnd(storage, segment))
            /\ segment' = NextSegment
       ELSE /\ offset' = offset + 1
            /\ UNCHANGED <<stop, segment>>
    /\ UNCHANGED <<storage, range, phase, end, sum>>
-----------------------------------------------------------------------------
\* do_sum, up to the loop.
do_sum ==
    LET low == LowerBound(storage, range[1])
        high == UpperBound(storage, range[2], low.segment)
        invalid == range[2] < range[1] \/
                   find_last(storage, range[2]) < find_first(storage, range[1])
    IN  /\ Enter("sum")
        /\ \/ /\ invalid \/ ~ low.found \/ storage.keys[low.offset] > range[2] \/ high < low.offset
              /\ Empty
           \/ /\ ~ invalid /\ low.found /\ storage.keys[low.offset] <= range[2]
              /\ high >= low.offset
              /\ segment' = low.segment
              /\ offset' = low.offset
              /\ end' = high + 1
              /\ stop' = Min2(high + 1, RunEnd(storage, low.segment))

\* The sum of the keys of a run.
RunSum(from, to) ==
    LET S[i \in from .. to] == IF i = from THEN 0 ELSE S[i - 1] + storage.keys[i - 1]
    IN  S[to]

\* segment_id of the next even segment.
NextEven == segment + 1 + (IF segment % 2 = 0 THEN 1 ELSE 0)

\* Past the last segment the code goes on counting; one number stands for them all.
PastLast == NumberSegments(storage) + 1

\* One run of the loop of do_sum.
SumRun ==
    /\ phase = "sum"
    /\ offset < end
    /\ sum' = [m_num_elements |-> sum.m_num_elements + (stop - offset),
               m_sum_keys |-> sum.m_sum_keys + RunSum(offset, stop)]
    /\ visited' = visited \o [i \in 1 .. (stop - offset) |-> offset + i - 1]
    /\ IF NextEven < NumberSegments(storage)
       THEN /\ segment' = NextEven
            /\ offset' = FirstSlot(storage, NextEven)
            /\ stop' = Min2(end, RunEnd(storage, NextEven))
       ELSE segment' = PastLast /\ offset' = stop /\ UNCHANGED stop
    /\ UNCHANGED <<storage, range, phase, end>>

Finished ==
    \/ phase = "raised"
    \/ phase = "iterate" /\ offset >= stop
    \/ phase = "sum" /\ offset >= end

Done == Finished /\ UNCHANGED scan_vars

ScanNext == Iterator \/ next \/ do_sum \/ SumRun \/ Done

\* A client that iterates goes on while hasNext(); the loop of do_sum runs on.
ScanSpec == ScanInit /\ [][ScanNext]_scan_vars /\ WF_scan_vars(next) /\ WF_scan_vars(SumRun)
-----------------------------------------------------------------------------
ScanTypeInv ==
    /\ phase \in {"start", "iterate", "sum", "raised"}
    /\ segment \in 0 .. (NumberSegments(storage) + 1)
    /\ {offset, stop, end} \subseteq 0 .. (NumberSegments(storage) * SegmentCapacity)
    /\ visited \in Seq(Occupied(storage))
    /\ sum \in [m_num_elements : Nat, m_sum_keys : Int]

\* The slots of the elements in range.
InRange ==
    {i \in Occupied(storage) : range[1] <= storage.keys[i] /\ storage.keys[i] <= range[2]}

Visited == {visited[i] : i \in DOMAIN visited}

\* The keys visited, added up.
VisitedKeys ==
    LET S[i \in 0 .. Len(visited)] == IF i = 0 THEN 0 ELSE S[i - 1] + storage.keys[visited[i]]
    IN  S[Len(visited)]

\* A scan visits elements in range, in key order, each once; it leaves none of them out, and
\* visits no slot that holds a leftover.
VisitsInRange ==
    /\ \A i, j \in DOMAIN visited : i < j => visited[i] < visited[j]
    /\ Visited \subseteq InRange
    /\ \A i \in InRange, j \in Visited : i < j => i \in Visited

\* A scan that ended has visited all the elements in range, and the sums are theirs.  The
\* iterator raises only for an empty range.
ScanComplete ==
    Finished =>
        /\ Visited = InRange
        /\ phase = "sum" =>
              sum = [m_num_elements |-> Cardinality(InRange), m_sum_keys |-> VisitedKeys]

\* The scan is correct on the way and at its end, whatever the unused slots hold.
ScanCorrect == ScanTypeInv /\ VisitsInRange /\ ScanComplete

\* Every scan that starts ends: no run is entered twice and none is empty.
ScanEnds == phase # "start" ~> Finished
=============================================================================
