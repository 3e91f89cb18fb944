---------------------------- MODULE SpreadInPlace ----------------------------
(***************************************************************************)
(* BTreePMACC5::spread and load_merge_multi (pma/btree/btreepmacc5.cpp) at *)
(* the level of slots.  Both rebalance a window in place: its last         *)
(* elements are copied out to a buffer (chunk 2), the others are moved to  *)
(* the end of the window (chunk 1), and the segments are filled again from *)
(* the left, from chunk 1, from chunk 2 and from the batch that is loaded. *)
(* The output runs after the input in the same memory.                     *)
(*                                                                         *)
(* Elements have no identity here: the question is whether one is still    *)
(* where it is read from.  The even segment of a pair has its elements at  *)
(* the right end, the odd one at the left end.                             *)
(***************************************************************************)
EXTENDS Integers, FiniteSetsExt

CONSTANTS
    SegmentCapacity,   \* m_segment_capacity
    Windows,           \* the sizes of the segments of the window: functions on 0 .. length - 1
    BatchSizes         \* the sizes of the run that load_merge_multi loads

SpreadInPlaceAssumption ==
    /\ SegmentCapacity \in Nat \ {0} /\ BatchSizes \subseteq Nat
    /\ \A w \in Windows :
          LET length == Cardinality(DOMAIN w)
          IN  /\ IsFiniteSet(DOMAIN w) /\ length > 0 /\ length % 2 = 0
              /\ w \in [0 .. (length - 1) -> 0 .. SegmentCapacity]

VARIABLES
    call,       \* [op, length, batch, insert]: spread or merge, and its arguments
    sizes,      \* the sizes of the segments, as they were
    phase,      \* "compact", "fill" or "done"
    pair,       \* output_segment_id while compacting, i while filling
    left,       \* the elements of the pair not moved yet: output_current - output_start
    chunk2,     \* the elements in chunk 2
    chunk1,     \* the elements in chunk 1
    output,     \* output_current: the slot to write next
    read,       \* the elements of the two chunks read so far
    loaded      \* sequence_current: the elements of the batch written so far

vars == <<call, sizes, phase, pair, left, chunk2, chunk1, output, read, loaded>>

Inserted == IF call.insert >= 0 THEN 1 ELSE 0

\* The elements of a pair of segments, and the slot of the first one.
PairSize(size, p) == size[p] + size[p + 1]
PairStart(size, p) == (p + 1) * SegmentCapacity - size[p]

\* The elements of the first n segments, for every n.
SizeBefore(size, length) ==
    LET S[n \in 0 .. length] == IF n = 0 THEN 0 ELSE S[n - 1] + size[n - 1] IN S

cardinality == SizeBefore(sizes, call.length)[call.length] + call.batch + Inserted

elements_per_segment == cardinality \div call.length

\* The new sizes, the remainder given to the first segments.
NewSizes ==
    [s \in DOMAIN sizes |-> elements_per_segment + IF s < cardinality % call.length THEN 1 ELSE 0]

\* Mutant: room for one segment and not for a pair.
ChunkTooSmall ==
    IF call.op = "spread" THEN 4 * SegmentCapacity + 1
    ELSE SegmentCapacity

\* input_chunk2_capacity
input_chunk2_capacity ==
    IF call.op = "spread" THEN 4 * SegmentCapacity + 1
    ELSE 2 * (SegmentCapacity + call.length \div (elements_per_segment + 1))

\* A spread is for an insertion into a full segment or after a removal; a merge needs room
\* for all the elements.
Init ==
    /\ sizes \in Windows
    /\ \/ \E s \in DOMAIN sizes \union {-1} :
             /\ s >= 0 => sizes[s] = SegmentCapacity
             /\ call = [op |-> "spread", length |-> Cardinality(DOMAIN sizes), batch |-> 0, insert |-> s]
       \/ \E n \in BatchSizes :
             call = [op |-> "merge", length |-> Cardinality(DOMAIN sizes), batch |-> n, insert |-> -1]
    /\ cardinality <= call.length * SegmentCapacity
    /\ phase = "compact"
    /\ pair = call.length - 2
    /\ left = PairSize(sizes, pair)
    /\ chunk2 = 0 /\ chunk1 = 0 /\ output = 0 /\ read = 0 /\ loaded = 0

-----------------------------------------------------------------------------
\* Does the new element go into this pair?
InsertsHere == call.insert \in {pair, pair + 1}

\* Go on with the pair before, or start to fill.
NextPair(moved) ==
    IF left > moved THEN left' = left - moved /\ UNCHANGED <<pair, phase, output>>
    ELSE /\ pair' = IF pair = 0 THEN 0 ELSE pair - 2
         /\ phase' = IF pair = 0 THEN "fill" ELSE "compact"
         /\ left' = IF pair = 0 THEN 0 ELSE PairSize(sizes, pair - 2)
         /\ output' = IF pair = 0 THEN PairStart(NewSizes, 0) ELSE output

\* Is there room in chunk 2?  A spread copies the last four segments, a merge as many
\* elements as fit.
CopiesOut ==
    IF call.op = "spread" THEN pair >= call.length - 4 ELSE chunk2 < input_chunk2_capacity

\* Elements of the last pairs are copied out to chunk 2.
CopyOut ==
    LET moved == IF call.op = "spread" THEN left ELSE Min({left, input_chunk2_capacity - chunk2})
    IN  /\ phase = "compact"
        /\ CopiesOut
        /\ chunk2' = chunk2 + moved + IF InsertsHere THEN 1 ELSE 0
        /\ NextPair(moved)
        /\ UNCHANGED <<call, sizes, chunk1, read, loaded>>

\* The others are moved to the end of the window.
MoveToEnd ==
    /\ phase = "compact"
    /\ ~ CopiesOut
    /\ chunk1' = chunk1 + left + IF InsertsHere THEN 1 ELSE 0
    /\ NextPair(left)
    /\ UNCHANGED <<call, sizes, chunk2, read, loaded>>

\* The end of the pair being filled, the elements in the two chunks, where chunk 1 starts.
output_end == PairStart(NewSizes, pair) + PairSize(NewSizes, pair)
Input == chunk1 + chunk2
Chunk1Start == call.length * SegmentCapacity - chunk1

\* After an element is written: the next slot, the next pair, or the end.
Advance(n) ==
    IF output + n < output_end THEN output' = output + n /\ UNCHANGED <<pair, phase>>
    ELSE /\ pair' = pair + 2
         /\ phase' = IF pair + 2 = call.length THEN "done" ELSE "fill"
         /\ output' = IF pair + 2 = call.length THEN output_end ELSE PairStart(NewSizes, pair + 2)

\* What is left of the chunk being read, or of the pair being filled.
elements2copy ==
    Min({output_end - output, (IF read < chunk1 THEN chunk1 ELSE Input) - read})

\* One element of chunk 1 or 2 while there is a batch to merge it with, else a block.
FillFromChunk ==
    LET n == IF loaded < call.batch THEN 1 ELSE elements2copy
    IN  /\ phase = "fill" /\ output < output_end
        /\ read < Input
        /\ read' = read + n
        /\ Advance(n)
        /\ UNCHANGED <<call, sizes, left, chunk2, chunk1, loaded>>

\* An element of the batch, which may be smaller than all that is left in the chunks.
FillFromBatch ==
    /\ phase = "fill" /\ output < output_end
    /\ loaded < call.batch
    /\ loaded' = loaded + 1
    /\ Advance(1)
    /\ UNCHANGED <<call, sizes, left, chunk2, chunk1, read>>

\* A pair that gets no element.
SkipPair ==
    /\ phase = "fill" /\ output >= output_end
    /\ Advance(0)
    /\ UNCHANGED <<call, sizes, left, chunk2, chunk1, read, loaded>>

Done == phase = "done" /\ UNCHANGED vars

Next == CopyOut \/ MoveToEnd \/ FillFromChunk \/ FillFromBatch \/ SkipPair \/ Done

Spec == Init /\ [][Next]_vars

-----------------------------------------------------------------------------
\* The slots the output has written: the pairs filled and the one being filled.
Written ==
    IF phase = "compact" THEN {}
    ELSE (UNION {PairStart(NewSizes, p) .. (PairStart(NewSizes, p) + PairSize(NewSizes, p) - 1) :
                    p \in {q \in 0 .. (pair - 2) : q % 2 = 0}})
         \union (IF phase = "fill" THEN PairStart(NewSizes, pair) .. (output - 1) ELSE {})

\* An element is always still where it is read from: the output never reaches an element
\* of chunk 1 that has not been read, not even when all of the batch comes first.  The pair
\* that is moved to the end of the window is not copied onto itself (memcpy, and the loop of
\* spread_insert_unsafe).  The block that fills a pair may be, when few elements were copied
\* out, but always to lower slots: memcpy has to copy it in increasing order.
UnreadInPlace ==
    /\ \A i \in read .. (chunk1 - 1) : Chunk1Start + i \notin Written
    /\ phase = "compact" /\ ~ CopiesOut =>
          PairStart(sizes, pair) + left <= Chunk1Start - left - IF InsertsHere THEN 1 ELSE 0
    /\ phase = "fill" /\ read < chunk1 => output <= Chunk1Start + read

\* The buffer is large enough, the elements of the window all reach it or chunk 1, and the
\* sizes computed before account for every element read and loaded when the window is full.
AllAccounted ==
    /\ chunk2 <= input_chunk2_capacity
    /\ phase # "compact" => Input + call.batch = cardinality
    /\ phase = "done" => read = Input /\ loaded = call.batch

\* The compaction and the redistribution share the window safely: nothing is overwritten
\* before it is read, and everything read reaches the output.
InPlaceSafe == UnreadInPlace /\ AllAccounted
=============================================================================
