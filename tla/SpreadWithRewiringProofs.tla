------------------------ MODULE SpreadWithRewiringProofs ------------------------
(***************************************************************************)
(* The rewired spread of int2 never overwrites an element that is still to *)
(* be read, in either direction, and has given back every buffer when it   *)
(* ends: for every capacity, extent and window, and whatever partitions    *)
(* the adaptive strategy asks for.                                         *)
(*                                                                         *)
(* Two facts carry the proof.  An extent is written in place only when the *)
(* input is past it, and a buffer replaces an extent only once it is; so   *)
(* what is unread is never touched.  And what is to be written is what is  *)
(* to be read, with the new element: the input ends with the output, past  *)
(* every extent that waits to be rewired.                                  *)
(***************************************************************************)
EXTENDS SpreadWithRewiring, WellFoundedInduction, FiniteSetTheorems, TLAPS

-----------------------------------------------------------------------------
(* Sums *)

(* Every non-empty set of natural numbers has a least element. *)
LEMMA LeastNatural ==
    ASSUME NEW T \in SUBSET Nat, T # {}
    PROVE  \E m \in T : \A k \in T : m <= k
<1> DEFINE R == OpToRel(<, Nat)
<1>1. \A x, y \in Nat : y < x => <<y, x>> \in R
  BY DEF OpToRel
<1>2. IsWellFoundedOn(R, Nat)
  BY NatLessThanWellFounded
<1> HIDE DEF R
<1>3. PICK m \in T : \A k \in T : ~ (<<k, m>> \in R)
  BY <1>2, WFMin, Zenon
<1>4. \A k \in T : ~ (k < m)
  BY <1>1, <1>3
<1> QED
  BY <1>4

(* What it is for a function to give the sums of the first numbers of a sequence. *)
AreSums(g, f, n) ==
    /\ g \in [0 .. n -> Nat] /\ g[0] = 0
    /\ \A i \in 1 .. n : g[i] = g[i - 1] + f[i]

(* There is such a function. *)
LEMMA SumsExist ==
    ASSUME NEW f \in Seq(Nat)
    PROVE  \E g : AreSums(g, f, Len(f))
<1> DEFINE T == {k \in Nat : k <= Len(f) /\ ~ \E g : AreSums(g, f, k)}
<1>0. Len(f) \in Nat /\ \A i \in 1 .. Len(f) : f[i] \in Nat
  OBVIOUS
<1> SUFFICES ASSUME T # {} PROVE FALSE
  BY <1>0
<1>1. PICK m \in T : \A k \in T : m <= k
  BY LeastNatural
<1>2. m # 0
  <2>1. AreSums([i \in 0 .. 0 |-> 0], f, 0)
    BY DEF AreSums
  <2> QED
    BY <2>1
<1>3. m \in Nat /\ m <= Len(f) /\ m - 1 \in Nat /\ m - 1 <= Len(f) /\ ~ (m <= m - 1) /\ m \in 1 .. Len(f)
  BY <1>0, <1>2
<1>4. PICK g : AreSums(g, f, m - 1)
  BY <1>1, <1>3
<1> DEFINE h == [i \in 0 .. m |-> IF i <= m - 1 THEN g[i] ELSE g[m - 1] + f[m]]
<1>5. AreSums(h, f, m)
  <2>1. g \in [0 .. (m - 1) -> Nat] /\ g[0] = 0 /\ \A i \in 1 .. (m - 1) : g[i] = g[i - 1] + f[i]
    BY <1>4 DEF AreSums
  <2>2. f[m] \in Nat /\ g[m - 1] \in Nat
    BY <1>0, <1>3, <2>1
  <2>3. h \in [0 .. m -> Nat] /\ h[0] = 0
    BY <1>3, <2>1, <2>2
  <2>4. ASSUME NEW i \in 1 .. m PROVE h[i] = h[i - 1] + f[i]
    BY <1>3, <2>1
  <2> QED
    BY <2>3, <2>4 DEF AreSums
<1> HIDE DEF h
<1> QED
  BY <1>1, <1>5

(* The recursion of Sums defines it. *)
LEMMA SumsAre ==
    ASSUME NEW f \in Seq(Nat)
    PROVE  AreSums(Sums(f), f, Len(f))
<1> DEFINE Eq(S) == S = [n \in 0 .. Len(f) |-> IF n = 0 THEN 0 ELSE S[n - 1] + f[n]]
           S == Sums(f)
<1>0. Len(f) \in Nat /\ \A i \in 1 .. Len(f) : f[i] \in Nat
  OBVIOUS
<1>1. PICK g : AreSums(g, f, Len(f))
  BY SumsExist
<1>2. Eq(g)
  BY <1>0, <1>1 DEF AreSums
<1>3. S = CHOOSE h : Eq(h)
  BY DEF Sums
<1> HIDE DEF Eq, S
<1>4. Eq(S)
  BY <1>2, <1>3
<1>5. DOMAIN S = 0 .. Len(f) /\ S[0] = 0 /\ \A i \in 1 .. Len(f) : S[i] = S[i - 1] + f[i]
  BY <1>0, <1>4 DEF Eq
<1>6. S = [n \in 0 .. Len(f) |-> S[n]]
  BY <1>4 DEF Eq
<1> DEFINE T == {k \in Nat : k <= Len(f) /\ S[k] \notin Nat}
<1>7. T = {}
  <2> SUFFICES ASSUME T # {} PROVE FALSE
    OBVIOUS
  <2>1. PICK m \in T : \A k \in T : m <= k
    BY LeastNatural
  <2>2. m # 0
    BY <1>5
  <2>3. m - 1 \in Nat /\ m - 1 <= Len(f) /\ ~ (m <= m - 1) /\ m \in 1 .. Len(f)
    BY <1>0, <2>2
  <2>4. S[m - 1] \in Nat
    BY <2>1, <2>3
  <2>5. f[m] \in Nat /\ S[m] = S[m - 1] + f[m]
    BY <1>0, <1>5, <2>3
  <2> QED
    BY <2>1, <2>4, <2>5
<1>8. \A k \in 0 .. Len(f) : S[k] \in Nat
  BY <1>0, <1>7
<1>9. S \in [0 .. Len(f) -> Nat]
  BY <1>6, <1>8
<1> QED
  BY <1>5, <1>9 DEF AreSums, S

(* Sums grow with the number of summands. *)
LEMMA SumsGrow ==
    ASSUME NEW f \in Seq(Nat), NEW i \in 0 .. Len(f), NEW j \in 0 .. Len(f), i <= j
    PROVE  Sums(f)[i] <= Sums(f)[j]
<1> DEFINE S == Sums(f)
           n == Len(f)
           T == {k \in Nat : i <= k /\ k <= n /\ ~ S[i] <= S[k]}
<1>0. n \in Nat /\ \A k \in 1 .. n : f[k] \in Nat
  OBVIOUS
<1>1. (\A k \in 0 .. n : S[k] \in Nat) /\ \A k \in 1 .. n : S[k] = S[k - 1] + f[k]
  BY SumsAre DEF AreSums
<1>2. i \in Nat /\ i <= n /\ j \in Nat /\ j <= n
  BY <1>0
<1> HIDE DEF S, n
<1>3. S[i] <= S[j]
  <2> SUFFICES ASSUME T # {} PROVE FALSE
    BY <1>2
  <2>1. PICK m \in T : \A k \in T : m <= k
    BY LeastNatural
  <2>2. m \in Nat /\ i <= m /\ m <= n /\ ~ S[i] <= S[m]
    OBVIOUS
  <2>3. m # i
    BY <1>0, <1>1, <1>2, <2>2
  <2>4. m - 1 \in Nat /\ i <= m - 1 /\ m - 1 <= n /\ m \in 1 .. n
    BY <1>0, <1>2, <2>2, <2>3
  <2>5. ~ m <= m - 1
    BY <2>2
  <2>6. S[i] <= S[m - 1]
    BY <2>1, <2>4, <2>5
  <2>7. S[m] = S[m - 1] + f[m] /\ f[m] \in Nat /\ S[m - 1] \in Nat /\ S[i] \in Nat /\ S[m] \in Nat
    BY <1>0, <1>1, <1>2, <2>4
  <2> QED
    BY <2>2, <2>6, <2>7
<1> QED
  BY <1>3 DEF S

(* Zeros do not change a sum. *)
LEMMA SumsStay ==
    ASSUME NEW f \in Seq(Nat), NEW i \in 0 .. Len(f), NEW j \in 0 .. Len(f), i <= j,
           \A k \in 1 .. Len(f) : i < k /\ k <= j => f[k] = 0
    PROVE  Sums(f)[j] = Sums(f)[i]
<1> DEFINE S == Sums(f)
           n == Len(f)
           T == {k \in Nat : i <= k /\ k <= j /\ S[k] # S[i]}
<1>0. n \in Nat /\ \A k \in 1 .. n : i < k /\ k <= j => f[k] = 0
  OBVIOUS
<1>1. (\A k \in 0 .. n : S[k] \in Nat) /\ \A k \in 1 .. n : S[k] = S[k - 1] + f[k]
  BY SumsAre DEF AreSums
<1>2. i \in Nat /\ i <= n /\ j \in Nat /\ j <= n
  BY <1>0
<1> HIDE DEF S, n
<1>3. S[j] = S[i]
  <2> SUFFICES ASSUME T # {} PROVE FALSE
    BY <1>2
  <2>1. PICK m \in T : \A k \in T : m <= k
    BY LeastNatural
  <2>2. m \in Nat /\ i <= m /\ m <= j /\ S[m] # S[i]
    OBVIOUS
  <2>3. m # i
    BY <2>2
  <2>4. m - 1 \in Nat /\ i <= m - 1 /\ m - 1 <= j /\ m \in 1 .. n /\ i < m
    BY <1>0, <1>2, <2>2, <2>3
  <2>5. ~ m <= m - 1
    BY <2>2
  <2>6. S[m - 1] = S[i]
    BY <2>1, <2>4, <2>5
  <2>7. f[m] = 0 /\ S[m] = S[m - 1] + f[m]
    BY <1>0, <1>1, <2>2, <2>4
  <2>8. m - 1 \in 0 .. n /\ S[m - 1] \in Nat
    BY <1>0, <1>1, <1>2, <2>2, <2>4
  <2> QED
    BY <2>2, <2>6, <2>7, <2>8
<1> QED
  BY <1>3 DEF S

-----------------------------------------------------------------------------
(* The invariant *)

WindowEnd == WindowStart + WindowLength

Pairs == {s \in Window : s % 2 = 0}

(* The elements of the window before a segment, as the spread finds them. *)
Before(s) ==
    Sums([i \in 1 .. WindowEnd |-> IF i - 1 \in Window THEN case.sizes[i - 1] ELSE 0])[s]

(* A pair of segments is one run: where it begins and ends. *)
RunBegin(b) == SegmentBegin(case.sizes, b)
RunEnd(b) == (b + 1) * Capacity + case.sizes[b + 1]

(* The segments, and the elements they get, before the cursor into the partitions. *)
IsCursor(c) ==
    /\ c \in [id : 0 .. Len(case.partitions), offset : Nat]
    /\ IF c.id = Len(case.partitions) THEN c.offset = 0
       ELSE c.offset < case.partitions[c.id + 1].m_segments

SegmentsBefore(c) == Sums(SegmentsOf(case.partitions))[c.id] + c.offset

TargetBefore(c) ==
    Sums(ElementsOf(case.partitions))[c.id] +
        IF c.id = Len(case.partitions) THEN 0
        ELSE LET p == case.partitions[c.id + 1]
             IN  c.offset * (p.m_cardinality \div p.m_segments)
                    + Min2(c.offset, p.m_cardinality % p.m_segments)

Target == Sums(ElementsOf(case.partitions))[Len(case.partitions)]

(* The elements of the pair of segments at the cursor. *)
PairTarget == get_partition_current + get_partition_next

Inserting == IF m_insert_segment = NotSet THEN 0 ELSE 1

(* The elements that the spread still has to write. *)
Todo ==
    IF case.move_backwards
    THEN CASE pc = "copy" -> TargetBefore(Cursor) + output.run
           [] pc = "reclaim" /\ extent_id = 0 -> 0
           [] OTHER -> TargetBefore(Cursor) + PairTarget
    ELSE Target - TargetBefore(Cursor) - IF pc = "copy" THEN PairTarget - output.run ELSE 0

(* The cursor is at the segment that the output has come to. *)
CursorPlaced ==
    /\ IsCursor(Cursor)
    /\ pc \in {"pair", "copy"} =>
          SegmentsBefore(Cursor) = extent_id * SegmentsPerExtent + pair
    /\ pc \in {"extent", "reclaim"} =>
          IF case.move_backwards
          THEN LET behind == IF pc = "extent" THEN SegmentsPerExtent - 2 ELSE -2
               IN  extent_id * SegmentsPerExtent + behind >= 0 =>
                      SegmentsBefore(Cursor) = extent_id * SegmentsPerExtent + behind
          ELSE SegmentsBefore(Cursor) =
                  (extent_id + IF pc = "extent" THEN 0 ELSE 1) * SegmentsPerExtent

(* A position with this many elements still to be read: in a run, or at the end of the    *)
(* window.                                                                                *)
PositionIs(position, left) ==
    /\ position \in Nat
    /\ IF case.move_backwards
       THEN \/ position = WindowStart * Capacity /\ left = 0
            \/ \E b \in Pairs : /\ RunBegin(b) < position /\ position <= RunEnd(b)
                                /\ left = Before(b) + (position - RunBegin(b))
       ELSE \/ position = WindowEnd * Capacity /\ left = 0
            \/ \E b \in Pairs : /\ RunBegin(b) <= position /\ position < RunEnd(b)
                                /\ left = (RunEnd(b) - position) + (Before(WindowEnd) - Before(b + 2))

(* The same of the run that is being read. *)
InputIs(in, left) ==
    /\ in \in [segment : Int, displacement : Nat, run : Nat]
    /\ IF case.move_backwards
       THEN \/ in.displacement = WindowStart * Capacity /\ in.run = 0 /\ left = 0 /\ in.segment < WindowStart
            \/ \E b \in Pairs : /\ in.segment = b /\ in.displacement = RunBegin(b) /\ in.run > 0
                                /\ in.displacement + in.run <= RunEnd(b)
                                /\ left = Before(b) + in.run
       ELSE \/ in.displacement = WindowEnd * Capacity /\ in.run = 0 /\ left = 0 /\ in.segment >= WindowEnd
            \/ \E b \in Pairs : /\ in.segment \in {b, b + 1} /\ in.run > 0 /\ RunBegin(b) <= in.displacement
                                /\ in.displacement + in.run = RunEnd(b)
                                /\ left = in.run + (Before(WindowEnd) - Before(b + 2))

(* Where the elements that are still to be read start or, from right to left, end. *)
InputEnd(in) == in.displacement + IF case.move_backwards THEN in.run ELSE 0

Frontier == IF pc \in {"pair", "copy", "reclaim"} THEN InputEnd(input) ELSE m_position

(* Everything that is still to be read is there. *)
InputIntact == \A p \in UnreadSlots : keys[p] = case.keys[p]

(* The extents that were given buffers are among those written; without a buffer the     *)
(* extent being written is behind the input.                                             *)
BuffersPlaced ==
    /\ m_extents_to_rewire \in
          Seq([m_extent_id : 0 .. (NumExtents - 1), buffer : [0 .. (ExtentSlots - 1) -> Int]])
    /\ pc = "extent" =>
          \A i \in 1 .. Len(m_extents_to_rewire) :
              IF case.move_backwards THEN m_extents_to_rewire[i].m_extent_id > extent_id
              ELSE m_extents_to_rewire[i].m_extent_id < extent_id
    /\ pc \in {"pair", "copy", "reclaim"} =>
          \A i \in 1 .. Len(m_extents_to_rewire) :
              IF case.move_backwards THEN m_extents_to_rewire[i].m_extent_id >= extent_id
              ELSE m_extents_to_rewire[i].m_extent_id <= extent_id
    /\ pc \in {"pair", "copy"} /\ ~ OutputToBuffer =>
          IF case.move_backwards THEN Frontier <= get_offset(extent_id)
          ELSE get_offset(extent_id + 1) <= Frontier

(* The pair that is being written lies in its extent. *)
OutputPlaced ==
    /\ extent_id \in 0 .. (NumExtents - 1)
    /\ pc \in {"pair", "copy"} => pair \in 0 .. (SegmentsPerExtent - 2) /\ pair % 2 = 0
    /\ pc = "copy" =>
          /\ output \in [displacement : Nat, run : Nat]
          /\ output.run <= PairTarget
          /\ pair * Capacity <= output.displacement
          /\ output.displacement + output.run <= (pair + 2) * Capacity

Walking ==
    /\ CursorPlaced
    /\ OutputPlaced
    /\ IF pc = "extent" THEN PositionIs(m_position, Todo - Inserting)
       ELSE InputIs(input, Todo - Inserting)
    /\ InputIntact

SpreadInv ==
    /\ case \in Cases
    /\ TypeInv
    /\ m_insert_segment \in Window \union {NotSet}
    /\ case.move_backwards => m_insert_segment = NotSet
    /\ BuffersPlaced
    /\ pc # "done" => m_segment_sizes = case.sizes
    /\ pc \in {"extent", "pair", "copy", "reclaim"} => Walking
    /\ pc \in {"finish", "done"} => m_extents_to_rewire = <<>>

-----------------------------------------------------------------------------
(* Slots *)

(* A quotient is the number of whole divisors that fit. *)
LEMMA Quotient ==
    ASSUME NEW x \in Int, NEW d \in Nat \ {0}, NEW q \in Int
    PROVE  /\ x \div d \in Int
           /\ q * d <= x /\ x < (q + 1) * d <=> x \div d = q
           /\ x < q * d <=> x \div d < q
<1>1. x \div d \in Int /\ x % d \in 0 .. (d - 1) /\ x = d * (x \div d) + (x % d)
  OBVIOUS
<1> DEFINE e == x \div d
           r == x % d
<1> HIDE DEF e, r
<1>2. e \in Int /\ r \in 0 .. (d - 1) /\ x = d * e + r
  BY <1>1 DEF e, r
<1>3. ASSUME e < q PROVE x < q * d
  <2>1. (e + 1) * d <= q * d
    BY <1>2, <1>3
  <2> QED
    BY <1>2, <2>1
<1>4. ASSUME e > q PROVE (q + 1) * d <= x
  <2>1. (q + 1) * d <= e * d
    BY <1>2, <1>4
  <2> QED
    BY <1>2, <2>1
<1>5. ASSUME e = q PROVE q * d <= x /\ x < (q + 1) * d
  BY <1>2, <1>5
<1>6. q * d < (q + 1) * d /\ q * d \in Int /\ (q + 1) * d \in Int
  OBVIOUS
<1> QED
  BY <1>2, <1>3, <1>4, <1>5, <1>6 DEF e

(* What the constants are. *)
GoodConstants ==
    /\ Capacity \in Nat \ {0} /\ SegmentsPerExtent \in Nat \ {0} /\ SegmentsPerExtent >= 2
    /\ WindowStart \in Nat /\ WindowLength \in Nat \ {0}
    /\ NumExtents \in Nat \ {0} /\ WindowLength = NumExtents * SegmentsPerExtent
    /\ SegmentsPerExtent % 2 = 0 /\ WindowStart % 2 = 0 /\ WindowEnd % 2 = 0
    /\ WindowEnd \in Nat /\ WindowStart < WindowEnd

(* The assumptions give these: extents hold whole pairs of segments, and tile the window. *)
LEMMA Constants ==
    ASSUME SpreadAssumption, CallersAssumption
    PROVE  GoodConstants
<1> DEFINE E == SegmentsPerExtent
<1>1. /\ Capacity \in Nat \ {0} /\ E \in Nat \ {0} /\ WindowStart \in Nat /\ WindowLength \in Nat \ {0}
      /\ WindowLength % E = 0 /\ WindowStart % E = 0 /\ E % 2 = 0
  BY DEF SpreadAssumption, CallersAssumption
<1>2. NumExtents = WindowLength \div E
  BY DEF NumExtents
<1> HIDE DEF E
<1>3. NumExtents \in Nat /\ WindowLength = NumExtents * E
  BY <1>1, <1>2
<1>4. NumExtents # 0
  BY <1>1, <1>3
<1>5. PICK h \in Nat : E = 2 * h
  BY <1>1
<1>6. PICK k \in Nat : WindowStart = k * E
  <2>1. WindowStart \div E \in Nat /\ WindowStart = (WindowStart \div E) * E
    BY <1>1
  <2> QED
    BY <2>1
<1>7. WindowStart = 2 * (k * h) /\ WindowLength = 2 * (NumExtents * h)
  BY <1>3, <1>5, <1>6
<1>8. k * h \in Nat /\ NumExtents * h \in Nat
  BY <1>3
<1>9. \A n \in Nat : (2 * n) % 2 = 0
  OBVIOUS
<1>10. WindowStart % 2 = 0 /\ WindowEnd % 2 = 0
  <2>1. WindowEnd = 2 * (k * h + NumExtents * h) /\ k * h + NumExtents * h \in Nat
    BY <1>7, <1>8 DEF WindowEnd
  <2> QED
    BY <1>7, <1>8, <1>9, <2>1
<1>11. E >= 2
  BY <1>1
<1> QED
  BY <1>1, <1>3, <1>4, <1>10, <1>11 DEF GoodConstants, WindowEnd, E

(* The slots of an extent start at its offset. *)
LEMMA ExtentOrder ==
    ASSUME GoodConstants, NEW p \in Int, NEW e \in Int
    PROVE  /\ position2extent(p) \in Int
           /\ get_offset(e) \in Int /\ get_offset(e + 1) = get_offset(e) + ExtentSlots
           /\ p < get_offset(e) <=> position2extent(p) < e
<1> DEFINE x == p - WindowStart * Capacity
           y == x \div Capacity
<1>1. /\ Capacity \in Nat \ {0} /\ SegmentsPerExtent \in Nat \ {0} /\ WindowStart \in Nat
      /\ position2extent(p) = y \div SegmentsPerExtent
      /\ get_offset(e) = WindowStart * Capacity + e * (SegmentsPerExtent * Capacity)
      /\ get_offset(e + 1) = WindowStart * Capacity + (e + 1) * (SegmentsPerExtent * Capacity)
      /\ ExtentSlots = SegmentsPerExtent * Capacity
  BY DEF GoodConstants, position2extent, get_offset, ExtentSlots
<1>2. x \in Int /\ WindowStart * Capacity \in Int
  BY <1>1
<1> HIDE DEF x
<1>3. y \in Int /\ \A q \in Int : x < q * Capacity <=> y < q
  BY <1>1, <1>2, Quotient
<1> HIDE DEF y
<1>4. y \div SegmentsPerExtent \in Int /\ (y < e * SegmentsPerExtent <=> y \div SegmentsPerExtent < e)
  BY <1>1, <1>3, Quotient
<1>5. e * SegmentsPerExtent \in Int /\ (e * SegmentsPerExtent) * Capacity = e * (SegmentsPerExtent * Capacity)
  BY <1>1
<1>6. x < (e * SegmentsPerExtent) * Capacity <=> y < e * SegmentsPerExtent
  BY <1>3, <1>5
<1>7. (e * SegmentsPerExtent) * Capacity \in Int
  BY <1>1
<1>8. x < e * (SegmentsPerExtent * Capacity) <=> p < get_offset(e)
  BY <1>1, <1>2, <1>5, <1>7 DEF x
<1>9. (e + 1) * (SegmentsPerExtent * Capacity) = e * (SegmentsPerExtent * Capacity) + SegmentsPerExtent * Capacity
  BY <1>1
<1> QED
  BY <1>1, <1>2, <1>4, <1>5, <1>6, <1>7, <1>8, <1>9

(* The extents tile the window. *)
LEMMA ExtentsTile ==
    ASSUME GoodConstants, NEW e \in 0 .. NumExtents
    PROVE  /\ get_offset(0) = WindowStart * Capacity /\ get_offset(NumExtents) = WindowEnd * Capacity
           /\ WindowStart * Capacity <= get_offset(e) /\ get_offset(e) <= WindowEnd * Capacity
           /\ WindowStart * Capacity \in Nat /\ WindowEnd * Capacity \in Nat
           /\ WindowStart * Capacity < WindowEnd * Capacity
           /\ ExtentSlots \in Nat \ {0} /\ 2 * Capacity <= ExtentSlots
<1>1. /\ Capacity \in Nat \ {0} /\ SegmentsPerExtent \in Nat \ {0} /\ SegmentsPerExtent >= 2
      /\ WindowStart \in Nat /\ NumExtents \in Nat /\ e \in Nat /\ e <= NumExtents
      /\ WindowEnd = WindowStart + NumExtents * SegmentsPerExtent /\ WindowStart < WindowEnd /\ WindowEnd \in Nat
  BY DEF GoodConstants, WindowEnd
<1>2. /\ get_offset(e) = WindowStart * Capacity + e * (SegmentsPerExtent * Capacity)
      /\ get_offset(0) = WindowStart * Capacity + 0 * (SegmentsPerExtent * Capacity)
      /\ get_offset(NumExtents) = WindowStart * Capacity + NumExtents * (SegmentsPerExtent * Capacity)
      /\ ExtentSlots = SegmentsPerExtent * Capacity
  BY DEF get_offset, ExtentSlots
<1>3. SegmentsPerExtent * Capacity \in Nat /\ 2 * Capacity <= SegmentsPerExtent * Capacity
  BY <1>1
<1>4. WindowEnd * Capacity = WindowStart * Capacity + NumExtents * (SegmentsPerExtent * Capacity)
  BY <1>1
<1>5. /\ 0 <= e * (SegmentsPerExtent * Capacity)
      /\ e * (SegmentsPerExtent * Capacity) <= NumExtents * (SegmentsPerExtent * Capacity)
      /\ 0 * (SegmentsPerExtent * Capacity) = 0
  <2> DEFINE S == SegmentsPerExtent * Capacity
  <2>1. S \in Nat
    BY <1>3
  <2> HIDE DEF S
  <2>2. 0 <= e * S /\ e * S <= NumExtents * S /\ 0 * S = 0
    BY <1>1, <2>1
  <2> QED
    BY <2>2 DEF S
<1>6. WindowStart * Capacity \in Nat /\ WindowEnd * Capacity \in Nat
  BY <1>1
<1>7. WindowStart * Capacity < WindowEnd * Capacity
  BY <1>1
<1>8. e * (SegmentsPerExtent * Capacity) \in Int /\ SegmentsPerExtent * Capacity # 0
  BY <1>1
<1> QED
  BY <1>1, <1>2, <1>3, <1>4, <1>5, <1>6, <1>7, <1>8

(* A segment of an extent, and the slots relative to it. *)
LEMMA SegmentInExtent ==
    ASSUME GoodConstants, NEW e \in 0 .. (NumExtents - 1), NEW s \in 0 .. (SegmentsPerExtent - 1)
    PROVE  /\ extent2segment(e) + s \in Window /\ e * SegmentsPerExtent + s \in 0 .. (WindowLength - 1)
           /\ (s + 1) * Capacity \in Nat /\ (s + 1) * Capacity <= ExtentSlots /\ s * Capacity \in Nat
           /\ s * Capacity + Capacity = (s + 1) * Capacity
<1>1. /\ Capacity \in Nat \ {0} /\ SegmentsPerExtent \in Nat \ {0} /\ WindowStart \in Nat
      /\ NumExtents \in Nat \ {0} /\ WindowLength = NumExtents * SegmentsPerExtent
      /\ e \in Nat /\ e + 1 <= NumExtents /\ s \in Nat /\ s + 1 <= SegmentsPerExtent
  BY DEF GoodConstants
<1>2. (e + 1) * SegmentsPerExtent <= NumExtents * SegmentsPerExtent
  BY <1>1
<1>3. e * SegmentsPerExtent + s + 1 <= WindowLength /\ e * SegmentsPerExtent \in Nat
  BY <1>1, <1>2
<1>4. (s + 1) * Capacity <= SegmentsPerExtent * Capacity /\ (s + 1) * Capacity \in Nat /\ s * Capacity \in Nat
  BY <1>1
<1>5. s * Capacity + Capacity = (s + 1) * Capacity
  BY <1>1
<1>6. WindowLength \in Nat
  BY DEF GoodConstants
<1> QED
  BY <1>1, <1>3, <1>4, <1>5, <1>6 DEF extent2segment, Window, ExtentSlots

-----------------------------------------------------------------------------
(* The window *)

InsertsAtFirst == IF case.insert_segment = NotSet THEN 0 ELSE 1

(* What the callers ask for. *)
GoodCase ==
    /\ case.sizes \in [0 .. (WindowEnd - 1) -> 0 .. Capacity]
    /\ case.keys \in [Slots -> Int] /\ case.insert_key \in Int
    /\ case.insert_segment \in Window \union {NotSet}
    /\ case.move_backwards \in BOOLEAN
    /\ case.partitions \in Seq([m_cardinality : Nat, m_segments : Nat \ {0}])
    /\ \A id \in 1 .. Len(case.partitions) :
          /\ case.partitions[id].m_segments <= case.partitions[id].m_cardinality
          /\ case.partitions[id].m_cardinality <= case.partitions[id].m_segments * Capacity
    /\ Sums(SegmentsOf(case.partitions))[Len(case.partitions)] = WindowLength
    /\ Target = Before(WindowEnd) + InsertsAtFirst
    /\ ~ case.move_backwards => \A b \in Pairs : case.sizes[b] + case.sizes[b + 1] > 0
    /\ case.move_backwards =>
          /\ case.insert_segment = NotSet
          /\ \E last \in Pairs :
                /\ case.start_position = (last + 1) * Capacity + case.sizes[last + 1]
                /\ \A b \in Pairs : case.sizes[b] + case.sizes[b + 1] > 0 <=> b <= last

(* The assumption on the callers gives these. *)
LEMMA CaseIsGood ==
    ASSUME SpreadAssumption, CallersAssumption, case \in Cases
    PROVE  GoodCase
<1>1. IsCase(case)
  BY DEF CallersAssumption
<1>2. Target = Before(WindowEnd) + InsertsAtFirst
  <2>1. SumOver(case.sizes, Window) = Before(WindowEnd)
    BY DEF SumOver, Before, WindowEnd
  <2>2. Target = SumOver(case.sizes, Window) + IF case.insert_segment # NotSet THEN 1 ELSE 0
    BY <1>1 DEF IsCase, Target
  <2> QED
    BY <2>1, <2>2 DEF InsertsAtFirst
<1>3. \/ case.move_backwards = FALSE /\ \A s \in Pairs : case.sizes[s] + case.sizes[s + 1] > 0
      \/ /\ case.move_backwards = TRUE /\ case.insert_segment = NotSet
         /\ \E last \in Pairs :
               /\ case.start_position = (last + 1) * Capacity + case.sizes[last + 1]
               /\ \A s \in Pairs : case.sizes[s] + case.sizes[s + 1] > 0 <=> s <= last
  BY <1>1 DEF IsCase, Pairs
<1>4. /\ case.sizes \in [0 .. (WindowEnd - 1) -> 0 .. Capacity]
      /\ case.keys \in [Slots -> Int] /\ case.insert_key \in Int
      /\ case.insert_segment \in Window \union {NotSet}
      /\ case.partitions \in Seq([m_cardinality : Nat, m_segments : Nat \ {0}])
  <2>1. case.sizes \in [0 .. (WindowEnd - 1) -> 0 .. Capacity]
    <3>1. case.sizes \in [0 .. (WindowStart + WindowLength - 1) -> 0 .. Capacity]
      BY <1>1 DEF IsCase
    <3>2. WindowStart + WindowLength - 1 = WindowEnd - 1
      BY DEF SpreadAssumption, WindowEnd
    <3> QED
      BY <3>1, <3>2, Zenon
  <2>2. case.keys \in [Slots -> Int] /\ case.insert_key \in Int
    BY <1>1 DEF IsCase
  <2>3. case.insert_segment \in Window \union {NotSet}
    BY <1>1 DEF IsCase
  <2>4. case.partitions \in Seq([m_cardinality : Nat, m_segments : Nat \ {0}])
    BY <1>1 DEF IsCase
  <2> QED
    BY <2>1, <2>2, <2>3, <2>4
<1>5. \A id \in 1 .. Len(case.partitions) :
          /\ case.partitions[id].m_segments <= case.partitions[id].m_cardinality
          /\ case.partitions[id].m_cardinality <= case.partitions[id].m_segments * Capacity
  BY <1>1 DEF IsCase
<1>6. Sums(SegmentsOf(case.partitions))[Len(case.partitions)] = WindowLength
  BY <1>1 DEF IsCase
<1> QED
  BY <1>2, <1>3, <1>4, <1>5, <1>6 DEF GoodCase

(* The elements of the window before a segment. *)
LEMMA BeforeIs ==
    ASSUME GoodConstants, GoodCase
    PROVE  /\ \A s \in 0 .. WindowEnd : Before(s) \in Nat /\ Before(s) <= Before(WindowEnd)
           /\ \A s \in Window : Before(s + 1) = Before(s) + case.sizes[s]
           /\ Before(WindowStart) = 0
           /\ \A s \in 0 .. WindowEnd :
                 (\A t \in Window : s <= t => case.sizes[t] = 0) => Before(WindowEnd) = Before(s)
<1> DEFINE f == [i \in 1 .. WindowEnd |-> IF i - 1 \in Window THEN case.sizes[i - 1] ELSE 0]
<1>1. WindowEnd \in Nat /\ WindowStart \in Nat /\ WindowStart < WindowEnd /\ Window = WindowStart .. (WindowEnd - 1)
  BY DEF GoodConstants, Window, WindowEnd
<1>2. \A t \in Window : case.sizes[t] \in Nat
  <2>1. Capacity \in Nat
    BY DEF GoodConstants
  <2> QED
    BY <1>1, <2>1 DEF GoodCase
<1>3. f \in Seq(Nat) /\ Len(f) = WindowEnd
  <2>1. \A i \in 1 .. WindowEnd : (IF i - 1 \in Window THEN case.sizes[i - 1] ELSE 0) \in Nat
    BY <1>2
  <2> QED
    BY <1>1, <2>1
<1>4. \A s : Before(s) = Sums(f)[s]
  BY DEF Before
<1>5. \A i \in 1 .. WindowEnd : f[i] = IF i - 1 \in Window THEN case.sizes[i - 1] ELSE 0
  OBVIOUS
<1> HIDE DEF f
<1>6. AreSums(Sums(f), f, WindowEnd)
  BY <1>3, SumsAre
<1>7. \A s \in 0 .. WindowEnd : Before(s) \in Nat
  BY <1>4, <1>6 DEF AreSums
<1>8. ASSUME NEW s \in Window PROVE Before(s + 1) = Before(s) + case.sizes[s]
  <2>1. s + 1 \in 1 .. WindowEnd /\ (s + 1) - 1 = s
    BY <1>1
  <2>2. f[s + 1] = case.sizes[s]
    BY <1>5, <2>1
  <2>3. Sums(f)[s + 1] = Sums(f)[(s + 1) - 1] + f[s + 1]
    BY <1>6, <2>1 DEF AreSums
  <2> QED
    BY <1>4, <2>1, <2>2, <2>3
<1>9. Before(WindowStart) = 0
  <2>1. \A k \in 1 .. Len(f) : 0 < k /\ k <= WindowStart => f[k] = 0
    BY <1>1, <1>3, <1>5
  <2>2. 0 \in 0 .. Len(f) /\ WindowStart \in 0 .. Len(f) /\ 0 <= WindowStart
    BY <1>1, <1>3
  <2>3. Sums(f)[WindowStart] = Sums(f)[0]
    BY <1>3, <2>1, <2>2, SumsStay
  <2>4. Sums(f)[0] = 0
    BY <1>6 DEF AreSums
  <2> QED
    BY <1>4, <2>3, <2>4
<1>10. ASSUME NEW s \in 0 .. WindowEnd, \A t \in Window : s <= t => case.sizes[t] = 0
       PROVE  Before(WindowEnd) = Before(s)
  <2>1. ASSUME NEW k \in 1 .. Len(f), s < k PROVE f[k] = 0
    <3>1. k \in 1 .. WindowEnd /\ k - 1 \in Nat /\ s \in Nat /\ s <= k - 1
      BY <1>1, <1>3, <2>1
    <3>2. CASE k - 1 \in Window
      BY <1>5, <1>10, <3>1, <3>2
    <3>3. CASE k - 1 \notin Window
      BY <1>5, <3>1, <3>3
    <3> QED
      BY <3>2, <3>3
  <2>2. s \in 0 .. Len(f) /\ WindowEnd \in 0 .. Len(f) /\ s <= WindowEnd
    BY <1>1, <1>3
  <2>3. Sums(f)[WindowEnd] = Sums(f)[s]
    BY <1>3, <2>1, <2>2, SumsStay
  <2> QED
    BY <1>4, <2>3
<1>11. ASSUME NEW s \in 0 .. WindowEnd PROVE Before(s) <= Before(WindowEnd)
  <2>1. s \in 0 .. Len(f) /\ WindowEnd \in 0 .. Len(f) /\ s <= WindowEnd
    BY <1>1, <1>3
  <2> QED
    BY <1>3, <1>4, <2>1, SumsGrow
<1> QED
  BY <1>7, <1>8, <1>9, <1>10, <1>11

(* A run lies in the slots of its two segments. *)
RunPlaced(b) ==
    /\ b \in Nat /\ b + 1 \in Window /\ b + 2 \in 0 .. WindowEnd
    /\ WindowStart <= b /\ b + 2 <= WindowEnd
    /\ case.sizes[b] \in 0 .. Capacity /\ case.sizes[b + 1] \in 0 .. Capacity
    /\ RunBegin(b) = (b + 1) * Capacity - case.sizes[b]
    /\ RunEnd(b) = (b + 1) * Capacity + case.sizes[b + 1]
    /\ (b + 1) * Capacity = b * Capacity + Capacity /\ (b + 2) * Capacity = b * Capacity + 2 * Capacity
    /\ WindowStart * Capacity <= b * Capacity /\ (b + 2) * Capacity <= WindowEnd * Capacity
    /\ b * Capacity \in Nat
    /\ Before(b) \in Nat /\ Before(b + 2) \in Nat /\ Before(WindowEnd) \in Nat
    /\ Before(b + 2) = Before(b) + (RunEnd(b) - RunBegin(b)) /\ Before(b + 2) <= Before(WindowEnd)

(* A run begins in its even segment and ends in the odd one. *)
LEMMA RunIsPlaced ==
    ASSUME GoodConstants, GoodCase, NEW b \in Pairs
    PROVE  RunPlaced(b)
<1>1. /\ WindowEnd \in Nat /\ WindowStart \in Nat /\ WindowStart < WindowEnd
      /\ Window = WindowStart .. (WindowEnd - 1) /\ Capacity \in Nat \ {0} /\ WindowEnd % 2 = 0
  BY DEF GoodConstants, Window, WindowEnd
<1>2. b \in Window /\ b % 2 = 0
  BY DEF Pairs
<1>3. b \in Nat /\ WindowStart <= b /\ b + 2 <= WindowEnd
  BY <1>1, <1>2
<1>4. b + 1 \in Window /\ b + 2 \in 0 .. WindowEnd /\ b \in 0 .. WindowEnd /\ WindowEnd \in 0 .. WindowEnd
  BY <1>1, <1>3
<1>5. case.sizes[b] \in 0 .. Capacity /\ case.sizes[b + 1] \in 0 .. Capacity
  BY <1>1, <1>2, <1>4 DEF GoodCase
<1>6. /\ (b + 1) * Capacity = b * Capacity + Capacity /\ (b + 2) * Capacity = b * Capacity + 2 * Capacity
      /\ WindowStart * Capacity <= b * Capacity /\ (b + 2) * Capacity <= WindowEnd * Capacity
      /\ b * Capacity \in Nat
  BY <1>1, <1>3
<1>7. RunBegin(b) = (b + 1) * Capacity - case.sizes[b]
  BY <1>1, <1>2, <1>5, <1>6 DEF RunBegin, SegmentBegin
<1>8. RunEnd(b) = (b + 1) * Capacity + case.sizes[b + 1]
  BY DEF RunEnd
<1>9. /\ Before(b) \in Nat /\ Before(b + 2) \in Nat /\ Before(WindowEnd) \in Nat
      /\ Before(b + 2) <= Before(WindowEnd)
  BY <1>4, BeforeIs
<1>10. Before(b + 1) = Before(b) + case.sizes[b] /\ Before((b + 1) + 1) = Before(b + 1) + case.sizes[b + 1]
  BY <1>2, <1>4, BeforeIs
<1>11. Before(b + 2) = Before(b + 1) + case.sizes[b + 1]
  <2>1. (b + 1) + 1 = b + 2
    BY <1>3
  <2> QED
    BY <1>10, <2>1, Zenon
<1>12. Before(b + 2) = Before(b) + (RunEnd(b) - RunBegin(b))
  <2>1. Before(b + 2) = Before(b) + case.sizes[b] + case.sizes[b + 1]
    BY <1>1, <1>5, <1>9, <1>10, <1>11
  <2>2. RunEnd(b) - RunBegin(b) = case.sizes[b] + case.sizes[b + 1]
    BY <1>1, <1>5, <1>6, <1>7, <1>8
  <2> QED
    BY <1>1, <1>5, <1>9, <2>1, <2>2
<1> QED
  BY <1>3, <1>4, <1>5, <1>6, <1>7, <1>8, <1>9, <1>12 DEF RunPlaced

-----------------------------------------------------------------------------
(* The cursor into the partitions *)

(* The shares that c elements get in m segments of k slots. *)
LEMMA Shares ==
    ASSUME NEW c \in Nat, NEW m \in Nat \ {0}, NEW k \in Nat \ {0}, m <= c, c <= m * k
    PROVE  /\ c \div m \in 1 .. k /\ c % m \in 0 .. (m - 1)
           /\ c = (c \div m) * m + (c % m)
           /\ c % m > 0 => c \div m < k
<1> DEFINE e == c \div m
           r == c % m
<1>1. e \in Nat /\ r \in 0 .. (m - 1) /\ c = e * m + r
  OBVIOUS
<1> HIDE DEF e, r
<1>2. e <= k
  <2> SUFFICES ASSUME e >= k + 1 PROVE FALSE
    BY <1>1
  <2>1. (k + 1) * m <= e * m
    BY <1>1
  <2> QED
    BY <1>1, <2>1
<1>3. ASSUME r > 0, e >= k PROVE FALSE
  <2>1. k * m <= e * m
    BY <1>1, <1>3
  <2> QED
    BY <1>1, <1>3, <2>1
<1>4. e # 0
  BY <1>1
<1> QED
  BY <1>1, <1>2, <1>3, <1>4 DEF e, r

(* The i-th segment takes its share from the elements before the next. *)
LEMMA ShareTaken ==
    ASSUME NEW q \in Nat, NEW m \in Nat \ {0}, NEW r \in 0 .. (m - 1), NEW o \in 0 .. (m - 1)
    PROVE  /\ (o + 1) * q + Min2(o + 1, r) = o * q + Min2(o, r) + (q + (IF o < r THEN 1 ELSE 0))
           /\ o + 1 = m => o * q + Min2(o, r) + (q + (IF o < r THEN 1 ELSE 0)) = q * m + r
           /\ o * q + Min2(o, r) \in Nat
<1>1. (o + 1) * q = o * q + q /\ o * q \in Nat
  OBVIOUS
<1>2. Min2(o + 1, r) = Min2(o, r) + (IF o < r THEN 1 ELSE 0) /\ Min2(o, r) \in Nat
  BY DEF Min2
<1>3. o + 1 = m => (o + 1) * q = q * m /\ Min2(o + 1, r) = r
  BY DEF Min2
<1> QED
  BY <1>1, <1>2, <1>3

(* An element of a sequence is in the set that the sequence is over. *)
LEMMA ElementIn ==
    ASSUME NEW S, NEW seq \in Seq(S), NEW i \in 1 .. Len(seq)
    PROVE  seq[i] \in S
OBVIOUS

(* The partitions, and the sums over them. *)
GoodPartitions(n) ==
    /\ n \in Nat
    /\ \A id \in 1 .. n :
          /\ case.partitions[id].m_segments \in Nat \ {0} /\ case.partitions[id].m_cardinality \in Nat
          /\ case.partitions[id].m_segments <= case.partitions[id].m_cardinality
          /\ case.partitions[id].m_cardinality <= case.partitions[id].m_segments * Capacity
    /\ \A id \in 0 .. n :
          /\ Sums(SegmentsOf(case.partitions))[id] \in Nat
          /\ Sums(ElementsOf(case.partitions))[id] \in Nat
          /\ Sums(SegmentsOf(case.partitions))[id] <= WindowLength
    /\ \A id \in 1 .. n :
          /\ Sums(SegmentsOf(case.partitions))[id] =
                Sums(SegmentsOf(case.partitions))[id - 1] + case.partitions[id].m_segments
          /\ Sums(ElementsOf(case.partitions))[id] =
                Sums(ElementsOf(case.partitions))[id - 1] + case.partitions[id].m_cardinality
    /\ \A id \in 0 .. n : Sums(ElementsOf(case.partitions))[id] <= Target
    /\ Sums(SegmentsOf(case.partitions))[n] = WindowLength
    /\ Sums(SegmentsOf(case.partitions))[0] = 0 /\ Sums(ElementsOf(case.partitions))[0] = 0
    /\ Sums(ElementsOf(case.partitions))[n] = Target

(* The partitions share out the segments of the window and all the elements. *)
LEMMA PartitionsAreGood ==
    ASSUME GoodConstants, GoodCase
    PROVE  GoodPartitions(Len(case.partitions))
<1> DEFINE n == Len(case.partitions)
           f == SegmentsOf(case.partitions)
           g == ElementsOf(case.partitions)
<1>1. n \in Nat /\ case.partitions \in Seq([m_cardinality : Nat, m_segments : Nat \ {0}])
  BY DEF GoodCase
<1>2. DOMAIN case.partitions = 1 .. n
  BY <1>1
<1>14. \A id \in 1 .. n : /\ case.partitions[id].m_segments <= case.partitions[id].m_cardinality
                          /\ case.partitions[id].m_cardinality <= case.partitions[id].m_segments * Capacity
  BY Zenon DEF GoodCase
<1>3. ASSUME NEW id \in 1 .. n
      PROVE  case.partitions[id].m_segments \in Nat \ {0} /\ case.partitions[id].m_cardinality \in Nat
  <2>1. case.partitions[id] \in [m_cardinality : Nat, m_segments : Nat \ {0}]
    BY <1>1, ElementIn, Zenon
  <2> QED
    BY <2>1
<1>4. f = [id \in 1 .. n |-> case.partitions[id].m_segments]
  BY <1>2 DEF SegmentsOf
<1>5. g = [id \in 1 .. n |-> case.partitions[id].m_cardinality]
  BY <1>2 DEF ElementsOf
<1> HIDE DEF n, f, g
<1>6. f \in Seq(Nat) /\ Len(f) = n /\ \A id \in 1 .. n : f[id] = case.partitions[id].m_segments
  BY <1>1, <1>3, <1>4
<1>7. g \in Seq(Nat) /\ Len(g) = n /\ \A id \in 1 .. n : g[id] = case.partitions[id].m_cardinality
  BY <1>1, <1>3, <1>5
<1>8. AreSums(Sums(f), f, n) /\ AreSums(Sums(g), g, n)
  BY <1>6, <1>7, SumsAre
<1>9. Sums(f)[n] = WindowLength
  BY DEF GoodCase, f, n
<1>10. \A id \in 0 .. n : Sums(f)[id] \in Nat /\ Sums(g)[id] \in Nat
  BY <1>8 DEF AreSums
<1>11. ASSUME NEW id \in 0 .. n PROVE Sums(f)[id] <= WindowLength
  <2>1. n \in 0 .. n /\ id <= n
    BY <1>1
  <2>2. Sums(f)[id] <= Sums(f)[n]
    BY <1>6, <2>1, SumsGrow
  <2> QED
    BY <1>9, <2>2
<1>12. \A id \in 1 .. n : /\ Sums(f)[id] = Sums(f)[id - 1] + case.partitions[id].m_segments
                          /\ Sums(g)[id] = Sums(g)[id - 1] + case.partitions[id].m_cardinality
  BY <1>6, <1>7, <1>8 DEF AreSums
<1>13. Sums(f)[0] = 0 /\ Sums(g)[0] = 0
  BY <1>8 DEF AreSums
<1>16. Target = Sums(g)[n]
  BY DEF Target, g, n
<1>17. ASSUME NEW id \in 0 .. n PROVE Sums(g)[id] <= Target
  <2>1. n \in 0 .. n /\ id <= n
    BY <1>1
  <2> QED
    BY <1>7, <1>16, <2>1, SumsGrow
<1>15. GoodPartitions(n)
  BY <1>1, <1>3, <1>9, <1>10, <1>11, <1>12, <1>13, <1>14, <1>16, <1>17 DEF GoodPartitions, f, g
<1> QED
  BY <1>15 DEF n

(* What a step forwards passes. *)
LEMMA StepForwardsIs ==
    ASSUME GoodConstants, GoodCase, NEW c, IsCursor(c), c.id < Len(case.partitions)
    PROVE  /\ PartitionAt(c.id, c.offset) \in 1 .. Capacity
           /\ IsCursor(StepForwards(c))
           /\ SegmentsBefore(c) \in Nat /\ TargetBefore(c) \in Nat
           /\ SegmentsBefore(StepForwards(c)) = SegmentsBefore(c) + 1
           /\ TargetBefore(StepForwards(c)) = TargetBefore(c) + PartitionAt(c.id, c.offset)
<1> DEFINE n == Len(case.partitions)
           p == case.partitions[c.id + 1]
           m == p.m_segments
           a == p.m_cardinality
           q == a \div m
           r == a % m
           SF == Sums(SegmentsOf(case.partitions))
           SE == Sums(ElementsOf(case.partitions))
           d == StepForwards(c)
           share == PartitionAt(c.id, c.offset)
<1>1. GoodPartitions(n)
  BY PartitionsAreGood
<1>2. /\ c \in [id : 0 .. n, offset : Nat] /\ c.id \in 0 .. n /\ c.offset \in Nat /\ n \in Nat /\ c.id < n
      /\ c.offset < m
  BY <1>1 DEF IsCursor, GoodPartitions
<1>3. c.id + 1 \in 1 .. n /\ (c.id + 1) - 1 = c.id /\ c.id + 1 \in 0 .. n
  BY <1>2
<1>4. m \in Nat \ {0} /\ a \in Nat /\ m <= a /\ a <= m * Capacity
  BY <1>1, <1>3 DEF GoodPartitions
<1>5. /\ SF[c.id] \in Nat /\ SE[c.id] \in Nat
      /\ SF[c.id + 1] = SF[c.id] + m /\ SE[c.id + 1] = SE[c.id] + a
  BY <1>1, <1>2, <1>3 DEF GoodPartitions
<1>6. share = q + (IF c.offset < r THEN 1 ELSE 0)
  BY <1>2 DEF PartitionAt
<1>7. SegmentsBefore(c) = SF[c.id] + c.offset
  BY DEF SegmentsBefore
<1>8. TargetBefore(c) = SE[c.id] + (c.offset * q + Min2(c.offset, r))
  BY <1>2 DEF TargetBefore
<1>9. Capacity \in Nat \ {0}
  BY DEF GoodConstants
<1>10. d = IF c.offset + 1 >= m THEN [id |-> c.id + 1, offset |-> 0] ELSE [c EXCEPT !.offset = @ + 1]
  BY <1>2 DEF StepForwards
<1>11. q \in 1 .. Capacity /\ r \in 0 .. (m - 1) /\ a = q * m + r /\ (r > 0 => q < Capacity)
  BY <1>4, <1>9, Shares
<1>12. c.offset \in 0 .. (m - 1)
  BY <1>2, <1>4
<1> HIDE DEF share, q, r
<1>13. /\ (c.offset + 1) * q + Min2(c.offset + 1, r) = c.offset * q + Min2(c.offset, r) + share
       /\ c.offset + 1 = m => c.offset * q + Min2(c.offset, r) + share = q * m + r
       /\ c.offset * q + Min2(c.offset, r) \in Nat
  <2>1. q \in Nat /\ r \in 0 .. (m - 1)
    BY <1>11
  <2> HIDE DEF m
  <2>2. /\ (c.offset + 1) * q + Min2(c.offset + 1, r)
              = c.offset * q + Min2(c.offset, r) + (q + (IF c.offset < r THEN 1 ELSE 0))
        /\ c.offset + 1 = m =>
              c.offset * q + Min2(c.offset, r) + (q + (IF c.offset < r THEN 1 ELSE 0)) = q * m + r
        /\ c.offset * q + Min2(c.offset, r) \in Nat
    BY <1>4, <1>12, <2>1, ShareTaken
  <2> QED
    BY <1>6, <2>2
<1>14. share \in 1 .. Capacity
  BY <1>6, <1>9, <1>11, <1>12
<1>15. SegmentsBefore(c) \in Nat /\ TargetBefore(c) \in Nat
  BY <1>2, <1>5, <1>7, <1>8, <1>13
<1>16. CASE c.offset + 1 >= m
  <2>1. d = [id |-> c.id + 1, offset |-> 0] /\ c.offset + 1 = m
    BY <1>4, <1>10, <1>12, <1>16
  <2>2. d.id = c.id + 1 /\ d.offset = 0
    BY <2>1
  <2>3. IsCursor(d)
    <3>1. d \in [id : 0 .. n, offset : Nat]
      BY <1>3, <2>1
    <3>2. d.id # n => d.offset < case.partitions[d.id + 1].m_segments
      <4> SUFFICES ASSUME d.id # n PROVE d.offset < case.partitions[d.id + 1].m_segments
        OBVIOUS
      <4>1. d.id + 1 \in 1 .. n
        BY <1>2, <1>3, <2>2
      <4> QED
        BY <1>1, <2>2, <4>1 DEF GoodPartitions
    <3> QED
      BY <2>2, <3>1, <3>2 DEF IsCursor
  <2>4. SegmentsBefore(d) = SegmentsBefore(c) + 1
    <3>1. SegmentsBefore(d) = SF[c.id + 1] + 0
      BY <2>2 DEF SegmentsBefore
    <3> QED
      BY <1>2, <1>4, <1>5, <1>7, <2>1, <3>1
  <2>5. TargetBefore(d) = SE[c.id + 1]
    <3>1. CASE d.id = n
      <4>1. TargetBefore(d) = SE[c.id + 1] + 0
        BY <2>2, <3>1 DEF TargetBefore
      <4> QED
        BY <1>4, <1>5, <4>1
    <3>2. CASE d.id # n
      <4> DEFINE x == case.partitions[d.id + 1]
      <4>1. d.id + 1 \in 1 .. n
        BY <1>2, <1>3, <2>2, <3>2
      <4>2. x.m_segments \in Nat \ {0} /\ x.m_cardinality \in Nat
        BY <1>1, <4>1 DEF GoodPartitions
      <4>3. TargetBefore(d) = SE[c.id + 1] + (0 * (x.m_cardinality \div x.m_segments)
                                               + Min2(0, x.m_cardinality % x.m_segments))
        BY <2>2, <3>2 DEF TargetBefore
      <4>4. x.m_cardinality \div x.m_segments \in Nat /\ x.m_cardinality % x.m_segments \in Nat
        BY <4>2
      <4> HIDE DEF x
      <4>5. 0 * (x.m_cardinality \div x.m_segments) = 0 /\ Min2(0, x.m_cardinality % x.m_segments) = 0
        BY <4>4 DEF Min2
      <4> QED
        BY <1>4, <1>5, <4>3, <4>5
    <3> QED
      BY <3>1, <3>2
  <2>6. TargetBefore(d) = TargetBefore(c) + share
    BY <1>4, <1>5, <1>8, <1>11, <1>13, <1>14, <2>1, <2>5
  <2> QED
    BY <1>14, <1>15, <2>3, <2>4, <2>6 DEF share
<1>17. CASE ~ c.offset + 1 >= m
  <2>1. d = [c EXCEPT !.offset = @ + 1] /\ c.offset + 1 < m
    BY <1>4, <1>10, <1>12, <1>17
  <2>2. d.id = c.id /\ d.offset = c.offset + 1 /\ d \in [id : 0 .. n, offset : Nat]
    BY <1>2, <2>1
  <2>3. IsCursor(d)
    BY <1>2, <2>1, <2>2 DEF IsCursor
  <2>4. SegmentsBefore(d) = SegmentsBefore(c) + 1
    <3>1. SegmentsBefore(d) = SF[c.id] + (c.offset + 1)
      BY <2>2 DEF SegmentsBefore
    <3> QED
      BY <1>2, <1>5, <1>7, <3>1
  <2>5. TargetBefore(d) = SE[c.id] + ((c.offset + 1) * q + Min2(c.offset + 1, r))
    BY <1>2, <2>2 DEF TargetBefore, q, r
  <2>6. TargetBefore(d) = TargetBefore(c) + share
    <3>1. share \in Nat
      BY <1>14
    <3> QED
      BY <1>5, <1>8, <1>13, <2>5, <3>1
  <2> QED
    BY <1>14, <1>15, <2>3, <2>4, <2>6 DEF share
<1> QED
  BY <1>16, <1>17

(* Where a cursor can be. *)
LEMMA CursorRange ==
    ASSUME GoodConstants, GoodCase, NEW c, IsCursor(c)
    PROVE  /\ c \in [id : 0 .. Len(case.partitions), offset : Nat] /\ Len(case.partitions) \in Nat
           /\ SegmentsBefore(c) \in 0 .. WindowLength /\ TargetBefore(c) \in 0 .. Target /\ Target \in Nat
           /\ SegmentsBefore(c) < WindowLength => c.id < Len(case.partitions)
           /\ SegmentsBefore(c) = WindowLength => TargetBefore(c) = Target
<1> DEFINE n == Len(case.partitions)
           p == case.partitions[c.id + 1]
           m == p.m_segments
           a == p.m_cardinality
           q == a \div m
           r == a % m
           SF == Sums(SegmentsOf(case.partitions))
           SE == Sums(ElementsOf(case.partitions))
<1>1. GoodPartitions(n)
  BY PartitionsAreGood
<1>2. c \in [id : 0 .. n, offset : Nat] /\ c.id \in 0 .. n /\ c.offset \in Nat /\ n \in Nat
  BY <1>1 DEF IsCursor, GoodPartitions
<1>3. /\ SF[c.id] \in Nat /\ SE[c.id] \in Nat /\ SE[c.id] <= Target /\ SF[n] = WindowLength /\ SE[n] = Target
      /\ SE[n] \in Nat
  BY <1>1, <1>2 DEF GoodPartitions
<1>4. WindowLength \in Nat /\ Capacity \in Nat \ {0}
  BY DEF GoodConstants
<1>5. SegmentsBefore(c) = SF[c.id] + c.offset
  BY DEF SegmentsBefore
<1>6. CASE c.id = n
  <2>1. c.offset = 0
    BY <1>6 DEF IsCursor
  <2>2. TargetBefore(c) = SE[c.id] + 0
    BY <1>6 DEF TargetBefore
  <2>3. SegmentsBefore(c) = WindowLength /\ TargetBefore(c) = Target
    BY <1>3, <1>4, <1>5, <1>6, <2>1, <2>2
  <2> QED
    BY <1>2, <1>3, <1>4, <2>3
<1>7. CASE c.id # n
  <2>1. c.id < n /\ c.offset < m /\ c.id + 1 \in 1 .. n /\ c.id + 1 \in 0 .. n /\ (c.id + 1) - 1 = c.id
    BY <1>2, <1>7 DEF IsCursor
  <2>2. m \in Nat \ {0} /\ a \in Nat /\ m <= a /\ a <= m * Capacity
    BY <1>1, <2>1 DEF GoodPartitions
  <2>3. /\ SF[c.id + 1] = SF[c.id] + m /\ SE[c.id + 1] = SE[c.id] + a
        /\ SF[c.id + 1] <= WindowLength /\ SE[c.id + 1] <= Target
    BY <1>1, <1>2, <2>1 DEF GoodPartitions
  <2>4. TargetBefore(c) = SE[c.id] + (c.offset * q + Min2(c.offset, r))
    BY <1>7 DEF TargetBefore
  <2>5. q \in 1 .. Capacity /\ r \in 0 .. (m - 1) /\ a = q * m + r
    BY <1>4, <2>2, Shares
  <2>6. c.offset * q + Min2(c.offset, r) \in Nat /\ c.offset * q + Min2(c.offset, r) <= a
    <3> HIDE DEF m, a, q, r
    <3>1. q \in Nat /\ c.offset * q <= m * q /\ c.offset * q \in Nat /\ m * q = q * m
      BY <1>2, <1>4, <2>1, <2>2, <2>5
    <3>2. Min2(c.offset, r) \in Nat /\ Min2(c.offset, r) <= r
      BY <1>2, <2>2, <2>5 DEF Min2
    <3> QED
      BY <2>2, <2>5, <3>1, <3>2
  <2> HIDE DEF SF, SE, n, q, r
  <2>7. SegmentsBefore(c) \in Nat /\ SegmentsBefore(c) < WindowLength
    BY <1>2, <1>3, <1>4, <1>5, <2>1, <2>2, <2>3
  <2>8. TargetBefore(c) \in Nat /\ TargetBefore(c) <= Target
    BY <1>3, <2>2, <2>3, <2>4, <2>6
  <2> QED
    BY <1>2, <1>3, <1>4, <2>1, <2>7, <2>8 DEF n
<1> QED
  BY <1>6, <1>7

(* A step backwards undoes a step forwards. *)
LEMMA StepBackwardsIs ==
    ASSUME GoodConstants, GoodCase, NEW c, IsCursor(c)
    PROVE  /\ IsCursor(StepBackwards(c))
           /\ SegmentsBefore(c) > 0 => /\ StepForwards(StepBackwards(c)) = c
                                       /\ StepBackwards(c).id < Len(case.partitions)
<1> DEFINE n == Len(case.partitions)
           d == StepBackwards(c)
           SF == Sums(SegmentsOf(case.partitions))
<1>1. GoodPartitions(n)
  BY PartitionsAreGood
<1>2. c \in [id : 0 .. n, offset : Nat] /\ c.id \in 0 .. n /\ c.offset \in Nat /\ n \in Nat
  BY <1>1 DEF IsCursor, GoodPartitions
<1>3. CASE c.offset > 0
  <2>1. d = [c EXCEPT !.offset = @ - 1]
    BY <1>3 DEF StepBackwards
  <2>2. c.id # n /\ c.offset < case.partitions[c.id + 1].m_segments
    BY <1>2, <1>3 DEF IsCursor
  <2>3. case.partitions[c.id + 1].m_segments \in Nat
    <3>1. c.id + 1 \in 1 .. n
      BY <1>2, <2>2
    <3> QED
      BY <1>1, <3>1 DEF GoodPartitions
  <2>4. d.id = c.id /\ d.offset = c.offset - 1 /\ d.offset + 1 = c.offset /\ d \in [id : 0 .. n, offset : Nat]
    BY <1>2, <1>3, <2>1
  <2>5. IsCursor(d)
    BY <1>2, <2>2, <2>3, <2>4 DEF IsCursor
  <2>6. StepForwards(d) = [d EXCEPT !.offset = @ + 1]
    BY <1>2, <2>2, <2>3, <2>4 DEF StepForwards
  <2>7. StepForwards(d) = c
    BY <1>2, <2>4, <2>6
  <2> QED
    BY <1>2, <2>2, <2>4, <2>5, <2>7
<1>4. CASE c.offset = 0 /\ c.id > 0
  <2> DEFINE m == case.partitions[c.id].m_segments
  <2>1. d = [id |-> c.id - 1, offset |-> m - 1]
    BY <1>2, <1>4 DEF StepBackwards
  <2>2. m \in Nat \ {0} /\ c.id \in 1 .. n
    BY <1>1, <1>2, <1>4 DEF GoodPartitions
  <2>3. d.id = c.id - 1 /\ d.offset = m - 1 /\ d.id + 1 = c.id /\ d \in [id : 0 .. n, offset : Nat] /\ d.id < n
    BY <1>2, <2>1, <2>2
  <2>4. IsCursor(d)
    <3>1. case.partitions[d.id + 1].m_segments = m
      BY <2>3
    <3> HIDE DEF d, m
    <3>2. d.id # n /\ d.offset < m
      BY <1>2, <2>2, <2>3
    <3> QED
      BY <2>3, <3>1, <3>2 DEF IsCursor
  <2>5. StepForwards(d) = [id |-> d.id + 1, offset |-> 0]
    BY <1>2, <2>2, <2>3 DEF StepForwards
  <2>6. StepForwards(d) = c
    BY <1>2, <1>4, <2>3, <2>5
  <2> QED
    BY <2>3, <2>4, <2>6
<1>5. CASE c.offset = 0 /\ c.id = 0
  <2>1. d = c
    BY <1>5 DEF StepBackwards
  <2>2. SegmentsBefore(c) = SF[0] + 0
    BY <1>5 DEF SegmentsBefore
  <2>3. SegmentsBefore(c) = 0
    BY <1>1, <2>2 DEF GoodPartitions
  <2> QED
    BY <2>1, <2>3
<1> QED
  BY <1>2, <1>3, <1>4, <1>5

(* The two segments of a pair, the cursor at the first of them. *)
FirstOf(c) == PartitionAt(c.id, c.offset)
SecondOf(c) == PartitionAt(StepForwards(c).id, StepForwards(c).offset)
Forwards2(c) == StepForwards(StepForwards(c))
Backwards2(c) == StepBackwards(StepBackwards(c))

(* A pair is written at a cursor with two segments from it to the end of the window. *)
LEMMA PairAtCursor ==
    ASSUME GoodConstants, GoodCase, NEW c, IsCursor(c), SegmentsBefore(c) + 2 <= WindowLength
    PROVE  /\ FirstOf(c) \in 1 .. Capacity /\ SecondOf(c) \in 1 .. Capacity
           /\ IsCursor(Forwards2(c)) /\ SegmentsBefore(Forwards2(c)) = SegmentsBefore(c) + 2
           /\ TargetBefore(c) \in Nat /\ TargetBefore(Forwards2(c)) \in Nat
           /\ TargetBefore(Forwards2(c)) = TargetBefore(c) + FirstOf(c) + SecondOf(c)
<1> DEFINE d == StepForwards(c)
           e == StepForwards(d)
<1>0. WindowLength \in Nat /\ SegmentsBefore(c) \in Nat /\ Capacity \in Nat
  BY CursorRange DEF GoodConstants
<1>1. c.id < Len(case.partitions)
  BY <1>0, CursorRange
<1>2. /\ FirstOf(c) \in 1 .. Capacity /\ IsCursor(d) /\ TargetBefore(c) \in Nat
      /\ SegmentsBefore(d) = SegmentsBefore(c) + 1 /\ TargetBefore(d) = TargetBefore(c) + FirstOf(c)
  BY <1>1, StepForwardsIs DEF FirstOf
<1>3. d.id < Len(case.partitions)
  BY <1>0, <1>2, CursorRange
<1>4. /\ SecondOf(c) \in 1 .. Capacity /\ IsCursor(e)
      /\ SegmentsBefore(e) = SegmentsBefore(d) + 1 /\ TargetBefore(e) = TargetBefore(d) + SecondOf(c)
  BY <1>2, <1>3, StepForwardsIs DEF SecondOf
<1>5. Forwards2(c) = e
  BY DEF Forwards2
<1> HIDE DEF d, e
<1> QED
  BY <1>0, <1>2, <1>4, <1>5

(* Two steps backwards from a cursor that has two segments before it. *)
LEMMA PairBehindCursor ==
    ASSUME GoodConstants, GoodCase, NEW c, IsCursor(c)
    PROVE  /\ IsCursor(Backwards2(c))
           /\ SegmentsBefore(c) >= 2 => /\ Forwards2(Backwards2(c)) = c
                                        /\ SegmentsBefore(Backwards2(c)) = SegmentsBefore(c) - 2
<1> DEFINE d == StepBackwards(c)
           e == StepBackwards(d)
<1>1. IsCursor(d) /\ IsCursor(e)
  BY StepBackwardsIs
<1>2. SegmentsBefore(c) \in Nat /\ SegmentsBefore(d) \in Nat /\ SegmentsBefore(e) \in Nat
  BY <1>1, CursorRange
<1>3. ASSUME SegmentsBefore(c) >= 2
      PROVE  Forwards2(e) = c /\ SegmentsBefore(e) = SegmentsBefore(c) - 2
  <2>1. StepForwards(d) = c /\ d.id < Len(case.partitions)
    BY <1>2, <1>3, StepBackwardsIs
  <2>2. SegmentsBefore(StepForwards(d)) = SegmentsBefore(d) + 1
    BY <1>1, <2>1, StepForwardsIs
  <2>3. SegmentsBefore(d) = SegmentsBefore(c) - 1 /\ SegmentsBefore(d) > 0
    BY <1>2, <1>3, <2>1, <2>2
  <2>4. StepForwards(e) = d /\ e.id < Len(case.partitions)
    BY <1>1, <2>3, StepBackwardsIs
  <2>5. SegmentsBefore(StepForwards(e)) = SegmentsBefore(e) + 1
    BY <1>1, <2>4, StepForwardsIs
  <2> HIDE DEF d, e
  <2>6. Forwards2(e) = c
    BY <2>1, <2>4 DEF Forwards2
  <2> QED
    BY <1>2, <2>3, <2>4, <2>5, <2>6
<1>4. Backwards2(c) = e
  BY DEF Backwards2
<1> QED
  BY <1>1, <1>3, <1>4

-----------------------------------------------------------------------------
(* Reading the window *)

(* The numbers of a run. *)
LEMMA RunNumbers ==
    ASSUME GoodConstants, GoodCase, NEW b \in Pairs
    PROVE  /\ RunPlaced(b) /\ b \in Nat
           /\ RunBegin(b) \in Nat /\ RunEnd(b) \in Nat /\ RunBegin(b) <= RunEnd(b)
           /\ b * Capacity \in Nat /\ (b + 1) * Capacity \in Nat /\ (b + 2) * Capacity \in Nat
           /\ b * Capacity <= RunBegin(b) /\ RunEnd(b) <= (b + 2) * Capacity
           /\ (b + 1) * Capacity = b * Capacity + Capacity /\ (b + 2) * Capacity = b * Capacity + 2 * Capacity
           /\ WindowStart * Capacity <= RunBegin(b) /\ RunEnd(b) <= WindowEnd * Capacity
           /\ WindowStart * Capacity \in Nat /\ WindowEnd * Capacity \in Nat
           /\ case.sizes[b] \in 0 .. Capacity /\ case.sizes[b + 1] \in 0 .. Capacity
           /\ RunBegin(b) = (b + 1) * Capacity - case.sizes[b]
           /\ RunEnd(b) = (b + 1) * Capacity + case.sizes[b + 1]
           /\ Before(b) \in Nat /\ Before(b + 2) \in Nat /\ Before(WindowEnd) \in Nat
           /\ Before(b + 2) = Before(b) + (RunEnd(b) - RunBegin(b)) /\ Before(b + 2) <= Before(WindowEnd)
<1>1. RunPlaced(b)
  BY RunIsPlaced
<1>2. Capacity \in Nat \ {0} /\ WindowStart \in Nat /\ WindowEnd \in Nat
  BY DEF GoodConstants
<1>3. /\ case.sizes[b] \in 0 .. Capacity /\ case.sizes[b + 1] \in 0 .. Capacity
      /\ RunBegin(b) = (b + 1) * Capacity - case.sizes[b]
      /\ RunEnd(b) = (b + 1) * Capacity + case.sizes[b + 1]
      /\ (b + 1) * Capacity = b * Capacity + Capacity /\ (b + 2) * Capacity = b * Capacity + 2 * Capacity
      /\ WindowStart * Capacity <= b * Capacity /\ (b + 2) * Capacity <= WindowEnd * Capacity
      /\ b * Capacity \in Nat /\ b \in Nat
  BY <1>1 DEF RunPlaced
<1>4. WindowStart * Capacity \in Nat /\ WindowEnd * Capacity \in Nat
  BY <1>2
<1>5. /\ RunBegin(b) \in Nat /\ RunEnd(b) \in Nat /\ RunBegin(b) <= RunEnd(b)
      /\ (b + 1) * Capacity \in Nat /\ (b + 2) * Capacity \in Nat
      /\ b * Capacity <= RunBegin(b) /\ RunEnd(b) <= (b + 2) * Capacity
      /\ WindowStart * Capacity <= RunBegin(b) /\ RunEnd(b) <= WindowEnd * Capacity
  BY <1>2, <1>3, <1>4
<1>6. /\ Before(b) \in Nat /\ Before(b + 2) \in Nat /\ Before(WindowEnd) \in Nat
      /\ Before(b + 2) = Before(b) + (RunEnd(b) - RunBegin(b)) /\ Before(b + 2) <= Before(WindowEnd)
  BY <1>1 DEF RunPlaced
<1> QED
  BY <1>1, <1>3, <1>4, <1>5, <1>6

(* The borders of the window. *)
LEMMA Borders ==
    ASSUME GoodConstants
    PROVE  /\ WindowStart * Capacity \in Nat /\ WindowEnd * Capacity \in Nat
           /\ WindowStart * Capacity < WindowEnd * Capacity
<1>1. 0 \in 0 .. NumExtents
  BY DEF GoodConstants
<1> QED
  BY <1>1, ExtentsTile

(* A position is in the window. *)
LEMMA PositionRange ==
    ASSUME GoodConstants, GoodCase, NEW position, NEW left, PositionIs(position, left)
    PROVE  /\ position \in Nat /\ left \in Nat
           /\ WindowStart * Capacity <= position /\ position <= WindowEnd * Capacity
<1>0. position \in Nat
  BY DEF PositionIs
<1>1. CASE case.move_backwards
  <2>1. ASSUME NEW b \in Pairs, RunBegin(b) < position, position <= RunEnd(b),
               left = Before(b) + (position - RunBegin(b))
        PROVE  /\ left \in Nat /\ WindowStart * Capacity <= position /\ position <= WindowEnd * Capacity
    BY <1>0, <2>1, RunNumbers
  <2>2. CASE position = WindowStart * Capacity /\ left = 0
    BY <2>2, Borders
  <2> QED
    BY <1>0, <1>1, <2>1, <2>2 DEF PositionIs
<1>2. CASE ~ case.move_backwards
  <2>1. ASSUME NEW b \in Pairs, RunBegin(b) <= position, position < RunEnd(b),
               left = (RunEnd(b) - position) + (Before(WindowEnd) - Before(b + 2))
        PROVE  /\ left \in Nat /\ WindowStart * Capacity <= position /\ position <= WindowEnd * Capacity
    BY <1>0, <2>1, RunNumbers
  <2>2. CASE position = WindowEnd * Capacity /\ left = 0
    BY <2>2, Borders
  <2> QED
    BY <1>0, <1>2, <2>1, <2>2 DEF PositionIs
<1> QED
  BY <1>1, <1>2

(* What is read is in the window. *)
LEMMA InputRange ==
    ASSUME GoodConstants, GoodCase, NEW in, NEW left, InputIs(in, left)
    PROVE  /\ in \in [segment : Int, displacement : Nat, run : Nat] /\ left \in Nat /\ in.run <= left
           /\ in.run = 0 => left = 0
           /\ WindowStart * Capacity <= in.displacement
           /\ in.displacement + in.run <= WindowEnd * Capacity
           /\ InputEnd(in) \in Nat /\ PositionIs(InputEnd(in), left)
           /\ left = 0 => IF case.move_backwards THEN InputEnd(in) = WindowStart * Capacity
                          ELSE InputEnd(in) = WindowEnd * Capacity /\ in.segment >= WindowEnd
<1>0. in \in [segment : Int, displacement : Nat, run : Nat]
  BY DEF InputIs
<1>1. in.segment \in Int /\ in.displacement \in Nat /\ in.run \in Nat
  BY <1>0
<1>2. CASE case.move_backwards
  <2>0. InputEnd(in) = in.displacement + in.run
    BY <1>2 DEF InputEnd
  <2>1. CASE in.displacement = WindowStart * Capacity /\ in.run = 0 /\ left = 0
    <3>1. InputEnd(in) = WindowStart * Capacity
      BY <1>1, <2>0, <2>1, Borders
    <3> QED
      BY <1>0, <1>1, <1>2, <2>0, <2>1, <3>1, Borders DEF PositionIs
  <2>2. ASSUME NEW b \in Pairs, in.displacement = RunBegin(b), in.run > 0,
               in.displacement + in.run <= RunEnd(b), left = Before(b) + in.run
        PROVE  /\ left \in Nat /\ in.run <= left /\ left # 0
               /\ WindowStart * Capacity <= in.displacement
               /\ in.displacement + in.run <= WindowEnd * Capacity
               /\ PositionIs(InputEnd(in), left)
    <3>1. /\ left \in Nat /\ in.run <= left /\ left # 0
          /\ WindowStart * Capacity <= in.displacement
          /\ in.displacement + in.run <= WindowEnd * Capacity
      BY <1>1, <2>2, RunNumbers
    <3>2. /\ RunBegin(b) < in.displacement + in.run
          /\ left = Before(b) + ((in.displacement + in.run) - RunBegin(b))
          /\ in.displacement + in.run \in Nat
      BY <1>1, <2>2, RunNumbers
    <3>3. PositionIs(in.displacement + in.run, left)
      BY <1>2, <2>2, <3>2 DEF PositionIs
    <3> QED
      BY <2>0, <3>1, <3>3
  <2>3. InputEnd(in) \in Nat
    BY <1>1, <2>0
  <2>4. \/ in.displacement = WindowStart * Capacity /\ in.run = 0 /\ left = 0
        \/ \E b \in Pairs : /\ in.displacement = RunBegin(b) /\ in.run > 0
                            /\ in.displacement + in.run <= RunEnd(b) /\ left = Before(b) + in.run
    BY <1>2 DEF InputIs
  <2> QED
    BY <1>0, <1>1, <1>2, <2>1, <2>2, <2>3, <2>4
<1>3. CASE ~ case.move_backwards
  <2>0. InputEnd(in) = in.displacement
    BY <1>1, <1>3 DEF InputEnd
  <2>1. CASE in.displacement = WindowEnd * Capacity /\ in.run = 0 /\ left = 0 /\ in.segment >= WindowEnd
    <3>1. PositionIs(WindowEnd * Capacity, 0)
      BY <1>3, Borders DEF PositionIs
    <3> QED
      BY <1>0, <1>1, <1>3, <2>0, <2>1, <3>1, Borders
  <2>2. ASSUME NEW b \in Pairs, in.run > 0, RunBegin(b) <= in.displacement,
               in.displacement + in.run = RunEnd(b),
               left = in.run + (Before(WindowEnd) - Before(b + 2))
        PROVE  /\ left \in Nat /\ in.run <= left /\ left # 0
               /\ WindowStart * Capacity <= in.displacement
               /\ in.displacement + in.run <= WindowEnd * Capacity
               /\ PositionIs(InputEnd(in), left)
    <3>1. /\ left \in Nat /\ in.run <= left /\ left # 0
          /\ WindowStart * Capacity <= in.displacement
          /\ in.displacement + in.run <= WindowEnd * Capacity
      BY <1>1, <2>2, RunNumbers
    <3>2. in.displacement < RunEnd(b) /\ in.run = RunEnd(b) - in.displacement
      BY <1>1, <2>2, RunNumbers
    <3>3. PositionIs(in.displacement, left)
      BY <1>1, <1>3, <2>2, <3>2 DEF PositionIs
    <3> QED
      BY <2>0, <3>1, <3>3
  <2>4. \/ in.displacement = WindowEnd * Capacity /\ in.run = 0 /\ left = 0 /\ in.segment >= WindowEnd
        \/ \E b \in Pairs : /\ in.run > 0 /\ RunBegin(b) <= in.displacement
                            /\ in.displacement + in.run = RunEnd(b)
                            /\ left = in.run + (Before(WindowEnd) - Before(b + 2))
    BY <1>3 DEF InputIs
  <2> QED
    BY <1>0, <1>1, <1>3, <2>0, <2>1, <2>2, <2>4
<1> QED
  BY <1>2, <1>3

(* The run at a position, from left to right. *)
LEMMA ReadForwards ==
    ASSUME GoodConstants, GoodCase, ~ case.move_backwards, m_segment_sizes = case.sizes,
           NEW left, left # 0, PositionIs(m_position, left)
    PROVE  InputIs(InputForwards, left) /\ InputEnd(InputForwards) = m_position
<1>1. m_position \in Nat
  BY DEF PositionIs
<1>2. PICK b \in Pairs : /\ RunBegin(b) <= m_position /\ m_position < RunEnd(b)
                         /\ left = (RunEnd(b) - m_position) + (Before(WindowEnd) - Before(b + 2))
  BY DEF PositionIs
<1>3. Capacity \in Nat \ {0}
  BY DEF GoodConstants
<1> DEFINE s == m_position \div Capacity
           o == m_position % Capacity
           in == InputForwards
<1>4. s \in Nat /\ o \in 0 .. (Capacity - 1) /\ m_position = s * Capacity + o
  BY <1>1, <1>3
<1>5. in = [segment |-> s, displacement |-> m_position,
            run |-> IF s % 2 = 0 THEN (Capacity - o) + case.sizes[s + 1] ELSE case.sizes[s] - o]
  BY <1>3 DEF InputForwards
<1>6. \A q \in Int : q * Capacity <= m_position /\ m_position < (q + 1) * Capacity <=> s = q
  BY <1>1, <1>3, Quotient
<1> HIDE DEF s, o, in
<1>7. b \in Nat /\ b % 2 = 0
  BY RunNumbers DEF Pairs
<1>8. s \in {b, b + 1} /\ in.run = RunEnd(b) - m_position
  <2>1. CASE m_position < (b + 1) * Capacity
    <3>1. s = b
      BY <1>1, <1>2, <1>3, <1>6, <1>7, <2>1, RunNumbers
    <3>2. in.run = (Capacity - o) + case.sizes[b + 1]
      BY <1>5, <1>7, <3>1
    <3> QED
      BY <1>1, <1>3, <1>4, <3>1, <3>2, RunNumbers
  <2>2. CASE ~ m_position < (b + 1) * Capacity
    <3>1. (b + 1) + 1 = b + 2
      BY <1>7
    <3>2. s = b + 1
      <4>1. m_position < (b + 2) * Capacity /\ (b + 1) * Capacity <= m_position
        BY <1>1, <1>2, <1>3, <2>2, RunNumbers
      <4>2. m_position < ((b + 1) + 1) * Capacity
        BY <3>1, <4>1
      <4> QED
        BY <1>6, <1>7, <4>1, <4>2
    <3>3. (b + 1) % 2 # 0
      BY <1>7
    <3>4. in.run = case.sizes[b + 1] - o
      BY <1>5, <3>2, <3>3
    <3> QED
      BY <1>1, <1>3, <1>4, <3>2, <3>4, RunNumbers
  <2> QED
    BY <2>1, <2>2
<1>9. in.segment = s /\ in.displacement = m_position
  BY <1>5
<1>10. in.run \in Nat /\ in.run > 0 /\ in.displacement + in.run = RunEnd(b)
  BY <1>1, <1>2, <1>8, <1>9, RunNumbers
<1>11. in \in [segment : Int, displacement : Nat, run : Nat]
  <2> DEFINE r == IF s % 2 = 0 THEN (Capacity - o) + case.sizes[s + 1] ELSE case.sizes[s] - o
  <2>1. in = [segment |-> s, displacement |-> m_position, run |-> r]
    BY <1>5
  <2> HIDE DEF r
  <2>2. r \in Nat
    BY <1>10, <2>1
  <2> QED
    BY <1>1, <1>4, <2>1, <2>2
<1>12. left = in.run + (Before(WindowEnd) - Before(b + 2))
  BY <1>2, <1>8
<1>13. InputIs(in, left)
  BY <1>2, <1>8, <1>9, <1>10, <1>11, <1>12 DEF InputIs
<1>14. InputEnd(in) = m_position
  BY <1>1, <1>9 DEF InputEnd
<1> QED
  BY <1>13, <1>14 DEF in

(* The same from right to left. *)
LEMMA ReadBackwards ==
    ASSUME GoodConstants, GoodCase, case.move_backwards, m_segment_sizes = case.sizes,
           NEW left, left # 0, PositionIs(m_position, left)
    PROVE  InputIs(InputBackwards, left) /\ InputEnd(InputBackwards) = m_position
<1>1. m_position \in Nat
  BY DEF PositionIs
<1>2. PICK b \in Pairs : /\ RunBegin(b) < m_position /\ m_position <= RunEnd(b)
                         /\ left = Before(b) + (m_position - RunBegin(b))
  BY DEF PositionIs
<1>3. Capacity \in Nat \ {0}
  BY DEF GoodConstants
<1> DEFINE h == (m_position - 1) \div (2 * Capacity)
           in == InputBackwards
<1>4. b \in Nat /\ b % 2 = 0
  BY RunNumbers DEF Pairs
<1>5. PICK g \in Nat : b = 2 * g
  BY <1>4
<1>6. g * (2 * Capacity) = b * Capacity /\ (g + 1) * (2 * Capacity) = b * Capacity + 2 * Capacity
  BY <1>3, <1>5
<1>7. g * (2 * Capacity) <= m_position - 1 /\ m_position - 1 < (g + 1) * (2 * Capacity)
  BY <1>1, <1>2, <1>3, <1>6, RunNumbers
<1>8. h = g
  <2>1. m_position - 1 \in Int /\ 2 * Capacity \in Nat \ {0} /\ g \in Int
    BY <1>1, <1>3
  <2> QED
    BY <1>7, <2>1, Quotient
<1>9. in = [segment |-> h * 2, displacement |-> SegmentBegin(case.sizes, h * 2),
            run |-> m_position - SegmentBegin(case.sizes, h * 2)]
  BY DEF InputBackwards
<1> HIDE DEF h, in
<1>10. h * 2 = b
  BY <1>5, <1>8
<1>11. in = [segment |-> b, displacement |-> RunBegin(b), run |-> m_position - RunBegin(b)]
  BY <1>9, <1>10 DEF RunBegin
<1>12. in.segment = b /\ in.displacement = RunBegin(b) /\ in.run = m_position - RunBegin(b)
  BY <1>11
<1>13. m_position - RunBegin(b) \in Nat /\ m_position - RunBegin(b) > 0 /\ RunBegin(b) \in Nat
       /\ RunBegin(b) + (m_position - RunBegin(b)) = m_position
  BY <1>1, <1>2, RunNumbers
<1>14. in \in [segment : Int, displacement : Nat, run : Nat]
  BY <1>4, <1>11, <1>13
<1>15. InputIs(in, left)
  BY <1>2, <1>12, <1>13, <1>14 DEF InputIs
<1>16. InputEnd(in) = m_position
  BY <1>12, <1>13 DEF InputEnd
<1> QED
  BY <1>15, <1>16 DEF in

(* The pair of segments that follows one, if any. *)
LEMMA NextPair ==
    ASSUME GoodConstants, GoodCase, NEW b \in Pairs
    PROVE  /\ b + 2 \in Window => b + 2 \in Pairs /\ (b + 2) + 2 = b + 4
           /\ b + 2 \notin Window => b + 2 = WindowEnd
           /\ b - 2 >= WindowStart => b - 2 \in Pairs /\ (b - 2) + 2 = b
           /\ ~ b - 2 >= WindowStart => b = WindowStart
<1>1. WindowEnd \in Nat /\ WindowStart \in Nat /\ Window = WindowStart .. (WindowEnd - 1)
      /\ WindowEnd % 2 = 0 /\ WindowStart % 2 = 0
  BY DEF GoodConstants, Window, WindowEnd
<1>2. b \in Nat /\ b % 2 = 0 /\ b \in Window /\ WindowStart <= b /\ b + 2 <= WindowEnd
  BY RunNumbers DEF Pairs, RunPlaced
<1>3. (b + 2) % 2 = 0 /\ (b - 2) % 2 = 0
  BY <1>2
<1> QED
  BY <1>1, <1>2, <1>3 DEF Pairs

(* Some elements of the run are read, the next run is fetched after the last. *)
LEMMA ConsumeForwards ==
    ASSUME GoodConstants, GoodCase, ~ case.move_backwards, m_segment_sizes = case.sizes,
           NEW in, NEW left, InputIs(in, left), NEW k \in 0 .. in.run, left # 0
    PROVE  LET fetched == FetchForwards([in EXCEPT !.displacement = @ + k, !.run = @ - k])
           IN  InputIs(fetched, left - k) /\ InputEnd(in) <= InputEnd(fetched)
<1> DEFINE next == [in EXCEPT !.displacement = @ + k, !.run = @ - k]
           fetched == FetchForwards(next)
<1>1. /\ in \in [segment : Int, displacement : Nat, run : Nat]
      /\ in.segment \in Int /\ in.displacement \in Nat /\ in.run \in Nat
  BY DEF InputIs
<1>2. PICK b \in Pairs : /\ in.segment \in {b, b + 1} /\ in.run > 0 /\ RunBegin(b) <= in.displacement
                         /\ in.displacement + in.run = RunEnd(b)
                         /\ left = in.run + (Before(WindowEnd) - Before(b + 2))
  BY DEF InputIs
<1>3. k \in Nat /\ k <= in.run
  BY <1>1
<1>4. next \in [segment : Int, displacement : Nat, run : Nat] /\ next.segment = in.segment
      /\ next.displacement = in.displacement + k /\ next.run = in.run - k
  <2>1. in.displacement + k \in Nat /\ in.run - k \in Nat
    BY <1>1, <1>3
  <2>2. next.segment = in.segment /\ next.displacement = in.displacement + k /\ next.run = in.run - k
    BY <1>1
  <2>3. next \in [segment : Int, displacement : Nat, run : Nat]
    <3>1. [in EXCEPT !.displacement = @ + k] \in [segment : Int, displacement : Nat, run : Nat]
      BY <1>1, <1>3
    <3>2. next = [[in EXCEPT !.displacement = @ + k] EXCEPT !.run = in.run - k]
      BY <1>1
    <3> QED
      BY <2>1, <3>1, <3>2
  <2> QED
    BY <2>2, <2>3
<1>5. InputEnd(in) = in.displacement
  BY <1>1 DEF InputEnd
<1> HIDE DEF next
<1>6. CASE next.run > 0
  <2>1. fetched = next
    BY <1>6 DEF FetchForwards
  <2>2. /\ RunBegin(b) <= next.displacement /\ next.displacement + next.run = RunEnd(b)
        /\ left - k = next.run + (Before(WindowEnd) - Before(b + 2))
    BY <1>1, <1>2, <1>3, <1>4, RunNumbers
  <2>3. InputIs(next, left - k)
    BY <1>2, <1>4, <1>6, <2>2 DEF InputIs
  <2>4. InputEnd(next) = in.displacement + k
    BY <1>1, <1>3, <1>4 DEF InputEnd
  <2> QED
    BY <1>1, <1>3, <1>5, <2>1, <2>3, <2>4 DEF next
<1>7. CASE ~ next.run > 0
  <2>1. next.run = 0 /\ k = in.run
    BY <1>1, <1>3, <1>4, <1>7
  <2>2. b \in Nat /\ b % 2 = 0 /\ (b + 1) % 2 # 0
    BY RunNumbers DEF Pairs
  <2>3. next.segment + 1 + (IF next.segment % 2 = 0 THEN 1 ELSE 0) = b + 2
    <3>1. CASE in.segment = b
      BY <1>4, <2>2, <3>1
    <3>2. CASE in.segment = b + 1
      BY <1>4, <2>2, <3>2
    <3> QED
      BY <1>2, <3>1, <3>2
  <2>4. left - k = Before(WindowEnd) - Before(b + 2)
    BY <1>1, <1>2, <2>1, RunNumbers
  <2>5. fetched = IF b + 2 \in Window
                  THEN [segment |-> b + 2, displacement |-> SegmentBegin(m_segment_sizes, b + 2),
                        run |-> m_segment_sizes[b + 2] + m_segment_sizes[(b + 2) + 1]]
                  ELSE [segment |-> b + 2, displacement |-> (WindowStart + WindowLength) * Capacity, run |-> 0]
    BY <1>7, <2>3 DEF FetchForwards
  <2> HIDE DEF fetched
  <2>6. CASE b + 2 \in Window
    <3> DEFINE d == b + 2
    <3>1. d \in Pairs /\ d + 2 = b + 4
      BY <2>6, NextPair
    <3>2. fetched = [segment |-> d, displacement |-> RunBegin(d), run |-> case.sizes[d] + case.sizes[d + 1]]
      BY <2>5, <2>6 DEF RunBegin
    <3> HIDE DEF d
    <3>3. case.sizes[d] + case.sizes[d + 1] > 0
      BY <3>1 DEF GoodCase
    <3>4. /\ RunEnd(d) = RunBegin(d) + (case.sizes[d] + case.sizes[d + 1]) /\ RunBegin(d) \in Nat /\ d \in Nat
          /\ case.sizes[d] + case.sizes[d + 1] \in Nat /\ d * Capacity <= RunBegin(d)
      <4>1. Capacity \in Nat
        BY DEF GoodConstants
      <4> QED
        BY <3>1, <4>1, RunNumbers
    <3>5. /\ fetched \in [segment : Int, displacement : Nat, run : Nat] /\ fetched.segment = d
          /\ fetched.displacement = RunBegin(d) /\ fetched.run = case.sizes[d] + case.sizes[d + 1]
      BY <3>2, <3>4
    <3>6. left - k = fetched.run + (Before(WindowEnd) - Before(d + 2))
      <4>1. Before(d + 2) = Before(d) + (RunEnd(d) - RunBegin(d)) /\ Before(d) \in Nat
        BY <3>1, RunNumbers
      <4>2. left - k = Before(WindowEnd) - Before(d) /\ Before(WindowEnd) \in Nat
        BY <2>4, RunNumbers DEF d
      <4> QED
        BY <3>4, <3>5, <4>1, <4>2
    <3>7. InputIs(fetched, left - k)
      BY <3>1, <3>3, <3>4, <3>5, <3>6 DEF InputIs
    <3>8. InputEnd(fetched) = RunBegin(d)
      BY <3>4, <3>5 DEF InputEnd
    <3>9. in.displacement <= RunBegin(d)
      <4>1. in.displacement <= RunEnd(b) /\ RunEnd(b) <= (b + 2) * Capacity
        BY <1>1, <1>2, RunNumbers
      <4>2. (b + 2) * Capacity <= RunBegin(d) /\ (b + 2) * Capacity \in Nat /\ RunEnd(b) \in Nat
        BY <3>4, RunNumbers DEF d
      <4> QED
        BY <1>1, <3>4, <4>1, <4>2
    <3> QED
      BY <1>5, <3>7, <3>8, <3>9 DEF fetched, next
  <2>7. CASE b + 2 \notin Window
    <3>1. b + 2 = WindowEnd
      BY <2>7, NextPair
    <3>2. fetched = [segment |-> WindowEnd, displacement |-> WindowEnd * Capacity, run |-> 0]
      BY <2>5, <2>7, <3>1 DEF WindowEnd
    <3>3. WindowEnd \in Nat /\ WindowEnd * Capacity \in Nat
      BY Borders DEF GoodConstants
    <3>4. /\ fetched \in [segment : Int, displacement : Nat, run : Nat] /\ fetched.segment = WindowEnd
          /\ fetched.displacement = WindowEnd * Capacity /\ fetched.run = 0
      BY <3>2, <3>3
    <3>5. left - k = 0
      BY <2>4, <3>1, RunNumbers
    <3>6. InputIs(fetched, left - k)
      BY <3>3, <3>4, <3>5 DEF InputIs
    <3>7. InputEnd(fetched) = WindowEnd * Capacity
      BY <3>3, <3>4 DEF InputEnd
    <3>8. in.displacement <= WindowEnd * Capacity
      BY <1>1, <1>2, <3>3, InputRange
    <3> QED
      BY <1>5, <3>6, <3>7, <3>8 DEF fetched, next
  <2> QED
    BY <2>6, <2>7
<1> QED
  BY <1>6, <1>7

(* The same from right to left. *)
LEMMA ConsumeBackwards ==
    ASSUME GoodConstants, GoodCase, case.move_backwards, m_segment_sizes = case.sizes,
           NEW in, NEW left, InputIs(in, left), NEW k \in 0 .. in.run, left # 0
    PROVE  LET fetched == FetchBackwards([in EXCEPT !.run = @ - k])
           IN  InputIs(fetched, left - k) /\ InputEnd(fetched) <= InputEnd(in)
<1> DEFINE next == [in EXCEPT !.run = @ - k]
           fetched == FetchBackwards(next)
<1>1. /\ in \in [segment : Int, displacement : Nat, run : Nat]
      /\ in.segment \in Int /\ in.displacement \in Nat /\ in.run \in Nat
  BY DEF InputIs
<1>2. PICK b \in Pairs : /\ in.segment = b /\ in.displacement = RunBegin(b) /\ in.run > 0
                         /\ in.displacement + in.run <= RunEnd(b) /\ left = Before(b) + in.run
  BY DEF InputIs
<1>3. k \in Nat /\ k <= in.run
  BY <1>1
<1>4. next \in [segment : Int, displacement : Nat, run : Nat] /\ next.segment = in.segment
      /\ next.displacement = in.displacement /\ next.run = in.run - k
  BY <1>1, <1>3
<1>5. InputEnd(in) = in.displacement + in.run
  BY DEF InputEnd
<1> HIDE DEF next
<1>6. CASE next.run > 0
  <2>1. fetched = next
    BY <1>6 DEF FetchBackwards
  <2>2. next.displacement + next.run <= RunEnd(b) /\ left - k = Before(b) + next.run
    BY <1>1, <1>2, <1>3, <1>4, RunNumbers
  <2>3. InputIs(next, left - k)
    BY <1>2, <1>4, <1>6, <2>2 DEF InputIs
  <2>4. InputEnd(next) = in.displacement + (in.run - k)
    BY <1>4 DEF InputEnd
  <2> QED
    BY <1>1, <1>3, <1>5, <2>1, <2>3, <2>4 DEF next
<1>7. CASE ~ next.run > 0
  <2>1. next.run = 0 /\ k = in.run
    BY <1>1, <1>3, <1>4, <1>7
  <2>2. b \in Nat
    BY RunNumbers
  <2>3. left - k = Before(b)
    BY <1>1, <1>2, <2>1, RunNumbers
  <2>4. fetched = IF b - 2 >= WindowStart
                  THEN [segment |-> b - 2, displacement |-> SegmentBegin(m_segment_sizes, b - 2),
                        run |-> m_segment_sizes[b - 2] + m_segment_sizes[(b - 2) + 1]]
                  ELSE [segment |-> b - 2, displacement |-> WindowStart * Capacity, run |-> 0]
    BY <1>2, <1>4, <1>7 DEF FetchBackwards
  <2> HIDE DEF fetched
  <2>5. CASE b - 2 >= WindowStart
    <3> DEFINE d == b - 2
    <3>1. d \in Pairs /\ d + 2 = b
      BY <2>5, NextPair
    <3>2. fetched = [segment |-> d, displacement |-> RunBegin(d), run |-> case.sizes[d] + case.sizes[d + 1]]
      BY <2>4, <2>5 DEF RunBegin
    <3>20. d <= b
      BY <2>2
    <3> HIDE DEF d
    <3>3. case.sizes[d] + case.sizes[d + 1] > 0
      <4>1. PICK last \in Pairs : \A s \in Pairs : case.sizes[s] + case.sizes[s + 1] > 0 <=> s <= last
        BY DEF GoodCase
      <4>2. case.sizes[b] + case.sizes[b + 1] > 0
        <5>1. Capacity \in Nat
          BY DEF GoodConstants
        <5> QED
          BY <1>1, <1>2, <5>1, RunNumbers
      <4>3. last \in Nat /\ d \in Nat
        BY <3>1, RunNumbers
      <4> QED
        BY <2>2, <3>1, <3>20, <4>1, <4>2, <4>3
    <3>4. /\ RunEnd(d) = RunBegin(d) + (case.sizes[d] + case.sizes[d + 1]) /\ RunBegin(d) \in Nat /\ d \in Nat
          /\ case.sizes[d] + case.sizes[d + 1] \in Nat /\ RunEnd(d) <= (d + 2) * Capacity
      <4>1. Capacity \in Nat
        BY DEF GoodConstants
      <4> QED
        BY <3>1, <4>1, RunNumbers
    <3>5. /\ fetched \in [segment : Int, displacement : Nat, run : Nat] /\ fetched.segment = d
          /\ fetched.displacement = RunBegin(d) /\ fetched.run = case.sizes[d] + case.sizes[d + 1]
      BY <3>2, <3>4
    <3>6. left - k = Before(d) + fetched.run
      <4>1. Before(b) = Before(d) + (RunEnd(d) - RunBegin(d)) /\ Before(d) \in Nat
        BY <3>1, RunNumbers
      <4> QED
        BY <2>3, <3>4, <3>5, <4>1
    <3>7. InputIs(fetched, left - k)
      BY <3>1, <3>3, <3>4, <3>5, <3>6 DEF InputIs
    <3>8. InputEnd(fetched) = RunEnd(d)
      BY <3>4, <3>5 DEF InputEnd
    <3>9. RunEnd(d) <= in.displacement + in.run
      <4>1. RunEnd(d) <= b * Capacity /\ RunEnd(d) \in Int
        BY <3>1, <3>4
      <4>2. b * Capacity <= RunBegin(b) /\ b * Capacity \in Nat
        BY RunNumbers
      <4> QED
        BY <1>1, <1>2, <4>1, <4>2
    <3> QED
      BY <1>5, <3>7, <3>8, <3>9 DEF fetched, next
  <2>6. CASE ~ b - 2 >= WindowStart
    <3>1. b = WindowStart
      BY <2>6, NextPair
    <3>2. fetched = [segment |-> b - 2, displacement |-> WindowStart * Capacity, run |-> 0]
      BY <2>4, <2>6
    <3>3. WindowStart * Capacity \in Nat
      BY Borders
    <3>4. /\ fetched \in [segment : Int, displacement : Nat, run : Nat] /\ fetched.segment = b - 2
          /\ fetched.displacement = WindowStart * Capacity /\ fetched.run = 0
      BY <2>2, <3>2, <3>3
    <3>5. left - k = 0
      BY <2>3, <3>1, BeforeIs
    <3>6. fetched.segment < WindowStart
      BY <2>2, <3>1, <3>4
    <3>7. InputIs(fetched, left - k)
      BY <3>4, <3>5, <3>6 DEF InputIs
    <3>8. InputEnd(fetched) = WindowStart * Capacity
      BY <3>3, <3>4 DEF InputEnd
    <3>9. WindowStart * Capacity <= in.displacement
      BY InputRange
    <3> QED
      BY <1>1, <1>5, <3>3, <3>7, <3>8, <3>9 DEF fetched, next
  <2> QED
    BY <2>5, <2>6
<1> QED
  BY <1>6, <1>7

-----------------------------------------------------------------------------
(* What a step keeps *)

(* The case never changes, hence neither what is said of it. *)
LEMMA SameCase ==
    ASSUME case' = case
    PROVE  /\ WindowEnd' = WindowEnd /\ Target' = Target
           /\ \A c : /\ IsCursor(c)' <=> IsCursor(c)
                     /\ SegmentsBefore(c)' = SegmentsBefore(c) /\ TargetBefore(c)' = TargetBefore(c)
                     /\ FirstOf(c)' = FirstOf(c) /\ SecondOf(c)' = SecondOf(c)
           /\ \A x, y : /\ PositionIs(x, y)' <=> PositionIs(x, y)
                        /\ InputIs(x, y)' <=> InputIs(x, y)
                        /\ InputEnd(x)' = InputEnd(x)
<1>1. WindowEnd' = WindowEnd /\ Target' = Target
  BY DEF WindowEnd, Target
<1>2. ASSUME NEW c
      PROVE  /\ IsCursor(c)' <=> IsCursor(c)
             /\ SegmentsBefore(c)' = SegmentsBefore(c) /\ TargetBefore(c)' = TargetBefore(c)
             /\ FirstOf(c)' = FirstOf(c) /\ SecondOf(c)' = SecondOf(c)
  <2>1. IsCursor(c)' <=> IsCursor(c)
    BY DEF IsCursor
  <2>2. SegmentsBefore(c)' = SegmentsBefore(c)
    BY DEF SegmentsBefore
  <2>3. TargetBefore(c)' = TargetBefore(c)
    BY DEF TargetBefore
  <2>4. FirstOf(c)' = FirstOf(c)
    BY DEF FirstOf, PartitionAt
  <2>5. SecondOf(c)' = SecondOf(c)
    BY DEF SecondOf, PartitionAt, StepForwards
  <2> QED
    BY <2>1, <2>2, <2>3, <2>4, <2>5
<1>3. ASSUME NEW b
      PROVE  RunBegin(b)' = RunBegin(b) /\ RunEnd(b)' = RunEnd(b) /\ Before(b)' = Before(b)
  BY DEF RunBegin, RunEnd, Before, WindowEnd
<1>4. Pairs' = Pairs /\ WindowEnd' = WindowEnd
  BY DEF Pairs, WindowEnd
<1>5. ASSUME NEW x, NEW y
      PROVE  /\ PositionIs(x, y)' <=> PositionIs(x, y)
             /\ InputIs(x, y)' <=> InputIs(x, y)
             /\ InputEnd(x)' = InputEnd(x)
  <2>1. PositionIs(x, y)' <=> PositionIs(x, y)
    BY <1>3, <1>4 DEF PositionIs
  <2>2. InputIs(x, y)' <=> InputIs(x, y)
    BY <1>3, <1>4 DEF InputIs
  <2>3. InputEnd(x)' = InputEnd(x)
    BY DEF InputEnd
  <2> QED
    BY <2>1, <2>2, <2>3
<1> QED
  BY <1>1, <1>2, <1>5

(* The slots of the elements that are beyond a position, as the input is read. *)
UnreadFrom(position) ==
    {p \in UNION {SegmentSlots(case.sizes, s) : s \in Window} :
        IF case.move_backwards THEN p < position ELSE p >= position}

(* They are slots of the window. *)
LEMMA UnreadInWindow ==
    ASSUME GoodConstants, GoodCase, NEW position, NEW p \in UnreadFrom(position)
    PROVE  p \in Slots
<1>1. PICK s \in Window : p \in SegmentSlots(case.sizes, s)
  BY DEF UnreadFrom
<1>2. /\ WindowEnd \in Nat /\ WindowStart \in Nat /\ Window = WindowStart .. (WindowEnd - 1)
      /\ Capacity \in Nat \ {0} /\ WindowEnd = WindowStart + WindowLength
  BY DEF GoodConstants, Window, WindowEnd
<1>3. s \in Nat /\ s + 1 <= WindowEnd
  BY <1>2
<1>4. case.sizes[s] \in 0 .. Capacity
  <2>1. s \in 0 .. (WindowEnd - 1)
    BY <1>2
  <2> QED
    BY <2>1 DEF GoodCase
<1>5. s * Capacity \in Nat /\ s * Capacity + Capacity <= WindowEnd * Capacity
  <2>1. (s + 1) * Capacity <= WindowEnd * Capacity /\ (s + 1) * Capacity = s * Capacity + Capacity
    BY <1>2, <1>3
  <2> QED
    BY <1>2, <1>3, <2>1
<1>6. SegmentBegin(case.sizes, s) \in Int
      /\ SegmentBegin(case.sizes, s) >= s * Capacity
      /\ SegmentBegin(case.sizes, s) + case.sizes[s] <= s * Capacity + Capacity
  <2> DEFINE z == IF s % 2 = 0 THEN Capacity - case.sizes[s] ELSE 0
  <2>1. SegmentBegin(case.sizes, s) = s * Capacity + z
    BY DEF SegmentBegin
  <2>2. z \in Int /\ 0 <= z /\ z + case.sizes[s] <= Capacity
    BY <1>2, <1>4
  <2> DEFINE base == s * Capacity
             n == case.sizes[s]
             begin == SegmentBegin(case.sizes, s)
  <2>3. base \in Nat /\ n \in Nat /\ begin = base + z /\ z + n <= Capacity
    BY <1>4, <1>5, <2>1, <2>2
  <2>4. Capacity \in Nat
    BY <1>2
  <2> HIDE DEF z, base, n, begin
  <2>5. begin \in Int /\ begin >= base /\ begin + n <= base + Capacity
    BY <2>2, <2>3, <2>4
  <2> QED
    BY <2>5 DEF base, n, begin
<1>7. p \in Int /\ SegmentBegin(case.sizes, s) <= p /\ p <= SegmentBegin(case.sizes, s) + case.sizes[s] - 1
  BY <1>1, <1>4, <1>6 DEF SegmentSlots
<1>8. WindowEnd * Capacity \in Nat
  BY <1>2
<1>9. 0 <= p /\ p <= WindowEnd * Capacity - 1
  <2> DEFINE base == s * Capacity
             end == WindowEnd * Capacity
             n == case.sizes[s]
             begin == SegmentBegin(case.sizes, s)
  <2>1. /\ base \in Nat /\ n \in Nat /\ end \in Nat /\ Capacity \in Nat /\ begin \in Int
        /\ base + Capacity <= end /\ begin >= base /\ begin + n <= base + Capacity
        /\ p \in Int /\ begin <= p /\ p <= begin + n - 1
    BY <1>2, <1>4, <1>5, <1>6, <1>7, <1>8
  <2> HIDE DEF base, end, n, begin
  <2>2. 0 <= p /\ p <= end - 1
    BY <2>1
  <2> QED
    BY <2>2 DEF end
<1> QED
  BY <1>2, <1>7, <1>8, <1>9 DEF Slots

(* The unread slots are those beyond the frontier, before and after a step. *)
LEMMA UnreadIs ==
    ASSUME pc \in {"pair", "copy", "reclaim"} => input \in [segment : Int, displacement : Nat, run : Nat]
    PROVE  UnreadSlots = UnreadFrom(Frontier)
<1>1. CASE case.move_backwards
  BY <1>1 DEF UnreadSlots, UnreadFrom, Frontier, InputEnd
<1>2. CASE ~ case.move_backwards
  <2>1. CASE pc \in {"pair", "copy", "reclaim"}
    <3>1. input.displacement + 0 = input.displacement
      BY <2>1
    <3> QED
      BY <1>2, <2>1, <3>1 DEF UnreadSlots, UnreadFrom, Frontier, InputEnd
  <2>2. CASE pc \notin {"pair", "copy", "reclaim"}
    BY <1>2, <2>2 DEF UnreadSlots, UnreadFrom, Frontier
  <2> QED
    BY <2>1, <2>2
<1> QED
  BY <1>1, <1>2

(* The same after a step. *)
LEMMA UnreadIsNext ==
    ASSUME case' = case,
           pc' \in {"pair", "copy", "reclaim"} => input' \in [segment : Int, displacement : Nat, run : Nat]
    PROVE  UnreadSlots' = UnreadFrom(Frontier')
<1>0. UnreadFrom(Frontier)' = UnreadFrom(Frontier')
  BY DEF UnreadFrom
<1>1. CASE case'.move_backwards
  BY <1>0, <1>1 DEF UnreadSlots, UnreadFrom, Frontier, InputEnd
<1>2. CASE ~ case'.move_backwards
  <2>1. CASE pc' \in {"pair", "copy", "reclaim"}
    <3>1. input'.displacement + 0 = input'.displacement
      BY <2>1
    <3> QED
      BY <1>0, <1>2, <2>1, <3>1 DEF UnreadSlots, UnreadFrom, Frontier, InputEnd
  <2>2. CASE pc' \notin {"pair", "copy", "reclaim"}
    BY <1>0, <1>2, <2>2 DEF UnreadSlots, UnreadFrom, Frontier
  <2> QED
    BY <2>1, <2>2
<1> QED
  BY <1>1, <1>2

(* What is read later was there before. *)
LEMMA StillUnread ==
    ASSUME NEW f \in Int, NEW g \in Int, IF case.move_backwards THEN g <= f ELSE f <= g,
           GoodConstants, GoodCase
    PROVE  UnreadFrom(g) \subseteq UnreadFrom(f)
<1> SUFFICES ASSUME NEW p \in UnreadFrom(g) PROVE p \in UnreadFrom(f)
  OBVIOUS
<1>1. p \in Int
  <2>1. p \in Slots
    BY UnreadInWindow
  <2> QED
    BY <2>1, Borders DEF Slots
<1> QED
  BY <1>1 DEF UnreadFrom

-----------------------------------------------------------------------------
(* The output *)

(* The segments of an extent. *)
LEMMA ExtentSegments ==
    ASSUME GoodConstants, NEW e \in 0 .. (NumExtents - 1)
    PROVE  /\ e * SegmentsPerExtent \in Nat /\ e * SegmentsPerExtent + SegmentsPerExtent <= WindowLength
           /\ (e + 1) * SegmentsPerExtent = e * SegmentsPerExtent + SegmentsPerExtent
           /\ (e - 1) * SegmentsPerExtent = e * SegmentsPerExtent - SegmentsPerExtent
           /\ e = NumExtents - 1 => e * SegmentsPerExtent + SegmentsPerExtent = WindowLength
           /\ e = 0 => e * SegmentsPerExtent = 0
           /\ e > 0 => e * SegmentsPerExtent >= SegmentsPerExtent
<1>1. /\ SegmentsPerExtent \in Nat \ {0} /\ NumExtents \in Nat \ {0} /\ WindowLength = NumExtents * SegmentsPerExtent
      /\ e \in Nat /\ e + 1 <= NumExtents
  BY DEF GoodConstants
<1>2. (e + 1) * SegmentsPerExtent <= NumExtents * SegmentsPerExtent
  BY <1>1
<1>3. e * SegmentsPerExtent \in Nat /\ (e + 1) * SegmentsPerExtent = e * SegmentsPerExtent + SegmentsPerExtent
      /\ (e - 1) * SegmentsPerExtent = e * SegmentsPerExtent - SegmentsPerExtent
  BY <1>1
<1>4. e = NumExtents - 1 => e * SegmentsPerExtent + SegmentsPerExtent = WindowLength
  BY <1>1, <1>3
<1>5. e > 0 => e * SegmentsPerExtent >= SegmentsPerExtent
  BY <1>1
<1> QED
  BY <1>1, <1>2, <1>3, <1>4, <1>5

(* Before the pairs of an extent are written there is a pair for each, *)
(* and what they get is still to be written.                            *)
LEMMA PairToWrite ==
    ASSUME GoodConstants, GoodCase, CursorPlaced, OutputPlaced, pc \in {"extent", "pair", "copy"}
    PROVE  /\ IsCursor(Cursor) /\ SegmentsBefore(Cursor) + 2 <= WindowLength
           /\ get_partition_current = FirstOf(Cursor) /\ get_partition_next = SecondOf(Cursor)
           /\ PairTarget = FirstOf(Cursor) + SecondOf(Cursor)
           /\ FirstOf(Cursor) \in 1 .. Capacity /\ SecondOf(Cursor) \in 1 .. Capacity
           /\ IsCursor(Forwards2(Cursor)) /\ SegmentsBefore(Forwards2(Cursor)) = SegmentsBefore(Cursor) + 2
           /\ TargetBefore(Cursor) \in Nat /\ Target \in Nat /\ TargetBefore(Forwards2(Cursor)) \in 0 .. Target
           /\ TargetBefore(Forwards2(Cursor)) = TargetBefore(Cursor) + PairTarget
<1>1. IsCursor(Cursor)
  BY DEF CursorPlaced
<1>2. extent_id \in 0 .. (NumExtents - 1) /\ SegmentsPerExtent \in Nat /\ SegmentsPerExtent >= 2
      /\ SegmentsPerExtent % 2 = 0 /\ WindowLength \in Nat
  BY DEF OutputPlaced, GoodConstants
<1> DEFINE o == extent_id * SegmentsPerExtent
<1>3. /\ o \in Nat /\ o + SegmentsPerExtent <= WindowLength
  BY <1>2, ExtentSegments
<1>4. SegmentsBefore(Cursor) + 2 <= WindowLength
  <2>1. CASE pc = "extent"
    <3>1. CASE case.move_backwards
      <4>1. o + (SegmentsPerExtent - 2) >= 0
        BY <1>2, <1>3
      <4>2. SegmentsBefore(Cursor) = o + (SegmentsPerExtent - 2)
        BY <2>1, <3>1, <4>1 DEF CursorPlaced
      <4> HIDE DEF o
      <4> QED
        BY <1>2, <1>3, <4>2
    <3>2. CASE ~ case.move_backwards
      <4>1. SegmentsBefore(Cursor) = (extent_id + 0) * SegmentsPerExtent
        BY <2>1, <3>2 DEF CursorPlaced
      <4>2. SegmentsBefore(Cursor) = o
        BY <1>2, <4>1
      <4> HIDE DEF o
      <4> QED
        BY <1>2, <1>3, <4>2
    <3> QED
      BY <3>1, <3>2
  <2>2. CASE pc \in {"pair", "copy"}
    <3>1. SegmentsBefore(Cursor) = o + pair /\ pair \in 0 .. (SegmentsPerExtent - 2)
      BY <2>2 DEF CursorPlaced, OutputPlaced
    <3> HIDE DEF o
    <3> QED
      BY <1>2, <1>3, <3>1
  <2> QED
    BY <2>1, <2>2
<1>5. get_partition_current = FirstOf(Cursor) /\ get_partition_next = SecondOf(Cursor)
  BY DEF get_partition_current, get_partition_next, FirstOf, SecondOf, Cursor
<1>6. PairTarget = FirstOf(Cursor) + SecondOf(Cursor)
  BY <1>5 DEF PairTarget
<1> HIDE DEF o
<1>7. /\ FirstOf(Cursor) \in 1 .. Capacity /\ SecondOf(Cursor) \in 1 .. Capacity
      /\ IsCursor(Forwards2(Cursor)) /\ SegmentsBefore(Forwards2(Cursor)) = SegmentsBefore(Cursor) + 2
      /\ TargetBefore(Cursor) \in Nat /\ TargetBefore(Forwards2(Cursor)) \in Nat
      /\ TargetBefore(Forwards2(Cursor)) = TargetBefore(Cursor) + FirstOf(Cursor) + SecondOf(Cursor)
  BY <1>1, <1>4, PairAtCursor
<1>8. TargetBefore(Forwards2(Cursor)) \in 0 .. Target /\ Target \in Nat
  BY <1>7, CursorRange
<1>9. Capacity \in Nat
  BY DEF GoodConstants
<1>10. TargetBefore(Forwards2(Cursor)) = TargetBefore(Cursor) + PairTarget
  BY <1>6, <1>7, <1>9
<1> QED
  BY <1>1, <1>4, <1>5, <1>6, <1>7, <1>8, <1>10

(* Before the first segment nothing is to be written. *)
LEMMA NothingBefore ==
    ASSUME GoodConstants, GoodCase, NEW c, IsCursor(c), SegmentsBefore(c) = 0
    PROVE  TargetBefore(c) = 0
<1> DEFINE n == Len(case.partitions)
           SF == Sums(SegmentsOf(case.partitions))
           SE == Sums(ElementsOf(case.partitions))
<1>1. GoodPartitions(n) /\ WindowLength \in Nat \ {0}
  BY PartitionsAreGood DEF GoodConstants
<1>2. c \in [id : 0 .. n, offset : Nat] /\ c.id \in 0 .. n /\ c.offset \in Nat /\ n \in Nat
  BY <1>1 DEF IsCursor, GoodPartitions
<1>3. SegmentsBefore(c) = SF[c.id] + c.offset /\ SF[c.id] \in Nat /\ SF[n] = WindowLength /\ SE[0] = 0
  BY <1>1, <1>2 DEF SegmentsBefore, GoodPartitions
<1>4. SF[c.id] = 0 /\ c.offset = 0
  BY <1>2, <1>3
<1>5. c.id = 0
  <2> SUFFICES ASSUME c.id # 0 PROVE FALSE
    OBVIOUS
  <2>1. c.id \in 1 .. n /\ c.id - 1 \in 0 .. n
    BY <1>2
  <2>2. SF[c.id] = SF[c.id - 1] + case.partitions[c.id].m_segments
        /\ SF[c.id - 1] \in Nat /\ case.partitions[c.id].m_segments \in Nat \ {0}
    BY <1>1, <2>1 DEF GoodPartitions
  <2> QED
    BY <1>4, <2>2
<1>6. n # 0
  BY <1>1, <1>3, <1>4, <1>5
<1>7. TargetBefore(c) = SE[0] + (0 * (case.partitions[1].m_cardinality \div case.partitions[1].m_segments)
                                  + Min2(0, case.partitions[1].m_cardinality % case.partitions[1].m_segments))
  BY <1>4, <1>5, <1>6 DEF TargetBefore
<1>8. case.partitions[1].m_cardinality \in Nat /\ case.partitions[1].m_segments \in Nat \ {0}
  <2>1. 1 \in 1 .. n
    BY <1>2, <1>6
  <2> QED
    BY <1>1, <2>1 DEF GoodPartitions
<1> DEFINE q == case.partitions[1].m_cardinality \div case.partitions[1].m_segments
           r == case.partitions[1].m_cardinality % case.partitions[1].m_segments
<1>9. q \in Nat /\ r \in Nat
  BY <1>8
<1> HIDE DEF q, r, SE
<1>10. 0 * q + Min2(0, r) = 0
  BY <1>9 DEF Min2
<1>11. TargetBefore(c) = SE[0] + (0 * q + Min2(0, r))
  BY <1>7 DEF q, r, SE
<1> QED
  BY <1>3, <1>10, <1>11 DEF SE

(* Where the cursor starts: at the first segment, or at the last pair of segments. *)
LEMMA CursorStart ==
    ASSUME GoodConstants, GoodCase
    PROVE  /\ IsCursor([id |-> 0, offset |-> 0]) /\ SegmentsBefore([id |-> 0, offset |-> 0]) = 0
           /\ LET n == Len(case.partitions)
                  start == StepBackwards([id |-> n - 1, offset |-> case.partitions[n].m_segments - 1])
              IN  IsCursor(start) /\ SegmentsBefore(start) = WindowLength - 2
<1> DEFINE n == Len(case.partitions)
           SF == Sums(SegmentsOf(case.partitions))
           m == case.partitions[n].m_segments
           c == [id |-> 0, offset |-> 0]
           d == [id |-> n - 1, offset |-> m - 1]
           start == StepBackwards(d)
<1>1. GoodPartitions(n) /\ WindowLength \in Nat \ {0}
  BY PartitionsAreGood DEF GoodConstants
<1>2. SF[n] = WindowLength /\ SF[0] = 0 /\ n \in Nat
  BY <1>1 DEF GoodPartitions
<1>3. n # 0
  BY <1>1, <1>2
<1>4. 1 \in 1 .. n /\ n \in 1 .. n /\ n - 1 \in 0 .. n
  BY <1>2, <1>3
<1>5. case.partitions[1].m_segments \in Nat \ {0} /\ m \in Nat \ {0} /\ SF[n - 1] \in Nat /\ SF[n] = SF[n - 1] + m
  BY <1>1, <1>4 DEF GoodPartitions
<1>6. IsCursor(c) /\ SegmentsBefore(c) = 0
  <2>1. c \in [id : 0 .. n, offset : Nat] /\ c.id = 0 /\ c.offset = 0
    BY <1>2
  <2> HIDE DEF c
  <2>2. c.offset < case.partitions[c.id + 1].m_segments
    BY <1>5, <2>1
  <2>3. IsCursor(c)
    BY <1>3, <2>1, <2>2 DEF IsCursor
  <2>4. SegmentsBefore(c) = SF[0] + 0
    BY <2>1 DEF SegmentsBefore
  <2> QED
    BY <1>2, <2>3, <2>4
<1>7. IsCursor(d) /\ SegmentsBefore(d) = WindowLength - 1
  <2>1. d \in [id : 0 .. n, offset : Nat] /\ d.id = n - 1 /\ d.offset = m - 1 /\ d.id + 1 = n /\ d.id # n
    BY <1>2, <1>4, <1>5
  <2>2. d.offset < case.partitions[d.id + 1].m_segments
    BY <1>5, <2>1
  <2> HIDE DEF d
  <2>3. IsCursor(d)
    BY <2>1, <2>2 DEF IsCursor
  <2>4. SegmentsBefore(d) = SF[n - 1] + (m - 1)
    BY <2>1 DEF SegmentsBefore
  <2> QED
    BY <1>2, <1>5, <2>3, <2>4
<1> HIDE DEF d
<1>8. IsCursor(start) /\ SegmentsBefore(start) = WindowLength - 2
  <2>1. WindowLength >= 2
    <3>1. 0 \in 0 .. (NumExtents - 1) /\ SegmentsPerExtent \in Nat /\ SegmentsPerExtent >= 2
      BY DEF GoodConstants
    <3>2. 0 * SegmentsPerExtent \in Nat /\ 0 * SegmentsPerExtent + SegmentsPerExtent <= WindowLength
      BY <3>1, ExtentSegments
    <3> QED
      BY <1>1, <3>1, <3>2
  <2>2. IsCursor(start) /\ StepForwards(start) = d /\ start.id < n
    BY <1>1, <1>7, <2>1, StepBackwardsIs
  <2>3. SegmentsBefore(start) \in Nat /\ SegmentsBefore(d) = SegmentsBefore(start) + 1
    BY <2>2, StepForwardsIs
  <2> QED
    BY <1>1, <1>7, <2>2, <2>3
<1> QED
  BY <1>6, <1>8 DEF d

(* The spread starts with its invariant. *)
LEMMA InitInv ==
    ASSUME SpreadAssumption, CallersAssumption, Init
    PROVE  SpreadInv
<1>0. /\ case \in Cases /\ keys = case.keys /\ m_segment_sizes = case.sizes
      /\ separator = [s \in Window |-> NotSet] /\ m_extents_to_rewire = <<>>
      /\ m_insert_segment = case.insert_segment /\ pc = "extent"
      /\ output = [displacement |-> 0, run |-> 0]
      /\ m_position = IF case.move_backwards THEN case.start_position
                      ELSE SegmentBegin(case.sizes, WindowStart)
      /\ extent_id = IF case.move_backwards THEN NumExtents - 1 ELSE 0
  BY DEF Init
<1>1. GoodConstants /\ GoodCase
  BY <1>0, Constants, CaseIsGood
<1>2. /\ NumExtents \in Nat \ {0} /\ WindowEnd \in Nat /\ WindowStart \in Nat /\ WindowStart < WindowEnd
      /\ WindowStart % 2 = 0 /\ WindowLength \in Nat /\ Window = WindowStart .. (WindowEnd - 1)
      /\ SegmentsPerExtent \in Nat /\ SegmentsPerExtent >= 2
  BY <1>1 DEF GoodConstants, Window, WindowEnd
<1>3. extent_id \in 0 .. (NumExtents - 1)
  BY <1>0, <1>2
<1>4. IsCursor(Cursor) /\ SegmentsBefore(Cursor) = IF case.move_backwards THEN WindowLength - 2 ELSE 0
  <2> DEFINE n == Len(case.partitions)
             start == StepBackwards([id |-> n - 1, offset |-> case.partitions[n].m_segments - 1])
  <2>1. CASE case.move_backwards
    <3>1. n \in Nat
      BY <1>1 DEF GoodCase
    <3>2. (n - 1) + 1 = n
      BY <3>1
    <3>3. m_partition_id = start.id /\ m_partition_offset = start.offset
      BY <2>1, <3>2 DEF Init
    <3>4. IsCursor(start) /\ SegmentsBefore(start) = WindowLength - 2
      BY <1>1, CursorStart
    <3> HIDE DEF start
    <3>5. start \in [id : 0 .. n, offset : Nat]
      BY <3>4 DEF IsCursor
    <3>6. Cursor = start
      BY <3>3, <3>5 DEF Cursor
    <3> QED
      BY <2>1, <3>4, <3>6
  <2>2. CASE ~ case.move_backwards
    <3>1. Cursor = [id |-> 0, offset |-> 0]
      BY <2>2 DEF Init, Cursor
    <3> QED
      BY <1>1, <2>2, <3>1, CursorStart
  <2> QED
    BY <2>1, <2>2
<1>5. CursorPlaced
  <2> DEFINE o == extent_id * SegmentsPerExtent
  <2>1. CASE case.move_backwards
    <3>1. o \in Nat /\ o + SegmentsPerExtent = WindowLength
      BY <1>0, <1>1, <1>3, <2>1, ExtentSegments
    <3> HIDE DEF o
    <3>2. SegmentsBefore(Cursor) = o + (SegmentsPerExtent - 2)
      BY <1>2, <1>4, <2>1, <3>1
    <3> QED
      BY <1>0, <1>4, <2>1, <3>2 DEF CursorPlaced, o
  <2>2. CASE ~ case.move_backwards
    <3>1. (extent_id + 0) * SegmentsPerExtent = 0
      BY <1>0, <1>2, <2>2
    <3> QED
      BY <1>0, <1>4, <2>2, <3>1 DEF CursorPlaced
  <2> QED
    BY <2>1, <2>2
<1>6. OutputPlaced
  BY <1>0, <1>3 DEF OutputPlaced
<1>7. PositionIs(m_position, Todo - Inserting)
  <2>0. Before(WindowEnd) \in Nat /\ Target = Before(WindowEnd) + Inserting /\ Inserting \in {0, 1}
    <3>1. WindowEnd \in 0 .. WindowEnd
      BY <1>2
    <3>2. InsertsAtFirst = Inserting /\ Inserting \in {0, 1}
      BY <1>0 DEF InsertsAtFirst, Inserting
    <3> QED
      BY <1>1, <3>1, <3>2, BeforeIs DEF GoodCase
  <2>1. CASE case.move_backwards
    <3>1. PICK last \in Pairs : /\ case.start_position = (last + 1) * Capacity + case.sizes[last + 1]
                                /\ \A b \in Pairs : case.sizes[b] + case.sizes[b + 1] > 0 <=> b <= last
      BY <1>1, <2>1 DEF GoodCase
    <3>2. m_position = RunEnd(last)
      BY <1>0, <2>1, <3>1 DEF RunEnd
    <3>3. /\ RunBegin(last) \in Nat /\ RunEnd(last) \in Nat /\ last \in Nat /\ RunBegin(last) < RunEnd(last)
          /\ Before(last + 2) = Before(last) + (RunEnd(last) - RunBegin(last)) /\ Before(last) \in Nat
      <4>1. case.sizes[last] + case.sizes[last + 1] > 0
        <5>1. last \in Nat
          BY <1>1, RunNumbers
        <5> QED
          BY <3>1, <5>1
      <4>2. Capacity \in Nat
        BY <1>1 DEF GoodConstants
      <4>3. /\ RunBegin(last) \in Nat /\ RunEnd(last) \in Nat /\ last \in Nat
            /\ case.sizes[last] \in 0 .. Capacity /\ case.sizes[last + 1] \in 0 .. Capacity
            /\ RunBegin(last) = (last + 1) * Capacity - case.sizes[last]
            /\ RunEnd(last) = (last + 1) * Capacity + case.sizes[last + 1]
            /\ (last + 1) * Capacity \in Nat
            /\ Before(last + 2) = Before(last) + (RunEnd(last) - RunBegin(last)) /\ Before(last) \in Nat
        BY <1>1, RunNumbers
      <4>4. RunBegin(last) < RunEnd(last)
        BY <4>1, <4>2, <4>3
      <4> QED
        BY <4>3, <4>4
    <3>4. Before(WindowEnd) = Before(last + 2)
      <4>1. last + 2 \in 0 .. WindowEnd /\ last % 2 = 0
        BY <1>1, RunNumbers DEF RunPlaced, Pairs
      <4>2. ASSUME NEW t \in Window, last + 2 <= t PROVE case.sizes[t] = 0
        <5>1. t \in Nat /\ WindowStart <= t /\ t < WindowEnd /\ WindowEnd % 2 = 0
          BY <1>1, <1>2 DEF GoodConstants
        <5>2. PICK b \in Pairs : t \in {b, b + 1} /\ b > last
          <6>1. CASE t % 2 = 0
            <7>1. t \in Pairs /\ t > last
              BY <3>3, <4>2, <5>1, <6>1 DEF Pairs
            <7> QED
              BY <7>1
          <6>2. CASE t % 2 # 0
            <7>1. (t - 1) % 2 = 0 /\ t - 1 > last /\ t - 1 >= WindowStart
              BY <1>2, <3>3, <4>1, <4>2, <5>1, <6>2
            <7>2. t - 1 \in Pairs /\ t = (t - 1) + 1
              BY <1>2, <5>1, <7>1 DEF Pairs
            <7> QED
              BY <7>1, <7>2
          <6> QED
            BY <6>1, <6>2
        <5>3. ~ case.sizes[b] + case.sizes[b + 1] > 0
          <6>1. b \in Nat /\ ~ b <= last
            BY <1>1, <3>3, <5>2, RunNumbers
          <6> QED
            BY <3>1, <6>1
        <5>4. case.sizes[b] \in Nat /\ case.sizes[b + 1] \in Nat
          <6>1. Capacity \in Nat
            BY <1>1 DEF GoodConstants
          <6> QED
            BY <1>1, <6>1, RunNumbers
        <5> QED
          BY <5>2, <5>3, <5>4
      <4> QED
        BY <1>1, <4>1, <4>2, BeforeIs
    <3>5. Inserting = 0
      BY <1>0, <1>1, <2>1 DEF GoodCase, Inserting
    <3>6. Todo = Target
      <4>1. Todo = TargetBefore(Cursor) + PairTarget
        BY <1>0, <2>1 DEF Todo
      <4>2. /\ IsCursor(Forwards2(Cursor)) /\ SegmentsBefore(Forwards2(Cursor)) = SegmentsBefore(Cursor) + 2
            /\ TargetBefore(Forwards2(Cursor)) = TargetBefore(Cursor) + PairTarget
        BY <1>0, <1>1, <1>5, <1>6, PairToWrite
      <4>3. SegmentsBefore(Forwards2(Cursor)) = WindowLength
        BY <1>2, <1>4, <2>1, <4>2
      <4> QED
        BY <1>1, <4>1, <4>2, <4>3, CursorRange
    <3>7. Todo - Inserting = Before(last) + (m_position - RunBegin(last))
      BY <2>0, <3>2, <3>3, <3>4, <3>5, <3>6
    <3> QED
      BY <2>1, <3>2, <3>3, <3>7 DEF PositionIs
  <2>2. CASE ~ case.move_backwards
    <3>1. WindowStart \in Pairs
      BY <1>2 DEF Pairs
    <3>2. m_position = RunBegin(WindowStart)
      BY <1>0, <2>2 DEF RunBegin
    <3>3. TargetBefore(Cursor) = 0
      BY <1>1, <1>4, <2>2, NothingBefore
    <3>4. Todo = Target
      <4>1. Todo = Target - TargetBefore(Cursor) - 0
        BY <1>0, <2>2 DEF Todo
      <4> QED
        BY <2>0, <3>3, <4>1
    <3>5. RunBegin(WindowStart) < RunEnd(WindowStart)
      <4>1. case.sizes[WindowStart] + case.sizes[WindowStart + 1] > 0
        BY <1>1, <2>2, <3>1 DEF GoodCase
      <4>2. Capacity \in Nat
        BY <1>1 DEF GoodConstants
      <4>3. /\ case.sizes[WindowStart] \in 0 .. Capacity /\ case.sizes[WindowStart + 1] \in 0 .. Capacity
            /\ RunBegin(WindowStart) = (WindowStart + 1) * Capacity - case.sizes[WindowStart]
            /\ RunEnd(WindowStart) = (WindowStart + 1) * Capacity + case.sizes[WindowStart + 1]
            /\ (WindowStart + 1) * Capacity \in Nat
        BY <1>1, <3>1, RunNumbers
      <4> QED
        BY <4>1, <4>2, <4>3
    <3>6. Todo - Inserting = (RunEnd(WindowStart) - m_position) + (Before(WindowEnd) - Before(WindowStart + 2))
      <4>1. /\ Before(WindowStart + 2) = Before(WindowStart) + (RunEnd(WindowStart) - RunBegin(WindowStart))
            /\ RunBegin(WindowStart) \in Nat /\ RunEnd(WindowStart) \in Nat
        BY <1>1, <3>1, RunNumbers
      <4>2. Before(WindowStart) = 0
        BY <1>1, BeforeIs
      <4> QED
        BY <2>0, <3>2, <3>4, <4>1, <4>2
    <3>7. m_position \in Nat
      BY <1>1, <3>1, <3>2, RunNumbers
    <3>8. RunBegin(WindowStart) <= m_position /\ m_position < RunEnd(WindowStart)
      BY <3>2, <3>5, <3>7
    <3> QED
      BY <2>2, <3>1, <3>6, <3>7, <3>8 DEF PositionIs
  <2> QED
    BY <2>1, <2>2
<1>8. InputIntact
  <2>1. UnreadSlots = UnreadFrom(Frontier)
    BY <1>0, UnreadIs
  <2> QED
    BY <1>0 DEF InputIntact
<1>9. TypeInv
  <2>1. keys \in [Slots -> Int] /\ separator \in [Window -> Int]
    BY <1>0, <1>1 DEF GoodCase, NotSet
  <2>2. m_segment_sizes \in [0 .. (WindowStart + WindowLength - 1) -> 0 .. Capacity]
    <3>1. WindowStart + WindowLength - 1 = WindowEnd - 1
      BY <1>2 DEF WindowEnd
    <3>2. case.sizes \in [0 .. (WindowEnd - 1) -> 0 .. Capacity]
      BY <1>1 DEF GoodCase
    <3> QED
      BY <1>0, <3>1, <3>2, Zenon
  <2>3. m_position \in 0 .. ((WindowStart + WindowLength) * Capacity)
    <3>1. m_position \in Nat /\ m_position <= WindowEnd * Capacity
      BY <1>1, <1>7, PositionRange
    <3>2. WindowEnd * Capacity \in Nat
      BY <1>1, Borders
    <3>3. m_position \in 0 .. (WindowEnd * Capacity)
      BY <3>1, <3>2
    <3> QED
      BY <3>3, Zenon DEF WindowEnd
  <2>4. extent_id \in -1 .. NumExtents
    BY <1>2, <1>3
  <2>5. output.run \in 0 .. (2 * Capacity)
    BY <1>0, <1>1 DEF GoodConstants
  <2> QED
    BY <1>0, <2>1, <2>2, <2>3, <2>4, <2>5 DEF TypeInv
<1>10. BuffersPlaced
  BY <1>0 DEF BuffersPlaced
<1>11. m_insert_segment \in Window \union {NotSet} /\ (case.move_backwards => m_insert_segment = NotSet)
  BY <1>0, <1>1 DEF GoodCase
<1>12. Walking
  BY <1>0, <1>5, <1>6, <1>7, <1>8 DEF Walking
<1> QED
  BY <1>0, <1>9, <1>10, <1>11, <1>12 DEF SpreadInv

-----------------------------------------------------------------------------
(* The steps *)

(* What a buffer is. *)
LEMMA BufferAt ==
    ASSUME BuffersPlaced, NEW i \in 1 .. Len(m_extents_to_rewire)
    PROVE  /\ m_extents_to_rewire[i] \in [m_extent_id : 0 .. (NumExtents - 1), buffer : [0 .. (ExtentSlots - 1) -> Int]]
           /\ m_extents_to_rewire[i].m_extent_id \in 0 .. (NumExtents - 1)
           /\ m_extents_to_rewire[i].buffer \in [0 .. (ExtentSlots - 1) -> Int]
<1>1. m_extents_to_rewire \in
          Seq([m_extent_id : 0 .. (NumExtents - 1), buffer : [0 .. (ExtentSlots - 1) -> Int]])
  BY DEF BuffersPlaced
<1>2. m_extents_to_rewire[i] \in [m_extent_id : 0 .. (NumExtents - 1), buffer : [0 .. (ExtentSlots - 1) -> Int]]
  BY <1>1, ElementIn, Zenon
<1> QED
  BY <1>2

(* The elements of the pair at the cursor. *)
LEMMA PairTargetIs ==
    PairTarget = FirstOf(Cursor) + SecondOf(Cursor)
BY DEF PairTarget, get_partition_current, get_partition_next, FirstOf, SecondOf, Cursor

(* The same after a step. *)
LEMMA PairTargetNext ==
    ASSUME case' = case
    PROVE  PairTarget' = FirstOf(Cursor') + SecondOf(Cursor')
<1>1. PairTarget' = FirstOf(Cursor)' + SecondOf(Cursor)'
  BY DEF PairTarget, get_partition_current, get_partition_next, FirstOf, SecondOf, Cursor
<1>2. FirstOf(Cursor)' = FirstOf(Cursor')
  BY SameCase
<1>3. SecondOf(Cursor)' = SecondOf(Cursor')
  BY SameCase
<1> QED
  BY <1>1, <1>2, <1>3

(* What is to be written by a spread that has not come to its end, before and after a step. *)
TodoAt(p, e, c, run) ==
    IF case.move_backwards
    THEN CASE p = "copy" -> TargetBefore(c) + run
           [] p = "reclaim" /\ e = 0 -> 0
           [] OTHER -> TargetBefore(c) + (FirstOf(c) + SecondOf(c))
    ELSE Target - TargetBefore(c) - IF p = "copy" THEN (FirstOf(c) + SecondOf(c)) - run ELSE 0

(* What is to be written now. *)
LEMMA TodoIs ==
    Todo = TodoAt(pc, extent_id, Cursor, output.run)
BY PairTargetIs DEF Todo, TodoAt

(* What is to be written after a step. *)
LEMMA TodoNext ==
    ASSUME case' = case
    PROVE  Todo' = TodoAt(pc', extent_id', Cursor', output'.run)
<1>1. Target' = Target /\ TargetBefore(Cursor)' = TargetBefore(Cursor')
  BY SameCase
<1>2. PairTarget' = FirstOf(Cursor') + SecondOf(Cursor')
  BY PairTargetNext
<1> QED
  BY <1>1, <1>2 DEF Todo, TodoAt

(* A pair that is still to be written has an element for each of its segments. *)
LEMMA MoreToDo ==
    ASSUME GoodConstants, GoodCase, CursorPlaced, OutputPlaced, pc \in {"extent", "pair", "copy"}
    PROVE  /\ Inserting \in {0, 1}
           /\ pc # "copy" => Todo \in Nat /\ Todo >= 2
           /\ pc = "copy" => Todo \in Nat /\ Todo >= output.run
<1>1. Inserting \in {0, 1}
  BY DEF Inserting
<1>2. /\ FirstOf(Cursor) \in 1 .. Capacity /\ SecondOf(Cursor) \in 1 .. Capacity
      /\ TargetBefore(Cursor) \in Nat /\ Target \in Nat /\ TargetBefore(Forwards2(Cursor)) \in 0 .. Target
      /\ TargetBefore(Forwards2(Cursor)) = TargetBefore(Cursor) + PairTarget
      /\ PairTarget = FirstOf(Cursor) + SecondOf(Cursor) /\ Capacity \in Nat
  BY PairToWrite DEF GoodConstants
<1>3. pc = "copy" => output.run \in Nat /\ output.run <= PairTarget
  BY DEF OutputPlaced
<1>4. CASE case.move_backwards
  BY <1>1, <1>2, <1>3, <1>4 DEF Todo
<1>5. CASE ~ case.move_backwards
  BY <1>1, <1>2, <1>3, <1>5 DEF Todo
<1> QED
  BY <1>4, <1>5

(* What holds before every step of the loops. *)
LEMMA BeforeStep ==
    ASSUME SpreadAssumption, CallersAssumption, SpreadInv
    PROVE  /\ GoodConstants /\ GoodCase /\ TypeInv /\ BuffersPlaced
           /\ case \in Cases /\ m_insert_segment \in Window \union {NotSet}
           /\ case.move_backwards => m_insert_segment = NotSet
           /\ pc # "done" => m_segment_sizes = case.sizes
           /\ pc \in {"extent", "pair", "copy", "reclaim"} =>
                 /\ CursorPlaced /\ OutputPlaced /\ InputIntact
                 /\ extent_id \in 0 .. (NumExtents - 1)
           /\ pc = "extent" => PositionIs(m_position, Todo - Inserting)
           /\ pc \in {"pair", "copy", "reclaim"} => InputIs(input, Todo - Inserting)
  BY Constants, CaseIsGood DEF SpreadInv, Walking, OutputPlaced

(* Between extents the frontier does not move. *)
LEMMA KeepsIntact ==
    ASSUME GoodConstants, GoodCase, InputIntact, case' = case, NEW f \in Int, NEW g \in Int,
           UnreadSlots = UnreadFrom(f), UnreadSlots' = UnreadFrom(g),
           IF case.move_backwards THEN g <= f ELSE f <= g,
           \A p \in UnreadFrom(g) : keys'[p] = keys[p]
    PROVE  InputIntact'
<1>1. UnreadFrom(g) \subseteq UnreadFrom(f)
  BY StillUnread
<1>2. \A p \in UnreadFrom(g) : keys'[p] = case.keys[p]
  BY <1>1 DEF InputIntact
<1> QED
  BY <1>2 DEF InputIntact

(* An extent is started: the input is read, and a buffer is taken if the input has not passed it. *)
LEMMA StartExtentKeeps ==
    ASSUME SpreadAssumption, CallersAssumption, SpreadInv, StartExtent
    PROVE  SpreadInv'
<1>0. /\ GoodConstants /\ GoodCase /\ TypeInv /\ BuffersPlaced
      /\ case \in Cases /\ m_insert_segment \in Window \union {NotSet}
      /\ case.move_backwards => m_insert_segment = NotSet
      /\ m_segment_sizes = case.sizes /\ CursorPlaced /\ OutputPlaced /\ InputIntact
      /\ extent_id \in 0 .. (NumExtents - 1) /\ PositionIs(m_position, Todo - Inserting) /\ pc = "extent"
  <2>1. pc = "extent"
    BY DEF StartExtent
  <2> QED
    BY <2>1, BeforeStep
<1>1. SegmentsPerExtent \in Nat /\ SegmentsPerExtent >= 2 /\ SegmentsPerExtent % 2 = 0
  BY <1>0 DEF GoodConstants
<1>2. /\ case' = case /\ keys' = keys /\ m_segment_sizes' = m_segment_sizes /\ separator' = separator
      /\ m_position' = m_position /\ m_insert_segment' = m_insert_segment
      /\ extent_id' = extent_id /\ output' = output /\ Cursor' = Cursor
      /\ pair' = FirstPair /\ pc' = "pair"
      /\ input' = IF case.move_backwards THEN InputBackwards ELSE InputForwards
  BY <1>1 DEF StartExtent, FirstPair, cursor_vars, insert_vars, Cursor
<1>3. Todo \in Nat /\ Todo >= 2 /\ Inserting \in {0, 1} /\ Inserting' = Inserting
  BY <1>0, <1>2, MoreToDo DEF Inserting
<1> DEFINE left == Todo - Inserting
<1>4. left \in Nat /\ left # 0
  BY <1>3
<1>5. Todo' = Todo
  BY <1>0, <1>2, TodoIs, TodoNext DEF TodoAt
<1> HIDE DEF left
<1>6. PositionIs(m_position, left)
  BY <1>0 DEF left
<1>7. InputIs(input', left) /\ InputEnd(input') = m_position
  BY <1>0, <1>2, <1>4, <1>6, ReadForwards, ReadBackwards
<1>8. m_position \in Nat
  BY <1>0, <1>6, PositionRange
<1>9. input' \in [segment : Int, displacement : Nat, run : Nat]
  BY <1>7 DEF InputIs
<1>10. Frontier' = m_position /\ Frontier = m_position
  BY <1>0, <1>2, <1>7, SameCase DEF Frontier
<1>11. InputIntact'
  <2>1. UnreadSlots = UnreadFrom(Frontier)
    BY <1>0, UnreadIs
  <2>2. UnreadSlots' = UnreadFrom(Frontier')
    BY <1>2, <1>9, UnreadIsNext
  <2>3. UnreadSlots = UnreadFrom(m_position) /\ UnreadSlots' = UnreadFrom(m_position) /\ m_position \in Int
        /\ m_position <= m_position
    BY <1>8, <1>10, <2>1, <2>2
  <2> QED
    BY <1>0, <1>2, <2>3, KeepsIntact
<1>12. CursorPlaced'
  <2> DEFINE o == extent_id * SegmentsPerExtent
  <2>1. IsCursor(Cursor) /\ o \in Nat
    BY <1>0, ExtentSegments DEF CursorPlaced
  <2>2. SegmentsBefore(Cursor) = o + FirstPair
    <3>1. CASE case.move_backwards
      <4>1. o + (SegmentsPerExtent - 2) >= 0
        BY <1>1, <2>1
      <4> QED
        BY <1>0, <3>1, <4>1 DEF CursorPlaced, FirstPair
    <3>2. CASE ~ case.move_backwards
      <4>1. SegmentsBefore(Cursor) = (extent_id + 0) * SegmentsPerExtent
        BY <1>0, <3>2 DEF CursorPlaced
      <4>2. (extent_id + 0) * SegmentsPerExtent = o /\ FirstPair = 0
        BY <1>0, <3>2 DEF FirstPair
      <4> QED
        BY <2>1, <4>1, <4>2
    <3> QED
      BY <3>1, <3>2
  <2>3. IsCursor(Cursor)' /\ SegmentsBefore(Cursor)' = SegmentsBefore(Cursor)
    BY <1>2, <2>1, SameCase
  <2> QED
    BY <1>2, <2>2, <2>3 DEF CursorPlaced
<1>13. OutputPlaced'
  <2>1. FirstPair \in 0 .. (SegmentsPerExtent - 2) /\ FirstPair % 2 = 0
    BY <1>1 DEF FirstPair
  <2> QED
    BY <1>0, <1>2, <2>1 DEF OutputPlaced
<1>14. BuffersPlaced'
  <2> DEFINE q == m_extents_to_rewire
             R == [m_extent_id : 0 .. (NumExtents - 1), buffer : [0 .. (ExtentSlots - 1) -> Int]]
             new == [m_extent_id |-> extent_id, buffer |-> [i \in 0 .. (ExtentSlots - 1) |-> Stale]]
  <2>1. q \in Seq(R)
    BY <1>0 DEF BuffersPlaced
  <2>2. new \in R /\ new.m_extent_id = extent_id
    BY <1>0 DEF Stale
  <2>3. q' = IF use_rewiring THEN Append(q, new) ELSE q
    BY DEF StartExtent
  <2>4. \A i \in 1 .. Len(q) : IF case.move_backwards THEN q[i].m_extent_id > extent_id
                               ELSE q[i].m_extent_id < extent_id
    BY <1>0 DEF BuffersPlaced
  <2>5. \A i \in 1 .. Len(q) : q[i].m_extent_id \in Int
    BY <1>0, BufferAt
  <2> HIDE DEF q, R, new
  <2>6. q' \in Seq(R)
    BY <2>1, <2>2, <2>3
  <2>7. \A i \in 1 .. Len(q') : IF case.move_backwards THEN q'[i].m_extent_id >= extent_id
                                ELSE q'[i].m_extent_id <= extent_id
    <3>1. CASE use_rewiring
      <4>1. /\ Len(q') = Len(q) + 1 /\ Len(q) \in Nat /\ q'[Len(q) + 1] = new
            /\ \A i \in 1 .. Len(q) : q'[i] = q[i]
        BY <2>1, <2>2, <2>3, <3>1
      <4> SUFFICES ASSUME NEW i \in 1 .. Len(q')
                   PROVE  IF case.move_backwards THEN q'[i].m_extent_id >= extent_id
                          ELSE q'[i].m_extent_id <= extent_id
        OBVIOUS
      <4>2. extent_id \in Int
        BY <1>0
      <4>3. CASE i \in 1 .. Len(q)
        BY <2>4, <2>5, <4>1, <4>2, <4>3
      <4>4. CASE i = Len(q) + 1
        <5>1. q'[i].m_extent_id = extent_id
          BY <2>2, <4>1, <4>4
        <5> QED
          BY <4>2, <5>1
      <4> QED
        BY <4>1, <4>3, <4>4
    <3>2. CASE ~ use_rewiring
      <4>1. extent_id \in Int /\ q' = q
        BY <1>0, <2>3, <3>2
      <4> QED
        BY <2>4, <2>5, <4>1
    <3> QED
      BY <3>1, <3>2
  <2>8. ASSUME ~ OutputToBuffer'
        PROVE  IF case.move_backwards THEN m_position <= get_offset(extent_id)
               ELSE get_offset(extent_id + 1) <= m_position
    <3>1. ~ use_rewiring
      <4> SUFFICES ASSUME use_rewiring PROVE FALSE
        OBVIOUS
      <4>1. Len(q') = Len(q) + 1 /\ Len(q) \in Nat /\ q'[Len(q) + 1] = new
        BY <2>1, <2>2, <2>3
      <4>2. q' # <<>> /\ q'[Len(q')].m_extent_id = extent_id
        BY <2>2, <4>1
      <4> QED
        BY <1>2, <2>8, <4>2 DEF OutputToBuffer, q
    <3>2. CASE case.move_backwards
      <4>1. position2extent(m_position + -1) \in Int /\ ~ (position2extent(m_position + -1) >= extent_id)
        BY <1>0, <1>8, <3>1, <3>2, ExtentOrder DEF use_rewiring, CurrentExtent
      <4>2. m_position + -1 \in Int /\ extent_id \in Int
        BY <1>0, <1>8
      <4>3. m_position + -1 < get_offset(extent_id) /\ get_offset(extent_id) \in Int
        BY <1>0, <4>1, <4>2, ExtentOrder
      <4> QED
        BY <1>8, <3>2, <4>3
    <3>3. CASE ~ case.move_backwards
      <4>0. m_position + 0 = m_position
        BY <1>8
      <4>1. position2extent(m_position) \in Int /\ ~ (position2extent(m_position) <= extent_id)
        BY <1>0, <1>8, <3>1, <3>3, <4>0, ExtentOrder DEF use_rewiring, CurrentExtent
      <4>2. m_position \in Int /\ extent_id + 1 \in Int
        BY <1>0, <1>8
      <4>3. ~ (position2extent(m_position) < extent_id + 1)
        BY <1>0, <4>1
      <4>4. ~ (m_position < get_offset(extent_id + 1)) /\ get_offset(extent_id + 1) \in Int
        BY <1>0, <4>2, <4>3, ExtentOrder
      <4> QED
        BY <1>8, <3>3, <4>4
    <3> QED
      BY <3>2, <3>3
  <2>9. get_offset(extent_id)' = get_offset(extent_id) /\ get_offset(extent_id + 1)' = get_offset(extent_id + 1)
    BY <1>2 DEF get_offset
  <2> QED
    BY <1>2, <1>10, <2>6, <2>7, <2>8, <2>9 DEF BuffersPlaced, q, R
<1>15. InputIs(input, Todo - Inserting)'
  BY <1>2, <1>3, <1>5, <1>7, SameCase DEF left
<1>16. Walking'
  BY <1>2, <1>11, <1>12, <1>13, <1>15 DEF Walking
<1>17. TypeInv'
  BY <1>0, <1>2 DEF TypeInv
<1> QED
  BY <1>0, <1>2, <1>14, <1>16, <1>17 DEF SpreadInv

(* A pair of segments is started. *)
LEMMA StartPairKeeps ==
    ASSUME SpreadAssumption, CallersAssumption, SpreadInv, StartPair
    PROVE  SpreadInv'
<1>0. /\ GoodConstants /\ GoodCase /\ TypeInv /\ BuffersPlaced
      /\ case \in Cases /\ m_insert_segment \in Window \union {NotSet}
      /\ case.move_backwards => m_insert_segment = NotSet
      /\ m_segment_sizes = case.sizes /\ CursorPlaced /\ OutputPlaced /\ InputIntact
      /\ extent_id \in 0 .. (NumExtents - 1) /\ InputIs(input, Todo - Inserting) /\ pc = "pair"
  <2>1. pc = "pair"
    BY DEF StartPair
  <2> QED
    BY <2>1, BeforeStep
<1>1. /\ case' = case /\ keys' = keys /\ m_segment_sizes' = m_segment_sizes /\ separator' = separator
      /\ m_position' = m_position /\ m_extents_to_rewire' = m_extents_to_rewire
      /\ m_insert_segment' = m_insert_segment
      /\ extent_id' = extent_id /\ pair' = pair /\ input' = input /\ Cursor' = Cursor /\ pc' = "copy"
  BY DEF StartPair, cursor_vars, insert_vars, Cursor
<1> DEFINE first == FirstOf(Cursor)
           second == SecondOf(Cursor)
<1>2. first \in 1 .. Capacity /\ second \in 1 .. Capacity /\ PairTarget = first + second
      /\ get_partition_current = first /\ get_partition_next = second
      /\ TargetBefore(Cursor) \in Nat /\ Target \in Nat
  BY <1>0, PairToWrite
<1>3. output' = [displacement |-> pair * Capacity + (Capacity - first), run |-> first + second]
  BY <1>2 DEF StartPair
<1>4. Capacity \in Nat \ {0} /\ SegmentsPerExtent \in Nat
  BY <1>0 DEF GoodConstants
<1>5. pair \in 0 .. (SegmentsPerExtent - 2) /\ pair % 2 = 0
  BY <1>0 DEF OutputPlaced
<1>6. pair * Capacity \in Nat /\ (pair + 2) * Capacity = pair * Capacity + 2 * Capacity
  BY <1>4, <1>5
<1> DEFINE base == pair * Capacity
<1> HIDE DEF first, second, base
<1>7. base \in Nat /\ base + (Capacity - first) \in Nat /\ first + second \in Nat
  BY <1>2, <1>4, <1>6 DEF base
<1>8. output' = [displacement |-> base + (Capacity - first), run |-> first + second]
  BY <1>3 DEF base
<1>9. /\ output' \in [displacement : Nat, run : Nat]
      /\ output'.displacement = base + (Capacity - first) /\ output'.run = first + second
  BY <1>7, <1>8
<1>10. base <= output'.displacement /\ output'.displacement + output'.run <= base + 2 * Capacity
       /\ output'.run <= 2 * Capacity
  BY <1>2, <1>4, <1>7, <1>9
<1>11. PairTarget' = first + second
  BY <1>1, PairTargetNext DEF first, second
<1>12. OutputPlaced'
  BY <1>0, <1>1, <1>5, <1>6, <1>9, <1>10, <1>11 DEF OutputPlaced, base
<1>13. Inserting' = Inserting
  BY <1>1 DEF Inserting
<1>14. Todo' = Todo
  <2>1. Todo' = TodoAt("copy", extent_id, Cursor, first + second)
    BY <1>1, <1>9, TodoNext
  <2>2. Todo = TodoAt("pair", extent_id, Cursor, output.run)
    BY <1>0, TodoIs
  <2>3. FirstOf(Cursor) = first /\ SecondOf(Cursor) = second
    BY DEF first, second
  <2> QED
    BY <1>2, <1>4, <2>1, <2>2, <2>3 DEF TodoAt
<1>15. InputIs(input, Todo - Inserting)'
  BY <1>0, <1>1, <1>13, <1>14, SameCase
<1>16. Frontier' = Frontier /\ UnreadSlots' = UnreadSlots
  <2>1. Frontier' = Frontier
    BY <1>0, <1>1, SameCase DEF Frontier
  <2>2. input \in [segment : Int, displacement : Nat, run : Nat]
    BY <1>0 DEF InputIs
  <2> QED
    BY <1>1, <2>1, <2>2, UnreadIs, UnreadIsNext
<1>17. InputIntact'
  BY <1>0, <1>1, <1>16 DEF InputIntact
<1>18. CursorPlaced'
  <2>1. IsCursor(Cursor)' /\ SegmentsBefore(Cursor)' = SegmentsBefore(Cursor)
    BY <1>0, <1>1, SameCase DEF CursorPlaced
  <2> QED
    BY <1>0, <1>1, <2>1 DEF CursorPlaced
<1>19. BuffersPlaced'
  <2>1. OutputToBuffer' <=> OutputToBuffer
    BY <1>1 DEF OutputToBuffer
  <2>2. get_offset(extent_id)' = get_offset(extent_id) /\ get_offset(extent_id + 1)' = get_offset(extent_id + 1)
    BY <1>1 DEF get_offset
  <2> QED
    BY <1>0, <1>1, <1>16, <2>1, <2>2 DEF BuffersPlaced
<1>20. TypeInv'
  <2>1. output'.run \in 0 .. (2 * Capacity)
    BY <1>4, <1>7, <1>9, <1>10
  <2> QED
    BY <1>0, <1>1, <2>1 DEF TypeInv
<1>21. Walking'
  BY <1>1, <1>12, <1>15, <1>17, <1>18 DEF Walking
<1> QED
  BY <1>0, <1>1, <1>19, <1>20, <1>21 DEF SpreadInv

(* Another element in one place of a sequence. *)
LEMMA Replaced ==
    ASSUME NEW S, NEW seq \in Seq(S), NEW i \in 1 .. Len(seq), NEW x \in S
    PROVE  /\ [seq EXCEPT ![i] = x] \in Seq(S) /\ Len([seq EXCEPT ![i] = x]) = Len(seq)
           /\ [seq EXCEPT ![i] = x][i] = x
           /\ \A j \in 1 .. Len(seq) : j # i => [seq EXCEPT ![i] = x][j] = seq[j]
OBVIOUS

(* A copy writes to the buffer of the extent or in place, within the extent. *)
LEMMA CopyOutIs ==
    ASSUME GoodConstants, TypeInv, BuffersPlaced, extent_id \in 0 .. (NumExtents - 1), extent_id' = extent_id,
           pair \in 0 .. (SegmentsPerExtent - 2), NEW n \in Nat, NEW chunk \in [1 .. n -> Int], NEW d \in Nat,
           d + n <= (pair + 2) * Capacity, CopyOut(chunk, d)
    PROVE  /\ keys' \in [Slots -> Int]
           /\ m_extents_to_rewire' \in
                 Seq([m_extent_id : 0 .. (NumExtents - 1), buffer : [0 .. (ExtentSlots - 1) -> Int]])
           /\ Len(m_extents_to_rewire') = Len(m_extents_to_rewire)
           /\ \A i \in 1 .. Len(m_extents_to_rewire) :
                 m_extents_to_rewire'[i].m_extent_id = m_extents_to_rewire[i].m_extent_id
           /\ OutputToBuffer' <=> OutputToBuffer
           /\ \A p \in Slots :
                 keys'[p] # keys[p] =>
                    ~ OutputToBuffer /\ get_offset(extent_id) <= p /\ p < get_offset(extent_id + 1)
<1> DEFINE Copied(f, base) == [p \in DOMAIN f |-> IF (p - base - d) + 1 \in DOMAIN chunk
                                                  THEN chunk[(p - base - d) + 1] ELSE f[p]]
           q == m_extents_to_rewire
           last == Len(q)
           R == [m_extent_id : 0 .. (NumExtents - 1), buffer : [0 .. (ExtentSlots - 1) -> Int]]
<1>1. IF OutputToBuffer
      THEN /\ q' = [q EXCEPT ![last].buffer = Copied(@, 0)]
           /\ UNCHANGED keys
      ELSE /\ keys' = Copied(keys, get_offset(extent_id))
           /\ UNCHANGED q
  BY DEF CopyOut
<1>2. keys \in [Slots -> Int] /\ q \in Seq(R) /\ last \in Nat
  BY DEF TypeInv, BuffersPlaced
<1>3. DOMAIN chunk = 1 .. n /\ \A i \in 1 .. n : chunk[i] \in Int
  OBVIOUS
<1>4. /\ get_offset(extent_id) \in Int /\ get_offset(extent_id + 1) = get_offset(extent_id) + ExtentSlots
      /\ ExtentSlots \in Nat
  <2>1. extent_id \in Int /\ extent_id \in 0 .. NumExtents
    BY DEF GoodConstants
  <2> QED
    BY <2>1, ExtentOrder, ExtentsTile
<1>5. d + n <= ExtentSlots
  <2>1. /\ pair + 1 \in 0 .. (SegmentsPerExtent - 1) /\ (pair + 1) + 1 = pair + 2 /\ Capacity \in Nat
    BY DEF GoodConstants
  <2>2. (pair + 2) * Capacity \in Nat /\ (pair + 2) * Capacity <= ExtentSlots
    BY <2>1, SegmentInExtent
  <2> QED
    BY <1>4, <2>2
<1>6. CASE OutputToBuffer
  <2>1. last \in 1 .. last /\ q[last].m_extent_id = extent_id
    BY <1>2, <1>6 DEF OutputToBuffer
  <2>2. q[last] \in R /\ q[last].buffer \in [0 .. (ExtentSlots - 1) -> Int]
        /\ q[last].m_extent_id \in 0 .. (NumExtents - 1)
    BY <2>1, BufferAt
  <2> DEFINE new == Copied(q[last].buffer, 0)
  <2>3. new \in [0 .. (ExtentSlots - 1) -> Int]
    BY <1>3, <2>2
  <2>4. q' = [q EXCEPT ![last] = [q[last] EXCEPT !.buffer = new]] /\ keys' = keys
    BY <1>1, <1>6
  <2> DEFINE r == [q[last] EXCEPT !.buffer = new]
  <2> HIDE DEF new
  <2>5. r \in R /\ r.m_extent_id = q[last].m_extent_id
    BY <2>2, <2>3
  <2> HIDE DEF r, R, last, q
  <2>6. q' = [q EXCEPT ![last] = r]
    BY <2>4 DEF r
  <2>10. last \in 1 .. Len(q)
    BY <2>1 DEF last
  <2>11. q' \in Seq(R) /\ Len(q') = Len(q) /\ q'[last] = r /\ \A j \in 1 .. Len(q) : j # last => q'[j] = q[j]
    BY <1>2, <2>5, <2>6, <2>10, Replaced
  <2>7. q' \in Seq(R) /\ Len(q') = Len(q)
    BY <2>11
  <2>8. \A i \in 1 .. Len(q) : q'[i].m_extent_id = q[i].m_extent_id
    BY <2>5, <2>11
  <2>9. OutputToBuffer'
    <3>1. q'[Len(q')].m_extent_id = extent_id' /\ q' # <<>>
      BY <2>1, <2>7, <2>8, <2>10 DEF last
    <3> QED
      BY <3>1 DEF OutputToBuffer, q
  <2> QED
    BY <1>2, <1>6, <2>4, <2>7, <2>8, <2>9 DEF R, q
<1>7. CASE ~ OutputToBuffer
  <2>1. keys' = Copied(keys, get_offset(extent_id)) /\ q' = q
    BY <1>1, <1>7
  <2> DEFINE base == get_offset(extent_id)
  <2>2. keys' \in [Slots -> Int]
    BY <1>2, <1>3, <2>1
  <2>3. ASSUME NEW p \in Slots, keys'[p] # keys[p] PROVE base <= p /\ p < get_offset(extent_id + 1)
    <3>1. keys'[p] = IF (p - base - d) + 1 \in DOMAIN chunk THEN chunk[(p - base - d) + 1] ELSE keys[p]
      BY <1>2, <2>1
    <3>2. (p - base - d) + 1 \in 1 .. n
      BY <1>3, <2>3, <3>1
    <3>3. p \in Int
      BY Borders DEF Slots
    <3> HIDE DEF base
    <3>4. base \in Int
      BY <1>4 DEF base
    <3>5. base <= p /\ p < base + ExtentSlots
      BY <1>4, <1>5, <3>2, <3>3, <3>4
    <3> QED
      BY <1>4, <3>5 DEF base
  <2>4. OutputToBuffer' <=> OutputToBuffer
    BY <2>1 DEF OutputToBuffer
  <2> QED
    BY <1>2, <1>7, <2>1, <2>2, <2>3, <2>4
<1> QED
  BY <1>6, <1>7

(* A copy keeps the invariant if input and output advance alike. *)
LEMMA CopyKeeps ==
    ASSUME SpreadAssumption, CallersAssumption, SpreadInv, pc = "copy",
           UNCHANGED <<case, m_segment_sizes, separator, m_position, cursor_vars, pc, extent_id, pair>>,
           NEW n \in Nat, NEW chunk \in [1 .. n -> Int], NEW d \in Nat, CopyOut(chunk, d),
           d + n <= output.displacement + output.run,
           output' \in [displacement : Nat, run : Nat], output'.run <= output.run,
           output.displacement <= output'.displacement,
           output'.displacement + output'.run <= output.displacement + output.run,
           m_insert_segment' \in Window \union {NotSet},
           case.move_backwards => m_insert_segment' = NotSet,
           InputIs(input', (Todo - (output.run - output'.run)) - Inserting'),
           IF case.move_backwards THEN InputEnd(input') <= InputEnd(input)
           ELSE InputEnd(input) <= InputEnd(input')
    PROVE  SpreadInv'
<1>0. /\ GoodConstants /\ GoodCase /\ TypeInv /\ BuffersPlaced
      /\ case \in Cases
      /\ m_segment_sizes = case.sizes /\ CursorPlaced /\ OutputPlaced /\ InputIntact
      /\ extent_id \in 0 .. (NumExtents - 1) /\ InputIs(input, Todo - Inserting)
  BY BeforeStep
<1>1. /\ case' = case /\ m_segment_sizes' = m_segment_sizes /\ separator' = separator
      /\ m_position' = m_position /\ extent_id' = extent_id /\ pair' = pair /\ Cursor' = Cursor /\ pc' = "copy"
  BY DEF cursor_vars, Cursor
<1>2. /\ pair \in 0 .. (SegmentsPerExtent - 2) /\ pair % 2 = 0
      /\ output \in [displacement : Nat, run : Nat] /\ output.run <= PairTarget
      /\ pair * Capacity <= output.displacement
      /\ output.displacement + output.run <= (pair + 2) * Capacity
  BY <1>0 DEF OutputPlaced
<1>3. output.displacement \in Nat /\ output.run \in Nat /\ output'.displacement \in Nat /\ output'.run \in Nat
  BY <1>2
<1>4. /\ (pair + 2) * Capacity \in Nat /\ pair * Capacity \in Nat
  BY <1>0, <1>2 DEF GoodConstants
<1>5. d + n <= (pair + 2) * Capacity
  BY <1>2, <1>3, <1>4
<1>6. /\ keys' \in [Slots -> Int]
      /\ m_extents_to_rewire' \in
            Seq([m_extent_id : 0 .. (NumExtents - 1), buffer : [0 .. (ExtentSlots - 1) -> Int]])
      /\ Len(m_extents_to_rewire') = Len(m_extents_to_rewire)
      /\ \A i \in 1 .. Len(m_extents_to_rewire) :
            m_extents_to_rewire'[i].m_extent_id = m_extents_to_rewire[i].m_extent_id
      /\ OutputToBuffer' <=> OutputToBuffer
      /\ \A p \in Slots :
            keys'[p] # keys[p] =>
               ~ OutputToBuffer /\ get_offset(extent_id) <= p /\ p < get_offset(extent_id + 1)
  BY <1>0, <1>1, <1>2, <1>5, CopyOutIs
<1> DEFINE f == InputEnd(input)
           g == InputEnd(input')
<1>7. f \in Nat /\ g \in Nat
  BY <1>0, InputRange
<1>8. Frontier = f /\ Frontier' = g
  BY <1>1, SameCase DEF Frontier
<1>9. UnreadSlots = UnreadFrom(f) /\ UnreadSlots' = UnreadFrom(g)
  <2>1. input \in [segment : Int, displacement : Nat, run : Nat]
        /\ input' \in [segment : Int, displacement : Nat, run : Nat]
    BY <1>0 DEF InputIs
  <2> QED
    BY <1>1, <1>8, <2>1, UnreadIs, UnreadIsNext
<1> HIDE DEF f, g
<1>10. IF case.move_backwards THEN g <= f ELSE f <= g
  BY DEF f, g
<1>11. ~ OutputToBuffer => IF case.move_backwards THEN f <= get_offset(extent_id)
                           ELSE get_offset(extent_id + 1) <= f
  BY <1>0, <1>8 DEF BuffersPlaced
<1>12. get_offset(extent_id) \in Int /\ get_offset(extent_id + 1) \in Int
  <2>1. extent_id \in Int /\ extent_id + 1 \in Int /\ 0 \in Int
    BY <1>0
  <2> QED
    BY <1>0, <2>1, ExtentOrder
<1>13. \A p \in UnreadFrom(g) : keys'[p] = keys[p]
  <2> SUFFICES ASSUME NEW p \in UnreadFrom(g), keys'[p] # keys[p] PROVE FALSE
    OBVIOUS
  <2>1. p \in Slots /\ p \in Int
    <3>1. p \in Slots
      BY <1>0, UnreadInWindow
    <3> QED
      BY <1>0, <3>1, Borders DEF Slots
  <2>2. ~ OutputToBuffer /\ get_offset(extent_id) <= p /\ p < get_offset(extent_id + 1)
    BY <1>6, <2>1
  <2>3. IF case.move_backwards THEN p < g ELSE p >= g
    BY DEF UnreadFrom
  <2> QED
    BY <1>7, <1>10, <1>11, <1>12, <2>1, <2>2, <2>3
<1>14. InputIntact'
  BY <1>0, <1>1, <1>7, <1>9, <1>10, <1>13, KeepsIntact
<1>15. BuffersPlaced'
  <2>1. get_offset(extent_id)' = get_offset(extent_id) /\ get_offset(extent_id + 1)' = get_offset(extent_id + 1)
    BY <1>1 DEF get_offset
  <2>2. \A i \in 1 .. Len(m_extents_to_rewire') :
            IF case'.move_backwards THEN m_extents_to_rewire'[i].m_extent_id >= extent_id'
            ELSE m_extents_to_rewire'[i].m_extent_id <= extent_id'
    BY <1>0, <1>1, <1>6 DEF BuffersPlaced
  <2>3. ~ OutputToBuffer' => IF case'.move_backwards THEN Frontier' <= get_offset(extent_id)'
                             ELSE get_offset(extent_id + 1)' <= Frontier'
    BY <1>1, <1>6, <1>7, <1>8, <1>10, <1>11, <1>12, <2>1
  <2> QED
    BY <1>1, <1>6, <2>2, <2>3 DEF BuffersPlaced
<1>16. CursorPlaced'
  <2>1. IsCursor(Cursor)' /\ SegmentsBefore(Cursor)' = SegmentsBefore(Cursor)
    BY <1>0, <1>1, SameCase DEF CursorPlaced
  <2> QED
    BY <1>0, <1>1, <2>1 DEF CursorPlaced
<1>17. PairTarget' = PairTarget /\ PairTarget \in Nat
       /\ TargetBefore(Cursor) \in Nat /\ Target \in Nat /\ PairTarget = FirstOf(Cursor) + SecondOf(Cursor)
  <2>1. PairTarget' = PairTarget
    BY <1>1, PairTargetIs, PairTargetNext
  <2>2. /\ FirstOf(Cursor) \in 1 .. Capacity /\ SecondOf(Cursor) \in 1 .. Capacity /\ Capacity \in Nat
        /\ PairTarget = FirstOf(Cursor) + SecondOf(Cursor) /\ TargetBefore(Cursor) \in Nat /\ Target \in Nat
    BY <1>0, PairToWrite DEF GoodConstants
  <2> QED
    BY <2>1, <2>2
<1>18. OutputPlaced'
  <2>1. /\ output'.run <= PairTarget /\ pair * Capacity <= output'.displacement
        /\ output'.displacement + output'.run <= (pair + 2) * Capacity
    <3> DEFINE begin == pair * Capacity
               end == (pair + 2) * Capacity
    <3>1. /\ begin \in Nat /\ end \in Nat /\ begin <= output.displacement
          /\ output.displacement + output.run <= end
      BY <1>2, <1>4
    <3> HIDE DEF begin, end
    <3>2. /\ begin <= output'.displacement /\ output'.displacement + output'.run <= end
          /\ output'.run <= PairTarget
      BY <1>2, <1>3, <1>17, <3>1
    <3> QED
      BY <3>2 DEF begin, end
  <2> QED
    BY <1>0, <1>1, <1>2, <1>17, <2>1 DEF OutputPlaced
<1>19. Todo' = Todo - (output.run - output'.run)
  <2>1. Todo' = TodoAt("copy", extent_id, Cursor, output'.run)
    BY <1>1, TodoNext
  <2>2. Todo = TodoAt("copy", extent_id, Cursor, output.run)
    BY TodoIs
  <2> QED
    BY <1>3, <1>17, <2>1, <2>2 DEF TodoAt
<1>20. InputIs(input, Todo - Inserting)'
  <2>1. InputIs(input', Todo' - Inserting')
    BY <1>19
  <2> QED
    BY <1>1, <2>1, SameCase
<1>21. TypeInv'
  <2>1. output'.run \in 0 .. (2 * Capacity)
    <3>1. output.run \in 0 .. (2 * Capacity) /\ Capacity \in Nat
      BY <1>0 DEF TypeInv, GoodConstants
    <3> QED
      BY <1>3, <3>1
  <2> QED
    BY <1>0, <1>1, <1>6, <2>1 DEF TypeInv
<1>22. Walking'
  BY <1>1, <1>14, <1>16, <1>18, <1>20 DEF Walking
<1> QED
  BY <1>0, <1>1, <1>15, <1>21, <1>22 DEF SpreadInv

(* What is read of a run. *)
LEMMA ChunkIs ==
    ASSUME GoodConstants, TypeInv, NEW d \in Nat, NEW n \in Nat,
           d + n <= WindowEnd * Capacity
    PROVE  /\ InputChunk(d, n) \in Seq(Int) /\ Len(InputChunk(d, n)) = n
           /\ InputChunk(d, n) \in [1 .. n -> Int]
<1>1. InputChunk(d, n) = [i \in 1 .. n |-> keys[d + i - 1]]
  BY DEF InputChunk
<1>2. ASSUME NEW i \in 1 .. n PROVE keys[d + i - 1] \in Int
  <2>1. WindowEnd * Capacity \in Nat /\ Slots = 0 .. (WindowEnd * Capacity - 1)
    BY Borders DEF Slots, WindowEnd
  <2> DEFINE end == WindowEnd * Capacity
  <2>2. end \in Nat /\ d + n <= end
    BY <2>1
  <2> HIDE DEF end
  <2>3. d + i - 1 \in 0 .. (end - 1)
    BY <2>2
  <2>4. d + i - 1 \in Slots
    BY <2>1, <2>3 DEF end
  <2> QED
    BY <2>4 DEF TypeInv
<1>3. InputChunk(d, n) \in [1 .. n -> Int]
  BY <1>1, <1>2
<1> QED
  BY <1>3

(* Parts of a sequence, and one put in between. *)
LEMMA PartOf ==
    ASSUME NEW seq \in Seq(Int), NEW a \in Nat, NEW b \in Nat, a >= 1, a <= b + 1, b <= Len(seq)
    PROVE  SubSeq(seq, a, b) \in Seq(Int) /\ Len(SubSeq(seq, a, b)) = (b - a) + 1
OBVIOUS

(* Three sequences, one after the other. *)
LEMMA OneBetween ==
    ASSUME NEW first \in Seq(Int), NEW key \in Int, NEW second \in Seq(Int)
    PROVE  /\ first \o <<key>> \o second \in Seq(Int)
           /\ Len(first \o <<key>> \o second) = Len(first) + 1 + Len(second)
<1>1. first \o <<key>> \in Seq(Int) /\ Len(first \o <<key>>) = Len(first) + 1
  OBVIOUS
<1> QED
  BY <1>1

(* The new key takes the place of the last element of the chunk, which is read again, *)
(* or is all there is; unless it is greater than every element.                       *)
LEMMA MergeIs ==
    ASSUME NEW chunk \in Seq(Int), case.insert_key \in Int
    PROVE  /\ merge_to_insert(chunk).chunk \in Seq(Int)
           /\ \/ /\ merge_to_insert(chunk).position \in Nat
                 /\ Len(merge_to_insert(chunk).chunk) = IF chunk = <<>> THEN 1 ELSE Len(chunk)
              \/ /\ merge_to_insert(chunk).position = -1 /\ chunk # <<>>
                 /\ merge_to_insert(chunk).chunk = chunk
<1> DEFINE T == {i \in DOMAIN chunk : \A j \in 1 .. i : chunk[j] < case.insert_key}
           smaller == Cardinality(T)
           n == Len(chunk)
           left == SubSeq(chunk, 1, smaller)
           right == SubSeq(chunk, smaller + 1, n - 1)
<1>1. n \in Nat /\ DOMAIN chunk = 1 .. n /\ (chunk = <<>> <=> n = 0)
  OBVIOUS
<1>2. T \in SUBSET (1 .. n)
  BY <1>1
<1>3. IsFiniteSet(1 .. n) /\ Cardinality(1 .. n) = n
  <2>1. 1 \in Int /\ n \in Int
    BY <1>1
  <2>2. IsFiniteSet(1 .. n) /\ Cardinality(1 .. n) = IF 1 > n THEN 0 ELSE n - 1 + 1
    BY <2>1, FS_Interval
  <2> QED
    BY <1>1, <2>2
<1> HIDE DEF T
<1>4. smaller \in Nat /\ smaller <= n
  <2>1. IsFiniteSet(T) /\ Cardinality(T) <= Cardinality(1 .. n)
    BY <1>2, <1>3, FS_Subset
  <2>2. Cardinality(T) \in Nat
    BY <2>1, FS_CardinalityType
  <2> QED
    BY <1>3, <2>1, <2>2
<1>5. merge_to_insert(chunk) =
         IF smaller < n \/ chunk = <<>>
         THEN [chunk |-> left \o <<case.insert_key>> \o right, position |-> smaller]
         ELSE [chunk |-> chunk, position |-> -1]
  BY DEF merge_to_insert, T
<1> HIDE DEF smaller
<1>6. CASE smaller < n \/ chunk = <<>>
  <2>1. left \in Seq(Int) /\ Len(left) = smaller
    BY <1>1, <1>4
  <2>2. right \in Seq(Int) /\ Len(right) = IF n = 0 THEN 0 ELSE n - 1 - smaller
    <3>1. CASE n = 0
      <4>1. smaller = 0
        BY <1>4, <3>1
      <4>2. right = SubSeq(chunk, 1, -1)
        BY <3>1, <4>1
      <4>3. SubSeq(chunk, 1, -1) \in Seq(Int) /\ Len(SubSeq(chunk, 1, -1)) = 0
        OBVIOUS
      <4> QED
        BY <3>1, <4>2, <4>3
    <3>2. CASE n # 0
      <4>1. smaller + 1 \in Nat /\ smaller + 1 >= 1 /\ n - 1 <= n /\ n - 1 \in Nat /\ smaller < n
            /\ smaller + 1 <= (n - 1) + 1
        BY <1>1, <1>4, <1>6, <3>2
      <4> HIDE DEF n
      <4>2. n - 1 <= Len(chunk)
        BY <4>1 DEF n
      <4>3. right \in Seq(Int) /\ Len(right) = (n - 1) - (smaller + 1) + 1
        BY <4>1, <4>2, PartOf
      <4> QED
        BY <1>1, <1>4, <3>2, <4>3
    <3> QED
      BY <3>1, <3>2
  <2> DEFINE all == left \o <<case.insert_key>> \o right
  <2> HIDE DEF left, right
  <2>4. all \in Seq(Int) /\ Len(all) = smaller + 1 + Len(right)
    BY <2>1, <2>2, OneBetween
  <2>5. Len(all) = IF chunk = <<>> THEN 1 ELSE n
    <3>1. chunk = <<>> => smaller = 0
      BY <1>1, <1>4
    <3>2. n # 0 => smaller < n
      BY <1>6, <1>1
    <3> DEFINE m == Len(all)
    <3>3. m = (smaller + 1) + Len(right)
      BY <2>4
    <3> DEFINE r == Len(right)
    <3>4. r = IF n = 0 THEN 0 ELSE n - 1 - smaller
      BY <2>2
    <3>5. m = (smaller + 1) + r
      BY <3>3
    <3>6. n \in Nat /\ (chunk = <<>> <=> n = 0)
      BY <1>1
    <3> HIDE DEF m, n, r
    <3>7. n = 0 => m = 1
      BY <3>1, <3>4, <3>5, <3>6
    <3>8. n # 0 => m = n
      BY <1>4, <3>2, <3>4, <3>5, <3>6
    <3>9. m = IF chunk = <<>> THEN 1 ELSE n
      BY <3>6, <3>7, <3>8
    <3> QED
      BY <3>9 DEF m
  <2> HIDE DEF all
  <2>6. merge_to_insert(chunk) = [chunk |-> all, position |-> smaller]
    BY <1>5, <1>6 DEF all
  <2> QED
    BY <1>4, <2>4, <2>5, <2>6
<1>7. CASE ~ (smaller < n \/ chunk = <<>>)
  BY <1>5, <1>7
<1> QED
  BY <1>6, <1>7

(* Copying from left to right, with the new key. *)
LEMMA CopyForwardsKeeps ==
    ASSUME SpreadAssumption, CallersAssumption, SpreadInv, CopyForwards
    PROVE  SpreadInv'
<1> DEFINE n == Min2(output.run, input.run)
           chunk == InputChunk(input.displacement, n)
           merged == IF Merges THEN merge_to_insert(chunk) ELSE [chunk |-> chunk, position |-> -1]
           inserted == merged.position >= 0
           k == Len(merged.chunk)
           copied == k - (IF inserted THEN 1 ELSE 0)
           consumed == [input EXCEPT !.displacement = @ + copied, !.run = @ - copied]
<1>0. pc = "copy" /\ output.run > 0 /\ ~ case.move_backwards
  BY DEF CopyForwards, CopyForwardsWith
<1>1. /\ CopyOut(merged.chunk, output.displacement)
      /\ input' = FetchForwards(consumed)
      /\ output' = [displacement |-> output.displacement + k, run |-> output.run - k]
      /\ m_insert_segment' = IF inserted THEN NotSet ELSE m_insert_segment
      /\ UNCHANGED <<case, m_segment_sizes, separator, m_position, cursor_vars, pc, extent_id, pair>>
  BY DEF CopyForwards, CopyForwardsWith
<1>2. /\ GoodConstants /\ GoodCase /\ TypeInv /\ BuffersPlaced
      /\ m_insert_segment \in Window \union {NotSet}
      /\ m_segment_sizes = case.sizes /\ CursorPlaced /\ OutputPlaced
      /\ InputIs(input, Todo - Inserting)
  BY <1>0, BeforeStep
<1>3. Inserting \in {0, 1} /\ Todo \in Nat /\ Todo >= output.run
  BY <1>0, <1>2, MoreToDo
<1>4. output \in [displacement : Nat, run : Nat] /\ output.displacement \in Nat /\ output.run \in Nat
  BY <1>0, <1>2 DEF OutputPlaced
<1> DEFINE left == Todo - Inserting
<1>5. /\ InputIs(input, left) /\ left \in Nat /\ input.run <= left /\ (input.run = 0 => left = 0)
      /\ input \in [segment : Int, displacement : Nat, run : Nat]
      /\ input.segment \in Int /\ input.displacement \in Nat /\ input.run \in Nat
      /\ input.displacement + input.run <= WindowEnd * Capacity /\ InputEnd(input) \in Nat
      /\ left = 0 => InputEnd(input) = WindowEnd * Capacity /\ input.segment >= WindowEnd
  <2>1. /\ input \in [segment : Int, displacement : Nat, run : Nat] /\ left \in Nat /\ input.run <= left
        /\ input.run = 0 => left = 0
        /\ input.displacement + input.run <= WindowEnd * Capacity /\ InputEnd(input) \in Nat
        /\ left = 0 => InputEnd(input) = WindowEnd * Capacity /\ input.segment >= WindowEnd
    BY <1>0, <1>2, InputRange
  <2> QED
    BY <1>2, <2>1
<1>6. n \in Nat /\ n <= input.run /\ n <= output.run /\ (n = 0 <=> input.run = 0)
  BY <1>0, <1>4, <1>5 DEF Min2
<1> HIDE DEF n
<1>7. chunk \in Seq(Int) /\ Len(chunk) = n /\ (chunk = <<>> <=> n = 0)
  <2>1. input.displacement + n <= WindowEnd * Capacity
    <3>1. WindowEnd * Capacity \in Nat
      BY <1>2, Borders
    <3> DEFINE end == WindowEnd * Capacity
    <3>2. end \in Nat /\ input.displacement + input.run <= end
      BY <1>5, <3>1
    <3> HIDE DEF end
    <3>3. input.displacement + n <= end
      BY <1>5, <1>6, <3>2
    <3> QED
      BY <3>3 DEF end
  <2>2. chunk \in Seq(Int) /\ Len(chunk) = n
    BY <1>2, <1>5, <1>6, <2>1, ChunkIs
  <2> QED
    BY <2>2
<1> HIDE DEF chunk
<1> DEFINE words == merged.chunk
           position == merged.position
<1>20. /\ Merges => words = merge_to_insert(chunk).chunk /\ position = merge_to_insert(chunk).position
       /\ ~ Merges => words = chunk /\ position = -1
  OBVIOUS
<1>21. /\ inserted \in BOOLEAN /\ inserted <=> position >= 0
       /\ k = Len(words) /\ copied = k - (IF inserted THEN 1 ELSE 0)
  OBVIOUS
<1>22. CopyOut(words, output.displacement)
  BY <1>1
<1> HIDE DEF merged, words, position, inserted, k, copied, consumed
<1>23. /\ Merges => /\ words \in Seq(Int)
                    /\ \/ position \in Nat /\ Len(words) = IF n = 0 THEN 1 ELSE n
                       \/ position = -1 /\ n # 0 /\ words = chunk
       /\ ~ Merges => n # 0 /\ words = chunk /\ position = -1
  <2>1. ASSUME Merges
        PROVE  /\ words \in Seq(Int)
               /\ \/ position \in Nat /\ Len(words) = IF n = 0 THEN 1 ELSE n
                  \/ position = -1 /\ n # 0 /\ words = chunk
    <3> DEFINE m == merge_to_insert(chunk)
    <3>1. case.insert_key \in Int
      BY <1>2 DEF GoodCase
    <3>2. /\ m.chunk \in Seq(Int)
          /\ \/ m.position \in Nat /\ Len(m.chunk) = IF chunk = <<>> THEN 1 ELSE Len(chunk)
             \/ m.position = -1 /\ chunk # <<>> /\ m.chunk = chunk
      BY <1>7, <3>1, MergeIs
    <3>3. words = m.chunk /\ position = m.position
      BY <1>20, <2>1
    <3> HIDE DEF m
    <3> QED
      BY <1>7, <3>2, <3>3
  <2>2. ASSUME ~ Merges PROVE n # 0
    <3> SUFFICES ASSUME n = 0 PROVE FALSE
      OBVIOUS
    <3>1. left = 0 /\ input.segment >= WindowEnd
      BY <1>5, <1>6
    <3>2. Inserting = 1
      BY <1>0, <1>3, <1>4, <3>1
    <3>3. m_insert_segment \in Window
      BY <1>2, <3>2 DEF Inserting
    <3>4. m_insert_segment >= 0 /\ m_insert_segment < WindowEnd /\ m_insert_segment \in Int /\ WindowEnd \in Nat
      BY <1>2, <3>3 DEF Window, WindowEnd, GoodConstants
    <3> QED
      BY <1>5, <2>2, <3>1, <3>4 DEF Merges
  <2> QED
    BY <1>20, <2>1, <2>2
<1>8. /\ words \in Seq(Int) /\ copied \in 0 .. n /\ k \in 1 .. output.run
      /\ inserted => Merges /\ copied = k - 1
      /\ ~ inserted => copied = k /\ n # 0
  <2>1. CASE /\ Merges /\ position \in Nat /\ Len(words) = IF n = 0 THEN 1 ELSE n
    <3>1. inserted /\ copied = k - 1 /\ k = IF n = 0 THEN 1 ELSE n
      BY <1>21, <2>1
    <3>2. words \in Seq(Int)
      BY <1>7, <1>23
    <3>3. k \in 1 .. output.run /\ copied \in 0 .. n
      BY <1>0, <1>4, <1>6, <3>1
    <3>4. Merges
      BY <1>23, <2>1
    <3> QED
      BY <3>1, <3>2, <3>3, <3>4
  <2>2. CASE position = -1 /\ n # 0 /\ words = chunk
    <3>3. ~ inserted
      <4>1. ~ position >= 0
        BY <2>2
      <4> QED
        BY <1>21, <4>1
    <3>4. k = n
      BY <1>7, <1>21, <2>2
    <3>5. copied = k - 0
      BY <1>21, <3>3
    <3>1. ~ inserted /\ copied = k /\ k = n
      BY <1>6, <3>3, <3>4, <3>5
    <3>6. k \in 1 .. output.run /\ copied \in 0 .. n /\ words \in Seq(Int)
      BY <1>0, <1>4, <1>6, <1>7, <2>2, <3>1
    <3> QED
      BY <2>2, <3>1, <3>6
  <2> QED
    BY <1>23, <2>1, <2>2
<1>9. words \in [1 .. k -> Int]
  BY <1>8, <1>21
<1>10. k \in Nat /\ k <= output.run /\ copied \in 0 .. input.run
  BY <1>4, <1>5, <1>6, <1>8
<1>11. inserted => Inserting = 1
  <2>1. ASSUME Merges, Inserting = 0 PROVE FALSE
    <3>1. m_insert_segment = NotSet
      BY <2>1 DEF Inserting
    <3> QED
      BY <2>1, <3>1 DEF Merges, NotSet
  <2> QED
    BY <1>3, <1>8, <2>1
<1>12. Inserting' = IF inserted THEN 0 ELSE Inserting
  BY <1>1 DEF Inserting
<1>13. (Todo - k) - Inserting' = left - copied
  BY <1>3, <1>8, <1>10, <1>11, <1>12
<1>14. /\ output' \in [displacement : Nat, run : Nat]
       /\ output'.displacement = output.displacement + k /\ output'.run = output.run - k
  BY <1>1, <1>4, <1>10
<1>15. InputIs(input', left - copied) /\ InputEnd(input) <= InputEnd(input')
  <2>1. CASE input.run # 0
    <3>1. left # 0
      BY <1>5, <2>1
    <3> HIDE DEF left
    <3> QED
      BY <1>0, <1>1, <1>2, <1>5, <1>10, <3>1, ConsumeForwards DEF consumed
  <2>2. CASE input.run = 0
    <3>1. copied = 0 /\ left = 0 /\ input.segment >= WindowEnd /\ InputEnd(input) = WindowEnd * Capacity
      BY <1>5, <1>10, <2>2
    <3>2. consumed = input
      <4>1. consumed = [input EXCEPT !.displacement = input.displacement + copied, !.run = input.run - copied]
        BY <1>5 DEF consumed
      <4>2. input.displacement + copied = input.displacement /\ input.run - copied = input.run
        BY <1>5, <3>1
      <4>3. consumed = [input EXCEPT !.displacement = input.displacement, !.run = input.run]
        BY <4>1, <4>2
      <4> QED
        BY <1>5, <4>3
    <3> DEFINE s == input.segment + 1 + (IF input.segment % 2 = 0 THEN 1 ELSE 0)
    <3>3. s \in Int /\ s >= WindowEnd /\ s \notin Window
      BY <1>2, <1>5, <3>1 DEF Window, WindowEnd, GoodConstants
    <3>4. input' = [segment |-> s, displacement |-> (WindowStart + WindowLength) * Capacity, run |-> 0]
      BY <1>1, <2>2, <3>2, <3>3 DEF FetchForwards
    <3> HIDE DEF s
    <3>5. input' = [segment |-> s, displacement |-> WindowEnd * Capacity, run |-> 0]
      BY <3>4 DEF WindowEnd
    <3>6. WindowEnd * Capacity \in Nat
      BY <1>2, Borders
    <3>7. /\ input' \in [segment : Int, displacement : Nat, run : Nat]
          /\ input'.segment = s /\ input'.displacement = WindowEnd * Capacity /\ input'.run = 0
      BY <3>3, <3>5, <3>6
    <3>8. left - copied = 0
      BY <3>1
    <3>9. InputIs(input', left - copied)
      BY <1>0, <3>3, <3>7, <3>8 DEF InputIs
    <3>10. InputEnd(input') = WindowEnd * Capacity
      BY <1>0, <3>6, <3>7 DEF InputEnd
    <3> QED
      BY <3>1, <3>6, <3>9, <3>10
  <2> QED
    BY <2>1, <2>2
<1>16. m_insert_segment' \in Window \union {NotSet}
  BY <1>1, <1>2
<1>17. InputIs(input', (Todo - (output.run - output'.run)) - Inserting')
  <2>1. output.run - output'.run = k
    BY <1>4, <1>10, <1>14
  <2> QED
    BY <1>13, <1>15, <2>1
<1>18. /\ output'.run <= output.run /\ output.displacement <= output'.displacement
       /\ output'.displacement + output'.run <= output.displacement + output.run
       /\ output.displacement + k <= output.displacement + output.run
  BY <1>4, <1>10, <1>14
<1> QED
  BY <1>0, <1>1, <1>4, <1>9, <1>10, <1>14, <1>15, <1>16, <1>17, <1>18, <1>22, CopyKeeps

(* Copying from right to left. *)
LEMMA CopyBackwardsKeeps ==
    ASSUME SpreadAssumption, CallersAssumption, SpreadInv, CopyBackwards
    PROVE  SpreadInv'
<1> DEFINE n == Min2(output.run, input.run)
           from == input.displacement + input.run - n
           chunk == InputChunk(from, n)
           to == output.displacement + output.run - n
<1>0. pc = "copy" /\ output.run > 0 /\ case.move_backwards
  BY DEF CopyBackwards
<1>1. /\ CopyOut(chunk, to)
      /\ input' = FetchBackwards([input EXCEPT !.run = @ - n])
      /\ output' = [output EXCEPT !.run = @ - n]
      /\ UNCHANGED <<case, m_segment_sizes, separator, m_position, cursor_vars, insert_vars, pc, extent_id, pair>>
  BY DEF CopyBackwards
<1>2. /\ GoodConstants /\ GoodCase /\ TypeInv
      /\ m_insert_segment \in Window \union {NotSet} /\ m_insert_segment = NotSet
      /\ m_segment_sizes = case.sizes /\ CursorPlaced /\ OutputPlaced
      /\ InputIs(input, Todo - Inserting)
  BY <1>0, BeforeStep
<1>3. Inserting = 0 /\ Inserting' = 0 /\ Todo \in Nat /\ Todo >= output.run
  BY <1>0, <1>1, <1>2, MoreToDo DEF Inserting, insert_vars
<1>4. output \in [displacement : Nat, run : Nat] /\ output.displacement \in Nat /\ output.run \in Nat
  BY <1>0, <1>2 DEF OutputPlaced
<1>5. /\ input \in [segment : Int, displacement : Nat, run : Nat]
      /\ input.segment \in Int /\ input.displacement \in Nat /\ input.run \in Nat
      /\ input.displacement + input.run <= WindowEnd * Capacity
      /\ InputIs(input, Todo) /\ Todo # 0
  <2>1. InputIs(input, Todo) /\ Todo # 0
    <3>1. Todo - Inserting = Todo
      BY <1>3
    <3> QED
      BY <1>0, <1>2, <1>3, <1>4, <3>1
  <2>2. /\ input \in [segment : Int, displacement : Nat, run : Nat]
        /\ input.displacement + input.run <= WindowEnd * Capacity
    BY <1>2, <2>1, InputRange
  <2> QED
    BY <2>1, <2>2
<1>6. n \in Nat /\ n \in 0 .. input.run /\ n <= output.run
  BY <1>4, <1>5 DEF Min2
<1> HIDE DEF n
<1>7. from \in Nat /\ to \in Nat /\ from + n = input.displacement + input.run
      /\ output.displacement <= to /\ to + n = output.displacement + output.run
  BY <1>4, <1>5, <1>6
<1> HIDE DEF from, to
<1>8. chunk \in [1 .. n -> Int]
  BY <1>2, <1>5, <1>6, <1>7, ChunkIs
<1> HIDE DEF chunk
<1>9. InputIs(input', Todo - n) /\ InputEnd(input') <= InputEnd(input)
  BY <1>0, <1>1, <1>2, <1>5, <1>6, ConsumeBackwards
<1>10. /\ output' \in [displacement : Nat, run : Nat]
       /\ output'.displacement = output.displacement /\ output'.run = output.run - n
  BY <1>1, <1>4, <1>6
<1>11. InputIs(input', (Todo - (output.run - output'.run)) - Inserting')
  <2>1. (Todo - (output.run - output'.run)) - Inserting' = Todo - n
    BY <1>3, <1>4, <1>6, <1>10
  <2> QED
    BY <1>9, <2>1
<1>12. m_insert_segment' = NotSet
  BY <1>1, <1>2 DEF insert_vars
<1>13. /\ output'.run <= output.run /\ output.displacement <= output'.displacement
       /\ output'.displacement + output'.run <= output.displacement + output.run
       /\ to + n <= output.displacement + output.run
  BY <1>4, <1>6, <1>7, <1>10
<1> QED
  BY <1>0, <1>1, <1>6, <1>7, <1>8, <1>9, <1>10, <1>11, <1>12, <1>13, CopyKeeps

(* What the extent that is written holds is a key. *)
LEMMA OutputKeyIs ==
    ASSUME GoodConstants, TypeInv, BuffersPlaced, extent_id \in 0 .. (NumExtents - 1), NEW d \in Nat,
           d < ExtentSlots
    PROVE  OutputKey(d) \in Int
<1>1. CASE OutputToBuffer
  <2> DEFINE last == Len(m_extents_to_rewire)
  <2>1. last \in 1 .. Len(m_extents_to_rewire)
    BY <1>1 DEF OutputToBuffer, BuffersPlaced
  <2>2. m_extents_to_rewire[last].buffer \in [0 .. (ExtentSlots - 1) -> Int]
    BY <2>1, BufferAt
  <2>3. ExtentSlots \in Nat
    <3>1. 0 \in 0 .. NumExtents
      BY DEF GoodConstants
    <3> QED
      BY <3>1, ExtentsTile
  <2> HIDE DEF last
  <2>4. m_extents_to_rewire[last].buffer[d] \in Int
    BY <2>2, <2>3
  <2> QED
    BY <1>1, <2>4 DEF OutputKey, last
<1>2. CASE ~ OutputToBuffer
  <2> DEFINE base == get_offset(extent_id)
             begin == WindowStart * Capacity
             end == WindowEnd * Capacity
  <2>1. /\ extent_id \in 0 .. NumExtents /\ extent_id + 1 \in 0 .. NumExtents /\ extent_id \in Int
    BY DEF GoodConstants
  <2>2. /\ begin \in Nat /\ end \in Nat /\ begin <= base /\ base \in Int /\ base + ExtentSlots <= end
        /\ ExtentSlots \in Nat
    BY <2>1, ExtentOrder, ExtentsTile
  <2> HIDE DEF base, begin, end
  <2>3. base + d \in 0 .. (end - 1)
    BY <2>2
  <2>4. base + d \in Slots
    BY <2>3 DEF Slots, end, WindowEnd
  <2> QED
    BY <1>2, <2>4 DEF OutputKey, TypeInv, base
<1> QED
  BY <1>1, <1>2

(* After a pair comes the next pair of the extent, or the extent is finished. *)
LEMMA AfterPair ==
    ASSUME GoodConstants, pair \in 0 .. (SegmentsPerExtent - 2), pair % 2 = 0
    PROVE  /\ pair + 2 < SegmentsPerExtent =>
                 pair + 2 \in 0 .. (SegmentsPerExtent - 2) /\ (pair + 2) % 2 = 0
           /\ ~ pair + 2 < SegmentsPerExtent => pair + 2 = SegmentsPerExtent
           /\ pair - 2 >= 0 =>
                 /\ pair - 2 \in 0 .. (SegmentsPerExtent - 2) /\ (pair - 2) % 2 = 0
                 /\ pair - 2 < SegmentsPerExtent
           /\ ~ pair - 2 >= 0 => pair = 0
           /\ pair + 2 >= 0
<1>1. PICK h \in Nat : SegmentsPerExtent = 2 * h
  BY DEF GoodConstants
<1>2. PICK k \in Nat : pair = 2 * k
  OBVIOUS
<1>3. pair + 2 < SegmentsPerExtent => pair + 2 <= SegmentsPerExtent - 2
  BY <1>1, <1>2
<1>4. (pair + 2) % 2 = 0 /\ (pair - 2) % 2 = 0
  OBVIOUS
<1>5. SegmentsPerExtent \in Nat
  BY DEF GoodConstants
<1> QED
  BY <1>2, <1>3, <1>4, <1>5

(* A pair of segments is completed. *)
LEMMA EndPairKeeps ==
    ASSUME SpreadAssumption, CallersAssumption, SpreadInv, EndPair
    PROVE  SpreadInv'
<1> DEFINE next == IF case.move_backwards THEN pair - 2 ELSE pair + 2
           segment == extent2segment(extent_id) + pair
           E == SegmentsPerExtent
           o == extent_id * E
<1>0. /\ GoodConstants /\ GoodCase /\ TypeInv /\ BuffersPlaced
      /\ case \in Cases /\ m_insert_segment \in Window \union {NotSet}
      /\ case.move_backwards => m_insert_segment = NotSet
      /\ m_segment_sizes = case.sizes /\ CursorPlaced /\ OutputPlaced /\ InputIntact
      /\ extent_id \in 0 .. (NumExtents - 1) /\ InputIs(input, Todo - Inserting) /\ pc = "copy"
  <2>1. pc = "copy"
    BY DEF EndPair
  <2> QED
    BY <2>1, BeforeStep
<1>1. /\ case' = case /\ keys' = keys /\ m_segment_sizes' = m_segment_sizes
      /\ m_position' = m_position /\ m_extents_to_rewire' = m_extents_to_rewire
      /\ m_insert_segment' = m_insert_segment
      /\ extent_id' = extent_id /\ input' = input /\ output' = output /\ output.run = 0
      /\ Cursor' = IF case.move_backwards THEN Backwards2(Cursor) ELSE Forwards2(Cursor)
      /\ pair' = next /\ pc' = IF next >= 0 /\ next < E THEN "pair" ELSE "reclaim"
  <2>1. m_partition_id' = (IF case.move_backwards THEN Backwards2(Cursor) ELSE Forwards2(Cursor)).id
        /\ m_partition_offset' = (IF case.move_backwards THEN Backwards2(Cursor) ELSE Forwards2(Cursor)).offset
    BY DEF EndPair, move_current_partition, Backwards2, Forwards2
  <2>2. (IF case.move_backwards THEN Backwards2(Cursor) ELSE Forwards2(Cursor))
            \in [id : 0 .. Len(case.partitions), offset : Nat]
    <3>1. IsCursor(Cursor)
      BY <1>0 DEF CursorPlaced
    <3>2. IsCursor(Backwards2(Cursor)) /\ IsCursor(Forwards2(Cursor))
      BY <1>0, <3>1, PairToWrite, PairBehindCursor
    <3> QED
      BY <3>2 DEF IsCursor
  <2>3. Cursor' = IF case.move_backwards THEN Backwards2(Cursor) ELSE Forwards2(Cursor)
    <3> DEFINE c == IF case.move_backwards THEN Backwards2(Cursor) ELSE Forwards2(Cursor)
    <3>1. m_partition_id' = c.id /\ m_partition_offset' = c.offset /\ c \in [id : 0 .. Len(case.partitions), offset : Nat]
      BY <2>1, <2>2
    <3> HIDE DEF c
    <3>2. c = [id |-> c.id, offset |-> c.offset]
      BY <3>1
    <3>3. Cursor' = c
      BY <3>1, <3>2 DEF Cursor
    <3> QED
      BY <3>3 DEF c
  <2> QED
    BY <2>3 DEF EndPair, insert_vars
<1>2. /\ FirstOf(Cursor) \in 1 .. Capacity /\ SecondOf(Cursor) \in 1 .. Capacity
      /\ PairTarget = FirstOf(Cursor) + SecondOf(Cursor)
      /\ get_partition_current = FirstOf(Cursor)
      /\ TargetBefore(Cursor) \in Nat /\ Target \in Nat
      /\ IsCursor(Cursor) /\ SegmentsBefore(Cursor) + 2 <= WindowLength
      /\ IsCursor(Forwards2(Cursor)) /\ SegmentsBefore(Forwards2(Cursor)) = SegmentsBefore(Cursor) + 2
      /\ TargetBefore(Forwards2(Cursor)) = TargetBefore(Cursor) + PairTarget
      /\ TargetBefore(Forwards2(Cursor)) \in 0 .. Target
  BY <1>0, PairToWrite
<1>3. /\ Capacity \in Nat \ {0} /\ E \in Nat /\ E >= 2 /\ WindowLength \in Nat
      /\ pair \in 0 .. (E - 2) /\ pair % 2 = 0
  BY <1>0 DEF GoodConstants, OutputPlaced
<1>4. /\ o \in Nat /\ (extent_id + 1) * E = o + E
      /\ extent_id = 0 => o = 0
      /\ extent_id > 0 => o >= E
  BY <1>0, ExtentSegments
<1>5. SegmentsBefore(Cursor) = o + pair
  BY <1>0 DEF CursorPlaced
<1>6. /\ pair + 2 < E => pair + 2 \in 0 .. (E - 2) /\ (pair + 2) % 2 = 0
      /\ ~ pair + 2 < E => pair + 2 = E
      /\ pair - 2 >= 0 => pair - 2 \in 0 .. (E - 2) /\ (pair - 2) % 2 = 0 /\ pair - 2 < E
      /\ ~ pair - 2 >= 0 => pair = 0
      /\ pair + 2 >= 0
  BY <1>0, <1>3, AfterPair
<1> DEFINE back == Backwards2(Cursor)
<1>7. IsCursor(back) /\ (SegmentsBefore(Cursor) >= 2 =>
         /\ SegmentsBefore(back) = SegmentsBefore(Cursor) - 2
         /\ FirstOf(back) \in 1 .. Capacity /\ SecondOf(back) \in 1 .. Capacity /\ TargetBefore(back) \in Nat
         /\ TargetBefore(back) + (FirstOf(back) + SecondOf(back)) = TargetBefore(Cursor))
  <2>1. IsCursor(back) /\ (SegmentsBefore(Cursor) >= 2 =>
            Forwards2(back) = Cursor /\ SegmentsBefore(back) = SegmentsBefore(Cursor) - 2)
    BY <1>0, <1>2, PairBehindCursor
  <2> HIDE DEF back
  <2>2. ASSUME SegmentsBefore(Cursor) >= 2
        PROVE  /\ FirstOf(back) \in 1 .. Capacity /\ SecondOf(back) \in 1 .. Capacity /\ TargetBefore(back) \in Nat
               /\ TargetBefore(back) + (FirstOf(back) + SecondOf(back)) = TargetBefore(Cursor)
    <3>1. SegmentsBefore(back) + 2 <= WindowLength
      BY <1>2, <1>3, <1>4, <1>5, <2>1, <2>2
    <3>2. /\ FirstOf(back) \in 1 .. Capacity /\ SecondOf(back) \in 1 .. Capacity
          /\ TargetBefore(back) \in Nat
          /\ TargetBefore(Forwards2(back)) = TargetBefore(back) + FirstOf(back) + SecondOf(back)
      BY <1>0, <2>1, <3>1, PairAtCursor
    <3> QED
      BY <1>3, <2>1, <2>2, <3>2
  <2> QED
    BY <2>1, <2>2
<1>8. Todo' = Todo
  <2>1. Todo' = TodoAt(pc', extent_id, Cursor', output.run) /\ Todo = TodoAt("copy", extent_id, Cursor, output.run)
    BY <1>0, <1>1, TodoIs, TodoNext
  <2>2. CASE ~ case.move_backwards
    <3>1. pc' # "copy" /\ Cursor' = Forwards2(Cursor)
      BY <1>1, <2>2
    <3>2. Todo' = Target - TargetBefore(Forwards2(Cursor)) - 0
      BY <2>1, <2>2, <3>1 DEF TodoAt
    <3>3. Todo = Target - TargetBefore(Cursor) - ((FirstOf(Cursor) + SecondOf(Cursor)) - 0)
      BY <1>1, <2>1, <2>2 DEF TodoAt
    <3> QED
      BY <1>2, <1>3, <3>2, <3>3
  <2>3. CASE case.move_backwards /\ pair = 0 /\ extent_id = 0
    <3>1. pc' = "reclaim"
      BY <1>1, <2>3
    <3>2. Todo' = 0
      BY <2>1, <2>3, <3>1 DEF TodoAt
    <3>3. TargetBefore(Cursor) = 0
      <4>1. SegmentsBefore(Cursor) = 0
        BY <1>4, <1>5, <2>3
      <4> QED
        BY <1>0, <1>2, <4>1, NothingBefore
    <3>4. Todo = TargetBefore(Cursor) + 0
      BY <1>1, <2>1, <2>3 DEF TodoAt
    <3> QED
      BY <3>2, <3>3, <3>4
  <2>4. CASE case.move_backwards /\ ~ (pair = 0 /\ extent_id = 0)
    <3>1. pc' # "copy" /\ ~ (pc' = "reclaim" /\ extent_id = 0) /\ Cursor' = back
      BY <1>1, <1>3, <1>6, <2>4
    <3>2. Todo' = TargetBefore(back) + (FirstOf(back) + SecondOf(back))
      BY <2>1, <2>4, <3>1 DEF TodoAt
    <3>3. SegmentsBefore(Cursor) >= 2
      <4>1. extent_id # 0 => extent_id > 0
        BY <1>0
      <4>2. pair # 0 => pair >= 2
        BY <1>3, <1>6
      <4> QED
        BY <1>3, <1>4, <1>5, <2>4, <4>1, <4>2
    <3>4. Todo = TargetBefore(Cursor) + 0
      BY <1>1, <2>1, <2>4 DEF TodoAt
    <3> QED
      BY <1>2, <1>7, <3>2, <3>3, <3>4
  <2> QED
    BY <2>2, <2>3, <2>4
<1>9. Inserting' = Inserting
  BY <1>1 DEF Inserting
<1>10. InputIs(input, Todo - Inserting)'
  BY <1>0, <1>1, <1>8, <1>9, SameCase
<1>11. Frontier' = Frontier /\ UnreadSlots' = UnreadSlots
  <2>1. Frontier' = Frontier
    BY <1>0, <1>1, SameCase DEF Frontier
  <2>2. input \in [segment : Int, displacement : Nat, run : Nat]
    BY <1>0 DEF InputIs
  <2> QED
    BY <1>1, <2>1, <2>2, UnreadIs, UnreadIsNext
<1>12. InputIntact'
  BY <1>0, <1>1, <1>11 DEF InputIntact
<1>13. BuffersPlaced'
  <2>1. OutputToBuffer' <=> OutputToBuffer
    BY <1>1 DEF OutputToBuffer
  <2>2. get_offset(extent_id)' = get_offset(extent_id) /\ get_offset(extent_id + 1)' = get_offset(extent_id + 1)
    BY <1>1 DEF get_offset
  <2>3. pc' \in {"pair", "reclaim"}
    BY <1>1
  <2> QED
    BY <1>0, <1>1, <1>11, <2>1, <2>2, <2>3 DEF BuffersPlaced
<1>14. OutputPlaced'
  <2>1. pc' = "pair" => next \in 0 .. (E - 2) /\ next % 2 = 0
    BY <1>1, <1>6
  <2>2. pc' \in {"pair", "reclaim"}
    BY <1>1
  <2> QED
    BY <1>0, <1>1, <2>1, <2>2 DEF OutputPlaced
<1>15. CursorPlaced'
  <2>1. IsCursor(Cursor)' /\ SegmentsBefore(Cursor)' = SegmentsBefore(Cursor')
    BY <1>1, <1>2, <1>7, SameCase
  <2>2. CASE ~ case.move_backwards
    <3>1. SegmentsBefore(Cursor') = o + (pair + 2) /\ next = pair + 2
      BY <1>1, <1>2, <1>3, <1>4, <1>5, <2>2
    <3>2. pc' = "pair" \/ (pc' = "reclaim" /\ pair + 2 = E)
      BY <1>1, <1>6, <2>2
    <3>3. pc' = "pair" => SegmentsBefore(Cursor)' = extent_id' * SegmentsPerExtent + pair'
      BY <1>1, <2>1, <3>1
    <3>4. pc' = "reclaim" => SegmentsBefore(Cursor)' = (extent_id' + 1) * SegmentsPerExtent
      BY <1>1, <1>4, <2>1, <3>1, <3>2
    <3>5. CASE pc' = "pair"
      BY <2>1, <3>3, <3>5 DEF CursorPlaced
    <3>6. CASE pc' = "reclaim"
      BY <1>1, <2>1, <2>2, <3>4, <3>6 DEF CursorPlaced
    <3> QED
      BY <3>2, <3>5, <3>6
  <2>3. CASE case.move_backwards
    <3>1. Cursor' = back /\ next = pair - 2
      BY <1>1, <2>3
    <3> HIDE DEF back
    <3>2. CASE pair - 2 >= 0
      <4>1. pc' = "pair" /\ pair' = pair - 2
        BY <1>1, <1>6, <2>3, <3>2
      <4>2. SegmentsBefore(Cursor) >= 2
        BY <1>3, <1>4, <1>5, <3>2
      <4>3. SegmentsBefore(back) = o + (pair - 2)
        BY <1>3, <1>4, <1>5, <1>7, <4>2
      <4>4. SegmentsBefore(Cursor)' = extent_id' * SegmentsPerExtent + pair'
        BY <1>1, <2>1, <3>1, <4>1, <4>3
      <4> QED
        BY <2>1, <4>1, <4>4 DEF CursorPlaced
    <3>3. CASE ~ pair - 2 >= 0
      <4>1. pc' = "reclaim" /\ pair = 0
        BY <1>1, <1>6, <2>3, <3>3
      <4>2. ASSUME o + -2 >= 0 PROVE SegmentsBefore(back) = o + -2
        <5>1. SegmentsBefore(Cursor) >= 2 /\ SegmentsBefore(Cursor) = o
          BY <1>4, <1>5, <4>1, <4>2
        <5> QED
          BY <1>4, <1>7, <5>1
      <4>3. extent_id' * SegmentsPerExtent + -2 >= 0 =>
               SegmentsBefore(Cursor)' = extent_id' * SegmentsPerExtent + -2
        BY <1>1, <2>1, <3>1, <4>2
      <4> QED
        BY <1>1, <2>1, <2>3, <4>1, <4>3 DEF CursorPlaced
    <3> QED
      BY <3>2, <3>3
  <2> QED
    BY <2>2, <2>3
<1>16. separator' \in [Window -> Int]
  <2> DEFINE middle == (pair + 1) * Capacity
             first == middle - FirstOf(Cursor)
  <2>1. pair + 1 \in 0 .. (SegmentsPerExtent - 1) /\ pair \in 0 .. (SegmentsPerExtent - 1)
    BY <1>3
  <2>2. /\ middle \in Nat /\ pair * Capacity \in Nat /\ pair * Capacity + Capacity = middle
        /\ middle + Capacity <= ExtentSlots
    <3>1. /\ middle \in Nat /\ pair * Capacity \in Nat /\ pair * Capacity + Capacity = middle
      BY <1>0, <2>1, SegmentInExtent
    <3>2. /\ middle + Capacity = ((pair + 1) + 1) * Capacity /\ ((pair + 1) + 1) * Capacity <= ExtentSlots
      BY <1>0, <2>1, SegmentInExtent
    <3> QED
      BY <3>1, <3>2
  <2>3. ExtentSlots \in Nat
    <3>1. 0 \in 0 .. NumExtents
      BY <1>0 DEF GoodConstants
    <3> QED
      BY <1>0, <3>1, ExtentsTile
  <2>4. separator' = [separator EXCEPT ![segment] = OutputKey(first), ![segment + 1] = OutputKey(middle)]
    BY <1>2 DEF EndPair
  <2> HIDE DEF middle, segment
  <2>5. first \in Nat /\ first < ExtentSlots /\ middle < ExtentSlots
    <3> DEFINE b == pair * Capacity
               f == FirstOf(Cursor)
    <3>1. b \in Nat /\ b + Capacity = middle /\ f \in 1 .. Capacity
      BY <1>2, <2>2
    <3> HIDE DEF b, f
    <3>2. middle - f \in Nat /\ middle - f < ExtentSlots /\ middle < ExtentSlots
      BY <1>3, <2>2, <2>3, <3>1
    <3> QED
      BY <3>2 DEF f
  <2> HIDE DEF first
  <2>6. OutputKey(first) \in Int /\ OutputKey(middle) \in Int
    BY <1>0, <2>2, <2>5, OutputKeyIs
  <2>7. separator \in [Window -> Int]
    BY <1>0 DEF TypeInv
  <2>8. [separator EXCEPT ![segment] = OutputKey(first)] \in [Window -> Int]
    BY <2>6, <2>7
  <2>9. separator' = [[separator EXCEPT ![segment] = OutputKey(first)] EXCEPT ![segment + 1] = OutputKey(middle)]
    BY <2>4
  <2> QED
    BY <2>6, <2>8, <2>9
<1>17. TypeInv'
  <2>1. pc' \in {"extent", "pair", "copy", "reclaim", "finish", "done"}
    BY <1>1
  <2> QED
    BY <1>0, <1>1, <1>16, <2>1 DEF TypeInv
<1>18. pc' \in {"pair", "reclaim"}
  BY <1>1
<1>19. Walking'
  BY <1>10, <1>12, <1>14, <1>15, <1>18 DEF Walking
<1> QED
  BY <1>0, <1>1, <1>13, <1>17, <1>18, <1>19 DEF SpreadInv

(* The input is past the i-th extent that waits to be rewired. *)
IsPast(i, position) ==
    IF case.move_backwards THEN m_extents_to_rewire[i].m_extent_id > CurrentExtent(position)
    ELSE m_extents_to_rewire[i].m_extent_id < CurrentExtent(position)

(* A set of numbers from 1 on without gaps is an interval. *)
LEMMA NoGaps ==
    ASSUME NEW n \in Nat, NEW T \in SUBSET (1 .. n), \A i \in T : \A j \in 1 .. i : j \in T
    PROVE  /\ Cardinality(T) \in 0 .. n /\ \A i \in 1 .. Cardinality(T) : i \in T
           /\ T = 1 .. n => Cardinality(T) = n
<1>1. \A m \in Nat : IsFiniteSet(1 .. m) /\ Cardinality(1 .. m) = m
  <2> SUFFICES ASSUME NEW m \in Nat PROVE IsFiniteSet(1 .. m) /\ Cardinality(1 .. m) = m
    OBVIOUS
  <2>1. 1 \in Int /\ m \in Int
    OBVIOUS
  <2>2. IsFiniteSet(1 .. m) /\ Cardinality(1 .. m) = IF 1 > m THEN 0 ELSE m - 1 + 1
    BY <2>1, FS_Interval
  <2> QED
    BY <2>2
<1> DEFINE k == Cardinality(T)
<1>2. IsFiniteSet(T) /\ k <= n
  <2>1. IsFiniteSet(1 .. n) /\ Cardinality(1 .. n) = n
    BY <1>1
  <2>2. IsFiniteSet(T) /\ Cardinality(T) <= Cardinality(1 .. n)
    BY <2>1, FS_Subset
  <2> QED
    BY <2>1, <2>2
<1>3. k \in Nat
  BY <1>2, FS_CardinalityType
<1>4. ASSUME NEW i \in 1 .. k, i \notin T PROVE FALSE
  <2>1. i - 1 \in Nat /\ i <= k
    BY <1>3
  <2>2. T \subseteq 1 .. (i - 1)
    <3> SUFFICES ASSUME NEW t \in T, ~ t \in 1 .. (i - 1) PROVE FALSE
      OBVIOUS
    <3>1. t \in Nat /\ t >= 1 /\ i <= t
      BY <2>1
    <3>2. i \in 1 .. t
      BY <1>3, <3>1
    <3> QED
      BY <1>4, <3>2
  <2>3. k <= i - 1
    <3>1. IsFiniteSet(1 .. (i - 1)) /\ Cardinality(1 .. (i - 1)) = i - 1
      BY <1>1, <2>1
    <3>2. T \in SUBSET (1 .. (i - 1))
      BY <2>2
    <3>3. Cardinality(T) <= Cardinality(1 .. (i - 1))
      BY <3>1, <3>2, FS_Subset
    <3> QED
      BY <3>1, <3>3
  <2> HIDE DEF k
  <2> QED
    BY <1>3, <2>1, <2>3
<1>5. T = 1 .. n => k = n
  BY <1>1
<1> HIDE DEF k
<1>6. k \in 0 .. n /\ \A i \in 1 .. k : i \in T
  BY <1>2, <1>3, <1>4
<1> QED
  BY <1>5, <1>6 DEF k

(* The input is past the extents that are rewired. *)
LEMMA PastIs ==
    ASSUME BuffersPlaced, NEW position
    PROVE  /\ PastExtents(position) \in 0 .. Len(m_extents_to_rewire)
           /\ \A i \in 1 .. PastExtents(position) : IsPast(i, position)
           /\ (\A i \in 1 .. Len(m_extents_to_rewire) : IsPast(i, position)) =>
                 PastExtents(position) = Len(m_extents_to_rewire)
<1> DEFINE n == Len(m_extents_to_rewire)
           T == {i \in 1 .. n : \A j \in 1 .. i : IsPast(j, position)}
<1>1. n \in Nat /\ DOMAIN m_extents_to_rewire = 1 .. n
  BY DEF BuffersPlaced
<1>2. PastExtents(position) = Cardinality(T)
  BY <1>1 DEF PastExtents, IsPast
<1>3. T \in SUBSET (1 .. n) /\ \A i \in T : IsPast(i, position)
  BY <1>1
<1>4. \A i \in T : \A j \in 1 .. i : j \in T
  BY <1>1
<1>5. (\A i \in 1 .. n : IsPast(i, position)) => T = 1 .. n
  BY <1>1
<1> HIDE DEF T, n
<1>6. /\ Cardinality(T) \in 0 .. n /\ \A i \in 1 .. Cardinality(T) : i \in T
      /\ T = 1 .. n => Cardinality(T) = n
  BY <1>1, <1>3, <1>4, NoGaps
<1> QED
  BY <1>2, <1>3, <1>5, <1>6 DEF n

(* Rewiring replaces extents that the input is past. *)
LEMMA RewiringIs ==
    ASSUME GoodConstants, GoodCase, TypeInv, BuffersPlaced, InputEnd(input) \in Nat, EndExtent
    PROVE  /\ keys' \in [Slots -> Int]
           /\ \A p \in UnreadFrom(InputEnd(input)) : keys'[p] = keys[p]
<1> DEFINE position == InputEnd(input)
           past == PastExtents(position)
           q == m_extents_to_rewire
           Rewired(p) == {i \in 1 .. past : q[i].m_extent_id = position2extent(p)}
<1>1. keys' = [p \in DOMAIN keys |->
                  IF Rewired(p) = {} THEN keys[p]
                  ELSE q[CHOOSE i \in Rewired(p) : TRUE].buffer[p - get_offset(position2extent(p))]]
  BY DEF EndExtent, InputEnd
<1>2. /\ past \in 0 .. Len(q) /\ Len(q) \in Nat
      /\ \A i \in 1 .. past : IsPast(i, position)
  BY PastIs DEF BuffersPlaced
<1>3. position \in Int /\ position + -1 \in Int /\ position + 0 = position
  OBVIOUS
<1> HIDE DEF past, position, Rewired
<1>4. \A p \in Slots : p \in Int
  BY Borders DEF Slots
<1>5. DOMAIN keys = Slots /\ \A p \in Slots : keys[p] \in Int
  BY DEF TypeInv
<1>6. ASSUME NEW p \in Slots, Rewired(p) # {}
      PROVE  q[CHOOSE i \in Rewired(p) : TRUE].buffer[p - get_offset(position2extent(p))] \in Int
  <2> DEFINE i == CHOOSE i \in Rewired(p) : TRUE
             e == position2extent(p)
  <2>1. i \in Rewired(p)
    BY <1>6
  <2> HIDE DEF i
  <2>2. i \in 1 .. Len(q) /\ q[i].m_extent_id = e
    BY <1>2, <2>1 DEF Rewired
  <2>3. q[i].buffer \in [0 .. (ExtentSlots - 1) -> Int]
    BY <2>2, BufferAt
  <2>4. p \in Int
    BY <1>4
  <2>5. e \in Int
    BY <2>4, ExtentOrder
  <2> HIDE DEF e
  <2>6. ~ p < get_offset(e) /\ get_offset(e) \in Int /\ get_offset(e + 1) = get_offset(e) + ExtentSlots
    BY <2>4, <2>5, ExtentOrder DEF e
  <2>7. p < get_offset(e + 1)
    <3>1. e + 1 \in Int /\ e < e + 1
      BY <2>5
    <3> QED
      BY <2>4, <3>1, ExtentOrder DEF e
  <2>8. ExtentSlots \in Nat
    <3>1. 0 \in 0 .. NumExtents
      BY DEF GoodConstants
    <3> QED
      BY <3>1, ExtentsTile
  <2>9. p - get_offset(e) \in 0 .. (ExtentSlots - 1)
    BY <2>4, <2>6, <2>7, <2>8
  <2>10. q[i].buffer[p - get_offset(e)] \in Int
    BY <2>3, <2>9
  <2> QED
    BY <2>10 DEF i, e
<1>7. keys' \in [Slots -> Int]
  BY <1>1, <1>5, <1>6
<1>8. ASSUME NEW p \in UnreadFrom(position) PROVE keys'[p] = keys[p]
  <2>1. p \in Slots /\ p \in Int
    BY <1>4, UnreadInWindow
  <2>2. IF case.move_backwards THEN p < position ELSE p >= position
    BY DEF UnreadFrom
  <2>3. Rewired(p) = {}
    <3> SUFFICES ASSUME NEW i \in Rewired(p) PROVE FALSE
      OBVIOUS
    <3> DEFINE e == q[i].m_extent_id
    <3>1. i \in 1 .. past /\ e = position2extent(p)
      BY DEF Rewired
    <3>2. i \in 1 .. Len(q)
      BY <1>2, <3>1
    <3>3. e \in Int
      <4>1. e \in 0 .. (NumExtents - 1) /\ NumExtents \in Nat
        BY <3>2, BufferAt DEF GoodConstants
      <4> QED
        BY <4>1
    <3>4. IF case.move_backwards THEN e > CurrentExtent(position) ELSE e < CurrentExtent(position)
      BY <1>2, <3>1 DEF IsPast
    <3> HIDE DEF e
    <3>5. CASE case.move_backwards
      <4>1. position2extent(position + -1) < e
        BY <1>3, <3>3, <3>4, <3>5, ExtentOrder DEF CurrentExtent
      <4>2. position + -1 < get_offset(e) /\ get_offset(e) \in Int
        BY <1>3, <3>3, <4>1, ExtentOrder
      <4>3. p < get_offset(e)
        BY <1>3, <2>1, <2>2, <3>5, <4>2
      <4>4. position2extent(p) < e
        BY <2>1, <3>3, <4>3, ExtentOrder
      <4> QED
        BY <3>1, <3>3, <4>4
    <3>6. CASE ~ case.move_backwards
      <4> DEFINE c == position2extent(position)
      <4>1. e < c /\ c \in Int
        BY <1>3, <3>4, <3>6, ExtentOrder DEF CurrentExtent
      <4>2. ~ position < get_offset(c) /\ get_offset(c) \in Int
        BY <1>3, <4>1, ExtentOrder
      <4> HIDE DEF c
      <4>3. ~ p < get_offset(c)
        BY <1>3, <2>1, <2>2, <3>6, <4>2
      <4>4. ~ position2extent(p) < c
        BY <2>1, <4>1, <4>3, ExtentOrder
      <4> QED
        BY <3>1, <4>1, <4>4
    <3> QED
      BY <3>5, <3>6
  <2> QED
    BY <1>1, <1>5, <2>1, <2>3
<1> QED
  BY <1>7, <1>8 DEF position

(* What remains of a queue. *)
LEMMA RestOf ==
    ASSUME NEW S, NEW seq \in Seq(S), NEW k \in 0 .. Len(seq)
    PROVE  /\ SubSeq(seq, k + 1, Len(seq)) \in Seq(S) /\ Len(SubSeq(seq, k + 1, Len(seq))) = Len(seq) - k
           /\ \A i \in 1 .. (Len(seq) - k) : SubSeq(seq, k + 1, Len(seq))[i] = seq[k + i]
           /\ k = Len(seq) => SubSeq(seq, k + 1, Len(seq)) = <<>>
<1> DEFINE n == Len(seq)
           rest == SubSeq(seq, k + 1, n)
<1>1. n \in Nat /\ k + 1 \in Nat /\ k + 1 <= n + 1
  OBVIOUS
<1>2. rest \in Seq(S) /\ Len(rest) = n - k
  OBVIOUS
<1>3. \A i \in 1 .. (n - k) : rest[i] = seq[k + i]
  OBVIOUS
<1>4. k = n => rest = <<>>
  BY <1>2
<1> QED
  BY <1>2, <1>3, <1>4

(* When the last extent is written nothing is left, to write or to read. *)
LEMMA NothingLeft ==
    ASSUME GoodConstants, GoodCase, CursorPlaced, pc = "reclaim", extent_id \in 0 .. (NumExtents - 1),
           InputIs(input, Todo - Inserting),
           ~ extent_id + (IF case.move_backwards THEN -1 ELSE 1) \in 0 .. (NumExtents - 1)
    PROVE  IF case.move_backwards THEN InputEnd(input) = WindowStart * Capacity
           ELSE InputEnd(input) = WindowEnd * Capacity
<1>1. Todo = TodoAt("reclaim", extent_id, Cursor, output.run)
  BY TodoIs
<1>2. Inserting \in {0, 1}
  BY DEF Inserting
<1>3. NumExtents \in Nat /\ extent_id \in Nat
  BY DEF GoodConstants
<1>4. Todo = 0
  <2>1. CASE case.move_backwards
    <3>1. extent_id = 0
      BY <1>3, <2>1
    <3> QED
      BY <1>1, <2>1, <3>1 DEF TodoAt
  <2>2. CASE ~ case.move_backwards
    <3>1. extent_id = NumExtents - 1
      BY <1>3, <2>2
    <3>2. SegmentsBefore(Cursor) = (extent_id + 1) * SegmentsPerExtent /\ IsCursor(Cursor)
      BY <2>2 DEF CursorPlaced
    <3>3. SegmentsBefore(Cursor) = WindowLength
      BY <3>1, <3>2, ExtentSegments
    <3>4. TargetBefore(Cursor) = Target /\ Target \in Nat
      BY <3>2, <3>3, CursorRange
    <3>5. Todo = Target - TargetBefore(Cursor) - 0
      BY <1>1, <2>2 DEF TodoAt
    <3> QED
      BY <3>4, <3>5
  <2> QED
    BY <2>1, <2>2
<1> DEFINE left == Todo - Inserting
<1>5. left \in Nat
  BY InputRange
<1>6. left = 0
  BY <1>2, <1>4, <1>5
<1> QED
  BY <1>6, InputRange

(* Nothing is left, so the input is past every extent. *)
LEMMA AllArePast ==
    ASSUME GoodConstants, GoodCase, BuffersPlaced,
           IF case.move_backwards THEN InputEnd(input) = WindowStart * Capacity
           ELSE InputEnd(input) = WindowEnd * Capacity
    PROVE  PastExtents(InputEnd(input)) = Len(m_extents_to_rewire)
<1> DEFINE position == InputEnd(input)
           begin == WindowStart * Capacity
           end == WindowEnd * Capacity
<1>1. /\ begin \in Nat /\ end \in Nat /\ get_offset(0) = begin /\ get_offset(NumExtents) = end
      /\ NumExtents \in Nat
  <2>1. 0 \in 0 .. NumExtents /\ NumExtents \in Nat
    BY DEF GoodConstants
  <2> QED
    BY <2>1, ExtentsTile
<1>2. IF case.move_backwards THEN position = begin ELSE position = end
  OBVIOUS
<1> HIDE DEF position, begin, end
<1>3. ASSUME NEW i \in 1 .. Len(m_extents_to_rewire) PROVE IsPast(i, position)
  <2> DEFINE e == m_extents_to_rewire[i].m_extent_id
  <2>1. e \in 0 .. (NumExtents - 1)
    BY <1>3, BufferAt
  <2> HIDE DEF e
  <2>2. e \in Int /\ e >= 0 /\ e < NumExtents
    BY <1>1, <2>1
  <2>3. CASE case.move_backwards
    <3>1. position + -1 \in Int /\ 0 \in Int /\ position + -1 < get_offset(0)
      BY <1>1, <1>2, <2>3
    <3>2. position2extent(position + -1) < 0 /\ position2extent(position + -1) \in Int
      BY <3>1, ExtentOrder
    <3>3. e > position2extent(position + -1)
      BY <2>2, <3>2
    <3> QED
      BY <2>3, <3>3 DEF IsPast, CurrentExtent, e
  <2>4. CASE ~ case.move_backwards
    <3>1. position + 0 \in Int /\ NumExtents \in Int /\ ~ position + 0 < get_offset(NumExtents)
      BY <1>1, <1>2, <2>4
    <3>2. ~ position2extent(position + 0) < NumExtents /\ position2extent(position + 0) \in Int
      BY <3>1, ExtentOrder
    <3>3. e < position2extent(position + 0)
      BY <1>1, <2>2, <3>2
    <3> QED
      BY <2>4, <3>3 DEF IsPast, CurrentExtent, e
  <2> QED
    BY <2>3, <2>4
<1>4. PastExtents(position) = Len(m_extents_to_rewire)
  BY <1>3, PastIs
<1> QED
  BY <1>4 DEF position

(* An extent is finished, and those that the input has passed are rewired. *)
LEMMA EndExtentKeeps ==
    ASSUME SpreadAssumption, CallersAssumption, SpreadInv, EndExtent
    PROVE  SpreadInv'
<1> DEFINE position == InputEnd(input)
           past == PastExtents(position)
           next == extent_id + (IF case.move_backwards THEN -1 ELSE 1)
           q == m_extents_to_rewire
           R == [m_extent_id : 0 .. (NumExtents - 1), buffer : [0 .. (ExtentSlots - 1) -> Int]]
           left == Todo - Inserting
<1>0. /\ GoodConstants /\ GoodCase /\ TypeInv /\ BuffersPlaced
      /\ case \in Cases /\ m_insert_segment \in Window \union {NotSet}
      /\ case.move_backwards => m_insert_segment = NotSet
      /\ m_segment_sizes = case.sizes /\ CursorPlaced /\ OutputPlaced /\ InputIntact
      /\ extent_id \in 0 .. (NumExtents - 1) /\ InputIs(input, Todo - Inserting) /\ pc = "reclaim"
  <2>1. pc = "reclaim"
    BY DEF EndExtent
  <2> QED
    BY <2>1, BeforeStep
<1>1. /\ case' = case /\ m_segment_sizes' = m_segment_sizes /\ separator' = separator
      /\ m_insert_segment' = m_insert_segment /\ Cursor' = Cursor /\ pair' = pair /\ input' = input
      /\ output' = output
      /\ m_position' = position /\ extent_id' = next
      /\ q' = SubSeq(q, past + 1, Len(q))
      /\ pc' = IF next \in 0 .. (NumExtents - 1) THEN "extent" ELSE "finish"
  BY DEF EndExtent, InputEnd, cursor_vars, insert_vars, Cursor
<1>2. /\ position \in Nat /\ PositionIs(position, left)
      /\ position <= WindowEnd * Capacity /\ WindowEnd * Capacity \in Nat
  <2>1. InputEnd(input) \in Nat /\ PositionIs(InputEnd(input), Todo - Inserting)
    BY <1>0, InputRange
  <2>2. InputEnd(input) <= WindowEnd * Capacity
    BY <1>0, <2>1, PositionRange
  <2> QED
    BY <1>0, <2>1, <2>2, Borders
<1>3. keys' \in [Slots -> Int] /\ \A p \in UnreadFrom(position) : keys'[p] = keys[p]
  BY <1>0, <1>2, RewiringIs
<1>4. q \in Seq(R) /\ past \in 0 .. Len(q)
  BY <1>0, PastIs DEF BuffersPlaced
<1>5. /\ q' \in Seq(R) /\ Len(q') = Len(q) - past
      /\ past = Len(q) => q' = <<>>
      /\ \A i \in 1 .. (Len(q) - past) : q'[i] = q[past + i]
  <2> DEFINE rest == SubSeq(q, past + 1, Len(q))
  <2> HIDE DEF R, past
  <2>1. /\ rest \in Seq(R) /\ Len(rest) = Len(q) - past
        /\ \A i \in 1 .. (Len(q) - past) : rest[i] = q[past + i]
        /\ past = Len(q) => rest = <<>>
    BY <1>4, RestOf
  <2>2. q' = rest
    BY <1>1
  <2> HIDE DEF rest, q
  <2> QED
    BY <2>1, <2>2
<1>6. NumExtents \in Nat /\ extent_id \in Nat /\ next \in -1 .. NumExtents
  BY <1>0 DEF GoodConstants
<1>7. TypeInv'
  <2>1. m_position' \in 0 .. ((WindowStart + WindowLength) * Capacity)
    <3>1. position \in 0 .. (WindowEnd * Capacity)
      BY <1>2
    <3> QED
      BY <1>1, <3>1 DEF WindowEnd
  <2>2. pc' \in {"extent", "pair", "copy", "reclaim", "finish", "done"}
    BY <1>1
  <2> QED
    BY <1>0, <1>1, <1>3, <1>6, <2>1, <2>2 DEF TypeInv
<1>8. Inserting' = Inserting
  BY <1>1 DEF Inserting
<1>9. CASE next \in 0 .. (NumExtents - 1)
  <2>1. pc' = "extent"
    BY <1>1, <1>9
  <2>2. Todo' = Todo
    <3>1. Todo' = TodoAt("extent", next, Cursor, output.run) /\ Todo = TodoAt("reclaim", extent_id, Cursor, output.run)
      BY <1>0, <1>1, <2>1, TodoIs, TodoNext
    <3>2. case.move_backwards => extent_id # 0
      BY <1>6, <1>9
    <3> QED
      BY <3>1, <3>2 DEF TodoAt
  <2>3. PositionIs(m_position, Todo - Inserting)'
    BY <1>1, <1>2, <1>8, <2>2, SameCase
  <2>4. Frontier' = position /\ Frontier = position
    BY <1>0, <1>1, <2>1 DEF Frontier
  <2>5. InputIntact'
    <3>1. input \in [segment : Int, displacement : Nat, run : Nat]
      BY <1>0 DEF InputIs
    <3>2. UnreadSlots = UnreadFrom(position) /\ UnreadSlots' = UnreadFrom(position)
      BY <1>1, <2>1, <2>4, <3>1, UnreadIs, UnreadIsNext
    <3>3. position \in Int /\ position <= position
      BY <1>2
    <3> QED
      BY <1>0, <1>1, <1>3, <3>2, <3>3, KeepsIntact
  <2>6. CursorPlaced'
    <3> DEFINE E == SegmentsPerExtent
               o == extent_id * E
    <3>1. IsCursor(Cursor) /\ IsCursor(Cursor)' /\ SegmentsBefore(Cursor)' = SegmentsBefore(Cursor)
      BY <1>0, <1>1, SameCase DEF CursorPlaced
    <3>2. /\ o \in Nat /\ (extent_id - 1) * E = o - E
          /\ extent_id > 0 => o >= E
      BY <1>0, ExtentSegments
    <3>3. E \in Nat /\ E >= 2
      BY <1>0 DEF GoodConstants
    <3>4. CASE case.move_backwards
      <4>1. next = extent_id - 1 /\ extent_id > 0
        BY <1>6, <1>9, <3>4
      <4>2. SegmentsBefore(Cursor) = o + -2
        <5>1. o + -2 >= 0
          BY <3>2, <3>3, <4>1
        <5> QED
          BY <1>0, <3>4, <5>1 DEF CursorPlaced
      <4>3. next * E = o - E
        <5>1. next * E = (extent_id - 1) * E
          BY <4>1
        <5> QED
          BY <3>2, <5>1
      <4>4. SegmentsBefore(Cursor) = next * E + (E - 2)
        BY <3>2, <3>3, <4>2, <4>3
      <4>5. SegmentsBefore(Cursor)' = extent_id' * SegmentsPerExtent + (SegmentsPerExtent - 2)
        BY <1>1, <3>1, <4>4
      <4> QED
        BY <1>1, <2>1, <3>1, <3>4, <4>5 DEF CursorPlaced
    <3>5. CASE ~ case.move_backwards
      <4>1. next = extent_id + 1 /\ next + 0 = next
        BY <1>6, <3>5
      <4>2. SegmentsBefore(Cursor) = (extent_id + 1) * SegmentsPerExtent
        BY <1>0, <3>5 DEF CursorPlaced
      <4>3. SegmentsBefore(Cursor)' = (extent_id' + 0) * SegmentsPerExtent
        BY <1>1, <3>1, <4>1, <4>2
      <4> QED
        BY <1>1, <2>1, <3>1, <3>5, <4>3 DEF CursorPlaced
    <3> QED
      BY <3>4, <3>5
  <2>7. OutputPlaced'
    BY <1>1, <1>9, <2>1 DEF OutputPlaced
  <2>8. BuffersPlaced'
    <3>1. ASSUME NEW i \in 1 .. Len(q')
          PROVE  IF case'.move_backwards THEN q'[i].m_extent_id > extent_id'
                 ELSE q'[i].m_extent_id < extent_id'
      <4>1. Len(q) \in Nat /\ past \in Nat /\ past <= Len(q) /\ Len(q') = Len(q) - past
        BY <1>4, <1>5
      <4> DEFINE n == Len(q)
                 r == Len(q')
      <4>2. n \in Nat /\ past \in Nat /\ past <= n /\ r = n - past /\ i \in 1 .. r
        BY <4>1
      <4> HIDE DEF n, r, past, q
      <4>3. past + i \in 1 .. n /\ i \in 1 .. (n - past)
        BY <4>2
      <4>4. q'[i] = q[past + i]
        BY <1>5, <4>3 DEF n
      <4>5. /\ q[past + i].m_extent_id \in 0 .. (NumExtents - 1)
            /\ IF case.move_backwards THEN q[past + i].m_extent_id >= extent_id
               ELSE q[past + i].m_extent_id <= extent_id
        BY <1>0, <4>3, BufferAt DEF BuffersPlaced, n, q
      <4> DEFINE e == q[past + i].m_extent_id
      <4>6. e \in Int
        BY <1>6, <4>5
      <4> HIDE DEF e
      <4>7. IF case.move_backwards THEN e > next ELSE e < next
        <5>1. IF case.move_backwards THEN e >= extent_id ELSE e <= extent_id
          BY <4>5 DEF e
        <5> QED
          BY <1>6, <4>6, <5>1
      <4> QED
        BY <1>1, <4>4, <4>7 DEF e
    <3> QED
      BY <1>5, <2>1, <3>1 DEF BuffersPlaced
  <2>9. Walking'
    BY <2>1, <2>3, <2>5, <2>6, <2>7 DEF Walking
  <2> QED
    BY <1>0, <1>1, <1>7, <2>1, <2>8, <2>9 DEF SpreadInv
<1>10. CASE ~ next \in 0 .. (NumExtents - 1)
  <2>1. pc' = "finish"
    BY <1>1, <1>10
  <2>2. past = Len(q)
    BY <1>0, <1>10, NothingLeft, AllArePast
  <2>3. q' = <<>>
    BY <1>5, <2>2
  <2>4. BuffersPlaced'
    BY <1>5, <2>1 DEF BuffersPlaced
  <2> QED
    BY <1>0, <1>1, <1>7, <2>1, <2>3, <2>4 DEF SpreadInv
<1> QED
  BY <1>9, <1>10

(* Every segment of the window gets the size of a share. *)
LEMMA TargetSizeIs ==
    ASSUME GoodConstants, GoodCase, NEW i \in 0 .. (WindowLength - 1)
    PROVE  TargetSize(case.partitions, i) \in 0 .. Capacity
<1> DEFINE partitions == case.partitions
           n == Len(partitions)
           S == Sums(SegmentsOf(partitions))
           IsId(k) == S[k - 1] <= i /\ i < S[k]
           id == CHOOSE k \in DOMAIN partitions : IsId(k)
           p == partitions[id]
<1>1. /\ n \in Nat
      /\ \A k \in 1 .. n : /\ partitions[k].m_segments \in Nat \ {0} /\ partitions[k].m_cardinality \in Nat
                           /\ partitions[k].m_segments <= partitions[k].m_cardinality
                           /\ partitions[k].m_cardinality <= partitions[k].m_segments * Capacity
      /\ \A k \in 0 .. n : S[k] \in Nat
      /\ S[n] = WindowLength /\ S[0] = 0
  BY PartitionsAreGood DEF GoodPartitions
<1>2. DOMAIN partitions = 1 .. n
  BY DEF GoodCase
<1>3. WindowLength \in Nat /\ Capacity \in Nat \ {0} /\ i \in Nat /\ i < WindowLength
  BY DEF GoodConstants
<1>4. TargetSize(case.partitions, i) =
         p.m_cardinality \div p.m_segments
            + (IF i - S[id - 1] < p.m_cardinality % p.m_segments THEN 1 ELSE 0)
  BY DEF TargetSize
<1> HIDE DEF S, n
<1>5. \E k \in 1 .. n : IsId(k)
  <2> DEFINE T == {k \in Nat : k <= n /\ i < S[k]}
  <2>1. n \in T
    BY <1>1, <1>3
  <2>2. PICK m \in T : \A k \in T : m <= k
    BY <2>1, LeastNatural
  <2>3. m \in Nat /\ m <= n /\ i < S[m]
    OBVIOUS
  <2>4. m # 0
    BY <1>1, <1>3, <2>3
  <2>5. m - 1 \in Nat /\ m - 1 <= n /\ ~ m <= m - 1
    BY <1>1, <2>3, <2>4
  <2>6. ~ i < S[m - 1]
    BY <2>2, <2>5
  <2>7. S[m - 1] \in Nat
    BY <1>1, <2>5
  <2>8. IsId(m) /\ m \in 1 .. n
    BY <1>1, <1>3, <2>3, <2>4, <2>6, <2>7
  <2> QED
    BY <2>8
<1> HIDE DEF IsId
<1>6. id \in 1 .. n
  BY <1>2, <1>5
<1> HIDE DEF id
<1> DEFINE c == p.m_cardinality
           m == p.m_segments
<1>7. m \in Nat \ {0} /\ c \in Nat /\ m <= c /\ c <= m * Capacity
  BY <1>1, <1>6
<1> HIDE DEF p, c, m
<1>8. /\ c \div m \in 1 .. Capacity /\ c % m \in 0 .. (m - 1)
      /\ c % m > 0 => c \div m < Capacity
  BY <1>3, <1>7, Shares
<1>9. S[id - 1] \in Nat
  BY <1>1, <1>6
<1>10. IsId(id)
  BY <1>2, <1>5 DEF id
<1> DEFINE o == i - S[id - 1]
<1>11. o \in Nat
  BY <1>3, <1>9, <1>10 DEF IsId
<1> HIDE DEF o
<1>12. c \div m + (IF o < c % m THEN 1 ELSE 0) \in 0 .. Capacity
  <2> DEFINE d == c \div m
             r == c % m
  <2>1. d \in 1 .. Capacity /\ r \in Nat /\ (r > 0 => d < Capacity)
    BY <1>7, <1>8
  <2> HIDE DEF d, r
  <2>2. d + (IF o < r THEN 1 ELSE 0) \in 0 .. Capacity
    BY <1>3, <1>11, <2>1
  <2> QED
    BY <2>2 DEF d, r
<1> QED
  BY <1>4, <1>12 DEF c, m, o

(* The sizes are updated. *)
LEMMA FinishKeeps ==
    ASSUME SpreadAssumption, CallersAssumption, SpreadInv, Finish
    PROVE  SpreadInv'
<1>0. /\ GoodConstants /\ GoodCase /\ TypeInv /\ BuffersPlaced
      /\ case \in Cases /\ m_insert_segment \in Window \union {NotSet}
      /\ case.move_backwards => m_insert_segment = NotSet
      /\ m_extents_to_rewire = <<>>
  BY BeforeStep DEF SpreadInv, Finish
<1>1. /\ case' = case /\ keys' = keys /\ separator' = separator /\ m_position' = m_position
      /\ m_extents_to_rewire' = m_extents_to_rewire /\ m_insert_segment' = m_insert_segment
      /\ extent_id' = extent_id /\ output' = output /\ pc' = "done"
      /\ m_segment_sizes' = UpdatedSizes(case.partitions)
  BY DEF Finish, insert_vars
<1>2. m_segment_sizes' \in [0 .. (WindowStart + WindowLength - 1) -> 0 .. Capacity]
  <2> DEFINE D == 0 .. (WindowStart + WindowLength - 1)
  <2>1. m_segment_sizes \in [D -> 0 .. Capacity] /\ DOMAIN m_segment_sizes = D
    BY <1>0 DEF TypeInv
  <2> HIDE DEF D
  <2>2. ASSUME NEW s \in D, s \in Window PROVE TargetSize(case.partitions, s - WindowStart) \in 0 .. Capacity
    <3>1. s - WindowStart \in 0 .. (WindowLength - 1)
      BY <1>0, <2>2 DEF Window, GoodConstants
    <3> QED
      BY <1>0, <3>1, TargetSizeIs
  <2>3. \A s \in D : m_segment_sizes[s] \in 0 .. Capacity
    BY <2>1
  <2>4. m_segment_sizes' = [s \in D |-> IF s \in Window THEN TargetSize(case.partitions, s - WindowStart)
                                        ELSE m_segment_sizes[s]]
    BY <1>1, <2>1 DEF UpdatedSizes
  <2>5. m_segment_sizes' \in [D -> 0 .. Capacity]
    BY <2>2, <2>3, <2>4
  <2> QED
    BY <2>5 DEF D
<1>3. TypeInv'
  BY <1>0, <1>1, <1>2 DEF TypeInv
<1>4. BuffersPlaced'
  BY <1>0, <1>1 DEF BuffersPlaced
<1> QED
  BY <1>0, <1>1, <1>3, <1>4 DEF SpreadInv

(* Nothing changes. *)
LEMMA NothingKeeps ==
    ASSUME SpreadAssumption, CallersAssumption, SpreadInv, UNCHANGED vars
    PROVE  SpreadInv'
<1>0. /\ GoodConstants /\ GoodCase /\ TypeInv /\ BuffersPlaced
      /\ case \in Cases /\ m_insert_segment \in Window \union {NotSet}
      /\ case.move_backwards => m_insert_segment = NotSet
      /\ pc # "done" => m_segment_sizes = case.sizes
      /\ pc \in {"extent", "pair", "copy", "reclaim"} => Walking
      /\ pc \in {"finish", "done"} => m_extents_to_rewire = <<>>
  BY BeforeStep DEF SpreadInv
<1>1. /\ case' = case /\ keys' = keys /\ m_segment_sizes' = m_segment_sizes /\ separator' = separator
      /\ m_position' = m_position /\ m_extents_to_rewire' = m_extents_to_rewire
      /\ m_insert_segment' = m_insert_segment /\ Cursor' = Cursor /\ pc' = pc
      /\ extent_id' = extent_id /\ pair' = pair /\ input' = input /\ output' = output
  BY DEF vars, insert_vars, cursor_vars, Cursor
<1>2. TypeInv'
  BY <1>0, <1>1 DEF TypeInv
<1>3. Frontier' = Frontier
  BY <1>1, SameCase DEF Frontier
<1>4. BuffersPlaced'
  <2>1. OutputToBuffer' <=> OutputToBuffer
    BY <1>1 DEF OutputToBuffer
  <2>2. get_offset(extent_id)' = get_offset(extent_id) /\ get_offset(extent_id + 1)' = get_offset(extent_id + 1)
    BY <1>1 DEF get_offset
  <2> QED
    BY <1>0, <1>1, <1>3, <2>1, <2>2 DEF BuffersPlaced
<1>5. ASSUME pc \in {"extent", "pair", "copy", "reclaim"} PROVE Walking'
  <2>1. CursorPlaced /\ OutputPlaced /\ InputIntact
        /\ IF pc = "extent" THEN PositionIs(m_position, Todo - Inserting) ELSE InputIs(input, Todo - Inserting)
    BY <1>0, <1>5 DEF Walking
  <2>2. Todo' = Todo /\ Inserting' = Inserting
    BY <1>1, TodoIs, TodoNext DEF Inserting
  <2>3. CursorPlaced'
    <3>1. IsCursor(Cursor)' /\ SegmentsBefore(Cursor)' = SegmentsBefore(Cursor)
      BY <1>1, <2>1, SameCase DEF CursorPlaced
    <3> QED
      BY <1>1, <2>1, <3>1 DEF CursorPlaced
  <2>4. OutputPlaced'
    <3>1. PairTarget' = PairTarget
      BY <1>1, PairTargetIs, PairTargetNext
    <3> QED
      BY <1>1, <2>1, <3>1 DEF OutputPlaced
  <2>5. IF pc' = "extent" THEN PositionIs(m_position, Todo - Inserting)'
        ELSE InputIs(input, Todo - Inserting)'
    BY <1>1, <2>1, <2>2, SameCase
  <2>6. UnreadSlots' = UnreadSlots
    <3>1. pc \in {"pair", "copy", "reclaim"} => input \in [segment : Int, displacement : Nat, run : Nat]
      BY <2>1 DEF InputIs
    <3> QED
      BY <1>1, <1>3, <3>1, UnreadIs, UnreadIsNext
  <2>7. InputIntact'
    BY <1>1, <2>1, <2>6 DEF InputIntact
  <2> QED
    BY <2>3, <2>4, <2>5, <2>7 DEF Walking
<1> QED
  BY <1>0, <1>1, <1>2, <1>4, <1>5 DEF SpreadInv

-----------------------------------------------------------------------------
(* What the invariant says *)

(* What is still to be written in place is not to be read any more. *)
LEMMA PendingIsRead ==
    ASSUME SpreadAssumption, CallersAssumption, SpreadInv
    PROVE  PendingOutput \intersect UnreadSlots = {}
<1> SUFFICES ASSUME NEW p \in PendingOutput, p \in UnreadSlots PROVE FALSE
  OBVIOUS
<1>1. pc = "copy" /\ ~ OutputToBuffer
  BY DEF PendingOutput
<1>2. /\ GoodConstants /\ GoodCase /\ BuffersPlaced /\ OutputPlaced
      /\ extent_id \in 0 .. (NumExtents - 1) /\ InputIs(input, Todo - Inserting)
  BY <1>1, BeforeStep
<1> DEFINE d == output.displacement
           r == output.run
           base == get_offset(extent_id)
<1>3. /\ d \in Nat /\ r \in Nat /\ d + r <= (pair + 2) * Capacity /\ pair \in 0 .. (SegmentsPerExtent - 2)
  BY <1>1, <1>2 DEF OutputPlaced
<1>4. (pair + 2) * Capacity \in Nat /\ (pair + 2) * Capacity <= ExtentSlots
  <2>1. pair + 1 \in 0 .. (SegmentsPerExtent - 1) /\ (pair + 1) + 1 = pair + 2
    BY <1>2, <1>3 DEF GoodConstants
  <2> QED
    BY <1>2, <2>1, SegmentInExtent
<1>5. base \in Int /\ get_offset(extent_id + 1) = base + ExtentSlots /\ ExtentSlots \in Nat
  <2>1. extent_id \in 0 .. NumExtents /\ extent_id \in Int
    BY <1>2 DEF GoodConstants
  <2> QED
    BY <1>2, <2>1, ExtentOrder, ExtentsTile
<1>6. p \in (base + d) .. ((base + d) + r - 1)
  BY <1>1 DEF PendingOutput
<1> DEFINE f == InputEnd(input)
<1>7. Frontier = f /\ f \in Nat
  BY <1>1, <1>2, InputRange DEF Frontier
<1>8. IF case.move_backwards THEN f <= base ELSE base + ExtentSlots <= f
  BY <1>1, <1>2, <1>5, <1>7 DEF BuffersPlaced
<1>9. p \in UnreadFrom(f)
  <2>1. input \in [segment : Int, displacement : Nat, run : Nat]
    BY <1>2 DEF InputIs
  <2> QED
    BY <1>7, <2>1, UnreadIs
<1>10. IF case.move_backwards THEN p < f ELSE p >= f
  BY <1>9 DEF UnreadFrom
<1> DEFINE top == (pair + 2) * Capacity
<1> HIDE DEF base, f, d, r
<1>11. top \in Nat /\ top <= ExtentSlots /\ d + r <= top
  BY <1>3, <1>4 DEF d, r
<1> HIDE DEF top
<1>12. d \in Nat /\ r \in Nat
  BY <1>3
<1>13. p \in Int /\ base <= p /\ p < base + ExtentSlots
  BY <1>5, <1>6, <1>11, <1>12
<1> QED
  BY <1>5, <1>7, <1>8, <1>10, <1>13

(* The invariant holds of every state of the spread. *)
THEOREM SpreadInvariant ==
    ASSUME SpreadAssumption, CallersAssumption
    PROVE  Spec => []SpreadInv
<1>1. Init => SpreadInv
  BY InitInv
<1>2. SpreadInv /\ [Next]_vars => SpreadInv'
  <2> SUFFICES ASSUME SpreadInv, [Next]_vars PROVE SpreadInv'
    OBVIOUS
  <2>1. CASE StartExtent
    BY <2>1, StartExtentKeeps
  <2>2. CASE StartPair
    BY <2>2, StartPairKeeps
  <2>3. CASE CopyForwards
    BY <2>3, CopyForwardsKeeps
  <2>4. CASE CopyBackwards
    BY <2>4, CopyBackwardsKeeps
  <2>5. CASE EndPair
    BY <2>5, EndPairKeeps
  <2>6. CASE EndExtent
    BY <2>6, EndExtentKeeps
  <2>7. CASE Finish
    BY <2>7, FinishKeeps
  <2>8. CASE Done
    BY <2>8, NothingKeeps DEF Done
  <2>9. CASE UNCHANGED vars
    BY <2>9, NothingKeeps
  <2> QED
    BY <2>1, <2>2, <2>3, <2>4, <2>5, <2>6, <2>7, <2>8, <2>9 DEF Next
<1> QED
  BY <1>1, <1>2, PTL DEF Spec

(* No element of the window is overwritten before it is read (spread_elements_left2right and *)
(* spread_elements_right2left, reclaim_past_extents), though input and output share it.      *)
THEOREM NothingIsOverwritten ==
    ASSUME SpreadAssumption, CallersAssumption
    PROVE  Spec => [](TypeInv /\ UnreadIntact)
<1>1. SpreadInv => TypeInv /\ UnreadIntact
  <2> SUFFICES ASSUME SpreadInv PROVE TypeInv /\ UnreadIntact
    OBVIOUS
  <2>1. TypeInv
    BY DEF SpreadInv
  <2>2. ASSUME pc \notin {"finish", "done"}
        PROVE  \A p \in UnreadSlots : keys[p] = case.keys[p]
    <3>1. pc \in {"extent", "pair", "copy", "reclaim"}
      BY <2>1, <2>2 DEF TypeInv
    <3> QED
      BY <3>1 DEF SpreadInv, Walking, InputIntact
  <2> QED
    BY <2>1, <2>2, PendingIsRead DEF UnreadIntact
<1>2. Spec => []SpreadInv
  BY SpreadInvariant
<1> QED
  BY <1>1, <1>2, PTL

(* The assertion that closes spread_window: the spread has rewired and released every buffer *)
(* that it took, for what it has written is then what it had to read.                         *)
THEOREM BuffersAreReleased ==
    ASSUME SpreadAssumption, CallersAssumption
    PROVE  Spec => []AllBuffersReleased
<1>1. SpreadInv => AllBuffersReleased
  BY DEF SpreadInv, AllBuffersReleased
<1>2. Spec => []SpreadInv
  BY SpreadInvariant
<1> QED
  BY <1>1, <1>2, PTL

=============================================================================
