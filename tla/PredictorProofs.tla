---------------------------- MODULE PredictorProofs ----------------------------
(***************************************************************************)
(* The circular array of Predictor implements the queue of PredictorQueue, *)
(* for every set of segments, capacities and maxima, as long as the array  *)
(* lies in its buffer.                                                     *)
(*                                                                         *)
(* The items in use are described by their tail and their number only: the *)
(* i-th of them is at Slot(tail, capacity, i), and these positions are     *)
(* distinct.  Each operation of the array is first shown to be one of the  *)
(* queue in these terms, for any buffer; what the head is for is to say    *)
(* how many items there are.                                               *)
(***************************************************************************)
EXTENDS Predictor, SequenceTheorems, WellFoundedInduction, FiniteSetTheorems, TLAPS

Item == [m_pointer : Nat, m_count : Int]

(* The position of the i-th item of an array, and the items from the tail to the front. *)
Slot(tail, capacity, i) == IF tail + i <= capacity THEN tail + i - 1 ELSE tail + i - 1 - capacity
Ring(tail, capacity, n) == [i \in 1 .. n |-> Slot(tail, capacity, i)]
Contents(buffer, tail, capacity, n) == [i \in 1 .. n |-> buffer[Slot(tail, capacity, i)]]

(* The buffer with another item at one position. *)
Written(buffer, at, item) == [buffer EXCEPT ![at] = item]

(* An array of n items that lies in its buffer. *)
IsArray(buffer, tail, capacity, n) ==
    /\ capacity \in Nat \ {0} /\ tail \in 0 .. (capacity - 1) /\ n \in 0 .. capacity
    /\ \E max \in Nat : capacity <= max /\ buffer \in [0 .. (max - 1) -> Item]

(* How many items there are, from the two ends. *)
Used(capacity, tail, head, empty) ==
    IF empty THEN 0 ELSE IF head > tail THEN head - tail ELSE (capacity - tail) + head

(* The positions of InUse, for any two ends. *)
Positions(capacity, tail, head, empty) ==
    IF empty THEN <<>>
    ELSE IF head > tail THEN [i \in 1 .. (head - tail) |-> tail + i - 1]
    ELSE [i \in 1 .. (capacity - tail) |-> tail + i - 1] \o [i \in 1 .. head |-> i - 1]

-----------------------------------------------------------------------------
(* Every non-empty set of natural numbers has a least element: the principle of induction *)
(* in a form without a predicate.                                                         *)
LEMMA LeastNatural ==
    ASSUME NEW T \in SUBSET Nat, T # {}
    PROVE  \E m \in T : \A k \in T : m <= k
<1> DEFINE R == OpToRel(<, Nat)
<1>1. \A x, y \in Nat : y < x => <<y, x>> \in R
  BY DEF OpToRel
<1>2. IsWellFoundedOn(R, Nat)
  BY NatLessThanWellFounded
<1> HIDE DEF R
<1>3. PICK m \in T : \A k \in T : ~ (<<k, m>> \in R)
  BY <1>2, WFMin, Zenon
<1>4. \A k \in T : ~ (k < m)
  BY <1>1, <1>3
<1> QED
  BY <1>4

(* So a set of numbers with a bound has a greatest one. *)
LEMMA GreatestNatural ==
    ASSUME NEW n \in Nat, NEW S \in SUBSET (0 .. n), S # {}
    PROVE  Max(S) \in S /\ \A y \in S : Max(S) >= y
<1> DEFINE T == {k \in Nat : n - k \in S}
<1>1. T # {}
  <2>1. PICK x \in S : TRUE
    OBVIOUS
  <2>2. n - x \in Nat /\ n - (n - x) = x
    BY <2>1
  <2> QED
    BY <2>1, <2>2
<1>2. PICK m \in T : \A k \in T : m <= k
  BY <1>1, LeastNatural
<1>3. n - m \in S
  BY <1>2
<1>4. ASSUME NEW y \in S PROVE n - m >= y
  <2>1. n - y \in T
    BY <1>4
  <2> QED
    BY <1>2, <2>1
<1> QED
  BY <1>3, <1>4 DEF Max

(* A finite set of numbers has a bound. *)
LEMMA FiniteBounded ==
    ASSUME NEW S \in SUBSET Nat, IsFiniteSet(S)
    PROVE  \E n \in Nat : \A x \in S : x <= n
<1> DEFINE U == {T \in SUBSET S : ~ \E n \in Nat : \A x \in T : x <= n}
           C == {Cardinality(T) : T \in U}
<1>1. \A T \in SUBSET S : IsFiniteSet(T) /\ Cardinality(T) \in Nat
  BY FS_Subset, FS_CardinalityType
<1> SUFFICES ASSUME U # {} PROVE FALSE
  OBVIOUS
<1>2. C \in SUBSET Nat /\ C # {}
  BY <1>1
<1>3. PICK c \in C : \A k \in C : c <= k
  BY <1>2, LeastNatural
<1>4. PICK T \in U : Cardinality(T) = c
  OBVIOUS
<1>5. T # {}
  <2>1. 0 \in Nat /\ \A y \in {} : y <= 0
    OBVIOUS
  <2> QED
    BY <1>4, <2>1
<1>6. PICK x \in T : x \in Nat
  BY <1>4, <1>5
<1>7. T \ {x} \in SUBSET S /\ Cardinality(T \ {x}) = Cardinality(T) - 1
  BY <1>1, <1>4, <1>6, FS_RemoveElement
<1>8. Cardinality(T \ {x}) < c /\ c \in Nat
  BY <1>1, <1>4, <1>7
<1>9. T \ {x} \notin U
  <2>1. Cardinality(T \ {x}) \in Nat /\ ~ (c <= Cardinality(T \ {x}))
    BY <1>1, <1>7, <1>8
  <2>2. T \ {x} \in U => Cardinality(T \ {x}) \in C
    OBVIOUS
  <2> QED
    BY <1>3, <2>1, <2>2
<1>10. PICK n \in Nat : \A y \in T \ {x} : y <= n
  BY <1>7, <1>9
<1>11. \A y \in T : y <= n + x
  BY <1>4, <1>6, <1>10
<1> QED
  BY <1>4, <1>6, <1>10, <1>11

-----------------------------------------------------------------------------
(* The positions of the items are inside the array, and distinct. *)
LEMMA SlotsDistinct ==
    ASSUME NEW capacity \in Nat \ {0}, NEW tail \in 0 .. (capacity - 1)
    PROVE  /\ \A i \in 1 .. capacity : Slot(tail, capacity, i) \in 0 .. (capacity - 1)
           /\ \A i, j \in 1 .. capacity : Slot(tail, capacity, i) = Slot(tail, capacity, j) => i = j
BY DEF Slot

(* InUse, in terms of the tail and the number of items. *)
LEMMA RingOfUse ==
    ASSUME NEW capacity \in Nat \ {0}, NEW tail \in 0 .. (capacity - 1),
           NEW head \in 0 .. capacity, NEW empty \in BOOLEAN
    PROVE  Positions(capacity, tail, head, empty)
           = Ring(tail, capacity, Used(capacity, tail, head, empty))
<1> DEFINE n == Used(capacity, tail, head, empty)
           ring == Ring(tail, capacity, n)
<1>1. n \in Nat
  BY DEF Used
<1>2. \A i \in 1 .. n : Slot(tail, capacity, i) \in Int
  BY <1>1 DEF Slot
<1>3. /\ ring \in Seq(Int) /\ Len(ring) = n
      /\ \A i \in 1 .. n : ring[i] = Slot(tail, capacity, i)
  BY <1>1, <1>2 DEF Ring
<1>4. CASE empty
  <2>1. n = 0
    BY <1>4 DEF Used
  <2>2. <<>> \in Seq(Int) /\ Len(<<>>) = 0
    BY EmptySeq
  <2>3. \A i \in 1 .. Len(ring) : ring[i] = <<>>[i]
    BY <1>3, <2>1
  <2>4. ring = <<>>
    BY <1>3, <2>1, <2>2, <2>3, SeqEqual
  <2> QED
    BY <1>4, <2>4 DEF Positions
<1>5. CASE ~ empty /\ head > tail
  <2>1. n = head - tail
    BY <1>5 DEF Used
  <2>2. \A i \in 1 .. n : Slot(tail, capacity, i) = tail + i - 1
    BY <2>1 DEF Slot
  <2> QED
    BY <1>5, <2>1, <2>2 DEF Positions, Ring
<1>6. CASE ~ empty /\ ~ (head > tail)
  <2> DEFINE s == [i \in 1 .. (capacity - tail) |-> tail + i - 1]
             t == [i \in 1 .. head |-> i - 1]
  <2>1. n = (capacity - tail) + head
    BY <1>6 DEF Used
  <2>2. s \in Seq(Int) /\ Len(s) = capacity - tail /\ t \in Seq(Int) /\ Len(t) = head
    OBVIOUS
  <2> HIDE DEF s, t, n
  <2>3. s \o t \in Seq(Int) /\ Len(s \o t) = Len(s) + Len(t)
    BY <2>2, ConcatProperties
  <2>6. \A i \in 1 .. (Len(s) + Len(t)) : (s \o t)[i] = IF i <= Len(s) THEN s[i] ELSE t[i - Len(s)]
    BY <2>2, ConcatProperties
  <2>7. /\ Len(s \o t) = n
        /\ \A i \in 1 .. n : (s \o t)[i] = IF i <= capacity - tail THEN s[i] ELSE t[i - (capacity - tail)]
    BY <2>1, <2>2, <2>3, <2>6
  <2>4. ASSUME NEW i \in 1 .. n PROVE (s \o t)[i] = ring[i]
    <3>1. CASE i <= capacity - tail
      <4>1. s[i] = tail + i - 1
        BY <1>1, <3>1 DEF s
      <4> QED
        BY <1>1, <1>3, <2>7, <3>1, <4>1 DEF Slot
    <3>2. CASE ~ (i <= capacity - tail)
      <4>1. i - (capacity - tail) \in 1 .. head
        BY <1>1, <2>1, <3>2
      <4>2. t[i - (capacity - tail)] = tail + i - 1 - capacity
        BY <1>1, <4>1 DEF t
      <4>3. (s \o t)[i] = tail + i - 1 - capacity
        BY <2>7, <3>2, <4>2
      <4>4. ring[i] = tail + i - 1 - capacity
        BY <1>1, <1>3, <3>2 DEF Slot
      <4> QED
        BY <4>3, <4>4
    <3> QED
      BY <3>1, <3>2
  <2> HIDE DEF ring
  <2>5. s \o t = ring
    BY <1>3, <2>3, <2>7, <2>4, SeqEqual
  <2> QED
    BY <1>6, <2>5 DEF s, t, n, ring, Positions
<1> QED
  BY <1>4, <1>5, <1>6

-----------------------------------------------------------------------------
(* The items of an array that fits its buffer. *)
LEMMA ContentsIsSeq ==
    ASSUME NEW buffer, NEW tail, NEW capacity, NEW n, IsArray(buffer, tail, capacity, n)
    PROVE  /\ Contents(buffer, tail, capacity, n) \in Seq(Item)
           /\ Len(Contents(buffer, tail, capacity, n)) = n
           /\ \A i \in 1 .. n : /\ Contents(buffer, tail, capacity, n)[i] = buffer[Slot(tail, capacity, i)]
                                /\ Contents(buffer, tail, capacity, n)[i] \in Item
<1>1. PICK max \in Nat : capacity <= max /\ buffer \in [0 .. (max - 1) -> Item]
  BY DEF IsArray
<1>2. capacity \in Nat /\ tail \in 0 .. (capacity - 1) /\ n \in 0 .. capacity
  BY DEF IsArray
<1>3. \A i \in 1 .. n : Slot(tail, capacity, i) \in 0 .. (max - 1)
  BY <1>1, <1>2 DEF Slot
<1>4. \A i \in 1 .. n : buffer[Slot(tail, capacity, i)] \in Item
  BY <1>1, <1>3
<1> QED
  BY <1>2, <1>4 DEF Contents

(* One item is overwritten. *)
LEMMA Replaced ==
    ASSUME NEW buffer, NEW tail, NEW capacity, NEW n, NEW i, NEW item,
           IsArray(buffer, tail, capacity, n), i \in 1 .. n, item \in Item
    PROVE  /\ IsArray(Written(buffer, Slot(tail, capacity, i), item), tail, capacity, n)
           /\ Contents(Written(buffer, Slot(tail, capacity, i), item), tail, capacity, n)
              = [Contents(buffer, tail, capacity, n) EXCEPT ![i] = item]
<1> DEFINE at == Slot(tail, capacity, i)
           new == Written(buffer, at, item)
<1>1. PICK max \in Nat : capacity <= max /\ buffer \in [0 .. (max - 1) -> Item]
  BY DEF IsArray
<1>2. capacity \in Nat /\ tail \in 0 .. (capacity - 1) /\ n \in 0 .. capacity
  BY DEF IsArray
<1>3. \A j \in 1 .. n : Slot(tail, capacity, j) \in 0 .. (max - 1) /\ (Slot(tail, capacity, j) = at <=> j = i)
  BY <1>1, <1>2 DEF Slot
<1>4. \A j \in 1 .. n : new[Slot(tail, capacity, j)] = IF j = i THEN item ELSE buffer[Slot(tail, capacity, j)]
  BY <1>1, <1>3 DEF Written
<1>5. new \in [0 .. (max - 1) -> Item]
  BY <1>1, <1>3 DEF Written
<1> HIDE DEF at, new
<1>6. IsArray(new, tail, capacity, n)
  BY <1>1, <1>5 DEF IsArray
<1>7. Contents(new, tail, capacity, n) = [Contents(buffer, tail, capacity, n) EXCEPT ![i] = item]
  BY <1>4 DEF Contents
<1> QED
  BY <1>6, <1>7 DEF at, new

(* The contents with an item more. *)
AppendedContents(buffer, tail, capacity, n, item) ==
    Contents(Written(buffer, Slot(tail, capacity, n + 1), item), tail, capacity, n + 1)

(* The position after the last item is none of theirs, and becomes that of a new one. *)
LEMMA Appended ==
    ASSUME NEW buffer, NEW tail, NEW capacity, NEW n, NEW item,
           IsArray(buffer, tail, capacity, n), n # capacity, item \in Item
    PROVE  AppendedContents(buffer, tail, capacity, n, item) = Append(Contents(buffer, tail, capacity, n), item)
<1> DEFINE m == n + 1
           new == Written(buffer, Slot(tail, capacity, m), item)
           q == Contents(buffer, tail, capacity, n)
           old == Contents(buffer, tail, capacity, m)
           r == Contents(new, tail, capacity, m)
<1>1. n \in Nat /\ m \in Nat /\ m \in 1 .. m /\ IsArray(buffer, tail, capacity, m)
  BY DEF IsArray
<1>2. \A i \in 1 .. m : i = m \/ i \in 1 .. n
  BY <1>1
<1>3. \A i \in 1 .. n : i \in 1 .. m /\ i # m
  BY <1>1
<1> HIDE DEF m
<1>4. IsArray(new, tail, capacity, m) /\ r = [old EXCEPT ![m] = item]
  <2>1. IsArray(new, tail, capacity, m)
    BY <1>1, Replaced
  <2>2. r = [old EXCEPT ![m] = item]
    BY <1>1, Replaced
  <2> QED
    BY <2>1, <2>2
<1>5. q \in Seq(Item) /\ Len(q) = n /\ \A i \in 1 .. n : q[i] = buffer[Slot(tail, capacity, i)]
  BY ContentsIsSeq
<1>6. old \in Seq(Item) /\ Len(old) = m /\ \A i \in 1 .. m : old[i] = buffer[Slot(tail, capacity, i)]
  BY <1>1, ContentsIsSeq
<1> HIDE DEF q, old, r, new
<1>7. r \in Seq(Item) /\ Len(r) = m /\ \A i \in 1 .. m : r[i] = IF i = m THEN item ELSE old[i]
  BY <1>1, <1>4, <1>6, ExceptSeq
<1>8. /\ Append(q, item) \in Seq(Item) /\ Len(Append(q, item)) = m
      /\ \A i \in 1 .. n : Append(q, item)[i] = q[i]
      /\ Append(q, item)[m] = item
  BY <1>5, AppendProperties DEF m
<1>9. \A i \in 1 .. m : r[i] = Append(q, item)[i]
  BY <1>2, <1>3, <1>5, <1>6, <1>7, <1>8
<1>10. r = Append(q, item)
  BY <1>7, <1>8, <1>9, SeqEqual
<1> QED
  BY <1>10, Zenon DEF q, r, new, m, AppendedContents

(* The tail moves ahead of the first item. *)
LEMMA Dropped ==
    ASSUME NEW buffer, NEW tail, NEW capacity, NEW n,
           IsArray(buffer, tail, capacity, n), n # 0
    PROVE  /\ IsArray(buffer, Slot(tail, capacity, 2), capacity, n - 1)
           /\ Contents(buffer, Slot(tail, capacity, 2), capacity, n - 1)
              = Tail(Contents(buffer, tail, capacity, n))
<1> DEFINE m == n - 1
           next == Slot(tail, capacity, 2)
           q == Contents(buffer, tail, capacity, n)
           r == Contents(buffer, next, capacity, m)
<1>1. /\ IsArray(buffer, next, capacity, m) /\ n \in Nat /\ m \in Nat
      /\ \A i \in 1 .. m : Slot(next, capacity, i) = Slot(tail, capacity, i + 1) /\ i + 1 \in 1 .. n
  BY DEF Slot, IsArray
<1>2. q \in Seq(Item) /\ Len(q) = n /\ \A i \in 1 .. n : q[i] = buffer[Slot(tail, capacity, i)]
  BY ContentsIsSeq
<1> HIDE DEF next, m
<1>3. r \in Seq(Item) /\ Len(r) = m /\ \A i \in 1 .. m : r[i] = buffer[Slot(next, capacity, i)]
  BY <1>1, ContentsIsSeq
<1> HIDE DEF q, r
<1>4. q # <<>>
  BY <1>2, EmptySeq
<1>5. /\ Tail(q) \in Seq(Item) /\ Len(Tail(q)) = m
      /\ \A i \in 1 .. m : Tail(q)[i] = q[i + 1]
  BY <1>2, <1>4, HeadTailProperties DEF m
<1>6. \A i \in 1 .. m : r[i] = Tail(q)[i]
  BY <1>1, <1>2, <1>3, <1>5
<1>7. r = Tail(q)
  BY <1>3, <1>5, <1>6, SeqEqual
<1> QED
  BY <1>1, <1>7 DEF q, r, next, m

-----------------------------------------------------------------------------
(* The position after an item is that of the next one, also across the end of the array. *)
LEMMA NextSlot ==
    ASSUME NEW capacity \in Nat \ {0}, NEW tail \in 0 .. (capacity - 1), NEW i \in 1 .. capacity
    PROVE  Slot(tail, capacity, i + 1) =
           IF Slot(tail, capacity, i) + 1 = capacity THEN 0 ELSE Slot(tail, capacity, i) + 1
BY DEF Slot

(* move_ahead exchanges an item with the one in front of it. *)
LEMMA MovedAhead ==
    ASSUME NEW buffer, NEW tail, NEW capacity, NEW n, NEW i, NEW k,
           IsArray(buffer, tail, capacity, n), i \in 1 .. n, k \in 1 .. n, i < k, k <= i + 1
    PROVE  LET p == Slot(tail, capacity, i)
               next == Slot(tail, capacity, k)
               ahead == [buffer EXCEPT ![p] = buffer[next], ![next] = buffer[p]]
           IN  /\ IsArray(ahead, tail, capacity, n)
               /\ Contents(ahead, tail, capacity, n) = Queue!MoveAhead(Contents(buffer, tail, capacity, n), i)
<1> DEFINE q == Contents(buffer, tail, capacity, n)
           p == Slot(tail, capacity, i)
           next == Slot(tail, capacity, k)
           ahead == [buffer EXCEPT ![p] = buffer[next], ![next] = buffer[p]]
<1>1. PICK max \in Nat : capacity <= max /\ buffer \in [0 .. (max - 1) -> Item]
  BY DEF IsArray
<1>2. capacity \in Nat /\ tail \in 0 .. (capacity - 1) /\ n \in 0 .. capacity /\ k = i + 1
  BY DEF IsArray
<1>3. /\ \A j \in 1 .. n : Slot(tail, capacity, j) \in 0 .. (max - 1)
      /\ \A j \in 1 .. n : Slot(tail, capacity, j) = p => j = i
      /\ \A j \in 1 .. n : Slot(tail, capacity, j) = next => j = k
  <2>1. \A j \in 1 .. n : Slot(tail, capacity, j) \in 0 .. (max - 1)
    BY <1>1, <1>2 DEF Slot
  <2>2. \A j, l \in 1 .. n : Slot(tail, capacity, j) = Slot(tail, capacity, l) => j = l
    BY <1>2 DEF Slot
  <2> QED
    BY <2>1, <2>2
<1>4. p \in 0 .. (max - 1) /\ next \in 0 .. (max - 1) /\ buffer[p] \in Item /\ buffer[next] \in Item
  <2>1. p \in 0 .. (max - 1) /\ next \in 0 .. (max - 1)
    BY <1>3
  <2> HIDE DEF p, next
  <2> QED
    BY <1>1, <2>1
<1>5. /\ Len(q) = n /\ q[i] = buffer[p] /\ q[k] = buffer[next]
      /\ \A j \in 1 .. n : q[j] = buffer[Slot(tail, capacity, j)]
  <2>1. Len(q) = n
    BY ContentsIsSeq
  <2>2. \A j \in 1 .. n : q[j] = buffer[Slot(tail, capacity, j)]
    BY ContentsIsSeq
  <2> HIDE DEF q
  <2> QED
    BY <2>1, <2>2
<1> HIDE DEF p, next, q
<1>6. ahead \in [0 .. (max - 1) -> Item]
  BY <1>1, <1>4
<1>7. \A j \in 1 .. n : ahead[Slot(tail, capacity, j)] =
          IF j = k THEN q[i] ELSE IF j = i THEN q[k] ELSE q[j]
  <2> TAKE j \in 1 .. n
  <2>1. Slot(tail, capacity, j) \in 0 .. (max - 1) /\ q[j] = buffer[Slot(tail, capacity, j)]
    BY <1>3, <1>5
  <2>2. (Slot(tail, capacity, j) = p <=> j = i) /\ (Slot(tail, capacity, j) = next <=> j = k)
    BY <1>3 DEF p, next
  <2> QED
    BY <1>1, <1>4, <1>5, <2>1, <2>2
<1> HIDE DEF ahead
<1>8. Contents(ahead, tail, capacity, n) =
          [j \in 1 .. n |-> IF j = k THEN q[i] ELSE IF j = i THEN q[k] ELSE q[j]]
  BY <1>7 DEF Contents
<1>9. Queue!MoveAhead(q, i) = [j \in 1 .. n |-> IF j = k THEN q[i] ELSE IF j = i THEN q[k] ELSE q[j]]
  <2>1. i # Len(q)
    BY <1>2, <1>5
  <2>2. q = [j \in 1 .. n |-> q[j]]
    BY DEF q, Contents
  <2> QED
    BY <1>2, <1>5, <2>1, <2>2 DEF Queue!MoveAhead
<1>10. IsArray(ahead, tail, capacity, n)
  BY <1>1, <1>6 DEF IsArray
<1> QED
  BY <1>8, <1>9, <1>10 DEF ahead, p, next, q

(* An item with one less of its count. *)
Lessened(item) == IF item.m_count = 1 THEN NoItem ELSE [item EXCEPT !.m_count = @ - 1]

DecreasedContents(buffer, tail, capacity, n) ==
    IF buffer[tail].m_count = 1
    THEN Contents(Written(buffer, tail, Lessened(buffer[tail])), Slot(tail, capacity, 2), capacity, n - 1)
    ELSE Contents(Written(buffer, tail, Lessened(buffer[tail])), tail, capacity, n)

(* decrease_tail takes one from the count of the first item, and the item with the last one. *)
LEMMA Decreased ==
    ASSUME NEW buffer, NEW tail, NEW capacity, NEW n, IsArray(buffer, tail, capacity, n), n # 0
    PROVE  DecreasedContents(buffer, tail, capacity, n) = Queue!DecreaseTail(Contents(buffer, tail, capacity, n))
<1> DEFINE item == Lessened(buffer[tail])
           new == Written(buffer, tail, item)
           q == Contents(buffer, tail, capacity, n)
           rest == Contents(new, tail, capacity, n)
<1>1. Slot(tail, capacity, 1) = tail /\ 1 \in 1 .. n /\ n \in Nat
  BY DEF Slot, IsArray
<1>2. q \in Seq(Item) /\ Len(q) = n /\ q[1] = buffer[tail] /\ buffer[tail] \in Item
  BY <1>1, ContentsIsSeq
<1>3. item \in Item
  <2>1. NoItem \in Item
    BY DEF NoItem, Item
  <2>2. [buffer[tail] EXCEPT !.m_count = @ - 1] \in Item
    BY <1>2 DEF Item
  <2> QED
    BY <2>1, <2>2 DEF Lessened
<1> HIDE DEF item
<1>4. IsArray(new, tail, capacity, n) /\ rest = [q EXCEPT ![1] = item]
  <2>1. 1 \in 1 .. n
    BY <1>1
  <2>2. IsArray(Written(buffer, Slot(tail, capacity, 1), item), tail, capacity, n)
    BY <1>3, <2>1, Replaced
  <2>3. Contents(Written(buffer, Slot(tail, capacity, 1), item), tail, capacity, n) = [q EXCEPT ![1] = item]
    BY <1>3, <2>1, Replaced
  <2> QED
    BY <1>1, <2>2, <2>3
<1> HIDE DEF new
<1>5. CASE buffer[tail].m_count = 1
  <2> IsArray(new, tail, capacity, n)
    BY <1>4
  <2>1. Contents(new, Slot(tail, capacity, 2), capacity, n - 1) = Tail(Contents(new, tail, capacity, n))
    BY Dropped
  <2> HIDE DEF q, rest
  <2>2. /\ q # <<>> /\ rest # <<>> /\ rest \in Seq(Item) /\ Len(rest) = n
        /\ \A j \in 1 .. n : rest[j] = IF j = 1 THEN item ELSE q[j]
    BY <1>1, <1>2, <1>3, <1>4, EmptySeq, ExceptSeq
  <2>3. /\ Tail(q) \in Seq(Item) /\ Len(Tail(q)) = n - 1
        /\ \A j \in 1 .. (n - 1) : Tail(q)[j] = q[j + 1]
    BY <1>2, <2>2, HeadTailProperties
  <2>4. /\ Tail(rest) \in Seq(Item) /\ Len(Tail(rest)) = n - 1
        /\ \A j \in 1 .. (n - 1) : Tail(rest)[j] = rest[j + 1]
    BY <2>2, HeadTailProperties
  <2>5. \A j \in 1 .. (n - 1) : j + 1 \in 1 .. n /\ j + 1 # 1
    BY <1>1
  <2>6. \A j \in 1 .. (n - 1) : Tail(rest)[j] = Tail(q)[j]
    BY <2>2, <2>3, <2>4, <2>5
  <2>7. Tail(rest) = Tail(q)
    BY <2>3, <2>4, <2>6, SeqEqual
  <2>8. Queue!DecreaseTail(q) = Tail(q)
    BY <1>2, <1>5 DEF Queue!DecreaseTail
  <2> QED
    BY <1>5, <2>1, <2>7, <2>8 DEF q, rest, new, item, DecreasedContents
<1>6. CASE buffer[tail].m_count # 1
  <2>1. [q EXCEPT ![1].m_count = @ - 1] = [q EXCEPT ![1] = item]
    BY <1>2, <1>6 DEF item, Lessened
  <2>2. Queue!DecreaseTail(q) = [q EXCEPT ![1] = item]
    BY <1>2, <1>6, <2>1 DEF Queue!DecreaseTail
  <2> QED
    BY <1>4, <1>6, <2>2 DEF new, item, DecreasedContents
<1> QED
  BY <1>5, <1>6

-----------------------------------------------------------------------------
(* The queue that the array stands for, and the number of its items. *)
QueueNow == [i \in DOMAIN InUse |-> m_buffer[InUse[i]]]
UsedNow == Used(m_capacity, m_tail, m_head, m_empty)

TypeInv ==
    /\ m_capacity \in Nat \ {0} /\ m_capacity_max \in Nat
    /\ m_buffer \in [0 .. (m_capacity_max - 1) -> Item]
    /\ m_tail \in 0 .. (m_capacity - 1) /\ m_head \in Nat /\ m_empty \in BOOLEAN
    /\ m_count_max \in Int

(* The segments of the items are segments of the array. *)
Recorded(q) == \A i \in 1 .. Len(q) : q[i].m_pointer \in Pointers

(* The inductive invariant: an empty array has its tail at its head; and all the items,      *)
(* recorded by update or by reset_ptr, are about segments there are.                         *)
IndInv ==
    /\ TypeInv
    /\ m_empty => m_tail = m_head
    /\ Recorded(QueueNow)

(* Before and after a step. *)
LEMMA QueueIs ==
    ASSUME IndInv, Contained
    PROVE  /\ IsArray(m_buffer, m_tail, m_capacity, UsedNow)
           /\ InUse = Ring(m_tail, m_capacity, UsedNow)
           /\ QueueNow = Contents(m_buffer, m_tail, m_capacity, UsedNow)
           /\ UsedNow \in 0 .. m_capacity /\ (UsedNow = 0 <=> m_empty)
           /\ UsedNow # m_capacity => m_head = Slot(m_tail, m_capacity, UsedNow + 1)
           /\ UsedNow = m_capacity <=> full
           /\ UsedNow # 0 => Slot(m_tail, m_capacity, UsedNow) = IF m_head = 0 THEN m_capacity - 1 ELSE m_head - 1
<1>1. /\ m_capacity \in Nat \ {0} /\ m_tail \in 0 .. (m_capacity - 1) /\ m_head \in 0 .. m_capacity
      /\ m_head \in 0 .. (m_capacity - 1) /\ m_empty \in BOOLEAN /\ (m_empty => m_tail = m_head)
  BY DEF IndInv, TypeInv, Contained
<1>2. InUse = Ring(m_tail, m_capacity, UsedNow)
  <2>1. InUse = Positions(m_capacity, m_tail, m_head, m_empty)
    BY Zenon DEF InUse, Positions
  <2> QED
    BY <1>1, <2>1, RingOfUse DEF UsedNow
<1>3. QueueNow = Contents(m_buffer, m_tail, m_capacity, UsedNow)
  BY <1>2 DEF QueueNow, Contents, Ring
<1>4. UsedNow \in 0 .. m_capacity
  BY <1>1 DEF Used, UsedNow
<1>5. IsArray(m_buffer, m_tail, m_capacity, UsedNow)
  BY <1>1, <1>4 DEF IsArray, IndInv, TypeInv, Contained
<1>6. UsedNow = 0 <=> m_empty
  BY <1>1 DEF Used, UsedNow
<1>7. UsedNow # m_capacity => m_head = Slot(m_tail, m_capacity, UsedNow + 1)
  BY <1>1 DEF Used, UsedNow, Slot
<1>8. UsedNow = m_capacity <=> full
  BY <1>1 DEF Used, UsedNow, full
<1>9. UsedNow # 0 => Slot(m_tail, m_capacity, UsedNow) = IF m_head = 0 THEN m_capacity - 1 ELSE m_head - 1
  BY <1>1 DEF Used, UsedNow, Slot
<1> QED
  BY <1>2, <1>3, <1>4, <1>5, <1>6, <1>7, <1>8, <1>9

(* The queue after a step, from the buffer after it. *)
LEMMA QueueIsNext ==
    ASSUME TypeInv', m_head' \in 0 .. m_capacity'
    PROVE  QueueNow' = Contents(m_buffer', m_tail', m_capacity', UsedNow')
<1>1. /\ m_capacity' \in Nat \ {0} /\ m_tail' \in 0 .. (m_capacity' - 1)
      /\ m_empty' \in BOOLEAN
  BY DEF TypeInv
<1>2. InUse' = Ring(m_tail', m_capacity', UsedNow')
  <2>1. InUse' = Positions(m_capacity', m_tail', m_head', m_empty')
    BY Zenon DEF InUse, Positions
  <2>2. UsedNow' = Used(m_capacity', m_tail', m_head', m_empty')
    BY Zenon DEF UsedNow
  <2> QED
    BY <1>1, <2>1, <2>2, RingOfUse
<1> QED
  BY <1>2 DEF QueueNow, Contents, Ring

-----------------------------------------------------------------------------
(* The operations of the queue keep what is recorded of segments there are. *)
LEMMA DecreaseTailRecorded ==
    ASSUME NEW q \in Seq(Item), q # <<>>, Recorded(q)
    PROVE  Recorded(Queue!DecreaseTail(q))
<1>1. Len(q) \in Nat \ {0} /\ 1 \in 1 .. Len(q)
  BY EmptySeq
<1>2. CASE q[1].m_count = 1
  <2>1. Queue!DecreaseTail(q) = Tail(q)
    BY <1>2 DEF Queue!DecreaseTail
  <2>2. Len(Tail(q)) = Len(q) - 1 /\ \A i \in 1 .. Len(Tail(q)) : Tail(q)[i] = q[i + 1]
    BY HeadTailProperties
  <2>3. \A i \in 1 .. Len(Tail(q)) : i + 1 \in 1 .. Len(q)
    BY <1>1, <2>2
  <2> QED
    BY <2>1, <2>2, <2>3 DEF Recorded
<1>3. CASE q[1].m_count # 1
  <2> DEFINE x == [q[1] EXCEPT !.m_count = @ - 1]
  <2>1. q[1] \in Item
    BY <1>1, ElementOfSeq
  <2>2. x \in Item /\ x.m_pointer = q[1].m_pointer
    BY <2>1 DEF Item
  <2>3. Queue!DecreaseTail(q) = [q EXCEPT ![1] = x]
    BY <1>3 DEF Queue!DecreaseTail
  <2> HIDE DEF x
  <2>4. /\ Len([q EXCEPT ![1] = x]) = Len(q)
        /\ \A j \in 1 .. Len(q) : [q EXCEPT ![1] = x][j] = IF j = 1 THEN x ELSE q[j]
    BY <1>1, <2>2, ExceptSeq
  <2> QED
    BY <1>1, <2>2, <2>3, <2>4 DEF Recorded
<1> QED
  BY <1>2, <1>3

(* Moving an item ahead keeps the items of the queue. *)
LEMMA MoveAheadRecorded ==
    ASSUME NEW q \in Seq(Item), NEW i \in 1 .. Len(q), Recorded(q)
    PROVE  LET at == IF i = Len(q) THEN i ELSE i + 1
               ahead == Queue!MoveAhead(q, i)
           IN  /\ ahead \in Seq(Item) /\ Len(ahead) = Len(q) /\ at \in 1 .. Len(q)
               /\ Recorded(ahead) /\ ahead[at] = q[i]
<1>1. CASE i = Len(q)
  BY <1>1 DEF Queue!MoveAhead
<1>2. CASE i # Len(q)
  <2> DEFINE k == i + 1
             one == [q EXCEPT ![i] = q[k]]
             two == [one EXCEPT ![k] = q[i]]
  <2>1. Len(q) \in Nat /\ k \in 1 .. Len(q) /\ k # i
    BY <1>2, LenProperties
  <2>2. q[i] \in Item /\ q[k] \in Item
    BY <2>1, ElementOfSeq
  <2>3. Queue!MoveAhead(q, i) = two
    BY <1>2 DEF Queue!MoveAhead
  <2> HIDE DEF k
  <2>4. /\ one \in Seq(Item) /\ Len(one) = Len(q)
        /\ \A j \in 1 .. Len(q) : one[j] = IF j = i THEN q[k] ELSE q[j]
    BY <2>2, ExceptSeq
  <2> HIDE DEF one
  <2>5. /\ two \in Seq(Item) /\ Len(two) = Len(q)
        /\ \A j \in 1 .. Len(q) : two[j] = IF j = k THEN q[i] ELSE one[j]
    BY <2>1, <2>2, <2>4, ExceptSeq
  <2> HIDE DEF two
  <2>6. Recorded(two)
    BY <2>1, <2>4, <2>5 DEF Recorded
  <2>7. two[k] = q[i]
    BY <2>1, <2>5
  <2> QED
    BY <1>2, <2>1, <2>3, <2>5, <2>6, <2>7 DEF k
<1> QED
  BY <1>1, <1>2

(* decrease_tail, on a buffer in which an item may have moved. *)
LEMMA DecreaseTailStep ==
    ASSUME IndInv, Contained, ~ m_empty, NEW buffer \in [0 .. (m_capacity_max - 1) -> Item],
           decrease_tail(buffer), UNCHANGED <<m_capacity, m_capacity_max, m_count_max>>
    PROVE  /\ TypeInv' /\ (m_empty' => m_tail' = m_head') /\ m_head' \in 0 .. m_capacity'
           /\ QueueNow' = Queue!DecreaseTail(Contents(buffer, m_tail, m_capacity, UsedNow))
<1> DEFINE n == UsedNow
           item == Lessened(buffer[m_tail])
           next == IF m_tail + 1 = m_capacity THEN 0 ELSE m_tail + 1
<1>1. /\ m_capacity \in Nat \ {0} /\ m_capacity_max \in Nat /\ m_capacity <= m_capacity_max
      /\ m_tail \in 0 .. (m_capacity - 1) /\ m_head \in 0 .. (m_capacity - 1) /\ m_count_max \in Int
      /\ m_empty = FALSE
  BY DEF IndInv, TypeInv, Contained
<1>2. n \in 0 .. m_capacity /\ n # 0 /\ n = Used(m_capacity, m_tail, m_head, FALSE)
  BY <1>1, QueueIs DEF UsedNow
<1>3. IsArray(buffer, m_tail, m_capacity, n)
  BY <1>1, <1>2 DEF IsArray
<1>4. /\ m_buffer' = Written(buffer, m_tail, item)
      /\ m_tail' = IF buffer[m_tail].m_count = 1 THEN next ELSE m_tail
      /\ m_empty' = (buffer[m_tail].m_count = 1 /\ next = m_head)
      /\ m_head' = m_head /\ m_capacity' = m_capacity /\ m_capacity_max' = m_capacity_max
      /\ m_count_max' = m_count_max
  <2>1. m_buffer' = Written(buffer, m_tail, item)
    <3>1. m_buffer' = [buffer EXCEPT ![m_tail] = Lessened(buffer[m_tail])]
      BY Zenon DEF decrease_tail, Lessened
    <3> QED
      BY <3>1 DEF Written
  <2>2. m_tail' = IF buffer[m_tail].m_count = 1 THEN next ELSE m_tail
    BY DEF decrease_tail, Following
  <2>3. m_empty' = (buffer[m_tail].m_count = 1 /\ next = m_head)
    BY Zenon DEF decrease_tail, Following
  <2>4. m_head' = m_head
    BY DEF decrease_tail
  <2> QED
    BY <2>1, <2>2, <2>3, <2>4, Zenon
<1>5. /\ next \in 0 .. (m_capacity - 1) /\ next = Slot(m_tail, m_capacity, 2)
      /\ Used(m_capacity, next, m_head, next = m_head) = n - 1
  <2>1. next \in 0 .. (m_capacity - 1) /\ next = Slot(m_tail, m_capacity, 2)
    BY <1>1 DEF Slot
  <2>2. Used(m_capacity, next, m_head, next = m_head) = Used(m_capacity, m_tail, m_head, FALSE) - 1
    BY <1>1 DEF Used
  <2> QED
    BY <1>2, <2>1, <2>2
<1> HIDE DEF next
<1>6. buffer[m_tail] \in Item
  BY <1>1
<1>7. item \in Item
  <2>1. NoItem \in Item
    BY DEF NoItem, Item
  <2>2. [buffer[m_tail] EXCEPT !.m_count = @ - 1] \in Item
    BY <1>6 DEF Item
  <2> QED
    BY <2>1, <2>2 DEF Lessened
<1>8. TypeInv'
  <2> HIDE DEF item
  <2>1. m_buffer' \in [0 .. (m_capacity_max - 1) -> Item]
    BY <1>1, <1>4, <1>7 DEF Written
  <2>2. m_tail' \in 0 .. (m_capacity - 1)
    BY <1>1, <1>4, <1>5
  <2>3. m_empty' \in BOOLEAN /\ m_head' \in Nat
    BY <1>1, <1>4
  <2> QED
    BY <1>1, <1>4, <2>1, <2>2, <2>3 DEF TypeInv
<1>9. m_head' \in 0 .. m_capacity' /\ (m_empty' => m_tail' = m_head')
  <2>1. m_head' \in 0 .. m_capacity'
    BY <1>1, <1>4
  <2>2. m_empty' => m_tail' = m_head'
    BY <1>4, Zenon
  <2> QED
    BY <2>1, <2>2
<1>10. QueueNow' = Contents(m_buffer', m_tail', m_capacity, UsedNow')
  BY <1>4, <1>8, <1>9, QueueIsNext
<1>11. UsedNow' = IF buffer[m_tail].m_count = 1 THEN n - 1 ELSE n
  <2>1. UsedNow' = Used(m_capacity, m_tail', m_head, m_empty')
    BY <1>4, Zenon DEF UsedNow
  <2>2. CASE buffer[m_tail].m_count = 1
    <3>1. m_tail' = next /\ m_empty' = (next = m_head)
      BY <1>4, <2>2
    <3> QED
      BY <1>5, <2>1, <2>2, <3>1
  <2>3. CASE buffer[m_tail].m_count # 1
    <3>1. m_tail' = m_tail /\ m_empty' = FALSE
      BY <1>4, <2>3
    <3> QED
      BY <1>2, <2>1, <2>3, <3>1
  <2> QED
    BY <2>2, <2>3
<1>12. m_tail' = IF buffer[m_tail].m_count = 1 THEN Slot(m_tail, m_capacity, 2) ELSE m_tail
  BY <1>4, <1>5
<1> HIDE DEF n
<1>13. Contents(m_buffer', m_tail', m_capacity, UsedNow') = Queue!DecreaseTail(Contents(buffer, m_tail, m_capacity, n))
  <2>1. m_buffer' = Written(buffer, m_tail, item)
    BY <1>4
  <2>2. n # 0
    BY <1>2
  <2>3. DecreasedContents(buffer, m_tail, m_capacity, n) = Queue!DecreaseTail(Contents(buffer, m_tail, m_capacity, n))
    BY <1>3, <2>2, Decreased
  <2>4. DecreasedContents(buffer, m_tail, m_capacity, n) = Contents(m_buffer', m_tail', m_capacity, UsedNow')
    BY <1>11, <1>12, <2>1, Zenon DEF DecreasedContents, n
  <2> QED
    BY <2>3, <2>4, Zenon
<1> QED
  BY <1>8, <1>9, <1>10, <1>13 DEF n

-----------------------------------------------------------------------------
(* The items of a queue that are about a segment. *)
Known(q, pointer) == {i \in DOMAIN q : q[i].m_pointer = pointer}

(* get_position finds the last item of the queue that is about the segment. *)
LEMMA PositionOf ==
    ASSUME IndInv, Contained, NEW pointer
    PROVE  LET known == Known(QueueNow, pointer)
           IN  /\ known # {} => /\ Max(known) \in 1 .. UsedNow
                                /\ get_position(pointer) = Slot(m_tail, m_capacity, Max(known))
                                /\ get_position(pointer) # -1
               /\ known = {} => get_position(pointer) = -1
<1> DEFINE n == UsedNow
           known == Known(QueueNow, pointer)
           test == {i \in 1 .. Len(InUse) : m_buffer[InUse[i]].m_pointer = pointer}
<1>1. /\ m_capacity \in Nat \ {0} /\ m_tail \in 0 .. (m_capacity - 1) /\ n \in 0 .. m_capacity
      /\ InUse = Ring(m_tail, m_capacity, n)
  BY QueueIs DEF IndInv, TypeInv
<1>2. \A i \in 1 .. n : Slot(m_tail, m_capacity, i) \in 0 .. (m_capacity - 1)
  BY <1>1, SlotsDistinct
<1> HIDE DEF n
<1>3. Len(InUse) = n /\ DOMAIN InUse = 1 .. n /\ \A i \in 1 .. n : InUse[i] = Slot(m_tail, m_capacity, i)
  BY <1>1, <1>2 DEF Ring
<1>4. known = test
  BY <1>3 DEF QueueNow, Known
<1>5. get_position(pointer) =
          LET i == IF test # {} THEN Max(test) ELSE 0 IN IF i = 0 THEN -1 ELSE InUse[i]
  BY DEF get_position, SelectLastInSeq
<1>6. n \in Nat /\ \A i \in known : i \in 1 .. n
  BY <1>1, <1>3, <1>4
<1> HIDE DEF known, test
<1>7. CASE known # {}
  <2>1. known \in SUBSET (0 .. n)
    BY <1>6
  <2>2. Max(known) \in known
    BY <1>6, <1>7, <2>1, GreatestNatural
  <2>3. Max(known) \in 1 .. n /\ Max(known) # 0
    BY <1>1, <1>6, <2>2
  <2>4. get_position(pointer) = InUse[Max(known)]
    BY <1>4, <1>5, <1>7, <2>3
  <2>5. get_position(pointer) = Slot(m_tail, m_capacity, Max(known))
    BY <1>3, <2>3, <2>4
  <2>6. Slot(m_tail, m_capacity, Max(known)) \in 0 .. (m_capacity - 1)
    BY <1>2, <2>3
  <2>7. get_position(pointer) # -1
    BY <1>1, <2>5, <2>6
  <2> QED
    BY <1>7, <2>3, <2>5, <2>7 DEF n, known
<1>8. CASE known = {}
  <2>1. get_position(pointer) = -1
    BY <1>4, <1>5, <1>8
  <2> QED
    BY <1>8, <2>1 DEF known
<1> QED
  BY <1>7, <1>8

(* update of a segment that is not known, while there is room for it. *)
LEMMA InsertStep ==
    ASSUME IndInv, Contained, NEW pointer \in Pointers, PredictorAssumption, ~ full,
           insert_new_element(pointer), UNCHANGED <<m_capacity, m_capacity_max, m_count_max>>
    PROVE  /\ TypeInv' /\ (m_empty' => m_tail' = m_head') /\ UsedNow # m_capacity
           /\ QueueNow' = Append(QueueNow, [m_pointer |-> pointer, m_count |-> 1])
           /\ Recorded(QueueNow')
<1> DEFINE n == UsedNow
           item == [m_pointer |-> pointer, m_count |-> 1]
<1>1. /\ m_capacity \in Nat \ {0} /\ m_capacity_max \in Nat /\ m_capacity <= m_capacity_max
      /\ m_tail \in 0 .. (m_capacity - 1) /\ m_head \in 0 .. (m_capacity - 1) /\ m_count_max \in Int
      /\ m_buffer \in [0 .. (m_capacity_max - 1) -> Item] /\ m_empty \in BOOLEAN
      /\ (m_empty => m_tail = m_head) /\ Recorded(QueueNow)
  BY DEF IndInv, TypeInv, Contained
<1>2. /\ IsArray(m_buffer, m_tail, m_capacity, n) /\ n # m_capacity /\ n \in Nat
      /\ m_head = Slot(m_tail, m_capacity, n + 1)
      /\ QueueNow = Contents(m_buffer, m_tail, m_capacity, n)
  BY <1>1, QueueIs
<1>3. item \in Item /\ item.m_pointer = pointer
  <2>1. pointer \in Nat
    BY DEF PredictorAssumption
  <2> QED
    BY <2>1 DEF Item
<1> HIDE DEF item
<1>4. /\ m_buffer' = Written(m_buffer, m_head, item)
      /\ m_head' = IF m_head + 1 = m_capacity THEN 0 ELSE m_head + 1
      /\ m_empty' = FALSE /\ m_tail' = m_tail /\ m_capacity' = m_capacity
      /\ m_capacity_max' = m_capacity_max /\ m_count_max' = m_count_max
  <2>1. m_buffer' = Written(m_buffer, m_head, item)
    BY Zenon DEF insert_new_element, Written, item
  <2>2. m_head' = IF m_head + 1 = m_capacity THEN 0 ELSE m_head + 1
    BY Zenon DEF insert_new_element, Following
  <2>3. m_empty' = FALSE
    BY Zenon DEF insert_new_element
  <2>4. m_tail' = m_tail
    BY Zenon DEF insert_new_element
  <2> QED
    BY <2>1, <2>2, <2>3, <2>4, Zenon
<1>5. TypeInv' /\ m_head' \in 0 .. m_capacity'
  <2>1. m_buffer' \in [0 .. (m_capacity_max - 1) -> Item]
    BY <1>1, <1>3, <1>4 DEF Written
  <2>2. m_head' \in 0 .. (m_capacity - 1)
    BY <1>1, <1>4
  <2>3. m_empty' \in BOOLEAN
    BY <1>4
  <2>4. m_tail' \in 0 .. (m_capacity - 1) /\ m_head' \in Nat
    BY <1>1, <1>4, <2>2
  <2>5. m_capacity' = m_capacity /\ m_capacity_max' = m_capacity_max /\ m_count_max' = m_count_max
    BY <1>4, Zenon
  <2> QED
    BY <1>1, <2>1, <2>2, <2>3, <2>4, <2>5 DEF TypeInv
<1>6. UsedNow' = n + 1
  <2>1. ~ (~ m_empty /\ m_tail = m_head)
    BY DEF full
  <2> DEFINE head == IF m_head + 1 = m_capacity THEN 0 ELSE m_head + 1
  <2>2. UsedNow' = Used(m_capacity, m_tail, head, FALSE)
    <3>1. m_head' = head /\ m_empty' = FALSE /\ m_tail' = m_tail /\ m_capacity' = m_capacity
      BY <1>4, Zenon
    <3> QED
      BY <3>1, Zenon DEF UsedNow
  <2>3. Used(m_capacity, m_tail, head, FALSE) = Used(m_capacity, m_tail, m_head, m_empty) + 1
    <3>1. CASE m_empty
      BY <1>1, <3>1 DEF Used
    <3>2. CASE ~ m_empty
      BY <1>1, <2>1, <3>2 DEF Used
    <3> QED
      BY <3>1, <3>2
  <2> QED
    BY <2>2, <2>3, Zenon DEF UsedNow
<1>7. QueueNow' = Contents(m_buffer', m_tail, m_capacity, UsedNow')
  BY <1>4, <1>5, QueueIsNext
<1> HIDE DEF n
<1>8. AppendedContents(m_buffer, m_tail, m_capacity, n, item) = Append(Contents(m_buffer, m_tail, m_capacity, n), item)
  <2>1. IsArray(m_buffer, m_tail, m_capacity, n)
    BY <1>2
  <2>2. n # m_capacity
    BY <1>2
  <2>3. item \in Item
    BY <1>3
  <2> QED
    BY <2>1, <2>2, <2>3, Appended
<1>9. QueueNow' = Append(QueueNow, item)
  BY <1>2, <1>4, <1>6, <1>7, <1>8, Zenon DEF AppendedContents
<1>10. Recorded(QueueNow')
  <2>1. QueueNow \in Seq(Item)
    BY <1>2, ContentsIsSeq
  <2>2. Len(QueueNow) \in Nat /\ \A i \in 1 .. (Len(QueueNow) + 1) : i = Len(QueueNow) + 1 \/ i \in 1 .. Len(QueueNow)
    BY <2>1, LenProperties
  <2>3. /\ Len(Append(QueueNow, item)) = Len(QueueNow) + 1
        /\ \A i \in 1 .. Len(QueueNow) : Append(QueueNow, item)[i] = QueueNow[i]
        /\ Append(QueueNow, item)[Len(QueueNow) + 1] = item
    BY <1>3, <2>1, AppendProperties
  <2>4. Recorded(Append(QueueNow, item))
    BY <1>1, <1>3, <2>2, <2>3 DEF Recorded
  <2> QED
    BY <1>9, <2>4, Zenon
<1> QED
  BY <1>2, <1>4, <1>5, <1>9, <1>10 DEF n, item

(* move_ahead, from the position of the i-th item. *)
LEMMA MoveAheadStep ==
    ASSUME IndInv, Contained, NEW i \in 1 .. UsedNow
    PROVE  LET moved == move_ahead(Slot(m_tail, m_capacity, i))
               at == IF i = UsedNow THEN i ELSE i + 1
           IN  /\ moved.buffer \in [0 .. (m_capacity_max - 1) -> Item]
               /\ IsArray(moved.buffer, m_tail, m_capacity, UsedNow)
               /\ Contents(moved.buffer, m_tail, m_capacity, UsedNow) = Queue!MoveAhead(QueueNow, i)
               /\ moved.position = Slot(m_tail, m_capacity, at)
               /\ at \in 1 .. UsedNow
<1> DEFINE n == UsedNow
           position == Slot(m_tail, m_capacity, i)
           front == IF m_head = 0 THEN m_capacity - 1 ELSE m_head - 1
           moved == move_ahead(position)
<1>1. /\ m_capacity \in Nat \ {0} /\ m_capacity_max \in Nat /\ m_capacity <= m_capacity_max
      /\ m_tail \in 0 .. (m_capacity - 1)
      /\ m_buffer \in [0 .. (m_capacity_max - 1) -> Item]
  BY DEF IndInv, TypeInv, Contained
<1>2. /\ IsArray(m_buffer, m_tail, m_capacity, n) /\ n \in 0 .. m_capacity /\ n # 0
      /\ Slot(m_tail, m_capacity, n) = front
      /\ QueueNow = Contents(m_buffer, m_tail, m_capacity, n)
  BY QueueIs
<1>3. Len(QueueNow) = n
  BY <1>2, ContentsIsSeq
<1> HIDE DEF n, front
<1>4. position = front <=> i = n
  <2>1. i \in 1 .. m_capacity /\ n \in 1 .. m_capacity
    BY <1>1, <1>2 DEF n
  <2>2. Slot(m_tail, m_capacity, i) = Slot(m_tail, m_capacity, n) => i = n
    BY <1>1, <2>1, SlotsDistinct
  <2> QED
    BY <1>2, <2>2
<1>5. CASE i = n
  <2>1. moved = [buffer |-> m_buffer, position |-> position]
    BY <1>4, <1>5 DEF move_ahead, front
  <2>2. moved.buffer = m_buffer /\ moved.position = position
    BY <2>1
  <2>3. Queue!MoveAhead(QueueNow, i) = QueueNow
    BY <1>3, <1>5 DEF Queue!MoveAhead
  <2> HIDE DEF moved
  <2> QED
    BY <1>1, <1>2, <1>5, <2>2, <2>3, Zenon DEF moved, n
<1>6. CASE i # n
  <2> DEFINE k == i + 1
             next == Slot(m_tail, m_capacity, k)
             ahead == [m_buffer EXCEPT ![position] = m_buffer[next], ![next] = m_buffer[position]]
  <2>1. i \in 1 .. n /\ k \in 1 .. n /\ i < k /\ k <= i + 1 /\ i \in 1 .. m_capacity
    <3>1. n \in Nat /\ m_capacity \in Nat /\ n <= m_capacity
      BY <1>1, <1>2
    <3>2. i \in 1 .. n
      BY DEF n
    <3> QED
      BY <1>6, <3>1, <3>2
  <2>2. Following(position) = next
    BY <1>1, <2>1, NextSlot DEF Following
  <2>3. moved = [buffer |-> ahead, position |-> next]
    BY <1>4, <1>6, <2>2 DEF move_ahead, front
  <2>4. moved.buffer = ahead /\ moved.position = next
    BY <2>3
  <2>5. position \in 0 .. (m_capacity_max - 1) /\ next \in 0 .. (m_capacity_max - 1)
    BY <1>1, <1>2, <2>1 DEF Slot
  <2> HIDE DEF k, moved
  <2>6. IsArray(ahead, m_tail, m_capacity, n)
    BY <1>2, <2>1, MovedAhead
  <2>7. Contents(ahead, m_tail, m_capacity, n) = Queue!MoveAhead(Contents(m_buffer, m_tail, m_capacity, n), i)
    BY <1>2, <2>1, MovedAhead
  <2> HIDE DEF position, next
  <2>8. ahead \in [0 .. (m_capacity_max - 1) -> Item]
    BY <1>1, <2>5
  <2> HIDE DEF ahead
  <2> QED
    BY <1>2, <1>6, <2>1, <2>4, <2>6, <2>7, <2>8, Zenon DEF moved, n, k, position, next
<1> QED
  BY <1>5, <1>6

(* An item, of a buffer or of a queue, counts one more. *)
Grown(items_, at) == [items_ EXCEPT ![at].m_count = @ + 1]

(* update of a segment that is known, when its count may grow. *)
LEMMA IncrementStep ==
    ASSUME IndInv, Contained, NEW i \in 1 .. UsedNow, NEW moved,
           moved = move_ahead(Slot(m_tail, m_capacity, i)),
           m_buffer' = Grown(moved.buffer, moved.position),
           UNCHANGED <<m_tail, m_head, m_empty, m_capacity, m_capacity_max, m_count_max>>
    PROVE  LET at == IF i = Len(QueueNow) THEN i ELSE i + 1
           IN  /\ TypeInv'
               /\ QueueNow' = Grown(Queue!MoveAhead(QueueNow, i), at)
               /\ Recorded(QueueNow')
<1> DEFINE n == UsedNow
           at == IF i = n THEN i ELSE i + 1
           buffer == moved.buffer
           ahead == Queue!MoveAhead(QueueNow, i)
           item == [buffer[moved.position] EXCEPT !.m_count = @ + 1]
<1>1. /\ m_capacity \in Nat \ {0} /\ m_capacity_max \in Nat /\ m_capacity <= m_capacity_max
      /\ m_tail \in 0 .. (m_capacity - 1) /\ m_head \in 0 .. (m_capacity - 1)
      /\ m_count_max \in Int /\ m_empty \in BOOLEAN /\ Recorded(QueueNow)
  BY DEF IndInv, TypeInv, Contained
<1>2. n \in 0 .. m_capacity /\ QueueNow \in Seq(Item) /\ Len(QueueNow) = n
  BY QueueIs, ContentsIsSeq
<1>3. /\ buffer \in [0 .. (m_capacity_max - 1) -> Item]
      /\ IsArray(buffer, m_tail, m_capacity, n)
      /\ Contents(buffer, m_tail, m_capacity, n) = ahead
      /\ moved.position = Slot(m_tail, m_capacity, at)
      /\ at \in 1 .. n
  BY MoveAheadStep
<1>4. ahead \in Seq(Item) /\ Len(ahead) = n /\ Recorded(ahead)
  BY <1>1, <1>2, MoveAheadRecorded
<1> HIDE DEF n, at, buffer
<1>5. moved.position \in 0 .. (m_capacity_max - 1)
  <2>1. at \in 1 .. n /\ n \in 0 .. m_capacity
    BY <1>2, <1>3
  <2>2. Slot(m_tail, m_capacity, at) \in 0 .. (m_capacity_max - 1)
    BY <1>1, <2>1 DEF Slot
  <2> QED
    BY <1>3, <2>2, Zenon
<1>6. buffer[moved.position] \in Item /\ ahead[at] = buffer[moved.position]
  <2>1. buffer[moved.position] \in Item
    BY <1>3, <1>5
  <2>2. Contents(buffer, m_tail, m_capacity, n)[at] = buffer[Slot(m_tail, m_capacity, at)]
    <3>1. IsArray(buffer, m_tail, m_capacity, n)
      BY <1>3
    <3>2. at \in 1 .. n
      BY <1>3
    <3> QED
      BY <3>1, <3>2, ContentsIsSeq
  <2> QED
    BY <1>3, <2>1, <2>2, Zenon
<1>7. item \in Item /\ item.m_pointer = ahead[at].m_pointer
  BY <1>6 DEF Item
<1>8. m_buffer' = Written(buffer, moved.position, item)
  BY <1>3, <1>5, <1>6 DEF Written, Grown, buffer
<1>9. Grown(ahead, at) = [ahead EXCEPT ![at] = item]
  <2> HIDE DEF ahead
  <2> QED
    BY <1>3, <1>4, <1>6 DEF Grown
<1> HIDE DEF item, ahead
<1>10. Contents(Written(buffer, Slot(m_tail, m_capacity, at), item), m_tail, m_capacity, n)
       = [Contents(buffer, m_tail, m_capacity, n) EXCEPT ![at] = item]
  <2>1. IsArray(buffer, m_tail, m_capacity, n)
    BY <1>3
  <2>2. at \in 1 .. n
    BY <1>3
  <2>3. item \in Item
    BY <1>7
  <2> QED
    BY <2>1, <2>2, <2>3, Replaced
<1>11. TypeInv' /\ m_head' \in 0 .. m_capacity'
  <2>1. m_buffer' \in [0 .. (m_capacity_max - 1) -> Item]
    BY <1>3, <1>5, <1>7, <1>8 DEF Written
  <2> QED
    BY <1>1, <2>1 DEF TypeInv
<1>12. QueueNow' = Contents(m_buffer', m_tail, m_capacity, n)
  <2>1. UsedNow' = n
    BY Zenon DEF UsedNow, n
  <2>2. QueueNow' = Contents(m_buffer', m_tail', m_capacity', UsedNow')
    BY <1>11, QueueIsNext
  <2>3. m_tail' = m_tail /\ m_capacity' = m_capacity
    OBVIOUS
  <2> QED
    BY <2>1, <2>2, <2>3, Zenon
<1>13. QueueNow' = [ahead EXCEPT ![at] = item]
  BY <1>3, <1>8, <1>10, <1>12, Zenon
<1>14. Recorded([ahead EXCEPT ![at] = item])
  <2>1. /\ Len([ahead EXCEPT ![at] = item]) = n
        /\ \A j \in 1 .. n : [ahead EXCEPT ![at] = item][j] = IF j = at THEN item ELSE ahead[j]
    BY <1>3, <1>4, <1>7, ExceptSeq
  <2> QED
    BY <1>3, <1>4, <1>7, <2>1 DEF Recorded
<1> QED
  BY <1>2, <1>9, <1>11, <1>13, <1>14, Zenon DEF n, at, ahead

(* The queue after update, with the definitions of this module. *)
LEMMA UpdatedIs ==
    ASSUME NEW q, NEW limit, NEW max, NEW pointer
    PROVE  LET i == Max(Known(q, pointer))
               at == IF i = Len(q) THEN i ELSE i + 1
               ahead == Queue!MoveAhead(q, i)
           IN  Queue!Updated(q, limit, max, pointer) =
               IF Known(q, pointer) = {}
               THEN IF Len(q) = limit THEN Queue!DecreaseTail(q)
                    ELSE Append(q, [m_pointer |-> pointer, m_count |-> 1])
               ELSE IF q[i].m_count < max THEN Grown(ahead, at)
               ELSE Queue!DecreaseTail(ahead)
<1>1. Queue!Max(Known(q, pointer)) = Max(Known(q, pointer))
  BY Zenon DEF Max, Queue!Max
<1> QED
  BY <1>1, Zenon DEF Queue!Updated, Known, Grown

(* update does to the buffer what the abstract predictor does to the queue. *)
LEMMA UpdateStep ==
    ASSUME PredictorAssumption, IndInv, Contained, NEW pointer \in Pointers, update(pointer)
    PROVE  /\ TypeInv' /\ (m_empty' => m_tail' = m_head') /\ Recorded(QueueNow')
           /\ QueueNow' = Queue!Updated(QueueNow, m_capacity, m_count_max, pointer)
<1> DEFINE n == UsedNow
           known == Known(QueueNow, pointer)
           i == Max(known)
           position == get_position(pointer)
           moved == move_ahead(position)
           result == Queue!Updated(QueueNow, m_capacity, m_count_max, pointer)
<1>1. /\ IsArray(m_buffer, m_tail, m_capacity, n)
      /\ QueueNow = Contents(m_buffer, m_tail, m_capacity, n)
      /\ n \in 0 .. m_capacity /\ (n = 0 <=> m_empty) /\ (n = m_capacity <=> full)
  BY QueueIs
<1>2. QueueNow \in Seq(Item) /\ Len(QueueNow) = n /\ Recorded(QueueNow)
  BY <1>1, ContentsIsSeq DEF IndInv
<1>3. /\ m_buffer \in [0 .. (m_capacity_max - 1) -> Item] /\ m_capacity \in Nat \ {0}
      /\ m_empty \in BOOLEAN /\ (m_empty => m_tail = m_head)
  BY DEF IndInv, TypeInv
<1>4. UNCHANGED <<m_capacity, m_capacity_max, m_count_max>>
  BY DEF update
<1> DEFINE at == IF i = Len(QueueNow) THEN i ELSE i + 1
           ahead == Queue!MoveAhead(QueueNow, i)
           grown == Grown(ahead, at)
           longer == Append(QueueNow, [m_pointer |-> pointer, m_count |-> 1])
<1>5. result = IF known = {} THEN IF Len(QueueNow) = m_capacity THEN Queue!DecreaseTail(QueueNow) ELSE longer
               ELSE IF QueueNow[i].m_count < m_count_max THEN grown ELSE Queue!DecreaseTail(ahead)
  BY UpdatedIs, Zenon
<1>6. CASE known = {}
  <2>1. position = -1
    BY <1>6, PositionOf
  <2>2. CASE full
    <3>1. decrease_tail(m_buffer)
      BY <2>1, <2>2 DEF update
    <3>2. ~ m_empty
      BY <2>2 DEF full
    <3>3. QueueNow' = Queue!DecreaseTail(QueueNow)
      <4>1. QueueNow' = Queue!DecreaseTail(Contents(m_buffer, m_tail, m_capacity, n))
        BY <1>3, <1>4, <3>1, <3>2, DecreaseTailStep
      <4> QED
        BY <1>1, <4>1, Zenon
    <3>4. TypeInv' /\ (m_empty' => m_tail' = m_head')
      BY <1>3, <1>4, <3>1, <3>2, DecreaseTailStep
    <3>5. QueueNow # <<>>
      BY <1>1, <1>2, <3>2, EmptySeq
    <3>6. Recorded(Queue!DecreaseTail(QueueNow))
      BY <1>2, <3>5, DecreaseTailRecorded
    <3>7. result = Queue!DecreaseTail(QueueNow)
      <4> HIDE DEF known, longer, grown, ahead, result
      <4> QED
        BY <1>1, <1>2, <1>6, <1>5, <2>2
    <3> QED
      BY <3>3, <3>4, <3>6, <3>7, Zenon
  <2>3. CASE ~ full
    <3>1. insert_new_element(pointer)
      BY <2>1, <2>3 DEF update
    <3>2. QueueNow' = Append(QueueNow, [m_pointer |-> pointer, m_count |-> 1])
      BY <1>4, <2>3, <3>1, InsertStep
    <3>3. TypeInv' /\ (m_empty' => m_tail' = m_head') /\ Recorded(QueueNow')
      BY <1>4, <2>3, <3>1, InsertStep
    <3>4. result = Append(QueueNow, [m_pointer |-> pointer, m_count |-> 1])
      <4> HIDE DEF known, longer, grown, ahead, result
      <4>1. result = longer
        BY <1>1, <1>2, <1>6, <1>5, <2>3
      <4> QED
        BY <4>1 DEF longer
    <3> QED
      BY <3>2, <3>3, <3>4, Zenon
  <2> QED
    BY <2>2, <2>3
<1>7. CASE known # {}
  <2>1. i \in 1 .. n /\ position = Slot(m_tail, m_capacity, i) /\ position # -1
    BY <1>7, PositionOf
  <2>2. /\ moved = move_ahead(Slot(m_tail, m_capacity, i))
        /\ moved.buffer \in [0 .. (m_capacity_max - 1) -> Item]
        /\ IsArray(moved.buffer, m_tail, m_capacity, n)
        /\ Contents(moved.buffer, m_tail, m_capacity, n) = ahead
        /\ moved.position = Slot(m_tail, m_capacity, at)
        /\ at \in 1 .. n
    <3> HIDE DEF known, i
    <3> QED
      BY <1>2, <2>1, MoveAheadStep
  <2>3. ahead \in Seq(Item) /\ Len(ahead) = n /\ Recorded(ahead) /\ ahead[at] = QueueNow[i]
    BY <1>2, <2>1, MoveAheadRecorded
  <2>4. moved.buffer[moved.position] = QueueNow[i]
    <3>1. Contents(moved.buffer, m_tail, m_capacity, n)[at] = moved.buffer[Slot(m_tail, m_capacity, at)]
      <4> HIDE DEF moved, n, at
      <4>1. IsArray(moved.buffer, m_tail, m_capacity, n)
        BY <2>2
      <4>2. at \in 1 .. n
        BY <2>2
      <4> QED
        BY <4>1, <4>2, ContentsIsSeq
    <3> QED
      BY <2>2, <2>3, <3>1, Zenon
  <2>5. CASE QueueNow[i].m_count < m_count_max
    <3>1. /\ m_buffer' = Grown(moved.buffer, moved.position)
          /\ UNCHANGED <<m_tail, m_head, m_empty>>
      BY <2>1, <2>4, <2>5 DEF update, Grown
    <3>2. result = Grown(ahead, at)
      <4> HIDE DEF known, longer, grown, ahead, result, i
      <4>1. result = grown
        BY <1>7, <1>5, <2>5
      <4> QED
        BY <4>1 DEF grown
    <3> HIDE DEF moved, known, i
    <3>3. UNCHANGED <<m_tail, m_head, m_empty, m_capacity, m_capacity_max, m_count_max>>
      BY <1>4, <3>1
    <3>4. TypeInv' /\ QueueNow' = Grown(ahead, at) /\ Recorded(QueueNow')
      <4>1. moved = move_ahead(Slot(m_tail, m_capacity, i))
        BY <2>2
      <4>2. m_buffer' = Grown(moved.buffer, moved.position)
        BY <3>1
      <4> QED
        BY <2>1, <3>3, <4>1, <4>2, IncrementStep
    <3>5. m_empty' => m_tail' = m_head'
      BY <1>3, <3>1
    <3> QED
      BY <3>2, <3>4, <3>5, Zenon
  <2>6. CASE ~ (QueueNow[i].m_count < m_count_max)
    <3>1. decrease_tail(moved.buffer)
      BY <2>1, <2>4, <2>6 DEF update
    <3>2. ~ m_empty
      BY <1>1, <2>1
    <3>3. result = Queue!DecreaseTail(ahead)
      <4> HIDE DEF known, longer, grown, ahead, result, i
      <4> QED
        BY <1>7, <1>5, <2>6
    <3> HIDE DEF moved, known, i
    <3>4. QueueNow' = Queue!DecreaseTail(ahead)
      <4>1. QueueNow' = Queue!DecreaseTail(Contents(moved.buffer, m_tail, m_capacity, n))
        BY <1>4, <2>2, <3>1, <3>2, DecreaseTailStep
      <4> QED
        BY <2>2, <4>1, Zenon
    <3>5. TypeInv' /\ (m_empty' => m_tail' = m_head')
      BY <1>4, <2>2, <3>1, <3>2, DecreaseTailStep
    <3>6. ahead # <<>>
      BY <1>1, <2>1, <2>3, EmptySeq
    <3>7. Recorded(Queue!DecreaseTail(ahead))
      BY <2>3, <3>6, DecreaseTailRecorded
    <3> QED
      BY <3>3, <3>4, <3>5, <3>7, Zenon
  <2> QED
    BY <2>5, <2>6
<1> QED
  BY <1>6, <1>7

-----------------------------------------------------------------------------
(* A resize keeps the queue when it keeps the number of items and each of them. *)
LEMMA SameQueue ==
    ASSUME IndInv, Contained, TypeInv', m_head' \in 0 .. m_capacity', UsedNow' = UsedNow,
           \A i \in 1 .. UsedNow : m_buffer'[Slot(m_tail', m_capacity', i)] = m_buffer[Slot(m_tail, m_capacity, i)]
    PROVE  QueueNow' = QueueNow
<1>1. QueueNow' = Contents(m_buffer', m_tail', m_capacity', UsedNow)
  <2>1. QueueNow' = Contents(m_buffer', m_tail', m_capacity', UsedNow')
    BY QueueIsNext
  <2> QED
    BY <2>1, Zenon
<1>2. QueueNow = Contents(m_buffer, m_tail, m_capacity, UsedNow)
  BY QueueIs
<1>3. Contents(m_buffer', m_tail', m_capacity', UsedNow) = Contents(m_buffer, m_tail, m_capacity, UsedNow)
  BY DEF Contents
<1> QED
  BY <1>1, <1>2, <1>3, Zenon

(* resize_with_new_buffer. *)
LEMMA NewBufferStep ==
    ASSUME PredictorAssumption, IndInv, Contained, Contained', NEW sz \in Sizes, ~ m_empty, m_empty' = m_empty,
           m_capacity' = sz, m_count_max' = m_count_max, resize_with_new_buffer(sz)
    PROVE  TypeInv' /\ QueueNow' = QueueNow
<1> DEFINE n == UsedNow
           max == hyperceil(sz)
<1>1. /\ m_capacity \in Nat \ {0} /\ m_tail \in 0 .. (m_capacity - 1) /\ m_count_max \in Int
      /\ m_empty = FALSE
  BY DEF IndInv, TypeInv
<1>2. sz \in Nat \ {0} /\ max \in Nat /\ max >= sz
  BY DEF PredictorAssumption
<1>3. /\ IsArray(m_buffer, m_tail, m_capacity, n) /\ n \in Nat \ {0}
      /\ InUse = Ring(m_tail, m_capacity, n)
  BY <1>1, QueueIs
<1>4. \A i \in 1 .. n : m_buffer[Slot(m_tail, m_capacity, i)] \in Item
  BY <1>3, ContentsIsSeq
<1> HIDE DEF n, max
<1>5. Len(InUse) = n /\ \A i \in 1 .. n : InUse[i] = Slot(m_tail, m_capacity, i)
  <2>1. \A i \in 1 .. n : Slot(m_tail, m_capacity, i) \in Int
    BY <1>1, <1>3 DEF Slot
  <2> QED
    BY <1>3, <2>1 DEF Ring
<1>6. /\ m_buffer' = [j \in 0 .. (max - 1) |-> IF j < n THEN m_buffer[InUse[j + 1]] ELSE NoItem]
      /\ m_capacity_max' = max /\ m_tail' = 0 /\ m_head' = n
  BY <1>5 DEF resize_with_new_buffer, max
<1>7. n < sz
  BY <1>6 DEF Contained
<1>8. \A j \in 0 .. (max - 1) : j < n => j + 1 \in 1 .. n /\ m_buffer[InUse[j + 1]] = m_buffer[Slot(m_tail, m_capacity, j + 1)]
  BY <1>2, <1>3, <1>5
<1>9. NoItem \in Item
  BY DEF NoItem, Item
<1>10. TypeInv'
  <2>1. m_buffer' \in [0 .. (max - 1) -> Item]
    <3>1. \A j \in 0 .. (max - 1) : j < n => m_buffer[InUse[j + 1]] \in Item
      BY <1>4, <1>8
    <3> QED
      BY <1>6, <1>9, <3>1
  <2>2. m_empty' \in BOOLEAN
    BY <1>1
  <2>3. m_tail' \in 0 .. (sz - 1) /\ m_head' \in Nat
    BY <1>2, <1>3, <1>6
  <2>4. m_capacity_max' = max
    BY <1>6
  <2> QED
    BY <1>1, <1>2, <2>1, <2>2, <2>3, <2>4 DEF TypeInv
<1>11. UsedNow' = n
  <2>1. UsedNow' = Used(sz, 0, n, FALSE)
    BY <1>1, <1>6, Zenon DEF UsedNow
  <2>2. Used(sz, 0, n, FALSE) = n
    BY <1>3 DEF Used
  <2> QED
    BY <2>1, <2>2
<1>12. ASSUME NEW i \in 1 .. n
       PROVE  m_buffer'[Slot(m_tail', m_capacity', i)] = m_buffer[Slot(m_tail, m_capacity, i)]
  <2>1. i - 1 \in 0 .. (max - 1) /\ i - 1 < n /\ (i - 1) + 1 = i
    BY <1>2, <1>3, <1>7
  <2>2. Slot(m_tail', m_capacity', i) = i - 1
    BY <1>2, <1>3, <1>6, <1>7 DEF Slot
  <2>3. m_buffer'[i - 1] = m_buffer[InUse[i]]
    BY <1>6, <2>1
  <2> QED
    BY <1>5, <2>2, <2>3
<1>13. m_head' \in 0 .. m_capacity'
  BY <1>2, <1>3, <1>6, <1>7
<1> QED
  BY <1>10, <1>11, <1>12, <1>13, SameQueue DEF n

(* resize in place of items that do not wrap around, or that end with the array. *)
LEMMA StraightStep ==
    ASSUME PredictorAssumption, IndInv, Contained, Contained', NEW sz \in Sizes, ~ m_empty, m_empty' = m_empty,
           m_capacity' = sz, m_count_max' = m_count_max, m_capacity < sz, sz <= m_capacity_max,
           UNCHANGED <<m_buffer, m_capacity_max, m_tail>>,
           \/ m_tail < m_head /\ m_head' = m_head
           \/ ~ (m_tail < m_head) /\ m_head = 0 /\ m_head' = m_capacity
    PROVE  TypeInv' /\ QueueNow' = QueueNow
<1>1. /\ m_capacity \in Nat \ {0} /\ m_capacity_max \in Nat /\ m_tail \in 0 .. (m_capacity - 1)
      /\ m_head \in 0 .. (m_capacity - 1) /\ m_count_max \in Int /\ m_empty = FALSE
      /\ m_buffer \in [0 .. (m_capacity_max - 1) -> Item]
  BY DEF IndInv, TypeInv, Contained
<1>2. sz \in Nat \ {0}
  BY DEF PredictorAssumption
<1>3. TypeInv'
  <2>1. m_empty' \in BOOLEAN
    BY <1>1
  <2>2. m_tail' \in 0 .. (sz - 1) /\ m_head' \in Nat
    BY <1>1, <1>2
  <2> QED
    BY <1>1, <1>2, <2>1, <2>2 DEF TypeInv
<1>4. UsedNow' = Used(sz, m_tail, m_head', FALSE) /\ UsedNow = Used(m_capacity, m_tail, m_head, FALSE)
  BY <1>1, Zenon DEF UsedNow
<1>5. UsedNow' = UsedNow /\ m_tail + UsedNow <= m_capacity /\ UsedNow \in Nat
  BY <1>1, <1>2, <1>4 DEF Used
<1>6. \A i \in 1 .. UsedNow : Slot(m_tail', m_capacity', i) = Slot(m_tail, m_capacity, i)
  BY <1>1, <1>2, <1>5 DEF Slot
<1>7. \A i \in 1 .. UsedNow : m_buffer'[Slot(m_tail', m_capacity', i)] = m_buffer[Slot(m_tail, m_capacity, i)]
  BY <1>6, Zenon
<1>8. m_head' \in 0 .. m_capacity'
  BY <1>1, <1>2
<1> QED
  BY <1>3, <1>5, <1>7, <1>8, SameQueue

(* The end of the array that is extended, and the head that wraps around at it. *)
LEMMA MinOfTwo ==
    ASSUME NEW a \in Int, NEW b \in Int
    PROVE  Min({a, b}) = IF a <= b THEN a ELSE b
<1> DEFINE m == IF a <= b THEN a ELSE b
<1>1. m \in {a, b} /\ \A y \in {a, b} : m <= y
  OBVIOUS
<1>2. \A x \in {a, b} : (\A y \in {a, b} : x <= y) => x = m
  OBVIOUS
<1> QED
  BY <1>1, <1>2 DEF Min

(* The end of a copy, wrapped around. *)
LEMMA Wrapped ==
    ASSUME NEW sz \in Nat \ {0}, NEW end \in 0 .. sz
    PROVE  end % sz = IF end = sz THEN 0 ELSE end
<1>1. CASE end < sz
  BY <1>1
<1>2. CASE end = sz
  BY <1>2
<1> QED
  BY <1>1, <1>2

(* The buffer after the items at the start of the array went behind its former end. *)
LEMMA UnwrappedStep ==
    ASSUME PredictorAssumption, IndInv, Contained, Contained', NEW sz \in Sizes, ~ m_empty, m_empty' = m_empty,
           m_capacity' = sz, m_count_max' = m_count_max, m_capacity < sz, sz <= m_capacity_max,
           m_capacity_max' = m_capacity_max, ~ (m_tail < m_head), m_head # 0, Unwrapped(sz)
    PROVE  TypeInv' /\ QueueNow' = QueueNow
<1> DEFINE n == UsedNow
           end == Min({sz, m_capacity + m_head})
           copied == end - m_capacity
           leftover == m_head - copied
           source(j) == IF j >= m_capacity /\ j < end THEN m_buffer[j - m_capacity]
                        ELSE IF j < leftover THEN m_buffer[copied + j]
                        ELSE IF j < m_head THEN NoItem ELSE m_buffer[j]
<1>1. /\ m_capacity \in Nat \ {0} /\ m_capacity_max \in Nat /\ m_tail \in 0 .. (m_capacity - 1)
      /\ m_head \in 1 .. m_tail /\ m_count_max \in Int /\ m_empty = FALSE
      /\ m_buffer \in [0 .. (m_capacity_max - 1) -> Item]
  BY DEF IndInv, TypeInv, Contained
<1>2. sz \in Nat \ {0}
  BY DEF PredictorAssumption
<1>3. end = IF sz <= m_capacity + m_head THEN sz ELSE m_capacity + m_head
  BY <1>1, <1>2, MinOfTwo
<1>4. /\ m_buffer' = [j \in 0 .. (m_capacity_max - 1) |-> source(j)]
      /\ m_head' = IF leftover = 0 THEN end % sz ELSE leftover
      /\ m_tail' = m_tail
  BY <1>1 DEF Unwrapped
<1> HIDE DEF end
<1>5. end \in 0 .. sz /\ end > m_capacity /\ copied \in 1 .. m_head /\ leftover \in 0 .. (m_head - 1)
  BY <1>1, <1>2, <1>3
<1>6. m_head' = IF leftover = 0 THEN IF end = sz THEN 0 ELSE end ELSE leftover
  <2>1. end % sz = IF end = sz THEN 0 ELSE end
    BY <1>2, <1>5, Wrapped
  <2> QED
    BY <1>4, <2>1
<1>7. \A j \in 0 .. (m_capacity_max - 1) : source(j) \in Item
  <2>1. NoItem \in Item
    BY DEF NoItem, Item
  <2> TAKE j \in 0 .. (m_capacity_max - 1)
  <2>2. m_buffer[j] \in Item
    BY <1>1
  <2>3. CASE j >= m_capacity /\ j < end
    <3>1. j - m_capacity \in 0 .. (m_capacity_max - 1)
      BY <1>1, <2>3
    <3>2. source(j) = m_buffer[j - m_capacity]
      BY <2>3
    <3> QED
      BY <1>1, <3>1, <3>2
  <2>4. CASE ~ (j >= m_capacity /\ j < end) /\ j < leftover
    <3>1. copied + j \in 0 .. (m_capacity_max - 1)
      BY <1>1, <1>2, <1>5, <2>4
    <3>2. source(j) = m_buffer[copied + j]
      BY <2>4
    <3> QED
      BY <1>1, <3>1, <3>2
  <2>5. CASE ~ (j >= m_capacity /\ j < end) /\ ~ (j < leftover)
    BY <2>1, <2>2, <2>5
  <2> QED
    BY <2>3, <2>4, <2>5
<1>8. TypeInv'
  <2>1. m_buffer' \in [0 .. (m_capacity_max - 1) -> Item]
    <3> HIDE DEF source
    <3> QED
      BY <1>4, <1>7
  <2>2. m_empty' \in BOOLEAN
    BY <1>1
  <2>3. m_tail' \in 0 .. (sz - 1) /\ m_head' \in Nat
    BY <1>1, <1>2, <1>4, <1>5, <1>6
  <2> QED
    BY <1>1, <1>2, <2>1, <2>2, <2>3 DEF TypeInv
<1>9. UsedNow' = Used(sz, m_tail, m_head', FALSE) /\ n = Used(m_capacity, m_tail, m_head, FALSE)
  <2>1. m_tail' = m_tail
    BY <1>4
  <2> QED
    BY <1>1, <2>1, Zenon DEF UsedNow
<1> HIDE DEF n
<1>10. n = m_capacity - m_tail + m_head
  BY <1>1, <1>9 DEF Used
<1>11. UsedNow' = n
  BY <1>1, <1>2, <1>3, <1>5, <1>6, <1>9, <1>10 DEF Used
<1>12. ASSUME NEW i \in 1 .. n
       PROVE  m_buffer'[Slot(m_tail', m_capacity', i)] = m_buffer[Slot(m_tail, m_capacity, i)]
  <2> DEFINE j == Slot(m_tail, sz, i)
             old == Slot(m_tail, m_capacity, i)
  <2> SUFFICES m_buffer'[j] = m_buffer[old]
    BY <1>4, Zenon
  <2>1. j \in 0 .. (m_capacity_max - 1)
    BY <1>1, <1>2, <1>10 DEF Slot
  <2>2. m_buffer'[j] = source(j)
    <3> HIDE DEF source, j
    <3> QED
      BY <1>4, <2>1
  <2>3. CASE m_tail + i <= m_capacity
    <3>1. j = m_tail + i - 1 /\ old = j /\ j < m_capacity /\ j >= m_head /\ j >= leftover
      BY <1>1, <1>2, <1>5, <2>3 DEF Slot
    <3> HIDE DEF j, old
    <3>2. source(j) = m_buffer[j]
      BY <1>1, <1>5, <2>1, <3>1
    <3> QED
      BY <2>2, <3>1, <3>2
  <2>4. CASE ~ (m_tail + i <= m_capacity) /\ m_tail + i <= sz
    <3>1. j = m_tail + i - 1 /\ old = j - m_capacity /\ j >= m_capacity /\ j < end
      BY <1>1, <1>2, <1>3, <1>10, <2>4 DEF Slot
    <3> HIDE DEF j, old
    <3>2. source(j) = m_buffer[old]
      BY <3>1
    <3> QED
      BY <2>2, <3>2
  <2>5. CASE ~ (m_tail + i <= sz)
    <3>1. end = sz
      BY <1>1, <1>2, <1>3, <1>10, <2>5
    <3>2. j = m_tail + i - 1 - sz /\ old = copied + j /\ j < m_capacity /\ j < leftover
      BY <1>1, <1>2, <1>10, <2>5, <3>1 DEF Slot
    <3> HIDE DEF j, old
    <3>3. source(j) = m_buffer[old]
      BY <1>1, <2>1, <3>2
    <3> QED
      BY <2>2, <3>3
  <2> QED
    BY <1>1, <1>2, <1>10, <2>3, <2>4, <2>5
<1>13. m_head' \in 0 .. m_capacity'
  BY <1>1, <1>2, <1>5, <1>6
<1> QED
  BY <1>8, <1>11, <1>12, <1>13, SameQueue DEF n

(* resize keeps the queue. *)
LEMMA ResizeStep ==
    ASSUME PredictorAssumption, IndInv, Contained, Contained', NEW sz \in Sizes, resize(sz)
    PROVE  /\ TypeInv' /\ (m_empty' => m_tail' = m_head')
           /\ QueueNow' = QueueNow /\ m_count_max' = m_count_max
           /\ m_capacity' = m_capacity \/ (m_capacity' = sz /\ sz >= Len(QueueNow))
<1>1. /\ m_capacity \in Nat \ {0} /\ m_capacity_max \in Nat /\ m_tail \in 0 .. (m_capacity - 1)
      /\ m_head \in Nat /\ m_count_max \in Int /\ m_empty \in BOOLEAN /\ (m_empty => m_tail = m_head)
      /\ m_buffer \in [0 .. (m_capacity_max - 1) -> Item]
  BY DEF IndInv, TypeInv
<1>2. UsedNow \in Nat /\ Len(QueueNow) = UsedNow /\ size_ = UsedNow
  <2>1. UsedNow \in Nat /\ QueueNow = Contents(m_buffer, m_tail, m_capacity, UsedNow)
    BY <1>1, QueueIs
  <2>2. Len(Contents(m_buffer, m_tail, m_capacity, UsedNow)) = UsedNow
    BY QueueIs, ContentsIsSeq
  <2>3. size_ = UsedNow
    BY Zenon DEF size_, UsedNow, Used
  <2> QED
    BY <2>1, <2>2, <2>3, Zenon
<1>3. sz \in Nat \ {0}
  BY DEF PredictorAssumption
<1>4. m_empty' = m_empty /\ m_count_max' = m_count_max
  BY DEF resize
<1>5. CASE sz = m_capacity \/ sz < size_
  <2>1. UNCHANGED <<m_buffer, m_capacity, m_capacity_max, m_tail, m_head>>
    BY <1>5 DEF resize
  <2>2. TypeInv'
    BY <1>4, <2>1 DEF IndInv, TypeInv
  <2>3. QueueNow' = QueueNow
    BY <1>4, <2>1, Zenon DEF QueueNow, InUse
  <2> QED
    BY <1>1, <1>4, <2>1, <2>2, <2>3, Zenon
<1>6. CASE ~ (sz = m_capacity \/ sz < size_)
  <2>1. Resized(sz)
    BY <1>6 DEF resize
  <2>2. m_capacity' = sz /\ sz >= Len(QueueNow)
    BY <1>2, <1>3, <1>6, <2>1 DEF Resized
  <2>3. CASE m_empty
    <3>1. UNCHANGED <<m_buffer, m_capacity_max, m_tail, m_head>>
      BY <2>1, <2>3 DEF Resized
    <3>2. m_tail = m_head /\ m_head < sz
      BY <1>1, <2>2, <2>3, <3>1 DEF Contained
    <3>3. TypeInv'
      <4>1. m_empty' \in BOOLEAN
        BY <1>1, <1>4
      <4>2. m_tail' \in 0 .. (sz - 1) /\ m_head' \in Nat
        BY <1>1, <1>3, <3>1, <3>2
      <4> QED
        BY <1>1, <1>3, <1>4, <2>2, <3>1, <4>1, <4>2 DEF TypeInv
    <3>4. InUse = <<>> /\ InUse' = <<>>
      BY <1>4, <2>3, Zenon DEF InUse
    <3>5. QueueNow' = QueueNow
      BY <3>1, <3>4, Zenon DEF QueueNow
    <3>6. m_tail' = m_head'
      BY <3>1, <3>2
    <3> QED
      BY <1>4, <2>2, <3>3, <3>5, <3>6, Zenon
  <2>4. CASE ~ m_empty
    <3>1. CASE sz < m_capacity \/ sz > m_capacity_max
      <4>1. resize_with_new_buffer(sz)
        BY <2>1, <2>4, <3>1 DEF Resized
      <4> QED
        BY <1>4, <2>2, <2>4, <4>1, NewBufferStep
    <3>2. CASE ~ (sz < m_capacity \/ sz > m_capacity_max)
      <4>1. m_capacity < sz /\ sz <= m_capacity_max
        BY <1>1, <1>3, <1>6, <3>2
      <4>2. m_capacity_max' = m_capacity_max
        BY <2>1, <2>4, <3>2 DEF Resized
      <4>3. CASE m_tail < m_head
        <5>1. UNCHANGED <<m_buffer, m_tail, m_head>>
          BY <2>1, <2>4, <3>2, <4>3 DEF Resized
        <5> QED
          BY <1>4, <2>2, <2>4, <4>1, <4>2, <4>3, <5>1, StraightStep
      <4>4. CASE ~ (m_tail < m_head) /\ m_head = 0
        <5>1. m_head' = m_capacity /\ UNCHANGED <<m_buffer, m_tail>>
          BY <2>1, <2>4, <3>2, <4>4 DEF Resized
        <5> QED
          BY <1>4, <2>2, <2>4, <4>1, <4>2, <4>4, <5>1, StraightStep
      <4>5. CASE ~ (m_tail < m_head) /\ m_head # 0
        <5>1. Unwrapped(sz)
          BY <2>1, <2>4, <3>2, <4>5 DEF Resized
        <5> QED
          BY <1>4, <2>2, <2>4, <4>1, <4>2, <4>5, <5>1, UnwrappedStep
      <4> QED
        BY <4>3, <4>4, <4>5
    <3> QED
      BY <3>1, <3>2
  <2> QED
    BY <2>3, <2>4
<1> QED
  BY <1>5, <1>6

-----------------------------------------------------------------------------
(* reset_ptr finds all the items: their segments are among those there are. *)
LEMMA ResetStep ==
    ASSUME PredictorAssumption, IndInv, Contained, reset_ptr(Max(Pointers))
    PROVE  /\ TypeInv' /\ (m_empty' => m_tail' = m_head')
           /\ QueueNow' = Queue!Doubled(QueueNow) /\ Recorded(QueueNow')
<1> DEFINE n == UsedNow
           max == Max(Pointers)
           twice(item) == [item EXCEPT !.m_pointer = 2 * @]
<1>1. /\ m_capacity \in Nat \ {0} /\ m_capacity_max \in Nat /\ m_capacity <= m_capacity_max
      /\ m_tail \in 0 .. (m_capacity - 1) /\ m_buffer \in [0 .. (m_capacity_max - 1) -> Item]
  BY DEF IndInv, TypeInv, Contained
<1>2. InUse = Ring(m_tail, m_capacity, n) /\ n \in 0 .. m_capacity
  BY QueueIs
<1> HIDE DEF n
<1>3. /\ DOMAIN InUse = 1 .. n
      /\ \A i \in 1 .. n : InUse[i] = Slot(m_tail, m_capacity, i) /\ InUse[i] \in 0 .. (m_capacity_max - 1)
  BY <1>1, <1>2 DEF Ring, Slot
<1>4. DOMAIN QueueNow = 1 .. n /\ \A i \in 1 .. n : QueueNow[i] = m_buffer[InUse[i]]
  BY <1>3 DEF QueueNow
<1>5. Len(QueueNow) = n
  BY QueueIs, ContentsIsSeq DEF n
<1>6. \A i \in 1 .. n : m_buffer[InUse[i]].m_pointer \in Pointers
  BY <1>4, <1>5 DEF IndInv, Recorded
<1>7. \A p \in Pointers : p \in Nat /\ p <= max
  <2>1. Pointers \in SUBSET Nat /\ IsFiniteSet(Pointers)
    BY DEF PredictorAssumption
  <2>2. PICK b \in Nat : \A x \in Pointers : x <= b
    BY <2>1, FiniteBounded
  <2>3. Pointers \in SUBSET (0 .. b)
    BY <2>1, <2>2
  <2> TAKE p \in Pointers
  <2>4. Max(Pointers) \in Pointers /\ Max(Pointers) >= p
    <3>1. Pointers # {}
      OBVIOUS
    <3> QED
      BY <2>2, <2>3, <3>1, GreatestNatural
  <2> QED
    BY <2>1, <2>4
<1> HIDE DEF max
<1>8. \A i \in 1 .. n : InUse[i] \in items(0, max)
  <2> TAKE i \in 1 .. n
  <2>1. InUse[i] \in Range(InUse)
    BY <1>3 DEF Range
  <2>2. 0 <= m_buffer[InUse[i]].m_pointer /\ m_buffer[InUse[i]].m_pointer <= max
    BY <1>6, <1>7
  <2> QED
    BY <2>1, <2>2, Zenon DEF items
<1>9. \A i \in 1 .. n : 2 * m_buffer[InUse[i]].m_pointer \in Pointers
  <2>1. \A j \in Range(InUse) : 2 * m_buffer[j].m_pointer \in Pointers
    BY DEF reset_ptr
  <2> QED
    BY <1>3, <2>1 DEF Range
<1>10. m_buffer' = [j \in 0 .. (m_capacity_max - 1) |-> IF j \in items(0, max) THEN twice(m_buffer[j]) ELSE m_buffer[j]]
  BY <1>1 DEF reset_ptr, max
<1>11. UNCHANGED <<m_capacity, m_capacity_max, m_tail, m_head, m_count_max, m_empty>>
  BY DEF reset_ptr
<1>12. TypeInv'
  <2>1. \A item \in Item : twice(item) \in Item
    BY DEF Item
  <2> HIDE DEF twice
  <2>2. m_buffer' \in [0 .. (m_capacity_max - 1) -> Item]
    BY <1>1, <1>10, <2>1
  <2> QED
    BY <1>11, <2>2 DEF IndInv, TypeInv
<1>13. InUse' = InUse
  BY <1>11, Zenon DEF InUse
<1>14. \A i \in 1 .. n : m_buffer'[InUse[i]] = twice(QueueNow[i])
  BY <1>3, <1>4, <1>8, <1>10
<1>15. QueueNow' = [i \in 1 .. n |-> twice(QueueNow[i])]
  <2>1. QueueNow' = [i \in 1 .. n |-> m_buffer'[InUse[i]]]
    BY <1>3, <1>13 DEF QueueNow
  <2> QED
    BY <1>14, <2>1
<1>16. QueueNow' = Queue!Doubled(QueueNow)
  BY <1>4, <1>15 DEF Queue!Doubled
<1>17. Recorded(QueueNow')
  <2>1. \A i \in 1 .. n : QueueNow[i] \in Item /\ QueueNow'[i] = twice(QueueNow[i])
    BY <1>1, <1>3, <1>4, <1>15
  <2>2. \A item \in Item : twice(item).m_pointer = 2 * item.m_pointer
    BY DEF Item
  <2> HIDE DEF twice
  <2>3. \A i \in 1 .. n : QueueNow'[i].m_pointer \in Pointers
    BY <1>4, <1>9, <2>1, <2>2
  <2>4. Len(QueueNow') = n
    BY <1>2, <1>15
  <2> QED
    BY <2>3, <2>4 DEF Recorded
<1>18. m_empty' => m_tail' = m_head'
  BY <1>11 DEF IndInv
<1> QED
  BY <1>12, <1>16, <1>17, <1>18

-----------------------------------------------------------------------------
(* The members of an interval are integers. *)
LEMMA IntervalOfIntegers ==
    ASSUME NEW k, NEW S, S \subseteq 1 .. k
    PROVE  S \subseteq Int
OBVIOUS

(* The maximum counts are integers. *)
LEMMA CountsAreIntegers ==
    ASSUME PredictorAssumption
    PROVE  Counts \subseteq Int
<1>1. Counts \subseteq 1 .. (2 ^ 16 - 1)
  BY Zenon DEF PredictorAssumption
<1> QED
  BY <1>1, IntervalOfIntegers, Zenon

(* The array that the constructor allocates stands for the empty queue. *)
LEMMA InitStep ==
    ASSUME PredictorAssumption, Init
    PROVE  IndInv /\ Queue!Init
<1>1. PICK size \in Sizes :
          /\ m_capacity = size /\ m_capacity_max = hyperceil(size)
          /\ m_buffer = allocate_buffer(hyperceil(size))
          /\ m_tail = 0 /\ m_head = 0 /\ m_empty = TRUE /\ m_count_max \in Counts
  BY DEF Init
<1>2. size \in Nat \ {0, 1} /\ hyperceil(size) \in Nat /\ m_count_max \in Int
  <2>1. size \in Nat \ {0, 1} /\ hyperceil(size) \in Nat
    BY DEF PredictorAssumption
  <2>2. m_count_max \in Int
    BY <1>1, CountsAreIntegers, Zenon
  <2> QED
    BY <2>1, <2>2
<1>3. NoItem \in Item
  BY DEF NoItem, Item
<1>4. TypeInv
  <2>1. m_buffer \in [0 .. (m_capacity_max - 1) -> Item]
    BY <1>1, <1>3 DEF allocate_buffer
  <2>2. m_empty \in BOOLEAN
    BY <1>1
  <2> QED
    BY <1>1, <1>2, <2>1, <2>2 DEF TypeInv
<1>5. InUse = <<>>
  BY <1>1, Zenon DEF InUse
<1>6. QueueNow = <<>> /\ Recorded(QueueNow)
  <2>1. QueueNow = <<>>
    BY <1>5 DEF QueueNow
  <2> QED
    BY <2>1, EmptySeq DEF Recorded
<1>7. IndInv
  BY <1>1, <1>4, <1>6 DEF IndInv
<1>8. Queue!Init
  BY <1>1, <1>6 DEF Queue!Init, QueueNow
<1> QED
  BY <1>7, <1>8

(* Every step of the array is a step of the queue, or leaves it as it is. *)
LEMMA NextStep ==
    ASSUME PredictorAssumption, IndInv, Contained, Contained', [Next]_vars
    PROVE  IndInv' /\ [Queue!Next]_(Queue!vars)
<1> DEFINE Kept == TypeInv' /\ (m_empty' => m_tail' = m_head') /\ Recorded(QueueNow')
<1>1. Kept => IndInv'
  BY DEF IndInv, Recorded
<1>2. ASSUME NEW pointer \in Pointers, update(pointer)
      PROVE  Kept /\ Queue!Next
  <2>1. Kept /\ QueueNow' = Queue!Updated(QueueNow, m_capacity, m_count_max, pointer)
    BY <1>2, UpdateStep
  <2>2. UNCHANGED <<m_capacity, m_count_max>>
    BY <1>2 DEF update
  <2>3. Queue!Update(pointer)
    BY <2>1, <2>2, Zenon DEF Queue!Update, QueueNow
  <2> QED
    BY <2>1, <2>3 DEF Queue!Next
<1>3. ASSUME NEW sz \in Sizes, resize(sz)
      PROVE  Kept /\ [Queue!Next]_(Queue!vars)
  <2>1. /\ TypeInv' /\ (m_empty' => m_tail' = m_head')
        /\ QueueNow' = QueueNow /\ m_count_max' = m_count_max
        /\ m_capacity' = m_capacity \/ (m_capacity' = sz /\ sz >= Len(QueueNow))
    BY <1>3, ResizeStep
  <2>2. Recorded(QueueNow')
    BY <2>1, Zenon DEF IndInv
  <2>3. CASE m_capacity' = m_capacity
    BY <2>1, <2>2, <2>3, Zenon DEF Queue!vars, QueueNow
  <2>4. CASE m_capacity' = sz /\ sz >= Len(QueueNow)
    <3>1. Queue!Resize(sz)
      BY <2>1, <2>4, Zenon DEF Queue!Resize, QueueNow
    <3> QED
      BY <2>1, <2>2, <3>1 DEF Queue!Next
  <2> QED
    BY <2>1, <2>3, <2>4
<1>4. ASSUME NEW value \in Counts, set_max_count(value)
      PROVE  Kept /\ Queue!Next
  <2>1. /\ UNCHANGED <<m_buffer, m_capacity, m_capacity_max, m_tail, m_head, m_empty>>
        /\ m_count_max' = value
    BY <1>4 DEF set_max_count
  <2>2. QueueNow' = QueueNow
    BY <2>1, Zenon DEF QueueNow, InUse
  <2>3. value \in Int
    BY CountsAreIntegers, Zenon
  <2>4. TypeInv' /\ (m_empty' => m_tail' = m_head')
    BY <2>1, <2>3 DEF IndInv, TypeInv
  <2>5. Recorded(QueueNow')
    BY <2>2, Zenon DEF IndInv
  <2>6. Queue!SetMaxCount(value)
    BY <2>1, <2>2, Zenon DEF Queue!SetMaxCount, QueueNow
  <2> QED
    BY <2>4, <2>5, <2>6 DEF Queue!Next
<1>5. ASSUME reset_ptr(Max(Pointers))
      PROVE  Kept /\ Queue!Next
  <2>1. Kept /\ QueueNow' = Queue!Doubled(QueueNow)
    BY <1>5, ResetStep
  <2>2. UNCHANGED <<m_capacity, m_count_max>>
    BY <1>5 DEF reset_ptr
  <2>3. Queue!Double
    BY <2>1, <2>2, Zenon DEF Queue!Double, QueueNow
  <2> QED
    BY <2>1, <2>3 DEF Queue!Next
<1>6. ASSUME UNCHANGED vars
      PROVE  Kept /\ UNCHANGED Queue!vars
  <2>1. QueueNow' = QueueNow /\ m_capacity' = m_capacity /\ m_count_max' = m_count_max
    BY <1>6, Zenon DEF vars, QueueNow, InUse
  <2>2. TypeInv' /\ (m_empty' => m_tail' = m_head')
    BY <1>6 DEF vars, IndInv, TypeInv
  <2>3. Recorded(QueueNow')
    BY <2>1, Zenon DEF IndInv
  <2> QED
    BY <2>1, <2>2, <2>3, Zenon DEF Queue!vars, QueueNow
<1> HIDE DEF Kept
<1> QED
  BY <1>1, <1>2, <1>3, <1>4, <1>5, <1>6 DEF Next

(* For every set of segments, capacities and maxima of a count, the circular array of         *)
(* predictor.cpp is the queue that predictor.hpp describes, as long as it lies in its buffer: *)
(* update moves an item ahead and takes from the tail across the end of the array, and        *)
(* resize, in place or in a new buffer, keeps all the items in their order.                   *)
THEOREM PredictorImplementsQueue ==
    ASSUME PredictorAssumption
    PROVE  Spec /\ []Contained => ImplementsQueue
<1>1. Init => IndInv /\ Queue!Init
  BY InitStep
<1>2. IndInv /\ Contained /\ Contained' /\ [Next]_vars => IndInv' /\ [Queue!Next]_(Queue!vars)
  BY NextStep
<1> QED
  BY <1>1, <1>2, PTL DEF Spec, ImplementsQueue, Queue!Spec
================================================================================
