---------------------- MODULE AdaptiveRebalancingProofs ----------------------
(***************************************************************************)
(* The partitions that AdaptiveRebalancing computes share out their        *)
(* window, and the intervals it hands to its recursive calls are sound,    *)
(* for every capacity of the segments, every calibrator tree and every     *)
(* window that respects its thresholds.                                    *)
(*                                                                         *)
(* The invariant is about the calls that are still to be made: each has a  *)
(* part that is a node of the calibrator tree and respects the thresholds  *)
(* of its height, and intervals in order.  That a split keeps it rests on  *)
(* two facts.  find_split_point leaves an interval on the left, so the     *)
(* optimum lies between the start of an interval and that of the next; and *)
(* both ensure_ functions keep the split point between two such starts,    *)
(* after cutting the interval that crosses it.                             *)
(***************************************************************************)
EXTENDS AdaptiveRebalancing, WellFoundedInduction, SequenceTheorems, TLAPS

-----------------------------------------------------------------------------
(* Every non-empty set of natural numbers has a least element. *)
LEMMA LeastNatural ==
    ASSUME NEW T \in SUBSET Nat, T # {}
    PROVE  \E m \in T : \A k \in T : m <= k
<1> DEFINE R == OpToRel(<, Nat)
<1>1. \A x, y \in Nat : y < x => <<y, x>> \in R
  BY DEF OpToRel
<1>2. IsWellFoundedOn(R, Nat)
  BY NatLessThanWellFounded
<1> HIDE DEF R
<1>3. PICK m \in T : \A k \in T : ~ (<<k, m>> \in R)
  BY <1>2, WFMin, Zenon
<1>4. \A k \in T : ~ (k < m)
  BY <1>1, <1>3
<1> QED
  BY <1>4

-----------------------------------------------------------------------------
(* Heights and powers of two *)

(* What it is for a function to give the heights of the windows up to n segments. *)
IsHeight(g, n) ==
    /\ g \in [1 .. n -> Nat]
    /\ \A k \in 1 .. n : g[k] = IF k = 1 THEN 1 ELSE g[k \div 2] + 1

(* There is such a function. *)
LEMMA HeightExists ==
    ASSUME NEW length \in Nat
    PROVE  \E g : IsHeight(g, length)
<1> DEFINE T == {k \in Nat : ~ \E g : IsHeight(g, k)}
<1> SUFFICES ASSUME T # {} PROVE FALSE
  OBVIOUS
<1>1. PICK m \in T : \A k \in T : m <= k
  BY LeastNatural
<1>2. m # 0
  <2>1. IsHeight([k \in 1 .. 0 |-> 0], 0)
    BY DEF IsHeight
  <2> QED
    BY <2>1
<1>3. m \in Nat /\ m - 1 \in Nat /\ ~ (m <= m - 1)
  BY <1>2
<1>4. PICK g : IsHeight(g, m - 1)
  BY <1>1, <1>3
<1>5. g \in [1 .. (m - 1) -> Nat]
  BY <1>4 DEF IsHeight
<1> DEFINE h == [k \in 1 .. m |-> IF k < m THEN g[k] ELSE IF m = 1 THEN 1 ELSE g[m \div 2] + 1]
<1>6. \A k \in 1 .. m : k # 1 => k \div 2 \in 1 .. m /\ k \div 2 < k
  BY <1>3
<1>7. h \in [1 .. m -> Nat]
  BY <1>3, <1>5
<1>8. \A k \in 1 .. m : h[k] = IF k = 1 THEN 1 ELSE h[k \div 2] + 1
  <2> SUFFICES ASSUME NEW k \in 1 .. m PROVE h[k] = IF k = 1 THEN 1 ELSE h[k \div 2] + 1
    OBVIOUS
  <2>1. CASE k = m
    BY <1>3, <1>6, <2>1
  <2>2. CASE k # m
    <3>1. k \in 1 .. (m - 1) /\ k < m
      BY <1>3, <2>2
    <3>2. g[k] = IF k = 1 THEN 1 ELSE g[k \div 2] + 1
      BY <1>4, <3>1 DEF IsHeight
    <3>3. k # 1 => k \div 2 < m
      BY <1>3, <1>6, <3>1
    <3> QED
      BY <1>6, <3>1, <3>2, <3>3
  <2> QED
    BY <2>1, <2>2
<1>9. IsHeight(h, m)
  BY <1>7, <1>8 DEF IsHeight
<1> QED
  BY <1>9, <1>3, <1>1

(* Two such functions agree where both are defined. *)
LEMMA HeightUnique ==
    ASSUME NEW a \in Nat, NEW b \in Nat, a <= b, NEW g, NEW h, IsHeight(g, a), IsHeight(h, b),
           NEW k \in 1 .. a
    PROVE  g[k] = h[k]
<1> DEFINE T == {i \in 1 .. a : g[i] # h[i]}
<1> SUFFICES ASSUME T # {} PROVE FALSE
  OBVIOUS
<1>1. T \in SUBSET Nat
  OBVIOUS
<1>2. PICK m \in T : \A i \in T : m <= i
  BY <1>1, LeastNatural
<1>3. m \in 1 .. a /\ m \in 1 .. b
  OBVIOUS
<1>4. g[m] = (IF m = 1 THEN 1 ELSE g[m \div 2] + 1) /\ h[m] = (IF m = 1 THEN 1 ELSE h[m \div 2] + 1)
  BY <1>3 DEF IsHeight
<1>5. m # 1
  BY <1>2, <1>4
<1>6. m \div 2 \in 1 .. a /\ ~ (m <= m \div 2)
  BY <1>3, <1>5
<1>7. g[m \div 2] = h[m \div 2]
  BY <1>2, <1>6
<1> QED
  BY <1>2, <1>4, <1>5, <1>7

(* HeightOf is what such a function says. *)
LEMMA HeightIs ==
    ASSUME NEW length \in Nat \ {0}
    PROVE  \E g : IsHeight(g, length) /\ HeightOf(length) = g[length]
<1> DEFINE H(g) == [n \in 1 .. length |-> IF n = 1 THEN 1 ELSE g[n \div 2] + 1]
<1>1. PICK g : IsHeight(g, length)
  BY HeightExists
<1>2. g = H(g)
  BY <1>1 DEF IsHeight
<1>3. HeightOf(length) = (CHOOSE f : f = H(f))[length]
  BY DEF HeightOf
<1> DEFINE c == CHOOSE f : f = H(f)
<1>4. c = H(c)
  BY <1>2
<1> HIDE DEF c
<1>5. \A k \in 1 .. length : c[k] = IF k = 1 THEN 1 ELSE c[k \div 2] + 1
  BY <1>4
<1>6. \A k \in 1 .. length : c[k] = g[k]
  <2> DEFINE T == {i \in 1 .. length : c[i] # g[i]}
  <2> SUFFICES ASSUME T # {} PROVE FALSE
    OBVIOUS
  <2>1. T \in SUBSET Nat
    OBVIOUS
  <2>2. PICK m \in T : \A i \in T : m <= i
    BY <2>1, LeastNatural
  <2>3. m \in 1 .. length
    OBVIOUS
  <2>4. g[m] = (IF m = 1 THEN 1 ELSE g[m \div 2] + 1)
    BY <1>1, <2>3 DEF IsHeight
  <2>5. m # 1
    BY <1>5, <2>2, <2>4
  <2>6. m \div 2 \in 1 .. length /\ ~ (m <= m \div 2)
    BY <2>3, <2>5
  <2>7. c[m \div 2] = g[m \div 2]
    BY <2>2, <2>6
  <2> QED
    BY <1>5, <2>2, <2>4, <2>5, <2>7
<1>7. HeightOf(length) = g[length]
  BY <1>3, <1>6 DEF c
<1> QED
  BY <1>1, <1>7

(* A height is a number. *)
LEMMA HeightOfType ==
    ASSUME NEW length \in Nat \ {0}
    PROVE  HeightOf(length) \in Nat
<1>1. PICK g : IsHeight(g, length) /\ HeightOf(length) = g[length]
  BY HeightIs
<1> QED
  BY <1>1 DEF IsHeight
(* A window is one higher than its half. *)
LEMMA HeightOfHalf ==
    ASSUME NEW length \in Nat \ {0, 1}
    PROVE  HeightOf(length) = HeightOf(length \div 2) + 1
<1>1. PICK g : IsHeight(g, length) /\ HeightOf(length) = g[length]
  BY HeightIs
<1> DEFINE half == length \div 2
<1>2. half \in Nat \ {0} /\ half <= length /\ half \in 1 .. half /\ length \in 1 .. length
  OBVIOUS
<1>3. PICK h : IsHeight(h, half) /\ HeightOf(half) = h[half]
  BY <1>2, HeightIs
<1>4. h[half] = g[half]
  BY <1>1, <1>2, <1>3, HeightUnique
<1>5. g[length] = g[half] + 1
  BY <1>1, <1>2 DEF IsHeight
<1> QED
  BY <1>1, <1>3, <1>4, <1>5
(* A segment has height 1. *)
LEMMA HeightOfOne == HeightOf(1) = 1
<1>1. PICK g : IsHeight(g, 1) /\ HeightOf(1) = g[1]
  BY HeightIs
<1> QED
  BY <1>1 DEF IsHeight
(* No window has height 0. *)
LEMMA HeightIsPositive ==
    ASSUME NEW length \in Nat \ {0}
    PROVE  HeightOf(length) \in Nat \ {0}
<1>1. HeightOf(length) \in Nat
  BY HeightOfType
<1>2. CASE length = 1
  BY <1>2, HeightOfOne
<1>3. CASE length # 1
  <2>1. length \in Nat \ {0, 1} /\ length \div 2 \in Nat \ {0}
    BY <1>3
  <2>2. HeightOf(length) = HeightOf(length \div 2) + 1
    BY <2>1, HeightOfHalf
  <2>3. HeightOf(length \div 2) \in Nat
    BY <2>1, HeightOfType
  <2> QED
    BY <2>2, <2>3
<1> QED
  BY <1>2, <1>3

(* A power of two is twice its half. *)
LEMMA PowerIsEven ==
    ASSUME NEW length \in Nat \ {0, 1}, IsPowerOfTwo(length)
    PROVE  length = 2 * (length \div 2)
<1> SUFFICES ASSUME length # 2 * (length \div 2) PROVE FALSE
  OBVIOUS
<1> DEFINE less == length - 1
<1>1. less \in Nat \ {0, 1} /\ less \div 2 = length \div 2 /\ less \in 1 .. (length - 1)
  OBVIOUS
<1>2. HeightOf(less) = HeightOf(less \div 2) + 1
  BY <1>1, HeightOfHalf
<1>3. HeightOf(length) = HeightOf(length \div 2) + 1
  BY HeightOfHalf
<1>4. HeightOf(less) < HeightOf(length)
  BY <1>1 DEF IsPowerOfTwo
<1>5. HeightOf(less) = HeightOf(length)
  BY <1>1, <1>2, <1>3
<1>6. HeightOf(length) \in Nat
  BY HeightOfType
<1> QED
  BY <1>4, <1>5, <1>6
(* The half of a power of two is one. *)
LEMMA HalfIsPower ==
    ASSUME NEW length \in Nat \ {0, 1}, IsPowerOfTwo(length)
    PROVE  IsPowerOfTwo(length \div 2)
<1> DEFINE half == length \div 2
<1> SUFFICES ASSUME NEW n \in 1 .. (half - 1) PROVE HeightOf(n) < HeightOf(half)
  BY DEF IsPowerOfTwo
<1>1. half \in Nat \ {0} /\ length = 2 * half
  BY PowerIsEven
<1> HIDE DEF half
<1> DEFINE twice == 2 * n
<1>2. twice \in Nat \ {0, 1} /\ twice \div 2 = n /\ twice \in 1 .. (length - 1) /\ n \in Nat \ {0}
  BY <1>1
<1>3. HeightOf(twice) = HeightOf(n) + 1
  BY <1>2, HeightOfHalf
<1>4. HeightOf(length) = HeightOf(half) + 1
  BY HeightOfHalf DEF half
<1>5. HeightOf(twice) < HeightOf(length)
  BY <1>2 DEF IsPowerOfTwo
<1>6. HeightOf(n) \in Nat /\ HeightOf(half) \in Nat
  BY <1>1, <1>2, HeightOfType
<1> QED
  BY <1>3, <1>4, <1>5, <1>6

-----------------------------------------------------------------------------
(* The thresholds of the halves *)

(* A larger factor gives a larger product. *)
LEMMA MulMono ==
    ASSUME NEW a \in Int, NEW b \in Int, a <= b, NEW c \in Nat
    PROVE  a * c <= b * c
OBVIOUS
(* A quotient is at most what the dividend is a multiple of. *)
LEMMA DivideAtMost ==
    ASSUME NEW a \in Int, NEW b \in Nat \ {0}, NEW c \in Int, a <= b * c
    PROVE  a \div b <= c
<1> DEFINE q == a \div b
<1>1. q \in Int /\ b * q <= a
  OBVIOUS
<1> HIDE DEF q
<1> SUFFICES ASSUME c + 1 <= q PROVE FALSE
  BY <1>1 DEF q
<1>2. (c + 1) * b <= q * b
  BY <1>1, MulMono
<1>3. (c + 1) * b = b * c + b /\ q * b = b * q
  BY <1>1
<1> DEFINE p == b * c
        r == b * q
<1>4. p \in Int /\ r \in Int
  BY <1>1
<1> HIDE DEF p, r
<1> QED
  BY <1>1, <1>2, <1>3, <1>4 DEF p, r

(* The assumption, by its parts. *)
LEMMA Constants ==
    ASSUME AdaptiveAssumption
    PROVE  /\ SegmentCapacity \in Nat \ {0}
           /\ TreeHeight \in Nat \ {0, 1}
           /\ Rho0 \in Nat /\ RhoH \in Nat /\ ThetaH \in Nat /\ Theta0 \in Nat
           /\ ThetaH < Theta0 /\ Theta0 <= 100
           /\ Scale \in Nat \ {0}
BY DEF AdaptiveAssumption, Scale

(* The sizes are integers. *)
LEMMA SizesAreIntegers ==
    ASSUME AdaptiveAssumption, NEW height \in Nat, NEW capacity \in Nat
    PROVE  SizeMin(height, capacity) \in Int /\ SizeMax(height, capacity) \in Int
<1>1. Rho(height) \in Int /\ Theta(height) \in Int
  BY Constants DEF Rho, Theta
<1> DEFINE a == Rho(height) * capacity + Scale - 1
        b == Theta(height) * capacity
<1>2. a \in Int /\ b \in Int /\ Scale \in Nat \ {0}
  BY <1>1, Constants
<1>3. SizeMin(height, capacity) = a \div Scale /\ SizeMax(height, capacity) = b \div Scale
  BY DEF SizeMin, SizeMax
<1> HIDE DEF a, b
<1> QED
  BY <1>2, <1>3
(* The largest size is at most the number of slots. *)
LEMMA SizeMaxFits ==
    ASSUME AdaptiveAssumption, NEW height \in Nat \ {0}, NEW capacity \in Nat
    PROVE  SizeMax(height, capacity) <= capacity
<1>1. Theta(height) <= Scale
  <2> DEFINE t == TreeHeight - 1
          d == Theta0 - ThetaH
  <2>1. t \in Nat /\ d \in Nat /\ ThetaH \in Nat /\ TreeHeight - height <= t /\ TreeHeight - height \in Int
        /\ ThetaH + d <= 100 /\ ThetaH + d \in Nat
    BY Constants
  <2>2. (TreeHeight - height) * d <= t * d
    BY <2>1, MulMono
  <2>3. (ThetaH + d) * t <= 100 * t
    BY <2>1, MulMono
  <2>4. Theta(height) = ThetaH * t + d * (TreeHeight - height) /\ Scale = 100 * t
    BY DEF Theta, Scale
  <2> HIDE DEF t, d
  <2>5. (ThetaH + d) * t = ThetaH * t + t * d /\ d * (TreeHeight - height) = (TreeHeight - height) * d
    BY <2>1
  <2> DEFINE p == ThetaH * t
          q == t * d
          r == (TreeHeight - height) * d
          s == 100 * t
  <2>6. p \in Int /\ q \in Int /\ r \in Int /\ s \in Int
    BY <2>1
  <2>7. r <= q /\ p + q <= s /\ Theta(height) = p + r /\ Scale = s
    BY <2>2, <2>3, <2>4, <2>5
  <2> HIDE DEF p, q, r, s
  <2> QED
    BY <2>6, <2>7
<1>2. Theta(height) \in Int /\ Scale \in Nat \ {0}
  BY Constants DEF Theta
<1>3. Theta(height) * capacity <= Scale * capacity
  BY <1>1, <1>2, MulMono
<1> DEFINE a == Theta(height) * capacity
<1>4. a \in Int /\ a <= Scale * capacity
  BY <1>2, <1>3
<1> HIDE DEF a
<1>5. a \div Scale <= capacity
  BY <1>2, <1>4, DivideAtMost
<1> QED
  BY <1>5 DEF a, SizeMax

(* What the assumption says of the windows a case is split into. *)
LEMMA WindowNests ==
    ASSUME AdaptiveAssumption, NEW c \in Cases, NEW length \in 1 .. c.length, IsPowerOfTwo(length)
    PROVE  /\ length <= SizeMin(HeightOf(length), length * SegmentCapacity)
           /\ length > 1 =>
                 /\ 2 * SizeMin(HeightOf(length) - 1, (length * SegmentCapacity) \div 2)
                       <= SizeMin(HeightOf(length), length * SegmentCapacity)
                 /\ SizeMax(HeightOf(length), length * SegmentCapacity)
                       <= 2 * SizeMax(HeightOf(length) - 1, (length * SegmentCapacity) \div 2)
BY DEF AdaptiveAssumption

(* A window that respects its thresholds has an element for each segment, and fits. *)
LEMMA AdmittedFits ==
    ASSUME AdaptiveAssumption, NEW c \in Cases, c.length \in Nat, NEW length \in 1 .. c.length,
           IsPowerOfTwo(length), NEW cardinality \in Nat, Admitted(length, cardinality)
    PROVE  length <= cardinality /\ cardinality <= length * SegmentCapacity
<1> DEFINE slots == length * SegmentCapacity
        height == HeightOf(length)
<1>1. length \in Nat \ {0} /\ slots \in Nat
  BY Constants
<1>2. height \in Nat \ {0}
  BY <1>1, HeightIsPositive
<1>3. length <= SizeMin(height, slots)
  BY WindowNests
<1>4. SizeMin(height, slots) <= cardinality /\ cardinality <= SizeMax(height, slots)
  BY DEF Admitted
<1> HIDE DEF slots, height
<1>5. SizeMax(height, slots) <= slots
  BY <1>1, <1>2, SizeMaxFits
<1>6. SizeMin(height, slots) \in Int /\ SizeMax(height, slots) \in Int
  BY <1>1, <1>2, SizesAreIntegers
<1>7. length <= cardinality /\ cardinality <= slots
  BY <1>1, <1>3, <1>4, <1>5, <1>6
<1> QED
  BY <1>7 DEF slots

(* The bounds that validate_thresholds gives the left half of a part. *)
HalfMin(length) == SizeMin(HeightOf(length) - 1, (length * SegmentCapacity) \div 2)
HalfMax(length) == SizeMax(HeightOf(length) - 1, (length * SegmentCapacity) \div 2)
Lo(length, cardinality) == Max2(cardinality - HalfMax(length), HalfMin(length))
Hi(length, cardinality) == Min2(cardinality - HalfMin(length), HalfMax(length))

(* They are the thresholds of the half, and leave room between them. *)
LEMMA HalfBounds ==
    ASSUME AdaptiveAssumption, NEW c \in Cases, c.length \in Nat, NEW length \in 2 .. c.length,
           IsPowerOfTwo(length)
    PROVE  /\ HalfMin(length) \in Nat /\ HalfMax(length) \in Int
           /\ HalfMin(length) = SizeMin(HeightOf(length \div 2), (length \div 2) * SegmentCapacity)
           /\ HalfMax(length) = SizeMax(HeightOf(length \div 2), (length \div 2) * SegmentCapacity)
<1> DEFINE half == length \div 2
<1>1. length \in Nat \ {0, 1} /\ length = 2 * half
  BY PowerIsEven
<1>2. half \in Nat \ {0} /\ half \in 1 .. c.length
  BY <1>1
<1>3. IsPowerOfTwo(half)
  BY <1>1, HalfIsPower
<1>4. HeightOf(length) = HeightOf(half) + 1 /\ HeightOf(half) \in Nat
  BY <1>1, <1>2, HeightOfHalf, HeightOfType
<1>5. SegmentCapacity \in Nat \ {0}
  BY Constants
<1> HIDE DEF half
<1> DEFINE p == half * SegmentCapacity
<1>6. p \in Nat /\ length * SegmentCapacity = 2 * p
  BY <1>1, <1>2, <1>5
<1>7. (2 * p) \div 2 = p
  <2> HIDE DEF p
  <2> QED
    BY <1>6
<1>8. (length * SegmentCapacity) \div 2 = p
  BY <1>6, <1>7
<1>9. HeightOf(length) - 1 = HeightOf(half)
  BY <1>4
<1>10. HalfMin(length) = SizeMin(HeightOf(half), p) /\ HalfMax(length) = SizeMax(HeightOf(half), p)
  BY <1>8, <1>9 DEF HalfMin, HalfMax
<1>11. SizeMin(HeightOf(half), p) \in Int /\ SizeMax(HeightOf(half), p) \in Int
  BY <1>4, <1>6, SizesAreIntegers
<1>12. half <= SizeMin(HeightOf(half), p)
  BY <1>2, <1>3, WindowNests
<1>13. HalfMin(length) \in Nat
  BY <1>2, <1>10, <1>11, <1>12
<1> QED
  BY <1>10, <1>11, <1>13 DEF half

(* A split point within the bounds gives both halves what their thresholds allow. *)
LEMMA HalvesFit ==
    ASSUME AdaptiveAssumption, NEW c \in Cases, c.length \in Nat, NEW length \in 2 .. c.length,
           IsPowerOfTwo(length), NEW cardinality \in Nat, Admitted(length, cardinality)
    PROVE  /\ Lo(length, cardinality) \in Nat /\ Hi(length, cardinality) \in Nat
           /\ Lo(length, cardinality) <= Hi(length, cardinality)
           /\ Hi(length, cardinality) <= cardinality
           /\ \A at \in Lo(length, cardinality) .. Hi(length, cardinality) :
                 Admitted(length \div 2, at) /\ Admitted(length \div 2, cardinality - at)
<1> DEFINE min == HalfMin(length)
        max == HalfMax(length)
        least == SizeMin(HeightOf(length), length * SegmentCapacity)
        most == SizeMax(HeightOf(length), length * SegmentCapacity)
<1>1. min \in Nat /\ max \in Int
  BY HalfBounds
<1>2. length \in Nat \ {0} /\ length \in 1 .. c.length /\ length > 1
  OBVIOUS
<1>3. length * SegmentCapacity \in Nat /\ HeightOf(length) \in Nat
  BY <1>2, Constants, HeightOfType
<1>4. least \in Int /\ most \in Int
  BY <1>3, SizesAreIntegers
<1>5. 2 * min <= least /\ most <= 2 * max
  BY <1>2, WindowNests DEF HalfMin, HalfMax
<1>6. least <= cardinality /\ cardinality <= most
  BY DEF Admitted
<1>7. \A at \in Int : min <= at /\ at <= max => Admitted(length \div 2, at)
  BY HalfBounds DEF Admitted
<1>8. Lo(length, cardinality) = Max2(cardinality - max, min) /\ Hi(length, cardinality) = Min2(cardinality - min, max)
  BY DEF Lo, Hi
<1> HIDE DEF min, max, least, most
<1> DEFINE lo == Lo(length, cardinality)
        hi == Hi(length, cardinality)
<1>9. /\ lo \in Nat /\ hi \in Nat /\ lo <= hi /\ hi <= cardinality
      /\ min <= lo /\ hi <= max /\ cardinality - hi >= min /\ cardinality - lo <= max
  BY <1>1, <1>4, <1>5, <1>6, <1>8 DEF Max2, Min2
<1> HIDE DEF lo, hi
<1>10. ASSUME NEW at \in lo .. hi
       PROVE  /\ at \in Int /\ cardinality - at \in Int /\ min <= at /\ at <= max
              /\ min <= cardinality - at /\ cardinality - at <= max
  BY <1>1, <1>9
<1>11. \A at \in lo .. hi : Admitted(length \div 2, at) /\ Admitted(length \div 2, cardinality - at)
  BY <1>7, <1>10
<1> QED
  BY <1>9, <1>11 DEF lo, hi

-----------------------------------------------------------------------------
(* Sums *)

(* What it is for a function to give the sums of the first values of a sequence. *)
IsSums(g, v, n) ==
    /\ g \in [0 .. n -> Int] /\ g[0] = 0
    /\ \A i \in 1 .. n : g[i] = g[i - 1] + v[i]

(* There is such a function. *)
LEMMA SumsExist ==
    ASSUME NEW v \in Seq(Int)
    PROVE  \E g : IsSums(g, v, Len(v))
<1> DEFINE T == {k \in Nat : k <= Len(v) /\ ~ \E g : IsSums(g, v, k)}
<1>0. Len(v) \in Nat /\ \A i \in 1 .. Len(v) : v[i] \in Int
  OBVIOUS
<1> SUFFICES ASSUME T # {} PROVE FALSE
  BY <1>0
<1>1. PICK m \in T : \A k \in T : m <= k
  BY LeastNatural
<1>2. m # 0
  <2>1. IsSums([i \in 0 .. 0 |-> 0], v, 0)
    BY DEF IsSums
  <2> QED
    BY <2>1
<1>3. m \in Nat /\ m <= Len(v) /\ m - 1 \in Nat /\ m - 1 <= Len(v) /\ ~ (m <= m - 1)
  BY <1>0, <1>2
<1>4. PICK g : IsSums(g, v, m - 1)
  BY <1>1, <1>3
<1> DEFINE h == [i \in 0 .. m |-> IF i < m THEN g[i] ELSE g[m - 1] + v[m]]
<1>5. g \in [0 .. (m - 1) -> Int] /\ g[0] = 0 /\ v[m] \in Int
  BY <1>0, <1>2, <1>3, <1>4 DEF IsSums
<1>6. h \in [0 .. m -> Int] /\ h[0] = 0
  BY <1>3, <1>5
<1>7. \A i \in 1 .. m : h[i] = h[i - 1] + v[i]
  <2> SUFFICES ASSUME NEW i \in 1 .. m PROVE h[i] = h[i - 1] + v[i]
    OBVIOUS
  <2>1. CASE i = m
    BY <1>3, <2>1
  <2>2. CASE i # m
    <3>1. i \in 1 .. (m - 1) /\ i \in 0 .. m /\ i - 1 \in 0 .. m /\ i < m /\ i - 1 < m
      BY <1>3, <2>2
    <3>2. g[i] = g[i - 1] + v[i]
      BY <1>4, <3>1 DEF IsSums
    <3> QED
      BY <3>1, <3>2
  <2> QED
    BY <2>1, <2>2
<1>8. IsSums(h, v, m)
  BY <1>6, <1>7 DEF IsSums
<1> QED
  BY <1>1, <1>3, <1>8

(* Sums is such a function. *)
LEMMA SumsAre ==
    ASSUME NEW v \in Seq(Int)
    PROVE  IsSums(Sums(v), v, Len(v))
<1> DEFINE S(g) == [i \in 0 .. Len(v) |-> IF i = 0 THEN 0 ELSE g[i - 1] + v[i]]
<1>0. Len(v) \in Nat /\ \A i \in 1 .. Len(v) : v[i] \in Int
  OBVIOUS
<1>1. PICK g : IsSums(g, v, Len(v))
  BY SumsExist
<1>2. g = S(g)
  BY <1>0, <1>1 DEF IsSums
<1>3. Sums(v) = CHOOSE f : f = S(f)
  BY DEF Sums
<1> DEFINE c == Sums(v)
<1>4. c = S(c)
  BY <1>2, <1>3
<1> HIDE DEF c
<1>5. DOMAIN c = 0 .. Len(v) /\ c[0] = 0 /\ \A i \in 1 .. Len(v) : c[i] = c[i - 1] + v[i]
  BY <1>0, <1>4
<1>6. \A i \in 0 .. Len(v) : c[i] \in Int
  <2> DEFINE T == {i \in 0 .. Len(v) : c[i] \notin Int}
  <2> SUFFICES ASSUME T # {} PROVE FALSE
    OBVIOUS
  <2>1. T \in SUBSET Nat
    BY <1>0
  <2>2. PICK m \in T : \A i \in T : m <= i
    BY <2>1, LeastNatural
  <2>3. m # 0 /\ m \in 0 .. Len(v)
    BY <1>5, <2>2
  <2>4. m \in 1 .. Len(v) /\ m - 1 \in 0 .. Len(v) /\ ~ (m <= m - 1)
    BY <1>0, <2>3
  <2>5. c[m - 1] \in Int
    BY <2>2, <2>4
  <2>6. c[m] = c[m - 1] + v[m]
    BY <1>5, <2>4
  <2>7. v[m] \in Int
    BY <1>0, <2>4
  <2> QED
    BY <2>2, <2>5, <2>6, <2>7
<1>7. c = [i \in 0 .. Len(v) |-> c[i]]
  BY <1>4
<1>8. c \in [0 .. Len(v) -> Int]
  BY <1>6, <1>7
<1> QED
  BY <1>5, <1>8 DEF IsSums, c

(* Sequences with the same values, and sums that differ by d. *)
SameFrom(v, w, k, n, a) == \A i \in (k + 1) .. n : w[i + a] = v[i]
SumsDiffer(v, w, k, l, d) == Sums(w)[l] = Sums(v)[k] + d
(* Where two sequences have the same values, their sums stay as far apart as they were. *)
LEMMA SumsShift ==
    ASSUME NEW v \in Seq(Int), NEW w \in Seq(Int), NEW a \in Int, NEW d \in Int,
           NEW k \in 0 .. Len(v), NEW n \in k .. Len(v), NEW l \in Nat, NEW e \in Nat,
           l = k + a, e = n + a, e <= Len(w),
           SameFrom(v, w, k, n, a), SumsDiffer(v, w, k, l, d)
    PROVE  SumsDiffer(v, w, n, e, d)
<1> DEFINE g == Sums(v)
        h == Sums(w)
        T == {i \in k .. n : h[i + a] # g[i] + d}
<1>1. IsSums(g, v, Len(v)) /\ IsSums(h, w, Len(w))
  BY SumsAre
<1>2. Len(v) \in Nat /\ Len(w) \in Nat /\ k \in Nat /\ n \in Nat /\ k <= n /\ n <= Len(v)
  OBVIOUS
<1>3. h[k + a] = g[k] + d
  BY DEF SumsDiffer
<1> HIDE DEF g, h
<1> SUFFICES ASSUME T # {} PROVE FALSE
  <2>1. n \in k .. n
    BY <1>2
  <2>2. T = {} => h[n + a] = g[n] + d
    BY <2>1
  <2> QED
    BY <2>2 DEF SumsDiffer, g, h
<1>4. T \in SUBSET Nat
  BY <1>2
<1>5. PICK m \in T : \A i \in T : m <= i
  BY <1>4, LeastNatural
<1>6. m \in k .. n /\ h[m + a] # g[m] + d
  BY <1>5
<1>7. m # k
  BY <1>3, <1>6
<1>8. m \in (k + 1) .. n /\ m - 1 \in k .. n /\ ~ (m <= m - 1)
  BY <1>2, <1>6, <1>7
<1>9. h[m - 1 + a] = g[m - 1] + d
  BY <1>5, <1>8
<1>10. w[m + a] = v[m]
  BY <1>8 DEF SameFrom
<1>11. m \in 1 .. Len(v) /\ m - 1 \in 0 .. Len(v)
  BY <1>2, <1>8
<1>12. m + a \in 1 .. Len(w) /\ (m + a) - 1 = m - 1 + a
  BY <1>2, <1>8
<1>13. g[m] = g[m - 1] + v[m] /\ g[m - 1] \in Int
  BY <1>1, <1>11 DEF IsSums
<1>14. h[m + a] = h[m - 1 + a] + w[m + a]
  BY <1>1, <1>12 DEF IsSums
<1>15. v[m] \in Int
  BY <1>11
<1> DEFINE x == g[m - 1]
        y == v[m]
<1>16. h[m + a] = (x + d) + y /\ g[m] = x + y /\ x \in Int /\ y \in Int
  BY <1>9, <1>10, <1>13, <1>14, <1>15
<1> HIDE DEF x, y
<1>17. h[m + a] = g[m] + d
  BY <1>16
<1> QED
  BY <1>6, <1>17

(* Sums, by their recursion. *)
LEMMA SumsFirst ==
    ASSUME NEW v \in Seq(Int)
    PROVE  /\ Sums(v)[0] = 0
           /\ \A i \in 0 .. Len(v) : Sums(v)[i] \in Int
           /\ \A i \in 1 .. Len(v) : Sums(v)[i] = Sums(v)[i - 1] + v[i]
<1>1. IsSums(Sums(v), v, Len(v))
  BY SumsAre
<1> HIDE DEF Sums
<1> QED
  BY <1>1 DEF IsSums
(* The sums of a sequence that ends with one more value. *)
LEMMA SumsAppend ==
    ASSUME NEW v \in Seq(Int), NEW w \in Seq(Int), Len(w) = Len(v) + 1,
           \A i \in 1 .. Len(v) : w[i] = v[i]
    PROVE  /\ \A i \in 0 .. Len(v) : Sums(w)[i] = Sums(v)[i]
           /\ Sums(w)[Len(w)] = Sums(v)[Len(v)] + w[Len(w)]
<1>1. ASSUME NEW n \in 0 .. Len(v)
      PROVE  Sums(w)[n] = Sums(v)[n]
  <2>1. 0 \in 0 .. Len(v) /\ n \in 0 .. Len(v) /\ n <= Len(w) /\ n \in Nat /\ 0 = 0 + 0 /\ n = n + 0
    OBVIOUS
  <2>2. SameFrom(v, w, 0, n, 0)
    BY <2>1 DEF SameFrom
  <2>3. SumsDiffer(v, w, 0, 0, 0)
    BY SumsFirst DEF SumsDiffer
  <2>4. SumsDiffer(v, w, n, n, 0)
    BY <2>1, <2>2, <2>3, SumsShift
  <2>5. Sums(v)[n] \in Int
    BY SumsFirst
  <2> QED
    BY <2>4, <2>5 DEF SumsDiffer
<1>2. Len(w) \in 1 .. Len(w) /\ Len(w) - 1 = Len(v) /\ Len(v) \in 0 .. Len(v)
  OBVIOUS
<1>3. Sums(w)[Len(w)] = Sums(w)[Len(w) - 1] + w[Len(w)]
  BY <1>2, SumsFirst
<1>4. Sums(w)[Len(v)] = Sums(v)[Len(v)]
  BY <1>1, <1>2
<1> QED
  BY <1>1, <1>2, <1>3, <1>4

(* The sum of a sequence without its first value. *)
LEMMA SumsTail ==
    ASSUME NEW v \in Seq(Int), NEW w \in Seq(Int), Len(v) = Len(w) + 1,
           \A i \in 1 .. Len(w) : w[i] = v[i + 1]
    PROVE  Sums(v)[Len(v)] = v[1] + Sums(w)[Len(w)]
<1> DEFINE n == Len(v)
        e == Len(w)
        d == 0 - v[1]
        a == 0 - 1
<1>1. v[1] \in Int /\ d \in Int /\ a \in Int /\ n \in Nat /\ e = n + a /\ e \in Nat /\ 0 = 1 + a
  OBVIOUS
<1>2. Sums(v)[1] = Sums(v)[0] + v[1] /\ Sums(v)[0] = 0 /\ Sums(w)[0] = 0 /\ Sums(v)[n] \in Int
  <2>1. 1 \in 1 .. Len(v) /\ n \in 0 .. Len(v) /\ 1 - 1 = 0
    OBVIOUS
  <2> QED
    BY <2>1, SumsFirst
<1>3. SumsDiffer(v, w, 1, 0, d)
  <2> DEFINE x == v[1]
  <2>1. x \in Int /\ Sums(v)[1] = x /\ d = 0 - x
    BY <1>1, <1>2
  <2> HIDE DEF x, d
  <2>2. 0 = x + d
    BY <2>1
  <2> QED
    BY <1>2, <2>1, <2>2 DEF SumsDiffer
<1>4. SameFrom(v, w, 1, n, a)
  <2> SUFFICES ASSUME NEW i \in (1 + 1) .. n PROVE w[i + a] = v[i]
    BY DEF SameFrom
  <2>1. i - 1 \in 1 .. Len(w) /\ (i - 1) + 1 = i /\ i + a = i - 1
    BY <1>1
  <2>2. w[i - 1] = v[(i - 1) + 1]
    BY <2>1
  <2> QED
    BY <2>1, <2>2
<1>5. 1 \in 0 .. Len(v) /\ n \in 1 .. Len(v) /\ 0 \in Nat /\ e <= Len(w)
  BY <1>1
<1>8. d = 0 - v[1]
  OBVIOUS
<1> HIDE DEF d, a, n, e
<1>6. SumsDiffer(v, w, n, e, d)
  BY <1>1, <1>3, <1>4, <1>5, SumsShift
<1>7. Sums(w)[e] = Sums(v)[n] + d
  BY <1>6 DEF SumsDiffer
<1>9. Sums(v)[n] = v[1] + Sums(w)[e]
  BY <1>1, <1>2, <1>7, <1>8
<1> QED
  BY <1>9 DEF n, e

(* The sum of a sequence in which two values take the place of the first. *)
LEMMA SumsSplit ==
    ASSUME NEW v \in Seq(Int), NEW w \in Seq(Int), v # <<>>, Len(w) = Len(v) + 1,
           w[1] + w[2] = v[1], \A i \in 2 .. Len(v) : w[i + 1] = v[i]
    PROVE  Sums(w)[Len(w)] = Sums(v)[Len(v)]
<1> DEFINE n == Len(v)
        e == Len(w)
<1>1. n \in Nat /\ n >= 1 /\ n + 1 = Len(w) /\ w[1] \in Int /\ w[2] \in Int /\ v[1] \in Int
  OBVIOUS
<1>2. Sums(v)[1] = v[1]
  <2>1. 1 \in 1 .. Len(v) /\ 1 - 1 = 0
    BY <1>1
  <2>2. Sums(v)[1] = Sums(v)[0] + v[1] /\ Sums(v)[0] = 0
    BY <2>1, SumsFirst
  <2> QED
    BY <1>1, <2>2
<1>3. Sums(w)[2] = w[1] + w[2]
  <2>1. 1 \in 1 .. Len(w) /\ 2 \in 1 .. Len(w) /\ 1 - 1 = 0 /\ 2 - 1 = 1
    BY <1>1
  <2>2. Sums(w)[2] = Sums(w)[1] + w[2]
    BY <2>1, SumsFirst
  <2>3. Sums(w)[1] = Sums(w)[0] + w[1] /\ Sums(w)[0] = 0
    BY <2>1, SumsFirst
  <2> QED
    BY <1>1, <2>2, <2>3
<1>4. SumsDiffer(v, w, 1, 2, 0)
  BY <1>1, <1>2, <1>3 DEF SumsDiffer
<1>5. 1 \in 0 .. Len(v) /\ n \in 1 .. Len(v) /\ 2 = 1 + 1 /\ e = n + 1 /\ e \in Nat /\ e <= Len(w)
  BY <1>1
<1>6. SameFrom(v, w, 1, n, 1)
  BY DEF SameFrom
<1> HIDE DEF n, e
<1>7. SumsDiffer(v, w, n, e, 0)
  BY <1>4, <1>5, <1>6, SumsShift
<1>8. Sums(v)[n] \in Int
  <2>1. n \in 0 .. Len(v)
    BY <1>1 DEF n
  <2> QED
    BY <2>1, SumsFirst
<1> QED
  BY <1>7, <1>8 DEF SumsDiffer, n, e

-----------------------------------------------------------------------------
(* The split point *)

WalkStart == [i |-> 0, left |-> 0, right |-> 0, move_left |-> TRUE]

(* What it is for a function to give the walks of find_split_point. *)
IsWalk(g, W, target, n) ==
    g = [i \in 0 .. n |-> IF i = 0 THEN WalkStart ELSE Consumed(g[i - 1], W, target, i)]

(* There is such a function. *)
LEMMA WalkExists ==
    ASSUME NEW W, NEW target, NEW n \in Nat
    PROVE  \E g : IsWalk(g, W, target, n)
<1> DEFINE T == {k \in Nat : ~ \E g : IsWalk(g, W, target, k)}
<1> SUFFICES ASSUME T # {} PROVE FALSE
  OBVIOUS
<1>1. PICK m \in T : \A k \in T : m <= k
  BY LeastNatural
<1>2. m # 0
  <2>1. IsWalk([i \in 0 .. 0 |-> WalkStart], W, target, 0)
    BY DEF IsWalk
  <2> QED
    BY <2>1
<1>3. m \in Nat /\ m - 1 \in Nat /\ ~ (m <= m - 1)
  BY <1>2
<1>4. PICK g : IsWalk(g, W, target, m - 1)
  BY <1>1, <1>3
<1> DEFINE C(s, i) == Consumed(s, W, target, i)
<1>5. g = [i \in 0 .. (m - 1) |-> IF i = 0 THEN WalkStart ELSE C(g[i - 1], i)]
  BY <1>4 DEF IsWalk
<1> DEFINE last == C(g[m - 1], m)
        h == [i \in 0 .. m |-> IF i < m THEN g[i] ELSE last]
<1>6. \A i \in 0 .. m : h[i] = IF i = 0 THEN WalkStart ELSE C(h[i - 1], i)
  <2> SUFFICES ASSUME NEW i \in 0 .. m PROVE h[i] = IF i = 0 THEN WalkStart ELSE C(h[i - 1], i)
    OBVIOUS
  <2>1. i # 0 => i - 1 \in 0 .. m /\ i - 1 < m /\ h[i - 1] = g[i - 1]
    BY <1>3
  <2>2. CASE i = m
    <3>1. h[i] = last /\ i # 0
      BY <1>2, <1>3, <2>2
    <3>2. last = C(g[i - 1], i)
      BY <2>2
    <3> HIDE DEF h, C, last
    <3> QED
      BY <2>1, <3>1, <3>2
  <2>3. CASE i # m
    <3>1. i < m /\ i \in 0 .. (m - 1)
      BY <1>3, <2>3
    <3>2. h[i] = g[i]
      BY <3>1
    <3>3. g[i] = IF i = 0 THEN WalkStart ELSE C(g[i - 1], i)
      BY <1>5, <3>1
    <3> HIDE DEF h, C, last
    <3> QED
      BY <2>1, <3>2, <3>3
  <2> QED
    BY <2>2, <2>3
<1>7. h = [i \in 0 .. m |-> h[i]]
  OBVIOUS
<1> HIDE DEF h
<1>8. IsWalk(h, W, target, m)
  BY <1>6, <1>7 DEF IsWalk
<1> QED
  BY <1>1, <1>3, <1>8

(* After n weights, the first was consumed from the left, and the last from the right when *)
(* it is the turn of the left again. *)
Walks == [i : Nat, left : Int, right : Int, move_left : BOOLEAN]
WalkAt(s, n, length) ==
    /\ s \in Walks /\ s.i <= n
    /\ n = 0 => s.move_left
    /\ n >= 1 => s.i >= 1
    /\ n >= 1 /\ n = length /\ s.move_left => s.i < n
(* Consuming a weight keeps that. *)
LEMMA ConsumedAt ==
    ASSUME NEW W \in Seq(Interval), NEW target, NEW n \in 1 .. Len(W), NEW s,
           WalkAt(s, n - 1, Len(W))
    PROVE  WalkAt(Consumed(s, W, target, n), n, Len(W))
<1>1. /\ s \in Walks /\ s.i \in Nat /\ s.left \in Int /\ s.right \in Int /\ s.move_left \in BOOLEAN
      /\ s.i <= n - 1 /\ (n - 1 = 0 => s.move_left) /\ (n - 1 >= 1 => s.i >= 1)
      /\ n \in Nat /\ n >= 1 /\ Len(W) \in Nat /\ n <= Len(W)
  BY DEF WalkAt, Walks
<1> DEFINE j == Len(W) - (n - 1 - s.i)
        l == s.left + W[s.i + 1].m_weight
        r == s.right + W[j].m_weight
<1>2. s.i + 1 \in 1 .. Len(W) /\ j \in 1 .. Len(W)
  BY <1>1
<1>3. W[s.i + 1] \in Interval /\ W[j] \in Interval
  BY <1>2
<1>4. l \in Int /\ r \in Int
  <2>1. W[s.i + 1].m_weight \in Int /\ W[j].m_weight \in Int
    BY <1>3 DEF Interval
  <2>2. \A a, b \in Int : a + b \in Int
    OBVIOUS
  <2> QED
    BY <1>1, <2>1, <2>2, Zenon
<1>5. Consumed(s, W, target, n) = Turned(s, W, l, r, target, n)
  BY DEF Consumed
<1> HIDE DEF j, l, r
<1>6. CASE s.move_left
  <2> DEFINE b == l # target /\ n < Len(W)
          i == s.i + 1
          t == [s EXCEPT !.i = i, !.left = l, !.move_left = b]
  <2>1. Turned(s, W, l, r, target, n) = t
    BY <1>6 DEF Turned
  <2>2. i \in Nat /\ i = s.i + 1 /\ b \in BOOLEAN
    BY <1>1
  <2>3. n = Len(W) => ~ b
    BY <1>1
  <2> HIDE DEF b, i
  <2>4. t \in Walks /\ t.i = i /\ t.move_left = b
    BY <1>1, <1>4, <2>2 DEF Walks
  <2> HIDE DEF t
  <2>6. t.i = s.i + 1 /\ (n = Len(W) => ~ t.move_left)
    BY <2>2, <2>3, <2>4, Zenon
  <2>5. WalkAt(t, n, Len(W))
    BY <1>1, <2>4, <2>6 DEF WalkAt
  <2> QED
    BY <1>5, <2>1, <2>5
<1>7. CASE ~ s.move_left
  <2> DEFINE t == [s EXCEPT !.right = r, !.move_left = ~ (r # target /\ n < Len(W))]
  <2>1. Turned(s, W, l, r, target, n) = t
    BY <1>7 DEF Turned
  <2>2. t \in Walks /\ t.i = s.i
    BY <1>1, <1>4 DEF Walks
  <2>3. n - 1 >= 1 /\ s.i < n
    BY <1>1, <1>7
  <2> HIDE DEF t
  <2>5. WalkAt(t, n, Len(W))
    BY <1>1, <2>2, <2>3 DEF WalkAt
  <2> QED
    BY <1>5, <2>1, <2>5
<1> QED
  BY <1>6, <1>7

(* The split point leaves an interval on the left. *)
LEMMA SplitPointInside ==
    ASSUME NEW W \in Seq(Interval), W # <<>>, NEW balance
    PROVE  find_split_point(W, balance).index \in 0 .. (Len(W) - 1)
<1> DEFINE target == Half(balance)
        S(g) == [n \in 0 .. Len(W) |-> IF n = 0 THEN WalkStart ELSE Consumed(g[n - 1], W, target, n)]
        c == CHOOSE f : f = S(f)
<1>1. Len(W) \in Nat /\ Len(W) >= 1
  OBVIOUS
<1>2. PICK g : IsWalk(g, W, target, Len(W))
  BY <1>1, WalkExists
<1>3. g = S(g)
  BY <1>2 DEF IsWalk
<1>4. c = S(c)
  BY <1>3
<1>5. find_split_point(W, balance) = SplitPoint(c[Len(W)])
  BY DEF find_split_point, WalkStart
<1> HIDE DEF c, target
<1>6. c[0] = WalkStart /\ \A n \in 1 .. Len(W) : c[n] = Consumed(c[n - 1], W, target, n)
  BY <1>1, <1>4
<1> HIDE DEF S
<1>7. \A n \in 0 .. Len(W) : WalkAt(c[n], n, Len(W))
  <2> DEFINE T == {n \in 0 .. Len(W) : ~ WalkAt(c[n], n, Len(W))}
  <2> SUFFICES ASSUME T # {} PROVE FALSE
    OBVIOUS
  <2>1. T \in SUBSET Nat
    BY <1>1
  <2>2. PICK m \in T : \A n \in T : m <= n
    BY <2>1, LeastNatural
  <2>3. m # 0
    <3>1. WalkStart \in Walks /\ WalkStart.i = 0 /\ WalkStart.move_left = TRUE
      BY DEF WalkStart, Walks
    <3>2. WalkAt(WalkStart, 0, Len(W))
      BY <1>1, <3>1 DEF WalkAt
    <3> QED
      BY <1>6, <2>2, <3>2
  <2>4. m \in 1 .. Len(W) /\ m - 1 \in 0 .. Len(W) /\ ~ (m <= m - 1)
    BY <1>1, <2>2, <2>3
  <2>5. WalkAt(c[m - 1], m - 1, Len(W))
    BY <2>2, <2>4
  <2>6. WalkAt(Consumed(c[m - 1], W, target, m), m, Len(W))
    BY <1>1, <2>4, <2>5, ConsumedAt
  <2>7. c[m] = Consumed(c[m - 1], W, target, m)
    BY <1>6, <2>4
  <2> QED
    BY <2>2, <2>6, <2>7
<1> DEFINE e == c[Len(W)]
<1>8. WalkAt(e, Len(W), Len(W))
  <2>1. Len(W) \in 0 .. Len(W)
    BY <1>1
  <2> QED
    BY <1>7, <2>1
<1> HIDE DEF e
<1>9. SplitPoint(e).index = IF e.move_left THEN e.i ELSE e.i - 1
  BY DEF SplitPoint
<1>10. /\ e.i \in Nat /\ e.move_left \in BOOLEAN /\ e.i <= Len(W) /\ e.i >= 1
       /\ (e.move_left => e.i < Len(W))
  BY <1>1, <1>8 DEF WalkAt, Walks
<1> QED
  BY <1>1, <1>5, <1>9, <1>10 DEF e

-----------------------------------------------------------------------------
(* Intervals and the split points between them *)

(* An interval ends after its start. *)
LEMMA EndOfInterval ==
    ASSUME NEW w \in Interval
    PROVE  w.m_start \in Nat /\ End(w) \in Nat /\ w.m_start < End(w)
<1> DEFINE a == w.m_start
        b == w.m_length
        e == End(w)
<1>1. a \in Nat /\ b \in Nat \ {0} /\ e = a + b
  BY DEF Interval, End
<1> HIDE DEF a, b, e
<1>2. a \in Nat /\ e \in Nat /\ a < e
  BY <1>1
<1> QED
  BY <1>2 DEF a, e

(* What Apart says of the starts and the ends. *)
LEMMA Ordered ==
    ASSUME NEW W \in Seq(Interval), NEW cardinality \in Nat, Apart(W, cardinality)
    PROVE  /\ \A i \in 1 .. Len(W) :
                 /\ W[i] \in Interval /\ W[i].m_start \in Nat /\ W[i].m_length \in Nat \ {0}
                 /\ End(W[i]) = W[i].m_start + W[i].m_length
                 /\ End(W[i]) \in Nat /\ W[i].m_start < End(W[i]) /\ W[i].m_start <= cardinality
           /\ \A i, j \in 1 .. Len(W) : i < j => End(W[i]) <= W[j].m_start
<1>1. DOMAIN W = 1 .. Len(W)
  OBVIOUS
<1>2. ASSUME NEW i \in 1 .. Len(W)
      PROVE  /\ W[i] \in Interval /\ W[i].m_start \in Nat /\ W[i].m_length \in Nat \ {0}
             /\ End(W[i]) = W[i].m_start + W[i].m_length
             /\ W[i].m_start <= cardinality
  BY <1>1 DEF Apart, Interval, End
<1>3. ASSUME NEW i \in 1 .. Len(W)
      PROVE  End(W[i]) \in Nat /\ W[i].m_start < End(W[i])
  BY <1>2, EndOfInterval
<1>4. \A i, j \in 1 .. Len(W) : i < j => End(W[i]) <= W[j].m_start
  BY <1>1 DEF Apart
<1> QED
  BY <1>2, <1>3, <1>4

(* A split point that leaves the intervals up to an index on its left. *)
Between(W, index, at) ==
    /\ index \in -1 .. (Len(W) - 1)
    /\ index >= 0 => W[index + 1].m_start <= at
    /\ index + 1 < Len(W) => at <= W[index + 2].m_start

(* The split point of find_optimum is one, with an interval on its left. *)
LEMMA OptimumBetween ==
    ASSUME NEW W \in Seq(Interval), W # <<>>, NEW cardinality \in Nat, Apart(W, cardinality),
           NEW split, split.index \in 0 .. (Len(W) - 1)
    PROVE  /\ Optimum(W, split, cardinality).cardinality \in Nat
           /\ Optimum(W, split, cardinality).index \in 0 .. (Len(W) - 1)
           /\ Between(W, Optimum(W, split, cardinality).index, Optimum(W, split, cardinality).cardinality)
<1> DEFINE k == split.index
        start == W[k + 1].m_start
        end == End(W[k + 1])
        next == W[k + 2].m_start
        opt == Optimum(W, split, cardinality)
<1>1. Len(W) \in Nat /\ k \in 0 .. (Len(W) - 1) /\ k + 1 \in 1 .. Len(W)
  OBVIOUS
<1>2. start \in Nat /\ end \in Nat /\ start < end
  BY <1>1, Ordered
<1>3. k + 1 < Len(W) => next \in Nat /\ end <= next
  <2>1. k + 1 < Len(W) => k + 2 \in 1 .. Len(W) /\ k + 1 < k + 2
    BY <1>1
  <2> QED
    BY <1>1, <2>1, Ordered
<1>4. ASSUME NEW at, opt = OptimumAt(at, k, split.balance), at \in Nat, start <= at,
             k + 1 < Len(W) => at <= next
      PROVE  opt.cardinality \in Nat /\ opt.index \in 0 .. (Len(W) - 1) /\ Between(W, opt.index, opt.cardinality)
  <2>1. opt.cardinality = at /\ opt.index = k
    BY <1>4 DEF OptimumAt
  <2>2. Between(W, k, at)
    BY <1>1, <1>4 DEF Between
  <2> HIDE DEF opt, k
  <2> QED
    BY <1>1, <1>4, <2>1, <2>2, Zenon
<1>5. CASE Len(W) % 2 = 0
  <2> DEFINE at == rebalancing_paro(W, k, cardinality)
  <2>1. opt = OptimumAt(at, k, split.balance)
    BY <1>5 DEF Optimum
  <2>2. at = IF k + 1 = Len(W) THEN end + cardinality \div 2 ELSE end + (next - end) \div 2
    BY <1>1 DEF rebalancing_paro
  <2>3. at \in Nat /\ start <= at /\ (k + 1 < Len(W) => at <= next)
    <3> HIDE DEF at, k, start, end, next
    <3>1. CASE k + 1 = Len(W)
      BY <1>2, <2>2, <3>1
    <3>2. CASE k + 1 # Len(W)
      <4>1. k + 1 < Len(W)
        BY <1>1, <3>2
      <4>2. next \in Nat /\ end <= next
        BY <1>3, <4>1
      <4>3. at = end + (next - end) \div 2
        BY <2>2, <3>2
      <4> QED
        BY <1>2, <4>2, <4>3
    <3> QED
      BY <3>1, <3>2
  <2> HIDE DEF opt, at, start, next
  <2>5. opt.cardinality \in Nat /\ opt.index \in 0 .. (Len(W) - 1) /\ Between(W, opt.index, opt.cardinality)
    BY <1>4, <2>1, <2>3
  <2> QED
    BY <2>5 DEF opt
<1>6. CASE Len(W) % 2 # 0
  <2> DEFINE at == rebalancing_sparu(W, k, cardinality)
  <2>1. opt = OddOptimum(W, split, at)
    BY <1>6 DEF Optimum
  <2>2. at = start \/ at = end
    BY DEF rebalancing_sparu
  <2> HIDE DEF at
  <2>3. at \in Nat /\ start <= at /\ ~ (at < start) /\ (k + 1 < Len(W) => at <= next)
    <3> HIDE DEF k, start, end, next
    <3> QED
      BY <1>2, <1>3, <2>2
  <2>4. opt = OptimumAt(at, k, split.balance)
    <3> HIDE DEF opt
    <3> QED
      BY <2>1, <2>3 DEF OddOptimum
  <2> HIDE DEF opt, start, next
  <2>5. opt.cardinality \in Nat /\ opt.index \in 0 .. (Len(W) - 1) /\ Between(W, opt.index, opt.cardinality)
    BY <1>4, <2>4, <2>3
  <2> QED
    BY <2>5 DEF opt
<1> QED
  BY <1>5, <1>6

(* Cut intervals belong to the segments they belonged to. *)
SameSections(V, W) ==
    /\ Len(V) = Len(W)
    /\ \A i \in 1 .. Len(W) : V[i].m_associated_segment = W[i].m_associated_segment

(* What the thresholds ask of a split point, and what validate_thresholds finds. *)
Given(lo, hi, W, cardinality) ==
    /\ W \in Seq(Interval) /\ cardinality \in Nat /\ Apart(W, cardinality)
    /\ lo \in Nat /\ hi \in Nat /\ lo <= hi /\ hi <= cardinality
Valid(lo, hi, W, cardinality, r) ==
    /\ r.cardinality \in lo .. hi
    /\ r.W \in Seq(Interval) /\ Apart(r.W, cardinality) /\ SameSections(r.W, W)
    /\ Between(r.W, r.index, r.cardinality)

(* A split point between two intervals. *)
LEMMA KeptValid ==
    ASSUME NEW lo, NEW hi, NEW W, NEW cardinality, Given(lo, hi, W, cardinality),
           NEW at \in lo .. hi, NEW index, Between(W, index, at), NEW balance
    PROVE  Valid(lo, hi, W, cardinality, Adjusted(at, index, balance, W))
BY DEF Given, Valid, Adjusted, SameSections

(* Intervals of which one starts later, or ends sooner. *)
LEMMA ChangedApart ==
    ASSUME NEW W \in Seq(Interval), NEW cardinality \in Nat, Apart(W, cardinality),
           NEW k \in 1 .. Len(W), NEW w \in Interval,
           w.m_start <= cardinality, W[k].m_start <= w.m_start, End(w) <= End(W[k]),
           w.m_associated_segment = W[k].m_associated_segment
    PROVE  LET V == [W EXCEPT ![k] = w]
           IN  V \in Seq(Interval) /\ Apart(V, cardinality) /\ SameSections(V, W)
<1> DEFINE V == [W EXCEPT ![k] = w]
<1>1. V \in Seq(Interval) /\ Len(V) = Len(W) /\ DOMAIN V = 1 .. Len(W) /\ DOMAIN W = 1 .. Len(W)
  OBVIOUS
<1>2. V[k] = w /\ \A i \in 1 .. Len(W) : i # k => V[i] = W[i]
  OBVIOUS
<1> HIDE DEF V
<1>3. End(w) \in Nat /\ w.m_start \in Nat
  BY EndOfInterval
<1>4. \A i \in 1 .. Len(W) : V[i].m_start <= cardinality /\ V[i] \in Interval
  BY <1>2, Ordered
<1>5. \A i \in 1 .. Len(W) : V[i].m_associated_segment = W[i].m_associated_segment
  BY <1>2
<1>6. ASSUME NEW i \in 1 .. Len(W), NEW j \in 1 .. Len(W), i < j
      PROVE  End(V[i]) <= V[j].m_start
  <2>1. End(W[i]) <= W[j].m_start /\ End(W[i]) \in Nat /\ W[j].m_start \in Nat
    BY <1>6, Ordered
  <2>2. End(V[i]) = End(W[i]) \/ (i = k /\ V[i] = w)
    BY <1>2
  <2>3. V[j].m_start = W[j].m_start \/ (j = k /\ V[j] = w)
    BY <1>2
  <2>4. End(V[i]) <= End(W[i]) /\ End(V[i]) \in Nat
    BY <1>3, <2>1, <2>2
  <2>5. W[j].m_start <= V[j].m_start /\ V[j].m_start \in Nat
    BY <1>3, <2>1, <2>3
  <2> DEFINE a == End(V[i])
          b == End(W[i])
          c == W[j].m_start
          d == V[j].m_start
  <2>6. a \in Nat /\ b \in Nat /\ c \in Nat /\ d \in Nat /\ a <= b /\ b <= c /\ c <= d
    BY <2>1, <2>4, <2>5
  <2> HIDE DEF a, b, c, d
  <2>7. a <= d
    BY <2>6
  <2> QED
    BY <2>7 DEF a, d
<1>7. ASSUME NEW i \in 1 .. Len(W), NEW j \in 1 .. Len(W), i < j
      PROVE  V[i].m_associated_segment # V[j].m_associated_segment
  <2>1. W[i].m_associated_segment # W[j].m_associated_segment
    BY <1>1, <1>7 DEF Apart
  <2> QED
    BY <1>5, <2>1, Zenon
<1>8. Apart(V, cardinality)
  BY <1>1, <1>4, <1>6, <1>7 DEF Apart
<1>9. SameSections(V, W)
  BY <1>1, <1>5 DEF SameSections
<1> QED
  BY <1>1, <1>8, <1>9 DEF V

(* An interval, cut at a point inside it. *)
LEMMA CutInterval ==
    ASSUME NEW v \in Interval, NEW at \in Nat, v.m_start < at, at < End(v)
    PROVE  LET right == [v EXCEPT !.m_start = at, !.m_length = End(v) - at]
               left == [v EXCEPT !.m_length = at - v.m_start]
           IN  /\ right \in Interval /\ right.m_start = at /\ End(right) = End(v)
               /\ right.m_associated_segment = v.m_associated_segment
               /\ left \in Interval /\ left.m_start = v.m_start /\ End(left) = at
               /\ left.m_associated_segment = v.m_associated_segment
<1> DEFINE e == End(v)
        s == v.m_start
        rest == e - at
        kept == at - s
        right == [v EXCEPT !.m_start = at, !.m_length = rest]
        left == [v EXCEPT !.m_length = kept]
<1>1. e \in Nat /\ s \in Nat /\ s < at /\ at < e
  BY EndOfInterval
<1> HIDE DEF e, s
<1>2. rest \in Nat \ {0} /\ kept \in Nat \ {0} /\ at + rest = e /\ s + kept = at
  BY <1>1
<1> HIDE DEF rest, kept
<1>3. /\ right \in Interval /\ right.m_start = at /\ right.m_length = rest
      /\ right.m_associated_segment = v.m_associated_segment
  BY <1>2 DEF Interval
<1>4. /\ left \in Interval /\ left.m_start = v.m_start /\ left.m_length = kept
      /\ left.m_associated_segment = v.m_associated_segment
  BY <1>2 DEF Interval
<1> HIDE DEF left, right
<1>5. End(right) = e
  BY <1>2, <1>3 DEF End
<1>6. End(left) = at
  BY <1>2, <1>4 DEF End, s
<1> QED
  BY <1>3, <1>4, <1>5, <1>6 DEF left, right, rest, kept, e, s

(* An interval that the split point cuts, kept by the right part. *)
LEMMA CutRightValid ==
    ASSUME NEW lo, NEW hi, NEW W, NEW cardinality, Given(lo, hi, W, cardinality),
           NEW at \in lo .. hi, NEW index \in 0 .. (Len(W) - 1), NEW balance,
           W[index + 1].m_start < at, at < End(W[index + 1])
    PROVE  Valid(lo, hi, W, cardinality, Adjusted(at, index - 1, balance, CutRight(W, index, at)))
<1> DEFINE k == index + 1
        w == [W[k] EXCEPT !.m_start = at, !.m_length = End(W[k]) - at]
        V == [W EXCEPT ![k] = w]
        r == Adjusted(at, index - 1, balance, V)
<1>1. W \in Seq(Interval) /\ cardinality \in Nat /\ Apart(W, cardinality)
  BY DEF Given
<1>2. at \in Nat /\ at <= cardinality
  BY DEF Given
<1>3. k \in 1 .. Len(W) /\ Len(W) \in Nat
  BY <1>1
<1>4. W[k] \in Interval /\ W[k].m_start \in Nat /\ End(W[k]) \in Nat
  BY <1>1, <1>3, Ordered
<1>5. /\ w \in Interval /\ w.m_start = at /\ End(w) = End(W[k])
      /\ w.m_associated_segment = W[k].m_associated_segment
  BY <1>2, <1>4, CutInterval
<1>6. w.m_start <= cardinality /\ W[k].m_start <= w.m_start /\ End(w) <= End(W[k])
  BY <1>2, <1>4, <1>5
<1>7. CutRight(W, index, at) = V
  BY DEF CutRight
<1> HIDE DEF w
<1>8. V[k] = w /\ (\A i \in 1 .. Len(W) : i # k => V[i] = W[i]) /\ Len(V) = Len(W)
  BY <1>1, <1>3
<1>9. V \in Seq(Interval) /\ Apart(V, cardinality) /\ SameSections(V, W)
  BY <1>1, <1>3, <1>5, <1>6, ChangedApart
<1> HIDE DEF V
<1>10. index - 1 >= 0 => V[(index - 1) + 1].m_start <= at
  <2> SUFFICES ASSUME index - 1 >= 0 PROVE V[index].m_start <= at
    BY <1>3
  <2>1. index \in 1 .. Len(W) /\ index # k /\ index < k
    BY <1>3
  <2>2. End(W[index]) <= W[k].m_start /\ W[index].m_start < End(W[index])
        /\ W[index].m_start \in Nat /\ End(W[index]) \in Nat
    BY <1>1, <1>3, <2>1, Ordered
  <2>3. W[k].m_start < at
    OBVIOUS
  <2>4. W[index].m_start <= at
    BY <1>2, <1>4, <2>2, <2>3
  <2> QED
    BY <1>8, <2>1, <2>4
<1>11. (index - 1) + 2 = k /\ at <= V[k].m_start
  BY <1>2, <1>3, <1>5, <1>8
<1>12. index - 1 \in -1 .. (Len(V) - 1)
  BY <1>3, <1>8
<1>13. Between(V, index - 1, at)
  BY <1>10, <1>11, <1>12 DEF Between
<1>14. r.cardinality = at /\ r.index = index - 1 /\ r.W = V
  BY DEF Adjusted
<1> HIDE DEF r
<1>15. Valid(lo, hi, W, cardinality, r)
  BY <1>9, <1>13, <1>14 DEF Valid
<1> QED
  BY <1>7, <1>15 DEF r

(* An interval that the split point cuts, kept by the left part. *)
LEMMA CutLeftValid ==
    ASSUME NEW lo, NEW hi, NEW W, NEW cardinality, Given(lo, hi, W, cardinality),
           NEW at \in lo .. hi, NEW index \in 0 .. (Len(W) - 1), NEW balance,
           W[index + 1].m_start < at, at < End(W[index + 1])
    PROVE  Valid(lo, hi, W, cardinality, Adjusted(at, index, balance, CutLeft(W, index, at)))
<1> DEFINE k == index + 1
        w == [W[k] EXCEPT !.m_length = at - W[k].m_start]
        V == [W EXCEPT ![k] = w]
        r == Adjusted(at, index, balance, V)
<1>1. W \in Seq(Interval) /\ cardinality \in Nat /\ Apart(W, cardinality)
  BY DEF Given
<1>2. at \in Nat /\ at <= cardinality
  BY DEF Given
<1>3. k \in 1 .. Len(W) /\ Len(W) \in Nat
  BY <1>1
<1>4. /\ W[k] \in Interval /\ W[k].m_start \in Nat /\ End(W[k]) \in Nat
      /\ W[k].m_start <= cardinality
  BY <1>1, <1>3, Ordered
<1>5. /\ w \in Interval /\ w.m_start = W[k].m_start /\ End(w) = at
      /\ w.m_associated_segment = W[k].m_associated_segment
  BY <1>2, <1>4, CutInterval
<1>6. w.m_start <= cardinality /\ W[k].m_start <= w.m_start /\ End(w) <= End(W[k])
  BY <1>2, <1>4, <1>5
<1>7. CutLeft(W, index, at) = V
  BY DEF CutLeft
<1> HIDE DEF w
<1>8. V[k] = w /\ (\A i \in 1 .. Len(W) : i # k => V[i] = W[i]) /\ Len(V) = Len(W)
  BY <1>1, <1>3
<1>9. V \in Seq(Interval) /\ Apart(V, cardinality) /\ SameSections(V, W)
  BY <1>1, <1>3, <1>5, <1>6, ChangedApart
<1> HIDE DEF V
<1>10. index + 1 < Len(V) => at <= V[index + 2].m_start
  <2> DEFINE n == index + 2
  <2> SUFFICES ASSUME index + 1 < Len(V) PROVE at <= V[n].m_start
    BY <1>3
  <2>1. n \in 1 .. Len(W) /\ n # k /\ k < n
    BY <1>3, <1>8
  <2>2. End(W[k]) <= W[n].m_start /\ W[n].m_start \in Nat
    BY <1>1, <1>3, <2>1, Ordered
  <2>3. at < End(W[k])
    OBVIOUS
  <2> HIDE DEF n
  <2>4. at <= W[n].m_start
    BY <1>2, <1>4, <2>2, <2>3
  <2> QED
    BY <1>8, <2>1, <2>4
<1>11. V[index + 1].m_start <= at
  BY <1>2, <1>4, <1>5, <1>8
<1>12. index \in -1 .. (Len(V) - 1)
  BY <1>3, <1>8
<1>13. Between(V, index, at)
  BY <1>10, <1>11, <1>12 DEF Between
<1>14. r.cardinality = at /\ r.index = index /\ r.W = V
  BY DEF Adjusted
<1> HIDE DEF r
<1>15. Valid(lo, hi, W, cardinality, r)
  BY <1>9, <1>13, <1>14 DEF Valid
<1> QED
  BY <1>7, <1>15 DEF r

-----------------------------------------------------------------------------
(* The thresholds *)

(* The first of a set of indices. *)
LEMMA FirstIs ==
    ASSUME NEW S \in SUBSET Nat, S # {}, NEW default
    PROVE  FirstOr(S, default) \in S /\ \A j \in S : FirstOr(S, default) <= j
<1>1. \E i \in S : \A j \in S : i <= j
  BY LeastNatural
<1>2. FirstOr(S, default) = CHOOSE i \in S : \A j \in S : i <= j
  BY DEF FirstOr
<1> QED
  BY <1>1, <1>2
(* The last of a set of indices. *)
LEMMA LastIs ==
    ASSUME NEW n \in Nat, NEW S \in SUBSET (0 .. n), S # {}, NEW default
    PROVE  LastOr(S, default) \in S /\ \A j \in S : j <= LastOr(S, default)
<1> DEFINE T == {k \in Nat : n - k \in S}
<1>1. T # {}
  <2>1. PICK i \in S : TRUE
    OBVIOUS
  <2>2. i \in 0 .. n
    OBVIOUS
  <2>3. n - i \in Nat /\ n - (n - i) = i
    BY <2>2
  <2> QED
    BY <2>3
<1>2. PICK m \in T : \A k \in T : m <= k
  BY <1>1, LeastNatural
<1>3. m \in Nat /\ n - m \in S
  OBVIOUS
<1>4. \A j \in S : j <= n - m
  <2> SUFFICES ASSUME NEW j \in S PROVE j <= n - m
    OBVIOUS
  <2>1. j \in 0 .. n
    OBVIOUS
  <2>2. n - j \in Nat /\ n - (n - j) = j
    BY <2>1
  <2>3. m <= n - j
    BY <1>2, <2>2
  <2> QED
    BY <1>3, <2>1, <2>3
<1>5. LastOr(S, default) = CHOOSE i \in S : \A j \in S : j <= i
  BY DEF LastOr
<1> QED
  BY <1>3, <1>4, <1>5

(* Where the loop of ensure_lower_threshold stops: after the intervals that begin before lo. *)
Stopped(W, lo, index) ==
    /\ index \in 0 .. Len(W)
    /\ index = Len(W) => W[Len(W)].m_start < lo
    /\ index < Len(W) => W[index + 1].m_start < lo
    /\ index + 1 < Len(W) => lo <= W[index + 2].m_start
(* So does the loop of ensure_lower_threshold. *)
LEMMA GrownStops ==
    ASSUME NEW lo, NEW hi, NEW W, NEW cardinality, Given(lo, hi, W, cardinality),
           NEW from \in 0 .. (Len(W) - 1), W[from + 1].m_start < lo
    PROVE  Stopped(W, lo, GrownFrom(W, lo, from))
<1> DEFINE S == Reaching(W, lo, from)
        stop == FirstOr(S, Len(W))
        g == GrownFrom(W, lo, from)
<1>1. W \in Seq(Interval) /\ cardinality \in Nat /\ Apart(W, cardinality) /\ lo \in Nat
  BY DEF Given
<1>2. Len(W) \in Nat /\ from \in Nat /\ from < Len(W)
  BY <1>1
<1>3. \A i \in 1 .. Len(W) : W[i].m_start \in Nat /\ End(W[i]) \in Nat /\ W[i].m_start < End(W[i])
  BY <1>1, Ordered
<1>4. S \in SUBSET ((from + 1) .. (Len(W) - 1))
  BY DEF Reaching
<1>5. \A i \in (from + 1) .. (Len(W) - 1) :
         /\ i \in S => W[i + 1].m_start >= lo \/ End(W[i + 1]) >= lo
         /\ i \notin S => ~ (W[i + 1].m_start >= lo)
  BY DEF Reaching
<1>6. g = GrownTo(W, lo, stop)
  BY DEF GrownFrom
<1>7. ASSUME NEW i \in from .. (Len(W) - 1), i \notin S
      PROVE  W[i + 1].m_start < lo
  <2>1. CASE i = from
    BY <2>1
  <2>2. CASE i # from
    <3>1. i \in (from + 1) .. (Len(W) - 1) /\ i + 1 \in 1 .. Len(W)
      BY <1>2, <2>2
    <3>2. ~ (W[i + 1].m_start >= lo)
      BY <1>5, <1>7, <3>1
    <3> QED
      BY <1>1, <1>3, <3>1, <3>2
  <2> QED
    BY <2>1, <2>2
<1> HIDE DEF S
<1>8. CASE S = {}
  <2>1. stop = Len(W)
    BY <1>8 DEF FirstOr
  <2>2. g = Len(W)
    <3> HIDE DEF g, stop
    <3> QED
      BY <1>2, <1>6, <2>1 DEF GrownTo
  <2>3. Len(W) - 1 \in from .. (Len(W) - 1) /\ (Len(W) - 1) + 1 = Len(W)
    BY <1>2
  <2>4. W[Len(W)].m_start < lo
    BY <1>7, <1>8, <2>3
  <2> HIDE DEF g
  <2>5. Stopped(W, lo, g)
    BY <1>2, <2>2, <2>4 DEF Stopped
  <2> QED
    BY <2>5 DEF g
<1>9. CASE S # {}
  <2>1. stop \in S /\ \A j \in S : stop <= j
    <3>1. S \in SUBSET Nat
      BY <1>2, <1>4
    <3> QED
      BY <1>9, <3>1, FirstIs
  <2>2. stop \in (from + 1) .. (Len(W) - 1)
    BY <1>4, <2>1
  <2> HIDE DEF stop
  <2>3. stop \in Nat /\ stop >= 1 /\ stop < Len(W) /\ stop + 1 \in 1 .. Len(W) /\ stop - 1 \in from .. (Len(W) - 1)
    BY <1>2, <2>2
  <2>4. CASE W[stop + 1].m_start >= lo
    <3>1. g = stop - 1
      BY <1>6, <2>3, <2>4 DEF GrownTo
    <3>2. stop - 1 \notin S
      BY <2>1, <2>3
    <3>3. W[stop].m_start < lo
      <4>1. (stop - 1) + 1 = stop
        BY <2>3
      <4> QED
        BY <1>7, <2>3, <3>2, <4>1
    <3>4. lo <= W[stop + 1].m_start
      BY <1>1, <1>3, <2>3, <2>4
    <3>5. (stop - 1) + 1 = stop /\ (stop - 1) + 2 = stop + 1 /\ stop - 1 \in 0 .. Len(W) /\ stop - 1 # Len(W)
      BY <1>2, <2>3
    <3>6. Stopped(W, lo, stop - 1)
      BY <3>3, <3>4, <3>5 DEF Stopped
    <3> HIDE DEF g
    <3>7. Stopped(W, lo, g)
      BY <3>1, <3>6
    <3> QED
      BY <3>7 DEF g
  <2>5. CASE ~ (W[stop + 1].m_start >= lo)
    <3>1. g = stop
      BY <1>6, <2>3, <2>5 DEF GrownTo
    <3>2. W[stop + 1].m_start < lo
      BY <1>1, <1>3, <2>3, <2>5
    <3>3. End(W[stop + 1]) >= lo
      BY <1>5, <2>1, <2>2, <2>5
    <3>4. stop + 1 < Len(W) => lo <= W[stop + 2].m_start
      <4> SUFFICES ASSUME stop + 1 < Len(W) PROVE lo <= W[stop + 2].m_start
        OBVIOUS
      <4>1. stop + 2 \in 1 .. Len(W) /\ stop + 1 < stop + 2
        BY <1>2, <2>3
      <4>2. End(W[stop + 1]) <= W[stop + 2].m_start
        BY <1>1, <2>3, <4>1, Ordered
      <4> QED
        BY <1>1, <1>3, <2>3, <3>3, <4>1, <4>2
    <3>5. stop \in 0 .. Len(W) /\ stop # Len(W)
      BY <1>2, <2>3
    <3>6. Stopped(W, lo, stop)
      BY <3>2, <3>4, <3>5 DEF Stopped
    <3> HIDE DEF g
    <3>7. Stopped(W, lo, g)
      BY <3>1, <3>6
    <3> QED
      BY <3>7 DEF g
  <2> QED
    BY <2>4, <2>5
<1> QED
  BY <1>8, <1>9

(* Growing the left part to lo. *)
LEMMA GrownValid ==
    ASSUME NEW lo, NEW hi, NEW W, NEW cardinality, Given(lo, hi, W, cardinality),
           NEW index, Stopped(W, lo, index), index < Len(W), NEW taken
    PROVE  Valid(lo, hi, W, cardinality, Grown(lo, hi, W, index, taken, W[index + 1]))
<1> DEFINE w == W[index + 1]
        start == w.m_start
        end == End(w)
        next == W[index + 2].m_start
        r == Grown(lo, hi, W, index, taken, w)
<1>1. /\ W \in Seq(Interval) /\ cardinality \in Nat /\ Apart(W, cardinality)
      /\ lo \in Nat /\ hi \in Nat /\ lo <= hi
  BY DEF Given
<1>2. Len(W) \in Nat /\ index \in 0 .. (Len(W) - 1) /\ index + 1 \in 1 .. Len(W) /\ start < lo
  BY <1>1 DEF Stopped
<1>3. start \in Nat /\ end \in Nat
  BY <1>1, <1>2, Ordered
<1>4. index + 1 < Len(W) => next \in Nat /\ end <= next /\ lo <= next
  <2>1. index + 1 < Len(W) => index + 2 \in 1 .. Len(W) /\ index + 1 < index + 2
    BY <1>2
  <2>2. index + 1 < Len(W) => lo <= next
    BY DEF Stopped
  <2> QED
    BY <1>1, <1>2, <2>1, <2>2, Ordered
<1>5. ASSUME NEW at \in lo .. hi, index + 1 < Len(W) => at <= next
      PROVE  Valid(lo, hi, W, cardinality, Adjusted(at, index, taken, W))
  <2>1. start <= at
    BY <1>1, <1>2, <1>3
  <2>2. Between(W, index, at)
    <3>1. index \in -1 .. (Len(W) - 1)
      BY <1>2
    <3> QED
      BY <1>5, <2>1, <3>1 DEF Between
  <2> QED
    BY <2>2, KeptValid
<1>6. CASE ~ (start < lo /\ end > lo)
  <2>1. r = Adjusted(lo, index, taken, W)
    BY <1>6 DEF Grown
  <2>2. lo \in lo .. hi
    BY <1>1
  <2> QED
    BY <1>4, <1>5, <2>1, <2>2
<1>7. CASE start < lo /\ end > lo /\ end <= hi
  <2> DEFINE at == IF taken >= 0 THEN end ELSE IF index + 1 < Len(W) /\ next < hi THEN next ELSE hi
  <2>1. r = Adjusted(at, index, taken, W)
    BY <1>7 DEF Grown
  <2>2. at \in lo .. hi /\ (index + 1 < Len(W) => at <= next)
    <3> HIDE DEF start, end, next
    <3> QED
      BY <1>1, <1>3, <1>4, <1>7
  <2> HIDE DEF at
  <2> QED
    BY <1>5, <2>1, <2>2
<1>8. CASE start < lo /\ end > lo /\ ~ (end <= hi)
  <2>1. lo \in lo .. hi /\ lo < end
    BY <1>1, <1>3, <1>8
  <2>2. CASE RightIsLarger(w, lo)
    <3>1. r = Adjusted(lo, index - 1, taken - w.m_weight, CutRight(W, index, lo))
      BY <1>8, <2>2 DEF Grown
    <3> QED
      BY <1>2, <1>8, <2>1, <3>1, CutRightValid
  <2>3. CASE ~ RightIsLarger(w, lo)
    <3>1. r = Adjusted(lo, index, taken, CutLeft(W, index, lo))
      BY <1>8, <2>3 DEF Grown
    <3> QED
      BY <1>2, <1>8, <2>1, <3>1, CutLeftValid
  <2> QED
    BY <2>2, <2>3
<1> QED
  BY <1>6, <1>7, <1>8

(* ensure_lower_threshold finds a valid split point. *)
LEMMA LowerValid ==
    ASSUME NEW lo, NEW hi, NEW W, NEW cardinality, Given(lo, hi, W, cardinality), NEW opt,
           opt.index \in 0 .. (Len(W) - 1), W[opt.index + 1].m_start < lo
    PROVE  Valid(lo, hi, W, cardinality, ensure_lower_threshold(lo, hi, W, opt))
<1> DEFINE from == opt.index
        index == GrownFrom(W, lo, from)
        taken == opt.balance + WeightsOf(W, (from + 1) .. index)
        r == ensure_lower_threshold(lo, hi, W, opt)
<1>1. Stopped(W, lo, index)
  BY GrownStops
<1>2. r = LowerAt(lo, hi, W, index, taken)
  <2>1. opt.index # -1
    BY DEF Given
  <2> QED
    BY <2>1 DEF ensure_lower_threshold, LowerFrom, LowerUpTo
<1> HIDE DEF index, taken, from
<1>3. CASE index = Len(W)
  <2> DEFINE at == IF taken < 0 THEN hi ELSE lo
  <2>1. r = Adjusted(at, index - 1, taken, W)
    BY <1>2, <1>3 DEF LowerAt
  <2>2. at \in lo .. hi
    BY DEF Given
  <2>3. W \in Seq(Interval) /\ Len(W) \in Nat /\ Len(W) >= 1 /\ lo \in Nat
    BY DEF Given
  <2>4. W[Len(W)].m_start < lo /\ W[Len(W)].m_start \in Nat
    <3>1. Len(W) \in 1 .. Len(W)
      BY <2>3
    <3>2. W[Len(W)] \in Interval
      BY <2>3, <3>1
    <3> QED
      BY <1>1, <1>3, <3>2 DEF Stopped, Interval
  <2>5. W[Len(W)].m_start <= at
    BY <2>2, <2>3, <2>4 DEF Given
  <2>6. (Len(W) - 1) + 1 = Len(W) /\ Len(W) - 1 \in -1 .. (Len(W) - 1) /\ ~ (Len(W) < Len(W))
    BY <2>3
  <2> HIDE DEF at
  <2>7. Between(W, Len(W) - 1, at)
    BY <2>5, <2>6 DEF Between
  <2>8. Valid(lo, hi, W, cardinality, Adjusted(at, Len(W) - 1, taken, W))
    BY <2>2, <2>7, KeptValid
  <2> HIDE DEF r
  <2>9. Valid(lo, hi, W, cardinality, r)
    BY <1>3, <2>1, <2>8, Zenon
  <2> QED
    BY <2>9 DEF r
<1>4. CASE index # Len(W)
  <2>1. r = Grown(lo, hi, W, index, taken, W[index + 1])
    BY <1>2, <1>4 DEF LowerAt
  <2>2. index < Len(W)
    BY <1>1, <1>4 DEF Stopped, Given
  <2>3. Valid(lo, hi, W, cardinality, Grown(lo, hi, W, index, taken, W[index + 1]))
    BY <1>1, <2>2, GrownValid
  <2> HIDE DEF r
  <2>4. Valid(lo, hi, W, cardinality, r)
    BY <2>1, <2>3
  <2> QED
    BY <2>4 DEF r
<1> QED
  BY <1>3, <1>4

(* The last interval that begins before hi. *)
Kept(W, hi, index) ==
    /\ index \in 0 .. (Len(W) - 1)
    /\ W[index + 1].m_start < hi
    /\ index + 1 < Len(W) => hi <= W[index + 2].m_start
(* Shrinking the left part to hi, after the intervals that begin before it. *)
LEMMA ShortenedValid ==
    ASSUME NEW lo, NEW hi, NEW W, NEW cardinality, Given(lo, hi, W, cardinality),
           NEW index, Kept(W, hi, index), NEW balance
    PROVE  Valid(lo, hi, W, cardinality, Shortened(lo, hi, W, index, balance, W[index + 1]))
<1> DEFINE w == W[index + 1]
        start == w.m_start
        end == End(w)
        next == W[index + 2].m_start
        before == End(W[index])
        r == Shortened(lo, hi, W, index, balance, w)
<1>1. /\ W \in Seq(Interval) /\ cardinality \in Nat /\ Apart(W, cardinality)
      /\ lo \in Nat /\ hi \in Nat /\ lo <= hi
  BY DEF Given
<1>2. Len(W) \in Nat /\ index \in 0 .. (Len(W) - 1) /\ index + 1 \in 1 .. Len(W) /\ start < hi
  BY <1>1 DEF Kept
<1>3. start \in Nat /\ end \in Nat /\ start < end
  BY <1>1, <1>2, Ordered
<1>4. index + 1 < Len(W) => next \in Nat /\ hi <= next
  <2>1. index + 1 < Len(W) => index + 2 \in 1 .. Len(W)
    BY <1>2
  <2>2. index + 1 < Len(W) => hi <= next
    BY DEF Kept
  <2> QED
    BY <1>1, <1>2, <2>1, <2>2, Ordered
<1>5. index > 0 => before \in Nat /\ W[index].m_start \in Nat /\ W[index].m_start < before /\ before <= start
  <2>1. index > 0 => index \in 1 .. Len(W) /\ index < index + 1
    BY <1>2
  <2> QED
    BY <1>1, <1>2, <2>1, Ordered
<1>6. CASE end <= hi
  <2> DEFINE at == IF balance.removed < 0 THEN Max2(lo, end) ELSE hi
  <2>1. r = Adjusted(at, index, balance.left, W)
    BY <1>6 DEF Shortened
  <2>2. at \in lo .. hi /\ start <= at /\ (index + 1 < Len(W) => at <= next)
    <3> HIDE DEF start, end, next
    <3> QED
      BY <1>1, <1>2, <1>3, <1>4, <1>6 DEF Max2
  <2> HIDE DEF at
  <2>3. Between(W, index, at)
    <3>1. index \in -1 .. (Len(W) - 1)
      BY <1>2
    <3> QED
      BY <2>2, <3>1 DEF Between
  <2> QED
    BY <2>1, <2>2, <2>3, KeptValid
<1>7. CASE ~ (end <= hi) /\ start >= lo
  <2> DEFINE at == IF balance.removed + w.m_weight >= 0 THEN start
                   ELSE IF index > 0 THEN Max2(before, lo) ELSE lo
  <2>1. r = Adjusted(at, index - 1, balance.left - w.m_weight, W)
    BY <1>7 DEF Shortened
  <2>2. at \in lo .. hi /\ at <= start /\ (index > 0 => W[index].m_start <= at)
    <3> DEFINE begin == W[index].m_start
    <3>1. index > 0 => before \in Nat /\ begin \in Nat /\ begin < before /\ before <= start
      BY <1>5
    <3> HIDE DEF start, end, before, begin
    <3>2. at \in lo .. hi /\ at <= start /\ (index > 0 => begin <= at)
      BY <1>1, <1>2, <1>3, <1>7, <3>1 DEF Max2
    <3> QED
      BY <3>2 DEF begin
  <2> HIDE DEF at
  <2>3. Between(W, index - 1, at)
    <3>1. /\ index - 1 \in -1 .. (Len(W) - 1) /\ (index - 1) + 1 = index /\ (index - 1) + 2 = index + 1
          /\ (index - 1 >= 0 => index > 0)
      BY <1>2
    <3> QED
      BY <2>2, <3>1 DEF Between
  <2> QED
    BY <2>1, <2>2, <2>3, KeptValid
<1>8. CASE ~ (end <= hi) /\ ~ (start >= lo)
  <2>1. hi \in lo .. hi /\ hi < end /\ start < hi
    BY <1>1, <1>2, <1>3, <1>8
  <2>2. CASE RightIsLarger(w, hi)
    <3>1. r = Adjusted(hi, index - 1, balance.left - w.m_weight, CutRight(W, index, hi))
      BY <1>8, <2>2 DEF Shortened
    <3> QED
      BY <1>2, <2>1, <3>1, CutRightValid
  <2>3. CASE ~ RightIsLarger(w, hi)
    <3>1. r = Adjusted(hi, index, balance.left, CutLeft(W, index, hi))
      BY <1>8, <2>3 DEF Shortened
    <3> QED
      BY <1>2, <2>1, <3>1, CutLeftValid
  <2> QED
    BY <2>2, <2>3
<1> QED
  BY <1>6, <1>7, <1>8

(* ensure_upper_threshold finds a valid split point. *)
LEMMA UpperValid ==
    ASSUME NEW lo, NEW hi, NEW W, NEW cardinality, Given(lo, hi, W, cardinality), NEW opt,
           opt.index \in 0 .. (Len(W) - 1), opt.cardinality \in Nat, hi < opt.cardinality,
           Between(W, opt.index, opt.cardinality)
    PROVE  Valid(lo, hi, W, cardinality, ensure_upper_threshold(lo, hi, W, opt))
<1> DEFINE S == StillKept(W, hi, 0 .. opt.index)
        index == LastOr(S, -1)
        balance == Removing(opt.balance, WeightsOf(W, (index + 1) .. opt.index))
        r == ensure_upper_threshold(lo, hi, W, opt)
<1>1. /\ W \in Seq(Interval) /\ cardinality \in Nat /\ Apart(W, cardinality)
      /\ lo \in Nat /\ hi \in Nat /\ lo <= hi /\ Len(W) \in Nat
      /\ opt.index \in Nat /\ opt.index < Len(W)
  BY DEF Given
<1>2. \A i \in 1 .. Len(W) : W[i].m_start \in Nat
  BY <1>1, Ordered
<1>3. r = UpperAt(lo, hi, W, index, balance)
  BY DEF ensure_upper_threshold, UpperFrom
<1>4. S \in SUBSET (0 .. opt.index) /\ \A i \in 0 .. opt.index : i \in S <=> W[i + 1].m_start < hi
  BY DEF StillKept
<1>5. ASSUME NEW i \in 0 .. (Len(W) - 1), i \notin S
      PROVE  i <= opt.index + 1 => hi <= W[i + 1].m_start
  <2>1. i + 1 \in 1 .. Len(W) /\ i \in Nat
    BY <1>1
  <2>2. CASE i <= opt.index
    BY <1>1, <1>2, <1>4, <1>5, <2>1, <2>2
  <2>3. CASE i = opt.index + 1
    <3>1. opt.cardinality <= W[opt.index + 2].m_start
      BY <1>1, <2>1, <2>3 DEF Between
    <3>2. opt.index + 2 = i + 1
      BY <1>1, <2>3
    <3> QED
      BY SMTT(30), <1>1, <1>2, <2>1, <3>1, <3>2
  <2> QED
    BY <1>1, <2>1, <2>2, <2>3
<1> HIDE DEF S, balance
<1>6. CASE S = {}
  <2> DEFINE at == IF balance.removed < 0 THEN lo ELSE hi
  <2>1. index = -1
    BY <1>6 DEF LastOr
  <2>2. r = Adjusted(at, -1, balance.left, W)
    <3> HIDE DEF index, r
    <3> QED
      BY <1>3, <2>1 DEF UpperAt
  <2>3. at \in lo .. hi
    BY <1>1
  <2>4. Between(W, -1, at)
    <3>1. 0 \in 0 .. (Len(W) - 1) /\ 0 + 1 \in 1 .. Len(W) /\ 0 <= opt.index + 1
      BY <1>1
    <3>2. hi <= W[0 + 1].m_start
      BY <1>5, <1>6, <3>1
    <3>3. at <= W[1].m_start
      BY <1>1, <1>2, <3>1, <3>2
    <3>4. -1 \in -1 .. (Len(W) - 1) /\ ~ (-1 >= 0) /\ -1 + 2 = 1
      BY <1>1
    <3> HIDE DEF at
    <3> QED
      BY <3>3, <3>4 DEF Between
  <2> HIDE DEF at, r
  <2>5. Valid(lo, hi, W, cardinality, r)
    BY <2>2, <2>3, <2>4, KeptValid
  <2> QED
    BY <2>5 DEF r
<1>7. CASE S # {}
  <2>1. index \in S /\ \A j \in S : j <= index
    BY <1>1, <1>4, <1>7, LastIs
  <2> HIDE DEF index
  <2>2. index \in 0 .. opt.index /\ W[index + 1].m_start < hi /\ index \in 0 .. (Len(W) - 1) /\ ~ (index < 0)
    BY <1>1, <1>4, <2>1
  <2>3. index + 1 < Len(W) => hi <= W[index + 2].m_start
    <3> SUFFICES ASSUME index + 1 < Len(W) PROVE hi <= W[index + 2].m_start
      OBVIOUS
    <3> DEFINE i == index + 1
    <3>1. i \in 0 .. (Len(W) - 1) /\ i <= opt.index + 1 /\ ~ (i <= index) /\ i + 1 = index + 2
      BY <1>1, <2>2
    <3>2. i \notin S
      BY <2>1, <3>1
    <3> HIDE DEF i
    <3>3. hi <= W[i + 1].m_start
      BY <1>5, <3>1, <3>2
    <3> QED
      BY <3>1, <3>3
  <2>4. Kept(W, hi, index)
    BY <2>2, <2>3 DEF Kept
  <2>5. r = Shortened(lo, hi, W, index, balance, W[index + 1])
    BY <1>3, <2>2 DEF UpperAt
  <2>6. Valid(lo, hi, W, cardinality, Shortened(lo, hi, W, index, balance, W[index + 1]))
    BY <2>4, ShortenedValid
  <2> HIDE DEF r
  <2>7. Valid(lo, hi, W, cardinality, r)
    BY <2>5, <2>6
  <2> QED
    BY <2>7 DEF r
<1> QED
  BY <1>6, <1>7

(* Both halves get as many elements as their thresholds allow. *)
LEMMA SplitValid ==
    ASSUME AdaptiveAssumption, NEW c \in Cases, c.length \in Nat, NEW length \in 2 .. c.length,
           IsPowerOfTwo(length), NEW cardinality \in Nat, Admitted(length, cardinality),
           NEW W \in Seq(Interval), W # <<>>, Apart(W, cardinality), NEW balance
    PROVE  Valid(Lo(length, cardinality), Hi(length, cardinality), W, cardinality,
                 validate_thresholds(length, HeightOf(length), W, cardinality,
                                     find_optimum(W, balance, cardinality)))
<1> DEFINE lo == Lo(length, cardinality)
        hi == Hi(length, cardinality)
        opt == find_optimum(W, balance, cardinality)
        r == validate_thresholds(length, HeightOf(length), W, cardinality, opt)
<1>1. lo \in Nat /\ hi \in Nat /\ lo <= hi /\ hi <= cardinality
  BY HalvesFit
<1>2. opt.cardinality \in Nat /\ opt.index \in 0 .. (Len(W) - 1) /\ Between(W, opt.index, opt.cardinality)
  <2> DEFINE split == find_split_point(W, balance)
  <2>1. split.index \in 0 .. (Len(W) - 1)
    BY SplitPointInside
  <2>2. opt = Optimum(W, split, cardinality)
    BY DEF find_optimum
  <2> HIDE DEF opt, split
  <2> QED
    BY <2>1, <2>2, OptimumBetween
<1>3. r = Validated(lo, hi, W, opt)
  BY DEF validate_thresholds, ValidatedWithin, Lo, Hi, HalfMin, HalfMax
<1> HIDE DEF lo, hi, opt, r
<1>4. Given(lo, hi, W, cardinality)
  BY <1>1 DEF Given
<1>5. CASE opt.cardinality < lo
  <2>1. r = ensure_lower_threshold(lo, hi, W, opt)
    BY <1>3, <1>5 DEF Validated
  <2>2. W[opt.index + 1].m_start <= opt.cardinality /\ W[opt.index + 1].m_start \in Nat
    <3>1. opt.index + 1 \in 1 .. Len(W) /\ opt.index >= 0
      BY <1>2
    <3> QED
      BY <1>2, <3>1, Ordered DEF Between
  <2>3. W[opt.index + 1].m_start < lo
    BY <1>1, <1>2, <1>5, <2>2
  <2>4. Valid(lo, hi, W, cardinality, ensure_lower_threshold(lo, hi, W, opt))
    BY <1>2, <1>4, <2>3, LowerValid
  <2>5. Valid(lo, hi, W, cardinality, r)
    BY <2>1, <2>4
  <2> QED
    BY <2>5 DEF lo, hi, opt, r
<1>6. CASE opt.cardinality > hi
  <2>1. r = ensure_upper_threshold(lo, hi, W, opt)
    BY <1>1, <1>2, <1>3, <1>6 DEF Validated
  <2>2. hi < opt.cardinality
    BY <1>1, <1>2, <1>6
  <2>3. Valid(lo, hi, W, cardinality, ensure_upper_threshold(lo, hi, W, opt))
    BY <1>2, <1>4, <2>2, UpperValid
  <2>4. Valid(lo, hi, W, cardinality, r)
    BY <2>1, <2>3
  <2> QED
    BY <2>4 DEF lo, hi, opt, r
<1>7. CASE ~ (opt.cardinality < lo) /\ ~ (opt.cardinality > hi)
  <2>1. r = Adjusted(opt.cardinality, opt.index, opt.balance, W)
    BY <1>3, <1>7 DEF Validated
  <2>2. opt.cardinality \in lo .. hi
    BY <1>1, <1>2, <1>7
  <2>3. Valid(lo, hi, W, cardinality, Adjusted(opt.cardinality, opt.index, opt.balance, W))
    BY <1>2, <1>4, <2>2, KeptValid
  <2>4. Valid(lo, hi, W, cardinality, r)
    BY <2>1, <2>3
  <2> QED
    BY <2>4 DEF lo, hi, opt, r
<1> QED
  BY <1>5, <1>6, <1>7

-----------------------------------------------------------------------------
(* The intervals of the two halves *)

Sections(W) == {W[i].m_associated_segment : i \in 1 .. Len(W)}

(* The intervals on the left of the split point. *)
LEMMA LeftApart ==
    ASSUME NEW V \in Seq(Interval), NEW cardinality \in Nat, Apart(V, cardinality),
           NEW at \in Nat, NEW index, Between(V, index, at)
    PROVE  LET L == SubSeq(V, 1, index + 1)
           IN  /\ L \in Seq(Interval) /\ Apart(L, at) /\ Len(L) = index + 1
               /\ \A i \in 1 .. Len(L) : L[i] = V[i]
<1> DEFINE n == index + 1
        L == SubSeq(V, 1, n)
<1>1. Len(V) \in Nat /\ n \in 0 .. Len(V) /\ index \in Int /\ index = n - 1
  BY DEF Between
<1>2. n >= 1 => V[n].m_start <= at
  BY <1>1 DEF Between
<1> HIDE DEF n
<1>3. Len(L) = n /\ L \in Seq(Interval) /\ \A i \in 1 .. n : L[i] = V[i]
  BY <1>1
<1> HIDE DEF L
<1>4. DOMAIN L = 1 .. n /\ \A i \in 1 .. n : i \in 1 .. Len(V)
  BY <1>1, <1>3
<1>5. ASSUME NEW i \in 1 .. n
      PROVE  L[i] \in Interval /\ L[i].m_start <= at
  <2>1. i \in 1 .. Len(V) /\ n \in 1 .. Len(V) /\ n >= 1
    BY <1>1
  <2>2. V[i] \in Interval /\ V[i].m_start \in Nat /\ V[n].m_start \in Nat /\ End(V[i]) \in Nat
        /\ V[i].m_start < End(V[i])
    BY <2>1, Ordered
  <2>3. i < n => End(V[i]) <= V[n].m_start
    BY <2>1, Ordered
  <2>4. V[n].m_start <= at
    BY <1>2, <2>1
  <2>5. V[i].m_start <= at
    <3>1. CASE i = n
      BY <2>4, <3>1
    <3>2. CASE i # n
      <4>1. End(V[i]) <= V[n].m_start
        BY <1>1, <2>3, <3>2
      <4> QED
        BY <2>2, <2>4, <4>1
    <3> QED
      BY <3>1, <3>2
  <2> QED
    BY <1>3, <2>2, <2>5
<1>6. ASSUME NEW i \in 1 .. n, NEW j \in 1 .. n, i < j
      PROVE  End(L[i]) <= L[j].m_start /\ L[i].m_associated_segment # L[j].m_associated_segment
  <2>1. i \in DOMAIN V /\ j \in DOMAIN V
    BY <1>4
  <2>2. End(V[i]) <= V[j].m_start /\ V[i].m_associated_segment # V[j].m_associated_segment
    BY <1>6, <2>1 DEF Apart
  <2> QED
    BY <1>3, <2>2
<1>7. Apart(L, at)
  BY <1>4, <1>5, <1>6 DEF Apart
<1> QED
  BY <1>3, <1>7 DEF L, n

(* The intervals on the right of the split point, from there. *)
LEMMA RightApart ==
    ASSUME NEW V \in Seq(Interval), NEW cardinality \in Nat, Apart(V, cardinality),
           NEW at \in Nat, NEW index, Between(V, index, at)
    PROVE  LET R == Shifted(SubSeq(V, index + 2, Len(V)), at)
           IN  /\ R \in Seq(Interval) /\ Apart(R, cardinality - at) /\ Len(R) = Len(V) - (index + 1)
               /\ \A i \in 1 .. Len(R) : R[i].m_associated_segment = V[i + (index + 1)].m_associated_segment
<1> DEFINE n == index + 1
        m == Len(V) - n
        S == SubSeq(V, index + 2, Len(V))
        R == Shifted(S, at)
<1>1. Len(V) \in Nat /\ n \in 0 .. Len(V) /\ index \in Int /\ index = n - 1 /\ m \in Nat /\ index + 2 = n + 1
  BY DEF Between
<1>2. m >= 1 => at <= V[n + 1].m_start
  BY <1>1 DEF Between
<1>3. S \in Seq(Interval) /\ Len(S) = m /\ \A i \in 1 .. m : S[i] = V[i + n]
  <2> HIDE DEF n, m
  <2>1. S = SubSeq(V, n + 1, Len(V))
    BY <1>1
  <2>2. m = Len(V) - n
    BY DEF m
  <2> HIDE DEF S
  <2>3. S \in Seq(Interval) /\ Len(S) = m
    BY <1>1, <2>1, <2>2
  <2>4. ASSUME NEW i \in 1 .. m PROVE S[i] = V[i + n]
    <3>1. (n + 1) + i - 1 = i + n
      BY <1>1
    <3>2. S[i] = V[(n + 1) + i - 1]
      BY <1>1, <2>1, <2>2
    <3> QED
      BY <3>1, <3>2
  <2> QED
    BY <2>3, <2>4
<1> HIDE DEF S
<1>4. DOMAIN S = 1 .. m
  BY <1>3
<1>5. R = [i \in 1 .. m |-> [S[i] EXCEPT !.m_start = @ - at]]
  BY <1>4 DEF Shifted
<1> HIDE DEF n, m, R
<1>6. \A i \in 1 .. m : i + n \in 1 .. Len(V)
  BY <1>1 DEF m
<1>7. ASSUME NEW i \in 1 .. m
      PROVE  at <= V[i + n].m_start
  <2>1. i + n \in 1 .. Len(V) /\ n + 1 \in 1 .. Len(V) /\ m >= 1
    BY <1>1, <1>6 DEF m
  <2>2. V[i + n].m_start \in Nat /\ V[n + 1].m_start \in Nat /\ End(V[n + 1]) \in Nat
        /\ V[n + 1].m_start < End(V[n + 1])
    BY <2>1, Ordered
  <2>3. n + 1 < i + n => End(V[n + 1]) <= V[i + n].m_start
    BY <2>1, Ordered
  <2>4. at <= V[n + 1].m_start
    BY <1>2, <2>1
  <2>5. CASE i = 1
    BY <1>1, <2>4, <2>5
  <2>6. CASE i # 1
    <3>1. End(V[n + 1]) <= V[i + n].m_start
      BY <1>1, <2>3, <2>6
    <3> QED
      BY <2>2, <2>4, <3>1
  <2> QED
    BY <2>5, <2>6
<1>8. ASSUME NEW i \in 1 .. m
      PROVE  /\ R[i] \in Interval
             /\ R[i].m_start = V[i + n].m_start - at
             /\ R[i].m_start <= cardinality - at
             /\ End(R[i]) = End(V[i + n]) - at
             /\ R[i].m_associated_segment = V[i + n].m_associated_segment
  <2> DEFINE v == V[i + n]
          a == v.m_start
          b == v.m_length
          d == a - at
  <2>1. v \in Interval /\ a \in Nat /\ b \in Nat \ {0} /\ a <= cardinality /\ at <= a
    BY <1>6, <1>7, Ordered
  <2>2. R[i] = [v EXCEPT !.m_start = d]
    BY <1>3, <1>5
  <2>3. d \in Nat /\ d <= cardinality - at /\ d + b = (a + b) - at
    <3> HIDE DEF a, b, v
    <3> QED
      BY <2>1
  <2>4. End(v) = a + b
    BY DEF End
  <2> HIDE DEF d
  <2>5. /\ R[i] \in Interval /\ R[i].m_start = d /\ R[i].m_length = b
        /\ R[i].m_associated_segment = v.m_associated_segment
    <3> HIDE DEF v
    <3> QED
      BY <2>1, <2>2, <2>3 DEF Interval
  <2>6. End(R[i]) = d + b
    BY <2>5 DEF End
  <2>7. End(R[i]) = End(v) - at
    BY <2>3, <2>4, <2>6
  <2>8. R[i].m_start = V[i + n].m_start - at
    BY <2>5 DEF d
  <2>9. R[i].m_start <= cardinality - at
    BY <2>3, <2>5
  <2> QED
    BY <2>5, <2>7, <2>8, <2>9
<1>9. R \in Seq(Interval) /\ Len(R) = m /\ DOMAIN R = 1 .. m
  <2>1. R = [i \in 1 .. m |-> R[i]]
    BY <1>5
  <2>2. \A i \in 1 .. m : R[i] \in Interval
    BY <1>8
  <2> QED
    BY <1>1, <2>1, <2>2
<1>10. ASSUME NEW i \in 1 .. m, NEW j \in 1 .. m, i < j
       PROVE  End(R[i]) <= R[j].m_start /\ R[i].m_associated_segment # R[j].m_associated_segment
  <2>1. i + n \in 1 .. Len(V) /\ j + n \in 1 .. Len(V) /\ i + n < j + n /\ DOMAIN V = 1 .. Len(V)
    BY <1>1, <1>6, <1>10
  <2>2. V[i + n].m_associated_segment # V[j + n].m_associated_segment
    BY <2>1 DEF Apart
  <2>3. End(V[i + n]) <= V[j + n].m_start /\ End(V[i + n]) \in Nat /\ V[j + n].m_start \in Nat
    BY <2>1, Ordered
  <2>4. End(R[i]) = End(V[i + n]) - at /\ R[j].m_start = V[j + n].m_start - at
    BY <1>8
  <2>5. End(R[i]) <= R[j].m_start
    BY <2>3, <2>4
  <2>6. R[i].m_associated_segment # R[j].m_associated_segment
    BY <1>8, <2>2, Zenon
  <2> QED
    BY <2>5, <2>6
<1>11. Apart(R, cardinality - at)
  BY <1>8, <1>9, <1>10 DEF Apart
<1>12. Len(R) = Len(V) - (index + 1)
  BY <1>9 DEF m, n
<1>13. \A i \in 1 .. Len(R) : R[i].m_associated_segment = V[i + (index + 1)].m_associated_segment
  BY <1>8, <1>9 DEF n
<1> QED
  BY <1>9, <1>11, <1>12, <1>13 DEF R, S

-----------------------------------------------------------------------------
(* The calls that are still to be made *)

Sequence(s) == \E S : s \in Seq(S)

(* A call is about a node of the calibrator tree that respects its thresholds. *)
FrameSound(f, length) ==
    /\ f.start \in Nat /\ f.length \in 1 .. length /\ IsPowerOfTwo(f.length)
    /\ \E k \in Nat : f.start = k * f.length
    /\ f.cardinality \in Nat /\ Admitted(f.length, f.cardinality)
    /\ f.W \in Seq(Interval) /\ Apart(f.W, f.cardinality)

(* The calls follow one another up to the end of the window, with sections of their own. *)
FramesSound(F, length) ==
    /\ Sequence(F)
    /\ \A i \in 1 .. Len(F) : FrameSound(F[i], length)
    /\ \A i \in 1 .. Len(F) :
          F[i].start + F[i].length = IF i < Len(F) THEN F[i + 1].start ELSE length
    /\ \A i, j \in 1 .. Len(F) : i # j => Sections(F[i].W) \cap Sections(F[j].W) = {}

(* The sequence without its head. *)
LEMMA TailOf ==
    ASSUME NEW s, Sequence(s), s # <<>>
    PROVE  /\ Sequence(Tail(s)) /\ Len(s) \in Nat \ {0} /\ Head(s) = s[1]
           /\ Len(Tail(s)) = Len(s) - 1
           /\ \A i \in 1 .. Len(Tail(s)) : Tail(s)[i] = s[i + 1]
           /\ Len(s) = 1 <=> Tail(s) = <<>>
<1>1. PICK S : s \in Seq(S)
  BY DEF Sequence
<1>2. Tail(s) \in Seq(S)
  BY <1>1
<1>3. Sequence(Tail(s))
  BY <1>2 DEF Sequence
<1>4. Len(s) \in Nat \ {0} /\ Head(s) = s[1] /\ Len(Tail(s)) = Len(s) - 1
  BY <1>1
<1>5. \A i \in 1 .. Len(Tail(s)) : Tail(s)[i] = s[i + 1]
  BY <1>1
<1>6. Tail(s) = <<>> <=> Len(Tail(s)) = 0
  BY <1>2, EmptySeq
<1>7. Len(s) = 1 <=> Tail(s) = <<>>
  BY <1>4, <1>6
<1> QED
  BY <1>3, <1>4, <1>5, <1>7

(* The sequence with two elements in the place of its head. *)
LEMMA ReplaceHead ==
    ASSUME NEW s, Sequence(s), s # <<>>, NEW a, NEW b
    PROVE  LET t == <<a, b>> \o Tail(s)
           IN  /\ Sequence(t) /\ Len(t) = Len(s) + 1 /\ t[1] = a /\ t[2] = b
               /\ \A i \in 2 .. Len(s) : t[i + 1] = s[i]
<1>1. PICK S : s \in Seq(S)
  BY DEF Sequence
<1> DEFINE T == S \union {a, b}
        t == <<a, b>> \o Tail(s)
<1>2. s \in Seq(T) /\ <<a, b>> \in Seq(T)
  <2>1. \A i \in 1 .. Len(s) : s[i] \in T
    BY <1>1
  <2>2. s \in Seq(T)
    <3>1. s = [i \in 1 .. Len(s) |-> s[i]] /\ Len(s) \in Nat
      BY <1>1
    <3> QED
      BY <2>1, <3>1
  <2>3. a \in T /\ b \in T
    OBVIOUS
  <2> HIDE DEF T
  <2> QED
    BY <2>2, <2>3
<1> HIDE DEF T
<1>3. Tail(s) \in Seq(T) /\ Len(Tail(s)) = Len(s) - 1 /\ Len(s) \in Nat \ {0}
      /\ \A i \in 1 .. (Len(s) - 1) : Tail(s)[i] = s[i + 1]
  BY <1>2
<1>4. t \in Seq(T) /\ Len(t) = 2 + Len(Tail(s))
  BY <1>2, <1>3
<1>5. t[1] = a /\ t[2] = b
  BY <1>2, <1>3
<1>6. ASSUME NEW i \in 2 .. Len(s) PROVE t[i + 1] = s[i]
  <2>1. i - 1 \in 1 .. (Len(s) - 1) /\ (i - 1) + 1 = i /\ i + 1 > 2 /\ (i + 1) - 2 = i - 1
        /\ i + 1 \in 1 .. (2 + Len(Tail(s)))
    BY <1>3
  <2>2. t[i + 1] = Tail(s)[i - 1]
    BY <1>2, <1>3, <2>1
  <2> QED
    BY <1>3, <2>1, <2>2
<1>7. Sequence(t)
  BY <1>4 DEF Sequence
<1> HIDE DEF t
<1>8. Len(t) = Len(s) + 1
  BY <1>3, <1>4
<1> QED
  BY <1>5, <1>6, <1>7, <1>8 DEF t

(* Without the first call the others are as they were. *)
LEMMA TailSound ==
    ASSUME NEW length \in Nat, NEW F, FramesSound(F, length), F # <<>>
    PROVE  /\ FramesSound(Tail(F), length)
           /\ Head(F).start + Head(F).length =
                 IF Tail(F) = <<>> THEN length ELSE Head(Tail(F)).start
<1> DEFINE T == Tail(F)
<1>1. /\ Sequence(T) /\ Len(F) \in Nat \ {0} /\ Head(F) = F[1] /\ Len(T) = Len(F) - 1
      /\ \A i \in 1 .. Len(T) : T[i] = F[i + 1]
      /\ Len(F) = 1 <=> T = <<>>
  BY TailOf DEF FramesSound
<1> HIDE DEF T
<1>2. \A i \in 1 .. Len(T) : i + 1 \in 1 .. Len(F) /\ (i < Len(T) <=> i + 1 < Len(F)) /\ (i < Len(T) => i + 1 \in 1 .. Len(T))
  BY <1>1
<1>3. \A i \in 1 .. Len(T) : FrameSound(T[i], length)
  BY <1>1, <1>2 DEF FramesSound
<1>4. ASSUME NEW i \in 1 .. Len(T)
      PROVE  T[i].start + T[i].length = IF i < Len(T) THEN T[i + 1].start ELSE length
  <2> DEFINE k == i + 1
  <2>1. k \in 1 .. Len(F) /\ T[i] = F[k] /\ (i < Len(T) => T[k] = F[k + 1]) /\ (i < Len(T) <=> k < Len(F))
    BY <1>1, <1>2
  <2>2. F[k].start + F[k].length = IF k < Len(F) THEN F[k + 1].start ELSE length
    BY <2>1 DEF FramesSound
  <2> QED
    BY <2>1, <2>2
<1>5. ASSUME NEW i \in 1 .. Len(T), NEW j \in 1 .. Len(T), i # j
      PROVE  Sections(T[i].W) \cap Sections(T[j].W) = {}
  <2> DEFINE k == i + 1
          l == j + 1
  <2>1. k \in 1 .. Len(F) /\ l \in 1 .. Len(F) /\ k # l /\ T[i] = F[k] /\ T[j] = F[l]
    BY <1>1, <1>2, <1>5
  <2> HIDE DEF k, l
  <2>2. Sections(F[k].W) \cap Sections(F[l].W) = {}
    BY <2>1 DEF FramesSound
  <2> QED
    BY <2>1, <2>2
<1>6. FramesSound(T, length)
  BY <1>1, <1>3, <1>4, <1>5 DEF FramesSound
<1>7. F[1].start + F[1].length = IF T = <<>> THEN length ELSE Head(T).start
  <2>1. 1 \in 1 .. Len(F) /\ (1 < Len(F) <=> T # <<>>)
    BY <1>1
  <2>2. F[1].start + F[1].length = IF 1 < Len(F) THEN F[1 + 1].start ELSE length
    BY <2>1 DEF FramesSound
  <2>3. T # <<>> => Head(T) = T[1] /\ 1 \in 1 .. Len(T)
    BY <1>1, <2>1, TailOf
  <2>4. T # <<>> => T[1] = F[1 + 1]
    BY <1>1, <2>3
  <2> QED
    BY <2>1, <2>2, <2>3, <2>4
<1> QED
  BY <1>1, <1>6, <1>7 DEF T

(* Two calls that share the part, the elements and the sections of another. *)
Halves(f, a, b, length) ==
    /\ FrameSound(a, length) /\ FrameSound(b, length)
    /\ a.start = f.start /\ a.start + a.length = b.start /\ b.start + b.length = f.start + f.length
    /\ a.cardinality + b.cardinality = f.cardinality
    /\ Sections(a.W) \subseteq Sections(f.W) /\ Sections(b.W) \subseteq Sections(f.W)
    /\ Sections(a.W) \cap Sections(b.W) = {}

(* With the two halves in the place of the first call, the calls are sound. *)
LEMMA SplitSound ==
    ASSUME NEW length \in Nat, NEW F, FramesSound(F, length), F # <<>>,
           NEW a, NEW b, Halves(Head(F), a, b, length)
    PROVE  FramesSound(<<a, b>> \o Tail(F), length)
<1> DEFINE T == <<a, b>> \o Tail(F)
<1>1. /\ Sequence(T) /\ Len(T) = Len(F) + 1 /\ T[1] = a /\ T[2] = b
      /\ \A i \in 2 .. Len(F) : T[i + 1] = F[i]
  BY ReplaceHead DEF FramesSound
<1>2. Len(F) \in Nat \ {0} /\ Head(F) = F[1]
  BY TailOf DEF FramesSound
<1> HIDE DEF T
<1>3. \A i \in 1 .. Len(T) : i = 1 \/ i = 2 \/ (i > 2 /\ i - 1 \in 2 .. Len(F) /\ i - 1 \in 1 .. Len(F) /\ i - 1 # 1 /\ (i - 1) + 1 = i)
  BY <1>1, <1>2
<1>4. \A i \in 1 .. Len(T) : i > 2 => T[i] = F[i - 1]
  BY <1>1, <1>3
<1>5. \A i \in 1 .. Len(T) : FrameSound(T[i], length)
  <2>1. FrameSound(a, length) /\ FrameSound(b, length)
    BY DEF Halves
  <2> QED
    BY <1>1, <1>3, <1>4, <2>1 DEF FramesSound
<1>6. ASSUME NEW i \in 1 .. Len(T)
      PROVE  T[i].start + T[i].length = IF i < Len(T) THEN T[i + 1].start ELSE length
  <2>1. CASE i = 1
    <3>1. a.start + a.length = b.start
      BY DEF Halves
    <3>2. 1 < Len(T) /\ 1 + 1 = 2
      BY <1>1, <1>2
    <3> QED
      BY <1>1, <2>1, <3>1, <3>2
  <2>2. CASE i = 2
    <3>1. b.start + b.length = F[1].start + F[1].length
      BY <1>2 DEF Halves
    <3>2. 1 \in 1 .. Len(F) /\ (1 < Len(F) <=> 2 < Len(T)) /\ (1 < Len(F) => 2 \in 2 .. Len(F)) /\ 1 + 1 = 2
      BY <1>1, <1>2
    <3>3. F[1].start + F[1].length = IF 1 < Len(F) THEN F[2].start ELSE length
      BY <3>2 DEF FramesSound
    <3>4. 1 < Len(F) => T[2 + 1] = F[2]
      BY <1>1, <3>2
    <3> QED
      BY <1>1, <2>2, <3>1, <3>2, <3>3, <3>4
  <2>3. CASE i > 2
    <3> DEFINE k == i - 1
    <3>1. k \in 1 .. Len(F) /\ T[i] = F[k] /\ (k < Len(F) <=> i < Len(T)) /\ (k < Len(F) => k + 1 \in 2 .. Len(F)) /\ k + 1 = i
      BY <1>1, <1>2, <1>3, <1>4, <2>3
    <3> HIDE DEF k
    <3>2. F[k].start + F[k].length = IF k < Len(F) THEN F[k + 1].start ELSE length
      BY <3>1 DEF FramesSound
    <3>3. k < Len(F) => T[i + 1] = F[k + 1]
      BY <1>1, <3>1
    <3> QED
      BY <3>1, <3>2, <3>3
  <2> QED
    BY <1>3, <2>1, <2>2, <2>3
<1>7. ASSUME NEW i \in 1 .. Len(T), NEW j \in 1 .. Len(T), i # j
      PROVE  Sections(T[i].W) \cap Sections(T[j].W) = {}
  <2>1. Sections(a.W) \subseteq Sections(F[1].W) /\ Sections(b.W) \subseteq Sections(F[1].W)
    BY <1>2 DEF Halves
  <2>2. Sections(a.W) \cap Sections(b.W) = {}
    BY DEF Halves
  <2>3. \A k, l \in 1 .. Len(F) : k # l => Sections(F[k].W) \cap Sections(F[l].W) = {}
    BY DEF FramesSound
  <2>4. 1 \in 1 .. Len(F)
    BY <1>2
  <2>5. CASE i <= 2 /\ j <= 2
    <3>1. (i = 1 /\ j = 2) \/ (i = 2 /\ j = 1)
      BY <1>3, <1>7, <2>5
    <3> QED
      BY <1>1, <2>2, <3>1
  <2>6. CASE i <= 2 /\ j > 2
    <3>1. T[j] = F[j - 1] /\ j - 1 \in 1 .. Len(F) /\ j - 1 # 1
      BY <1>3, <1>4, <2>6
    <3>2. Sections(F[1].W) \cap Sections(F[j - 1].W) = {}
      BY <2>3, <2>4, <3>1
    <3>3. T[i] = a \/ T[i] = b
      BY <1>1, <1>3, <2>6
    <3> QED
      BY <2>1, <3>1, <3>2, <3>3
  <2>7. CASE i > 2 /\ j <= 2
    <3>1. T[i] = F[i - 1] /\ i - 1 \in 1 .. Len(F) /\ i - 1 # 1
      BY <1>3, <1>4, <2>7
    <3>2. Sections(F[1].W) \cap Sections(F[i - 1].W) = {}
      BY <2>3, <2>4, <3>1
    <3>3. T[j] = a \/ T[j] = b
      BY <1>1, <1>3, <2>7
    <3> QED
      BY <2>1, <3>1, <3>2, <3>3
  <2>8. CASE i > 2 /\ j > 2
    <3>1. i - 1 \in 1 .. Len(F) /\ j - 1 \in 1 .. Len(F) /\ i - 1 # j - 1 /\ T[i] = F[i - 1] /\ T[j] = F[j - 1]
      BY <1>3, <1>4, <1>7, <2>8
    <3> QED
      BY <2>3, <3>1
  <2>9. i \in Int /\ j \in Int
    OBVIOUS
  <2> QED
    BY <2>5, <2>6, <2>7, <2>8, <2>9
<1>8. FramesSound(T, length)
  BY <1>1, <1>5, <1>6, <1>7 DEF FramesSound
<1> QED
  BY <1>8 DEF T

(* The recursive calls, from the split point. *)
LeftCall(f, r, a) ==
    /\ a.start = f.start /\ a.length = f.length \div 2 /\ a.cardinality = r.cardinality
    /\ a.W = SubSeq(r.W, 1, r.index + 1)
RightCall(f, r, b) ==
    /\ b.start = f.start + f.length \div 2 /\ b.length = f.length \div 2
    /\ b.cardinality = f.cardinality - r.cardinality
    /\ b.W = Shifted(SubSeq(r.W, r.index + 2, Len(r.W)), r.cardinality)
(* The recursive calls are two such halves. *)
LEMMA ChildrenAreHalves ==
    ASSUME AdaptiveAssumption, NEW c \in Cases, c.length \in Nat, NEW f, FrameSound(f, c.length), f.length > 1,
           NEW r, Valid(Lo(f.length, f.cardinality), Hi(f.length, f.cardinality), f.W, f.cardinality, r),
           NEW a, LeftCall(f, r, a), NEW b, RightCall(f, r, b)
    PROVE  Halves(f, a, b, c.length)
<1> DEFINE half == f.length \div 2
        V == r.W
        at == r.cardinality
        n == r.index + 1
        lo == Lo(f.length, f.cardinality)
        hi == Hi(f.length, f.cardinality)
<1>1. /\ f.start \in Nat /\ f.length \in 2 .. c.length /\ IsPowerOfTwo(f.length)
      /\ f.length \in Nat \ {0, 1} /\ f.cardinality \in Nat
      /\ Admitted(f.length, f.cardinality) /\ f.W \in Seq(Interval)
  BY DEF FrameSound
<1>2. f.length = 2 * half /\ IsPowerOfTwo(half)
  BY <1>1, PowerIsEven, HalfIsPower
<1>3. half \in Nat \ {0} /\ half \in 1 .. c.length
  <2>1. \A x, y \in Nat : x > 1 /\ x <= y => x \div 2 \in Nat \ {0} /\ x \div 2 \in 1 .. y
    OBVIOUS
  <2>2. f.length \in Nat /\ f.length > 1 /\ f.length <= c.length
    BY <1>1
  <2> QED
    BY <2>1, <2>2
<1>4. /\ at \in lo .. hi /\ V \in Seq(Interval) /\ Apart(V, f.cardinality) /\ SameSections(V, f.W)
      /\ Between(V, r.index, at)
  BY DEF Valid
<1>5. /\ lo \in Nat /\ hi \in Nat /\ lo <= hi /\ hi <= f.cardinality
      /\ \A x \in lo .. hi : Admitted(half, x) /\ Admitted(half, f.cardinality - x)
  BY <1>1, HalvesFit
<1> HIDE DEF lo, hi
<1>6. at \in Nat /\ at <= f.cardinality /\ f.cardinality - at \in Nat
  BY <1>1, <1>4, <1>5
<1>7. Admitted(half, at) /\ Admitted(half, f.cardinality - at)
  BY <1>4, <1>5
<1>8. /\ a.W \in Seq(Interval) /\ Apart(a.W, at) /\ Len(a.W) = n
      /\ \A i \in 1 .. Len(a.W) : a.W[i] = V[i]
  <2>1. a.W = SubSeq(V, 1, r.index + 1)
    BY DEF LeftCall
  <2> HIDE DEF V, at
  <2> QED
    BY <1>1, <1>4, <1>6, <2>1, LeftApart
<1>9. /\ b.W \in Seq(Interval) /\ Apart(b.W, f.cardinality - at) /\ Len(b.W) = Len(V) - n
      /\ \A i \in 1 .. Len(b.W) : b.W[i].m_associated_segment = V[i + n].m_associated_segment
  <2> DEFINE R == Shifted(SubSeq(V, r.index + 2, Len(V)), at)
  <2>1. b.W = R
    BY DEF RightCall
  <2> HIDE DEF V, at
  <2>2. /\ R \in Seq(Interval) /\ Apart(R, f.cardinality - at) /\ Len(R) = Len(V) - n
        /\ \A i \in 1 .. Len(R) : R[i].m_associated_segment = V[i + n].m_associated_segment
    BY SMTT(30), <1>1, <1>4, <1>6, RightApart
  <2> HIDE DEF R
  <2> QED
    BY <2>1, <2>2
<1>10. n \in 0 .. Len(V) /\ Len(V) \in Nat
  BY <1>4 DEF Between
<1>11. Len(V) = Len(f.W) /\ \A i \in 1 .. Len(V) : V[i].m_associated_segment = f.W[i].m_associated_segment
  BY <1>4 DEF SameSections
<1>12. /\ a.start = f.start /\ a.length = half /\ a.cardinality = at
       /\ b.start = f.start + half /\ b.length = half /\ b.cardinality = f.cardinality - at
  BY DEF LeftCall, RightCall
<1>13. PICK k \in Nat : f.start = k * f.length
  BY DEF FrameSound
<1> HIDE DEF half, at, V, n
<1>14. f.start = (2 * k) * half /\ f.start + half = (2 * k + 1) * half /\ 2 * k \in Nat /\ 2 * k + 1 \in Nat
  <2>1. f.start = k * (2 * half)
    BY <1>2, <1>13
  <2>2. k * (2 * half) = (2 * k) * half /\ (2 * k + 1) * half = (2 * k) * half + half
    BY <1>3
  <2> QED
    BY <2>1, <2>2
<1>15. FrameSound(a, c.length)
  <2>1. \E x \in Nat : a.start = x * half
    BY <1>12, <1>14
  <2>2. a.start \in Nat
    BY <1>1, <1>12
  <2> QED
    BY <1>2, <1>3, <1>6, <1>7, <1>8, <1>12, <2>1, <2>2 DEF FrameSound
<1>16. FrameSound(b, c.length)
  <2>1. \E x \in Nat : b.start = x * half
    BY <1>12, <1>14
  <2>2. b.start \in Nat
    BY <1>1, <1>3, <1>12
  <2> QED
    BY <1>2, <1>3, <1>6, <1>7, <1>9, <1>12, <2>1, <2>2 DEF FrameSound
<1>17. a.start + a.length = b.start /\ b.start + b.length = f.start + f.length
  <2>1. (f.start + half) + half = f.start + 2 * half
    BY <1>1, <1>3
  <2> QED
    BY <1>2, <1>12, <2>1
<1>18. a.cardinality + b.cardinality = f.cardinality
  BY <1>1, <1>6, <1>12
<1>19. ASSUME NEW i \in 1 .. Len(a.W)
       PROVE  i \in 1 .. Len(V) /\ i <= n /\ a.W[i].m_associated_segment = V[i].m_associated_segment
  BY <1>8, <1>10
<1>20. ASSUME NEW i \in 1 .. Len(b.W)
       PROVE  i + n \in 1 .. Len(V) /\ n < i + n /\ b.W[i].m_associated_segment = V[i + n].m_associated_segment
  BY <1>9, <1>10
<1>21. Sections(a.W) \subseteq Sections(f.W)
  BY <1>11, <1>19 DEF Sections
<1>22. Sections(b.W) \subseteq Sections(f.W)
  BY <1>11, <1>20 DEF Sections
<1>23. Sections(a.W) \cap Sections(b.W) = {}
  <2> SUFFICES ASSUME NEW i \in 1 .. Len(a.W), NEW j \in 1 .. Len(b.W)
               PROVE  a.W[i].m_associated_segment # b.W[j].m_associated_segment
    BY DEF Sections
  <2> DEFINE l == j + n
  <2>1. i \in 1 .. Len(V) /\ l \in 1 .. Len(V) /\ i <= n /\ n < l
    BY <1>19, <1>20
  <2>5. DOMAIN V = 1 .. Len(V)
    BY <1>4
  <2>2. b.W[j].m_associated_segment = V[l].m_associated_segment
    BY <1>20
  <2> HIDE DEF l
  <2>3. i < l
    BY <1>10, <2>1
  <2>4. V[i].m_associated_segment # V[l].m_associated_segment
    BY <1>4, <2>1, <2>3, <2>5 DEF Apart
  <2> QED
    BY <1>19, <2>2, <2>4, Zenon
<1> QED
  BY <1>12, <1>15, <1>16, <1>17, <1>18, <1>21, <1>22, <1>23 DEF Halves

-----------------------------------------------------------------------------
(* The partitions that were made *)

Partition == [m_cardinality : Nat, m_segments : Nat \ {0}]
Cardinalities(P) == [i \in DOMAIN P |-> P[i].m_cardinality]
Lengths(P) == [i \in DOMAIN P |-> P[i].m_segments]
Pending(F) == [i \in DOMAIN F |-> F[i].cardinality]
Covered(P) == Sums(Lengths(P))[Len(P)]

PartsSound(P) ==
    /\ P \in Seq(Partition)
    /\ \A i \in DOMAIN P : P[i].m_segments <= P[i].m_cardinality
                           /\ P[i].m_cardinality <= P[i].m_segments * SegmentCapacity

(* NothingLost, of given partitions and calls. *)
Shared(P, F, c) ==
    /\ Sums(Cardinalities(P))[Len(P)] + Sums(Pending(F))[Len(F)] = c.cardinality
    /\ F # <<>> => Head(F).start = Covered(P)
    /\ F = <<>> => Covered(P) = c.length
    /\ \A i \in DOMAIN P : Sums(Lengths(P))[i - 1] % P[i].m_segments = 0
(* It is NothingLost of the partitions and calls of a state. *)
LEMMA SharedIsNothingLost == Shared(m_partitions, frames, case) <=> NothingLost
BY DEF Shared, NothingLost, Covered, Cardinalities, Lengths, Pending

(* The sizes of the partitions are sequences of numbers. *)
LEMMA PartSizes ==
    ASSUME NEW P \in Seq(Partition)
    PROVE  /\ Cardinalities(P) \in Seq(Int) /\ Len(Cardinalities(P)) = Len(P)
           /\ Lengths(P) \in Seq(Int) /\ Len(Lengths(P)) = Len(P)
           /\ \A i \in 1 .. Len(P) : Cardinalities(P)[i] = P[i].m_cardinality /\ Lengths(P)[i] = P[i].m_segments
<1>1. DOMAIN P = 1 .. Len(P) /\ Len(P) \in Nat /\ \A i \in 1 .. Len(P) : P[i] \in Partition
  OBVIOUS
<1>2. \A i \in 1 .. Len(P) : P[i].m_cardinality \in Int /\ P[i].m_segments \in Int
  BY <1>1 DEF Partition
<1>3. Cardinalities(P) = [i \in 1 .. Len(P) |-> P[i].m_cardinality]
  BY <1>1 DEF Cardinalities
<1>4. Lengths(P) = [i \in 1 .. Len(P) |-> P[i].m_segments]
  BY <1>1 DEF Lengths
<1>5. Cardinalities(P) \in Seq(Int) /\ Len(Cardinalities(P)) = Len(P)
  BY <1>1, <1>2, <1>3
<1>6. Lengths(P) \in Seq(Int) /\ Len(Lengths(P)) = Len(P)
  BY <1>1, <1>2, <1>4
<1> QED
  BY <1>3, <1>4, <1>5, <1>6
(* The elements of the calls are a sequence of numbers. *)
LEMMA PendingSizes ==
    ASSUME NEW length, NEW F, FramesSound(F, length)
    PROVE  /\ Pending(F) \in Seq(Int) /\ Len(Pending(F)) = Len(F) /\ Len(F) \in Nat
           /\ \A i \in 1 .. Len(F) : Pending(F)[i] = F[i].cardinality
<1>1. PICK S : F \in Seq(S)
  BY DEF FramesSound, Sequence
<1>2. DOMAIN F = 1 .. Len(F) /\ Len(F) \in Nat
  BY <1>1
<1>3. \A i \in 1 .. Len(F) : F[i].cardinality \in Int
  BY DEF FramesSound, FrameSound
<1>4. Pending(F) = [i \in 1 .. Len(F) |-> F[i].cardinality]
  BY <1>2 DEF Pending
<1>5. Pending(F) \in Seq(Int) /\ Len(Pending(F)) = Len(F)
  BY <1>2, <1>3, <1>4
<1> QED
  BY <1>2, <1>4, <1>5

(* A multiple of a number leaves nothing when it is divided by it. *)
LEMMA MultipleDivides ==
    ASSUME NEW k \in Nat, NEW n \in Nat \ {0}
    PROVE  (k * n) % n = 0
<1> DEFINE p == k * n
        q == p \div n
        r == p % n
<1>1. p \in Nat
  OBVIOUS
<1>2. q \in Nat /\ r \in 0 .. (n - 1) /\ p = n * q + r
  <2> HIDE DEF p
  <2> QED
    BY <1>1
<1> HIDE DEF q, r
<1>3. ~ (q < k)
  <2> SUFFICES ASSUME q + 1 <= k PROVE FALSE
    BY <1>2
  <2>1. (q + 1) * n <= k * n
    BY <1>2, MulMono
  <2>2. (q + 1) * n = n * q + n
    BY <1>2
  <2> DEFINE s == n * q
  <2>3. s \in Nat /\ s + n <= p /\ p = s + r
    BY <1>2, <2>1, <2>2
  <2> HIDE DEF s, p
  <2> QED
    BY <1>1, <1>2, <2>3
<1>4. ~ (k < q)
  <2> SUFFICES ASSUME k + 1 <= q PROVE FALSE
    BY <1>2
  <2>1. (k + 1) * n <= q * n
    BY <1>2, MulMono
  <2>2. (k + 1) * n = p + n /\ q * n = n * q
    BY <1>2
  <2> DEFINE s == n * q
  <2>3. s \in Nat /\ p + n <= s /\ p = s + r
    BY <1>2, <2>1, <2>2
  <2> HIDE DEF s, p
  <2> QED
    BY <1>1, <1>2, <2>3
<1>5. q = k
  BY <1>2, <1>3, <1>4
<1>6. n * q = p
  BY <1>5
<1>7. r = 0
  <2> DEFINE s == n * q
  <2>1. s \in Nat /\ p = s + r /\ s = p
    BY <1>2, <1>6
  <2> HIDE DEF s, p
  <2> QED
    BY <1>2, <2>1
<1> QED
  BY <1>7 DEF r

(* The partition that emit makes of a call. *)
EmittedBy(f) == [m_cardinality |-> f.cardinality, m_segments |-> f.length]
(* emit adds a partition that fits. *)
LEMMA EmitSound ==
    ASSUME AdaptiveAssumption, NEW c \in Cases, c.length \in Nat, NEW f, FrameSound(f, c.length),
           NEW P, PartsSound(P)
    PROVE  PartsSound(Append(P, EmittedBy(f)))
<1> DEFINE p == EmittedBy(f)
        Q == Append(P, p)
<1>1. /\ f.length \in 1 .. c.length /\ IsPowerOfTwo(f.length) /\ f.cardinality \in Nat
      /\ Admitted(f.length, f.cardinality)
  BY DEF FrameSound
<1>2. f.length <= f.cardinality /\ f.cardinality <= f.length * SegmentCapacity
  BY <1>1, AdmittedFits
<1>3. p \in Partition /\ p.m_segments = f.length /\ p.m_cardinality = f.cardinality
  BY <1>1 DEF Partition, EmittedBy
<1> HIDE DEF p
<1>4. P \in Seq(Partition)
  BY DEF PartsSound
<1>5. Q \in Seq(Partition) /\ DOMAIN Q = 1 .. (Len(P) + 1) /\ DOMAIN P = 1 .. Len(P) /\ Len(P) \in Nat
      /\ Q[Len(P) + 1] = p /\ \A i \in 1 .. Len(P) : Q[i] = P[i]
  BY <1>3, <1>4
<1> HIDE DEF Q
<1>6. ASSUME NEW i \in 1 .. (Len(P) + 1)
      PROVE  Q[i].m_segments <= Q[i].m_cardinality /\ Q[i].m_cardinality <= Q[i].m_segments * SegmentCapacity
  <2>1. CASE i = Len(P) + 1
    BY <1>2, <1>3, <1>5, <2>1
  <2>2. CASE i # Len(P) + 1
    <3>1. i \in 1 .. Len(P)
      BY <1>5, <2>2
    <3> QED
      BY <1>5, <3>1 DEF PartsSound
  <2> QED
    BY <2>1, <2>2
<1>7. PartsSound(Q)
  BY <1>5, <1>6 DEF PartsSound
<1> QED
  BY <1>7 DEF Q, p

(* The sums, with one more partition. *)
LEMMA EmitCovers ==
    ASSUME NEW P \in Seq(Partition), NEW p \in Partition
    PROVE  LET Q == Append(P, p)
           IN  /\ Covered(P) \in Int /\ Covered(Q) = Covered(P) + p.m_segments
               /\ Sums(Cardinalities(P))[Len(P)] \in Int
               /\ Sums(Cardinalities(Q))[Len(Q)] = Sums(Cardinalities(P))[Len(P)] + p.m_cardinality
               /\ \A i \in 0 .. Len(P) : Sums(Lengths(Q))[i] = Sums(Lengths(P))[i]
<1> DEFINE Q == Append(P, p)
        v == Lengths(P)
        w == Lengths(Q)
        x == Cardinalities(P)
        y == Cardinalities(Q)
<1>1. Q \in Seq(Partition) /\ Len(Q) = Len(P) + 1 /\ Len(P) \in Nat /\ Q[Len(Q)] = p
      /\ \A i \in 1 .. Len(P) : Q[i] = P[i]
  OBVIOUS
<1> HIDE DEF Q
<1>2. /\ x \in Seq(Int) /\ Len(x) = Len(P) /\ v \in Seq(Int) /\ Len(v) = Len(P)
      /\ \A i \in 1 .. Len(P) : x[i] = P[i].m_cardinality /\ v[i] = P[i].m_segments
  BY PartSizes
<1>3. /\ y \in Seq(Int) /\ Len(y) = Len(Q) /\ w \in Seq(Int) /\ Len(w) = Len(Q)
      /\ \A i \in 1 .. Len(Q) : y[i] = Q[i].m_cardinality /\ w[i] = Q[i].m_segments
  BY <1>1, PartSizes
<1> HIDE DEF v, w, x, y
<1>4. Len(Q) \in 1 .. Len(Q) /\ \A i \in 1 .. Len(P) : i \in 1 .. Len(Q)
  BY <1>1
<1>5. Len(w) = Len(v) + 1 /\ Len(y) = Len(x) + 1
  BY <1>1, <1>2, <1>3
<1>6. (\A i \in 1 .. Len(v) : w[i] = v[i]) /\ w[Len(w)] = p.m_segments
  BY <1>1, <1>2, <1>3, <1>4
<1>7. (\A i \in 1 .. Len(x) : y[i] = x[i]) /\ y[Len(y)] = p.m_cardinality
  BY <1>1, <1>2, <1>3, <1>4
<1>8. /\ \A i \in 0 .. Len(v) : Sums(w)[i] = Sums(v)[i]
      /\ Sums(w)[Len(w)] = Sums(v)[Len(v)] + w[Len(w)]
  BY <1>2, <1>3, <1>5, <1>6, SumsAppend
<1>9. Sums(y)[Len(y)] = Sums(x)[Len(x)] + y[Len(y)]
  BY <1>2, <1>3, <1>5, <1>7, SumsAppend
<1>10. Sums(v)[Len(v)] \in Int /\ Sums(x)[Len(x)] \in Int
  <2>1. Len(v) \in 0 .. Len(v) /\ Len(x) \in 0 .. Len(x)
    BY <1>1, <1>2
  <2> QED
    BY <1>2, <2>1, SumsFirst
<1>11. Covered(P) = Sums(v)[Len(v)] /\ Covered(Q) = Sums(w)[Len(w)]
  BY <1>2, <1>3 DEF Covered, v, w
<1>12. Covered(P) \in Int /\ Covered(Q) = Covered(P) + p.m_segments
  BY <1>6, <1>8, <1>10, <1>11
<1>13. Sums(x)[Len(P)] \in Int /\ Sums(y)[Len(Q)] = Sums(x)[Len(P)] + p.m_cardinality
  BY <1>2, <1>3, <1>7, <1>9, <1>10
<1>14. \A i \in 0 .. Len(P) : Sums(w)[i] = Sums(v)[i]
  BY <1>2, <1>8
<1> QED
  BY <1>12, <1>13, <1>14 DEF v, w, x, y, Q

(* Without the first call, its elements are no longer pending. *)
LEMMA TailPending ==
    ASSUME NEW length \in Nat, NEW F, FramesSound(F, length), F # <<>>
    PROVE  /\ Sums(Pending(Tail(F)))[Len(Tail(F))] \in Int
           /\ Sums(Pending(F))[Len(F)] = Head(F).cardinality + Sums(Pending(Tail(F)))[Len(Tail(F))]
<1> DEFINE T == Tail(F)
        v == Pending(F)
        w == Pending(T)
<1>1. /\ Len(F) \in Nat \ {0} /\ Head(F) = F[1] /\ Len(T) = Len(F) - 1
      /\ \A i \in 1 .. Len(T) : T[i] = F[i + 1]
  BY TailOf DEF FramesSound
<1>2. FramesSound(T, length)
  BY TailSound
<1> HIDE DEF T
<1>3. v \in Seq(Int) /\ Len(v) = Len(F) /\ \A i \in 1 .. Len(F) : v[i] = F[i].cardinality
  BY PendingSizes
<1>4. w \in Seq(Int) /\ Len(w) = Len(T) /\ Len(T) \in Nat /\ \A i \in 1 .. Len(T) : w[i] = T[i].cardinality
  BY <1>2, PendingSizes
<1> HIDE DEF v, w
<1>5. Len(v) = Len(w) + 1
  BY <1>1, <1>3, <1>4
<1>6. \A i \in 1 .. Len(w) : w[i] = v[i + 1]
  <2>1. \A i \in 1 .. Len(w) : i \in 1 .. Len(T) /\ i + 1 \in 1 .. Len(F)
    BY <1>1, <1>4
  <2> QED
    BY <1>1, <1>3, <1>4, <2>1
<1>7. Sums(v)[Len(v)] = v[1] + Sums(w)[Len(w)]
  BY <1>3, <1>4, <1>5, <1>6, SumsTail
<1>8. v[1] = Head(F).cardinality
  <2>1. 1 \in 1 .. Len(F)
    BY <1>1
  <2> QED
    BY <1>1, <1>3, <2>1
<1>9. Sums(w)[Len(w)] \in Int
  <2>1. Len(w) \in 0 .. Len(w)
    BY <1>4
  <2> QED
    BY <1>4, <2>1, SumsFirst
<1> QED
  BY <1>3, <1>4, <1>7, <1>8, <1>9 DEF v, w, T

(* emit keeps the window shared out. *)
LEMMA EmitShares ==
    ASSUME NEW c, c.length \in Nat, NEW F, FramesSound(F, c.length), F # <<>>,
           NEW P \in Seq(Partition), Shared(P, F, c)
    PROVE  /\ Shared(Append(P, EmittedBy(Head(F))), Tail(F), c)
           /\ Covered(Append(P, EmittedBy(Head(F)))) = Head(F).start + Head(F).length
           /\ Head(F).start = Covered(P)
<1> DEFINE f == Head(F)
        p == EmittedBy(f)
        Q == Append(P, p)
        T == Tail(F)
<1>1. FrameSound(f, c.length)
  <2>1. Head(F) = F[1] /\ 1 \in 1 .. Len(F)
    BY TailOf DEF FramesSound
  <2> QED
    BY <2>1 DEF FramesSound
<1>2. f.start \in Nat /\ f.length \in Nat \ {0} /\ f.cardinality \in Nat /\ \E k \in Nat : f.start = k * f.length
  BY <1>1 DEF FrameSound
<1>3. p \in Partition /\ p.m_segments = f.length /\ p.m_cardinality = f.cardinality
  BY <1>2 DEF Partition, EmittedBy
<1>4. f.start = Covered(P)
  BY DEF Shared
<1>5. f.start + f.length = IF T = <<>> THEN c.length ELSE Head(T).start
  BY TailSound
<1>6. /\ Sums(Pending(T))[Len(T)] \in Int
      /\ Sums(Pending(F))[Len(F)] = f.cardinality + Sums(Pending(T))[Len(T)]
  BY TailPending
<1>7. Sums(Cardinalities(P))[Len(P)] + Sums(Pending(F))[Len(F)] = c.cardinality
  BY DEF Shared
<1>8. \A i \in DOMAIN P : Sums(Lengths(P))[i - 1] % P[i].m_segments = 0
  BY DEF Shared
<1> HIDE DEF f, p, T
<1>9. /\ Covered(Q) = Covered(P) + p.m_segments
      /\ Sums(Cardinalities(P))[Len(P)] \in Int
      /\ Sums(Cardinalities(Q))[Len(Q)] = Sums(Cardinalities(P))[Len(P)] + p.m_cardinality
      /\ \A i \in 0 .. Len(P) : Sums(Lengths(Q))[i] = Sums(Lengths(P))[i]
  BY <1>3, EmitCovers
<1>10. /\ DOMAIN Q = 1 .. (Len(P) + 1) /\ DOMAIN P = 1 .. Len(P) /\ Len(P) \in Nat
       /\ Q[Len(P) + 1] = p /\ \A i \in 1 .. Len(P) : Q[i] = P[i]
  BY <1>3
<1> HIDE DEF Q
<1>11. Covered(Q) = f.start + f.length
  BY <1>3, <1>4, <1>9
<1>12. Sums(Cardinalities(Q))[Len(Q)] + Sums(Pending(T))[Len(T)] = c.cardinality
  <2> DEFINE x == Sums(Cardinalities(P))[Len(P)]
          y == Sums(Pending(T))[Len(T)]
          z == f.cardinality
  <2>1. x \in Int /\ y \in Int /\ z \in Int
    BY <1>2, <1>6, <1>9
  <2>2. x + (z + y) = c.cardinality /\ Sums(Cardinalities(Q))[Len(Q)] = x + z
    BY <1>3, <1>6, <1>7, <1>9
  <2> HIDE DEF x, y, z
  <2>3. (x + z) + y = x + (z + y)
    BY <2>1
  <2>4. (x + z) + y = c.cardinality
    BY <2>2, <2>3
  <2> QED
    BY <2>2, <2>4 DEF y
<1>13. ASSUME NEW i \in 1 .. (Len(P) + 1)
       PROVE  Sums(Lengths(Q))[i - 1] % Q[i].m_segments = 0
  <2>1. i - 1 \in 0 .. Len(P)
    BY <1>10
  <2>2. Sums(Lengths(Q))[i - 1] = Sums(Lengths(P))[i - 1]
    BY <1>9, <2>1
  <2>3. CASE i = Len(P) + 1
    <3>1. i - 1 = Len(P)
      BY <1>10, <2>3
    <3>2. Sums(Lengths(Q))[i - 1] = f.start
      BY <1>4, <2>2, <3>1 DEF Covered
    <3>3. PICK k \in Nat : f.start = k * f.length
      BY <1>2
    <3>4. (k * f.length) % f.length = 0
      BY <1>2, MultipleDivides
    <3>5. Q[i].m_segments = f.length
      BY <1>3, <1>10, <2>3
    <3> QED
      BY <3>2, <3>3, <3>4, <3>5
  <2>4. CASE i # Len(P) + 1
    <3>1. i \in 1 .. Len(P)
      BY <1>10, <2>4
    <3> QED
      BY <1>8, <1>10, <2>2, <3>1
  <2> QED
    BY <2>3, <2>4
<1>14. Shared(Q, T, c)
  <2>1. T # <<>> => Head(T).start = Covered(Q)
    BY <1>5, <1>11
  <2>2. T = <<>> => Covered(Q) = c.length
    BY <1>5, <1>11
  <2> QED
    BY <1>10, <1>12, <1>13, <2>1, <2>2 DEF Shared
<1> QED
  BY <1>4, <1>11, <1>14 DEF f, p, Q, T

(* So does a split. *)
LEMMA SplitShares ==
    ASSUME NEW c, c.length \in Nat, NEW F, FramesSound(F, c.length), F # <<>>,
           NEW P \in Seq(Partition), Shared(P, F, c),
           NEW a, NEW b, Halves(Head(F), a, b, c.length)
    PROVE  Shared(P, <<a, b>> \o Tail(F), c)
<1> DEFINE T == <<a, b>> \o Tail(F)
        v == Pending(F)
        w == Pending(T)
<1>1. /\ Sequence(T) /\ Len(T) = Len(F) + 1 /\ T[1] = a /\ T[2] = b
      /\ \A i \in 2 .. Len(F) : T[i + 1] = F[i]
  BY ReplaceHead DEF FramesSound
<1>2. Len(F) \in Nat \ {0} /\ Head(F) = F[1]
  BY TailOf DEF FramesSound
<1>3. FramesSound(T, c.length)
  BY SplitSound
<1>4. a.start = Head(F).start /\ a.cardinality + b.cardinality = F[1].cardinality
  BY <1>2 DEF Halves
<1> HIDE DEF T
<1>5. v \in Seq(Int) /\ Len(v) = Len(F) /\ \A i \in 1 .. Len(F) : v[i] = F[i].cardinality
  BY PendingSizes
<1>6. w \in Seq(Int) /\ Len(w) = Len(T) /\ \A i \in 1 .. Len(T) : w[i] = T[i].cardinality
  BY <1>3, PendingSizes
<1> HIDE DEF v, w
<1>7. v # <<>> /\ Len(w) = Len(v) + 1
  <2>1. v = <<>> => Len(v) = 0
    OBVIOUS
  <2> QED
    BY <1>1, <1>2, <1>5, <1>6, <2>1
<1>8. w[1] + w[2] = v[1]
  <2>1. 1 \in 1 .. Len(T) /\ 2 \in 1 .. Len(T) /\ 1 \in 1 .. Len(F)
    BY <1>1, <1>2
  <2> QED
    BY <1>1, <1>4, <1>5, <1>6, <2>1
<1>9. \A i \in 2 .. Len(v) : w[i + 1] = v[i]
  <2> SUFFICES ASSUME NEW i \in 2 .. Len(v) PROVE w[i + 1] = v[i]
    OBVIOUS
  <2>1. i \in 2 .. Len(F) /\ i \in 1 .. Len(F) /\ i + 1 \in 1 .. Len(T)
    BY <1>1, <1>2, <1>5
  <2> QED
    BY <1>1, <1>5, <1>6, <2>1
<1>10. Sums(w)[Len(w)] = Sums(v)[Len(v)]
  BY <1>5, <1>6, <1>7, <1>8, <1>9, SumsSplit
<1>11. Sums(Pending(T))[Len(T)] = Sums(Pending(F))[Len(F)]
  BY <1>5, <1>6, <1>10 DEF v, w
<1>12. T # <<>> /\ Head(T) = a
  <2>1. PICK S : T \in Seq(S)
    BY <1>1 DEF Sequence
  <2>2. Len(T) # 0
    BY <1>1, <1>2
  <2> QED
    BY <1>1, <2>1, <2>2
<1>13. Shared(P, T, c)
  BY <1>4, <1>11, <1>12 DEF Shared
<1> QED
  BY <1>13 DEF T

-----------------------------------------------------------------------------
(* The sections that were moved *)

MovesSound(M, F, covered) ==
    /\ M \in Seq(Int \X Nat)
    /\ \A i, j \in DOMAIN M : i # j => M[i][1] # M[j][1] /\ M[i][2] # M[j][2]
    /\ \A i \in DOMAIN M : M[i][2] < covered
    /\ \A i \in DOMAIN M : \A k \in 1 .. Len(F) : M[i][1] \notin Sections(F[k].W)

(* Sections that no call has any more. *)
LEMMA MovesOfFewer ==
    ASSUME NEW M, NEW F, NEW covered \in Nat, MovesSound(M, F, covered),
           NEW T, NEW more \in Nat, covered <= more,
           \A k \in 1 .. Len(T) : \E l \in 1 .. Len(F) : Sections(T[k].W) \subseteq Sections(F[l].W)
    PROVE  MovesSound(M, T, more)
<1>1. M \in Seq(Int \X Nat)
  BY DEF MovesSound
<1>2. \A i \in DOMAIN M : M[i][2] < more
  <2> SUFFICES ASSUME NEW i \in DOMAIN M PROVE M[i][2] < more
    OBVIOUS
  <2>1. M[i] \in Int \X Nat
    BY <1>1
  <2>2. M[i][2] \in Nat /\ M[i][2] < covered
    BY <2>1 DEF MovesSound
  <2> QED
    BY <2>2
<1>3. \A i \in DOMAIN M : \A k \in 1 .. Len(T) : M[i][1] \notin Sections(T[k].W)
  BY DEF MovesSound
<1> QED
  BY <1>1, <1>2, <1>3 DEF MovesSound
(* The calls without the first one. *)
LEMMA MovesOfTail ==
    ASSUME NEW length \in Nat, NEW F, FramesSound(F, length), F # <<>>,
           NEW M, NEW covered \in Nat, MovesSound(M, F, covered), NEW more \in Nat, covered <= more
    PROVE  MovesSound(M, Tail(F), more)
<1> DEFINE T == Tail(F)
<1>1. Len(F) \in Nat \ {0} /\ Len(T) = Len(F) - 1 /\ \A i \in 1 .. Len(T) : T[i] = F[i + 1]
  BY TailOf DEF FramesSound
<1> HIDE DEF T
<1>2. \A k \in 1 .. Len(T) : k + 1 \in 1 .. Len(F) /\ T[k] = F[k + 1]
  BY <1>1
<1>3. \A k \in 1 .. Len(T) : \E l \in 1 .. Len(F) : Sections(T[k].W) \subseteq Sections(F[l].W)
  BY <1>2
<1>4. MovesSound(M, T, more)
  BY <1>3, MovesOfFewer
<1> QED
  BY <1>4 DEF T
(* The calls with two halves in the place of the first one. *)
LEMMA MovesOfSplit ==
    ASSUME NEW length \in Nat, NEW F, FramesSound(F, length), F # <<>>,
           NEW a, NEW b, Halves(Head(F), a, b, length),
           NEW M, NEW covered \in Nat, MovesSound(M, F, covered)
    PROVE  MovesSound(M, <<a, b>> \o Tail(F), covered)
<1> DEFINE T == <<a, b>> \o Tail(F)
<1>1. /\ Len(T) = Len(F) + 1 /\ T[1] = a /\ T[2] = b
      /\ \A i \in 2 .. Len(F) : T[i + 1] = F[i]
  BY ReplaceHead DEF FramesSound
<1>2. Len(F) \in Nat \ {0} /\ Head(F) = F[1]
  BY TailOf DEF FramesSound
<1>3. Sections(a.W) \subseteq Sections(F[1].W) /\ Sections(b.W) \subseteq Sections(F[1].W)
  BY <1>2 DEF Halves
<1> HIDE DEF T
<1>4. ASSUME NEW k \in 1 .. Len(T)
      PROVE  \E l \in 1 .. Len(F) : Sections(T[k].W) \subseteq Sections(F[l].W)
  <2>1. CASE k <= 2
    <3>1. 1 \in 1 .. Len(F) /\ (k = 1 \/ k = 2)
      BY <1>2, <2>1
    <3> QED
      BY <1>1, <1>3, <3>1
  <2>2. CASE k > 2
    <3>1. k - 1 \in 2 .. Len(F) /\ k - 1 \in 1 .. Len(F) /\ (k - 1) + 1 = k
      BY <1>1, <1>2, <2>2
    <3>2. T[k] = F[k - 1]
      BY <1>1, <3>1
    <3> QED
      BY <3>1, <3>2
  <2> QED
    BY <2>1, <2>2
<1>5. covered <= covered
  OBVIOUS
<1>6. MovesSound(M, T, covered)
  BY <1>4, <1>5, MovesOfFewer
<1> QED
  BY <1>6 DEF T

(* The section of the first call moves to the segment the call is about. *)
LEMMA MovesOfSegment ==
    ASSUME NEW length \in Nat, NEW F, FramesSound(F, length), F # <<>>, Head(F).W # <<>>,
           NEW M, MovesSound(M, F, Head(F).start)
    PROVE  MovesSound(Append(M, <<Head(F).W[1].m_associated_segment, Head(F).start>>), Tail(F),
                      Head(F).start + Head(F).length)
<1> DEFINE f == Head(F)
        T == Tail(F)
        section == f.W[1].m_associated_segment
        more == f.start + f.length
        m == <<section, f.start>>
        N == Append(M, m)
<1>1. /\ Len(F) \in Nat \ {0} /\ f = F[1] /\ Len(T) = Len(F) - 1
      /\ \A i \in 1 .. Len(T) : T[i] = F[i + 1]
  BY TailOf DEF FramesSound
<1>2. FrameSound(f, length)
  <2>1. 1 \in 1 .. Len(F)
    BY <1>1
  <2> QED
    BY <1>1, <2>1 DEF FramesSound
<1>3. f.start \in Nat /\ f.length \in Nat \ {0} /\ f.W \in Seq(Interval)
  BY <1>2 DEF FrameSound
<1>4. more \in Nat /\ f.start <= more /\ f.start < more
  BY <1>3
<1>5. section \in Int /\ section \in Sections(f.W)
  <2>1. Len(f.W) \in Nat \ {0} /\ 1 \in 1 .. Len(f.W)
    BY <1>3
  <2>2. f.W[1] \in Interval
    BY <1>3, <2>1
  <2> QED
    BY <2>1, <2>2 DEF Interval, Sections
<1>6. MovesSound(M, T, more)
  BY <1>3, <1>4, MovesOfTail
<1>7. /\ \A i \in DOMAIN M : M[i][2] < f.start
      /\ \A i \in DOMAIN M : M[i][1] # section
  <2>1. 1 \in 1 .. Len(F)
    BY <1>1
  <2> QED
    BY <1>1, <1>5, <2>1 DEF MovesSound
<1>8. \A k \in 1 .. Len(T) : section \notin Sections(T[k].W)
  <2> SUFFICES ASSUME NEW k \in 1 .. Len(T) PROVE section \notin Sections(T[k].W)
    OBVIOUS
  <2>1. k + 1 \in 1 .. Len(F) /\ 1 \in 1 .. Len(F) /\ k + 1 # 1 /\ T[k] = F[k + 1]
    BY <1>1
  <2>2. Sections(F[k + 1].W) \cap Sections(F[1].W) = {}
    BY <2>1 DEF FramesSound
  <2> QED
    BY <1>1, <1>5, <2>1, <2>2
<1>9. M \in Seq(Int \X Nat)
  BY DEF MovesSound
<1> HIDE DEF f, T, section, more
<1>10. m \in Int \X Nat /\ m[1] = section /\ m[2] = f.start
  BY <1>3, <1>5
<1> HIDE DEF m
<1>11. /\ N \in Seq(Int \X Nat) /\ DOMAIN N = 1 .. (Len(M) + 1) /\ DOMAIN M = 1 .. Len(M) /\ Len(M) \in Nat
       /\ N[Len(M) + 1] = m /\ \A i \in 1 .. Len(M) : N[i] = M[i]
  BY <1>9, <1>10
<1> HIDE DEF N
<1>12. \A i \in DOMAIN N : i = Len(M) + 1 \/ i \in DOMAIN M
  BY <1>11
<1>13. \A i \in DOMAIN M : M[i][2] \in Nat /\ M[i][2] < f.start /\ M[i][2] # f.start
  <2> SUFFICES ASSUME NEW i \in DOMAIN M PROVE M[i][2] \in Nat /\ M[i][2] < f.start /\ M[i][2] # f.start
    OBVIOUS
  <2>1. M[i] \in Int \X Nat
    BY <1>9
  <2>2. M[i][2] \in Nat /\ M[i][2] < f.start
    BY <1>7, <2>1
  <2> QED
    BY <1>3, <2>2
<1>14. ASSUME NEW i \in DOMAIN N, NEW j \in DOMAIN N, i # j
       PROVE  N[i][1] # N[j][1] /\ N[i][2] # N[j][2]
  <2>1. CASE i \in DOMAIN M /\ j \in DOMAIN M
    <3>1. M[i][1] # M[j][1] /\ M[i][2] # M[j][2]
      BY <1>14, <2>1 DEF MovesSound
    <3>2. N[i] = M[i] /\ N[j] = M[j]
      BY <1>11, <2>1
    <3> QED
      BY <3>1, <3>2, Zenon
  <2>2. CASE i = Len(M) + 1 /\ j \in DOMAIN M
    <3>1. N[i] = m /\ N[j] = M[j]
      BY <1>11, <2>2
    <3>2. m[1] # M[j][1] /\ m[2] # M[j][2]
      BY <1>7, <1>10, <1>13, <2>2
    <3> QED
      BY <3>1, <3>2, Zenon
  <2>3. CASE i \in DOMAIN M /\ j = Len(M) + 1
    <3>1. N[j] = m /\ N[i] = M[i]
      BY <1>11, <2>3
    <3>2. M[i][1] # m[1] /\ M[i][2] # m[2]
      BY <1>7, <1>10, <1>13, <2>3
    <3> QED
      BY <3>1, <3>2, Zenon
  <2> QED
    BY <1>12, <1>14, <2>1, <2>2, <2>3
<1>15. ASSUME NEW i \in DOMAIN N
       PROVE  N[i][2] < more /\ \A k \in 1 .. Len(T) : N[i][1] \notin Sections(T[k].W)
  <2>1. CASE i = Len(M) + 1
    <3>1. N[i] = m
      BY <1>11, <2>1
    <3> QED
      BY <1>4, <1>8, <1>10, <3>1
  <2>2. CASE i \in DOMAIN M
    <3>1. N[i] = M[i]
      BY <1>11, <2>2
    <3>2. M[i][2] < more /\ \A k \in 1 .. Len(T) : M[i][1] \notin Sections(T[k].W)
      BY <1>6, <2>2 DEF MovesSound
    <3> QED
      BY <3>1, <3>2
  <2> QED
    BY <1>12, <2>1, <2>2
<1>16. MovesSound(N, T, more)
  BY <1>11, <1>14, <1>15 DEF MovesSound
<1> QED
  BY <1>16 DEF N, T, more, m, section, f

-----------------------------------------------------------------------------
(* The inductive invariant *)

Inv ==
    /\ case \in Cases
    /\ FramesSound(frames, case.length)
    /\ PartsSound(m_partitions)
    /\ Shared(m_partitions, frames, case)
    /\ MovesSound(moved, frames, Covered(m_partitions))

(* A case is a window of the calibrator tree that respects its thresholds. *)
LEMMA CaseSound ==
    ASSUME AdaptiveAssumption, NEW c \in Cases
    PROVE  /\ c.length \in Nat \ {0} /\ IsPowerOfTwo(c.length)
           /\ c.cardinality \in Nat /\ Admitted(c.length, c.cardinality)
           /\ c.weights \in Seq(Interval) /\ Apart(c.weights, c.cardinality)
BY DEF AdaptiveAssumption

(* The sums of no partition. *)
LEMMA EmptySums == Covered(<<>>) = 0 /\ Sums(Cardinalities(<<>>))[Len(<<>>)] = 0
<1>1. <<>> \in Seq(Partition) /\ Len(<<>>) = 0
  OBVIOUS
<1>2. Cardinalities(<<>>) \in Seq(Int) /\ Lengths(<<>>) \in Seq(Int)
  BY <1>1, PartSizes
<1>3. Sums(Cardinalities(<<>>))[0] = 0 /\ Sums(Lengths(<<>>))[0] = 0
  BY <1>2, SumsFirst
<1> QED
  BY <1>1, <1>3 DEF Covered

(* The invariant holds when the constructor calls recursion. *)
LEMMA InvInit ==
    ASSUME AdaptiveAssumption, Init
    PROVE  Inv
<1> DEFINE f == [start |-> 0, length |-> case.length, W |-> case.weights,
                 balance |-> case.balance, cardinality |-> case.cardinality]
        F == <<f>>
<1>1. case \in Cases /\ frames = F /\ m_partitions = <<>> /\ moved = <<>>
  BY DEF Init
<1>2. /\ case.length \in Nat \ {0} /\ IsPowerOfTwo(case.length)
      /\ case.cardinality \in Nat /\ Admitted(case.length, case.cardinality)
      /\ case.weights \in Seq(Interval) /\ Apart(case.weights, case.cardinality)
  BY <1>1, CaseSound
<1>3. /\ f.start = 0 /\ f.length = case.length /\ f.W = case.weights
      /\ f.cardinality = case.cardinality
  OBVIOUS
<1> HIDE DEF f
<1>4. Sequence(F) /\ Len(F) = 1 /\ F[1] = f /\ F # <<>> /\ Head(F) = f
  <2>1. F \in Seq({f})
    OBVIOUS
  <2>2. Sequence(F)
    BY <2>1 DEF Sequence
  <2> QED
    BY <2>2
<1>5. FrameSound(f, case.length)
  <2>1. f.start = 0 * f.length /\ 0 \in Nat
    BY <1>2, <1>3
  <2>2. \E k \in Nat : f.start = k * f.length
    BY <2>1
  <2>3. f.length \in 1 .. case.length
    BY <1>2, <1>3
  <2> QED
    BY <1>2, <1>3, <2>2, <2>3 DEF FrameSound
<1> HIDE DEF F
<1>6. FramesSound(F, case.length)
  <2>1. F[1].start + F[1].length = case.length
    BY <1>2, <1>3, <1>4
  <2>2. \A i \in 1 .. Len(F) : i = 1 /\ ~ (i < Len(F))
    BY <1>4
  <2> QED
    BY <1>4, <1>5, <2>1, <2>2 DEF FramesSound
<1>7. PartsSound(<<>>)
  BY DEF PartsSound
<1>8. Shared(<<>>, F, case)
  <2> DEFINE v == Pending(F)
  <2>1. v \in Seq(Int) /\ Len(v) = Len(F) /\ \A i \in 1 .. Len(F) : v[i] = F[i].cardinality
    BY <1>6, PendingSizes
  <2> HIDE DEF v
  <2>2. 1 \in 1 .. Len(v) /\ 1 - 1 = 0 /\ 1 \in 1 .. Len(F)
    BY <1>4, <2>1
  <2>3. Sums(v)[1] = Sums(v)[1 - 1] + v[1] /\ Sums(v)[0] = 0
    BY <2>1, <2>2, SumsFirst
  <2>4. v[1] = case.cardinality
    BY <1>3, <1>4, <2>1, <2>2
  <2>5. Sums(v)[Len(F)] = case.cardinality
    BY <1>2, <1>4, <2>2, <2>3, <2>4
  <2>6. Sums(Cardinalities(<<>>))[Len(<<>>)] + Sums(Pending(F))[Len(F)] = case.cardinality
    BY <1>2, <2>5, EmptySums DEF v
  <2>7. Head(F).start = Covered(<<>>)
    BY <1>3, <1>4, EmptySums
  <2> QED
    BY <1>4, <2>6, <2>7 DEF Shared
<1>9. MovesSound(<<>>, F, Covered(<<>>))
  BY DEF MovesSound
<1> QED
  BY <1>1, <1>6, <1>7, <1>8, <1>9 DEF Inv

(* What holds of the first call. *)
LEMMA CallSound ==
    ASSUME AdaptiveAssumption, Inv, frames # <<>>
    PROVE  /\ case \in Cases /\ case.length \in Nat \ {0}
           /\ Call = Head(frames) /\ FrameSound(Call, case.length)
           /\ Call.start \in Nat /\ Call.length \in Nat \ {0} /\ Call.start + Call.length \in Nat
           /\ m_partitions \in Seq(Partition)
           /\ Call.start = Covered(m_partitions)
<1>1. case \in Cases /\ FramesSound(frames, case.length) /\ m_partitions \in Seq(Partition)
  BY DEF Inv, PartsSound
<1>2. case.length \in Nat \ {0}
  BY <1>1, CaseSound
<1>3. Head(frames) = frames[1] /\ 1 \in 1 .. Len(frames)
  BY <1>1, TailOf DEF FramesSound
<1>4. FrameSound(Call, case.length)
  BY <1>1, <1>3 DEF FramesSound, Call
<1>5. Call.start \in Nat /\ Call.length \in Nat \ {0}
  BY <1>2, <1>4 DEF FrameSound
<1>6. Call.start = Covered(m_partitions)
  BY DEF Inv, Shared, Call
<1> QED
  BY <1>1, <1>2, <1>4, <1>5, <1>6 DEF Call

(* emit, with what becomes of the sections. *)
LEMMA EmitStep ==
    ASSUME AdaptiveAssumption, Inv, frames # <<>>, Emit, case' = case,
           MovesSound(moved', Tail(frames), Call.start + Call.length)
    PROVE  Inv'
<1> DEFINE Q == Append(m_partitions, EmittedBy(Call))
        T == Tail(frames)
<1>1. m_partitions' = Q /\ frames' = T
  BY DEF Emit, EmittedBy
<1>2. /\ case \in Cases /\ case.length \in Nat
      /\ Call = Head(frames) /\ FrameSound(Call, case.length) /\ m_partitions \in Seq(Partition)
  BY CallSound
<1>3. FramesSound(frames, case.length) /\ PartsSound(m_partitions) /\ Shared(m_partitions, frames, case)
  BY DEF Inv
<1>4. FramesSound(T, case.length)
  BY <1>2, <1>3, TailSound
<1>5. PartsSound(Q)
  BY <1>2, <1>3, EmitSound
<1>6. Shared(Q, T, case) /\ Covered(Q) = Call.start + Call.length
  BY <1>2, <1>3, EmitShares
<1> HIDE DEF Q, T
<1>7. MovesSound(moved', T, Covered(Q))
  BY <1>6 DEF T
<1> QED
  BY <1>1, <1>2, <1>4, <1>5, <1>6, <1>7 DEF Inv

(* A part of one segment. *)
LEMMA EmitSegmentStep ==
    ASSUME AdaptiveAssumption, Inv, EmitSegment
    PROVE  Inv'
<1> DEFINE more == Call.start + Call.length
<1>1. frames # <<>> /\ Emit /\ case' = case
  BY DEF EmitSegment
<1>2. /\ case.length \in Nat /\ Call = Head(frames) /\ Call.start \in Nat /\ Call.length \in Nat \ {0}
      /\ more \in Nat /\ Call.start = Covered(m_partitions)
  BY <1>1, CallSound
<1>3. FramesSound(frames, case.length) /\ MovesSound(moved, frames, Call.start)
  BY <1>2 DEF Inv
<1>4. CASE Call.W # <<>> /\ Call.W[1].m_associated_segment # Call.start
  <2>1. moved' = Append(moved, <<Call.W[1].m_associated_segment, Call.start>>)
    BY <1>4 DEF EmitSegment
  <2>2. MovesSound(moved', Tail(frames), more)
    BY <1>1, <1>2, <1>3, <1>4, <2>1, MovesOfSegment
  <2> QED
    BY <1>1, <2>2, EmitStep
<1>5. CASE ~ (Call.W # <<>> /\ Call.W[1].m_associated_segment # Call.start)
  <2>1. moved' = moved
    BY <1>5 DEF EmitSegment
  <2>2. Call.start <= more
    BY <1>2
  <2>3. MovesSound(moved, Tail(frames), more)
    BY <1>1, <1>2, <1>3, <2>2, MovesOfTail
  <2> QED
    BY <1>1, <2>1, <2>3, EmitStep
<1> QED
  BY <1>4, <1>5

(* A part that is spread evenly. *)
LEMMA EmitEvenlyStep ==
    ASSUME AdaptiveAssumption, Inv, EmitEvenly
    PROVE  Inv'
<1> DEFINE more == Call.start + Call.length
<1>1. frames # <<>> /\ Emit /\ case' = case /\ moved' = moved
  BY DEF EmitEvenly
<1>2. /\ case.length \in Nat /\ Call = Head(frames) /\ Call.start \in Nat /\ Call.length \in Nat \ {0}
      /\ more \in Nat /\ Call.start = Covered(m_partitions)
  BY <1>1, CallSound
<1>3. FramesSound(frames, case.length) /\ MovesSound(moved, frames, Call.start)
  BY <1>2 DEF Inv
<1>4. Call.start <= more
  BY <1>2
<1>5. MovesSound(moved, Tail(frames), more)
  BY <1>1, <1>2, <1>3, <1>4, MovesOfTail
<1> QED
  BY <1>1, <1>5, EmitStep

(* A part that is halved. *)
LEMMA SplitStep ==
    ASSUME AdaptiveAssumption, Inv, Split
    PROVE  Inv'
<1> DEFINE r == validate_thresholds(Call.length, HeightOf(Call.length), Call.W, Call.cardinality,
                                    find_optimum(Call.W, Call.balance, Call.cardinality))
        a == Children(r)[1]
        b == Children(r)[2]
        T == <<a, b>> \o Tail(frames)
<1>1. /\ frames # <<>> /\ Call.length > 1 /\ Call.W # <<>>
      /\ frames' = Children(r) \o Tail(frames)
      /\ case' = case /\ m_partitions' = m_partitions /\ moved' = moved
  BY DEF Split, SpreadsEvenly
<1>2. /\ case \in Cases /\ case.length \in Nat \ {0} /\ Call = Head(frames) /\ FrameSound(Call, case.length)
      /\ Call.start \in Nat /\ m_partitions \in Seq(Partition) /\ Call.start = Covered(m_partitions)
  BY <1>1, CallSound
<1>3. /\ FramesSound(frames, case.length) /\ PartsSound(m_partitions)
      /\ Shared(m_partitions, frames, case) /\ MovesSound(moved, frames, Covered(m_partitions))
  BY DEF Inv
<1>4. Valid(Lo(Call.length, Call.cardinality), Hi(Call.length, Call.cardinality), Call.W, Call.cardinality, r)
  <2>1. /\ Call.length \in 2 .. case.length /\ IsPowerOfTwo(Call.length) /\ Call.cardinality \in Nat
        /\ Admitted(Call.length, Call.cardinality) /\ Call.W \in Seq(Interval)
        /\ Apart(Call.W, Call.cardinality)
    BY <1>1, <1>2 DEF FrameSound
  <2>2. case.length \in Nat
    BY <1>2
  <2> QED
    BY <1>1, <1>2, <2>1, <2>2, SplitValid
<1> HIDE DEF r
<1>5. Children(r) = <<a, b>> /\ LeftCall(Call, r, a) /\ RightCall(Call, r, b)
  BY DEF Children, LeftCall, RightCall
<1> HIDE DEF a, b
<1>6. frames' = T
  BY <1>1, <1>5
<1>7. Halves(Call, a, b, case.length)
  BY <1>1, <1>2, <1>4, <1>5, ChildrenAreHalves
<1>8. Halves(Head(frames), a, b, case.length)
  BY <1>2, <1>7
<1>9. FramesSound(T, case.length)
  BY <1>1, <1>2, <1>3, <1>8, SplitSound
<1>10. Shared(m_partitions, T, case)
  BY <1>1, <1>2, <1>3, <1>8, SplitShares
<1>11. Covered(m_partitions) \in Nat
  BY <1>2
<1>12. MovesSound(moved, T, Covered(m_partitions))
  BY <1>1, <1>2, <1>3, <1>8, <1>11, MovesOfSplit
<1> HIDE DEF T
<1> QED
  BY <1>1, <1>2, <1>3, <1>6, <1>9, <1>10, <1>12 DEF Inv

(* Every step keeps the invariant. *)
LEMMA InvNext ==
    ASSUME AdaptiveAssumption, Inv, [Next]_vars
    PROVE  Inv'
<1>1. CASE EmitSegment
  BY <1>1, EmitSegmentStep
<1>2. CASE EmitEvenly
  BY <1>2, EmitEvenlyStep
<1>3. CASE Split
  BY <1>3, SplitStep
<1>4. CASE UNCHANGED vars
  BY <1>4 DEF Inv, vars
<1> QED
  BY <1>1, <1>2, <1>3, <1>4 DEF Next, Released

(* The invariant implies the properties of the partitions. *)
LEMMA InvShares ==
    ASSUME AdaptiveAssumption, Inv
    PROVE  WindowShared
<1>1. /\ case \in Cases /\ FramesSound(frames, case.length) /\ m_partitions \in Seq(Partition)
      /\ Shared(m_partitions, frames, case)
  BY DEF Inv, PartsSound
<1>2. case.length \in Nat \ {0}
  BY <1>1, CaseSound
<1>3. DOMAIN frames = 1 .. Len(frames)
  <2>1. PICK S : frames \in Seq(S)
    BY <1>1 DEF FramesSound, Sequence
  <2> QED
    BY <2>1
<1>4. TypeInv
  <2>1. \A i \in DOMAIN frames : FrameSound(frames[i], case.length)
    BY <1>1, <1>3 DEF FramesSound
  <2>2. \A i \in DOMAIN frames :
          /\ frames[i].start \in Nat /\ frames[i].length \in Nat \ {0}
          /\ frames[i].cardinality \in Nat
    BY <1>2, <2>1 DEF FrameSound
  <2>3. \A i \in DOMAIN m_partitions : m_partitions[i].m_segments \in Nat \ {0}
    <3>1. \A i \in DOMAIN m_partitions : m_partitions[i] \in Partition
      BY <1>1
    <3> QED
      BY <3>1 DEF Partition
  <2> QED
    BY <2>2, <2>3 DEF TypeInv
<1>5. PartitionsFit
  BY DEF Inv, PartsSound, PartitionsFit
<1>6. NothingLost
  BY <1>1, SharedIsNothingLost
<1> QED
  BY <1>4, <1>5, <1>6 DEF WindowShared

(* The invariant implies the properties of the intervals. *)
LEMMA InvIntervals ==
    ASSUME Inv
    PROVE  IntervalsSound
<1>1. FramesSound(frames, case.length) /\ MovesSound(moved, frames, Covered(m_partitions))
  BY DEF Inv
<1>2. DOMAIN frames = 1 .. Len(frames)
  <2>1. PICK S : frames \in Seq(S)
    BY <1>1 DEF FramesSound, Sequence
  <2> QED
    BY <2>1
<1>3. NoUnsignedWrap
  <2> SUFFICES ASSUME NEW i \in DOMAIN frames, NEW k \in DOMAIN frames[i].W
               PROVE  /\ 0 <= frames[i].W[k].m_start
                      /\ frames[i].W[k].m_start <= frames[i].cardinality
                      /\ frames[i].W[k].m_length > 0
    BY DEF NoUnsignedWrap
  <2> DEFINE W == frames[i].W
  <2>1. W \in Seq(Interval) /\ frames[i].cardinality \in Nat /\ Apart(W, frames[i].cardinality)
    BY <1>1, <1>2 DEF FramesSound, FrameSound
  <2>2. k \in 1 .. Len(W)
    BY <2>1
  <2> HIDE DEF W
  <2>3. W[k].m_start \in Nat /\ W[k].m_length \in Nat \ {0} /\ W[k].m_start <= frames[i].cardinality
    BY <2>1, <2>2, Ordered
  <2>4. 0 <= W[k].m_start /\ W[k].m_length > 0
    BY <2>3
  <2> QED
    BY <2>3, <2>4 DEF W
<1>4. MovesAreDistinct
  BY <1>1 DEF MovesSound, MovesAreDistinct
<1> QED
  BY <1>3, <1>4 DEF IntervalsSound

-----------------------------------------------------------------------------
(* The partitions of AdaptiveRebalancing tile the window from left to right, share out     *)
(* exactly its elements, start at multiples of their lengths, hold no more elements than    *)
(* they have slots, which is the assertion of emit, and no fewer than they have segments.   *)
THEOREM WindowSharing ==
    ASSUME AdaptiveAssumption
    PROVE  Spec => []WindowShared
<1>1. Init => Inv
  BY InvInit
<1>2. Inv /\ [Next]_vars => Inv'
  BY InvNext
<1>3. Inv => WindowShared
  BY InvShares
<1> QED
  BY <1>1, <1>2, <1>3, PTL DEF Spec

(* No start of an interval wraps around below zero or leaves its part, however the split    *)
(* points cut and shift the intervals, and MoveDetectorInfo is never told to move a section *)
(* twice, or two sections to the same segment.                                              *)
THEOREM IntervalSafety ==
    ASSUME AdaptiveAssumption
    PROVE  Spec => []IntervalsSound
<1>1. Init => Inv
  BY InvInit
<1>2. Inv /\ [Next]_vars => Inv'
  BY InvNext
<1>3. Inv => IntervalsSound
  BY InvIntervals
<1> QED
  BY <1>1, <1>2, <1>3, PTL DEF Spec
=============================================================================
